-------------------------- MODULE InMemoryRateLimiter --------------------------
(***************************************************************************)
(* The test double of the rate limiter (infrastructure/rate-limit/           *)
(* in-memory-rate-limiter.ts), beside the script that Redis runs.  The        *)
(* double stops counting at the limit and looks at the limit before it        *)
(* counts; the script counts first and goes on counting.                      *)
(***************************************************************************)
EXTENDS RedisRateLimiter

\* An entry of the double's Map for this counter, with resetAt relative to now;
\* entries whose time is over are as good as absent (count 0).
MemoryEntry(k) ==
  IF k.count = 0 THEN [count |-> 0, left |-> 0]
                 ELSE [count |-> Min({k.count, MaxRequests}), left |-> k.ttl]

\* consume() of the double: the entry it leaves, and its answer.
MemoryConsume(entry) ==
  IF entry.count = 0
    THEN [entry |-> [count |-> 1, left |-> Window], allowed |-> TRUE, retryAfter |-> 0]
  ELSE IF entry.count >= MaxRequests
    THEN [entry |-> entry, allowed |-> FALSE,
          retryAfter |->
            Max({1, (entry.left + TicksPerSecond - 1) \div TicksPerSecond})]
    ELSE [entry |-> [count |-> entry.count + 1, left |-> entry.left], allowed |-> TRUE,
          retryAfter |-> 0]

\* In every state of the shared counter that has its expiry, after orphaned scripts
\* and refusals, the double decides the next request as the script does, gives the
\* same Retry-After, and is left in the entry that stands for the script's counter:
\* from there the two go on alike.
DoubleAgreesWithScript ==
  (key.count = 0 \/ key.ttl # NoExpiry) =>
    LET double == MemoryConsume(MemoryEntry(key))
        script == RunScript(key)
    IN  /\ double.entry = MemoryEntry(script)
        /\ double.allowed = IsAllowed(script)
        /\ double.retryAfter = IF IsAllowed(script) THEN 0 ELSE RetryAfter(script)
===============================================================================
