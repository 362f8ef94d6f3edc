--------------------------- MODULE RedisRateLimiter ---------------------------
(***************************************************************************)
(* The fixed-window rate limiter (infrastructure/rate-limit/               *)
(* redis-rate-limiter.ts) as requests of one service, spread over the API's *)
(* replicas, use it.  Subjects have separate keys, so one is modelled.      *)
(*                                                                         *)
(* Redis runs the script atomically; a request that waits too long for it   *)
(* is let through, and its script may still run afterwards.  Times are      *)
(* countdowns in ticks, so the model needs no bound on the clock.           *)
(***************************************************************************)
EXTENDS Integers, FiniteSetsExt

CONSTANTS
  Callers,         \* request slots, on any replica
  MaxRequests,     \* maxRequests
  Window,          \* windowMs, in ticks
  TicksPerSecond,  \* the resolution of Retry-After
  MaxOrphans       \* bound on the scripts outstanding for nobody

\* The constructor's checks.
ASSUME LimiterConfigAssumption ==
  /\ MaxRequests \in Nat \ {0}
  /\ Window \in Nat \ {0}
  /\ TicksPerSecond \in Nat \ {0}
  /\ MaxOrphans \in Nat

VARIABLES
  key,        \* the counter in Redis; count = 0 when the key does not exist
  admitted,   \* requests the script has admitted since the key was created
  calls,      \* what each request is doing
  orphans,    \* scripts whose request has given up
  foreign     \* the key's expiry has been removed from outside

vars == <<key, admitted, calls, orphans, foreign>>

NoExpiry == -1

NoKey == [count |-> 0, ttl |-> NoExpiry]

\* Counts beyond the limit are all alike.
Key == [count : 0..(MaxRequests + 1), ttl : NoExpiry..Window]

\* wait: what is left of the Retry-After of a refusal; current: the key that caused
\* it has not expired or been given a new expiry since.
Call ==
  [phase : {"idle", "awaiting", "allowed", "refused", "failed_open"},
   wait : Nat, current : BOOLEAN]

Idle == [phase |-> "idle", wait |-> 0, current |-> FALSE]

Init ==
  /\ key = NoKey
  /\ admitted = 0
  /\ calls = [c \in Callers |-> Idle]
  /\ orphans = 0
  /\ foreign = FALSE

-------------------------------------------------------------------------------
\* Mutant: the script does not look at the TTL of an existing key.
RunScriptUnhealed(k) ==
  LET count == Min({k.count + 1, MaxRequests + 1})
  IN  [count |-> count, ttl |-> IF count = 1 THEN Window ELSE k.ttl]

\* Mutant: every request pushes the expiry back by a window.
RunScriptExtending(k) ==
  [count |-> Min({k.count + 1, MaxRequests + 1}),
   ttl |-> IF k.ttl < 0 THEN Window ELSE k.ttl + Window]

\* consumeFixedWindowScript: INCR; PEXPIRE for a new key; PEXPIRE again if the key
\* turns out to have no expiry.
RunScript(k) ==
  LET count == Min({k.count + 1, MaxRequests + 1})
      ttl   == IF count = 1 THEN Window ELSE k.ttl
  IN  [count |-> count, ttl |-> IF ttl < 0 THEN Window ELSE ttl]

\* Mutant: an off-by-one in the comparison with the limit.
IsAllowedOnceMore(k) == k.count <= MaxRequests + 1

\* consume(): what the count and the TTL that the script returned mean.
IsAllowed(k) == k.count <= MaxRequests

\* Mutant: the seconds are rounded down.
RetryAfterFloor(k) == Max({1, k.ttl \div TicksPerSecond})

\* Math.max(1, Math.ceil(ttlMs / 1000))
RetryAfter(k) == Max({1, (k.ttl + TicksPerSecond - 1) \div TicksPerSecond})

-------------------------------------------------------------------------------
\* applyRateLimit: the request sends the script.
Consume(c) ==
  /\ calls[c].phase = "idle"
  /\ calls' = [calls EXCEPT ![c].phase = "awaiting"]
  /\ UNCHANGED <<key, admitted, orphans, foreign>>

\* A key without expiry is given one: earlier refusals spoke of another window.
Outdated(call, k) ==
  [call EXCEPT !.current = @ /\ ~(k.count > 0 /\ k.ttl = NoExpiry)]

\* The script runs and its reply arrives in time.
ScriptReplies(c) ==
  /\ calls[c].phase = "awaiting"
  /\ LET k == RunScript(key)
     IN  /\ key' = k
         /\ admitted' = IF IsAllowed(k) THEN Min({admitted + 1, MaxRequests + 1})
                                        ELSE admitted
         /\ calls' = [d \in Callers |->
              IF d # c THEN Outdated(calls[d], key)
              ELSE IF IsAllowed(k)
                THEN [phase |-> "allowed", wait |-> 0, current |-> FALSE]
                ELSE [phase |-> "refused", wait |-> RetryAfter(k) * TicksPerSecond,
                      current |-> TRUE]]
  /\ UNCHANGED <<orphans, foreign>>

\* Redis fails, or the deadline of the command passes: fail-open.  The script is
\* lost, has already run, or is still on its way.
ConsumeFails(c) ==
  /\ calls[c].phase = "awaiting"
  /\ calls' = [calls EXCEPT ![c].phase = "failed_open"]
  /\ orphans' \in {orphans} \cup ({orphans + 1} \cap 0..MaxOrphans)
  /\ UNCHANGED <<key, admitted, foreign>>

\* A script runs for a request that no longer waits for it.
OrphanRuns ==
  /\ orphans > 0
  /\ orphans' = orphans - 1
  /\ key' = RunScript(key)
  /\ calls' = [d \in Callers |-> Outdated(calls[d], key)]
  /\ UNCHANGED <<admitted, foreign>>

\* The request proceeds, or is answered 429; its slot is free.  (A refused client
\* may come back before its Retry-After is over.)
Finish(c) ==
  /\ calls[c].phase \in {"allowed", "refused", "failed_open"}
  /\ calls' = [calls EXCEPT ![c] = Idle]
  /\ UNCHANGED <<key, admitted, orphans, foreign>>

\* External: time passes; Redis removes a key whose time to live is over.
Tick ==
  LET ends == key.count > 0 /\ key.ttl = 1
  IN  /\ key' = IF ends THEN NoKey
                ELSE [key EXCEPT !.ttl = IF @ = NoExpiry THEN @ ELSE @ - 1]
      /\ admitted' = IF ends THEN 0 ELSE admitted
      /\ calls' = [c \in Callers |->
           [calls[c] EXCEPT !.wait = IF @ = 0 THEN 0 ELSE @ - 1,
                            !.current = @ /\ ~ends]]
      /\ UNCHANGED <<orphans, foreign>>

\* External: once, the key's expiry is lost.
ExpiryLost ==
  /\ ~foreign
  /\ key.count > 0
  /\ foreign' = TRUE
  /\ key' = [key EXCEPT !.ttl = NoExpiry]
  /\ UNCHANGED <<admitted, calls, orphans>>

Next ==
  \/ \E c \in Callers :
       Consume(c) \/ ScriptReplies(c) \/ ConsumeFails(c) \/ Finish(c)
  \/ OrphanRuns
  \/ Tick
  \/ ExpiryLost

Spec == Init /\ [][Next]_vars

\* The service keeps sending requests; a request's script replies or its deadline
\* passes; time passes.
FairSpec ==
  /\ Spec
  /\ WF_vars(Tick)
  /\ \A c \in Callers :
       /\ WF_vars(Consume(c))
       /\ WF_vars(ScriptReplies(c) \/ ConsumeFails(c))
       /\ WF_vars(Finish(c))

-------------------------------------------------------------------------------
(* Properties                                                               *)

TypeOK ==
  /\ key \in Key
  /\ admitted \in 0..(MaxRequests + 1)
  /\ calls \in [Callers -> Call]
  /\ orphans \in 0..MaxOrphans
  /\ foreign \in BOOLEAN

\* In one window the script admits at most MaxRequests requests over all replicas,
\* each of them counted: scripts that run for nobody use up the quota, they never
\* add to it.
QuotaHolds ==
  /\ admitted <= MaxRequests
  /\ admitted <= key.count

\* A refusal that has not been outdated speaks of the key that is there.
RefusalHasKey == \A c \in Callers : calls[c].current => key.count > 0

\* The counter in Redis, what was admitted on it and what was refused because of it.
LimiterInvariant == TypeOK /\ QuotaHolds /\ RefusalHasKey

\* Retry-After is long enough: a client that waits for it finds the window that
\* refused it over (unless the key's expiry was tampered with in between).
RetryAfterIsEnough ==
  \A c \in Callers :
    (calls[c].phase = "refused" /\ calls[c].current) => key.ttl <= calls[c].wait

\* A service that keeps asking is not locked out: requests are let through again
\* and again, even when the key has lost its expiry.
NotLockedOut ==
  []<>(\E c \in Callers : calls[c].phase \in {"allowed", "failed_open"})
===============================================================================
