--------------------------- MODULE RateLimiterProofs ---------------------------
(***************************************************************************)
(* The fixed-window limiter for any number of callers, any limit, window and *)
(* resolution: the quota holds, Retry-After is long enough, and the test     *)
(* double decides as the script does.                                        *)
(***************************************************************************)
EXTENDS InMemoryRateLimiter, TLAPS

\* The smaller of two numbers.
LEMMA MinOfTwo ==
  ASSUME NEW a \in Int, NEW b \in Int
  PROVE  Min({a, b}) = IF a <= b THEN a ELSE b
  <1>1. PICK m \in {a, b} : \A y \in {a, b} : m <= y
    <2>1. CASE a <= b
      BY <2>1
    <2>2. CASE ~(a <= b)
      BY <2>2
    <2> QED
      BY <2>1, <2>2
  <1>2. Min({a, b}) \in {a, b} /\ \A y \in {a, b} : Min({a, b}) <= y
    BY <1>1 DEF Min
  <1> QED
    BY <1>2

\* The larger of two numbers.
LEMMA MaxOfTwo ==
  ASSUME NEW a \in Int, NEW b \in Int
  PROVE  Max({a, b}) = IF a >= b THEN a ELSE b
  <1>1. PICK m \in {a, b} : \A y \in {a, b} : m >= y
    <2>1. CASE a >= b
      BY <2>1
    <2>2. CASE ~(a >= b)
      BY <2>2
    <2> QED
      BY <2>1, <2>2
  <1>2. Max({a, b}) \in {a, b} /\ \A y \in {a, b} : Max({a, b}) >= y
    BY <1>1 DEF Max
  <1> QED
    BY <1>2

\* INCR and the two PEXPIREs, in every state of the key: the count goes up until
\* it is beyond the limit, an existing expiry stays, a missing one is set.
LEMMA ScriptCounts ==
  ASSUME NEW k \in Key
  PROVE  /\ RunScript(k) \in Key
         /\ RunScript(k).count = IF k.count <= MaxRequests THEN k.count + 1 ELSE MaxRequests + 1
         /\ RunScript(k).count > 0
         /\ RunScript(k).ttl = IF k.count = 0 \/ k.ttl = NoExpiry THEN Window ELSE k.ttl
         /\ RunScript(k).ttl \in Nat
  <1>1. /\ k.count \in 0 .. (MaxRequests + 1) /\ k.ttl \in NoExpiry .. Window
        /\ MaxRequests \in Nat /\ MaxRequests > 0 /\ Window \in Nat /\ Window > 0
    BY LimiterConfigAssumption DEF Key
  <1>2. Min({k.count + 1, MaxRequests + 1})
          = IF k.count <= MaxRequests THEN k.count + 1 ELSE MaxRequests + 1
    BY <1>1, MinOfTwo
  <1>3. Min({k.count + 1, MaxRequests + 1}) = 1 <=> k.count = 0
    BY <1>1, <1>2
  <1>4. Min({k.count + 1, MaxRequests + 1}) \in 1 .. (MaxRequests + 1)
    BY <1>1, <1>2
  <1>5. RunScript(k) =
          [count |-> Min({k.count + 1, MaxRequests + 1}),
           ttl |-> IF k.count = 0 \/ k.ttl = NoExpiry THEN Window ELSE k.ttl]
    BY <1>1, <1>3 DEF RunScript, NoExpiry
  <1> HIDE DEF RunScript
  <1> QED
    BY <1>1, <1>2, <1>4, <1>5 DEF Key, NoExpiry

\* Rounding up: the seconds of a Retry-After cover the time to live.
LEMMA CeilingCovers ==
  ASSUME NEW t \in Nat, NEW n \in Nat \ {0}
  PROVE  /\ (t + n - 1) \div n \in Nat
         /\ t <= ((t + n - 1) \div n) * n
  <1>1. PICK q \in Nat : q = (t + n - 1) \div n
    OBVIOUS
  <1>2. t + n - 1 < (q + 1) * n
    BY <1>1
  <1>3. (q + 1) * n = q * n + n
    OBVIOUS
  <1> QED
    BY <1>1, <1>2, <1>3

\* Retry-After is a whole, positive number of seconds and covers the time to live.
LEMMA RetryAfterCovers ==
  ASSUME NEW k \in Key, k.ttl \in Nat
  PROVE  /\ RetryAfter(k) \in Nat
         /\ k.ttl <= RetryAfter(k) * TicksPerSecond
  <1> DEFINE s == (k.ttl + TicksPerSecond - 1) \div TicksPerSecond
  <1>1. TicksPerSecond \in Nat \ {0}
    BY LimiterConfigAssumption
  <1>2. s \in Nat /\ k.ttl <= s * TicksPerSecond
    BY <1>1, CeilingCovers
  <1>3. RetryAfter(k) = IF 1 >= s THEN 1 ELSE s
    BY <1>2, MaxOfTwo DEF RetryAfter
  <1>4. CASE s = 0
    <2>1. s * TicksPerSecond = 0
      BY <1>1, <1>4
    <2>2. RetryAfter(k) = 1
      BY <1>3, <1>4
    <2> QED
      BY <1>1, <1>2, <2>1, <2>2
  <1>5. CASE s # 0
    <2>1. RetryAfter(k) = s
      BY <1>2, <1>3, <1>5
    <2> QED
      BY <1>2, <2>1
  <1> QED
    BY <1>4, <1>5

-------------------------------------------------------------------------------
(* The quota and Retry-After.                                                *)

\* A window that has not begun has admitted and refused nobody.
LEMMA InitEstablishesLimiter == Init => LimiterInvariant /\ RetryAfterIsEnough
  <1> SUFFICES ASSUME Init PROVE LimiterInvariant /\ RetryAfterIsEnough
    OBVIOUS
  <1>1. NoKey \in Key /\ NoKey.count = 0
    BY LimiterConfigAssumption DEF NoKey, Key, NoExpiry
  <1>2. Idle \in Call /\ Idle.phase = "idle" /\ Idle.current = FALSE
    BY DEF Idle, Call
  <1>3. TypeOK
    <2>1. foreign \in BOOLEAN
      BY Zenon DEF Init
    <2>2. key \in Key /\ calls \in [Callers -> Call]
      BY <1>1, <1>2 DEF Init
    <2> QED
      BY <2>1, <2>2, LimiterConfigAssumption DEF Init, TypeOK
  <1>4. QuotaHolds
    BY <1>1, LimiterConfigAssumption DEF Init, QuotaHolds
  <1>5. \A c \in Callers : calls[c].phase = "idle" /\ ~calls[c].current
    BY <1>2 DEF Init
  <1> QED
    BY <1>3, <1>4, <1>5 DEF LimiterInvariant, RefusalHasKey, RetryAfterIsEnough

\* A step of one caller that leaves the counter alone and refuses nobody.
LEMMA CallerStepKeepsLimiter ==
  ASSUME LimiterInvariant, RetryAfterIsEnough, NEW c \in Callers, NEW call \in Call,
         call.phase # "refused", call.current => calls[c].current,
         calls' = [calls EXCEPT ![c] = call],
         orphans' \in 0 .. MaxOrphans,
         UNCHANGED <<key, admitted, foreign>>
  PROVE  LimiterInvariant' /\ RetryAfterIsEnough'
  BY DEF LimiterInvariant, TypeOK, QuotaHolds, RefusalHasKey, RetryAfterIsEnough

\* What a run of the script does to the refusals of the others: those that stay
\* current still speak of the key, whose expiry has not moved.
LEMMA OutdatedKeepsRefusals ==
  ASSUME LimiterInvariant, RetryAfterIsEnough, NEW d \in Callers,
         NEW call, call = Outdated(calls[d], key)
  PROVE  /\ call \in Call
         /\ (call.phase = "refused" /\ call.current) => RunScript(key).ttl <= call.wait
  <1>1. calls[d] \in Call /\ key \in Key
    BY DEF LimiterInvariant, TypeOK
  <1>2. /\ call \in Call
        /\ call.phase = calls[d].phase /\ call.wait = calls[d].wait
        /\ call.current = (calls[d].current /\ ~(key.count > 0 /\ key.ttl = NoExpiry))
    BY <1>1 DEF Outdated, Call
  <1>3. ASSUME call.phase = "refused", call.current
        PROVE  RunScript(key).ttl <= call.wait
    <2>1. calls[d].current /\ key.count > 0 /\ key.ttl # NoExpiry
      BY <1>2, <1>3 DEF LimiterInvariant, RefusalHasKey
    <2>2. RunScript(key).ttl = key.ttl
      BY <1>1, <2>1, ScriptCounts DEF Key
    <2> QED
      BY <1>2, <1>3, <2>1, <2>2 DEF RetryAfterIsEnough
  <1> QED
    BY <1>2, <1>3

\* Every step keeps the quota and the promise of Retry-After.
LEMMA NextKeepsLimiter ==
  LimiterInvariant /\ RetryAfterIsEnough /\ [Next]_vars
    => LimiterInvariant' /\ RetryAfterIsEnough'
  <1> SUFFICES ASSUME LimiterInvariant, RetryAfterIsEnough, [Next]_vars
               PROVE  LimiterInvariant' /\ RetryAfterIsEnough'
    OBVIOUS
  <1>0. /\ TypeOK /\ key \in Key /\ admitted \in Nat /\ MaxRequests \in Nat
        /\ MaxRequests > 0 /\ Window \in Nat /\ Window > 0
    BY LimiterConfigAssumption DEF LimiterInvariant, TypeOK
  <1>1. ASSUME NEW c \in Callers, Consume(c) PROVE LimiterInvariant' /\ RetryAfterIsEnough'
    <2> DEFINE call == [calls[c] EXCEPT !.phase = "awaiting"]
    <2>1. call \in Call /\ call.phase = "awaiting" /\ call.current = calls[c].current
      BY <1>0 DEF TypeOK, Call
    <2>2. calls' = [calls EXCEPT ![c] = call] /\ orphans' \in 0 .. MaxOrphans
          /\ UNCHANGED <<key, admitted, foreign>>
      BY <1>0, <1>1 DEF Consume, TypeOK
    <2> HIDE DEF call
    <2> QED
      BY <2>1, <2>2, CallerStepKeepsLimiter
  <1>2. ASSUME NEW c \in Callers, ScriptReplies(c)
        PROVE  LimiterInvariant' /\ RetryAfterIsEnough'
    <2> DEFINE k == RunScript(key)
    <2>1. /\ k \in Key /\ k.ttl \in Nat /\ k.count > 0
          /\ k.count = IF key.count <= MaxRequests THEN key.count + 1 ELSE MaxRequests + 1
      BY <1>0, ScriptCounts
    <2>2. RetryAfter(k) \in Nat /\ k.ttl <= RetryAfter(k) * TicksPerSecond
      BY <2>1, RetryAfterCovers
    <2>3. RetryAfter(k) * TicksPerSecond \in Nat
      BY <2>2, LimiterConfigAssumption
    <2>4. /\ key' = k
          /\ admitted' = IF k.count <= MaxRequests THEN Min({admitted + 1, MaxRequests + 1})
                                                   ELSE admitted
          /\ UNCHANGED <<orphans, foreign>>
      BY <1>2 DEF ScriptReplies, IsAllowed
    <2> DEFINE own == IF k.count <= MaxRequests
                        THEN [phase |-> "allowed", wait |-> 0, current |-> FALSE]
                        ELSE [phase |-> "refused", wait |-> RetryAfter(k) * TicksPerSecond,
                              current |-> TRUE]
    <2>5. calls' = [d \in Callers |-> IF d # c THEN Outdated(calls[d], key) ELSE own]
      BY <1>2 DEF ScriptReplies, IsAllowed
    <2>6. own \in Call /\ (own.phase = "refused" => k.ttl <= own.wait)
      BY <2>2, <2>3 DEF Call
    <2> HIDE DEF k, own
    <2>7. \A d \in Callers :
            /\ calls'[d] \in Call
            /\ (calls'[d].phase = "refused" /\ calls'[d].current) => k.ttl <= calls'[d].wait
      <3> SUFFICES ASSUME NEW d \in Callers
                   PROVE  /\ calls'[d] \in Call
                          /\ (calls'[d].phase = "refused" /\ calls'[d].current)
                               => k.ttl <= calls'[d].wait
        OBVIOUS
      <3>1. CASE d = c
        BY <2>5, <2>6, <3>1
      <3>2. CASE d # c
        BY <2>5, <3>2, OutdatedKeepsRefusals DEF k
      <3> QED
        BY <3>1, <3>2
    <2>8. /\ admitted' \in 0 .. (MaxRequests + 1)
          /\ admitted' <= MaxRequests /\ admitted' <= k.count
      <3>1. admitted <= MaxRequests /\ admitted <= key.count
            /\ key.count \in 0 .. (MaxRequests + 1)
        BY <1>0 DEF LimiterInvariant, QuotaHolds, Key
      <3>2. Min({admitted + 1, MaxRequests + 1}) = admitted + 1
        BY <1>0, <3>1, MinOfTwo
      <3> QED
        BY <1>0, <2>1, <2>4, <3>1, <3>2
    <2>9. calls' \in [Callers -> Call]
      BY <2>5, <2>7
    <2> QED
      BY <1>0, <2>1, <2>4, <2>7, <2>8, <2>9
      DEF LimiterInvariant, TypeOK, QuotaHolds, RefusalHasKey, RetryAfterIsEnough
  <1>3. ASSUME NEW c \in Callers, ConsumeFails(c)
        PROVE  LimiterInvariant' /\ RetryAfterIsEnough'
    <2> DEFINE call == [calls[c] EXCEPT !.phase = "failed_open"]
    <2>1. call \in Call /\ call.phase = "failed_open" /\ call.current = calls[c].current
      BY <1>0 DEF TypeOK, Call
    <2>2. calls' = [calls EXCEPT ![c] = call] /\ orphans' \in 0 .. MaxOrphans
          /\ UNCHANGED <<key, admitted, foreign>>
      BY <1>0, <1>3 DEF ConsumeFails, TypeOK
    <2> HIDE DEF call
    <2> QED
      BY <2>1, <2>2, CallerStepKeepsLimiter
  <1>4. ASSUME NEW c \in Callers, Finish(c) PROVE LimiterInvariant' /\ RetryAfterIsEnough'
    <2>1. Idle \in Call /\ Idle.phase = "idle" /\ ~Idle.current
      BY DEF Idle, Call
    <2>2. calls' = [calls EXCEPT ![c] = Idle] /\ orphans' \in 0 .. MaxOrphans
          /\ UNCHANGED <<key, admitted, foreign>>
      BY <1>0, <1>4 DEF Finish, TypeOK
    <2> QED
      BY <2>1, <2>2, CallerStepKeepsLimiter
  <1>5. ASSUME OrphanRuns PROVE LimiterInvariant' /\ RetryAfterIsEnough'
    <2> DEFINE k == RunScript(key)
    <2>1. /\ k \in Key /\ k.count > 0 /\ k.count \in Nat /\ key.count \in 0 .. (MaxRequests + 1)
          /\ k.count = IF key.count <= MaxRequests THEN key.count + 1 ELSE MaxRequests + 1
      BY <1>0, ScriptCounts DEF Key
    <2>2. /\ key' = k /\ orphans' \in 0 .. MaxOrphans /\ UNCHANGED <<admitted, foreign>>
          /\ calls' = [d \in Callers |-> Outdated(calls[d], key)]
      BY <1>0, <1>5, LimiterConfigAssumption DEF OrphanRuns, TypeOK
    <2>3. \A d \in Callers :
            /\ calls'[d] \in Call
            /\ (calls'[d].phase = "refused" /\ calls'[d].current) => k.ttl <= calls'[d].wait
      BY <2>2, OutdatedKeepsRefusals
    <2> HIDE DEF k
    <2> QED
      BY <1>0, <2>1, <2>2, <2>3
      DEF LimiterInvariant, TypeOK, QuotaHolds, RefusalHasKey, RetryAfterIsEnough
  <1>6. ASSUME Tick PROVE LimiterInvariant' /\ RetryAfterIsEnough'
    <2> DEFINE ends == key.count > 0 /\ key.ttl = 1
    <2>1. key.count \in 0 .. (MaxRequests + 1) /\ key.ttl \in NoExpiry .. Window
      BY <1>0 DEF Key
    <2>2. UNCHANGED <<orphans, foreign>>
      BY <1>6 DEF Tick
    <2>3. ASSUME NEW c \in Callers
          PROVE  /\ calls'[c] \in Call
                 /\ calls'[c].phase = calls[c].phase
                 /\ calls'[c].wait = IF calls[c].wait = 0 THEN 0 ELSE calls[c].wait - 1
                 /\ calls'[c].current => calls[c].current /\ ~ends
      <3>1. calls[c] \in Call
        BY <1>0 DEF TypeOK
      <3>2. calls'[c] = [calls[c] EXCEPT !.wait = IF @ = 0 THEN 0 ELSE @ - 1,
                                         !.current = @ /\ ~ends]
        BY <1>6 DEF Tick
      <3> HIDE DEF ends
      <3> DEFINE left == IF calls[c].wait = 0 THEN 0 ELSE calls[c].wait - 1
                 now == calls[c].current /\ ~ends
      <3>3. left \in Nat /\ now \in BOOLEAN
        BY <3>1 DEF Call
      <3>4. calls'[c] = [calls[c] EXCEPT !.wait = left, !.current = now]
        BY <3>2
      <3> HIDE DEF left, now
      <3>5. /\ calls'[c] \in Call /\ calls'[c].phase = calls[c].phase
            /\ calls'[c].wait = left /\ calls'[c].current = now
        BY <3>1, <3>3, <3>4 DEF Call
      <3> QED
        BY <3>5 DEF left, now
    <2>4. calls' \in [Callers -> Call]
      BY <1>6, <2>3 DEF Tick
    <2>5. CASE ends
      <3>1. key' = NoKey /\ admitted' = 0
        BY <1>6, <2>5 DEF Tick
      <3>2. NoKey \in Key /\ NoKey.count = 0
        BY <1>0 DEF NoKey, Key, NoExpiry
      <3> QED
        BY <1>0, <2>2, <2>3, <2>4, <2>5, <3>1, <3>2
        DEF LimiterInvariant, TypeOK, QuotaHolds, RefusalHasKey, RetryAfterIsEnough
    <2>6. CASE ~ends
      <3>1. /\ key' = [key EXCEPT !.ttl = IF @ = NoExpiry THEN @ ELSE @ - 1]
            /\ admitted' = admitted
        BY <1>6, <2>6 DEF Tick
      <3>2. /\ key' \in Key /\ key'.count = key.count
            /\ key'.ttl = IF key.ttl = NoExpiry THEN key.ttl ELSE key.ttl - 1
        BY <1>0, <2>1, <3>1 DEF Key, NoExpiry
      <3>3. RetryAfterIsEnough'
        <4> SUFFICES ASSUME NEW c \in Callers, calls'[c].phase = "refused", calls'[c].current
                     PROVE  key'.ttl <= calls'[c].wait
          BY DEF RetryAfterIsEnough
        <4>1. key.ttl <= calls[c].wait /\ calls[c].wait \in Nat
          BY <1>0, <2>3 DEF RetryAfterIsEnough, TypeOK, Call
        <4> QED
          BY <2>1, <2>3, <3>2, <4>1 DEF NoExpiry
      <3> QED
        BY <1>0, <2>2, <2>3, <2>4, <3>1, <3>2, <3>3
        DEF LimiterInvariant, TypeOK, QuotaHolds, RefusalHasKey
    <2> QED
      BY <2>5, <2>6
  <1>7. ASSUME ExpiryLost PROVE LimiterInvariant' /\ RetryAfterIsEnough'
    <2>1. key' \in Key /\ key'.count = key.count /\ key'.ttl = NoExpiry
      BY <1>0, <1>7 DEF ExpiryLost, Key, NoExpiry
    <2>2. \A c \in Callers : calls[c].wait \in Nat
      BY <1>0 DEF TypeOK, Call
    <2>3. RetryAfterIsEnough'
      BY <1>7, <2>1, <2>2 DEF ExpiryLost, RetryAfterIsEnough, NoExpiry
    <2> QED
      BY <1>0, <1>7, <2>1, <2>3
      DEF ExpiryLost, LimiterInvariant, TypeOK, QuotaHolds, RefusalHasKey
  <1>8. CASE UNCHANGED vars
    BY <1>8
    DEF vars, LimiterInvariant, TypeOK, QuotaHolds, RefusalHasKey, RetryAfterIsEnough
  <1> QED
    BY <1>1, <1>2, <1>3, <1>4, <1>5, <1>6, <1>7, <1>8 DEF Next

\* In one window at most MaxRequests requests are admitted over all replicas, each
\* of them counted, however many scripts run late for nobody.
THEOREM QuotaIsKept == Spec => []LimiterInvariant
  <1> QED
    BY InitEstablishesLimiter, NextKeepsLimiter, PTL DEF Spec

\* A client that waits for its Retry-After finds the window that refused it over.
THEOREM RetryAfterIsLongEnough == Spec => []RetryAfterIsEnough
  <1> QED
    BY InitEstablishesLimiter, NextKeepsLimiter, PTL DEF Spec

-------------------------------------------------------------------------------
(* The test double.                                                          *)

\* The entry of the double that stands for a counter.
LEMMA EntryOfKey ==
  ASSUME NEW k \in Key, k.count > 0
  PROVE  MemoryEntry(k) =
           [count |-> IF k.count <= MaxRequests THEN k.count ELSE MaxRequests, left |-> k.ttl]
  <1>1. k.count \in Nat /\ MaxRequests \in Nat
    BY LimiterConfigAssumption DEF Key
  <1> QED
    BY <1>1, MinOfTwo DEF MemoryEntry

\* In every state of the counter that has its expiry, one consume of the double
\* decides as the script does and leaves the entry of the script's counter.
LEMMA DoubleDecidesAlike == LimiterInvariant => DoubleAgreesWithScript
  <1> SUFFICES ASSUME LimiterInvariant, key.count = 0 \/ key.ttl # NoExpiry
               PROVE  LET double == MemoryConsume(MemoryEntry(key))
                          script == RunScript(key)
                      IN  /\ double.entry = MemoryEntry(script)
                          /\ double.allowed = IsAllowed(script)
                          /\ double.retryAfter =
                               IF IsAllowed(script) THEN 0 ELSE RetryAfter(script)
    BY DEF DoubleAgreesWithScript
  <1> DEFINE script == RunScript(key)
  <1>1. /\ key \in Key /\ key.count \in 0 .. (MaxRequests + 1)
        /\ MaxRequests \in Nat /\ MaxRequests > 0
    BY LimiterConfigAssumption DEF LimiterInvariant, TypeOK, Key
  <1>2. /\ script \in Key /\ script.count > 0
        /\ script.count = IF key.count <= MaxRequests THEN key.count + 1 ELSE MaxRequests + 1
        /\ script.ttl = IF key.count = 0 THEN Window ELSE key.ttl
    BY <1>1, ScriptCounts
  <1>3. MemoryEntry(script) =
          [count |-> IF script.count <= MaxRequests THEN script.count ELSE MaxRequests,
           left |-> script.ttl]
    BY <1>2, EntryOfKey
  <1> HIDE DEF script
  <1>4. CASE key.count = 0
    <2>1. MemoryEntry(key).count = 0
      BY <1>4 DEF MemoryEntry
    <2>2. MemoryConsume(MemoryEntry(key)) =
            [entry |-> [count |-> 1, left |-> Window], allowed |-> TRUE, retryAfter |-> 0]
      BY <2>1 DEF MemoryConsume
    <2>3. MemoryEntry(script) = [count |-> 1, left |-> Window]
      BY <1>1, <1>2, <1>3, <1>4
    <2>4. IsAllowed(script) = TRUE
      BY <1>1, <1>2, <1>4 DEF IsAllowed
    <2> QED
      BY <2>2, <2>3, <2>4 DEF script
  <1>5. CASE key.count > 0 /\ key.count < MaxRequests
    <2>1. MemoryEntry(key) = [count |-> key.count, left |-> key.ttl]
      BY <1>1, <1>5, EntryOfKey
    <2>2. MemoryConsume(MemoryEntry(key)) =
            [entry |-> [count |-> key.count + 1, left |-> key.ttl], allowed |-> TRUE,
             retryAfter |-> 0]
      BY <1>1, <1>5, <2>1 DEF MemoryConsume
    <2>3. MemoryEntry(script) = [count |-> key.count + 1, left |-> key.ttl]
      BY <1>1, <1>2, <1>3, <1>5
    <2>4. IsAllowed(script) = TRUE
      BY <1>1, <1>2, <1>5 DEF IsAllowed
    <2> QED
      BY <2>2, <2>3, <2>4 DEF script
  <1>6. CASE key.count >= MaxRequests
    <2>1. MemoryEntry(key) = [count |-> MaxRequests, left |-> key.ttl]
      BY <1>1, <1>6, EntryOfKey
    <2>2. MemoryConsume(MemoryEntry(key)) =
            [entry |-> [count |-> MaxRequests, left |-> key.ttl], allowed |-> FALSE,
             retryAfter |-> Max({1, (key.ttl + TicksPerSecond - 1) \div TicksPerSecond})]
      BY <1>1, <2>1 DEF MemoryConsume
    <2>3. script.count = MaxRequests + 1 /\ script.ttl = key.ttl
      BY <1>1, <1>2, <1>6
    <2>4. MemoryEntry(script) = [count |-> MaxRequests, left |-> key.ttl]
      BY <1>1, <1>3, <2>3
    <2>5. IsAllowed(script) = FALSE
      BY <1>1, <2>3 DEF IsAllowed
    <2>6. RetryAfter(script) = Max({1, (key.ttl + TicksPerSecond - 1) \div TicksPerSecond})
      BY <2>3 DEF RetryAfter
    <2> DEFINE double == MemoryConsume(MemoryEntry(key))
    <2>7. double.entry = MemoryEntry(script) /\ double.allowed = FALSE
          /\ double.retryAfter = RetryAfter(script)
      BY <2>2, <2>4, <2>6
    <2> HIDE DEF double
    <2> QED
      BY <2>5, <2>7 DEF double, script
  <1> QED
    BY <1>1, <1>4, <1>5, <1>6

\* In every reachable state of the shared counter, for every limit and window, the
\* test double agrees with the script.
THEOREM DoubleIsFaithful == Spec => []DoubleAgreesWithScript
  <1> QED
    BY QuotaIsKept, DoubleDecidesAlike, PTL
================================================================================
