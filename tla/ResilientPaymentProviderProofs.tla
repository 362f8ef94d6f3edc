--------------------- MODULE ResilientPaymentProviderProofs ---------------------
(***************************************************************************)
(* The retry loop for any number of concurrent operations and every           *)
(* configuration that validateRetryPolicyConfig and                           *)
(* validateCircuitBreakerConfig accept: it drives the breaker as              *)
(* CircuitBreaker specifies, holds a permit exactly while it runs, and ends   *)
(* within the window from which the startup checks derive their margins.      *)
(***************************************************************************)
EXTENDS ResilientPaymentProvider, TLAPS

\* The theorems of the breaker, which shares its variables and constants with this
\* module.  BreakerAssumption is what they assume of the constants.
BreakerTheorems == INSTANCE CircuitBreakerProofs

--------------------------------------------------------------------------------
(* The delays                                                                 *)

\* The smaller of two numbers.
LEMMA MinOfTwo ==
  ASSUME NEW a \in Int, NEW b \in Int
  PROVE  Min({a, b}) = IF a <= b THEN a ELSE b
  <1> DEFINE m == IF a <= b THEN a ELSE b
  <1>1. m \in {a, b} /\ \A y \in {a, b} : m <= y
    OBVIOUS
  <1>2. \A x \in {a, b} : (\A y \in {a, b} : x <= y) => x = m
    OBVIOUS
  <1> QED
    BY <1>1, <1>2 DEF Min

\* 2 ** (failedAttempt - 1), for the at most nine attempts that are followed by another.
LEMMA PowersOfTwo ==
  ASSUME NEW k \in 0..8 PROVE 2 ^ k \in Nat
  <1>1. /\ 2 ^ 0 \in Nat /\ 2 ^ 1 \in Nat /\ 2 ^ 2 \in Nat
        /\ 2 ^ 3 \in Nat /\ 2 ^ 4 \in Nat /\ 2 ^ 5 \in Nat
        /\ 2 ^ 6 \in Nat /\ 2 ^ 7 \in Nat /\ 2 ^ 8 \in Nat
    OBVIOUS
  <1>2. k = 0 \/ k = 1 \/ k = 2 \/ k = 3 \/ k = 4 \/ k = 5 \/ k = 6 \/ k = 7 \/ k = 8
    OBVIOUS
  <1> QED
    BY <1>1, <1>2, Zenon

\* Math.round of a larger number is not smaller.
LEMMA RoundGrows ==
  ASSUME NEW x \in Nat, NEW y \in Nat, x <= y
  PROVE  Round(x, 10000) \in Nat /\ Round(y, 10000) \in Nat
         /\ Round(x, 10000) <= Round(y, 10000)
  BY DEF Round

\* Whatever the random source returns, the pause is at most the one that the window
\* counts.
LEMMA DelayIsBounded ==
  ASSUME NEW a \in 1..9, NEW r \in 0..100
  PROVE  /\ DelayAfter(a, r) \in Nat
         /\ MaximumRetryDelayAfter(a) \in Nat
         /\ DelayAfter(a, r) <= MaximumRetryDelayAfter(a)
  <1> DEFINE e == BaseDelay * 2 ^ (a - 1)
             x == e * (10000 + JitterPercent * r)
             y == e * (10000 + JitterPercent * 100)
  <1>1. e \in Nat
    <2>1. a - 1 \in 0..8
      OBVIOUS
    <2>2. PICK p \in Nat : p = 2 ^ (a - 1)
      BY <2>1, PowersOfTwo, Zenon
    <2>3. BaseDelay * p \in Nat
      BY RetryConfigAssumption
    <2> QED
      BY <2>2, <2>3, Zenon
  <1>2. DelayAfter(a, r) = Min({MaxDelay, Round(x, 10000)})
    BY DEF DelayAfter
  <1>3. MaximumRetryDelayAfter(a) = Min({MaxDelay, Round(y, 10000)})
    BY DEF MaximumRetryDelayAfter, DelayAfter
  <1> HIDE DEF e
  <1>4. x \in Nat /\ y \in Nat /\ x <= y
    <2>1. /\ JitterPercent * r \in Nat /\ JitterPercent * 100 \in Nat
          /\ JitterPercent * r <= JitterPercent * 100
      BY RetryConfigAssumption
    <2> DEFINE u == 10000 + JitterPercent * r
               v == 10000 + JitterPercent * 100
    <2>2. u \in Nat /\ v \in Nat /\ u <= v
      BY <2>1
    <2> HIDE DEF u, v
    <2>3. e * u \in Nat /\ e * v \in Nat /\ e * u <= e * v
      BY <1>1, <2>2
    <2> QED
      BY <2>3 DEF u, v
  <1> HIDE DEF x, y
  <1>5. /\ Round(x, 10000) \in Nat /\ Round(y, 10000) \in Nat
        /\ Round(x, 10000) <= Round(y, 10000)
    BY <1>4, RoundGrows
  <1> DEFINE rx == Round(x, 10000)
             ry == Round(y, 10000)
  <1> HIDE DEF rx, ry
  <1>6. Min({MaxDelay, rx}) = (IF MaxDelay <= rx THEN MaxDelay ELSE rx)
        /\ Min({MaxDelay, ry}) = (IF MaxDelay <= ry THEN MaxDelay ELSE ry)
    BY <1>5, MinOfTwo, RetryConfigAssumption DEF rx, ry
  <1> QED
    BY <1>2, <1>3, <1>5, <1>6, RetryConfigAssumption DEF rx, ry

\* The sum of the loop exists: there are at most nine pauses.
LEMMA TotalDelayUnfolds ==
  TotalDelay = [n \in 0..9 |-> IF n = 0 THEN 0
                               ELSE TotalDelay[n - 1] + MaximumRetryDelayAfter(n)]
  <1> DEFINE d(n) == MaximumRetryDelayAfter(n)
             IsSum(f) == f = [n \in 0..9 |-> IF n = 0 THEN 0 ELSE f[n - 1] + d(n)]
             s1 == d(1)
             s2 == s1 + d(2)
             s3 == s2 + d(3)
             s4 == s3 + d(4)
             s5 == s4 + d(5)
             s6 == s5 + d(6)
             s7 == s6 + d(7)
             s8 == s7 + d(8)
             s9 == s8 + d(9)
             g == [n \in 0..9 |->
                     IF n = 0 THEN 0 ELSE IF n = 1 THEN s1 ELSE IF n = 2 THEN s2
                     ELSE IF n = 3 THEN s3 ELSE IF n = 4 THEN s4 ELSE IF n = 5 THEN s5
                     ELSE IF n = 6 THEN s6 ELSE IF n = 7 THEN s7 ELSE IF n = 8 THEN s8
                     ELSE s9]
  <1>1. /\ d(1) \in Nat /\ d(2) \in Nat /\ d(3) \in Nat /\ d(4) \in Nat /\ d(5) \in Nat
        /\ d(6) \in Nat /\ d(7) \in Nat /\ d(8) \in Nat /\ d(9) \in Nat
    <2>1. 100 \in 0..100
      OBVIOUS
    <2>2. \A n \in 1..9 : d(n) \in Nat
      BY <2>1, DelayIsBounded
    <2> QED
      BY <2>2
  <1> HIDE DEF d
  <1>2. IsSum(g)
    <2> SUFFICES ASSUME NEW n \in 0..9
                 PROVE  g[n] = IF n = 0 THEN 0 ELSE g[n - 1] + d(n)
      OBVIOUS
    <2>1. /\ g[0] = 0 /\ g[1] = d(1) /\ g[2] = g[1] + d(2) /\ g[3] = g[2] + d(3)
          /\ g[4] = g[3] + d(4) /\ g[5] = g[4] + d(5) /\ g[6] = g[5] + d(6)
          /\ g[7] = g[6] + d(7) /\ g[8] = g[7] + d(8) /\ g[9] = g[8] + d(9)
      BY <1>1
    <2> HIDE DEF g
    <2> QED
      BY <1>1, <2>1
  <1> HIDE DEF g
  <1>3. \E f : IsSum(f)
    BY <1>2
  <1>4. TotalDelay = CHOOSE f : IsSum(f)
    BY DEF TotalDelay, d
  <1> HIDE DEF IsSum
  <1>5. IsSum(TotalDelay)
    BY <1>3, <1>4
  <1> QED
    BY <1>5 DEF IsSum, d

\* The total is a number and grows with the number of pauses.
LEMMA TotalDelayGrows ==
  /\ \A n \in 0..9 : TotalDelay[n] \in Nat
  /\ \A n \in 1..9 : TotalDelay[n] = TotalDelay[n - 1] + MaximumRetryDelayAfter(n)
  /\ \A n, m \in 0..9 : n <= m => TotalDelay[n] <= TotalDelay[m]
  <1> DEFINE d(n) == MaximumRetryDelayAfter(n)
             s == TotalDelay
  <1>1. \A n \in 1..9 : d(n) \in Nat
    <2>1. 100 \in 0..100
      OBVIOUS
    <2> QED
      BY <2>1, DelayIsBounded
  <1> HIDE DEF d
  <1>2. \A n \in 0..9 : s[n] = IF n = 0 THEN 0 ELSE s[n - 1] + d(n)
    BY TotalDelayUnfolds DEF d
  <1> HIDE DEF s
  <1>3. /\ s[0] = 0 /\ s[1] = s[0] + d(1) /\ s[2] = s[1] + d(2) /\ s[3] = s[2] + d(3)
        /\ s[4] = s[3] + d(4) /\ s[5] = s[4] + d(5) /\ s[6] = s[5] + d(6)
        /\ s[7] = s[6] + d(7) /\ s[8] = s[7] + d(8) /\ s[9] = s[8] + d(9)
    BY <1>2
  <1>4. /\ d(1) \in Nat /\ d(2) \in Nat /\ d(3) \in Nat /\ d(4) \in Nat /\ d(5) \in Nat
        /\ d(6) \in Nat /\ d(7) \in Nat /\ d(8) \in Nat /\ d(9) \in Nat
    BY <1>1
  <1>5. /\ s[0] \in Nat /\ s[1] \in Nat /\ s[2] \in Nat /\ s[3] \in Nat /\ s[4] \in Nat
        /\ s[5] \in Nat /\ s[6] \in Nat /\ s[7] \in Nat /\ s[8] \in Nat /\ s[9] \in Nat
        /\ s[0] <= s[1] /\ s[1] <= s[2] /\ s[2] <= s[3] /\ s[3] <= s[4] /\ s[4] <= s[5]
        /\ s[5] <= s[6] /\ s[6] <= s[7] /\ s[7] <= s[8] /\ s[8] <= s[9]
    BY <1>3, <1>4
  <1>6. \A n \in 0..9 : s[n] \in Nat
    BY <1>5
  <1>7. \A n \in 1..9 : s[n] = s[n - 1] + d(n)
    BY <1>2
  <1>8. \A n, m \in 0..9 : n <= m => s[n] <= s[m]
    BY <1>5
  <1> QED
    BY <1>6, <1>7, <1>8 DEF s, d

--------------------------------------------------------------------------------
(* The breaker under the retry loop                                           *)

\* The two names of the breaker's definitions mean the same.
LEMMA SameBreaker ==
  /\ CircuitBreaker!Init <=> BreakerTheorems!Init
  /\ [CircuitBreaker!Next]_breakerVars
       <=> [BreakerTheorems!Next]_(BreakerTheorems!breakerVars)
  /\ CircuitBreaker!BreakerInvariant <=> BreakerTheorems!BreakerInvariant
  <1>1. CircuitBreaker!Init <=> BreakerTheorems!Init
    BY DEF CircuitBreaker!Init, BreakerTheorems!Init, CircuitBreaker!Drifts,
           BreakerTheorems!Drifts, CircuitBreaker!InitialBreaker,
           BreakerTheorems!InitialBreaker, CircuitBreaker!NoPermit,
           BreakerTheorems!NoPermit
  <1>2. CircuitBreaker!BreakerInvariant <=> BreakerTheorems!BreakerInvariant
    BY Zenon
       DEF CircuitBreaker!BreakerInvariant, BreakerTheorems!BreakerInvariant,
           CircuitBreaker!TypeOK, BreakerTheorems!TypeOK, CircuitBreaker!Breaker,
           BreakerTheorems!Breaker, CircuitBreaker!CircuitStates,
           BreakerTheorems!CircuitStates, CircuitBreaker!Permit,
           BreakerTheorems!Permit, CircuitBreaker!Drifts, BreakerTheorems!Drifts,
           CircuitBreaker!NoPermit, BreakerTheorems!NoPermit,
           CircuitBreaker!PermitsNotFromFuture, BreakerTheorems!PermitsNotFromFuture,
           CircuitBreaker!CurrentPermitsMatchState,
           BreakerTheorems!CurrentPermitsMatchState, CircuitBreaker!SingleProbe,
           BreakerTheorems!SingleProbe, CircuitBreaker!ProbeFlagHasOwner,
           BreakerTheorems!ProbeFlagHasOwner, CircuitBreaker!FailuresBelowThreshold,
           BreakerTheorems!FailuresBelowThreshold, CircuitBreaker!OpeningIsTimed,
           BreakerTheorems!OpeningIsTimed, CircuitBreaker!HalfOpenIsDue,
           BreakerTheorems!HalfOpenIsDue, CircuitBreaker!IntervalElapsed,
           BreakerTheorems!IntervalElapsed, CircuitBreaker!Probing,
           BreakerTheorems!Probing, CircuitBreaker!Current, BreakerTheorems!Current
  <1>3. CircuitBreaker!Next <=> BreakerTheorems!Next
    BY Zenon
       DEF CircuitBreaker!Next, BreakerTheorems!Next, CircuitBreaker!Acquire,
           BreakerTheorems!Acquire, CircuitBreaker!Record, BreakerTheorems!Record,
           CircuitBreaker!RecordSuccess, BreakerTheorems!RecordSuccess,
           CircuitBreaker!RecordFailure, BreakerTheorems!RecordFailure,
           CircuitBreaker!RecordNonFailure, BreakerTheorems!RecordNonFailure,
           CircuitBreaker!ReadState, BreakerTheorems!ReadState, CircuitBreaker!Tick,
           BreakerTheorems!Tick, CircuitBreaker!ClockStepped,
           BreakerTheorems!ClockStepped, CircuitBreaker!Clock, BreakerTheorems!Clock,
           CircuitBreaker!Drifts, BreakerTheorems!Drifts,
           CircuitBreaker!AdvanceToHalfOpenWhenReady,
           BreakerTheorems!AdvanceToHalfOpenWhenReady, CircuitBreaker!PermitOf,
           BreakerTheorems!PermitOf, CircuitBreaker!AfterAcquire,
           BreakerTheorems!AfterAcquire, CircuitBreaker!AfterSuccess,
           BreakerTheorems!AfterSuccess, CircuitBreaker!AfterFailure,
           BreakerTheorems!AfterFailure, CircuitBreaker!AfterNonFailure,
           BreakerTheorems!AfterNonFailure, CircuitBreaker!IsCurrent,
           BreakerTheorems!IsCurrent, CircuitBreaker!Opened, BreakerTheorems!Opened,
           CircuitBreaker!Closed, BreakerTheorems!Closed, CircuitBreaker!NoPermit,
           BreakerTheorems!NoPermit
  <1>4. (UNCHANGED breakerVars) <=> UNCHANGED (BreakerTheorems!breakerVars)
    BY DEF breakerVars, BreakerTheorems!breakerVars
  <1> QED
    BY <1>1, <1>2, <1>3, <1>4

\* Every step of the breaker keeps its invariant (BreakerIsSafe's induction step).
LEMMA BreakerStepKeepsInvariant ==
  CircuitBreaker!BreakerInvariant /\ [CircuitBreaker!Next]_breakerVars
    => CircuitBreaker!BreakerInvariant'
  <1>1. CircuitBreaker!BreakerInvariant' <=> BreakerTheorems!BreakerInvariant'
    BY SameBreaker, PTL
  <1> QED
    BY <1>1, SameBreaker, BreakerAssumption, BreakerTheorems!NextKeepsBreakerInvariant

\* A step of the retry loop is a step of the breaker, or leaves it alone.
LEMMA StepIsBreakerStep == [Next]_vars => [CircuitBreaker!Next]_breakerVars
  <1>1. ASSUME NEW c \in Callers, Process(c) PROVE CircuitBreaker!Next
    BY <1>1 DEF Process, CircuitBreaker!Next
  <1>2. ASSUME NEW c \in Callers, NEW error, NEW aborted, AttemptFails(c, error, aborted)
        PROVE  CircuitBreaker!Next \/ UNCHANGED breakerVars
    BY <1>2 DEF AttemptFails, CircuitBreaker!Next
  <1>3. ASSUME NEW c \in Callers, FetchFails(c) \/ BodyFails(c) \/ AbortTimerFires(c)
        PROVE  CircuitBreaker!Next \/ UNCHANGED breakerVars
    BY <1>2, <1>3 DEF FetchFails, BodyFails, AbortTimerFires
  <1>4. ASSUME NEW c \in Callers, FetchResolves(c) \/ SleepEnds(c)
        PROVE  UNCHANGED breakerVars
    BY <1>4 DEF FetchResolves, SleepEnds
  <1>5. ASSUME NEW c \in Callers, BodyApproves(c) PROVE CircuitBreaker!Next
    BY <1>5 DEF BodyApproves, CircuitBreaker!Next
  <1>6. CASE Tick \/ ClockStepped
    BY <1>6 DEF Tick, ClockStepped, CircuitBreaker!Next
  <1>7. CASE Quiescent \/ UNCHANGED vars
    BY <1>7 DEF Quiescent, vars, breakerVars
  <1> QED
    BY <1>1, <1>3, <1>4, <1>5, <1>6, <1>7 DEF Next

\* The retry loop drives the breaker as CircuitBreaker specifies: however concurrent
\* operations interleave at their awaits, what they do to the breaker is a sequence
\* of its methods, one acquire() and one record... per operation.
THEOREM RetryLoopImplementsBreaker == Spec => CircuitBreaker!Spec
  <1>1. Init => CircuitBreaker!Init
    BY DEF Init
  <1>2. [Next]_vars => [CircuitBreaker!Next]_(CircuitBreaker!breakerVars)
    BY StepIsBreakerStep DEF breakerVars, CircuitBreaker!breakerVars
  <1> QED
    BY <1>1, <1>2, PTL DEF Spec, CircuitBreaker!Spec

\* The breaker's guarantees therefore hold of the composition.
THEOREM BreakerIsSafeUnderRetries == Spec => []CircuitBreaker!BreakerInvariant
  <1>1. Init => CircuitBreaker!BreakerInvariant
    BY SameBreaker, BreakerAssumption, BreakerTheorems!InitEstablishesBreakerInvariant
       DEF Init
  <1>2. CircuitBreaker!BreakerInvariant /\ [Next]_vars => CircuitBreaker!BreakerInvariant'
    BY StepIsBreakerStep, BreakerStepKeepsInvariant
  <1> QED
    BY <1>1, <1>2, PTL DEF Spec

\* What acquire() does, as the operations see it.
LEMMA AcquireMoves ==
  ASSUME CircuitBreaker!BreakerInvariant, NEW c \in Callers, CircuitBreaker!Acquire(c)
  PROVE  /\ permits[c] = CircuitBreaker!NoPermit
         /\ now' = now /\ openedNow' = openedNow
         /\ breaker'.generation = breaker.generation
         /\ (breaker'.state = "closed") <=> (breaker.state = "closed")
         /\ permits' = [permits EXCEPT ![c] = permits'[c]]
         /\ permits'[c] = CircuitBreaker!NoPermit
              \/ permits'[c].generation = breaker'.generation
  <1> DEFINE b == CircuitBreaker!AdvanceToHalfOpenWhenReady(breaker, CircuitBreaker!Clock)
  <1>1. /\ breaker \in CircuitBreaker!Breaker
        /\ permits \in [Callers -> CircuitBreaker!Permit]
    BY DEF CircuitBreaker!BreakerInvariant, CircuitBreaker!TypeOK
  <1>2. /\ b \in CircuitBreaker!Breaker
        /\ b.generation = breaker.generation
        /\ (b.state = "closed") <=> (breaker.state = "closed")
    BY <1>1 DEF CircuitBreaker!AdvanceToHalfOpenWhenReady, CircuitBreaker!Breaker,
       CircuitBreaker!CircuitStates
  <1>3. /\ permits[c] = CircuitBreaker!NoPermit
        /\ permits' = [permits EXCEPT ![c] = CircuitBreaker!PermitOf(b)]
        /\ breaker' = CircuitBreaker!AfterAcquire(b)
        /\ now' = now /\ openedNow' = openedNow
    BY DEF CircuitBreaker!Acquire
  <1> HIDE DEF b
  <1>4. breaker'.generation = b.generation /\ breaker'.state = b.state
    BY <1>2, <1>3 DEF CircuitBreaker!AfterAcquire, CircuitBreaker!Breaker
  <1>5. \/ CircuitBreaker!PermitOf(b) = CircuitBreaker!NoPermit
        \/ CircuitBreaker!PermitOf(b).generation = b.generation
    BY DEF CircuitBreaker!PermitOf
  <1>6. permits'[c] = CircuitBreaker!PermitOf(b)
    BY <1>1, <1>3
  <1> QED
    BY <1>2, <1>3, <1>4, <1>5, <1>6

\* What a record... method does, as the operations see it: unless the breaker is closed
\* afterwards, it has opened now, or nothing of it has changed.
LEMMA RecordMoves ==
  ASSUME CircuitBreaker!BreakerInvariant, NEW c \in Callers,
         \/ CircuitBreaker!RecordSuccess(c)
         \/ CircuitBreaker!RecordFailure(c)
         \/ CircuitBreaker!RecordNonFailure(c)
  PROVE  /\ permits[c] # CircuitBreaker!NoPermit
         /\ now' = now
         /\ permits' = [permits EXCEPT ![c] = CircuitBreaker!NoPermit]
         /\ \/ breaker'.state = "closed"
            \/ openedNow' = now
            \/ breaker' = breaker /\ openedNow' = openedNow
  <1> DEFINE p == permits[c]
  <1>1. breaker \in CircuitBreaker!Breaker
    BY DEF CircuitBreaker!BreakerInvariant, CircuitBreaker!TypeOK
  <1>2. /\ p # CircuitBreaker!NoPermit
        /\ now' = now
        /\ permits' = [permits EXCEPT ![c] = CircuitBreaker!NoPermit]
        /\ openedNow' = IF breaker'.state = "open" /\ breaker.state # "open"
                           THEN now ELSE openedNow
        /\ \/ breaker' = CircuitBreaker!AfterSuccess(breaker, p)
           \/ breaker' = CircuitBreaker!AfterFailure(breaker, p, CircuitBreaker!Clock)
           \/ breaker' = CircuitBreaker!AfterNonFailure(breaker, p)
    BY DEF CircuitBreaker!RecordSuccess, CircuitBreaker!RecordFailure,
       CircuitBreaker!RecordNonFailure, CircuitBreaker!Record
  <1>3. CircuitBreaker!IsCurrent(breaker, p) => p.mode = breaker.state
    BY <1>2 DEF CircuitBreaker!IsCurrent, CircuitBreaker!Current,
       CircuitBreaker!BreakerInvariant, CircuitBreaker!CurrentPermitsMatchState
  <1> HIDE DEF p
  <1>4. \/ breaker' = breaker
        \/ breaker' = CircuitBreaker!Closed(breaker)
        \/ /\ breaker' = CircuitBreaker!Opened(breaker, CircuitBreaker!Clock)
           /\ breaker.state # "open"
        \/ /\ breaker.state = "closed"
           /\ \E n : breaker' = [breaker EXCEPT !.failures = n]
    <2>1. CASE breaker' = CircuitBreaker!AfterSuccess(breaker, p)
      BY <2>1 DEF CircuitBreaker!AfterSuccess
    <2>2. CASE breaker' = CircuitBreaker!AfterFailure(breaker, p, CircuitBreaker!Clock)
      <3>1. breaker.failures + 1 \in Nat
        BY <1>1 DEF CircuitBreaker!Breaker
      <3> QED
        BY <1>3, <2>2, <3>1, BreakerAssumption DEF CircuitBreaker!AfterFailure
    <2>3. CASE breaker' = CircuitBreaker!AfterNonFailure(breaker, p)
      BY <2>3 DEF CircuitBreaker!AfterNonFailure
    <2> QED
      BY <1>2, <2>1, <2>2, <2>3
  <1>5. \/ breaker' = breaker
        \/ breaker'.state = "closed"
        \/ breaker'.state = "open" /\ breaker.state # "open"
    BY <1>1, <1>4 DEF CircuitBreaker!Closed, CircuitBreaker!Opened, CircuitBreaker!Breaker
  <1> QED
    BY <1>2, <1>5 DEF p

--------------------------------------------------------------------------------
(* The operations in time                                                     *)

\* The longest that so many attempts and the first so many pauses take.
Longest(attempts, pauses) == attempts * AttemptTimeout + TotalDelay[pauses]

\* Where an operation k stands: it has not missed its timer, and the timer fires
\* within what the attempts and pauses so far may take.
OnTime(k) ==
  k.phase # "idle" =>
    /\ k.attempt \in 1..MaxAttempts
    /\ k.startedAt <= now /\ now <= k.deadline
    /\ IF k.phase = "sleeping"
         THEN /\ k.attempt < MaxAttempts
              /\ k.deadline <= k.startedAt + Longest(k.attempt, k.attempt)
         ELSE k.deadline <= k.startedAt + Longest(k.attempt, k.attempt - 1)

\* While the breaker is not closed, an operation it no longer listens to was admitted
\* before it opened.
EarlierCallsAreOlder ==
  \A c \in Callers :
    (Calling(c) /\ breaker.state # "closed" /\ ~CircuitBreaker!Current(c))
      => calls[c].startedAt <= openedNow

\* The inductive invariant.  WithinRetryWindow alone is not: it does not say how much
\* of the window the attempts so far have used up.
OperationsInvariant ==
  /\ CircuitBreaker!BreakerInvariant
  /\ calls \in [Callers -> Call]
  /\ \A c \in Callers : OnTime(calls[c])
  /\ PermitHeldWhileCalling
  /\ EarlierCallsAreOlder

\* What one more pause and one more attempt add, and that the sum never exceeds
\* calculateMaximumRetryWindowMs.
LEMMA LongestGrows ==
  ASSUME NEW a \in 1..MaxAttempts
  PROVE  /\ MaximumRetryWindow \in Nat
         /\ Longest(a, a - 1) \in Nat
         /\ Longest(a, a - 1) <= MaximumRetryWindow
         /\ a < MaxAttempts =>
              /\ a \in 1..9
              /\ Longest(a, a) \in Nat
              /\ Longest(a, a) <= MaximumRetryWindow
              /\ Longest(a, a) = Longest(a, a - 1) + MaximumRetryDelayAfter(a)
              /\ Longest(a + 1, a) = Longest(a, a) + AttemptTimeout
  <1> DEFINE m == MaxAttempts
             t == AttemptTimeout
             s == TotalDelay
             d == MaximumRetryDelayAfter(a)
  <1>1. m \in 1..10 /\ t \in Nat /\ a \in 1..10 /\ a <= m
    BY RetryConfigAssumption
  <1>2. /\ s[a - 1] \in Nat /\ s[m - 1] \in Nat /\ s[a - 1] <= s[m - 1]
        /\ a < m => a \in 1..9 /\ s[a] \in Nat /\ s[a] <= s[m - 1] /\ s[a] = s[a - 1] + d
    BY <1>1, TotalDelayGrows
  <1> HIDE DEF m, t, s, d
  <1>3. /\ a * t \in Nat /\ m * t \in Nat /\ a * t <= m * t
        /\ (a + 1) * t = a * t + t
    BY <1>1
  <1>4. a < m => a \in 1..9 /\ d \in Nat
    <2>1. 100 \in 0..100
      OBVIOUS
    <2> QED
      BY <1>2, <2>1, DelayIsBounded DEF d
  <1> DEFINE u == a * t
             v == m * t
             w == (a + 1) * t
  <1> HIDE DEF u, v, w
  <1>5. /\ u \in Nat /\ v \in Nat /\ u <= v /\ w = u + t
    BY <1>3 DEF u, v, w
  <1>6. /\ v + s[m - 1] \in Nat
        /\ u + s[a - 1] \in Nat
        /\ u + s[a - 1] <= v + s[m - 1]
        /\ a < m => /\ u + s[a] \in Nat
                    /\ u + s[a] <= v + s[m - 1]
                    /\ u + s[a] = u + s[a - 1] + d
                    /\ w + s[a] = u + s[a] + t
    BY <1>1, <1>2, <1>4, <1>5
  <1> QED
    BY <1>2, <1>6 DEF Longest, MaximumRetryWindow, u, v, w, m, t, s, d

\* One operation moves, and the breaker with it or not.
LEMMA OneCallMoves ==
  ASSUME OperationsInvariant, CircuitBreaker!BreakerInvariant',
         NEW c \in Callers, NEW k \in Call,
         calls' = [calls EXCEPT ![c] = k], now' = now, OnTime(k),
         (k.phase # "idle") <=> (permits'[c] # CircuitBreaker!NoPermit),
         \A d \in Callers \ {c} : permits'[d] = permits[d],
         (k.phase # "idle" /\ breaker'.state # "closed" /\ ~CircuitBreaker!Current(c)')
           => k.startedAt <= openedNow',
         \/ breaker'.state = "closed"
         \/ openedNow' = now
         \/ /\ breaker'.generation = breaker.generation /\ openedNow' = openedNow
            /\ (breaker'.state = "closed") <=> (breaker.state = "closed")
  PROVE  OperationsInvariant'
  <1>1. /\ calls' \in [Callers -> Call] /\ calls'[c] = k
        /\ \A d \in Callers \ {c} : calls'[d] = calls[d]
    BY DEF OperationsInvariant
  <1>2. ASSUME NEW d \in Callers PROVE OnTime(calls[d])'
    <2>1. CASE d = c
      BY <1>1, <2>1 DEF OnTime
    <2>2. CASE d # c
      BY <1>1, <2>2 DEF OnTime, OperationsInvariant
    <2> QED
      BY <2>1, <2>2
  <1>3. PermitHeldWhileCalling'
    <2> SUFFICES ASSUME NEW d \in Callers
                 PROVE  (calls'[d].phase # "idle")
                          <=> (permits'[d] # CircuitBreaker!NoPermit)
      BY DEF PermitHeldWhileCalling, Calling, CircuitBreaker!NoPermit
    <2>1. CASE d = c
      BY <1>1, <2>1
    <2>2. CASE d # c
      BY <1>1, <2>2 DEF OperationsInvariant, PermitHeldWhileCalling, Calling
    <2> QED
      BY <2>1, <2>2
  <1>4. EarlierCallsAreOlder'
    <2> SUFFICES ASSUME NEW d \in Callers,
                        calls'[d].phase # "idle", breaker'.state # "closed",
                        ~CircuitBreaker!Current(d)'
                 PROVE  calls'[d].startedAt <= openedNow'
      BY DEF EarlierCallsAreOlder, Calling
    <2>1. CASE d = c
      BY <1>1, <2>1
    <2>2. CASE d # c /\ openedNow' = now
      BY <1>1, <2>2 DEF OperationsInvariant, OnTime
    <2>3. CASE /\ d # c
               /\ breaker'.generation = breaker.generation /\ openedNow' = openedNow
               /\ (breaker'.state = "closed") <=> (breaker.state = "closed")
      <3>1. ~CircuitBreaker!Current(d)
        BY <2>3 DEF CircuitBreaker!Current, CircuitBreaker!NoPermit
      <3> QED
        BY <1>1, <2>3, <3>1 DEF OperationsInvariant, EarlierCallsAreOlder, Calling
    <2> QED
      BY <2>1, <2>2, <2>3
  <1> QED
    BY <1>1, <1>2, <1>3, <1>4 DEF OperationsInvariant

\* An operation that the breaker admits, or refuses.
LEMMA ProcessKeepsInvariant ==
  ASSUME OperationsInvariant, CircuitBreaker!BreakerInvariant',
         NEW c \in Callers, Process(c)
  PROVE  OperationsInvariant'
  <1>1. /\ calls[c].phase = "idle" /\ calls[c] \in Call
        /\ calls \in [Callers -> Call]
        /\ permits \in [Callers -> CircuitBreaker!Permit]
        /\ now \in Nat
    BY DEF Process, OperationsInvariant, CircuitBreaker!BreakerInvariant,
       CircuitBreaker!TypeOK
  <1>2. /\ now' = now /\ openedNow' = openedNow
        /\ breaker'.generation = breaker.generation
        /\ (breaker'.state = "closed") <=> (breaker.state = "closed")
        /\ permits' = [permits EXCEPT ![c] = permits'[c]]
        /\ permits'[c] = CircuitBreaker!NoPermit
              \/ permits'[c].generation = breaker'.generation
    BY AcquireMoves DEF Process, OperationsInvariant
  <1>3. \A d \in Callers \ {c} : permits'[d] = permits[d]
    BY <1>1, <1>2
  <1>4. CASE permits'[c] = CircuitBreaker!NoPermit
    <2> DEFINE k == calls[c]
    <2>1. calls' = [calls EXCEPT ![c] = k]
      BY <1>1, <1>4 DEF Process
    <2>2. k \in Call /\ k.phase = "idle" /\ OnTime(k)
      BY <1>1 DEF OnTime
    <2> HIDE DEF k
    <2> QED
      BY <1>2, <1>3, <1>4, <2>1, <2>2, OneCallMoves
  <1>5. CASE permits'[c] # CircuitBreaker!NoPermit
    <2> DEFINE k == [phase |-> "fetching", attempt |-> 1,
                     deadline |-> now + AttemptTimeout, startedAt |-> now,
                     aborted |-> FALSE]
    <2>1. calls' = [calls EXCEPT ![c] = k]
      BY <1>5 DEF Process, StartAttempt
    <2>2. 1 \in 1..MaxAttempts /\ AttemptTimeout \in Nat /\ MaxAttempts \in 1..10
      BY RetryConfigAssumption
    <2>3. k \in Call /\ k.phase = "fetching"
      BY <1>1, <2>2 DEF Call, Phases
    <2>4. Longest(1, 0) = AttemptTimeout
      <3>1. TotalDelay[0] = 0
        BY TotalDelayUnfolds
      <3> QED
        BY <2>2, <3>1 DEF Longest
    <2>5. OnTime(k)
      BY <1>1, <2>2, <2>4 DEF OnTime
    <2>6. CircuitBreaker!Current(c)'
      BY <1>2, <1>5 DEF CircuitBreaker!Current, CircuitBreaker!NoPermit
    <2> HIDE DEF k
    <2> QED
      BY <1>2, <1>3, <1>5, <2>1, <2>3, <2>5, <2>6, OneCallMoves
  <1> QED
    BY <1>4, <1>5

\* An operation that goes on without touching the breaker.
LEMMA GoingOnKeepsInvariant ==
  ASSUME OperationsInvariant, CircuitBreaker!BreakerInvariant',
         NEW c \in Callers, NEW k \in Call,
         calls[c].phase # "idle", UNCHANGED breakerVars,
         calls' = [calls EXCEPT ![c] = k], OnTime(k),
         k.phase # "idle", k.startedAt = calls[c].startedAt
  PROVE  OperationsInvariant'
  <1>1. /\ now' = now /\ breaker' = breaker /\ permits' = permits /\ openedNow' = openedNow
    BY DEF breakerVars
  <1>2. permits'[c] # CircuitBreaker!NoPermit
    BY <1>1 DEF OperationsInvariant, PermitHeldWhileCalling, Calling
  <1>3. CircuitBreaker!Current(c)' <=> CircuitBreaker!Current(c)
    BY <1>1 DEF CircuitBreaker!Current, CircuitBreaker!NoPermit
  <1>4. (breaker'.state # "closed" /\ ~CircuitBreaker!Current(c)')
          => k.startedAt <= openedNow'
    BY <1>1, <1>3 DEF OperationsInvariant, EarlierCallsAreOlder, Calling
  <1> QED
    BY <1>1, <1>2, <1>4, OneCallMoves

\* An operation that is over: its outcome is recorded.
LEMMA FinishKeepsInvariant ==
  ASSUME OperationsInvariant, CircuitBreaker!BreakerInvariant',
         NEW c \in Callers, NEW aborted \in BOOLEAN, Finish(c, aborted),
         \/ CircuitBreaker!RecordSuccess(c)
         \/ CircuitBreaker!RecordFailure(c)
         \/ CircuitBreaker!RecordNonFailure(c)
  PROVE  OperationsInvariant'
  <1> DEFINE k == [Idle EXCEPT !.aborted = aborted]
  <1>1. calls' = [calls EXCEPT ![c] = k]
    BY DEF Finish
  <1>2. k \in Call /\ k.phase = "idle" /\ OnTime(k)
    BY RetryConfigAssumption DEF Idle, Call, Phases, OnTime
  <1> HIDE DEF k
  <1>3. /\ now' = now
        /\ permits' = [permits EXCEPT ![c] = CircuitBreaker!NoPermit]
        /\ \/ breaker'.state = "closed"
           \/ openedNow' = now
           \/ breaker' = breaker /\ openedNow' = openedNow
    BY RecordMoves DEF OperationsInvariant
  <1>4. /\ permits'[c] = CircuitBreaker!NoPermit
        /\ \A d \in Callers \ {c} : permits'[d] = permits[d]
    BY <1>3 DEF OperationsInvariant, CircuitBreaker!BreakerInvariant,
       CircuitBreaker!TypeOK
  <1> QED
    BY <1>1, <1>2, <1>3, <1>4, OneCallMoves

\* The catch block.
LEMMA FailureKeepsInvariant ==
  ASSUME OperationsInvariant, CircuitBreaker!BreakerInvariant',
         NEW c \in Callers, calls[c].phase \in {"fetching", "reading"},
         NEW error, NEW aborted \in BOOLEAN, AttemptFails(c, error, aborted)
  PROVE  OperationsInvariant'
  <1>1. CASE ShouldRetry(error, calls[c].attempt)
    <2>1. PICK r \in RandomPercents :
            /\ StartPause(c, DelayAfter(calls[c].attempt, r), aborted)
            /\ UNCHANGED breakerVars
      BY <1>1 DEF AttemptFails
    <2> DEFINE a == calls[c].attempt
               k == [phase |-> "sleeping", attempt |-> a,
                     deadline |-> now + DelayAfter(a, r),
                     startedAt |-> calls[c].startedAt, aborted |-> aborted]
    <2>2. /\ calls[c] \in Call /\ calls \in [Callers -> Call] /\ now \in Nat
          /\ OnTime(calls[c])
      BY DEF OperationsInvariant, CircuitBreaker!BreakerInvariant, CircuitBreaker!TypeOK
    <2>3. /\ a \in 1..MaxAttempts /\ a < MaxAttempts
          /\ calls[c].startedAt \in Nat /\ calls[c].deadline \in Nat
          /\ calls[c].startedAt <= now /\ now <= calls[c].deadline
          /\ calls[c].deadline <= calls[c].startedAt + Longest(a, a - 1)
      BY <1>1, <2>2 DEF OnTime, ShouldRetry, Call
    <2>4. calls' = [calls EXCEPT ![c] = k]
      BY <2>1 DEF StartPause
    <2> HIDE DEF a
    <2>5. /\ a \in 1..9 /\ Longest(a, a - 1) \in Nat
          /\ Longest(a, a) = Longest(a, a - 1) + MaximumRetryDelayAfter(a)
      BY <2>3, LongestGrows
    <2>6. /\ DelayAfter(a, r) \in Nat /\ MaximumRetryDelayAfter(a) \in Nat
          /\ DelayAfter(a, r) <= MaximumRetryDelayAfter(a)
      BY <2>5, DelayIsBounded, RandomSourceAssumption
    <2>7. /\ now + DelayAfter(a, r) \in Nat
          /\ now <= now + DelayAfter(a, r)
          /\ now + DelayAfter(a, r) <= calls[c].startedAt + Longest(a, a)
      BY <2>2, <2>3, <2>5, <2>6
    <2>8. k \in Call
      BY <2>3, <2>7, RetryConfigAssumption DEF Call, Phases
    <2>9. OnTime(k) /\ k.phase # "idle" /\ k.startedAt = calls[c].startedAt
      BY <2>3, <2>7 DEF OnTime
    <2> HIDE DEF k
    <2> QED
      BY <2>1, <2>4, <2>8, <2>9, GoingOnKeepsInvariant
  <1>2. CASE ~ShouldRetry(error, calls[c].attempt)
    BY <1>2, FinishKeepsInvariant DEF AttemptFails
  <1> QED
    BY <1>1, <1>2

\* The response arrives and its body is awaited, under the same timer.
LEMMA ResolvedKeepsInvariant ==
  ASSUME OperationsInvariant, CircuitBreaker!BreakerInvariant',
         NEW c \in Callers, FetchResolves(c)
  PROVE  OperationsInvariant'
  <1> DEFINE k == [calls[c] EXCEPT !.phase = "reading"]
  <1>1. /\ calls[c] \in Call /\ calls \in [Callers -> Call] /\ OnTime(calls[c])
        /\ calls[c].phase = "fetching"
    BY DEF OperationsInvariant, FetchResolves
  <1>2. calls' = [calls EXCEPT ![c] = k] /\ UNCHANGED breakerVars
    BY DEF FetchResolves
  <1>3. /\ k \in Call /\ k.phase = "reading" /\ k.attempt = calls[c].attempt
        /\ k.deadline = calls[c].deadline /\ k.startedAt = calls[c].startedAt
    BY <1>1 DEF Call, Phases
  <1> HIDE DEF k
  <1>4. OnTime(k)
    BY <1>1, <1>3 DEF OnTime
  <1> QED
    BY <1>1, <1>2, <1>3, <1>4, GoingOnKeepsInvariant

\* The pause is over: the next attempt has its full timeout.
LEMMA SleepEndsKeepsInvariant ==
  ASSUME OperationsInvariant, CircuitBreaker!BreakerInvariant',
         NEW c \in Callers, SleepEnds(c)
  PROVE  OperationsInvariant'
  <1> DEFINE a == calls[c].attempt
             k == [phase |-> "fetching", attempt |-> a + 1,
                   deadline |-> now + AttemptTimeout, startedAt |-> calls[c].startedAt,
                   aborted |-> FALSE]
  <1>1. /\ calls[c] \in Call /\ OnTime(calls[c]) /\ now \in Nat
        /\ calls[c].phase = "sleeping" /\ now >= calls[c].deadline
    BY DEF OperationsInvariant, SleepEnds, CircuitBreaker!BreakerInvariant,
       CircuitBreaker!TypeOK
  <1>2. calls' = [calls EXCEPT ![c] = k] /\ UNCHANGED breakerVars
    BY DEF SleepEnds, StartAttempt
  <1>3. /\ a \in 1..MaxAttempts /\ a < MaxAttempts
        /\ calls[c].startedAt \in Nat /\ calls[c].deadline \in Nat
        /\ calls[c].startedAt <= now /\ now <= calls[c].deadline
        /\ calls[c].deadline <= calls[c].startedAt + Longest(a, a)
    BY <1>1 DEF OnTime, Call
  <1> HIDE DEF a
  <1>4. /\ Longest(a, a) \in Nat /\ Longest(a + 1, a) = Longest(a, a) + AttemptTimeout
    BY <1>3, LongestGrows
  <1>5. /\ a + 1 \in 1..MaxAttempts /\ (a + 1) - 1 = a
        /\ AttemptTimeout \in Nat /\ now + AttemptTimeout \in Nat
        /\ now <= now + AttemptTimeout
        /\ now + AttemptTimeout <= calls[c].startedAt + Longest(a + 1, a)
    BY <1>1, <1>3, <1>4, RetryConfigAssumption
  <1>6. k \in Call /\ k.phase = "fetching" /\ k.startedAt = calls[c].startedAt
    BY <1>3, <1>5, RetryConfigAssumption DEF Call, Phases
  <1>7. OnTime(k)
    BY <1>3, <1>5 DEF OnTime
  <1> HIDE DEF k
  <1> QED
    BY <1>1, <1>2, <1>6, <1>7, GoingOnKeepsInvariant

\* Time passes only before every timer; the clock of the breaker is none of them.
LEMMA TimeKeepsInvariant ==
  ASSUME OperationsInvariant, CircuitBreaker!BreakerInvariant',
         Tick \/ ClockStepped \/ Quiescent \/ UNCHANGED vars
  PROVE  OperationsInvariant'
  <1>1. /\ calls' = calls /\ permits' = permits /\ openedNow' = openedNow
        /\ breaker' = breaker
        /\ \/ now' = now
           \/ /\ now' = now + 1
              /\ \A c \in Callers : calls[c].phase # "idle" => now < calls[c].deadline
    BY DEF Tick, ClockStepped, Quiescent, vars, CircuitBreaker!Tick,
       CircuitBreaker!ClockStepped
  <1>2. now \in Nat
    BY DEF OperationsInvariant, CircuitBreaker!BreakerInvariant, CircuitBreaker!TypeOK
  <1>3. ASSUME NEW c \in Callers PROVE OnTime(calls[c])'
    <2>1. calls[c] \in Call /\ OnTime(calls[c])
      BY DEF OperationsInvariant
    <2>2. CASE calls[c].phase = "idle"
      BY <1>1, <2>2 DEF OnTime
    <2>3. CASE calls[c].phase # "idle"
      <3>1. /\ calls[c].deadline \in Nat /\ calls[c].startedAt \in Nat
            /\ calls[c].startedAt <= now /\ now <= calls[c].deadline
        BY <2>1, <2>3 DEF Call, OnTime
      <3>2. calls[c].startedAt <= now' /\ now' <= calls[c].deadline
        BY <1>1, <1>2, <2>3, <3>1
      <3> QED
        BY <1>1, <2>1, <2>3, <3>2 DEF OnTime, Longest
    <2> QED
      BY <2>2, <2>3
  <1>4. PermitHeldWhileCalling' /\ EarlierCallsAreOlder'
    BY <1>1 DEF OperationsInvariant, PermitHeldWhileCalling, EarlierCallsAreOlder, Calling,
       CircuitBreaker!Current, CircuitBreaker!NoPermit
  <1> QED
    BY <1>1, <1>3, <1>4 DEF OperationsInvariant

\* The invariant of the operations holds in every reachable state.
LEMMA OperationsAreOnTime == Spec => []OperationsInvariant
  <1>1. Init => OperationsInvariant
    <2> SUFFICES ASSUME Init PROVE OperationsInvariant
      OBVIOUS
    <2>1. CircuitBreaker!BreakerInvariant
      BY SameBreaker, BreakerAssumption, BreakerTheorems!InitEstablishesBreakerInvariant
         DEF Init
    <2>2. Idle \in Call /\ Idle.phase = "idle"
      BY RetryConfigAssumption DEF Idle, Call, Phases
    <2>3. calls \in [Callers -> Call] /\ \A c \in Callers : calls[c].phase = "idle"
      BY <2>2 DEF Init
    <2>4. \A c \in Callers : permits[c] = CircuitBreaker!NoPermit
      BY DEF Init, CircuitBreaker!Init
    <2> QED
      BY <2>1, <2>3, <2>4 DEF OperationsInvariant, OnTime, PermitHeldWhileCalling,
         EarlierCallsAreOlder, Calling
  <1>2. OperationsInvariant /\ [Next]_vars => OperationsInvariant'
    <2> SUFFICES ASSUME OperationsInvariant, [Next]_vars PROVE OperationsInvariant'
      OBVIOUS
    <2>1. CircuitBreaker!BreakerInvariant'
      BY StepIsBreakerStep, BreakerStepKeepsInvariant DEF OperationsInvariant
    <2>2. ASSUME NEW c \in Callers, Process(c) PROVE OperationsInvariant'
      BY <2>1, <2>2, ProcessKeepsInvariant
    <2>3. ASSUME NEW c \in Callers, FetchFails(c) PROVE OperationsInvariant'
      BY <2>1, <2>3, FailureKeepsInvariant DEF FetchFails
    <2>4. ASSUME NEW c \in Callers, FetchResolves(c) PROVE OperationsInvariant'
      BY <2>1, <2>4, ResolvedKeepsInvariant
    <2>5. ASSUME NEW c \in Callers, BodyApproves(c) PROVE OperationsInvariant'
      BY <2>1, <2>5, FinishKeepsInvariant DEF BodyApproves
    <2>6. ASSUME NEW c \in Callers, BodyFails(c) PROVE OperationsInvariant'
      BY <2>1, <2>6, FailureKeepsInvariant DEF BodyFails
    <2>7. ASSUME NEW c \in Callers, AbortTimerFires(c) PROVE OperationsInvariant'
      BY <2>1, <2>7, FailureKeepsInvariant DEF AbortTimerFires
    <2>8. ASSUME NEW c \in Callers, SleepEnds(c) PROVE OperationsInvariant'
      BY <2>1, <2>8, SleepEndsKeepsInvariant
    <2>9. CASE Tick \/ ClockStepped \/ Quiescent \/ UNCHANGED vars
      BY <2>1, <2>9, TimeKeepsInvariant
    <2> QED
      BY <2>2, <2>3, <2>4, <2>5, <2>6, <2>7, <2>8, <2>9 DEF Next
  <1> QED
    BY <1>1, <1>2, PTL DEF Spec

--------------------------------------------------------------------------------
(* The theorems                                                               *)

\* Every way out of process records exactly one outcome and no retry acquires again:
\* an operation holds a permit exactly while it is in progress.
THEOREM PermitsAreReturned == Spec => []PermitHeldWhileCalling
  <1>1. OperationsInvariant => PermitHeldWhileCalling
    BY DEF OperationsInvariant
  <1> QED
    BY <1>1, OperationsAreOnTime, PTL

\* Whatever the provider does and whatever jitter is drawn, process is over within
\* calculateMaximumRetryWindowMs.
LEMMA WindowFollows == OperationsInvariant => WithinRetryWindow
  <1> SUFFICES ASSUME OperationsInvariant, NEW c \in Callers, calls[c].phase # "idle"
               PROVE  /\ now <= calls[c].startedAt + MaximumRetryWindow
                      /\ calls[c].deadline <= calls[c].startedAt + MaximumRetryWindow
    BY DEF WithinRetryWindow, Calling
  <1> DEFINE a == calls[c].attempt
  <1>1. calls[c] \in Call /\ OnTime(calls[c]) /\ now \in Nat
    BY DEF OperationsInvariant, CircuitBreaker!BreakerInvariant, CircuitBreaker!TypeOK
  <1>2. /\ a \in 1..MaxAttempts
        /\ calls[c].startedAt \in Nat /\ calls[c].deadline \in Nat
        /\ now <= calls[c].deadline
        /\ \/ /\ a < MaxAttempts
              /\ calls[c].deadline <= calls[c].startedAt + Longest(a, a)
           \/ calls[c].deadline <= calls[c].startedAt + Longest(a, a - 1)
    BY <1>1 DEF OnTime, Call
  <1> HIDE DEF a
  <1>3. /\ MaximumRetryWindow \in Nat
        /\ Longest(a, a - 1) \in Nat /\ Longest(a, a - 1) <= MaximumRetryWindow
        /\ a < MaxAttempts => Longest(a, a) \in Nat /\ Longest(a, a) <= MaximumRetryWindow
    BY <1>2, LongestGrows
  <1> QED
    BY <1>1, <1>2, <1>3

\* The figure from which the startup checks derive the stale timeout and the grace
\* period is a bound on every operation.
THEOREM RetriesEndInWindow == Spec => []WithinRetryWindow
  BY WindowFollows, OperationsAreOnTime, PTL

\* If the open interval exceeds the retry window and the errors of the clock, the
\* half-open probe is the only operation at the provider: the operations admitted
\* before the breaker opened are over.
THEOREM ProbeIsAlone == Spec => []HalfOpenProbeIsAlone
  <1>1. OperationsInvariant => HalfOpenProbeIsAlone
    <2> SUFFICES ASSUME OperationsInvariant,
                        OpenDuration > MaximumRetryWindow + 2 * MaxDrift,
                        breaker.state = "half_open",
                        NEW c \in Callers, calls[c].phase # "idle"
                 PROVE  CircuitBreaker!Probing(c)
      BY DEF HalfOpenProbeIsAlone, Calling
    <2>1. CASE CircuitBreaker!Current(c)
      BY <2>1 DEF OperationsInvariant, CircuitBreaker!BreakerInvariant,
         CircuitBreaker!CurrentPermitsMatchState, CircuitBreaker!Probing
    <2>2. CASE ~CircuitBreaker!Current(c)
      <3>1. calls[c].startedAt <= openedNow
        BY <2>2 DEF OperationsInvariant, EarlierCallsAreOlder, Calling
      <3>2. now + 2 * MaxDrift >= openedNow + OpenDuration
        BY DEF OperationsInvariant, CircuitBreaker!BreakerInvariant,
           CircuitBreaker!HalfOpenIsDue, CircuitBreaker!IntervalElapsed
      <3>3. now <= calls[c].startedAt + MaximumRetryWindow
        BY WindowFollows DEF WithinRetryWindow, Calling
      <3>4. /\ now \in Nat /\ openedNow \in Nat /\ calls[c].startedAt \in Nat
            /\ OpenDuration \in Nat /\ MaxDrift \in Nat /\ MaximumRetryWindow \in Nat
        <4>1. 1 \in 1..MaxAttempts
          BY RetryConfigAssumption
        <4>2. MaximumRetryWindow \in Nat
          BY <4>1, LongestGrows
        <4> QED
          BY <4>2, BreakerAssumption DEF OperationsInvariant, Call,
             CircuitBreaker!BreakerInvariant, CircuitBreaker!TypeOK
      <3> QED
        BY <3>1, <3>2, <3>3, <3>4
    <2> QED
      BY <2>1, <2>2
  <1> QED
    BY <1>1, OperationsAreOnTime, PTL
================================================================================
