------------------------- MODULE CircuitBreakerProofs -------------------------
(***************************************************************************)
(* The circuit breaker's invariant and its two action properties, for every *)
(* set of callers, threshold, open interval, clock error and bound.         *)
(***************************************************************************)
EXTENDS CircuitBreaker, TLAPS

\* The initial breaker is closed, holds no failures and has issued no permit.
LEMMA InitEstablishesBreakerInvariant == Init => BreakerInvariant
  BY BreakerConfigAssumption, BreakerBoundsAssumption
  DEF Init, BreakerInvariant, TypeOK, PermitsNotFromFuture,
      CurrentPermitsMatchState, SingleProbe, ProbeFlagHasOwner,
      FailuresBelowThreshold, OpeningIsTimed, HalfOpenIsDue, Probing, Current,
      InitialBreaker, Breaker, CircuitStates, Permit, NoPermit, Drifts

\* What a reading of the wall clock that makes an open breaker due says about the
\* real time: both readings are off by at most MaxDrift.
LEMMA DueMeansElapsed ==
  ASSUME TypeOK, OpeningIsTimed, Clock - breaker.openedAt >= OpenDuration
  PROVE  IntervalElapsed
  <1>1. /\ now \in Nat /\ openedNow \in Nat /\ breaker.openedAt \in Int
        /\ drift \in Int /\ drift <= MaxDrift
        /\ breaker.openedAt - openedNow >= -MaxDrift
        /\ OpenDuration \in Nat /\ MaxDrift \in Nat
    BY BreakerConfigAssumption, BreakerBoundsAssumption
       DEF TypeOK, OpeningIsTimed, Drifts, Breaker
  <1> QED
    BY <1>1 DEF Clock, IntervalElapsed

\* Moving an open breaker to half_open keeps the invariant: no permit of the
\* current generation exists while the breaker is open.
LEMMA AdvanceKeepsBreakerInvariant ==
  ASSUME BreakerInvariant,
         breaker' = AdvanceToHalfOpenWhenReady(breaker, Clock),
         UNCHANGED <<now, drift, permits, openedNow>>
  PROVE  BreakerInvariant'
  <1>1. CASE breaker' = breaker
    BY <1>1 DEF BreakerInvariant, TypeOK, PermitsNotFromFuture,
      CurrentPermitsMatchState, SingleProbe, ProbeFlagHasOwner,
      FailuresBelowThreshold, OpeningIsTimed, HalfOpenIsDue, IntervalElapsed, Probing,
      Current
  <1>2. CASE /\ breaker.state = "open"
             /\ Clock - breaker.openedAt >= OpenDuration
             /\ breaker' = [breaker EXCEPT !.state = "half_open", !.probing = FALSE]
    <2>1. /\ breaker' \in Breaker
          /\ breaker'.state = "half_open"
          /\ breaker'.probing = FALSE
          /\ breaker'.failures = breaker.failures
          /\ breaker'.generation = breaker.generation
          /\ breaker'.openedAt = breaker.openedAt
      BY <1>2 DEF BreakerInvariant, TypeOK, Breaker, CircuitStates
    <2>2. \A c \in Callers : ~Current(c)
      BY <1>2 DEF BreakerInvariant, CurrentPermitsMatchState, TypeOK, Permit
    <2>3. HalfOpenIsDue' /\ OpeningIsTimed'
      BY <1>2, <2>1, DueMeansElapsed
         DEF HalfOpenIsDue, IntervalElapsed, OpeningIsTimed, BreakerInvariant
    <2> QED
      BY <1>2, <2>1, <2>2, <2>3 DEF BreakerInvariant, TypeOK, PermitsNotFromFuture,
        CurrentPermitsMatchState, SingleProbe, ProbeFlagHasOwner,
        FailuresBelowThreshold, Probing, Current
  <1> QED
    BY <1>1, <1>2 DEF AdvanceToHalfOpenWhenReady

\* open() and close() start a generation that no outstanding permit belongs to,
\* whoever's outcome triggers them.
LEMMA NewGenerationKeepsBreakerInvariant ==
  ASSUME BreakerInvariant, NEW c \in Callers,
         permits' = [permits EXCEPT ![c] = NoPermit],
         now' = now, drift' = drift, openedNow' \in Nat,
         breaker' \in Breaker, OpeningIsTimed',
         breaker'.state # "half_open",
         breaker'.generation = breaker.generation + 1,
         breaker'.probing = FALSE,
         breaker'.failures = 0
  PROVE  BreakerInvariant'
  <1>1. permits' \in [Callers -> Permit]
    BY DEF BreakerInvariant, TypeOK, Permit, NoPermit
  <1>2. \A d \in Callers : permits'[d].generation <= breaker.generation
    BY DEF BreakerInvariant, TypeOK, PermitsNotFromFuture, NoPermit, Breaker, Permit
  <1>3. \A d \in Callers : ~Current(d)'
    BY <1>1, <1>2 DEF Current, BreakerInvariant, TypeOK, Breaker, Permit
  <1>4. TypeOK' /\ PermitsNotFromFuture'
    BY <1>1, <1>2 DEF BreakerInvariant, TypeOK, PermitsNotFromFuture, Breaker, Permit
  <1>5. FailuresBelowThreshold' /\ HalfOpenIsDue'
    BY BreakerConfigAssumption DEF FailuresBelowThreshold, HalfOpenIsDue
  <1>6. CurrentPermitsMatchState' /\ SingleProbe' /\ ProbeFlagHasOwner'
    BY <1>3 DEF CurrentPermitsMatchState, SingleProbe, ProbeFlagHasOwner, Probing
  <1> QED
    BY <1>4, <1>5, <1>6 DEF BreakerInvariant

\* An outcome that is not the probe's, and that only changes the failure count,
\* leaves the permits of the others and the probe alone.
LEMMA SameGenerationKeepsBreakerInvariant ==
  ASSUME BreakerInvariant, NEW c \in Callers, ~Probing(c),
         permits' = [permits EXCEPT ![c] = NoPermit],
         now' = now, drift' = drift, openedNow' = openedNow,
         breaker' \in Breaker,
         breaker'.state = breaker.state,
         breaker'.generation = breaker.generation,
         breaker'.probing = breaker.probing,
         breaker'.openedAt = breaker.openedAt,
         FailuresBelowThreshold'
  PROVE  BreakerInvariant'
  <1>1. permits' \in [Callers -> Permit]
    BY DEF BreakerInvariant, TypeOK, Permit, NoPermit
  <1>2. TypeOK' /\ PermitsNotFromFuture'
    BY <1>1 DEF BreakerInvariant, TypeOK, PermitsNotFromFuture, NoPermit, Breaker, Permit
  <1>3. \A d \in Callers : Current(d)' => d # c /\ Current(d) /\ permits'[d] = permits[d]
    BY DEF Current, BreakerInvariant, TypeOK
  <1>4. \A d \in Callers : d # c /\ Current(d) => Current(d)' /\ permits'[d] = permits[d]
    BY DEF Current, BreakerInvariant, TypeOK
  <1>5. \A d \in Callers : Probing(d)' <=> Probing(d)
    BY <1>3, <1>4 DEF Probing
  <1>6. CurrentPermitsMatchState'
    BY <1>3 DEF BreakerInvariant, CurrentPermitsMatchState
  <1>7. SingleProbe' /\ ProbeFlagHasOwner'
    BY <1>5 DEF BreakerInvariant, SingleProbe, ProbeFlagHasOwner
  <1>8. HalfOpenIsDue' /\ OpeningIsTimed'
    BY DEF BreakerInvariant, HalfOpenIsDue, IntervalElapsed, OpeningIsTimed
  <1> QED
    BY <1>2, <1>6, <1>7, <1>8 DEF BreakerInvariant

\* acquire(): at most one caller gets the half-open permit, and the flag is set
\* in the same step.
LEMMA AcquireKeepsBreakerInvariant ==
  ASSUME BreakerInvariant, NEW c \in Callers, Acquire(c)
  PROVE  BreakerInvariant'
  <1> DEFINE b == AdvanceToHalfOpenWhenReady(breaker, Clock)
  <1>1. /\ b \in Breaker
        /\ b.generation = breaker.generation
        /\ b.failures = breaker.failures
        /\ (b.state = "closed") <=> (breaker.state = "closed")
        /\ b.openedAt = breaker.openedAt
        /\ \/ b = breaker
           \/ /\ breaker.state = "open" /\ b.state = "half_open" /\ b.probing = FALSE
              /\ Clock - breaker.openedAt >= OpenDuration
    <2>1. CASE b = breaker
      BY <2>1 DEF BreakerInvariant, TypeOK
    <2>2. CASE /\ breaker.state = "open"
               /\ Clock - breaker.openedAt >= OpenDuration
               /\ b = [breaker EXCEPT !.state = "half_open", !.probing = FALSE]
      BY <2>2 DEF BreakerInvariant, TypeOK, Breaker, CircuitStates
    <2> QED
      BY <2>1, <2>2 DEF AdvanceToHalfOpenWhenReady
  <1>2. /\ permits[c] = NoPermit
        /\ permits' = [permits EXCEPT ![c] = PermitOf(b)]
        /\ breaker' = AfterAcquire(b)
        /\ now' = now /\ drift' = drift /\ openedNow' = openedNow
    BY DEF Acquire
  <1>3. /\ breaker' \in Breaker
        /\ breaker'.generation = breaker.generation
        /\ breaker'.state = b.state
        /\ breaker'.openedAt = b.openedAt
        /\ breaker'.failures = breaker.failures
        /\ breaker'.probing = (b.probing \/ b.state = "half_open")
    BY <1>1, <1>2 DEF AfterAcquire, Breaker
  <1>4. \A d \in Callers : Current(d) => permits[d].mode = b.state
    BY <1>1 DEF BreakerInvariant, CurrentPermitsMatchState, TypeOK, Permit
  <1>5. PermitOf(b) \in Permit /\ PermitOf(b).generation <= breaker.generation
    BY <1>1 DEF PermitOf, NoPermit, Permit, Breaker, CircuitStates
  <1>6. TypeOK' /\ PermitsNotFromFuture'
    BY <1>2, <1>3, <1>5 DEF BreakerInvariant, TypeOK, PermitsNotFromFuture
  <1>7. FailuresBelowThreshold'
    BY <1>1, <1>3 DEF BreakerInvariant, FailuresBelowThreshold
  <1>8. ASSUME NEW d \in Callers, Current(d)'
        PROVE  \/ d # c /\ Current(d) /\ permits'[d] = permits[d]
               \/ /\ d = c
                  /\ permits'[d] = [mode |-> b.state, generation |-> b.generation]
                  /\ b.state = "half_open" => b.probing = FALSE
    BY <1>1, <1>2, <1>3, <1>8 DEF Current, PermitOf, BreakerInvariant, TypeOK, Breaker
  <1>9. CurrentPermitsMatchState'
    <2> SUFFICES ASSUME NEW d \in Callers, Current(d)'
                 PROVE  permits'[d].mode = b.state
      BY <1>3 DEF CurrentPermitsMatchState
    <2>1. CASE Current(d) /\ permits'[d] = permits[d]
      BY <1>4, <2>1
    <2>2. CASE permits'[d] = [mode |-> b.state, generation |-> b.generation]
      BY <2>2
    <2> QED
      BY <1>8, <2>1, <2>2
  <1>10. ASSUME NEW d \in Callers, Probing(d)
         PROVE  b = breaker /\ b.state = "half_open" /\ b.probing
    <2>1. permits[d].mode = "half_open" /\ Current(d)
      BY <1>10 DEF Probing
    <2>2. breaker.state = "half_open"
      BY <2>1 DEF BreakerInvariant, CurrentPermitsMatchState
    <2>3. breaker.probing
      BY <1>10 DEF BreakerInvariant, ProbeFlagHasOwner
    <2> QED
      BY <1>1, <2>2, <2>3
  <1>11. SingleProbe'
    BY <1>8, <1>10 DEF SingleProbe, Probing, BreakerInvariant
  <1>12. ProbeFlagHasOwner'
    <2>1. CASE b.state # "half_open"
      <3>1. ~breaker'.probing
        <4>1. ~b.probing
          BY <1>1, <2>1 DEF BreakerInvariant, ProbeFlagHasOwner, Probing,
             CurrentPermitsMatchState
        <4> QED
          BY <1>3, <2>1, <4>1
      <3>2. \A d \in Callers : ~Probing(d)'
        BY <1>3, <1>9, <2>1 DEF Probing, CurrentPermitsMatchState
      <3> QED
        BY <3>1, <3>2 DEF ProbeFlagHasOwner
    <2>2. CASE b.state = "half_open" /\ b.probing
      <3>1. breaker'.probing
        BY <1>3, <2>2
      <3>2. b = breaker
        BY <1>1, <2>2
      <3>3. PICK d \in Callers : Probing(d)
        BY <2>2, <3>2 DEF BreakerInvariant, ProbeFlagHasOwner
      <3>4. d # c /\ permits'[d] = permits[d]
        BY <1>2, <3>3 DEF Probing, Current, BreakerInvariant, TypeOK
      <3>5. Probing(d)'
        BY <1>3, <3>3, <3>4 DEF Probing, Current
      <3> QED
        BY <3>1, <3>5 DEF ProbeFlagHasOwner
    <2>3. CASE b.state = "half_open" /\ ~b.probing
      <3>1. breaker'.probing
        BY <1>3, <2>3
      <3>2. permits'[c] = [mode |-> "half_open", generation |-> b.generation]
        BY <1>2, <2>3 DEF PermitOf, BreakerInvariant, TypeOK
      <3>3. Probing(c)'
        BY <1>1, <1>3, <3>2 DEF Probing, Current, NoPermit
      <3> QED
        BY <3>1, <3>3 DEF ProbeFlagHasOwner
    <2> QED
      BY <2>1, <2>2, <2>3
  <1>13. HalfOpenIsDue' /\ OpeningIsTimed'
    <2>1. IntervalElapsed' <=> IntervalElapsed
      BY <1>2 DEF IntervalElapsed
    <2>2. b.state = "half_open" => IntervalElapsed
      BY <1>1, DueMeansElapsed DEF HalfOpenIsDue, BreakerInvariant
    <2>3. OpeningIsTimed'
      BY <1>1, <1>2, <1>3 DEF OpeningIsTimed, BreakerInvariant
    <2> QED
      BY <1>3, <2>1, <2>2, <2>3 DEF HalfOpenIsDue
  <1> QED
    BY <1>6, <1>7, <1>9, <1>11, <1>12, <1>13 DEF BreakerInvariant

\* The probe's outcome, recorded by any of the three methods, ends the probe by
\* starting a new generation.
LEMMA RecordKeepsBreakerInvariant ==
  ASSUME BreakerInvariant, NEW c \in Callers,
         RecordSuccess(c) \/ RecordFailure(c) \/ RecordNonFailure(c)
  PROVE  BreakerInvariant'
  <1> DEFINE p == permits[c]
  <1>1. /\ permits' = [permits EXCEPT ![c] = NoPermit]
        /\ now' = now /\ drift' = drift
        /\ openedNow' = IF breaker'.state = "open" /\ breaker.state # "open"
                           THEN now ELSE openedNow
        /\ p # NoPermit
        /\ p \in Permit
        /\ breaker \in Breaker
        /\ now \in Nat /\ openedNow \in Nat /\ drift \in Drifts
        /\ OpeningIsTimed
    BY DEF RecordSuccess, RecordFailure, RecordNonFailure, Record,
       BreakerInvariant, TypeOK
  <1>2. CASE \/ breaker' = Opened(breaker, Clock) /\ breaker.state # "open"
             \/ breaker' = Closed(breaker)
    <2>1. /\ breaker' \in Breaker
          /\ breaker'.state # "half_open"
          /\ breaker'.generation = breaker.generation + 1
          /\ breaker'.probing = FALSE
          /\ breaker'.failures = 0
          /\ openedNow' \in Nat
          /\ OpeningIsTimed'
      <3>1. CASE breaker' = Opened(breaker, Clock) /\ breaker.state # "open"
        <4>1. Clock \in Int /\ Clock - now = drift
          BY <1>1, BreakerBoundsAssumption DEF Clock, Drifts
        <4>2. openedNow' = now /\ breaker'.openedAt = Clock
          BY <1>1, <3>1 DEF Opened
        <4>3. OpeningIsTimed'
          BY <1>1, <4>1, <4>2 DEF OpeningIsTimed, Drifts
        <4> QED
          BY <1>1, <3>1, <4>1, <4>2, <4>3 DEF Opened, Breaker, CircuitStates
      <3>2. CASE breaker' = Closed(breaker)
        BY <1>1, <3>2 DEF Closed, Breaker, CircuitStates, OpeningIsTimed
      <3> QED
        BY <1>2, <3>1, <3>2
    <2> QED
      BY <1>1, <2>1, NewGenerationKeepsBreakerInvariant
  <1>3. CASE ~Probing(c) /\ breaker' = breaker
    BY <1>1, <1>3, SameGenerationKeepsBreakerInvariant
       DEF BreakerInvariant, FailuresBelowThreshold
  <1>4. CASE /\ ~Probing(c)
             /\ breaker.state = "closed"
             /\ \E n \in Nat : /\ n < FailureThreshold
                               /\ breaker' = [breaker EXCEPT !.failures = n]
    <2>1. /\ breaker' \in Breaker
          /\ breaker'.state = breaker.state
          /\ breaker'.generation = breaker.generation
          /\ breaker'.probing = breaker.probing
          /\ breaker'.openedAt = breaker.openedAt
          /\ FailuresBelowThreshold'
      BY <1>1, <1>4 DEF Breaker, FailuresBelowThreshold
    <2> QED
      BY <1>1, <1>4, <2>1, SameGenerationKeepsBreakerInvariant
  <1>5. /\ Probing(c) <=> IsCurrent(breaker, p) /\ p.mode = "half_open"
        /\ Probing(c) => breaker.state = "half_open"
    BY <1>1 DEF Probing, Current, IsCurrent, BreakerInvariant, CurrentPermitsMatchState
  <1>6. CASE RecordSuccess(c)
    <2>1. breaker' = AfterSuccess(breaker, p)
      BY <1>6 DEF RecordSuccess, Record
    <2> QED
      BY <1>2, <1>3, <1>4, <1>5, <2>1, BreakerConfigAssumption DEF AfterSuccess
  <1>7. CASE RecordFailure(c)
    <2>1. breaker' = AfterFailure(breaker, p, Clock)
      BY <1>7 DEF RecordFailure, Record
    <2>2. breaker.failures + 1 \in Nat
      BY <1>1 DEF Breaker
    <2> QED
      BY <1>2, <1>3, <1>4, <1>5, <2>1, <2>2, BreakerConfigAssumption DEF AfterFailure
  <1>8. CASE RecordNonFailure(c)
    <2>1. breaker' = AfterNonFailure(breaker, p)
      BY <1>8 DEF RecordNonFailure, Record
    <2> QED
      BY <1>2, <1>3, <1>5, <2>1 DEF AfterNonFailure
  <1> QED
    BY <1>6, <1>7, <1>8

\* Every step keeps the invariant.
LEMMA NextKeepsBreakerInvariant ==
  BreakerInvariant /\ [Next]_breakerVars => BreakerInvariant'
  <1> SUFFICES ASSUME BreakerInvariant, [Next]_breakerVars PROVE BreakerInvariant'
    OBVIOUS
  <1>1. ASSUME NEW c \in Callers, Acquire(c) PROVE BreakerInvariant'
    BY <1>1, AcquireKeepsBreakerInvariant
  <1>2. ASSUME NEW c \in Callers,
               RecordSuccess(c) \/ RecordFailure(c) \/ RecordNonFailure(c)
        PROVE  BreakerInvariant'
    BY <1>2, RecordKeepsBreakerInvariant
  <1>3. CASE ReadState
    BY <1>3, AdvanceKeepsBreakerInvariant DEF ReadState
  <1>4. CASE Tick \/ ClockStepped \/ UNCHANGED breakerVars
    <2>1. /\ breaker' = breaker /\ permits' = permits /\ openedNow' = openedNow
          /\ now' \in Nat /\ now' >= now /\ drift' \in Drifts
      BY <1>4 DEF Tick, ClockStepped, breakerVars, BreakerInvariant, TypeOK
    <2>2. HalfOpenIsDue' /\ OpeningIsTimed'
      <3>1. IntervalElapsed => IntervalElapsed'
        <4>1. /\ now \in Nat /\ now' \in Nat /\ now' >= now
              /\ openedNow \in Nat /\ openedNow' = openedNow
              /\ OpenDuration \in Nat /\ MaxDrift \in Nat
          BY <2>1, BreakerConfigAssumption, BreakerBoundsAssumption
             DEF BreakerInvariant, TypeOK
        <4>2. \A n, m, o, d, e \in Nat : m >= n /\ n + e >= o + d => m + e >= o + d
          OBVIOUS
        <4>3. 2 * MaxDrift \in Nat
          BY <4>1
        <4> QED
          BY <4>1, <4>2, <4>3 DEF IntervalElapsed
      <3> QED
        BY <2>1, <3>1 DEF BreakerInvariant, HalfOpenIsDue, OpeningIsTimed, Drifts
    <2> QED
      BY <2>1, <2>2 DEF BreakerInvariant, TypeOK, PermitsNotFromFuture,
        CurrentPermitsMatchState, SingleProbe, ProbeFlagHasOwner,
        FailuresBelowThreshold, Probing, Current
  <1> QED
    BY <1>1, <1>2, <1>3, <1>4 DEF Next

\* The breaker's invariant holds in every reachable state: one probe, a probe
\* flag that never outlives its probe, permits that match the state, and a
\* failure count below the threshold.
THEOREM BreakerIsSafe == Spec => []BreakerInvariant
  <1>1. Init => BreakerInvariant
    BY InitEstablishesBreakerInvariant
  <1>2. BreakerInvariant /\ [Next]_breakerVars => BreakerInvariant'
    BY NextKeepsBreakerInvariant
  <1> QED
    BY <1>1, <1>2, PTL DEF Spec

\* The parts a reader looks for, as consequences of the invariant.
THEOREM ProbeIsExclusiveAndOwned ==
  Spec => [](TypeOK /\ SingleProbe /\ ProbeFlagHasOwner /\ CurrentPermitsMatchState)
  <1>1. BreakerInvariant =>
          TypeOK /\ SingleProbe /\ ProbeFlagHasOwner /\ CurrentPermitsMatchState
    BY DEF BreakerInvariant
  <1> QED
    BY <1>1, BreakerIsSafe, PTL

\* The wall clock cannot keep the breaker open: acquire() refuses nobody for an open
\* breaker more than twice MaxDrift after the end of its interval.
THEOREM OpenIsNeverOverdue == Spec => []OpenIsNotOverdue
  <1>1. BreakerInvariant => OpenIsNotOverdue
    <2> SUFFICES ASSUME BreakerInvariant,
                        AdvanceToHalfOpenWhenReady(breaker, Clock).state = "open"
                 PROVE  now < openedNow + OpenDuration + 2 * MaxDrift
      BY DEF OpenIsNotOverdue
    <2>1. /\ now \in Nat /\ openedNow \in Nat /\ breaker.openedAt \in Int
          /\ drift \in Int /\ drift >= -MaxDrift
          /\ breaker.openedAt - openedNow <= MaxDrift
          /\ OpenDuration \in Nat /\ MaxDrift \in Nat
      BY BreakerConfigAssumption, BreakerBoundsAssumption
         DEF BreakerInvariant, TypeOK, OpeningIsTimed, Drifts, Breaker
    <2>2. Clock - breaker.openedAt < OpenDuration
      BY <2>1 DEF AdvanceToHalfOpenWhenReady, BreakerInvariant, TypeOK, Breaker, Clock
    <2> QED
      BY <2>1, <2>2 DEF Clock
  <1> QED
    BY <1>1, BreakerIsSafe, PTL

\* The open interval is respected: from the moment the breaker opens, nobody is
\* admitted until OpenDuration has passed but for the error of the wall clock, and
\* then only as a probe.
THEOREM OpenIntervalIsRespectedAlways == Spec => OpenIntervalIsRespected
  <1> DEFINE Respected ==
        \A c \in Callers :
          (permits[c] = NoPermit /\ permits'[c] # NoPermit /\ breaker.state # "closed")
            => /\ IntervalElapsed
               /\ permits'[c].mode = "half_open"
  <1>1. BreakerInvariant /\ Next => Respected
    <2> SUFFICES ASSUME BreakerInvariant, Next, NEW c \in Callers,
                        permits[c] = NoPermit, permits'[c] # NoPermit,
                        breaker.state # "closed"
                 PROVE  /\ IntervalElapsed
                        /\ permits'[c].mode = "half_open"
      OBVIOUS
    <2>1. CASE Acquire(c)
      <3> DEFINE b == AdvanceToHalfOpenWhenReady(breaker, Clock)
      <3>1. permits'[c] = PermitOf(b)
        BY <2>1 DEF Acquire, BreakerInvariant, TypeOK
      <3>2. \/ b = breaker
            \/ Clock - breaker.openedAt >= OpenDuration /\ b.state = "half_open"
        BY DEF AdvanceToHalfOpenWhenReady, BreakerInvariant, TypeOK, Breaker
      <3>3. b.state = "half_open" /\ permits'[c].mode = b.state
        BY <3>1, <3>2 DEF PermitOf, BreakerInvariant, TypeOK, Breaker, CircuitStates
      <3> QED
        BY <3>2, <3>3, DueMeansElapsed DEF BreakerInvariant, HalfOpenIsDue
    <2>2. ~(RecordSuccess(c) \/ RecordFailure(c) \/ RecordNonFailure(c))
      BY DEF RecordSuccess, RecordFailure, RecordNonFailure, Record
    <2>3. ASSUME NEW d \in Callers \ {c},
                 \/ Acquire(d)
                 \/ RecordSuccess(d) \/ RecordFailure(d) \/ RecordNonFailure(d)
          PROVE  FALSE
      <3>1. permits'[c] = permits[c]
        BY <2>3 DEF Acquire, RecordSuccess, RecordFailure, RecordNonFailure, Record,
           BreakerInvariant, TypeOK
      <3> QED
        BY <3>1
    <2>4. ~ReadState /\ ~Tick /\ ~ClockStepped
      BY DEF ReadState, Tick, ClockStepped
    <2> QED
      BY <2>1, <2>2, <2>3, <2>4 DEF Next
  <1>2. BreakerInvariant /\ [Next]_breakerVars => [Respected]_breakerVars
    BY <1>1
  <1> QED
    BY <1>2, BreakerIsSafe, PTL DEF Spec, OpenIntervalIsRespected

\* Nobody else's outcome moves the breaker: apart from the timed move to half_open, a
\* change of state or of the failure count comes with the outcome of an operation
\* admitted in this generation and in this state.
THEOREM OnlyOwnEraMovesBreakerAlways == Spec => OnlyOwnEraMovesBreaker
  <1> DEFINE Still == breaker'.state = breaker.state /\ breaker'.failures = breaker.failures
             Timed == breaker.state = "open" /\ breaker'.state = "half_open"
             Own == \E c \in Callers : /\ Current(c)
                                       /\ permits[c].mode = breaker.state
                                       /\ permits'[c] = NoPermit
  <1>1. BreakerInvariant /\ Next => Still \/ Timed \/ Own
    <2> SUFFICES ASSUME BreakerInvariant, Next PROVE Still \/ Timed \/ Own
      OBVIOUS
    <2>1. breaker \in Breaker
      BY DEF BreakerInvariant, TypeOK
    <2>2. \A t : LET b == AdvanceToHalfOpenWhenReady(breaker, t)
                 IN  /\ b \in [state : CircuitStates, failures : Nat, openedAt : Int,
                               probing : BOOLEAN, generation : Nat]
                     /\ b.failures = breaker.failures
                     /\ \/ b.state = breaker.state
                        \/ breaker.state = "open" /\ b.state = "half_open"
      BY <2>1 DEF AdvanceToHalfOpenWhenReady, Breaker, CircuitStates
    <2>3. ASSUME NEW c \in Callers, Acquire(c) PROVE Still \/ Timed
      <3> DEFINE b == AdvanceToHalfOpenWhenReady(breaker, Clock)
      <3>1. breaker' = AfterAcquire(b)
        BY <2>3 DEF Acquire
      <3>2. /\ b \in [state : CircuitStates, failures : Nat, openedAt : Int,
                      probing : BOOLEAN, generation : Nat]
            /\ b.failures = breaker.failures
            /\ b.state = breaker.state \/ (breaker.state = "open" /\ b.state = "half_open")
        BY <2>2
      <3> HIDE DEF b
      <3>3. breaker'.state = b.state /\ breaker'.failures = b.failures
        BY <3>1, <3>2 DEF AfterAcquire
      <3> QED
        BY <3>2, <3>3
    <2>4. CASE ReadState
      BY <2>2, <2>4 DEF ReadState
    <2>5. CASE Tick \/ ClockStepped
      BY <2>5 DEF Tick, ClockStepped
    <2>6. ASSUME NEW c \in Callers,
                 RecordSuccess(c) \/ RecordFailure(c) \/ RecordNonFailure(c)
          PROVE  Still \/ Own
      <3>1. /\ permits[c] # NoPermit
            /\ permits' = [permits EXCEPT ![c] = NoPermit]
            /\ \/ breaker' = AfterSuccess(breaker, permits[c])
               \/ breaker' = AfterFailure(breaker, permits[c], Clock)
               \/ breaker' = AfterNonFailure(breaker, permits[c])
        BY <2>6 DEF RecordSuccess, RecordFailure, RecordNonFailure, Record
      <3>2. permits'[c] = NoPermit
        BY <3>1 DEF BreakerInvariant, TypeOK
      <3>3. CASE IsCurrent(breaker, permits[c])
        <4>1. Current(c) /\ permits[c].mode = breaker.state
          BY <3>1, <3>3 DEF IsCurrent, Current, BreakerInvariant, CurrentPermitsMatchState
        <4> QED
          BY <3>2, <4>1
      <3>4. CASE ~IsCurrent(breaker, permits[c])
        BY <3>1, <3>4 DEF AfterSuccess, AfterFailure, AfterNonFailure
      <3> QED
        BY <3>3, <3>4
    <2> QED
      BY <2>3, <2>4, <2>5, <2>6 DEF Next
  <1>2. BreakerInvariant /\ [Next]_breakerVars => [Still \/ Timed \/ Own]_breakerVars
    BY <1>1
  <1> QED
    BY <1>2, BreakerIsSafe, PTL DEF Spec, OnlyOwnEraMovesBreaker
===============================================================================
