---------------------------- MODULE CircuitBreaker ----------------------------
(***************************************************************************)
(* The in-process circuit breaker of the payment provider                  *)
(* (infrastructure/providers/circuit-breaker.ts) and the operations that    *)
(* hold its permits.                                                       *)
(*                                                                         *)
(* JavaScript runs each method to completion, so a method is one step; what *)
(* interleaves is the methods of concurrent operations: a permit is         *)
(* acquired, the provider is awaited for an arbitrary time, and the outcome *)
(* is recorded in whatever state the breaker has reached by then.           *)
(*                                                                         *)
(* The clock is new Date() (main.ts): wall time, which is off by a drift     *)
(* and may be stepped by the operator or by NTP while the breaker is open.   *)
(***************************************************************************)
EXTENDS Integers, FiniteSets

CONSTANTS
  Callers,           \* operations that may hold a permit at the same time
  FailureThreshold,  \* config.failureThreshold
  OpenDuration,      \* config.openDurationMs, in ticks
  MaxDrift,          \* how far the wall clock may be off, either way
  MaxTime,           \* bound on the time
  MaxGeneration      \* bound on the generations admitted

\* validateCircuitBreakerConfig.
ASSUME BreakerConfigAssumption ==
  /\ FailureThreshold \in Nat \ {0}
  /\ OpenDuration \in Nat \ {0}

ASSUME BreakerBoundsAssumption ==
  /\ MaxDrift \in Nat
  /\ MaxTime \in Nat
  /\ MaxGeneration \in Nat

VARIABLES
  now,       \* the time that has really passed
  drift,     \* what the wall clock is ahead of it
  breaker,   \* the private fields of CircuitBreaker
  permits,   \* the permit each caller holds between acquire and record...
  openedNow  \* history: when the breaker really opened

breakerVars == <<now, drift, breaker, permits, openedNow>>

\* clock.now()
Clock == now + drift

Drifts == -MaxDrift..MaxDrift

CircuitStates == {"closed", "open", "half_open"}

Breaker ==
  [state : CircuitStates, failures : Nat, openedAt : Int, probing : BOOLEAN,
   generation : Nat]

\* acquire() returned null, or the caller is between two operations.
NoPermit == [mode |-> "none", generation |-> 0]

Permit == [mode : {"none", "closed", "half_open"}, generation : Nat]

InitialBreaker ==
  [state |-> "closed", failures |-> 0, openedAt |-> 0, probing |-> FALSE,
   generation |-> 0]

-------------------------------------------------------------------------------
(* The methods, as functions of the breaker's fields and the time.          *)

\* Mutant: the interval must be exceeded.
AdvanceOneTickLate(b, t) ==
  IF b.state = "open" /\ t - b.openedAt > OpenDuration
    THEN [b EXCEPT !.state = "half_open", !.probing = FALSE]
    ELSE b

\* Mutant: one tick short.
AdvanceOneTickEarly(b, t) ==
  IF b.state = "open" /\ t - b.openedAt + 1 >= OpenDuration
    THEN [b EXCEPT !.state = "half_open", !.probing = FALSE]
    ELSE b

\* advanceToHalfOpenWhenReady: the generation is not bumped here.
AdvanceToHalfOpenWhenReady(b, t) ==
  IF b.state = "open" /\ t - b.openedAt >= OpenDuration
    THEN [b EXCEPT !.state = "half_open", !.probing = FALSE]
    ELSE b

\* open()
Opened(b, t) ==
  [state |-> "open", failures |-> 0, openedAt |-> t, probing |-> FALSE,
   generation |-> b.generation + 1]

\* close()
Closed(b) ==
  [state |-> "closed", failures |-> 0, openedAt |-> b.openedAt,
   probing |-> FALSE, generation |-> b.generation + 1]

\* Mutant: acquire() does not look at halfOpenProbeInFlight.
PermitIgnoringProbe(b) ==
  IF b.state = "open"
    THEN NoPermit
    ELSE [mode |-> b.state, generation |-> b.generation]

\* acquire(), on a breaker that has already been advanced: the permit it returns
PermitOf(b) ==
  IF b.state = "open" \/ (b.state = "half_open" /\ b.probing)
    THEN NoPermit
    ELSE [mode |-> b.state, generation |-> b.generation]

\* and the fields it leaves behind.
AfterAcquire(b) == [b EXCEPT !.probing = b.probing \/ b.state = "half_open"]

\* Mutant: isCurrent() accepts a permit of any generation.
IsCurrentAlways(b, p) == TRUE

IsCurrent(b, p) == p.generation = b.generation

\* recordSuccess(permit)
AfterSuccess(b, p) ==
  CASE ~IsCurrent(b, p)                          -> b
    [] IsCurrent(b, p) /\ p.mode = "half_open"   -> Closed(b)
    [] IsCurrent(b, p) /\ p.mode # "half_open"   ->
         IF b.state = "closed" THEN [b EXCEPT !.failures = 0] ELSE b

\* recordFailure(permit)
AfterFailure(b, p, t) ==
  CASE ~IsCurrent(b, p)                          -> b
    [] IsCurrent(b, p) /\ p.mode = "half_open"   -> Opened(b, t)
    [] IsCurrent(b, p) /\ p.mode # "half_open"   ->
         CASE b.state # "closed"                   -> b
           [] b.state = "closed"
                /\ b.failures + 1 >= FailureThreshold -> Opened(b, t)
           [] b.state = "closed"
                /\ b.failures + 1 < FailureThreshold  ->
                [b EXCEPT !.failures = b.failures + 1]

\* Mutant: recordNonFailure() leaves a half-open breaker as it is.
AfterNonFailureUntouched(b, p) == b

\* recordNonFailure(permit)
AfterNonFailure(b, p) ==
  IF IsCurrent(b, p) /\ p.mode = "half_open" THEN Closed(b) ELSE b

-------------------------------------------------------------------------------
Init ==
  /\ now = 0
  /\ drift \in Drifts
  /\ breaker = InitialBreaker
  /\ permits = [c \in Callers |-> NoPermit]
  /\ openedNow = 0

\* acquire() by an operation that holds no permit.
Acquire(c) ==
  /\ permits[c] = NoPermit
  /\ breaker.generation < MaxGeneration
  /\ LET b == AdvanceToHalfOpenWhenReady(breaker, Clock)
     IN  /\ permits' = [permits EXCEPT ![c] = PermitOf(b)]
         /\ breaker' = AfterAcquire(b)
  /\ UNCHANGED <<now, drift, openedNow>>

\* ResilientPaymentProvider.process calls exactly one record... method per
\* permit, when the operation ends; the permit is dropped with it.
Record(c, b) ==
  /\ permits[c] # NoPermit
  /\ breaker' = b
  /\ permits' = [permits EXCEPT ![c] = NoPermit]
  /\ openedNow' = IF b.state = "open" /\ breaker.state # "open" THEN now ELSE openedNow
  /\ UNCHANGED <<now, drift>>

RecordSuccess(c) == Record(c, AfterSuccess(breaker, permits[c]))

RecordFailure(c) == Record(c, AfterFailure(breaker, permits[c], Clock))

RecordNonFailure(c) == Record(c, AfterNonFailure(breaker, permits[c]))

\* state(), which also advances the breaker.
ReadState ==
  /\ breaker' = AdvanceToHalfOpenWhenReady(breaker, Clock)
  /\ UNCHANGED <<now, drift, permits, openedNow>>

Tick ==
  /\ now < MaxTime
  /\ now' = now + 1
  /\ UNCHANGED <<drift, breaker, permits, openedNow>>

\* The wall clock is set, forward or back.
ClockStepped ==
  /\ drift' \in Drifts \ {drift}
  /\ UNCHANGED <<now, breaker, permits, openedNow>>

Next ==
  \/ \E c \in Callers :
       \/ Acquire(c)
       \/ RecordSuccess(c)
       \/ RecordFailure(c)
       \/ RecordNonFailure(c)
  \/ ReadState
  \/ Tick
  \/ ClockStepped

Spec == Init /\ [][Next]_breakerVars

\* Every admitted operation ends: an attempt is aborted by its timeout and the
\* number of attempts is bounded, so one of the record... methods is called.
OperationsEnd ==
  \A c \in Callers :
    WF_breakerVars(RecordSuccess(c) \/ RecordFailure(c) \/ RecordNonFailure(c))

FairSpec == Spec /\ OperationsEnd

-------------------------------------------------------------------------------
(* Properties                                                               *)

TypeOK ==
  /\ now \in Nat
  /\ drift \in Drifts
  /\ breaker \in Breaker
  /\ permits \in [Callers -> Permit]
  /\ openedNow \in Nat

\* The callers whose outcome the breaker will still listen to.
Current(c) ==
  permits[c] # NoPermit /\ permits[c].generation = breaker.generation

\* The operation that holds the half-open probe.
Probing(c) == Current(c) /\ permits[c].mode = "half_open"

\* A permit the breaker still listens to was issued in the state the breaker is
\* in: no outcome of an operation admitted while closed reaches a breaker that
\* has opened since, although moving to half_open starts no new generation.
CurrentPermitsMatchState ==
  \A c \in Callers : Current(c) => permits[c].mode = breaker.state

\* At most one operation probes a half-open breaker.
SingleProbe == \A c, d \in Callers : Probing(c) /\ Probing(d) => c = d

\* halfOpenProbeInFlight is set exactly while some operation holds the probe's
\* permit: the flag never outlives the probe, so the breaker cannot refuse every
\* caller for ever with nobody left to record a result.
ProbeFlagHasOwner == breaker.probing <=> \E c \in Callers : Probing(c)

\* A closed breaker has strictly fewer consecutive failures than the threshold,
\* and an open or half-open one has none left over to count twice.
FailuresBelowThreshold ==
  IF breaker.state = "closed" THEN breaker.failures < FailureThreshold
                              ELSE breaker.failures = 0

\* No permit is of a generation the breaker has not reached.
PermitsNotFromFuture ==
  \A c \in Callers : permits[c].generation <= breaker.generation

\* openedAt is the wall clock of the moment the breaker really opened.
OpeningIsTimed == breaker.openedAt - openedNow \in Drifts

\* The real time since the breaker opened reaches the interval, but for the errors
\* of the two clock readings.
IntervalElapsed == now + 2 * MaxDrift >= openedNow + OpenDuration

\* A half-open breaker has been open for the interval.
HalfOpenIsDue == breaker.state = "half_open" => IntervalElapsed

\* The inductive invariant of the breaker: it admits one probe, only after the open
\* interval as far as the wall clock can tell, listens only to permits of the state
\* it is in, and a closed breaker has not reached the threshold.
BreakerInvariant ==
  /\ TypeOK
  /\ PermitsNotFromFuture
  /\ CurrentPermitsMatchState
  /\ SingleProbe
  /\ ProbeFlagHasOwner
  /\ FailuresBelowThreshold
  /\ OpeningIsTimed
  /\ HalfOpenIsDue

\* Once the breaker opens, nobody is admitted for OpenDuration ticks of real time,
\* less what the wall clock may have been set: an operation is admitted only by a
\* closed breaker, or as the probe of one whose open interval has elapsed.
OpenIntervalIsRespected ==
  [][\A c \in Callers :
       (permits[c] = NoPermit /\ permits'[c] # NoPermit /\ breaker.state # "closed")
         => /\ IntervalElapsed
            /\ permits'[c].mode = "half_open"]_breakerVars

\* However the clock is set, acquire() refuses nobody for an open breaker whose
\* interval has been over for longer than the clock's errors: it cannot be kept open.
OpenIsNotOverdue ==
  AdvanceToHalfOpenWhenReady(breaker, Clock).state = "open"
    => now < openedNow + OpenDuration + 2 * MaxDrift

\* Apart from the timed move to half_open, the breaker changes state or counts a
\* failure only on the outcome of an operation admitted in the current
\* generation and in the state the breaker is in: a late success does not close
\* it, a late failure of an earlier closed period is not counted in this one, and
\* a half-open breaker leaves that state through its own probe only.
OnlyOwnEraMovesBreaker ==
  [][\/ breaker'.state = breaker.state /\ breaker'.failures = breaker.failures
     \/ breaker.state = "open" /\ breaker'.state = "half_open"
     \/ \E c \in Callers : /\ Current(c)
                           /\ permits[c].mode = breaker.state
                           /\ permits'[c] = NoPermit]_breakerVars

\* A probe in flight is always resolved: the breaker does not stay half-open
\* refusing everybody else.
ProbeResolves == breaker.probing ~> ~breaker.probing
===============================================================================
