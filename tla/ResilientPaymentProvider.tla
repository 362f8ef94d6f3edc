----------------------- MODULE ResilientPaymentProvider -----------------------
(***************************************************************************)
(* ResilientPaymentProvider.process: one admission by the circuit breaker,  *)
(* then at most MaxAttempts attempts of HttpPaymentProvider.process with    *)
(* pauses in between, then one record... call on the breaker.               *)
(*                                                                         *)
(* An attempt awaits twice, for the response and then for its body, and its *)
(* abort timer runs over both.  Each await is a point where the other       *)
(* operations of the process, which share the breaker, run.                 *)
(***************************************************************************)
EXTENDS RetryPolicy, FiniteSets

CONSTANTS
  Callers,           \* operations of this process that may run concurrently
  FailureThreshold,  \* config.failureThreshold
  OpenDuration,      \* config.openDurationMs, in ticks
  RandomPercents,    \* the values RandomSource.next() may return, in percent
  MaxDrift,          \* how far the wall clock may be off, either way
  MaxTime,           \* bound on the time
  MaxGeneration      \* bound on the generations of the breaker

ASSUME RandomSourceAssumption == RandomPercents \subseteq 0..100

\* validateCircuitBreakerConfig, and the bounds of CircuitBreaker.
ASSUME BreakerAssumption ==
  /\ FailureThreshold \in Nat \ {0}
  /\ OpenDuration \in Nat \ {0}
  /\ MaxDrift \in Nat /\ MaxTime \in Nat /\ MaxGeneration \in Nat

VARIABLES
  now, drift, breaker, permits, openedNow,  \* see CircuitBreaker
  calls                                     \* where each operation is

vars == <<now, drift, breaker, permits, openedNow, calls>>

CircuitBreaker == INSTANCE CircuitBreaker

breakerVars == <<now, drift, breaker, permits, openedNow>>

Phases == {"idle", "fetching", "reading", "sleeping"}

\* deadline: when the abort timer, or the pause, expires.
\* aborted: controller.signal.aborted of the last attempt.
Call ==
  [phase : Phases, attempt : 0..MaxAttempts, deadline : Nat, startedAt : Nat,
   aborted : BOOLEAN]

Idle ==
  [phase |-> "idle", attempt |-> 0, deadline |-> 0, startedAt |-> 0,
   aborted |-> FALSE]

Init ==
  /\ CircuitBreaker!Init
  /\ calls = [c \in Callers |-> Idle]

-------------------------------------------------------------------------------
\* The head of the loop: HttpPaymentProvider.process schedules the abort and
\* calls fetch.
StartAttempt(c, attempt, startedAt) ==
  calls' = [calls EXCEPT ![c] =
              [phase |-> "fetching", attempt |-> attempt,
               deadline |-> now + AttemptTimeout, startedAt |-> startedAt,
               aborted |-> FALSE]]

\* Admission, once per operation.  A refused operation throws
\* ProviderCircuitOpenError and is over.  No operation starts that could not
\* end before MaxTime.
Process(c) ==
  /\ calls[c].phase = "idle"
  /\ now + MaximumRetryWindow <= MaxTime
  /\ CircuitBreaker!Acquire(c)
  /\ IF permits'[c] = CircuitBreaker!NoPermit
       THEN UNCHANGED calls
       ELSE StartAttempt(c, 1, now)

\* process returns or throws.
Finish(c, aborted) == calls' = [calls EXCEPT ![c] = [Idle EXCEPT !.aborted = aborted]]

\* sleeper.sleep(delayMs) is awaited.
StartPause(c, delay, aborted) ==
  calls' = [calls EXCEPT ![c] =
              [phase |-> "sleeping", attempt |-> calls[c].attempt,
               deadline |-> now + delay, startedAt |-> calls[c].startedAt,
               aborted |-> aborted]]

\* Mutant: only the failures that count are reported to the breaker.
AttemptFailsUnrecorded(c, error, aborted) ==
  IF ShouldRetry(error, calls[c].attempt)
    THEN /\ \E r \in RandomPercents :
              StartPause(c, DelayAfter(calls[c].attempt, r), aborted)
         /\ UNCHANGED breakerVars
    ELSE /\ IF ClassifyProviderFailure(error).countsTowardCircuitBreaker
              THEN CircuitBreaker!RecordFailure(c)
              ELSE UNCHANGED breakerVars
         /\ Finish(c, aborted)

\* The catch block: sleep before the next attempt, or record the final failure
\* and rethrow it.
AttemptFails(c, error, aborted) ==
  IF ShouldRetry(error, calls[c].attempt)
    THEN /\ \E r \in RandomPercents :
              StartPause(c, DelayAfter(calls[c].attempt, r), aborted)
         /\ UNCHANGED breakerVars
    ELSE /\ IF ClassifyProviderFailure(error).countsTowardCircuitBreaker
              THEN CircuitBreaker!RecordFailure(c)
              ELSE CircuitBreaker!RecordNonFailure(c)
         /\ Finish(c, aborted)

\* fetch rejects, or resolves with a status that is not ok.
FetchFails(c) ==
  /\ calls[c].phase = "fetching"
  /\ \E error \in {"network", "rate_limited", "rejected"} \cup ServerErrors :
       AttemptFails(c, error, FALSE)

\* fetch resolves with an ok status; response.json() is awaited next.
FetchResolves(c) ==
  /\ calls[c].phase = "fetching"
  /\ calls' = [calls EXCEPT ![c].phase = "reading"]
  /\ UNCHANGED breakerVars

\* The body is read and has the shape of an approval.
BodyApproves(c) ==
  /\ calls[c].phase = "reading"
  /\ CircuitBreaker!RecordSuccess(c)
  /\ Finish(c, FALSE)

\* The body cannot be read (the connection broke, it is not JSON) or has
\* another shape.
BodyFails(c) ==
  /\ calls[c].phase = "reading"
  /\ AttemptFails(c, "invalid_response", FALSE)

\* controller.abort(): the pending await rejects.  Only the rejection of fetch
\* reaches the test for AbortError; the one of response.json() is caught by the
\* inner try and becomes ProviderInvalidResponseError.
AbortTimerFires(c) ==
  /\ calls[c].phase \in {"fetching", "reading"}
  /\ now >= calls[c].deadline
  /\ AttemptFails(c, IF calls[c].phase = "fetching" THEN "timeout"
                                                    ELSE "invalid_response", TRUE)

\* Mutant: the attempt counter is not advanced.
SleepEndsUncounted(c) ==
  /\ calls[c].phase = "sleeping"
  /\ now >= calls[c].deadline
  /\ StartAttempt(c, calls[c].attempt, calls[c].startedAt)
  /\ UNCHANGED breakerVars

\* sleeper.sleep(delayMs) resolves and the loop continues.
SleepEnds(c) ==
  /\ calls[c].phase = "sleeping"
  /\ now >= calls[c].deadline
  /\ StartAttempt(c, calls[c].attempt + 1, calls[c].startedAt)
  /\ UNCHANGED breakerVars

\* Timers fire on time: the clock does not pass a deadline that is being awaited.
\* (What a busy event loop adds is the code's executionOverheadMs.)
Tick ==
  /\ CircuitBreaker!Tick
  /\ \A c \in Callers : calls[c].phase # "idle" => now < calls[c].deadline
  /\ UNCHANGED calls

\* The breaker's clock is set; the timers of attempts and pauses are not affected.
ClockStepped == CircuitBreaker!ClockStepped /\ UNCHANGED calls

\* The end of the bounded clock: nothing is in progress.
Quiescent ==
  /\ now = MaxTime
  /\ \A c \in Callers : calls[c].phase = "idle"
  /\ UNCHANGED vars

TimerFires(c) == AbortTimerFires(c) \/ SleepEnds(c)

Next ==
  \/ \E c \in Callers :
       \/ Process(c)
       \/ FetchFails(c)
       \/ FetchResolves(c)
       \/ BodyApproves(c)
       \/ BodyFails(c)
       \/ AbortTimerFires(c)
       \/ SleepEnds(c)
  \/ Tick
  \/ ClockStepped
  \/ Quiescent

Spec == Init /\ [][Next]_vars

\* Time passes and timers that are due fire.  Nothing is assumed of the provider:
\* it may never answer.
FairSpec ==
  /\ Spec
  /\ WF_vars(Tick)
  /\ \A c \in Callers : WF_vars(TimerFires(c))

-------------------------------------------------------------------------------
(* Properties                                                               *)

TypeOK ==
  /\ CircuitBreaker!TypeOK
  /\ calls \in [Callers -> Call]
  /\ \A c \in Callers : calls[c].phase # "idle" => calls[c].attempt >= 1

Calling(c) == calls[c].phase # "idle"

\* An operation holds a permit of the breaker exactly while it is in progress:
\* every way out of process, whatever the error, records an outcome, and no
\* retry acquires again.
PermitHeldWhileCalling ==
  \A c \in Callers : Calling(c) <=> permits[c] # CircuitBreaker!NoPermit

\* An operation is over within calculateMaximumRetryWindowMs, however the
\* provider behaves and whatever jitter is drawn.  This is the figure from which
\* the startup check derives the stale timeout and the shutdown grace period.
WithinRetryWindow ==
  \A c \in Callers : Calling(c) => /\ now <= calls[c].startedAt + MaximumRetryWindow
                                   /\ calls[c].deadline
                                        <= calls[c].startedAt + MaximumRetryWindow

\* If the open interval is longer than the retry window and the errors of the wall
\* clock, then no operation admitted before the breaker opened is still sending
\* attempts when the probe is: the probe is the only operation at the provider.
HalfOpenProbeIsAlone ==
  (OpenDuration > MaximumRetryWindow + 2 * MaxDrift /\ breaker.state = "half_open") =>
    \A c \in Callers : Calling(c) => CircuitBreaker!Probing(c)

\* The composition drives the breaker as CircuitBreaker specifies, fairness
\* included: every admitted operation ends, although the provider may never
\* answer, so a probe is always resolved.
ImplementsBreaker == CircuitBreaker!FairSpec

\* An attempt aborted by its timer, and not the last, is retried (README.md and
\* ADR 0002: timeouts are retried).
TimeoutsAreRetried ==
  [][\A c \in Callers :
       (~calls[c].aborted /\ calls'[c].aborted /\ calls[c].attempt < MaxAttempts)
         => calls'[c].phase = "sleeping"]_vars
===============================================================================
