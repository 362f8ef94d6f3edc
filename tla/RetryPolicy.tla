------------------------------ MODULE RetryPolicy ------------------------------
(***************************************************************************)
(* The bounded retry of a payment (infrastructure/providers/               *)
(* retry-policy.ts): when an attempt is repeated, how long the pause before *)
(* it is, and the longest time that attempts and pauses take together.      *)
(* A ratio of the code (the jitter, the random value) is a percentage here, *)
(* so that Math.round is exact integer arithmetic.                          *)
(***************************************************************************)
EXTENDS Integers, FiniteSetsExt, ProviderFailurePolicy

CONSTANTS
  MaxAttempts,     \* config.maxAttempts
  AttemptTimeout,  \* config.attemptTimeoutMs, in ticks
  BaseDelay,       \* config.baseDelayMs, in ticks
  MaxDelay,        \* config.maxDelayMs, in ticks
  JitterPercent    \* config.jitterRatio * 100

\* validateRetryPolicyConfig.
ASSUME RetryConfigAssumption ==
  /\ MaxAttempts \in 1..10
  /\ AttemptTimeout \in Nat \ {0}
  /\ BaseDelay \in Nat
  /\ MaxDelay \in Nat
  /\ MaxDelay >= BaseDelay
  /\ JitterPercent \in 0..100

-------------------------------------------------------------------------------
\* Mutant: an off-by-one in the comparison with maxAttempts.
ShouldRetryOnceMore(error, failedAttempt) ==
  /\ failedAttempt <= MaxAttempts
  /\ ClassifyProviderFailure(error).retryable

ShouldRetry(error, failedAttempt) ==
  /\ failedAttempt < MaxAttempts
  /\ ClassifyProviderFailure(error).retryable

\* Math.round(n / d): halves are rounded up.
Round(n, d) == (2 * n + d) \div (2 * d)

\* delayAfter(failedAttempt, randomValue), randomValue given in percent.
DelayAfter(failedAttempt, randomPercent) ==
  LET exponential == BaseDelay * 2 ^ (failedAttempt - 1)
      jittered    == exponential * (10000 + JitterPercent * randomPercent)
  IN  Min({MaxDelay, Round(jittered, 10000)})

MaximumRetryDelayAfter(failedAttempt) == DelayAfter(failedAttempt, 100)

\* The loop of calculateMaximumRetryWindowMs: the longest pauses after the first n
\* attempts, added up.  There are at most ten attempts.
TotalDelay[n \in 0..9] == IF n = 0 THEN 0 ELSE TotalDelay[n - 1] + MaximumRetryDelayAfter(n)

\* calculateMaximumRetryWindowMs(config)
MaximumRetryWindow == MaxAttempts * AttemptTimeout + TotalDelay[MaxAttempts - 1]
===============================================================================
