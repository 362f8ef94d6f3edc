---------------------------- MODULE Configuration ----------------------------
(***************************************************************************)
(* loadConfig (config.ts): the environment of the process becomes the       *)
(* configuration, or an error that ends the process.  What is kept is how a *)
(* variable becomes a number, and the checks between the numbers that the   *)
(* other components rely on.                                               *)
(***************************************************************************)
EXTENDS Integers

CONSTANTS
  Defaults,        \* the fallback of each numeric variable, in ticks
  MaxSafeInteger   \* Number.MAX_SAFE_INTEGER

\* The variables that loadConfig reads with positiveInteger() and those it reads with
\* number(), which other functions check.
PositiveNames ==
  {"port", "maxBodyBytes", "redisTimeout", "cacheTtl", "rateLimitMaxRequests",
   "rateLimitWindow", "readinessTimeout", "gracePeriod"}

NumberNames ==
  {"maxAttempts", "attemptTimeout", "baseDelay", "maxDelay", "jitterPercent",
   "failureThreshold", "openDuration", "staleTimeout", "executionOverhead",
   "minimumStaleMargin"}

Names == PositiveNames \cup NumberNames

ASSUME ConfigurationAssumption ==
  /\ Defaults \in [Names -> Nat]
  /\ MaxSafeInteger \in Nat

-------------------------------------------------------------------------------
\* What a variable may hold.  value is the number written, rounded down if it is a
\* fraction.
Raw == [kind : {"unset", "blank", "integer", "fraction", "not_a_number"}, value : Int]

\* strings: the required strings are there and the URLs, the credentials and the key
\* prefixes (which the constructors in main check) have their form.  The jitter is given
\* in whole percent.
Environment ==
  [strings : BOOLEAN,
   numbers : {n \in [Names -> Raw] : n["jitterPercent"].kind # "fraction"}]

\* Number(environment[name] ?? String(fallback)): an unset variable is its fallback,
\* a blank one is 0.
NumberOf(raw, fallback) ==
  CASE raw.kind = "unset" -> [kind |-> "integer", value |-> fallback]
    [] raw.kind = "blank" -> [kind |-> "integer", value |-> 0]
    [] OTHER              -> raw

IsFinite(n) == n.kind # "not_a_number"

IsSafeInteger(n) ==
  n.kind = "integer" /\ n.value \in -MaxSafeInteger..MaxSafeInteger

\* requireSafeInteger, and positiveInteger with a minimum of 1.
IsAtLeast(n, minimum) == IsSafeInteger(n) /\ n.value >= minimum

\* validateRetryPolicyConfig
RetryIsValid(n) ==
  /\ IsAtLeast(n["maxAttempts"], 1) /\ n["maxAttempts"].value <= 10
  /\ IsAtLeast(n["attemptTimeout"], 1)
  /\ IsAtLeast(n["baseDelay"], 0)
  /\ IsAtLeast(n["maxDelay"], 0)
  /\ n["maxDelay"].value >= n["baseDelay"].value
  /\ n["jitterPercent"].value \in 0..100

\* The retry policy of a configuration.
Policy(c) ==
  INSTANCE RetryPolicy WITH
    MaxAttempts <- c["maxAttempts"], AttemptTimeout <- c["attemptTimeout"],
    BaseDelay <- c["baseDelay"], MaxDelay <- c["maxDelay"],
    JitterPercent <- c["jitterPercent"]

\* maximumProviderExecutionWindowMs
MaximumExecutionWindow(c) == Policy(c)!MaximumRetryWindow + c["executionOverhead"]

\* validateProviderTiming
TimingIsValid(n, c) ==
  /\ IsAtLeast(n["executionOverhead"], 0)
  /\ IsAtLeast(n["staleTimeout"], 1)
  /\ IsAtLeast(n["minimumStaleMargin"], 1)
  /\ RetryIsValid(n)
  /\ Policy(c)!MaximumRetryWindow \in -MaxSafeInteger..MaxSafeInteger
  /\ c["staleTimeout"] - MaximumExecutionWindow(c) >= c["minimumStaleMargin"]

\* Mutant: the grace period is not compared with the execution window.
GraceCoversAnything(c) == TRUE

\* The check on shutdownGracePeriodMs.
GraceCoversExecution(c) == c["gracePeriod"] >= MaximumExecutionWindow(c)

\* validateCircuitBreakerConfig
BreakerIsValid(n) ==
  IsAtLeast(n["failureThreshold"], 1) /\ IsAtLeast(n["openDuration"], 1)

\* Every check of loadConfig on the numbers n and their values c.
IsValid(n, c) ==
  /\ \A name \in PositiveNames : IsAtLeast(n[name], 1)
  /\ c["port"] <= 65535
  /\ \A name \in NumberNames : IsFinite(n[name])
  /\ TimingIsValid(n, c)
  /\ GraceCoversExecution(c)
  /\ BreakerIsValid(n)

\* The numbers that the environment's variables stand for.
NumbersOf(environment) ==
  [name \in Names |-> NumberOf(environment.numbers[name], Defaults[name])]

ValuesOf(n) == [name \in Names |-> n[name].value]

\* loadConfig(environment), as the set of configurations it may return: one, or none
\* if it throws.
LoadConfig(environment) ==
  {c \in {ValuesOf(NumbersOf(environment))} :
     environment.strings /\ IsValid(NumbersOf(environment), c)}
===============================================================================
