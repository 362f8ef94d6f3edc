----------------------------- MODULE MCDeployment -----------------------------
(***************************************************************************)
(* An instance of Deployment for TLC: two migration jobs, two files, and a  *)
(* process started in one of several environments.                          *)
(***************************************************************************)
EXTENDS Deployment

CONSTANTS b1, p1, j1, j2, f1, f2

OneBusiness == {b1}
OneProbe == {p1}
TwoJobs == {j1, j2}
TwoFiles == <<f1, f2>>
SecondFile == {f2}

\* An execution window of 2 ticks.
MCDefaults ==
  [name \in Names |->
     CASE name \in {"baseDelay", "jitterPercent"} -> 0
       [] name = "gracePeriod"                    -> 3
       [] name = "staleTimeout"                   -> 5
       [] OTHER                                   -> 1]

Plain ==
  [strings |-> TRUE,
   numbers |-> [name \in Names |-> [kind |-> "unset", value |-> 0]]]

With(name, kind, value) ==
  [Plain EXCEPT !.numbers[name] = [kind |-> kind, value |-> value]]

\* Accepted: the defaults, a readiness check that may take longer than the grace
\* period, and a second attempt, which makes the window as long as the grace period.
\* Refused: the rest.
MCEnvironments ==
  {Plain,
   With("readinessTimeout", "integer", 2),
   With("maxAttempts", "integer", 2),
   With("gracePeriod", "integer", 1),
   With("gracePeriod", "blank", 0),
   With("maxAttempts", "integer", 3),
   With("attemptTimeout", "integer", 10),
   With("baseDelay", "fraction", 0),
   With("baseDelay", "integer", 2),
   With("staleTimeout", "integer", 2),
   With("openDuration", "blank", 0),
   With("jitterPercent", "integer", 101),
   With("failureThreshold", "not_a_number", 0),
   [Plain EXCEPT !.strings = FALSE]}
===============================================================================
