--------------------------- MODULE GracefulShutdown ---------------------------
(***************************************************************************)
(* The life of one API process: startup, requests counted by               *)
(* InFlightRequestTracker (lifecycle.ts, the wrapper in http/server.ts),    *)
(* readiness checks (readiness.ts), and the shutdown that                   *)
(* GracefulShutdownCoordinator performs on SIGTERM or SIGINT while requests *)
(* are in flight (lifecycle.ts, main.ts).                                   *)
(*                                                                         *)
(* The coordinator and the requests run on one event loop; they interleave  *)
(* wherever one of them awaits.                                             *)
(***************************************************************************)
EXTENDS Configuration, FiniteSets

CONSTANTS
  Environments,   \* the environments the process may be started in
  Business,       \* slots for requests to the business routes
  Probes,         \* slots for requests to /health/ready
  CloseTimeout,   \* resourceCloseTimeoutMs, in ticks
  MaxTime         \* bound on the clock

\* The constructor's check.
ASSUME ShutdownConfigAssumption ==
  /\ Environments \subseteq Environment
  /\ CloseTimeout \in Nat \ {0}

ASSUME ShutdownBoundsAssumption ==
  /\ MaxTime \in Nat
  /\ IsFiniteSet(Business \cup Probes) /\ Business \cap Probes = {}

VARIABLES
  now,
  config,       \* what loadConfig returned
  tracker,      \* InFlightRequestTracker: active, shuttingDown
  requests,     \* what each request slot is doing
  coordinator,  \* GracefulShutdownCoordinator
  resources     \* the HTTP server and the two clients

vars == <<now, config, tracker, requests, coordinator, resources>>

Requests == Business \cup Probes

GracePeriod == config["gracePeriod"]

ReadinessTimeout == config["readinessTimeout"]

\* idle: the slot is free; working, probing_postgres, probing_redis: the handler
\* is inside routeRequest; responding: it has released the tracker and the
\* response is on its way.
RequestPhases ==
  {"idle", "working", "probing_postgres", "probing_redis", "responding"}

\* answer: the body of the last response of a readiness check.
Request ==
  [phase : RequestPhases, since : Nat,
   answer : {"none", "ready", "degraded", "not_ready"}]

\* The awaits of performShutdown, in order; draining ends in awaiting_stop or in
\* forcing.
Phases ==
  {"loading", "starting", "failed", "up", "draining", "awaiting_stop", "forcing",
   "closing_redis", "closing_postgres", "stopped"}

\* drain: the promise of waitForDrain; httpStop: the promise of the first
\* safeCall, which is not awaited at once.
Coordinator ==
  [phase : Phases, startedAt : Nat, deadline : Nat,
   drain : {"none", "waiting", "drained", "expired"},
   httpStop : {"none", "pending", "settled"}]

Resources ==
  [http : {"down", "accepting", "stopping", "stopped"},
   redis : {"open", "closing", "closed"},
   postgres : {"open", "closing", "closed"}]

IdleRequest == [phase |-> "idle", since |-> 0, answer |-> "none"]

\* No configuration yet, and no client.
NoConfig == [name \in Names |-> 0]

\* main.ts is about to call loadConfig.
Init ==
  /\ now = 0
  /\ config = NoConfig
  /\ tracker = [active |-> 0, shuttingDown |-> FALSE]
  /\ requests = [r \in Requests |-> IdleRequest]
  /\ coordinator = [phase |-> "loading", startedAt |-> 0, deadline |-> 0,
                    drain |-> "none", httpStop |-> "none"]
  /\ resources = [http |-> "down", redis |-> "closed", postgres |-> "closed"]

-------------------------------------------------------------------------------
(* Startup                                                                  *)

\* loadConfig(Bun.env) returns and the clients are created, or startup throws before
\* anything is served: in loadConfig, or in a constructor that refuses its key prefix,
\* which counts here among the strings that loadConfig checks.
Load(environment) ==
  /\ coordinator.phase = "loading"
  /\ \/ \E c \in LoadConfig(environment) :
          /\ config' = c
          /\ coordinator' = [coordinator EXCEPT !.phase = "starting"]
          /\ resources' = [resources EXCEPT !.redis = "open", !.postgres = "open"]
     \/ /\ LoadConfig(environment) = {}
        /\ coordinator' = [coordinator EXCEPT !.phase = "failed"]
        /\ UNCHANGED <<config, resources>>
  /\ UNCHANGED <<now, tracker, requests>>

\* The startup check is "ready" or "degraded": the server listens and the signal
\* handlers are registered.
StartupSucceeds ==
  /\ coordinator.phase = "starting"
  /\ coordinator' = [coordinator EXCEPT !.phase = "up"]
  /\ resources' = [resources EXCEPT !.http = "accepting"]
  /\ UNCHANGED <<now, config, tracker, requests>>

\* It is "not_ready": both clients are closed and the process throws.
StartupFails ==
  /\ coordinator.phase = "starting"
  /\ coordinator' = [coordinator EXCEPT !.phase = "failed"]
  /\ resources' = [resources EXCEPT !.redis = "closed", !.postgres = "closed"]
  /\ UNCHANGED <<now, config, tracker, requests>>

-------------------------------------------------------------------------------
(* Requests                                                                 *)

\* External: Bun's server hands over requests of open connections until it has
\* stopped.
ServerDelivers == resources.http \in {"accepting", "stopping"}

\* The handler has its answer and no longer counts as in flight.
Responding(answer) == [phase |-> "responding", since |-> 0, answer |-> answer]

\* begin() returns a release function; the handler enters routeRequest.
Begin(r, phase) ==
  /\ tracker' = [tracker EXCEPT !.active = @ + 1]
  /\ requests' = [requests EXCEPT ![r] =
                    [phase |-> phase, since |-> now, answer |-> "none"]]

\* Mutant: begin() does not look at shuttingDown.
ArriveAnyTime(r, phase, refusal) ==
  /\ requests[r].phase = "idle"
  /\ ServerDelivers
  /\ Begin(r, phase)
  /\ UNCHANGED <<now, config, coordinator, resources>>

\* The wrapper of createHttpHandler.  While the process is shutting down begin()
\* returns null and the request is answered at once.
Arrive(r, phase, refusal) ==
  /\ requests[r].phase = "idle"
  /\ ServerDelivers
  /\ \/ ~tracker.shuttingDown /\ Begin(r, phase)
     \/ /\ tracker.shuttingDown
        /\ requests' = [requests EXCEPT ![r] = Responding(refusal)]
        /\ UNCHANGED tracker
  /\ UNCHANGED <<now, config, coordinator, resources>>

\* A business request; refused with 503.
BusinessArrives(r) == Arrive(r, "working", "none")

\* A readiness request is let through without a release function, and check()
\* answers "not_ready" without a probe.
ProbeArrives(r) == Arrive(r, "probing_postgres", "not_ready")

\* Mutant: the count reaches zero and the waiters are not called.
ReleaseSilently(r, answer) ==
  /\ requests' = [requests EXCEPT ![r] = Responding(answer)]
  /\ tracker' = [tracker EXCEPT !.active = @ - 1]
  /\ UNCHANGED <<now, config, coordinator, resources>>

\* The finally block: the release function counts the request down and, at zero,
\* calls the drain waiters, which settle the promise of waitForDrain.
Release(r, answer) ==
  /\ requests' = [requests EXCEPT ![r] = Responding(answer)]
  /\ tracker' = [tracker EXCEPT !.active = @ - 1]
  /\ coordinator' =
       [coordinator EXCEPT !.drain =
          IF @ = "waiting" /\ tracker.active = 1 THEN "drained" ELSE @]
  /\ UNCHANGED <<now, config, resources>>

\* The handler of a business request returns or throws.
BusinessEnds(r) ==
  /\ requests[r].phase = "working"
  /\ Release(r, "none")

ProbeDue(r) == now >= requests[r].since + ReadinessTimeout

\* SELECT 1 answers in time and the PING is sent, with a deadline of its own.
PostgresProbeSucceeds(r) ==
  /\ requests[r].phase = "probing_postgres"
  /\ requests' = [requests EXCEPT ![r] =
                    [phase |-> "probing_redis", since |-> now, answer |-> "none"]]
  /\ UNCHANGED <<now, config, tracker, coordinator, resources>>

\* SELECT 1 fails or its deadline passes.
PostgresProbeFails(r) ==
  /\ requests[r].phase = "probing_postgres"
  /\ Release(r, "not_ready")

\* PING answers in time, or fails or its deadline passes.
RedisProbeEnds(r) ==
  /\ requests[r].phase = "probing_redis"
  /\ \E answer \in {"ready", "degraded"} : Release(r, answer)

\* The response has left; the slot is free again.
ResponseSent(r) ==
  /\ requests[r].phase = "responding"
  /\ requests' = [requests EXCEPT ![r] = IdleRequest]
  /\ UNCHANGED <<now, config, tracker, coordinator, resources>>

-------------------------------------------------------------------------------
(* Shutdown                                                                 *)

\* SIGTERM or SIGINT: shutdown() runs performShutdown up to its first await, the
\* first time only; a later signal gets the same promise.
Signal ==
  /\ coordinator.phase \notin {"loading", "starting", "failed"}
  /\ now + GracePeriod + 3 * CloseTimeout <= MaxTime
  /\ IF coordinator.phase # "up"
       THEN UNCHANGED <<tracker, coordinator, resources>>
       ELSE /\ tracker' = [tracker EXCEPT !.shuttingDown = TRUE]
            /\ coordinator' =
                 [phase |-> "draining", startedAt |-> now,
                  deadline |-> now + GracePeriod,
                  drain |-> IF tracker.active = 0 THEN "drained" ELSE "waiting",
                  httpStop |-> "pending"]
            /\ resources' = [resources EXCEPT !.http = "stopping"]
  /\ UNCHANGED <<now, config, requests>>

\* External: server.stop(false) resolves once every response has been sent.
HttpStops ==
  /\ coordinator.httpStop = "pending"
  /\ \A r \in Requests : requests[r].phase = "idle"
  /\ coordinator' = [coordinator EXCEPT !.httpStop = "settled"]
  /\ resources' = [resources EXCEPT !.http = "stopped"]
  /\ UNCHANGED <<now, config, tracker, requests>>

\* server.stop(false) rejects, or the deadline of its safeCall passes.
HttpStopGivesUp ==
  /\ coordinator.httpStop = "pending"
  /\ coordinator' = [coordinator EXCEPT !.httpStop = "settled"]
  /\ UNCHANGED <<now, config, tracker, requests, resources>>

\* Mutant: the grace timer settles the promise only if nothing is active.
GraceExpiresWhenIdle ==
  /\ coordinator.drain = "waiting"
  /\ now >= coordinator.startedAt + GracePeriod
  /\ tracker.active = 0
  /\ coordinator' = [coordinator EXCEPT !.drain = "expired"]
  /\ UNCHANGED <<now, config, tracker, requests, resources>>

\* The grace timer of waitForDrain.  Timers are exact here; what the runtime makes of
\* a delay above 2^31 - 1 ms, which loadConfig admits, is left out.
GraceExpires ==
  /\ coordinator.drain = "waiting"
  /\ now >= coordinator.startedAt + GracePeriod
  /\ coordinator' = [coordinator EXCEPT !.drain = "expired"]
  /\ UNCHANGED <<now, config, tracker, requests, resources>>

\* Mutant: safeCall falls back to the grace period.
AwaitGrace(phase) ==
  coordinator' = [coordinator EXCEPT !.phase = phase, !.deadline = now + GracePeriod]

\* A safeCall begins: its deadline runs from here.
Await(phase) ==
  coordinator' = [coordinator EXCEPT !.phase = phase, !.deadline = now + CloseTimeout]

\* performShutdown resumes after waitForDrain.
DrainEnds ==
  /\ coordinator.phase = "draining"
  /\ \/ coordinator.drain = "drained"
        /\ coordinator' = [coordinator EXCEPT !.phase = "awaiting_stop"]
     \/ coordinator.drain = "expired" /\ Await("forcing")
  /\ UNCHANGED <<now, config, tracker, requests, resources>>

\* The graceful stop has settled, or the forced one resolves, rejects or passes
\* its deadline; closeRedis() is called.
CloseRedis ==
  /\ \/ coordinator.phase = "awaiting_stop" /\ coordinator.httpStop = "settled"
     \/ coordinator.phase = "forcing"
  /\ Await("closing_redis")
  /\ \E http \in IF coordinator.phase = "forcing" THEN {"stopped", resources.http}
                                                  ELSE {resources.http} :
       resources' = [resources EXCEPT !.http = http, !.redis = "closing"]
  /\ UNCHANGED <<now, config, tracker, requests>>

\* closeRedis() resolves, or rejects or passes its deadline; closePostgres() is
\* called.
ClosePostgres ==
  /\ coordinator.phase = "closing_redis"
  /\ Await("closing_postgres")
  /\ \E redis \in {"closing", "closed"} :
       resources' = [resources EXCEPT !.redis = redis, !.postgres = "closing"]
  /\ UNCHANGED <<now, config, tracker, requests>>

\* closePostgres() resolves, or rejects or passes its deadline.
ShutdownCompletes ==
  /\ coordinator.phase = "closing_postgres"
  /\ coordinator' = [coordinator EXCEPT !.phase = "stopped"]
  /\ \E postgres \in {"closing", "closed"} :
       resources' = [resources EXCEPT !.postgres = postgres]
  /\ UNCHANGED <<now, config, tracker, requests>>

-------------------------------------------------------------------------------
Running(r) == requests[r].phase \notin {"idle", "responding"}

\* Timers fire on time.  The clock starts with the server.
Tick ==
  /\ now < MaxTime
  /\ coordinator.phase \notin {"loading", "starting", "failed"}
  /\ coordinator.drain = "waiting" => now < coordinator.startedAt + GracePeriod
  /\ coordinator.httpStop = "pending" => now < coordinator.startedAt + GracePeriod
  /\ coordinator.phase \in {"forcing", "closing_redis", "closing_postgres"}
       => now < coordinator.deadline
  /\ coordinator.phase = "draining" => coordinator.drain = "waiting"
  /\ coordinator.phase = "awaiting_stop" => coordinator.httpStop = "pending"
  /\ \A r \in Requests :
       requests[r].phase \in {"probing_postgres", "probing_redis"} => ~ProbeDue(r)
  /\ now' = now + 1
  /\ UNCHANGED <<config, tracker, requests, coordinator, resources>>

\* The end of the bounded clock or of the process, or the process is never created.
Quiescent ==
  /\ \/ coordinator.phase \in {"loading", "failed"}
     \/ now = MaxTime /\ coordinator.phase \in {"up", "stopped"}
  /\ UNCHANGED vars

Next ==
  \/ \E environment \in Environments : Load(environment)
  \/ StartupSucceeds
  \/ StartupFails
  \/ \E r \in Business : BusinessArrives(r) \/ BusinessEnds(r)
  \/ \E r \in Probes :
       \/ ProbeArrives(r)
       \/ PostgresProbeSucceeds(r)
       \/ PostgresProbeFails(r)
       \/ RedisProbeEnds(r)
  \/ \E r \in Requests : ResponseSent(r)
  \/ Signal
  \/ HttpStops
  \/ HttpStopGivesUp
  \/ GraceExpires
  \/ DrainEnds
  \/ CloseRedis
  \/ ClosePostgres
  \/ ShutdownCompletes
  \/ Tick
  \/ Quiescent

Spec == Init /\ [][Next]_vars

\* Time passes, due timers fire and continuations run.  Neither a business request
\* nor the server's stop nor a client's close is assumed to end by itself.
Fairness ==
  /\ WF_vars(Tick)
  /\ \A r \in Probes : WF_vars(PostgresProbeFails(r) \/ RedisProbeEnds(r))
  /\ WF_vars(HttpStopGivesUp)
  /\ WF_vars(GraceExpires)
  /\ WF_vars(DrainEnds)
  /\ WF_vars(CloseRedis)
  /\ WF_vars(ClosePostgres)
  /\ WF_vars(ShutdownCompletes)

FairSpec == Spec /\ Fairness

-------------------------------------------------------------------------------
(* Properties                                                               *)

TypeOK ==
  /\ now \in Nat
  /\ config \in [Names -> Int]
  /\ tracker \in [active : Nat, shuttingDown : BOOLEAN]
  /\ requests \in [Requests -> Request]
  /\ coordinator \in Coordinator
  /\ resources \in Resources

\* The tracker counts exactly the requests inside routeRequest, and the
\* coordinator waits for a drain only while there is one: the last release is
\* never missed, whichever of it and the signal comes first.
DrainIsNotMissed ==
  /\ tracker.active = Cardinality({r \in Requests : Running(r)})
  /\ coordinator.drain = "waiting" => tracker.active > 0

\* The tracker's part of the invariant.
ShutdownInvariant == TypeOK /\ DrainIsNotMissed

\* Unless the grace period expired, no request is inside routeRequest once Redis,
\* and then PostgreSQL, are being closed: a drained shutdown takes no client away
\* from a request.
DrainedBeforeClose ==
  (resources.redis # "open" /\ coordinator.drain # "expired")
    => \A r \in Requests : ~Running(r)

\* HTTP is stopped by force only because of a business request that has outlived the
\* longest execution the provider's configuration allows, since loadConfig makes the
\* grace period cover it, or because of a readiness check whose two probes may take
\* as long as the grace period, which loadConfig does not exclude.
OnlyOverdueIsForced ==
  [][(coordinator.drain # "expired" /\ coordinator'.drain = "expired") =>
       \/ \E r \in Business : /\ requests[r].phase = "working"
                              /\ now >= requests[r].since + MaximumExecutionWindow(config)
       \/ \E r \in Probes : Running(r) /\ 2 * ReadinessTimeout >= GracePeriod]_vars

\* The shutdown takes at most the grace period and three close timeouts
\* (README.md: about 18 seconds), whatever hangs.
ShutdownIsBounded ==
  coordinator.phase \notin {"loading", "starting", "failed", "up", "stopped"}
    => now <= coordinator.startedAt + GracePeriod + 3 * CloseTimeout

\* A readiness check that was under way when the shutdown began, and may still
\* answer "ready", is over within two probe timeouts of the signal; no later check
\* probes anything.
ReadyAnswersRunOut ==
  \A r \in Probes : (tracker.shuttingDown /\ Running(r))
                       => now <= coordinator.startedAt + 2 * ReadinessTimeout

\* A shutdown that begins completes, even if requests, the server's stop and both
\* closes hang for ever.
ShutdownEnds == coordinator.phase = "draining" ~> coordinator.phase = "stopped"
===============================================================================
