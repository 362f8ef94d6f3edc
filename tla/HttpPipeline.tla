----------------------------- MODULE HttpPipeline -----------------------------
(***************************************************************************)
(* What http/server.ts does with a request before and after the use case:   *)
(* routing, the declared size of the body, authentication, the rate limit,  *)
(* the headers, the body that arrives in chunks, and the status an error is  *)
(* mapped to (error-response.ts).  The use cases and the rate limiter are    *)
(* ports here; CreateTransaction, GetTransaction and RedisRateLimiter model  *)
(* them, and GracefulShutdown models the request tracker around this module. *)
(*                                                                         *)
(* A header, a query or a body is what its check says of it, chosen when the *)
(* code looks at it.                                                        *)
(***************************************************************************)
EXTENDS Integers, FiniteSets, ProviderFailurePolicy

CONSTANTS
  Requests,      \* calls of the handler
  Services,      \* ids of the configured service credentials
  NoService,     \* no credential, or one that is not configured
  MaxBodyBytes,  \* maxBodyBytes
  MaxChunk       \* largest chunk of a body that the transport delivers

ASSUME PipelineAssumption ==
  /\ MaxBodyBytes \in Nat \ {0}
  /\ MaxChunk \in Nat \ {0}
  /\ NoService \notin Services

VARIABLES
  requests,  \* what each request is doing
  quota      \* units that each service has taken from the rate limiter

vars == <<requests, quota>>

Routes == {"operational", "list", "get", "create", "unmatched"}

\* Content-Length: not sent, not a number of at most 15 digits, or a number.
Absent == -1
Malformed == -2
Declared == {Absent, Malformed} \cup 0..(MaxBodyBytes + 1)

Phases ==
  {"idle", "authenticating", "limiting", "reading", "executing", "answered"}

\* What is known of the payment of a POST: nothing was sent (none), it is stored
\* now (created) or was before (replayed), or it may have been made (unsure).
Effects == {"none", "created", "replayed", "unsure"}

NoStatus == 0
Statuses == {200, 201, 400, 401, 404, 409, 413, 415, 422, 429, 500, 502, 503, 504}

\* total: bytes of the body read so far; retained: bytes kept in `chunks`.
Request ==
  [phase : Phases, route : Routes, service : Services \cup {NoService},
   declared : Declared, total : Nat, retained : Nat, effect : Effects,
   status : Statuses \cup {NoStatus}]

Init ==
  /\ requests =
       [r \in Requests |->
          [phase |-> "idle", route |-> "unmatched", service |-> NoService,
           declared |-> Absent, total |-> 0, retained |-> 0, effect |-> "none",
           status |-> NoStatus]]
  /\ quota = [s \in Services |-> 0]

-------------------------------------------------------------------------------
(* The checks                                                               *)

\* Mutant: the declared size is ignored; only the stream is measured.
DeclaredSizeStatusIgnored(declared) == NoStatus

\* validateDeclaredBodySize: the status it refuses the request with.
DeclaredSizeStatus(declared) ==
  CASE declared = Malformed    -> 400
    [] declared > MaxBodyBytes -> 413
    [] OTHER                   -> NoStatus

\* The statuses a request may be refused with once the limiter let it through and
\* before it does anything: bad pagination; bad id; media type, Idempotency-Key.
ParameterStatuses(route) ==
  CASE route = "list" -> {400}
    [] route = "get"  -> {400}
    [] OTHER          -> {415, 400}

\* Mutant: each chunk is compared with the limit by itself.
TooLargeByChunk(total, bytes) == bytes > MaxBodyBytes

\* readBoundedJson: the chunk takes the body over the limit.
TooLarge(total, bytes) == total + bytes > MaxBodyBytes

\* What the use cases can throw.
UseCaseErrors ==
  [list   |-> {"unknown"},
   get    |-> {"not_found", "unknown"},
   create |-> {"conflict", "in_progress"} \cup ErrorKinds]

\* Mutant: the provider's 429 is passed on to the client.
MapApplicationErrorRelayed(error) ==
  CASE error \in {"conflict", "in_progress"}                  -> 409
    [] error = "not_found"                                    -> 404
    [] error = "timeout"                                      -> 504
    [] error = "rate_limited"                                 -> 429
    [] error \in {"unavailable", "network", "circuit_open"}
                   \cup ServerErrors                          -> 503
    [] error \in {"invalid_response", "rejected"}             -> 502
    [] OTHER                                                  -> 500

\* mapApplicationError(error)
MapApplicationError(error) ==
  CASE error \in {"conflict", "in_progress"}                  -> 409
    [] error = "not_found"                                    -> 404
    [] error = "timeout"                                      -> 504
    [] error \in {"unavailable", "network", "rate_limited", "circuit_open"}
                   \cup ServerErrors                          -> 503
    [] error \in {"invalid_response", "rejected"}             -> 502
    [] OTHER                                                  -> 500

\* CreateTransaction.execute threw: what may have become of the payment.  The last
\* attempt was rejected, but one before it in the same operation may have timed out.
EffectsOf(error) ==
  CASE error \in {"conflict", "in_progress"}                       -> {"none"}
    [] ClassifyProviderFailure(error).outcome = "not_started"      -> {"none"}
    [] ClassifyProviderFailure(error).outcome = "definitive_rejection"
                                                         -> {"none", "unsure"}
    [] OTHER                                                       -> {"unsure"}

-------------------------------------------------------------------------------
(* The handler                                                              *)

Answered(request, status) == [request EXCEPT !.phase = "answered", !.status = status]

Becomes(r, request) ==
  /\ requests' = [requests EXCEPT ![r] = request]
  /\ UNCHANGED quota

\* A request arrives and is routed.  Operational routes are answered at once (the
\* readiness check, 200 or 503, is in GracefulShutdown), unknown ones get a 404,
\* and a POST is refused for its declared size.
Receive(r) ==
  /\ requests[r].phase = "idle"
  /\ \E route \in Routes, service \in Services \cup {NoService}, declared \in Declared :
       LET request == [requests[r] EXCEPT !.route = route, !.service = service,
                                          !.declared = declared]
       IN  \/ /\ route = "operational"
              /\ \E status \in {200, 503} : Becomes(r, Answered(request, status))
           \/ route = "unmatched" /\ Becomes(r, Answered(request, 404))
           \/ /\ route = "create"
              /\ DeclaredSizeStatus(declared) # NoStatus
              /\ Becomes(r, Answered(request, DeclaredSizeStatus(declared)))
           \/ /\ \/ route \in {"list", "get"}
                 \/ route = "create" /\ DeclaredSizeStatus(declared) = NoStatus
              /\ Becomes(r, [request EXCEPT !.phase = "authenticating"])

\* Sha256ServiceAuthenticator: digests are unique, so at most one service matches.
IsConfigured(service) == service \in Services

\* authenticate: a Bearer token whose digest is configured names the service.
Authenticate(r) ==
  /\ requests[r].phase = "authenticating"
  /\ Becomes(r, IF IsConfigured(requests[r].service)
                  THEN [requests[r] EXCEPT !.phase = "limiting"]
                  ELSE Answered(requests[r], 401))

\* applyRateLimit, then the checks that need no await.
ApplyRateLimit(r) ==
  /\ requests[r].phase = "limiting"
  /\ quota' = [quota EXCEPT ![requests[r].service] = @ + 1]
  /\ \/ requests' = [requests EXCEPT ![r] = Answered(@, 429)]
     \/ \E status \in ParameterStatuses(requests[r].route) :
          requests' = [requests EXCEPT ![r] = Answered(@, status)]
     \/ requests' = [requests EXCEPT
          ![r].phase = IF requests[r].route = "create" THEN "reading" ELSE "executing"]

\* readBoundedJson: reader.read() delivers a chunk, which is kept or ends the
\* request.
ReadChunk(r) ==
  /\ requests[r].phase = "reading"
  /\ \E bytes \in 1..MaxChunk :
       LET request == [requests[r] EXCEPT !.total = @ + bytes]
       IN  Becomes(r, IF TooLarge(requests[r].total, bytes)
                        THEN Answered(request, 413)
                        ELSE [request EXCEPT !.retained = @ + bytes])

\* The body is over, or reading it fails: it is no JSON, as an empty one never is, or
\* no transaction, or it goes to the use case.
BodyEnds(r) ==
  /\ requests[r].phase = "reading"
  /\ \/ Becomes(r, Answered(requests[r], 400))
     \/ requests[r].total > 0 /\ Becomes(r, Answered(requests[r], 422))
     \/ /\ requests[r].total > 0
        /\ Becomes(r, [requests[r] EXCEPT !.phase = "executing"])

\* The use case returns,
UseCaseReturns(r) ==
  /\ requests[r].phase = "executing"
  /\ \/ requests[r].route # "create" /\ Becomes(r, Answered(requests[r], 200))
     \/ /\ requests[r].route = "create"
        /\ \E effect \in {"created", "replayed"} :
             Becomes(r, [Answered(requests[r], IF effect = "created" THEN 201 ELSE 200)
                           EXCEPT !.effect = effect])

\* or throws.
UseCaseThrows(r) ==
  /\ requests[r].phase = "executing"
  /\ \E error \in UseCaseErrors[requests[r].route] :
       \E effect \in IF requests[r].route = "create" THEN EffectsOf(error) ELSE {"none"} :
         Becomes(r, [Answered(requests[r], MapApplicationError(error))
                       EXCEPT !.effect = effect])

\* Every request is answered.
Quiescent ==
  /\ \A r \in Requests : requests[r].phase = "answered"
  /\ UNCHANGED vars

Next ==
  \/ \E r \in Requests :
       \/ Receive(r) \/ Authenticate(r) \/ ApplyRateLimit(r)
       \/ ReadChunk(r) \/ BodyEnds(r)
       \/ UseCaseReturns(r) \/ UseCaseThrows(r)
  \/ Quiescent

Spec == Init /\ [][Next]_vars

-------------------------------------------------------------------------------
(* Properties                                                               *)

\* Types; a request has a status exactly when it is answered.
TypeOK ==
  /\ requests \in [Requests -> Request]
  /\ quota \in [Services -> Nat]
  /\ \A r \in Requests :
       requests[r].phase = "answered" <=> requests[r].status # NoStatus

\* readBoundedJson never keeps chunks of more than maxBodyBytes in all, whatever
\* Content-Length said and however the body is cut into chunks, and a body that is
\* too large never reaches the use case.  (The joined bytes and the text it makes of
\* the chunks of an accepted body are as long as the chunks, and not counted.)
BodyStaysBounded ==
  \A r \in Requests :
    /\ requests[r].retained <= MaxBodyBytes
    /\ requests[r].phase = "executing" => requests[r].total <= MaxBodyBytes

\* The two together: a request that is not answered yet has read at most what it
\* may keep.
PipelineInvariant == TypeOK /\ BodyStaysBounded

\* The request has been through the rate limiter.
PassedLimiter(r) ==
  LET request == requests[r]
  IN  /\ request.phase \in {"reading", "executing", "answered"}
      /\ request.route \notin {"operational", "unmatched"}
      /\ request.service # NoService
      /\ request.route = "create" =>
           request.declared \in {Absent} \cup 0..MaxBodyBytes

\* A request takes one unit of the quota of the service that sent it, and none when
\* it is refused for its route, its declared size or its credential: nobody else's
\* requests use up a service's quota.
QuotaIsPaidByItsService ==
  \A s \in Services :
    quota[s] = Cardinality({r \in Requests : requests[r].service = s /\ PassedLimiter(r)})

\* The status tells what became of the payment: after any 4xx nothing was paid by
\* this request, whatever error the provider gave, and only a payment that is stored
\* is answered 2xx.  A payment that may have been made is a 5xx, so that the client
\* tries again with its Idempotency-Key.
StatusTellsEffect ==
  \A r \in Requests :
    LET request == requests[r]
    IN  /\ request.status \in 400..499 => request.effect = "none"
        /\ (request.route = "create" /\ request.status \in 200..299) =>
             request.effect \in {"created", "replayed"}
        /\ request.effect = "unsure" => request.status >= 500
===============================================================================
