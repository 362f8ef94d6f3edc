--------------------------- MODULE HttpPipelineProofs ---------------------------
(***************************************************************************)
(* The HTTP boundary for any number of requests and services, any limit on    *)
(* the body and any way a body is cut into chunks: bounded memory, a status   *)
(* that tells what became of the payment, and a quota that only its owner's   *)
(* requests use.                                                              *)
(***************************************************************************)
EXTENDS HttpPipeline, FiniteSetTheorems, TLAPS

\* What the client learns of the payment from one answer.
TellsEffect(q) ==
  /\ q.status \in 400..499 => q.effect = "none"
  /\ (q.route = "create" /\ q.status \in 200..299) => q.effect \in {"created", "replayed"}
  /\ q.effect = "unsure" => q.status >= 500

\* The declared size of a POST was accepted.
SizeAccepted(q) == q.route = "create" => q.declared \in {Absent} \cup 0..MaxBodyBytes

\* What is true of one request between two steps of its handler: it keeps no more
\* than it has read, nothing is paid before the answer, and the checks it is past
\* have succeeded.
Sound(q) ==
  /\ q \in Request
  /\ q.phase = "answered" <=> q.status # NoStatus
  /\ q.retained <= q.total
  /\ q.retained <= MaxBodyBytes
  /\ q.phase # "answered" => q.total <= MaxBodyBytes /\ q.effect = "none"
  /\ q.phase \in {"authenticating", "limiting", "reading", "executing"} =>
       q.route \in {"list", "get", "create"} /\ SizeAccepted(q)
  /\ q.phase \in {"limiting", "reading", "executing"} => q.service \in Services
  /\ TellsEffect(q)

\* The request took a unit of the quota of s.
Took(q, s) ==
  /\ q.service = s
  /\ q.phase \in {"reading", "executing", "answered"}
  /\ q.route \notin {"operational", "unmatched"}
  /\ q.service # NoService
  /\ SizeAccepted(q)

Payers(s) == {r \in Requests : Took(requests[r], s)}

\* Every request is sound, and the quota of a service is what its requests took; the
\* requests that have come so far are finitely many, also when Requests is not finite.
HandlerInvariant ==
  /\ requests \in [Requests -> Request]
  /\ quota \in [Services -> Nat]
  /\ \A r \in Requests : Sound(requests[r])
  /\ \A s \in Services : IsFiniteSet(Payers(s)) /\ quota[s] = Cardinality(Payers(s))

--------------------------------------------------------------------------------
(* Records                                                                    *)

\* An answer changes the phase and the status of a request, and nothing else.
LEMMA AnsweredFields ==
  ASSUME NEW q \in Request, NEW status \in Statuses
  PROVE  /\ Answered(q, status) \in Request
         /\ Answered(q, status).phase = "answered"
         /\ Answered(q, status).status = status
         /\ Answered(q, status).route = q.route
         /\ Answered(q, status).service = q.service
         /\ Answered(q, status).declared = q.declared
         /\ Answered(q, status).total = q.total
         /\ Answered(q, status).retained = q.retained
         /\ Answered(q, status).effect = q.effect
  BY DEF Answered, Request, Phases

\* A status is a number, and NoStatus is none of them.
LEMMA StatusFacts == Statuses \subseteq Nat /\ NoStatus \notin Statuses
  BY DEF Statuses, NoStatus

\* A request that is refused, or a read that is answered, stays sound: nothing was
\* paid.
LEMMA RefusalIsSound ==
  ASSUME NEW q, Sound(q), q.phase # "answered", NEW status \in Statuses,
         ~(q.route = "create" /\ status \in 200..299)
  PROVE  Sound(Answered(q, status))
  <1> DEFINE a == Answered(q, status)
  <1>1. q \in Request /\ q.effect = "none"
    BY DEF Sound
  <1>2. /\ a \in Request /\ a.phase = "answered" /\ a.status = status
        /\ a.route = q.route /\ a.total = q.total /\ a.retained = q.retained
        /\ a.effect = "none"
    BY <1>1, AnsweredFields
  <1> HIDE DEF a
  <1>3. TellsEffect(a)
    BY <1>2 DEF TellsEffect
  <1>4. Sound(a)
    BY <1>2, <1>3, StatusFacts DEF Sound
  <1> QED
    BY <1>4 DEF a

--------------------------------------------------------------------------------
(* The quota                                                                  *)

\* A step that leaves the quota alone and changes nobody's having passed the limiter.
LEMMA QuotaIsKept ==
  ASSUME HandlerInvariant, NEW r \in Requests, NEW q, Sound(q), Becomes(r, q),
         \A s \in Services : Took(q, s) <=> Took(requests[r], s)
  PROVE  HandlerInvariant'
  <1>1. q \in Request
    BY DEF Sound
  <1>2. requests' = [requests EXCEPT ![r] = q] /\ quota' = quota
    BY DEF Becomes
  <1>3. requests' \in [Requests -> Request] /\ quota' \in [Services -> Nat]
    BY <1>1, <1>2 DEF HandlerInvariant
  <1>4. \A p \in Requests : requests'[p] = IF p = r THEN q ELSE requests[p]
    BY <1>2 DEF HandlerInvariant
  <1>5. \A p \in Requests : Sound(requests'[p])
    BY <1>4 DEF HandlerInvariant
  <1>6. \A s \in Services : Payers(s)' = Payers(s)
    BY <1>4 DEF Payers
  <1> QED
    BY <1>2, <1>3, <1>5, <1>6 DEF HandlerInvariant

\* A step of the rate limiter: the service of the request pays for it.
LEMMA QuotaIsTaken ==
  ASSUME HandlerInvariant, NEW r \in Requests, NEW q, Sound(q),
         requests' = [requests EXCEPT ![r] = q],
         quota' = [quota EXCEPT ![requests[r].service] = @ + 1],
         requests[r].phase = "limiting", requests[r].service \in Services,
         \A s \in Services : Took(q, s) <=> s = requests[r].service
  PROVE  HandlerInvariant'
  <1> DEFINE mine == requests[r].service
  <1>1. q \in Request
    BY DEF Sound
  <1>2. /\ requests' \in [Requests -> Request]
        /\ quota' \in [Services -> Nat]
        /\ \A s \in Services : quota'[s] = IF s = mine THEN quota[s] + 1 ELSE quota[s]
    BY <1>1 DEF HandlerInvariant
  <1>3. \A p \in Requests : requests'[p] = IF p = r THEN q ELSE requests[p]
    BY DEF HandlerInvariant
  <1>4. \A p \in Requests : Sound(requests'[p])
    BY <1>3 DEF HandlerInvariant
  <1>5. \A s \in Services : r \notin Payers(s)
    BY DEF Payers, Took
  <1>6. \A s \in Services : Payers(s)' = IF s = mine THEN Payers(s) \cup {r} ELSE Payers(s)
    BY <1>3, <1>5 DEF Payers
  <1>7. ASSUME NEW s \in Services
        PROVE  IsFiniteSet(Payers(s)') /\ quota'[s] = Cardinality(Payers(s)')
    <2>1. IsFiniteSet(Payers(s)) /\ quota[s] = Cardinality(Payers(s))
      BY DEF HandlerInvariant
    <2>2. CASE s # mine
      BY <1>2, <1>6, <2>1, <2>2
    <2>3. CASE s = mine
      <3>1. IsFiniteSet(Payers(s) \cup {r})
            /\ Cardinality(Payers(s) \cup {r}) = Cardinality(Payers(s)) + 1
        BY <1>5, <2>1, FS_AddElement
      <3> QED
        BY <1>2, <1>6, <2>1, <2>3, <3>1
    <2> QED
      BY <2>2, <2>3
  <1> QED
    BY <1>2, <1>4, <1>7 DEF HandlerInvariant

\* No answer changes whether the request took a unit once it is past the limiter.
LEMMA LateAnswerTookAlike ==
  ASSUME NEW q, NEW a, NEW s, q.phase \in {"reading", "executing"},
         a.phase \in {"reading", "executing", "answered"}, a.route = q.route,
         a.service = q.service, a.declared = q.declared
  PROVE  Took(a, s) <=> Took(q, s)
  BY DEF Took, SizeAccepted

--------------------------------------------------------------------------------
(* The steps of the handler                                                   *)

\* A request as it is routed, before any check.
Routed(q, route, service, declared) ==
  [q EXCEPT !.route = route, !.service = service, !.declared = declared]

\* Routing keeps everything but the three fields.
LEMMA RoutedFields ==
  ASSUME NEW q \in Request, NEW route \in Routes, NEW service \in Services \cup {NoService},
         NEW declared \in Declared
  PROVE  /\ Routed(q, route, service, declared) \in Request
         /\ Routed(q, route, service, declared).route = route
         /\ Routed(q, route, service, declared).service = service
         /\ Routed(q, route, service, declared).declared = declared
         /\ Routed(q, route, service, declared).phase = q.phase
         /\ Routed(q, route, service, declared).total = q.total
         /\ Routed(q, route, service, declared).retained = q.retained
         /\ Routed(q, route, service, declared).effect = q.effect
         /\ Routed(q, route, service, declared).status = q.status
  BY DEF Routed, Request

\* A step to another phase of the handler changes nothing else.
LEMMA PhaseFields ==
  ASSUME NEW q \in Request, NEW phase \in Phases
  PROVE  /\ [q EXCEPT !.phase = phase] \in Request
         /\ [q EXCEPT !.phase = phase].phase = phase
         /\ [q EXCEPT !.phase = phase].route = q.route
         /\ [q EXCEPT !.phase = phase].service = q.service
         /\ [q EXCEPT !.phase = phase].declared = q.declared
         /\ [q EXCEPT !.phase = phase].total = q.total
         /\ [q EXCEPT !.phase = phase].retained = q.retained
         /\ [q EXCEPT !.phase = phase].effect = q.effect
         /\ [q EXCEPT !.phase = phase].status = q.status
  BY DEF Request

\* A request that goes on keeps what it has read and has paid nothing.
LEMMA GoingOnIsSound ==
  ASSUME NEW q, Sound(q), q.phase # "answered", NEW phase \in Phases \ {"idle", "answered"},
         q.route \in {"list", "get", "create"}, SizeAccepted(q),
         phase # "authenticating" => q.service \in Services
  PROVE  Sound([q EXCEPT !.phase = phase])
  <1> DEFINE a == [q EXCEPT !.phase = phase]
  <1>1. q \in Request /\ phase \in Phases
    BY DEF Sound
  <1>2. /\ a \in Request /\ a.phase = phase /\ a.route = q.route /\ a.service = q.service
        /\ a.declared = q.declared /\ a.total = q.total /\ a.retained = q.retained
        /\ a.effect = q.effect /\ a.status = q.status
    BY <1>1, PhaseFields
  <1> HIDE DEF a
  <1>3. TellsEffect(a) /\ SizeAccepted(a)
    BY <1>2 DEF TellsEffect, SizeAccepted, Sound
  <1>4. Sound(a)
    BY <1>2, <1>3 DEF Sound, Phases
  <1> QED
    BY <1>4 DEF a

\* The declared size is refused exactly when it is no number or is over the limit.
LEMMA DeclaredSizeFacts ==
  ASSUME NEW declared \in Declared
  PROVE  /\ DeclaredSizeStatus(declared) = NoStatus =>
              declared \in {Absent} \cup 0..MaxBodyBytes
         /\ DeclaredSizeStatus(declared) # NoStatus =>
              /\ declared \notin {Absent} \cup 0..MaxBodyBytes
              /\ DeclaredSizeStatus(declared) \in {400, 413}
  BY PipelineAssumption DEF DeclaredSizeStatus, Declared, NoStatus, Absent, Malformed

\* A routed request is sound before its first check, and has taken nothing.
LEMMA RoutedIsSound ==
  ASSUME NEW q, Sound(q), q.phase = "idle", NEW route \in Routes,
         NEW service \in Services \cup {NoService}, NEW declared \in Declared
  PROVE  Sound(Routed(q, route, service, declared))
  <1> DEFINE a == Routed(q, route, service, declared)
  <1>1. q \in Request
    BY DEF Sound
  <1>2. /\ a \in Request /\ a.phase = q.phase /\ a.route = route
        /\ a.total = q.total /\ a.retained = q.retained
        /\ a.effect = q.effect /\ a.status = q.status
    BY <1>1, RoutedFields
  <1> HIDE DEF a
  <1>3. TellsEffect(a)
    BY <1>2 DEF TellsEffect, Sound, NoStatus
  <1>4. Sound(a)
    BY <1>2, <1>3 DEF Sound
  <1> QED
    BY <1>4 DEF a

\* Routing.
LEMMA ReceiveKeeps ==
  ASSUME HandlerInvariant, NEW r \in Requests, Receive(r)
  PROVE  HandlerInvariant'
  <1>1. PICK route \in Routes, service \in Services \cup {NoService}, declared \in Declared :
          LET request == Routed(requests[r], route, service, declared)
          IN  \/ /\ route = "operational"
                 /\ \E status \in {200, 503} : Becomes(r, Answered(request, status))
              \/ route = "unmatched" /\ Becomes(r, Answered(request, 404))
              \/ /\ route = "create"
                 /\ DeclaredSizeStatus(declared) # NoStatus
                 /\ Becomes(r, Answered(request, DeclaredSizeStatus(declared)))
              \/ /\ \/ route \in {"list", "get"}
                    \/ route = "create" /\ DeclaredSizeStatus(declared) = NoStatus
                 /\ Becomes(r, [request EXCEPT !.phase = "authenticating"])
    BY DEF Receive, Routed
  <1> DEFINE q == requests[r]
             request == Routed(q, route, service, declared)
  <1>2. q \in Request /\ Sound(q) /\ q.phase = "idle"
    BY DEF HandlerInvariant, Receive
  <1>3. /\ request \in Request /\ request.phase = "idle" /\ request.route = route
        /\ request.service = service /\ request.declared = declared
    BY <1>2, RoutedFields
  <1>4. Sound(request)
    BY <1>2, RoutedIsSound
  <1>5. \A s \in Services : ~Took(q, s)
    BY <1>2 DEF Took
  <1> HIDE DEF request
  <1>6. ASSUME NEW status \in Statuses, Becomes(r, Answered(request, status)),
               \/ route \in {"operational", "unmatched"}
               \/ route = "create" /\ status \notin 200..299
                    /\ declared \notin {Absent} \cup 0..MaxBodyBytes
        PROVE  HandlerInvariant'
    <2>1. Sound(Answered(request, status))
      BY <1>3, <1>4, <1>6, RefusalIsSound
    <2>2. Answered(request, status).route = route
          /\ Answered(request, status).declared = declared
      BY <1>3, AnsweredFields
    <2>3. \A s \in Services : ~Took(Answered(request, status), s)
      BY <1>6, <2>2 DEF Took, SizeAccepted
    <2> QED
      BY <1>5, <1>6, <2>1, <2>3, QuotaIsKept
  <1>7. ASSUME Becomes(r, [request EXCEPT !.phase = "authenticating"]),
               route \in {"list", "get", "create"}, SizeAccepted(request)
        PROVE  HandlerInvariant'
    <2>1. "authenticating" \in Phases \ {"idle", "answered"}
      BY DEF Phases
    <2>2. Sound([request EXCEPT !.phase = "authenticating"])
      BY <1>3, <1>4, <1>7, <2>1, GoingOnIsSound
    <2>3. [request EXCEPT !.phase = "authenticating"].phase = "authenticating"
      BY <1>3, <2>1, PhaseFields
    <2>4. \A s \in Services : ~Took([request EXCEPT !.phase = "authenticating"], s)
      BY <2>3 DEF Took
    <2> QED
      BY <1>5, <1>7, <2>2, <2>4, QuotaIsKept
  <1>8. CASE route = "operational"
    BY <1>1, <1>6, <1>8 DEF request, Statuses
  <1>9. CASE route = "unmatched"
    BY <1>1, <1>6, <1>9 DEF request, Statuses
  <1>10. CASE route = "create" /\ DeclaredSizeStatus(declared) # NoStatus
    <2>1. /\ DeclaredSizeStatus(declared) \in Statuses
          /\ DeclaredSizeStatus(declared) \notin 200..299
          /\ declared \notin {Absent} \cup 0..MaxBodyBytes
      BY <1>10, DeclaredSizeFacts DEF Statuses
    <2> QED
      BY <1>1, <1>6, <1>10, <2>1 DEF request
  <1>11. CASE \/ route \in {"list", "get"}
              \/ route = "create" /\ DeclaredSizeStatus(declared) = NoStatus
    <2>1. SizeAccepted(request)
      BY <1>3, <1>11, DeclaredSizeFacts DEF SizeAccepted
    <2> QED
      BY <1>1, <1>7, <1>11, <2>1 DEF request
  <1> QED
    BY <1>8, <1>9, <1>10, <1>11 DEF Routes

\* Authentication.
LEMMA AuthenticateKeeps ==
  ASSUME HandlerInvariant, NEW r \in Requests, Authenticate(r)
  PROVE  HandlerInvariant'
  <1> DEFINE q == requests[r]
  <1>1. q \in Request /\ Sound(q) /\ q.phase = "authenticating"
    BY DEF HandlerInvariant, Authenticate
  <1>2. \A s \in Services : ~Took(q, s)
    BY <1>1 DEF Took
  <1>3. CASE q.service \in Services
    <2>1. "limiting" \in Phases \ {"idle", "answered"}
      BY DEF Phases
    <2>2. Sound([q EXCEPT !.phase = "limiting"])
      BY <1>1, <1>3, <2>1, GoingOnIsSound DEF Sound
    <2>3. [q EXCEPT !.phase = "limiting"].phase = "limiting"
      BY <1>1, <2>1, PhaseFields
    <2>4. \A s \in Services : ~Took([q EXCEPT !.phase = "limiting"], s)
      BY <2>3 DEF Took
    <2>5. Becomes(r, [q EXCEPT !.phase = "limiting"])
      BY <1>3 DEF Authenticate, IsConfigured
    <2> QED
      BY <1>2, <2>2, <2>4, <2>5, QuotaIsKept
  <1>4. CASE q.service \notin Services
    <2>1. 401 \in Statuses /\ 401 \notin 200..299
      BY DEF Statuses
    <2>2. Sound(Answered(q, 401))
      BY <1>1, <2>1, RefusalIsSound
    <2>3. Answered(q, 401).service = q.service
      BY <1>1, <2>1, AnsweredFields
    <2>4. \A s \in Services : ~Took(Answered(q, 401), s)
      BY <1>4, <2>3 DEF Took
    <2>5. Becomes(r, Answered(q, 401))
      BY <1>4 DEF Authenticate, IsConfigured
    <2> QED
      BY <1>2, <2>2, <2>4, <2>5, QuotaIsKept
  <1> QED
    BY <1>3, <1>4

\* The rate limiter and the checks behind it.
LEMMA ApplyRateLimitKeeps ==
  ASSUME HandlerInvariant, NEW r \in Requests, ApplyRateLimit(r)
  PROVE  HandlerInvariant'
  <1> DEFINE q == requests[r]
  <1>1. /\ q \in Request /\ Sound(q) /\ q.phase = "limiting"
        /\ q.service \in Services /\ q.service # NoService
        /\ q.route \in {"list", "get", "create"} /\ SizeAccepted(q)
    BY PipelineAssumption DEF HandlerInvariant, ApplyRateLimit, Sound
  <1>2. quota' = [quota EXCEPT ![q.service] = @ + 1]
    BY DEF ApplyRateLimit
  <1>3. ASSUME NEW a, Sound(a), requests' = [requests EXCEPT ![r] = a],
               a.phase \in {"reading", "executing", "answered"},
               a.route = q.route, a.service = q.service, a.declared = q.declared
        PROVE  HandlerInvariant'
    <2>1. \A s \in Services : Took(a, s) <=> s = q.service
      BY <1>1, <1>3 DEF Took, SizeAccepted
    <2> QED
      BY <1>1, <1>2, <1>3, <2>1, QuotaIsTaken
  <1>4. ASSUME NEW status \in {400, 415, 429},
               requests' = [requests EXCEPT ![r] = Answered(@, status)]
        PROVE  HandlerInvariant'
    <2>1. status \in Statuses /\ status \notin 200..299
      BY DEF Statuses
    <2>2. Sound(Answered(q, status))
      BY <1>1, <2>1, RefusalIsSound
    <2>3. requests' = [requests EXCEPT ![r] = Answered(q, status)]
      BY <1>4
    <2>4. /\ Answered(q, status).phase = "answered" /\ Answered(q, status).route = q.route
          /\ Answered(q, status).service = q.service
          /\ Answered(q, status).declared = q.declared
      BY <1>1, <2>1, AnsweredFields
    <2> QED
      BY <1>3, <2>2, <2>3, <2>4
  <1>5. ASSUME NEW phase \in {"reading", "executing"},
               requests' = [requests EXCEPT ![r].phase = phase]
        PROVE  HandlerInvariant'
    <2> DEFINE a == [q EXCEPT !.phase = phase]
    <2>1. phase \in Phases \ {"idle", "answered"}
      BY DEF Phases
    <2>2. Sound(a)
      BY <1>1, <2>1, GoingOnIsSound
    <2>3. requests' = [requests EXCEPT ![r] = a]
      BY <1>5
    <2>4. a.phase = phase /\ a.route = q.route /\ a.service = q.service
          /\ a.declared = q.declared
      BY <1>1, <2>1, PhaseFields
    <2> QED
      BY <1>3, <2>2, <2>3, <2>4
  <1>6. ParameterStatuses(q.route) \subseteq {400, 415, 429}
    BY DEF ParameterStatuses
  <1> QED
    BY <1>4, <1>5, <1>6 DEF ApplyRateLimit

\* A chunk of the body.
LEMMA ReadChunkKeeps ==
  ASSUME HandlerInvariant, NEW r \in Requests, ReadChunk(r)
  PROVE  HandlerInvariant'
  <1> DEFINE q == requests[r]
  <1>1. PICK bytes \in 1..MaxChunk :
          Becomes(r, IF TooLarge(q.total, bytes)
                       THEN Answered([q EXCEPT !.total = @ + bytes], 413)
                       ELSE [[q EXCEPT !.total = @ + bytes] EXCEPT !.retained = @ + bytes])
    BY DEF ReadChunk
  <1>2. q \in Request /\ Sound(q) /\ q.phase = "reading"
    BY DEF HandlerInvariant, ReadChunk
  <1>3. /\ q.total \in Nat /\ q.retained \in Nat /\ bytes \in Nat
        /\ q.retained <= q.total /\ q.retained <= MaxBodyBytes /\ MaxBodyBytes \in Nat
    BY <1>2, PipelineAssumption DEF Sound, Request
  <1> DEFINE more == q.total + bytes
             kept == q.retained + bytes
             b == [q EXCEPT !.total = more]
             c == [b EXCEPT !.retained = kept]
  <1>4. more \in Nat /\ kept \in Nat /\ kept <= more /\ q.retained <= more
    BY <1>3
  <1>5. TooLarge(q.total, bytes) <=> more > MaxBodyBytes
    BY DEF TooLarge
  <1>6. /\ Becomes(r, Answered(b, 413)) \/ ~TooLarge(q.total, bytes)
        /\ Becomes(r, c) \/ TooLarge(q.total, bytes)
    <2>1. b.retained = q.retained /\ q.total = q.total
      BY <1>2 DEF Request
    <2> QED
      BY <1>1, <2>1
  <1> HIDE DEF more, kept
  <1>7. /\ b \in Request /\ b.total = more /\ b.retained = q.retained
        /\ b.phase = q.phase /\ b.route = q.route /\ b.service = q.service
        /\ b.declared = q.declared /\ b.effect = q.effect /\ b.status = q.status
    BY <1>2, <1>4 DEF Request
  <1> HIDE DEF b
  <1>8. /\ c \in Request /\ c.total = more /\ c.retained = kept
        /\ c.phase = q.phase /\ c.route = q.route /\ c.service = q.service
        /\ c.declared = q.declared /\ c.effect = q.effect /\ c.status = q.status
    BY <1>4, <1>7 DEF Request
  <1> HIDE DEF c
  <1>9. CASE TooLarge(q.total, bytes)
    <2> DEFINE a == Answered(b, 413)
    <2>1. /\ a \in Request /\ a.phase = "answered" /\ a.status = 413 /\ a.route = q.route
          /\ a.service = q.service /\ a.declared = q.declared /\ a.total = more
          /\ a.retained = q.retained /\ a.effect = q.effect
      BY <1>7, AnsweredFields DEF Statuses
    <2> HIDE DEF a
    <2>2. TellsEffect(a)
      BY <1>2, <2>1 DEF TellsEffect, Sound
    <2>3. Sound(a)
      BY <1>3, <1>4, <2>1, <2>2 DEF Sound, NoStatus
    <2>4. \A s \in Services : Took(a, s) <=> Took(q, s)
      BY <1>2, <2>1, LateAnswerTookAlike
    <2>5. Becomes(r, a)
      BY <1>6, <1>9 DEF a
    <2> QED
      BY <2>3, <2>4, <2>5, QuotaIsKept
  <1>10. CASE ~TooLarge(q.total, bytes)
    <2>1. more <= MaxBodyBytes
      BY <1>3, <1>4, <1>5, <1>10
    <2>2. TellsEffect(c) /\ SizeAccepted(c)
      BY <1>2, <1>8 DEF TellsEffect, SizeAccepted, Sound
    <2>3. Sound(c)
      BY <1>2, <1>3, <1>4, <1>8, <2>1, <2>2 DEF Sound
    <2>4. \A s \in Services : Took(c, s) <=> Took(q, s)
      BY <1>2, <1>8, LateAnswerTookAlike
    <2> QED
      BY <1>6, <1>10, <2>3, <2>4, QuotaIsKept
  <1> QED
    BY <1>9, <1>10

\* The end of the body.
LEMMA BodyEndsKeeps ==
  ASSUME HandlerInvariant, NEW r \in Requests, BodyEnds(r)
  PROVE  HandlerInvariant'
  <1> DEFINE q == requests[r]
  <1>1. /\ q \in Request /\ Sound(q) /\ q.phase = "reading" /\ q.service \in Services
        /\ q.route \in {"list", "get", "create"} /\ SizeAccepted(q)
    BY DEF HandlerInvariant, BodyEnds, Sound
  <1>2. ASSUME NEW status \in {400, 422}, Becomes(r, Answered(q, status))
        PROVE  HandlerInvariant'
    <2>1. status \in Statuses /\ status \notin 200..299
      BY DEF Statuses
    <2>2. Sound(Answered(q, status))
      BY <1>1, <2>1, RefusalIsSound
    <2>3. /\ Answered(q, status).phase = "answered" /\ Answered(q, status).route = q.route
          /\ Answered(q, status).service = q.service
          /\ Answered(q, status).declared = q.declared
      BY <1>1, <2>1, AnsweredFields
    <2>4. \A s \in Services : Took(Answered(q, status), s) <=> Took(q, s)
      BY <1>1, <2>3, LateAnswerTookAlike
    <2> QED
      BY <1>2, <2>2, <2>4, QuotaIsKept
  <1>3. ASSUME Becomes(r, [q EXCEPT !.phase = "executing"])
        PROVE  HandlerInvariant'
    <2> DEFINE a == [q EXCEPT !.phase = "executing"]
    <2>1. "executing" \in Phases \ {"idle", "answered"}
      BY DEF Phases
    <2>2. Sound(a)
      BY <1>1, <2>1, GoingOnIsSound
    <2>3. a.phase = "executing" /\ a.route = q.route /\ a.service = q.service
          /\ a.declared = q.declared
      BY <1>1, <2>1, PhaseFields
    <2>4. Becomes(r, a)
      BY <1>3
    <2> HIDE DEF a
    <2>5. \A s \in Services : Took(a, s) <=> Took(q, s)
      BY <1>1, <2>3, LateAnswerTookAlike
    <2> QED
      BY <2>2, <2>4, <2>5, QuotaIsKept
  <1> QED
    BY <1>2, <1>3 DEF BodyEnds

\* A use case that ends: the answer and what is known of the payment.
LEMMA UseCaseEndKeeps ==
  ASSUME HandlerInvariant, NEW r \in Requests, requests[r].phase = "executing",
         NEW status \in Statuses, NEW effect \in Effects,
         Becomes(r, [Answered(requests[r], status) EXCEPT !.effect = effect]),
         status \in 400..499 => effect = "none",
         requests[r].route = "create" /\ status \in 200..299 =>
           effect \in {"created", "replayed"},
         effect = "unsure" => status >= 500
  PROVE  HandlerInvariant'
  <1> DEFINE q == requests[r]
             b == Answered(q, status)
             a == [b EXCEPT !.effect = effect]
  <1>1. q \in Request /\ Sound(q)
    BY DEF HandlerInvariant
  <1>2. /\ b \in Request /\ b.phase = "answered" /\ b.status = status /\ b.route = q.route
        /\ b.service = q.service /\ b.declared = q.declared /\ b.total = q.total
        /\ b.retained = q.retained
    BY <1>1, AnsweredFields
  <1> HIDE DEF b
  <1>3. /\ a \in Request /\ a.phase = "answered" /\ a.status = status /\ a.route = q.route
        /\ a.service = q.service /\ a.declared = q.declared /\ a.total = q.total
        /\ a.retained = q.retained /\ a.effect = effect
    BY <1>2 DEF Request
  <1>4. Becomes(r, a)
    BY DEF b
  <1> HIDE DEF a
  <1>5. TellsEffect(a)
    BY <1>3 DEF TellsEffect
  <1>6. Sound(a)
    BY <1>1, <1>3, <1>5, StatusFacts DEF Sound
  <1>7. \A s \in Services : Took(a, s) <=> Took(q, s)
    BY <1>3, LateAnswerTookAlike
  <1> QED
    BY <1>4, <1>6, <1>7, QuotaIsKept

\* The use case returns.
LEMMA UseCaseReturnsKeeps ==
  ASSUME HandlerInvariant, NEW r \in Requests, UseCaseReturns(r)
  PROVE  HandlerInvariant'
  <1> DEFINE q == requests[r]
  <1>1. q \in Request /\ Sound(q) /\ q.phase = "executing"
    BY DEF HandlerInvariant, UseCaseReturns
  <1>2. CASE q.route # "create" /\ Becomes(r, Answered(q, 200))
    <2>1. 200 \in Statuses
      BY DEF Statuses
    <2>2. Sound(Answered(q, 200))
      BY <1>1, <1>2, <2>1, RefusalIsSound
    <2>3. /\ Answered(q, 200).phase = "answered" /\ Answered(q, 200).route = q.route
          /\ Answered(q, 200).service = q.service /\ Answered(q, 200).declared = q.declared
      BY <1>1, <2>1, AnsweredFields
    <2>4. \A s \in Services : Took(Answered(q, 200), s) <=> Took(q, s)
      BY <1>1, <2>3, LateAnswerTookAlike
    <2> QED
      BY <1>2, <2>2, <2>4, QuotaIsKept
  <1>3. ASSUME NEW effect \in {"created", "replayed"},
               Becomes(r, [Answered(q, IF effect = "created" THEN 201 ELSE 200)
                             EXCEPT !.effect = effect])
        PROVE  HandlerInvariant'
    <2> DEFINE status == IF effect = "created" THEN 201 ELSE 200
    <2>1. status \in Statuses /\ status \in 200..299 /\ effect \in Effects
      BY DEF Statuses, Effects
    <2>2. Becomes(r, [Answered(q, status) EXCEPT !.effect = effect])
      BY <1>3
    <2> HIDE DEF status
    <2>3. status \notin 400..499 /\ effect # "unsure"
      BY <2>1
    <2> QED
      BY <1>1, <2>1, <2>2, <2>3, UseCaseEndKeeps
  <1> QED
    BY <1>2, <1>3 DEF UseCaseReturns

\* mapApplicationError: a payment that may have been made is never told as a 4xx.
LEMMA ErrorStatusFacts ==
  ASSUME NEW error \in {"conflict", "in_progress"} \cup ErrorKinds
  PROVE  /\ MapApplicationError(error) \in Statuses
         /\ MapApplicationError(error) >= 400
         /\ EffectsOf(error) \subseteq {"none", "unsure"}
         /\ MapApplicationError(error) \in 400..499 => EffectsOf(error) = {"none"}
  BY DEF MapApplicationError, EffectsOf, ErrorKinds, ServerErrors, Statuses,
         ClassifyProviderFailure

\* The use case throws.
LEMMA UseCaseThrowsKeeps ==
  ASSUME HandlerInvariant, NEW r \in Requests, UseCaseThrows(r)
  PROVE  HandlerInvariant'
  <1> DEFINE q == requests[r]
  <1>1. /\ q \in Request /\ Sound(q) /\ q.phase = "executing"
        /\ q.route \in {"list", "get", "create"}
    BY DEF HandlerInvariant, UseCaseThrows, Sound
  <1>2. PICK error \in UseCaseErrors[q.route] :
          \E effect \in IF q.route = "create" THEN EffectsOf(error) ELSE {"none"} :
            Becomes(r, [Answered(q, MapApplicationError(error)) EXCEPT !.effect = effect])
    BY DEF UseCaseThrows
  <1> DEFINE status == MapApplicationError(error)
             possible == IF q.route = "create" THEN EffectsOf(error) ELSE {"none"}
  <1>3. PICK effect \in possible : Becomes(r, [Answered(q, status) EXCEPT !.effect = effect])
    BY <1>2
  <1>4. /\ status \in Statuses /\ status >= 400 /\ effect \in {"none", "unsure"}
        /\ status \in 400..499 => effect = "none"
    <2>1. CASE q.route = "create"
      <3>1. error \in {"conflict", "in_progress"} \cup ErrorKinds
        BY <1>2, <2>1 DEF UseCaseErrors
      <3> QED
        BY <1>3, <2>1, <3>1, ErrorStatusFacts
    <2>2. CASE q.route \in {"list", "get"}
      <3>1. error \in {"not_found", "unknown"}
        BY <1>2, <2>2 DEF UseCaseErrors
      <3>2. status \in Statuses /\ status >= 400
        BY <3>1 DEF MapApplicationError, Statuses, ServerErrors
      <3> QED
        BY <1>3, <2>2, <3>2
    <2> QED
      BY <1>1, <2>1, <2>2
  <1>5. Becomes(r, [Answered(q, status) EXCEPT !.effect = effect])
    BY <1>3
  <1> HIDE DEF status, possible
  <1>6. /\ effect \in Effects
        /\ status \notin 200..299
        /\ effect = "unsure" => status >= 500
    BY <1>4, StatusFacts DEF Effects
  <1> QED
    BY <1>1, <1>4, <1>5, <1>6, UseCaseEndKeeps

--------------------------------------------------------------------------------
(* The theorems                                                               *)

\* No request has come and nobody has paid.
LEMMA InitIsSound == Init => HandlerInvariant
  <1> SUFFICES ASSUME Init PROVE HandlerInvariant
    OBVIOUS
  <1> DEFINE q == [phase |-> "idle", route |-> "unmatched", service |-> NoService,
                   declared |-> Absent, total |-> 0, retained |-> 0, effect |-> "none",
                   status |-> NoStatus]
  <1>1. requests = [r \in Requests |-> q] /\ quota = [s \in Services |-> 0]
    BY DEF Init
  <1>2. q \in Request
    BY DEF Request, Phases, Routes, Declared, Effects
  <1>3. Sound(q)
    BY <1>2, PipelineAssumption DEF Sound, TellsEffect, NoStatus
  <1> HIDE DEF q
  <1>4. /\ requests \in [Requests -> Request] /\ quota \in [Services -> Nat]
        /\ \A r \in Requests : Sound(requests[r])
    BY <1>1, <1>2, <1>3
  <1>5. \A s \in Services : Payers(s) = {}
    BY <1>1 DEF Payers, Took, q
  <1>6. IsFiniteSet({}) /\ Cardinality({}) = 0
    BY FS_EmptySet
  <1> QED
    BY <1>1, <1>4, <1>5, <1>6 DEF HandlerInvariant

\* Every step of a handler keeps the invariant.
LEMMA NextIsSound ==
  ASSUME HandlerInvariant, [Next]_vars
  PROVE  HandlerInvariant'
  <1>1. CASE UNCHANGED vars
    BY <1>1 DEF vars, HandlerInvariant, Payers
  <1> QED
    BY <1>1, ReceiveKeeps, AuthenticateKeeps, ApplyRateLimitKeeps, ReadChunkKeeps,
       BodyEndsKeeps, UseCaseReturnsKeeps, UseCaseThrowsKeeps
       DEF Next, Quiescent

\* The handlers' invariant holds in every reachable state.
LEMMA HandlersAreSound == Spec => []HandlerInvariant
  <1>1. HandlerInvariant /\ [Next]_vars => HandlerInvariant'
    BY NextIsSound
  <1> QED
    BY <1>1, InitIsSound, PTL DEF Spec

\* However a body is cut into chunks and whatever its declared length, a request
\* keeps at most maxBodyBytes and a larger body never reaches the use case.
THEOREM BodiesAreBounded == Spec => []PipelineInvariant
  <1>1. HandlerInvariant => PipelineInvariant
    BY DEF HandlerInvariant, Sound, PipelineInvariant, TypeOK, BodyStaysBounded
  <1> QED
    BY <1>1, HandlersAreSound, PTL

\* The status of an answer tells what became of the payment: a 4xx that nothing was
\* paid, a 2xx that it is stored, and what is unsure is a 5xx.
THEOREM StatusIsHonest == Spec => []StatusTellsEffect
  <1>1. HandlerInvariant => StatusTellsEffect
    BY DEF HandlerInvariant, Sound, TellsEffect, StatusTellsEffect
  <1> QED
    BY <1>1, HandlersAreSound, PTL

\* A service's quota is used by its own requests only, one unit each, however many
\* requests and services there are.
THEOREM OnlyOwnersPay == Spec => []QuotaIsPaidByItsService
  <1>1. HandlerInvariant => QuotaIsPaidByItsService
    <2> SUFFICES ASSUME HandlerInvariant, NEW s \in Services
                 PROVE  quota[s] = Cardinality({r \in Requests :
                                     requests[r].service = s /\ PassedLimiter(r)})
      BY DEF QuotaIsPaidByItsService
    <2>1. {r \in Requests : requests[r].service = s /\ PassedLimiter(r)} = Payers(s)
      BY DEF Payers, Took, PassedLimiter, SizeAccepted
    <2> QED
      BY <2>1 DEF HandlerInvariant
  <1> QED
    BY <1>1, HandlersAreSound, PTL
================================================================================
