----------------------------- MODULE FakeProvider -----------------------------
(***************************************************************************)
(* The development stand-in for the payment provider (dev/fake-provider.ts, *)
(* dev/provider.ts): it plays a configured list of outcomes and keeps the   *)
(* approved results by Idempotency-Key.  Its handler awaits three times: the *)
(* configured latency, the body of the request, and the delay of a timeout. *)
(***************************************************************************)
EXTENDS Integers, Sequences, FiniteSetsExt

CONSTANTS
  Requests,   \* calls of the handler
  Keys,       \* values of the Idempotency-Key header
  NoKey,      \* the header is missing or blank
  Outcomes,   \* options.outcomes; a number stands for itself
  HasLatency  \* latencyMs > 0

NamedOutcomes ==
  {"success", "timeout", "network_error", "invalid_json", "invalid_schema"}

\* parseFakeProviderOutcomes, without which the provider does not start; every
\* supported status is handled alike.
ParseFakeProviderOutcomes ==
  /\ Len(Outcomes) > 0
  /\ \A i \in 1..Len(Outcomes) : Outcomes[i] \in NamedOutcomes \cup {"status"}

VARIABLES
  transactions,  \* the result kept for each key; 0 when there is none
  issued,        \* the results created for each key
  outcomeIndex,  \* outcomes used so far, counted up to the end of the list
  requests,      \* what each call of the handler is doing
  serving        \* server.stop(true) has not been called

vars == <<transactions, issued, outcomeIndex, requests, serving>>

Phases == {"idle", "sleeping", "reading", "delaying", "answered"}

\* 200: a kept result; 201: a new one; unusable: a 201 that is not a result;
\* refused: an error status; lost: the connection was cut.
Replies == {"none", "200", "201", "unusable", "refused", "lost"}

NoResult == 0
Results == 0..Cardinality(Requests)

Request ==
  [phase : Phases, key : Keys \cup {NoKey}, reply : Replies, result : Results]

transactionSequence == Cardinality(UNION {issued[k] : k \in Keys})

Init ==
  /\ ParseFakeProviderOutcomes
  /\ transactions = [k \in Keys |-> NoResult]
  /\ issued = [k \in Keys |-> {}]
  /\ outcomeIndex = 0
  /\ requests =
       [r \in Requests |-> [phase |-> "idle", key |-> NoKey, reply |-> "none",
                            result |-> NoResult]]
  /\ serving = TRUE

-------------------------------------------------------------------------------
\* The handler returns; nobody hears it once the server has been stopped.
Answered(request, reply, result) ==
  [request EXCEPT !.phase = "answered", !.result = result,
                  !.reply = IF serving THEN reply ELSE "lost"]

\* The handler looks the key up, and goes on to read the body if it is new.
LookedUp(request) ==
  IF transactions[request.key] # NoResult
  THEN Answered(request, "200", transactions[request.key])
  ELSE [request EXCEPT !.phase = "reading"]

\* A request arrives; without a key it is refused.
Arrive(r) ==
  /\ requests[r].phase = "idle"
  /\ serving
  /\ \E k \in Keys \cup {NoKey} :
       LET request == [requests[r] EXCEPT !.key = k]
       IN  requests' = [requests EXCEPT ![r] =
             IF k = NoKey THEN Answered(request, "refused", NoResult)
             ELSE IF HasLatency THEN [request EXCEPT !.phase = "sleeping"]
             ELSE LookedUp(request)]
  /\ UNCHANGED <<transactions, issued, outcomeIndex, serving>>

LatencyEnds(r) ==
  /\ requests[r].phase = "sleeping"
  /\ requests' = [requests EXCEPT ![r] = LookedUp(@)]
  /\ UNCHANGED <<transactions, issued, outcomeIndex, serving>>

\* options.outcomes[outcomeIndex] ?? "success"
NextOutcome ==
  IF outcomeIndex < Len(Outcomes) THEN Outcomes[outcomeIndex + 1] ELSE "success"

\* transactions.set(idempotencyKey, result), whatever the outcome.
Kept(k, result) == [transactions EXCEPT ![k] = result]

\* The body is no JSON, cannot be read, or is no transaction.
BodyRefused(r) ==
  /\ requests[r].phase = "reading"
  /\ requests' = [requests EXCEPT ![r] = Answered(@, "refused", NoResult)]
  /\ UNCHANGED <<transactions, issued, outcomeIndex, serving>>

\* The body is a transaction: the next outcome is played.
BodyAccepted(r) ==
  LET k == requests[r].key
      result == transactionSequence + 1
  IN  /\ requests[r].phase = "reading"
      /\ outcomeIndex' = Min({outcomeIndex + 1, Len(Outcomes)})
      /\ \/ /\ NextOutcome = "status"
            /\ requests' = [requests EXCEPT ![r] = Answered(@, "refused", NoResult)]
            /\ UNCHANGED <<transactions, issued, serving>>
         \/ /\ NextOutcome # "status"
            /\ issued' = [issued EXCEPT ![k] = @ \cup {result}]
            /\ transactions' = Kept(k, result)
            /\ \/ /\ NextOutcome = "success"
                  /\ requests' = [requests EXCEPT ![r] = Answered(@, "201", result)]
                  /\ UNCHANGED serving
               \/ /\ NextOutcome = "timeout"
                  /\ requests' = [requests EXCEPT ![r].phase = "delaying",
                                                  ![r].result = result]
                  /\ UNCHANGED serving
               \/ /\ NextOutcome = "network_error"
                  /\ requests' = [requests EXCEPT ![r] = Answered(@, "lost", result)]
                  /\ serving' = FALSE
               \/ /\ NextOutcome \in {"invalid_json", "invalid_schema"}
                  /\ requests' =
                       [requests EXCEPT ![r] = Answered(@, "unusable", result)]
                  /\ UNCHANGED serving

\* The delay of a timeout is over.
DelayEnds(r) ==
  /\ requests[r].phase = "delaying"
  /\ requests' = [requests EXCEPT ![r] = Answered(@, "201", @.result)]
  /\ UNCHANGED <<transactions, issued, outcomeIndex, serving>>

\* Every request is answered, or the server is stopped.
Quiescent ==
  /\ \A r \in Requests :
       requests[r].phase = "answered" \/ (requests[r].phase = "idle" /\ ~serving)
  /\ UNCHANGED vars

Next ==
  \/ \E r \in Requests :
       \/ Arrive(r) \/ LatencyEnds(r) \/ BodyRefused(r) \/ BodyAccepted(r)
       \/ DelayEnds(r)
  \/ Quiescent

Spec == Init /\ [][Next]_vars

-------------------------------------------------------------------------------
(* Properties                                                               *)

\* "O fake provider mantém sua própria idempotência em memória" (README.md:258):
\* a key is paid once, as the Idempotency-Key contract of a provider asks.
OnePaymentPerKey == \A k \in Keys : Cardinality(issued[k]) <= 1
===============================================================================
