--------------------------- MODULE TransactionReads ---------------------------
(***************************************************************************)
(* What GET /transactions/:id promises, cache or no cache: a read answers   *)
(* with the requested transaction or with "not found" according to what is  *)
(* committed at one instant between its start and its end, or fails because *)
(* the database does.                                                       *)
(***************************************************************************)
CONSTANTS Readers, Ids

VARIABLES
  transactions,  \* the ids of the committed transactions
  reads          \* what each reader is doing

NoRead == [phase |-> "idle", id |-> CHOOSE i \in Ids : TRUE, answer |-> "none"]

Init ==
  /\ transactions = {}
  /\ reads = [r \in Readers |-> NoRead]

Commit(id) ==
  /\ transactions' = transactions \cup {id}
  /\ UNCHANGED reads

Start(r, id) ==
  /\ reads[r].phase = "idle"
  /\ reads' = [reads EXCEPT ![r] = [phase |-> "reading", id |-> id, answer |-> "none"]]
  /\ UNCHANGED transactions

\* The instant at which the read takes effect.
Answer(r) ==
  /\ reads[r].phase = "reading"
  /\ \E answer \in {IF reads[r].id \in transactions THEN reads[r].id ELSE "not_found",
                    "database_error"} :
       reads' = [reads EXCEPT ![r] = [phase |-> "answered", id |-> @.id, answer |-> answer]]
  /\ UNCHANGED transactions

Finish(r) ==
  /\ reads[r].phase = "answered"
  /\ reads' = [reads EXCEPT ![r] = NoRead]
  /\ UNCHANGED transactions

Next ==
  \/ \E id \in Ids : Commit(id)
  \/ \E r \in Readers : (\E id \in Ids : Start(r, id)) \/ Answer(r) \/ Finish(r)

Spec == Init /\ [][Next]_<<transactions, reads>>
===============================================================================
