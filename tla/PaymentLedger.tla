----------------------------- MODULE PaymentLedger -----------------------------
(***************************************************************************)
(* What the API promises its clients about an Idempotency-Key, whatever      *)
(* fails underneath: a key gets at most one transaction, the transaction is  *)
(* never replaced or withdrawn, and every request of the key that is         *)
(* answered with a transaction is answered with that one.                    *)
(***************************************************************************)
CONSTANTS
  Keys,
  Requests,        \* POST /transactions calls; each generates one transaction id
  NoTransaction

VARIABLES
  keyOf,           \* the Idempotency-Key of each request
  outcome,         \* the transaction recorded for each key
  returned         \* the transaction each request was answered with

ledgerVars == <<keyOf, outcome, returned>>

Init ==
  /\ keyOf \in [Requests -> Keys]
  /\ outcome = [k \in Keys |-> NoTransaction]
  /\ returned = [r \in Requests |-> NoTransaction]

\* Request r settles its key; its answer may be lost.
Settle(r) ==
  /\ outcome[keyOf[r]] = NoTransaction
  /\ returned[r] = NoTransaction
  /\ outcome' = [outcome EXCEPT ![keyOf[r]] = r]
  /\ returned' = returned \/ returned' = [returned EXCEPT ![r] = r]
  /\ UNCHANGED keyOf

\* Request r is answered with the transaction its key already has.
Replay(r) ==
  /\ outcome[keyOf[r]] # NoTransaction
  /\ returned[r] = NoTransaction
  /\ returned' = [returned EXCEPT ![r] = outcome[keyOf[r]]]
  /\ UNCHANGED <<keyOf, outcome>>

Next == \E r \in Requests : Settle(r) \/ Replay(r)

Spec == Init /\ [][Next]_ledgerVars
===============================================================================
