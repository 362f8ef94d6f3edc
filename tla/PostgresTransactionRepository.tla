-------------------- MODULE PostgresTransactionRepository --------------------
(***************************************************************************)
(* The two tables of PostgreSQL and the statements that                     *)
(* PostgresTransactionRepository runs on them.  A statement, and the body of *)
(* sql.begin in completeIdempotencyOperation, is atomic: PostgreSQL runs     *)
(* them in READ COMMITTED, the UPDATE or DELETE of a locked row re-evaluates *)
(* its WHERE clause, and ON CONFLICT waits for the row it conflicts with.    *)
(* What is not atomic is the claim, which is three statements.               *)
(***************************************************************************)
EXTENDS Integers

CONSTANTS
  Keys,            \* values of the Idempotency-Key header
  Fingerprints,    \* SHA-256 of the canonical request
  TransactionIds,  \* UUIDs of transactions
  NoOperation,     \* no row in idempotency_operations
  NoTransaction    \* no row in transactions; transaction_id IS NULL

VARIABLES
  operations,      \* idempotency_operations, by its primary key
  transactions,    \* transactions, by its primary key
  released         \* history: the key and fingerprint of every row a release deleted

OperationStatus == {"processing", "completed"}

\* A row of idempotency_operations.
Operation ==
  [fingerprint : Fingerprints, status : OperationStatus,
   transaction : TransactionIds \cup {NoTransaction},
   createdAt : Nat, updatedAt : Nat]

\* A row of transactions: the request it stores, and the provider transaction it
\* names, told apart by the request the provider charged.
Transaction == [fingerprint : Fingerprints, charged : Fingerprints]

ASSUME NullsAssumption ==
  /\ NoOperation \notin Operation
  /\ NoTransaction \notin TransactionIds
  /\ NoTransaction \notin Transaction

TablesTypeOK ==
  /\ operations \in [Keys -> Operation \cup {NoOperation}]
  /\ transactions \in [TransactionIds -> Transaction \cup {NoTransaction}]
  /\ released \subseteq Keys \X Fingerprints

EmptyTables ==
  /\ operations = [k \in Keys |-> NoOperation]
  /\ transactions = [i \in TransactionIds |-> NoTransaction]
  /\ released = {}

-------------------------------------------------------------------------------
\* The row INSERT ... ON CONFLICT DO NOTHING writes, when there is none.
ClaimedRow(f, at) ==
  [fingerprint |-> f, status |-> "processing", transaction |-> NoTransaction,
   createdAt |-> at, updatedAt |-> at]

\* A processing row of this request: what UPDATE and DELETE select.
ProcessingRow(k, f) ==
  /\ operations[k] # NoOperation
  /\ operations[k].fingerprint = f
  /\ operations[k].status = "processing"

\* Mutant: the reclaim does not compare updated_at.
ReclaimableAnyTime(k, f, staleBefore) == ProcessingRow(k, f)

\* Mutant: the reclaim does not compare request_fingerprint.
ReclaimableByAnyPayload(k, f, staleBefore) ==
  /\ operations[k] # NoOperation
  /\ operations[k].status = "processing"
  /\ operations[k].updatedAt <= staleBefore

\* Mutant: a claim exactly StaleTimeout old is not reclaimed.
ReclaimableStrictly(k, f, staleBefore) ==
  ProcessingRow(k, f) /\ operations[k].updatedAt < staleBefore

\* The WHERE clause of the reclaim.
Reclaimable(k, f, staleBefore) ==
  ProcessingRow(k, f) /\ operations[k].updatedAt <= staleBefore

\* Mutant: the release also deletes a completed operation.
ReleasableCompleted(k, f) ==
  operations[k] # NoOperation /\ operations[k].fingerprint = f

\* The WHERE clause of the release.
Releasable(k, f) == ProcessingRow(k, f)

\* Mutant: the completion does not look at the status of the row.
CompletableTwice(k, f, completedAt) ==
  /\ operations[k] # NoOperation
  /\ operations[k].fingerprint = f
  /\ completedAt >= operations[k].createdAt

\* The completion commits when its UPDATE finds the row and the row it writes
\* passes idempotency_operations_timestamps_check; otherwise it rolls back.
Completable(k, f, completedAt) ==
  ProcessingRow(k, f) /\ completedAt >= operations[k].createdAt

\* INSERT INTO idempotency_operations ... ON CONFLICT DO NOTHING, when it inserts.
InsertRow(k, f, claimedAt) ==
  /\ operations' = [operations EXCEPT ![k] = ClaimedRow(f, claimedAt)]
  /\ UNCHANGED <<transactions, released>>

\* UPDATE ... SET updated_at, when it finds a reclaimable row.
ReclaimRow(k, claimedAt) ==
  /\ operations' = [operations EXCEPT ![k].updatedAt = claimedAt]
  /\ UNCHANGED <<transactions, released>>

\* DELETE FROM idempotency_operations, when it finds a processing row.
DeleteRow(k) ==
  /\ operations' = [operations EXCEPT ![k] = NoOperation]
  /\ released' = released \cup {<<k, operations[k].fingerprint>>}
  /\ UNCHANGED transactions

\* Mutant: completion without its enclosing transaction, failing half-way.
CommitHalfCompletion(k, id, row, completedAt) ==
  /\ transactions' = [transactions EXCEPT ![id] = row]
  /\ UNCHANGED <<operations, released>>

\* The transaction of completeIdempotencyOperation, committed.
CommitCompletion(k, id, row, completedAt) ==
  /\ transactions' = [transactions EXCEPT ![id] = row]
  /\ operations' =
       [operations EXCEPT
          ![k] = [fingerprint |-> operations[k].fingerprint,
                  status |-> "completed",
                  transaction |-> id,
                  createdAt |-> operations[k].createdAt,
                  updatedAt |-> completedAt]]
  /\ UNCHANGED released
===============================================================================
