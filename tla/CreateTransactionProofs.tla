------------------------ MODULE CreateTransactionProofs ------------------------
(***************************************************************************)
(* CreateTransaction keeps the ledger's promise whatever the timing, its      *)
(* lease is exclusive when executions are punctual, and the in-memory double  *)
(* of its repository is faithful on one clock: for every number of            *)
(* executions, keys and fingerprints, and every timeout.                      *)
(***************************************************************************)
EXTENDS InMemoryTransactionRepository, TLAPS

\* Keys, fingerprints and clock readings of an execution are well typed.
LEMMA RequestTyped ==
  ASSUME TypeOK, NEW e \in Executions
  PROVE  /\ Key(e) \in Keys
         /\ Fingerprint(e) \in Fingerprints
         /\ request[e].skew \in 0 .. MaxSkew
         /\ ClaimedAt(e) \in Nat
         /\ Clock(e) \in Nat
         /\ startedAt[e] \in Nat
         /\ completedAt[e] \in Nat
  BY TimingAssumption DEF TypeOK, Key, Fingerprint, ClaimedAt, Clock

\* The outcomes of classifyProviderFailure are among the answers.
LEMMA OutcomeTyped ==
  ASSUME NEW error PROVE ClassifyProviderFailure(error).outcome \in Answers
  BY DEF ClassifyProviderFailure, Answers

\* The types of the variables that Goto, Return and Throw assign.
ControlTypeOK ==
  /\ pc \in [Executions -> Steps]
  /\ answer \in [Executions -> Answers]
  /\ returned \in [Executions -> Executions \cup {NoTransaction}]

\* Going to the next await keeps the control variables well typed.
LEMMA GotoTyped ==
  ASSUME TypeOK, NEW e \in Executions, NEW step \in Steps, Goto(e, step)
  PROVE  ControlTypeOK'
  BY DEF TypeOK, Goto, ControlTypeOK

\* So does returning a transaction,
LEMMA ReturnTyped ==
  ASSUME TypeOK, NEW e \in Executions, NEW how \in Answers,
         NEW id \in Executions \cup {NoTransaction}, Return(e, how, id)
  PROVE  ControlTypeOK'
  BY DEF TypeOK, Return, ControlTypeOK, Steps

\* and throwing an error.
LEMMA ThrowTyped ==
  ASSUME TypeOK, NEW e \in Executions, NEW how \in Answers, Throw(e, how)
  PROVE  ControlTypeOK'
  BY DEF TypeOK, Throw, ControlTypeOK, Steps

\* new_claim keeps the control variables and the loop counter well typed.
LEMMA NewClaimTyped ==
  ASSUME TypeOK, NEW e \in Executions, NewClaim(e)
  PROVE  ControlTypeOK' /\ attempt' \in [Executions -> Nat]
  <1>1. "provider" \in Steps /\ "internal_error" \in Answers
    BY DEF Steps, HeldSteps, Answers
  <1> QED
    BY <1>1, GotoTyped, ThrowTyped DEF NewClaim, TypeOK

\* INSERT of a claim keeps the tables well typed.
LEMMA InsertRowTyped ==
  ASSUME TablesTypeOK, NEW k \in Keys, NEW f \in Fingerprints, NEW at \in Nat,
         InsertRow(k, f, at)
  PROVE  TablesTypeOK'
  <1>1. ClaimedRow(f, at) \in Operation
    BY DEF ClaimedRow, Operation, OperationStatus
  <1> QED
    BY <1>1 DEF TablesTypeOK, InsertRow

\* So does the UPDATE of a reclaim,
LEMMA ReclaimRowTyped ==
  ASSUME TablesTypeOK, NEW k \in Keys, NEW at \in Nat,
         operations[k] # NoOperation, ReclaimRow(k, at)
  PROVE  TablesTypeOK'
  <1>1. operations[k] \in Operation
    BY DEF TablesTypeOK
  <1>2. [operations[k] EXCEPT !.updatedAt = at] \in Operation
    BY <1>1 DEF Operation
  <1> QED
    BY <1>2 DEF TablesTypeOK, ReclaimRow

\* the DELETE of a release,
LEMMA DeleteRowTyped ==
  ASSUME TablesTypeOK, NEW k \in Keys, operations[k] # NoOperation, DeleteRow(k)
  PROVE  TablesTypeOK'
  <1>1. operations[k].fingerprint \in Fingerprints
    BY DEF TablesTypeOK, Operation
  <1> QED
    BY <1>1 DEF TablesTypeOK, DeleteRow

\* and the two writes of a completion.
LEMMA CommitTyped ==
  ASSUME TablesTypeOK, NEW k \in Keys, NEW id \in TransactionIds, NEW row \in Transaction,
         NEW at \in Nat, operations[k] # NoOperation, CommitCompletion(k, id, row, at)
  PROVE  TablesTypeOK'
  <1>1. operations[k] \in Operation
    BY DEF TablesTypeOK
  <1>2. [fingerprint |-> operations[k].fingerprint, status |-> "completed",
         transaction |-> id, createdAt |-> operations[k].createdAt,
         updatedAt |-> at] \in Operation
    BY <1>1 DEF Operation, OperationStatus
  <1> QED
    BY <1>2 DEF TablesTypeOK, CommitCompletion

\* process throws: the control variables stay well typed.
LEMMA ProviderThrowsTyped ==
  ASSUME TypeOK, NEW e \in Executions, NEW error, ProviderThrows(e, error)
  PROVE  ControlTypeOK'
  <1> DEFINE out == ClassifyProviderFailure(error).outcome
  <1>1. out \in Answers
    BY OutcomeTyped
  <1> HIDE DEF out
  <1>2. CASE Throw(e, out)
    BY <1>1, <1>2, ThrowTyped
  <1>3. CASE /\ pc' = [pc EXCEPT ![e] = "release"]
             /\ answer' = [answer EXCEPT ![e] = out]
             /\ UNCHANGED returned
    BY <1>1, <1>3 DEF TypeOK, Steps, HeldSteps, ControlTypeOK
  <1> QED
    BY <1>2, <1>3 DEF ProviderThrows, out

\* A charge keeps the provider's memory well typed.
LEMMA ChargeTyped ==
  ASSUME approved \in [Keys -> Fingerprints \cup {NoResult}],
         NEW k \in Keys, NEW f \in Fingerprints, Charge(k, f)
  PROVE  /\ approved' \in [Keys -> Fingerprints \cup {NoResult}]
         /\ approved'[k] # NoResult
         /\ \A j \in Keys : approved[j] # NoResult => approved'[j] = approved[j]
  BY ResultsAssumption DEF Charge

\* Every step keeps the types, given that a completing execution has a result.
LEMMA NextTyped ==
  ASSUME TypeOK, CompletionHasResult, [Next]_vars
  PROVE  TypeOK'
  <1> USE DEF tables, provider
  <1>1. ASSUME NEW e \in Executions, Execute(e) PROVE TypeOK'
    BY <1>1 DEF Execute, Goto, TypeOK, TablesTypeOK, Steps, ClaimSteps
  <1>2. ASSUME NEW e \in Executions, InsertOperation(e) PROVE TypeOK'
    <2>1. ControlTypeOK' /\ attempt' \in [Executions -> Nat]
      <3>1. CASE NewClaim(e)
        BY <3>1, NewClaimTyped
      <3>2. CASE Goto(e, "reclaim") /\ UNCHANGED attempt
        BY <3>2, GotoTyped DEF Steps, ClaimSteps, TypeOK
      <3> QED
        BY <1>2, <3>1, <3>2 DEF InsertOperation
    <2>2. TablesTypeOK'
      <3>1. CASE InsertRow(Key(e), Fingerprint(e), ClaimedAt(e))
        BY <3>1, RequestTyped, InsertRowTyped DEF TypeOK
      <3>2. CASE UNCHANGED tables
        BY <3>2 DEF TypeOK, TablesTypeOK
      <3> QED
        BY <1>2, <3>1, <3>2 DEF InsertOperation
    <2> QED
      BY <1>2, <2>1, <2>2 DEF InsertOperation, TypeOK, ControlTypeOK
  <1>3. ASSUME NEW e \in Executions, ReclaimOperation(e) PROVE TypeOK'
    <2>1. ControlTypeOK' /\ attempt' \in [Executions -> Nat]
      <3>1. CASE NewClaim(e)
        BY <3>1, NewClaimTyped
      <3>2. CASE Goto(e, "select") /\ UNCHANGED attempt
        BY <3>2, GotoTyped DEF Steps, ClaimSteps, TypeOK
      <3> QED
        BY <1>3, <3>1, <3>2 DEF ReclaimOperation
    <2>2. TablesTypeOK'
      <3>1. CASE /\ operations[Key(e)] # NoOperation
                 /\ ReclaimRow(Key(e), ClaimedAt(e))
        BY <3>1, RequestTyped, ReclaimRowTyped DEF TypeOK
      <3>2. CASE UNCHANGED tables
        BY <3>2 DEF TypeOK, TablesTypeOK
      <3> QED
        BY <1>3, <3>1, <3>2 DEF ReclaimOperation, Reclaimable, ProcessingRow
    <2> QED
      BY <1>3, <2>1, <2>2 DEF ReclaimOperation, TypeOK, ControlTypeOK
  <1>4. ASSUME NEW e \in Executions, SelectOperation(e) PROVE TypeOK'
    <2>1. operations[Key(e)] # NoOperation =>
            operations[Key(e)].transaction \in Executions \cup {NoTransaction}
      BY RequestTyped, ExecutionsAssumption DEF TypeOK, TablesTypeOK, Operation
    <2>2. {"replay", "conflict", "in_progress", "internal_error"} \subseteq Answers
      BY DEF Answers
    <2>3. ControlTypeOK' /\ attempt' \in [Executions -> Nat]
      <3>1. CASE RetryClaim(e)
        BY <2>2, <3>1, GotoTyped, ThrowTyped DEF RetryClaim, Steps, ClaimSteps, TypeOK
      <3>2. CASE UNCHANGED attempt /\ (Throw(e, "conflict") \/ Throw(e, "in_progress"))
        BY <2>2, <3>2, ThrowTyped DEF TypeOK
      <3>3. CASE /\ UNCHANGED attempt
                 /\ operations[Key(e)] # NoOperation
                 /\ Return(e, "replay", operations[Key(e)].transaction)
        BY <2>1, <2>2, <3>3, ReturnTyped DEF TypeOK
      <3> QED
        BY <1>4, <3>1, <3>2, <3>3 DEF SelectOperation
    <2> QED
      BY <1>4, <2>3 DEF SelectOperation, TypeOK, TablesTypeOK, ControlTypeOK
  <1>5. ASSUME NEW e \in Executions, CircuitRefuses(e) PROVE TypeOK'
    BY <1>5, ProviderThrowsTyped DEF CircuitRefuses, TypeOK, TablesTypeOK,
       ControlTypeOK
  <1>6. ASSUME NEW e \in Executions, AttemptApproved(e) PROVE TypeOK'
    <2>1. approved' \in [Keys -> Fingerprints \cup {NoResult}]
      BY <1>6, RequestTyped, ChargeTyped DEF AttemptApproved, TypeOK
    <2>2. completedAt' \in [Executions -> Nat]
      BY <1>6, TimingAssumption DEF AttemptApproved, TypeOK
    <2> QED
      BY <1>6, <2>1, <2>2 DEF AttemptApproved, Goto, TypeOK, TablesTypeOK, Steps, HeldSteps
  <1>7. ASSUME NEW e \in Executions, NEW error, AttemptFails(e, error) PROVE TypeOK'
    <2>1. late' \subseteq Keys \X Fingerprints
      BY <1>7, RequestTyped DEF AttemptFails, TypeOK
    <2>2. CASE ProviderThrows(e, error) /\ UNCHANGED attempt
      BY <1>7, <2>1, <2>2, ProviderThrowsTyped
         DEF AttemptFails, TypeOK, TablesTypeOK, ControlTypeOK
    <2>3. CASE /\ attempt' = [attempt EXCEPT ![e] = attempt[e] + 1]
               /\ UNCHANGED <<pc, answer, returned>>
      BY <1>7, <2>1, <2>3 DEF AttemptFails, TypeOK, TablesTypeOK
    <2> QED
      BY <1>7, <2>2, <2>3 DEF AttemptFails
  <1>8. ASSUME NEW e \in Executions, ReleaseOperation(e) PROVE TypeOK'
    <2>1. TablesTypeOK'
      <3>1. CASE /\ operations[Key(e)] # NoOperation
                 /\ DeleteRow(Key(e))
        BY <3>1, RequestTyped, DeleteRowTyped DEF TypeOK
      <3>2. CASE UNCHANGED tables
        BY <3>2 DEF TypeOK, TablesTypeOK
      <3> QED
        BY <1>8, <3>1, <3>2 DEF ReleaseOperation, Releasable, ProcessingRow
    <2> QED
      BY <1>8, <2>1 DEF ReleaseOperation, Throw, TypeOK, Steps, Answers
  <1>9. ASSUME NEW e \in Executions, CompleteOperation(e) PROVE TypeOK'
    <2>1. BuiltTransaction(e) \in Transaction
      BY <1>9, RequestTyped DEF CompleteOperation, CompletionHasResult, BuiltTransaction,
         Transaction, TypeOK
    <2>2. TablesTypeOK'
      <3>1. CASE /\ operations[Key(e)] # NoOperation
                 /\ CommitCompletion(Key(e), e, BuiltTransaction(e), completedAt[e])
        BY <2>1, <3>1, RequestTyped, CommitTyped, ExecutionsAssumption DEF TypeOK
      <3>2. CASE UNCHANGED tables
        BY <3>2 DEF TypeOK, TablesTypeOK
      <3> QED
        BY <1>9, <3>1, <3>2 DEF CompleteOperation, Completable, ProcessingRow
    <2>3. ControlTypeOK'
      <3>1. "created" \in Answers /\ "internal_error" \in Answers
        BY DEF Answers
      <3> QED
        BY <1>9, <3>1, ReturnTyped, ThrowTyped DEF CompleteOperation
    <2> QED
      BY <1>9, <2>2, <2>3 DEF CompleteOperation, TypeOK, ControlTypeOK
  <1>10. ASSUME NEW e \in Executions, StatementFails(e) PROVE TypeOK'
    BY <1>10 DEF StatementFails, Throw, TypeOK, TablesTypeOK, Steps, Answers
  <1>11. ASSUME NEW e \in Executions, Crash(e) PROVE TypeOK'
    BY <1>11, RequestTyped DEF Crash, Throw, TypeOK, TablesTypeOK, Steps, Answers
  <1>12. ASSUME NEW k \in Keys, NEW f \in Fingerprints, LateRequestProcessed(k, f)
         PROVE  TypeOK'
    BY <1>12, ChargeTyped DEF LateRequestProcessed, TypeOK, TablesTypeOK
  <1>13. CASE Tick
    BY <1>13 DEF Tick, TypeOK, TablesTypeOK
  <1>14. CASE UNCHANGED vars
    BY <1>14 DEF vars, TypeOK, TablesTypeOK
  <1> QED
    BY <1>1, <1>2, <1>3, <1>4, <1>5, <1>6, <1>7, <1>8, <1>9, <1>10, <1>11, <1>12,
       <1>13, <1>14 DEF Next, Step, Quiescent

--------------------------------------------------------------------------------
(* The store: transactions, completed operations and answers agree.           *)

\* The claim of a key may change only while the key is not completed.
CompletedUntouched ==
  /\ transactions' = transactions
  /\ \A k \in Keys : (Completed(k) \/ Completed(k)') => operations'[k] = operations[k]

\* A step that touches no completed operation, no transaction and no answer keeps
\* the store's invariant.
LEMMA QuietStepKeepsStore ==
  ASSUME StoreInvariant, TypeOK', request' = request, CompletedUntouched,
         returned' = returned,
         \A e \in Executions : pc'[e] # "done" => pc[e] # "done",
         CompletionHasResult'
  PROVE  StoreInvariant'
  <1>1. TransactionsAreCompletions'
    <2>1. ASSUME NEW e \in Executions, transactions'[e] # NoTransaction
          PROVE  CompletedBy(Key(e), e)' /\ transactions'[e].fingerprint = Fingerprint(e)'
      <3>1. CompletedBy(Key(e), e) /\ transactions[e].fingerprint = Fingerprint(e)
        BY <2>1 DEF StoreInvariant, TransactionsAreCompletions, CompletedUntouched
      <3>2. Key(e) \in Keys
        BY RequestTyped DEF StoreInvariant
      <3>3. operations'[Key(e)] = operations[Key(e)]
        BY <3>1, <3>2 DEF CompletedBy, CompletedUntouched
      <3> QED
        BY <3>1, <3>3 DEF CompletedBy, Completed, Key, Fingerprint, CompletedUntouched
    <2>2. ASSUME NEW k \in Keys, Completed(k)'
          PROVE  \E e \in Executions : /\ Key(e)' = k
                                       /\ CompletedBy(k, e)'
                                       /\ transactions'[e] # NoTransaction
      <3>1. operations'[k] = operations[k] /\ Completed(k)
        BY <2>2 DEF CompletedUntouched, Completed
      <3>2. PICK e \in Executions : /\ Key(e) = k
                                    /\ CompletedBy(k, e)
                                    /\ transactions[e] # NoTransaction
        BY <3>1 DEF StoreInvariant, TransactionsAreCompletions
      <3> QED
        BY <3>1, <3>2 DEF CompletedBy, Completed, Key, Fingerprint, CompletedUntouched
    <2> QED
      BY <2>1, <2>2 DEF TransactionsAreCompletions
  <1>2. AnswersAgree'
    <2> SUFFICES ASSUME NEW e \in Executions, returned'[e] # NoTransaction
                 PROVE  /\ Completed(Key(e))'
                        /\ operations'[Key(e)'] = operations[Key(e)]
                        /\ operations[Key(e)].transaction = returned[e]
                        /\ transactions[returned[e]] # NoTransaction
                        /\ transactions[returned[e]].fingerprint = Fingerprint(e)
      BY DEF AnswersAgree, CompletedUntouched, Fingerprint
    <2>1. /\ Completed(Key(e))
          /\ operations[Key(e)].transaction = returned[e]
          /\ transactions[returned[e]] # NoTransaction
          /\ transactions[returned[e]].fingerprint = Fingerprint(e)
      BY DEF StoreInvariant, AnswersAgree
    <2>2. Key(e) \in Keys /\ Key(e)' = Key(e)
      BY RequestTyped DEF StoreInvariant, Key
    <2>3. operations'[Key(e)] = operations[Key(e)]
      BY <2>1, <2>2 DEF CompletedUntouched
    <2> QED
      BY <2>1, <2>2, <2>3 DEF Completed
  <1>3. RunningIsFresh'
    BY DEF StoreInvariant, RunningIsFresh, CompletedUntouched
  <1> QED
    BY <1>1, <1>2, <1>3 DEF StoreInvariant

\* Unchanged tables touch nothing.
LEMMA UnchangedTablesUntouched ==
  ASSUME UNCHANGED tables PROVE CompletedUntouched
  BY DEF CompletedUntouched, tables

\* A claim inserts where there was no row, so it touches no completed operation.
LEMMA InsertUntouched ==
  ASSUME TypeOK, NEW k \in Keys, NEW f \in Fingerprints, NEW at \in Nat,
         operations[k] = NoOperation, InsertRow(k, f, at)
  PROVE  CompletedUntouched
  BY DEF InsertRow, CompletedUntouched, Completed, ClaimedRow, TypeOK, TablesTypeOK

\* A reclaim moves the stamp of a processing row only.
LEMMA ReclaimUntouched ==
  ASSUME TypeOK, NEW k \in Keys, NEW f, NEW at \in Nat,
         ProcessingRow(k, f), ReclaimRow(k, at)
  PROVE  CompletedUntouched
  <1>1. operations[k] \in Operation /\ operations[k].status = "processing"
    BY DEF ProcessingRow, TypeOK, TablesTypeOK
  <1>2. operations'[k].status = "processing"
    BY <1>1 DEF ReclaimRow, TypeOK, TablesTypeOK, Operation
  <1>3. \A j \in Keys : j # k => operations'[j] = operations[j]
    BY DEF ReclaimRow, TypeOK, TablesTypeOK
  <1>4. ~Completed(k) /\ ~Completed(k)'
    BY <1>1, <1>2 DEF Completed
  <1>5. transactions' = transactions
    BY DEF ReclaimRow
  <1> QED
    BY <1>3, <1>4, <1>5 DEF CompletedUntouched

\* A release deletes a processing row only.
LEMMA ReleaseUntouched ==
  ASSUME TypeOK, NEW k \in Keys, NEW f, ProcessingRow(k, f), DeleteRow(k)
  PROVE  CompletedUntouched
  BY DEF ProcessingRow, DeleteRow, CompletedUntouched, Completed, TypeOK, TablesTypeOK

\* The initial tables are empty and nothing has been answered.
LEMMA InitEstablishesStore == Init => StoreInvariant
  BY ExecutionsAssumption, TimingAssumption
  DEF Init, EmptyTables, StoreInvariant, TypeOK, TablesTypeOK, Steps, Answers,
      TransactionsAreCompletions, AnswersAgree, RunningIsFresh, CompletionHasResult,
      Completed, CompletedBy

\* The completion of e, committed: e's key had no transaction, and now has e's.
LEMMA CommitKeepsStore ==
  ASSUME StoreInvariant, TypeOK', NEW e \in Executions, CompleteOperation(e),
         Completable(Key(e), Fingerprint(e), completedAt[e])
  PROVE  StoreInvariant'
  <1> DEFINE k == Key(e)
  <1>1. k \in Keys /\ TypeOK
    BY RequestTyped DEF StoreInvariant
  <1>2. /\ transactions' = [transactions EXCEPT ![e] = BuiltTransaction(e)]
        /\ operations'[k] = [fingerprint |-> operations[k].fingerprint,
                             status |-> "completed", transaction |-> e,
                             createdAt |-> operations[k].createdAt,
                             updatedAt |-> completedAt[e]]
        /\ \A j \in Keys : j # k => operations'[j] = operations[j]
        /\ request' = request
    BY <1>1 DEF CompleteOperation, CommitCompletion, TypeOK, TablesTypeOK
  <1>3. /\ ~Completed(k)
        /\ operations[k].fingerprint = Fingerprint(e)
        /\ pc[e] = "complete"
        /\ returned[e] = NoTransaction
    BY DEF CompleteOperation, Completable, ProcessingRow, Completed, StoreInvariant,
       RunningIsFresh
  <1>4. /\ pc' = [pc EXCEPT ![e] = "done"]
        /\ \/ returned' = returned
           \/ returned' = [returned EXCEPT ![e] = e]
    BY DEF CompleteOperation, Return, Throw
  <1>5. \A d \in Executions : Key(d)' = Key(d) /\ Fingerprint(d)' = Fingerprint(d)
    BY <1>2 DEF Key, Fingerprint
  <1>6. CompletedBy(k, e)'
    <2>1. Completed(k)'
      <3>1. operations'[k] # NoOperation
        <4>1. operations[k] \in Operation
          BY <1>1 DEF Completable, ProcessingRow, TypeOK, TablesTypeOK, CompleteOperation
        <4>2. completedAt[e] \in Nat
          BY <1>1, RequestTyped
        <4> QED
          BY <1>2, <4>1, <4>2, NullsAssumption, ExecutionsAssumption
             DEF Operation, OperationStatus
      <3> QED
        BY <1>2, <1>5, <3>1 DEF Completed
    <2> QED
      BY <1>2, <1>3, <1>5, <2>1 DEF CompletedBy
  <1>7. transactions'[e] # NoTransaction /\ transactions'[e].fingerprint = Fingerprint(e)
    <2>1. transactions'[e] = BuiltTransaction(e)
      BY <1>1, <1>2, ExecutionsAssumption DEF TypeOK, TablesTypeOK
    <2>2. BuiltTransaction(e) \in Transaction
      BY <1>1, <1>3, RequestTyped
         DEF StoreInvariant, CompletionHasResult, BuiltTransaction, Transaction, TypeOK
    <2> QED
      BY <2>1, <2>2, NullsAssumption DEF BuiltTransaction
  <1>8. ASSUME NEW d \in Executions, Key(d) = k
        PROVE  transactions[d] = NoTransaction /\ returned[d] = NoTransaction
    BY <1>3, <1>8 DEF StoreInvariant, TransactionsAreCompletions, AnswersAgree, CompletedBy
  <1>9. ASSUME NEW d \in Executions, d # e PROVE transactions'[d] = transactions[d]
    BY <1>1, <1>2, <1>9, ExecutionsAssumption DEF TypeOK, TablesTypeOK
  <1>10. \A j \in Keys : j # k => (Completed(j)' <=> Completed(j))
    BY <1>2 DEF Completed
  <1>11. TransactionsAreCompletions'
    <2>1. ASSUME NEW d \in Executions, transactions'[d] # NoTransaction
          PROVE  CompletedBy(Key(d), d)' /\ transactions'[d].fingerprint = Fingerprint(d)'
      <3>1. CASE d = e
        BY <1>5, <1>6, <1>7, <3>1 DEF CompletedBy, Completed
      <3>2. CASE d # e
        <4>1. transactions[d] # NoTransaction /\ Key(d) # k /\ Key(d) \in Keys
          BY <1>1, <1>8, <1>9, <2>1, <3>2, RequestTyped
        <4>2. CompletedBy(Key(d), d) /\ transactions[d].fingerprint = Fingerprint(d)
          BY <4>1 DEF StoreInvariant, TransactionsAreCompletions
        <4>3. operations'[Key(d)] = operations[Key(d)]
          BY <1>2, <4>1
        <4> QED
          BY <1>5, <1>9, <3>2, <4>2, <4>3 DEF CompletedBy, Completed
      <3> QED
        BY <3>1, <3>2
    <2>2. ASSUME NEW j \in Keys, Completed(j)'
          PROVE  \E d \in Executions : /\ Key(d)' = j
                                       /\ CompletedBy(j, d)'
                                       /\ transactions'[d] # NoTransaction
      <3>1. CASE j = k
        BY <1>5, <1>6, <1>7, <3>1
      <3>2. CASE j # k
        <4>1. PICK d \in Executions : /\ Key(d) = j
                                      /\ CompletedBy(j, d)
                                      /\ transactions[d] # NoTransaction
          BY <1>10, <2>2, <3>2 DEF StoreInvariant, TransactionsAreCompletions
        <4>2. d # e /\ operations'[j] = operations[j]
          BY <1>2, <3>2, <4>1
        <4> QED
          BY <1>5, <1>9, <4>1, <4>2 DEF CompletedBy, Completed
      <3> QED
        BY <3>1, <3>2
    <2> QED
      BY <2>1, <2>2 DEF TransactionsAreCompletions
  <1>12. AnswersAgree'
    <2> SUFFICES ASSUME NEW d \in Executions, returned'[d] # NoTransaction
                 PROVE  /\ Completed(Key(d))'
                        /\ operations'[Key(d)].transaction = returned'[d]
                        /\ transactions'[returned'[d]] # NoTransaction
                        /\ transactions'[returned'[d]].fingerprint = Fingerprint(d)
      BY <1>5 DEF AnswersAgree
    <2>1. CASE d = e
      <3>1. returned'[e] = e
        BY <1>1, <1>3, <1>4, <2>1 DEF TypeOK
      <3> QED
        BY <1>2, <1>5, <1>6, <1>7, <2>1, <3>1 DEF CompletedBy, Completed
    <2>2. CASE d # e
      <3>1. returned'[d] = returned[d]
        BY <1>1, <1>4, <2>2 DEF TypeOK
      <3>2. /\ Completed(Key(d))
            /\ operations[Key(d)].transaction = returned[d]
            /\ transactions[returned[d]] # NoTransaction
            /\ transactions[returned[d]].fingerprint = Fingerprint(d)
        BY <3>1 DEF StoreInvariant, AnswersAgree
      <3>3. Key(d) # k /\ Key(d) \in Keys
        BY <1>1, <1>3, <3>2, RequestTyped
      <3>4. returned[d] # e /\ returned[d] \in Executions
        <4>1. transactions[e] = NoTransaction
          BY <1>8
        <4>2. returned[d] \in Executions
          BY <1>1, <3>1 DEF TypeOK
        <4> QED
          BY <3>2, <4>1, <4>2
      <3> QED
        BY <1>2, <1>5, <1>9, <3>1, <3>2, <3>3, <3>4 DEF Completed
    <2> QED
      BY <2>1, <2>2
  <1>13. RunningIsFresh'
    <2> SUFFICES ASSUME NEW d \in Executions, pc'[d] # "done"
                 PROVE  returned'[d] = NoTransaction /\ transactions'[d] = NoTransaction
      BY DEF RunningIsFresh
    <2>1. d # e /\ pc[d] # "done" /\ returned'[d] = returned[d]
      BY <1>1, <1>4 DEF TypeOK
    <2> QED
      BY <1>9, <2>1 DEF StoreInvariant, RunningIsFresh
  <1>14. CompletionHasResult'
    <2>1. \A d \in Executions : pc'[d] = "complete" => pc[d] = "complete"
      BY <1>1, <1>4 DEF TypeOK
    <2>2. approved' = approved
      BY DEF CompleteOperation, provider
    <2> QED
      BY <1>5, <2>1, <2>2 DEF StoreInvariant, CompletionHasResult
  <1> QED
    BY <1>11, <1>12, <1>13, <1>14 DEF StoreInvariant

\* Every step keeps the store's invariant.
LEMMA NextKeepsStore ==
  ASSUME StoreInvariant, [Next]_vars PROVE StoreInvariant'
  <1>1. TypeOK /\ TypeOK' /\ CompletionHasResult
    BY NextTyped DEF StoreInvariant
  <1> DEFINE Quiet == /\ request' = request
                      /\ CompletedUntouched
                      /\ returned' = returned
                      /\ \A d \in Executions : pc'[d] # "done" => pc[d] # "done"
                      /\ CompletionHasResult'
  <1>2. Quiet => StoreInvariant'
    BY <1>1, QuietStepKeepsStore
  <1>3. ASSUME NEW e \in Executions, UNCHANGED <<request, approved>>,
               \A d \in Executions : pc'[d] = "complete" => pc[d] = "complete"
        PROVE  CompletionHasResult'
    BY <1>1, <1>3 DEF CompletionHasResult, Key
  <1>4. ASSUME NEW e \in Executions, Execute(e) PROVE StoreInvariant'
    <2>1. Quiet
      BY <1>1, <1>3, <1>4, UnchangedTablesUntouched DEF Execute, Goto, TypeOK, provider
    <2> QED
      BY <1>2, <2>1
  <1>5. ASSUME NEW e \in Executions, InsertOperation(e) PROVE StoreInvariant'
    <2>1. CompletedUntouched
      BY <1>1, <1>5, RequestTyped, InsertUntouched, UnchangedTablesUntouched
         DEF InsertOperation
    <2>2. \E step \in {"provider", "reclaim", "done"} : pc' = [pc EXCEPT ![e] = step]
      BY <1>5 DEF InsertOperation, NewClaim, Goto, Throw
    <2>3. returned' = returned /\ pc[e] = "insert" /\ UNCHANGED <<request, approved>>
      BY <1>5 DEF InsertOperation, NewClaim, Goto, Throw, provider
    <2>4. Quiet
      BY <1>1, <1>3, <2>1, <2>2, <2>3 DEF TypeOK
    <2> QED
      BY <1>2, <2>4
  <1>6. ASSUME NEW e \in Executions, ReclaimOperation(e) PROVE StoreInvariant'
    <2>1. CompletedUntouched
      BY <1>1, <1>6, RequestTyped, ReclaimUntouched, UnchangedTablesUntouched
         DEF ReclaimOperation, Reclaimable
    <2>2. \E step \in {"provider", "select", "done"} : pc' = [pc EXCEPT ![e] = step]
      BY <1>6 DEF ReclaimOperation, NewClaim, Goto, Throw
    <2>3. returned' = returned /\ pc[e] = "reclaim" /\ UNCHANGED <<request, approved>>
      BY <1>6 DEF ReclaimOperation, NewClaim, Goto, Throw, provider
    <2>4. Quiet
      BY <1>1, <1>3, <2>1, <2>2, <2>3 DEF TypeOK
    <2> QED
      BY <1>2, <2>4
  <1>7. ASSUME NEW e \in Executions, SelectOperation(e) PROVE StoreInvariant'
    <2>1. CompletedUntouched
      BY <1>7, UnchangedTablesUntouched DEF SelectOperation
    <2>2. pc[e] = "select" /\ UNCHANGED <<request, approved, operations, transactions>>
      BY <1>7 DEF SelectOperation, provider, tables
    <2>3. CASE /\ returned' = returned
               /\ \E step \in {"insert", "done"} : pc' = [pc EXCEPT ![e] = step]
      <3>1. Quiet
        BY <1>1, <1>3, <2>1, <2>2, <2>3 DEF TypeOK
      <3> QED
        BY <1>2, <3>1
    <2>4. CASE /\ Completed(Key(e))
               /\ operations[Key(e)].fingerprint = Fingerprint(e)
               /\ Return(e, "replay", operations[Key(e)].transaction)
      <3>1. /\ pc' = [pc EXCEPT ![e] = "done"]
            /\ returned' = [returned EXCEPT ![e] = operations[Key(e)].transaction]
        BY <2>4 DEF Return
      <3>2. PICK d \in Executions : /\ Key(d) = Key(e)
                                    /\ CompletedBy(Key(e), d)
                                    /\ transactions[d] # NoTransaction
        BY <1>1, <2>4, RequestTyped DEF StoreInvariant, TransactionsAreCompletions
      <3>3. transactions[d].fingerprint = Fingerprint(e) /\ returned'[e] = d
        BY <1>1, <2>4, <3>1, <3>2
           DEF StoreInvariant, TransactionsAreCompletions, CompletedBy, TypeOK
      <3>4. \A c \in Executions : c # e => returned'[c] = returned[c]
        BY <1>1, <3>1 DEF TypeOK
      <3>5. AnswersAgree'
        BY <2>2, <2>4, <3>2, <3>3, <3>4
           DEF StoreInvariant, AnswersAgree, CompletedBy, Completed, Key, Fingerprint
      <3>6. TransactionsAreCompletions'
        BY <2>2 DEF StoreInvariant, TransactionsAreCompletions, CompletedBy, Completed,
           Key, Fingerprint
      <3>7. RunningIsFresh'
        BY <1>1, <2>2, <3>1, <3>4 DEF StoreInvariant, RunningIsFresh, TypeOK
      <3>8. CompletionHasResult'
        BY <1>1, <1>3, <2>2, <3>1 DEF TypeOK
      <3> QED
        BY <1>1, <3>5, <3>6, <3>7, <3>8 DEF StoreInvariant
    <2> QED
      BY <1>7, <2>3, <2>4 DEF SelectOperation, RetryClaim, Goto, Throw, Completed
  <1>8. ASSUME NEW e \in Executions, NEW error,
               \/ CircuitRefuses(e)
               \/ AttemptFails(e, error)
        PROVE  StoreInvariant'
    <2>1. /\ CompletedUntouched
          /\ UNCHANGED <<request, approved>>
      BY <1>8, UnchangedTablesUntouched DEF CircuitRefuses, AttemptFails, provider
    <2>2. /\ pc[e] = "provider"
          /\ returned' = returned
          /\ \E step \in {"provider", "release", "done"} : pc' = [pc EXCEPT ![e] = step]
      BY <1>1, <1>8 DEF CircuitRefuses, AttemptFails, ProviderThrows, Throw, TypeOK
    <2>3. Quiet
      BY <1>1, <1>3, <2>1, <2>2 DEF TypeOK
    <2> QED
      BY <1>2, <2>3
  <1>9. ASSUME NEW e \in Executions, AttemptApproved(e) PROVE StoreInvariant'
    <2>1. /\ CompletedUntouched
          /\ request' = request
          /\ returned' = returned
          /\ pc[e] = "provider"
          /\ pc' = [pc EXCEPT ![e] = "complete"]
      BY <1>9, UnchangedTablesUntouched DEF AttemptApproved, Goto
    <2>2. /\ approved'[Key(e)] # NoResult
          /\ \A j \in Keys : approved[j] # NoResult => approved'[j] # NoResult
      BY <1>1, <1>9, RequestTyped, ChargeTyped DEF AttemptApproved, TypeOK
    <2>3. CompletionHasResult'
      <3> SUFFICES ASSUME NEW d \in Executions, pc'[d] = "complete"
                   PROVE  approved'[Key(d)] # NoResult
        BY <2>1 DEF CompletionHasResult, Key
      <3>1. CASE d = e
        BY <2>2, <3>1
      <3>2. CASE d # e
        <4>1. pc[d] = "complete"
          BY <1>1, <2>1, <3>2 DEF TypeOK
        <4> QED
          BY <1>1, <2>2, <4>1, RequestTyped DEF CompletionHasResult
      <3> QED
        BY <3>1, <3>2
    <2>4. Quiet
      BY <1>1, <2>1, <2>3 DEF TypeOK
    <2> QED
      BY <1>2, <2>4
  <1>10. ASSUME NEW e \in Executions, ReleaseOperation(e) PROVE StoreInvariant'
    <2>1. CompletedUntouched
      BY <1>1, <1>10, RequestTyped, ReleaseUntouched, UnchangedTablesUntouched
         DEF ReleaseOperation, Releasable
    <2>2. Quiet
      BY <1>1, <1>3, <1>10, <2>1 DEF ReleaseOperation, Throw, TypeOK, provider
    <2> QED
      BY <1>2, <2>2
  <1>11. ASSUME NEW e \in Executions, CompleteOperation(e) PROVE StoreInvariant'
    <2>1. CASE Completable(Key(e), Fingerprint(e), completedAt[e])
      BY <1>1, <1>11, <2>1, CommitKeepsStore
    <2>2. CASE ~Completable(Key(e), Fingerprint(e), completedAt[e])
      <3>1. Quiet
        BY <1>1, <1>3, <1>11, <2>2, UnchangedTablesUntouched
           DEF CompleteOperation, Throw, TypeOK, provider
      <3> QED
        BY <1>2, <3>1
    <2> QED
      BY <2>1, <2>2
  <1>12. ASSUME NEW e \in Executions, StatementFails(e) \/ Crash(e) PROVE StoreInvariant'
    <2>1. Quiet
      BY <1>1, <1>3, <1>12, UnchangedTablesUntouched
         DEF StatementFails, Crash, Throw, TypeOK, provider
    <2> QED
      BY <1>2, <2>1
  <1>13. ASSUME NEW k \in Keys, NEW f \in Fingerprints, LateRequestProcessed(k, f)
         PROVE  StoreInvariant'
    <2>1. \A j \in Keys : approved[j] # NoResult => approved'[j] # NoResult
      BY <1>1, <1>13, ChargeTyped DEF LateRequestProcessed, TypeOK
    <2>2. request' = request /\ pc' = pc
      BY <1>13 DEF LateRequestProcessed
    <2>3. CompletionHasResult'
      BY <1>1, <2>1, <2>2, RequestTyped DEF CompletionHasResult, Key
    <2>4. Quiet
      BY <1>13, <2>2, <2>3, UnchangedTablesUntouched DEF LateRequestProcessed
    <2> QED
      BY <1>2, <2>4
  <1>14. CASE Tick \/ UNCHANGED vars
    <2>1. /\ UNCHANGED <<request, pc, returned, approved, tables>>
      BY <1>14 DEF Tick, vars, provider
    <2>2. Quiet
      BY <1>1, <2>1, UnchangedTablesUntouched DEF CompletionHasResult, Key
    <2> QED
      BY <1>2, <2>2
  <1> QED
    BY <1>4, <1>5, <1>6, <1>7, <1>8, <1>9, <1>10, <1>11, <1>12, <1>13, <1>14
       DEF Next, Step, Quiescent

\* The store is consistent in every reachable state, however executions overlap,
\* fail or crash.
THEOREM StoreIsConsistent == Spec => []StoreInvariant
  <1>1. Init => StoreInvariant
    BY InitEstablishesStore
  <1>2. StoreInvariant /\ [Next]_vars => StoreInvariant'
    BY NextKeepsStore
  <1> QED
    BY <1>1, <1>2, PTL DEF Spec

\* However executions overlap, a key gets at most one Transaction, and the two
\* tables describe each other.
THEOREM OneTransactionForEachKey ==
  Spec => [](TransactionsAreCompletions /\ OneTransactionPerKey)
  <1>1. StoreInvariant => TransactionsAreCompletions /\ OneTransactionPerKey
    <2> SUFFICES ASSUME StoreInvariant, NEW d \in Executions, NEW e \in Executions,
                        transactions[d] # NoTransaction,
                        transactions[e] # NoTransaction, Key(d) = Key(e)
                 PROVE  d = e
      BY DEF StoreInvariant, OneTransactionPerKey
    <2> QED
      BY DEF StoreInvariant, TransactionsAreCompletions, CompletedBy
  <1> QED
    BY <1>1, StoreIsConsistent, PTL

\* Every answer that carries a transaction, created or replayed, carries the one its
\* key still has.
THEOREM OneAnswerForEachKey == Spec => []AnswersAgree
  <1>1. StoreInvariant => AnswersAgree
    BY DEF StoreInvariant
  <1> QED
    BY <1>1, StoreIsConsistent, PTL

--------------------------------------------------------------------------------
(* The refinement of PaymentLedger.                                           *)

\* A key's outcome under the refinement mapping.
OutcomeOf(k) == IF Completed(k) THEN operations[k].transaction ELSE NoTransaction

\* A quiet step changes no outcome.
LEMMA QuietStepKeepsOutcomes ==
  ASSUME CompletedUntouched, NEW k \in Keys
  PROVE  OutcomeOf(k)' = OutcomeOf(k)
  BY DEF CompletedUntouched, OutcomeOf, Completed

\* What the ledger can see of a step: nothing, a replay or a committed completion.
InvisibleStep == request' = request /\ CompletedUntouched /\ returned' = returned

ReplayStep(e) ==
  /\ pc[e] = "select"
  /\ Completed(Key(e))
  /\ Return(e, "replay", operations[Key(e)].transaction)
  /\ UNCHANGED <<request, operations, transactions>>

CommitStep(e) ==
  CompleteOperation(e) /\ Completable(Key(e), Fingerprint(e), completedAt[e])

\* Every step is one of the three.
LEMMA StepsTheLedgerSees ==
  ASSUME TypeOK, [Next]_vars
  PROVE  InvisibleStep \/ \E e \in Executions : ReplayStep(e) \/ CommitStep(e)
  <1>1. ASSUME NEW e \in Executions, Execute(e) PROVE InvisibleStep
    BY <1>1, UnchangedTablesUntouched DEF Execute, Goto, InvisibleStep
  <1>2. ASSUME NEW e \in Executions, InsertOperation(e) PROVE InvisibleStep
    BY <1>2, RequestTyped, InsertUntouched, UnchangedTablesUntouched
       DEF InsertOperation, NewClaim, Goto, Throw, InvisibleStep
  <1>3. ASSUME NEW e \in Executions, ReclaimOperation(e) PROVE InvisibleStep
    BY <1>3, RequestTyped, ReclaimUntouched, UnchangedTablesUntouched
       DEF ReclaimOperation, Reclaimable, NewClaim, Goto, Throw, InvisibleStep
  <1>4. ASSUME NEW e \in Executions, SelectOperation(e)
        PROVE  InvisibleStep \/ ReplayStep(e)
    BY <1>4, UnchangedTablesUntouched
       DEF SelectOperation, RetryClaim, Goto, Throw, Completed, tables, InvisibleStep,
           ReplayStep
  <1>5. ASSUME NEW e \in Executions, CircuitRefuses(e) PROVE InvisibleStep
    BY <1>5, UnchangedTablesUntouched
       DEF CircuitRefuses, ProviderThrows, Throw, InvisibleStep
  <1>6. ASSUME NEW e \in Executions, NEW error, AttemptFails(e, error) PROVE InvisibleStep
    BY <1>6, UnchangedTablesUntouched
       DEF AttemptFails, ProviderThrows, Throw, InvisibleStep
  <1>7. ASSUME NEW e \in Executions, AttemptApproved(e) PROVE InvisibleStep
    BY <1>7, UnchangedTablesUntouched DEF AttemptApproved, Goto, InvisibleStep
  <1>8. ASSUME NEW e \in Executions, ReleaseOperation(e) PROVE InvisibleStep
    BY <1>8, RequestTyped, ReleaseUntouched, UnchangedTablesUntouched
       DEF ReleaseOperation, Releasable, Throw, InvisibleStep
  <1>9. ASSUME NEW e \in Executions, CompleteOperation(e)
        PROVE  InvisibleStep \/ CommitStep(e)
    BY <1>9, UnchangedTablesUntouched DEF CompleteOperation, Throw, InvisibleStep, CommitStep
  <1>10. ASSUME NEW e \in Executions, StatementFails(e) \/ Crash(e) PROVE InvisibleStep
    BY <1>10, UnchangedTablesUntouched DEF StatementFails, Crash, Throw, InvisibleStep
  <1>11. ASSUME NEW k \in Keys, NEW f \in Fingerprints, LateRequestProcessed(k, f)
         PROVE  InvisibleStep
    BY <1>11, UnchangedTablesUntouched DEF LateRequestProcessed, InvisibleStep
  <1>12. CASE Tick
    BY <1>12, UnchangedTablesUntouched DEF Tick, InvisibleStep
  <1>13. CASE UNCHANGED vars
    BY <1>13, UnchangedTablesUntouched DEF vars, InvisibleStep
  <1> QED
    BY <1>1, <1>2, <1>3, <1>4, <1>5, <1>6, <1>7, <1>8, <1>9, <1>10, <1>11, <1>12, <1>13
       DEF Next, Step, Quiescent

\* CreateTransaction implements PaymentLedger: only a committed completion settles
\* a key, only a replay answers with an earlier outcome, and every other step, a
\* release, a reclaim or a crash included, is invisible to the ledger.
THEOREM CreateTransactionImplementsLedger == Spec => ImplementsLedger
  <1>1. Init => Ledger!Init
    BY DEF Init, EmptyTables, Ledger!Init, Key, Completed
  <1>2. StoreInvariant /\ [Next]_vars => [Ledger!Next]_(Ledger!ledgerVars)
    <2> SUFFICES ASSUME StoreInvariant, [Next]_vars
                 PROVE  [Ledger!Next]_(Ledger!ledgerVars)
      OBVIOUS
    <2> DEFINE outcome == [k \in Keys |-> OutcomeOf(k)]
               keyOf == [e \in Executions |-> Key(e)]
    <2>1. TypeOK
      BY DEF StoreInvariant
    <2>2. CASE InvisibleStep
      <3>1. \A k \in Keys : OutcomeOf(k)' = OutcomeOf(k)
        BY <2>2, QuietStepKeepsOutcomes DEF InvisibleStep
      <3>2. outcome' = outcome /\ keyOf' = keyOf /\ returned' = returned
        BY <2>2, <3>1 DEF InvisibleStep, Key
      <3> QED
        BY <3>2 DEF Ledger!ledgerVars, OutcomeOf
    <2>3. ASSUME NEW e \in Executions, ReplayStep(e) PROVE Ledger!Replay(e)
      <3>1. /\ Key(e) \in Keys
            /\ UNCHANGED <<request, operations>>
            /\ returned' = [returned EXCEPT ![e] = operations[Key(e)].transaction]
        BY <2>1, <2>3, RequestTyped DEF ReplayStep, Return
      <3>2. returned[e] = NoTransaction
        BY <2>3 DEF ReplayStep, StoreInvariant, RunningIsFresh
      <3>3. PICK d \in Executions : CompletedBy(Key(e), d)
        BY <2>3, <3>1 DEF ReplayStep, StoreInvariant, TransactionsAreCompletions
      <3>4. OutcomeOf(Key(e)) = operations[Key(e)].transaction
            /\ OutcomeOf(Key(e)) # NoTransaction
        BY <3>3, NullsAssumption, ExecutionsAssumption DEF OutcomeOf, CompletedBy
      <3>5. outcome' = outcome /\ keyOf' = keyOf
        BY <3>1 DEF OutcomeOf, Completed, Key
      <3>6. keyOf[e] = Key(e) /\ outcome[keyOf[e]] = OutcomeOf(Key(e))
        BY <3>1
      <3>7. /\ outcome[keyOf[e]] # NoTransaction
            /\ returned[e] = NoTransaction
            /\ returned' = [returned EXCEPT ![e] = outcome[keyOf[e]]]
            /\ keyOf' = keyOf /\ outcome' = outcome
        BY <3>1, <3>2, <3>4, <3>5, <3>6
      <3> QED
        BY <3>7 DEF Ledger!Replay, OutcomeOf
    <2>4. ASSUME NEW e \in Executions, CommitStep(e) PROVE Ledger!Settle(e)
      <3>1. Key(e) \in Keys /\ request' = request
        BY <2>1, <2>4, RequestTyped DEF CommitStep, CompleteOperation
      <3>2. ~Completed(Key(e)) /\ pc[e] = "complete"
        BY <2>4 DEF CommitStep, CompleteOperation, Completable, ProcessingRow, Completed
      <3>3. StoreInvariant'
        BY NextKeepsStore
      <3>4. /\ operations'[Key(e)].status = "completed"
            /\ operations'[Key(e)].transaction = e
            /\ operations'[Key(e)] # NoOperation
            /\ \A j \in Keys : j # Key(e) => operations'[j] = operations[j]
        <4>1. /\ operations'[Key(e)] =
                   [fingerprint |-> operations[Key(e)].fingerprint,
                    status |-> "completed", transaction |-> e,
                    createdAt |-> operations[Key(e)].createdAt, updatedAt |-> completedAt[e]]
              /\ \A j \in Keys : j # Key(e) => operations'[j] = operations[j]
          BY <2>1, <2>4, <3>1
             DEF CommitStep, CompleteOperation, CommitCompletion, TypeOK, TablesTypeOK
        <4>2. operations[Key(e)] \in Operation /\ completedAt[e] \in Nat
          BY <2>1, <2>4, <3>1, RequestTyped
             DEF CommitStep, Completable, ProcessingRow, TypeOK, TablesTypeOK
        <4>3. operations'[Key(e)] \in Operation
          BY <4>1, <4>2, ExecutionsAssumption DEF Operation, OperationStatus
        <4> QED
          BY <4>1, <4>3, NullsAssumption
      <3>5. /\ OutcomeOf(Key(e)) = NoTransaction
            /\ \A j \in Keys : OutcomeOf(j)' = IF j = Key(e) THEN e ELSE OutcomeOf(j)
        BY <3>2, <3>4 DEF OutcomeOf, Completed
      <3>6. /\ returned[e] = NoTransaction
            /\ returned' = returned \/ returned' = [returned EXCEPT ![e] = e]
        BY <2>4, <3>2 DEF CommitStep, CompleteOperation, Return, Throw, StoreInvariant,
           RunningIsFresh
      <3>7. keyOf' = keyOf /\ keyOf[e] = Key(e)
        BY <3>1 DEF Key
      <3>8. outcome' = [outcome EXCEPT ![keyOf[e]] = e] /\ outcome[keyOf[e]] = NoTransaction
        BY <3>1, <3>5, <3>7
      <3> QED
        BY <3>6, <3>7, <3>8 DEF Ledger!Settle, OutcomeOf
    <2> QED
      BY <2>1, <2>2, <2>3, <2>4, StepsTheLedgerSees DEF Ledger!Next
  <1> QED
    BY <1>1, <1>2, StoreIsConsistent, PTL DEF Spec, Ledger!Spec, ImplementsLedger

--------------------------------------------------------------------------------
(* Payments and their records.                                                *)

\* An execution past the claim works on a payload that is on record.
HoldersAreRecorded ==
  \A e \in Executions : Holds(e) => Recorded(Key(e), Fingerprint(e))

\* The inductive invariant: what is charged, or may be, is what a holder asked for,
\* and a record is never lost.
AccountInvariant == HoldersAreRecorded /\ PaymentsAreAccountedFor

\* A record stays a record: a row changes its payload through a release only.
RecordsStay ==
  /\ released \subseteq released'
  /\ \A k \in Keys, f \in Fingerprints : Recorded(k, f) => Recorded(k, f)'

\* Unchanged tables lose no record,
LEMMA UnchangedTablesKeepRecords ==
  ASSUME UNCHANGED tables PROVE RecordsStay
  BY DEF RecordsStay, Recorded, tables

\* nor does a claim, which inserts where there was no row,
LEMMA InsertKeepsRecords ==
  ASSUME TypeOK, NEW k \in Keys, NEW f \in Fingerprints, NEW at \in Nat,
         operations[k] = NoOperation, InsertRow(k, f, at)
  PROVE  RecordsStay /\ Recorded(k, f)'
  <1>1. /\ operations'[k] = ClaimedRow(f, at)
        /\ \A j \in Keys : j # k => operations'[j] = operations[j]
        /\ released' = released
    BY DEF InsertRow, TypeOK, TablesTypeOK
  <1>2. operations'[k] # NoOperation
    BY <1>1, NullsAssumption DEF ClaimedRow, Operation, OperationStatus
  <1> QED
    BY <1>1, <1>2 DEF RecordsStay, Recorded, ClaimedRow

\* nor a reclaim, which keeps the payload,
LEMMA ReclaimKeepsRecords ==
  ASSUME TypeOK, NEW k \in Keys, NEW f, NEW at \in Nat, ProcessingRow(k, f),
         ReclaimRow(k, at)
  PROVE  RecordsStay /\ Recorded(k, f)'
  <1>1. operations[k] \in Operation
    BY DEF ProcessingRow, TypeOK, TablesTypeOK
  <1>2. /\ operations'[k] = [operations[k] EXCEPT !.updatedAt = at]
        /\ \A j \in Keys : j # k => operations'[j] = operations[j]
        /\ released' = released
    BY DEF ReclaimRow, TypeOK, TablesTypeOK
  <1>3. operations'[k].fingerprint = operations[k].fingerprint /\ operations'[k] \in Operation
    BY <1>1, <1>2 DEF Operation
  <1> QED
    BY <1>2, <1>3, NullsAssumption DEF RecordsStay, Recorded, ProcessingRow

\* nor a release, which puts the payload on the list of the released,
LEMMA ReleaseKeepsRecords ==
  ASSUME TypeOK, NEW k \in Keys, DeleteRow(k)
  PROVE  RecordsStay
  <1>1. /\ \A j \in Keys : j # k => operations'[j] = operations[j]
        /\ released' = released \cup {<<k, operations[k].fingerprint>>}
    BY DEF DeleteRow, TypeOK, TablesTypeOK
  <1> QED
    BY <1>1 DEF RecordsStay, Recorded

\* nor a completion.
LEMMA CommitKeepsRecords ==
  ASSUME TypeOK, NEW k \in Keys, NEW id \in TransactionIds, NEW row, NEW at \in Nat,
         operations[k] # NoOperation, CommitCompletion(k, id, row, at)
  PROVE  RecordsStay
  <1>1. operations[k] \in Operation
    BY DEF TypeOK, TablesTypeOK
  <1>2. /\ operations'[k] = [fingerprint |-> operations[k].fingerprint,
                             status |-> "completed", transaction |-> id,
                             createdAt |-> operations[k].createdAt, updatedAt |-> at]
        /\ \A j \in Keys : j # k => operations'[j] = operations[j]
        /\ released' = released
    BY DEF CommitCompletion, TypeOK, TablesTypeOK
  <1>3. operations'[k].fingerprint = operations[k].fingerprint /\ operations'[k] \in Operation
    BY <1>1, <1>2 DEF Operation, OperationStatus
  <1> QED
    BY <1>2, <1>3, NullsAssumption DEF RecordsStay, Recorded

\* A step that loses no record keeps the accounts when whoever holds after it held
\* before or has just recorded its payload, when what it charges or leaves to be
\* charged is on record, and when it stores nothing.
LEMMA RecordingStepKeepsAccounts ==
  ASSUME AccountInvariant, TypeOK, RecordsStay,
         UNCHANGED <<request, transactions>>,
         \A e \in Executions :
           Holds(e)' => Holds(e) \/ Recorded(Key(e), Fingerprint(e))',
         \A k \in Keys, f \in Fingerprints :
           (approved'[k] = f \/ <<k, f>> \in late') =>
             approved[k] = f \/ <<k, f>> \in late \/ Recorded(k, f)
  PROVE  AccountInvariant'
  <1>1. \A e \in Executions : /\ Key(e) \in Keys /\ Fingerprint(e) \in Fingerprints
                              /\ Key(e)' = Key(e) /\ Fingerprint(e)' = Fingerprint(e)
    BY RequestTyped DEF Key, Fingerprint
  <1>2. HoldersAreRecorded'
    <2> SUFFICES ASSUME NEW e \in Executions, Holds(e)'
                 PROVE  Recorded(Key(e), Fingerprint(e))'
      BY DEF HoldersAreRecorded
    <2>1. CASE Holds(e)
      <3>1. Recorded(Key(e), Fingerprint(e))
        BY <2>1 DEF AccountInvariant, HoldersAreRecorded
      <3>2. \A k \in Keys, f \in Fingerprints : Recorded(k, f) => Recorded(k, f)'
        BY DEF RecordsStay
      <3> QED
        BY <1>1, <3>1, <3>2 DEF Recorded
    <2> QED
      BY <2>1
  <1>3. ASSUME NEW k \in Keys, NEW f \in Fingerprints, approved'[k] = f \/ <<k, f>> \in late'
        PROVE  Recorded(k, f)'
    BY <1>3 DEF AccountInvariant, PaymentsAreAccountedFor, RecordsStay
  <1>4. ASSUME NEW e \in Executions, transactions'[e] # NoTransaction
        PROVE  \/ transactions'[e].charged = transactions'[e].fingerprint
               \/ <<Key(e)', transactions'[e].charged>> \in released'
    BY <1>1, <1>4 DEF AccountInvariant, PaymentsAreAccountedFor, RecordsStay
  <1> QED
    BY <1>2, <1>3, <1>4 DEF AccountInvariant, PaymentsAreAccountedFor

\* A charge is of the payload asked for, or of the one charged before.
LEMMA ChargeIsOfPayload ==
  ASSUME TypeOK, NEW k \in Keys, NEW f \in Fingerprints, Charge(k, f)
  PROVE  \A j \in Keys, g \in Fingerprints :
           approved'[j] = g => approved[j] = g \/ (j = k /\ g = f)
  BY DEF Charge, TypeOK

\* The completion of e, committed, stores the payment of e's own payload, or of one
\* that was released: what is charged is on record, and the row is e's payload's.
LEMMA CommitKeepsAccounts ==
  ASSUME AccountInvariant, StoreInvariant, NEW e \in Executions, CommitStep(e)
  PROVE  AccountInvariant'
  <1>1. /\ TypeOK /\ Key(e) \in Keys /\ Fingerprint(e) \in Fingerprints
        /\ completedAt[e] \in Nat /\ e \in TransactionIds
    BY RequestTyped, ExecutionsAssumption DEF StoreInvariant
  <1>2. /\ operations[Key(e)] # NoOperation
        /\ operations[Key(e)].fingerprint = Fingerprint(e)
        /\ pc[e] = "complete"
        /\ CommitCompletion(Key(e), e, BuiltTransaction(e), completedAt[e])
        /\ UNCHANGED <<request, approved, late>>
        /\ pc' = [pc EXCEPT ![e] = "done"]
    BY DEF CommitStep, CompleteOperation, Completable, ProcessingRow, Return, Throw, provider
  <1>3. RecordsStay
    BY <1>1, <1>2, CommitKeepsRecords
  <1>4. \A d \in Executions : Holds(d)' => Holds(d)
    BY <1>1, <1>2 DEF TypeOK, Holds, HeldSteps
  <1>5. \A d \in Executions : /\ Key(d) \in Keys /\ Fingerprint(d) \in Fingerprints
                              /\ Key(d)' = Key(d) /\ Fingerprint(d)' = Fingerprint(d)
    BY <1>1, <1>2, RequestTyped DEF Key, Fingerprint
  <1>6. HoldersAreRecorded'
    <2> SUFFICES ASSUME NEW d \in Executions, Holds(d)'
                 PROVE  Recorded(Key(d), Fingerprint(d))'
      BY DEF HoldersAreRecorded
    <2>1. Recorded(Key(d), Fingerprint(d))
      BY <1>4 DEF AccountInvariant, HoldersAreRecorded
    <2>2. \A k \in Keys, f \in Fingerprints : Recorded(k, f) => Recorded(k, f)'
      BY <1>3 DEF RecordsStay
    <2> QED
      BY <1>5, <2>1, <2>2 DEF Recorded
  <1>7. ASSUME NEW k \in Keys, NEW f \in Fingerprints, approved'[k] = f \/ <<k, f>> \in late'
        PROVE  Recorded(k, f)'
    BY <1>2, <1>3, <1>7 DEF AccountInvariant, PaymentsAreAccountedFor, RecordsStay
  <1>8. ASSUME NEW d \in Executions, transactions'[d] # NoTransaction
        PROVE  \/ transactions'[d].charged = transactions'[d].fingerprint
               \/ <<Key(d)', transactions'[d].charged>> \in released'
    <2>1. CASE d = e
      <3>1. transactions'[e] = BuiltTransaction(e)
        BY <1>1, <1>2 DEF CommitCompletion, TypeOK, TablesTypeOK
      <3>2. approved[Key(e)] \in Fingerprints
        BY <1>1, <1>2 DEF StoreInvariant, CompletionHasResult, TypeOK
      <3>3. Recorded(Key(e), approved[Key(e)])
        BY <1>1, <3>2 DEF AccountInvariant, PaymentsAreAccountedFor
      <3>4. approved[Key(e)] = Fingerprint(e) \/ <<Key(e), approved[Key(e)]>> \in released
        BY <1>2, <3>3 DEF Recorded
      <3> QED
        BY <1>3, <1>5, <2>1, <3>1, <3>4 DEF BuiltTransaction, RecordsStay
    <2>2. CASE d # e
      <3>1. transactions'[d] = transactions[d]
        BY <1>1, <1>2, <2>2, ExecutionsAssumption DEF CommitCompletion, TypeOK, TablesTypeOK
      <3> QED
        BY <1>3, <1>5, <1>8, <3>1 DEF AccountInvariant, PaymentsAreAccountedFor, RecordsStay
    <2> QED
      BY <2>1, <2>2
  <1> QED
    BY <1>6, <1>7, <1>8 DEF AccountInvariant, PaymentsAreAccountedFor

\* Every step keeps the accounts.
LEMMA NextKeepsAccounts ==
  ASSUME AccountInvariant, StoreInvariant, [Next]_vars PROVE AccountInvariant'
  <1>1. TypeOK
    BY DEF StoreInvariant
  <1> DEFINE Held == \A d \in Executions : Holds(d)' => Holds(d)
             Keeps == /\ RecordsStay
                      /\ UNCHANGED <<request, transactions>>
                      /\ \A d \in Executions :
                           Holds(d)' => Holds(d) \/ Recorded(Key(d), Fingerprint(d))'
                      /\ \A k \in Keys, f \in Fingerprints :
                           (approved'[k] = f \/ <<k, f>> \in late') =>
                             approved[k] = f \/ <<k, f>> \in late \/ Recorded(k, f)
  <1>2. Keeps => AccountInvariant'
    BY <1>1, RecordingStepKeepsAccounts
  <1>3. ASSUME NEW e \in Executions, Holds(e)
        PROVE  /\ Recorded(Key(e), Fingerprint(e))
               /\ Key(e) \in Keys /\ Fingerprint(e) \in Fingerprints
    BY <1>1, <1>3, RequestTyped DEF AccountInvariant, HoldersAreRecorded
  <1>4. ASSUME NEW e \in Executions, Execute(e) PROVE AccountInvariant'
    <2>1. UNCHANGED <<request, tables, approved, late>> /\ pc' = [pc EXCEPT ![e] = "insert"]
      BY <1>4 DEF Execute, Goto, provider
    <2>2. Held
      BY <1>1, <2>1 DEF TypeOK, Holds, HeldSteps
    <2> QED
      BY <1>2, <2>1, <2>2, UnchangedTablesKeepRecords DEF tables
  <1>5. ASSUME NEW e \in Executions, InsertOperation(e) PROVE AccountInvariant'
    <2>1. /\ UNCHANGED <<request, approved, late>>
          /\ Key(e) \in Keys /\ Fingerprint(e) \in Fingerprints /\ ClaimedAt(e) \in Nat
      BY <1>1, <1>5, RequestTyped DEF InsertOperation, provider
    <2>2. CASE /\ operations[Key(e)] = NoOperation
               /\ InsertRow(Key(e), Fingerprint(e), ClaimedAt(e))
               /\ NewClaim(e)
      <3>1. RecordsStay /\ Recorded(Key(e), Fingerprint(e))'
        <4>1. RecordsStay /\ \A k, f : k = Key(e) /\ f = Fingerprint(e) => Recorded(k, f)'
          BY <1>1, <2>1, <2>2, InsertKeepsRecords
        <4> QED
          BY <2>1, <4>1 DEF Recorded, Key, Fingerprint
      <3>2. \A d \in Executions : Holds(d)' => Holds(d) \/ d = e
        BY <1>1, <2>2 DEF NewClaim, Goto, Throw, TypeOK, Holds
      <3>3. transactions' = transactions
        BY <2>2 DEF InsertRow
      <3> QED
        BY <1>2, <2>1, <3>1, <3>2, <3>3
    <2>3. CASE Goto(e, "reclaim") /\ UNCHANGED tables
      <3>1. Held
        BY <1>1, <2>3 DEF Goto, TypeOK, Holds, HeldSteps
      <3> QED
        BY <1>2, <2>1, <2>3, <3>1, UnchangedTablesKeepRecords DEF tables
    <2> QED
      BY <1>5, <2>2, <2>3 DEF InsertOperation
  <1>6. ASSUME NEW e \in Executions, ReclaimOperation(e) PROVE AccountInvariant'
    <2>1. /\ UNCHANGED <<request, approved, late>>
          /\ Key(e) \in Keys /\ Fingerprint(e) \in Fingerprints /\ ClaimedAt(e) \in Nat
      BY <1>1, <1>6, RequestTyped DEF ReclaimOperation, provider
    <2>2. CASE /\ ProcessingRow(Key(e), Fingerprint(e))
               /\ ReclaimRow(Key(e), ClaimedAt(e))
               /\ NewClaim(e)
      <3>1. RecordsStay /\ Recorded(Key(e), Fingerprint(e))'
        <4>1. RecordsStay /\ \A k, f : k = Key(e) /\ f = Fingerprint(e) => Recorded(k, f)'
          BY <1>1, <2>1, <2>2, ReclaimKeepsRecords
        <4> QED
          BY <2>1, <4>1 DEF Recorded, Key, Fingerprint
      <3>2. \A d \in Executions : Holds(d)' => Holds(d) \/ d = e
        BY <1>1, <2>2 DEF NewClaim, Goto, Throw, TypeOK, Holds
      <3>3. transactions' = transactions
        BY <2>2 DEF ReclaimRow
      <3> QED
        BY <1>2, <2>1, <3>1, <3>2, <3>3
    <2>3. CASE Goto(e, "select") /\ UNCHANGED tables
      <3>1. Held
        BY <1>1, <2>3 DEF Goto, TypeOK, Holds, HeldSteps
      <3> QED
        BY <1>2, <2>1, <2>3, <3>1, UnchangedTablesKeepRecords DEF tables
    <2> QED
      BY <1>6, <2>2, <2>3 DEF ReclaimOperation, Reclaimable
  <1>7. ASSUME NEW e \in Executions, SelectOperation(e) PROVE AccountInvariant'
    <2>1. /\ UNCHANGED <<request, tables, approved, late>>
          /\ \E step \in {"insert", "done"} : pc' = [pc EXCEPT ![e] = step]
      BY <1>7 DEF SelectOperation, RetryClaim, Goto, Throw, Return, provider
    <2>2. Held
      BY <1>1, <2>1 DEF TypeOK, Holds, HeldSteps
    <2> QED
      BY <1>2, <2>1, <2>2, UnchangedTablesKeepRecords DEF tables
  <1>8. ASSUME NEW e \in Executions, NEW error,
               CircuitRefuses(e) \/ AttemptFails(e, error)
        PROVE  AccountInvariant'
    <2>1. /\ pc[e] = "provider" /\ UNCHANGED <<request, tables, approved>>
          /\ \E step \in {"provider", "release", "done"} : pc' = [pc EXCEPT ![e] = step]
          /\ late' = late \/ late' = late \cup {<<Key(e), Fingerprint(e)>>}
      BY <1>1, <1>8 DEF CircuitRefuses, AttemptFails, ProviderThrows, Throw, provider, TypeOK
    <2>2. Held /\ Holds(e)
      BY <1>1, <2>1 DEF TypeOK, Holds, HeldSteps
    <2>3. \A k \in Keys, f \in Fingerprints :
            <<k, f>> \in late' => <<k, f>> \in late \/ Recorded(k, f)
      BY <1>3, <2>1, <2>2
    <2> QED
      BY <1>2, <2>1, <2>2, <2>3, UnchangedTablesKeepRecords DEF tables
  <1>9. ASSUME NEW e \in Executions, AttemptApproved(e) PROVE AccountInvariant'
    <2>1. /\ pc[e] = "provider" /\ UNCHANGED <<request, tables, late>>
          /\ pc' = [pc EXCEPT ![e] = "complete"]
          /\ Charge(Key(e), Fingerprint(e))
      BY <1>9 DEF AttemptApproved, Goto
    <2>2. Held /\ Holds(e)
      BY <1>1, <2>1 DEF TypeOK, Holds, HeldSteps
    <2>3. \A k \in Keys, f \in Fingerprints :
            approved'[k] = f => approved[k] = f \/ Recorded(k, f)
      BY <1>1, <1>3, <2>1, <2>2, ChargeIsOfPayload
    <2> QED
      BY <1>2, <2>1, <2>2, <2>3, UnchangedTablesKeepRecords DEF tables
  <1>10. ASSUME NEW e \in Executions, ReleaseOperation(e) PROVE AccountInvariant'
    <2>1. /\ UNCHANGED <<request, approved, late>>
          /\ pc' = [pc EXCEPT ![e] = "done"]
          /\ Key(e) \in Keys
      BY <1>1, <1>10, RequestTyped DEF ReleaseOperation, Throw, provider
    <2>2. RecordsStay /\ transactions' = transactions
      BY <1>1, <1>10, <2>1, ReleaseKeepsRecords, UnchangedTablesKeepRecords
         DEF ReleaseOperation, DeleteRow, tables
    <2>3. Held
      BY <1>1, <2>1 DEF TypeOK, Holds, HeldSteps
    <2> QED
      BY <1>2, <2>1, <2>2, <2>3
  <1>11. ASSUME NEW e \in Executions, CompleteOperation(e) PROVE AccountInvariant'
    <2>1. CASE Completable(Key(e), Fingerprint(e), completedAt[e])
      BY <1>11, <2>1, CommitKeepsAccounts DEF CommitStep
    <2>2. CASE ~Completable(Key(e), Fingerprint(e), completedAt[e])
      <3>1. UNCHANGED <<request, tables, approved, late>> /\ pc' = [pc EXCEPT ![e] = "done"]
        BY <1>11, <2>2 DEF CompleteOperation, Throw, provider
      <3>2. Held
        BY <1>1, <3>1 DEF TypeOK, Holds, HeldSteps
      <3> QED
        BY <1>2, <3>1, <3>2, UnchangedTablesKeepRecords DEF tables
    <2> QED
      BY <2>1, <2>2
  <1>12. ASSUME NEW e \in Executions, StatementFails(e) \/ Crash(e) PROVE AccountInvariant'
    <2>1. /\ UNCHANGED <<request, tables, approved>> /\ pc' = [pc EXCEPT ![e] = "done"]
          /\ \/ late' = late
             \/ pc[e] = "provider" /\ late' = late \cup {<<Key(e), Fingerprint(e)>>}
      BY <1>12 DEF StatementFails, Crash, Throw, provider
    <2>2. Held
      BY <1>1, <2>1 DEF TypeOK, Holds, HeldSteps
    <2>3. \A k \in Keys, f \in Fingerprints :
            <<k, f>> \in late' => <<k, f>> \in late \/ Recorded(k, f)
      BY <1>3, <2>1 DEF Holds, HeldSteps
    <2> QED
      BY <1>2, <2>1, <2>2, <2>3, UnchangedTablesKeepRecords DEF tables
  <1>13. ASSUME NEW k \in Keys, NEW f \in Fingerprints, LateRequestProcessed(k, f)
         PROVE  AccountInvariant'
    <2>1. /\ UNCHANGED <<request, tables, pc>> /\ Charge(k, f)
          /\ <<k, f>> \in late /\ late' \subseteq late
      BY <1>13 DEF LateRequestProcessed
    <2>2. Held
      BY <2>1 DEF Holds
    <2>3. \A j \in Keys, g \in Fingerprints :
            approved'[j] = g => approved[j] = g \/ <<j, g>> \in late
      BY <1>1, <2>1, ChargeIsOfPayload
    <2> QED
      BY <1>2, <2>1, <2>2, <2>3, UnchangedTablesKeepRecords DEF tables
  <1>14. CASE Tick \/ UNCHANGED vars
    <2>1. UNCHANGED <<request, tables, pc, approved, late>>
      BY <1>14 DEF Tick, vars, provider
    <2>2. Held
      BY <2>1 DEF Holds
    <2> QED
      BY <1>2, <2>1, <2>2, UnchangedTablesKeepRecords DEF tables
  <1> QED
    BY <1>4, <1>5, <1>6, <1>7, <1>8, <1>9, <1>10, <1>11, <1>12, <1>13, <1>14
       DEF Next, Step, Quiescent

\* Only a release parts a payment from its record: a completion that the database
\* refuses, a late request, a reclaim or a crash never does, whatever the timing and
\* however the clocks are set.
THEOREM OnlyReleasesLosePayments == Spec => []PaymentsAreAccountedFor
  <1>1. Init => AccountInvariant
    BY ResultsAssumption, ExecutionsAssumption
       DEF Init, EmptyTables, AccountInvariant, HoldersAreRecorded, PaymentsAreAccountedFor,
           Holds, HeldSteps
  <1>2. AccountInvariant /\ StoreInvariant /\ [Next]_vars => AccountInvariant'
    BY NextKeepsAccounts
  <1>3. AccountInvariant => PaymentsAreAccountedFor
    BY DEF AccountInvariant
  <1> QED
    BY <1>1, <1>2, <1>3, StoreIsConsistent, PTL DEF Spec

--------------------------------------------------------------------------------
(* The in-memory double of the repository, on replicas whose clocks agree.     *)

\* No row and no execution is ahead of the clock.
StampsArePast ==
  /\ \A e \in Executions : startedAt[e] <= now
  /\ \A k \in Keys : operations[k] # NoOperation => operations[k].createdAt <= now

\* Without skew every clock reads the real time.
LEMMA ClocksAgree ==
  ASSUME MaxSkew = 0, TypeOK, NEW e \in Executions
  PROVE  Clock(e) = now /\ ClaimedAt(e) = startedAt[e] /\ startedAt[e] \in Nat /\ now \in Nat
  <1>1. request[e].skew \in 0 .. MaxSkew /\ startedAt[e] \in Nat /\ now \in Nat
    BY RequestTyped DEF TypeOK
  <1> QED
    BY <1>1 DEF Clock, ClaimedAt

\* Every row keeps its created_at, but for a row that is inserted.
LEMMA CreatedAtIsKept ==
  ASSUME TypeOK, [Next]_vars, NEW k \in Keys, operations'[k] # NoOperation
  PROVE  \/ operations[k] # NoOperation /\ operations'[k].createdAt = operations[k].createdAt
         \/ \E e \in Executions : operations'[k] = ClaimedRow(Fingerprint(e), ClaimedAt(e))
  <1>1. CASE operations' = operations
    BY <1>1
  <1>2. ASSUME NEW e \in Executions, InsertOperation(e), operations' # operations
        PROVE  \/ operations'[k] = ClaimedRow(Fingerprint(e), ClaimedAt(e))
               \/ operations'[k] = operations[k]
    BY <1>2, RequestTyped DEF InsertOperation, InsertRow, tables, TypeOK, TablesTypeOK
  <1>3. ASSUME NEW e \in Executions, ReclaimOperation(e), operations' # operations
        PROVE  operations[k] # NoOperation /\ operations'[k].createdAt = operations[k].createdAt
    <2>1. /\ operations[Key(e)] # NoOperation
          /\ operations' = [operations EXCEPT ![Key(e)].updatedAt = ClaimedAt(e)]
      BY <1>3 DEF ReclaimOperation, ReclaimRow, tables, Reclaimable, ProcessingRow
    <2>2. operations[Key(e)] \in Operation
      BY <2>1, RequestTyped DEF TypeOK, TablesTypeOK
    <2> QED
      BY <2>1, <2>2, RequestTyped DEF TypeOK, TablesTypeOK, Operation
  <1>4. ASSUME NEW e \in Executions, ReleaseOperation(e), operations' # operations
        PROVE  operations'[k] = operations[k]
    BY <1>4, RequestTyped DEF ReleaseOperation, DeleteRow, tables, TypeOK, TablesTypeOK
  <1>5. ASSUME NEW e \in Executions, CompleteOperation(e), operations' # operations
        PROVE  operations[k] # NoOperation /\ operations'[k].createdAt = operations[k].createdAt
    <2>1. /\ operations[Key(e)] # NoOperation
          /\ operations' =
               [operations EXCEPT
                  ![Key(e)] = [fingerprint |-> operations[Key(e)].fingerprint,
                               status |-> "completed", transaction |-> e,
                               createdAt |-> operations[Key(e)].createdAt,
                               updatedAt |-> completedAt[e]]]
      BY <1>5 DEF CompleteOperation, CommitCompletion, tables, Completable, ProcessingRow
    <2> QED
      BY <2>1, RequestTyped DEF TypeOK, TablesTypeOK
  <1>6. \/ operations' = operations
        \/ \E e \in Executions : InsertOperation(e) \/ ReclaimOperation(e)
                                 \/ ReleaseOperation(e) \/ CompleteOperation(e)
    BY DEF Next, Step, Execute, SelectOperation, CircuitRefuses, AttemptApproved,
           AttemptFails, StatementFails, Crash, LateRequestProcessed, Tick, Quiescent, vars,
           tables
  <1> QED
    BY <1>1, <1>2, <1>3, <1>4, <1>5, <1>6

\* Time goes forward and an execution starts now.
LEMMA ClockGoesForward ==
  ASSUME TypeOK, [Next]_vars
  PROVE  /\ now' \in Nat /\ now <= now'
         /\ \A e \in Executions : startedAt'[e] = startedAt[e] \/ startedAt'[e] = now
  <1>1. now \in Nat /\ startedAt \in [Executions -> Nat]
    BY DEF TypeOK
  <1>2. CASE \E d \in Executions : Execute(d)
    BY <1>1, <1>2 DEF Execute
  <1>3. CASE Tick
    BY <1>1, <1>3 DEF Tick
  <1>4. CASE now' = now /\ startedAt' = startedAt
    BY <1>1, <1>4
  <1> QED
    BY <1>2, <1>3, <1>4
       DEF Next, Step, InsertOperation, ReclaimOperation, SelectOperation, CircuitRefuses,
           AttemptApproved, AttemptFails, ReleaseOperation, CompleteOperation,
           StatementFails, Crash, LateRequestProcessed, Quiescent, vars

\* On one clock no row carries a time to come.
LEMMA StampsStayPast ==
  ASSUME MaxSkew = 0, TypeOK, TypeOK', StampsArePast, [Next]_vars
  PROVE  StampsArePast'
  <1>1. ASSUME NEW e \in Executions PROVE startedAt'[e] <= now'
    <2>1. now \in Nat /\ startedAt[e] \in Nat /\ startedAt[e] <= now
      BY DEF StampsArePast, TypeOK
    <2> QED
      BY <2>1, ClockGoesForward
  <1>2. ASSUME NEW k \in Keys, operations'[k] # NoOperation
        PROVE  operations'[k].createdAt <= now'
    <2>1. ASSUME NEW e \in Executions,
                 operations'[k] = ClaimedRow(Fingerprint(e), ClaimedAt(e))
          PROVE  operations'[k].createdAt <= now'
      <3>1. operations'[k].createdAt = startedAt[e]
        BY <2>1, ClocksAgree DEF ClaimedRow
      <3>2. startedAt[e] <= now /\ now <= now' /\ startedAt[e] \in Nat /\ now \in Nat
            /\ now' \in Nat
        BY ClockGoesForward, ClocksAgree DEF StampsArePast
      <3> QED
        BY <3>1, <3>2
    <2>2. CASE operations[k] # NoOperation
               /\ operations'[k].createdAt = operations[k].createdAt
      <3>1. operations[k].createdAt <= now /\ operations[k].createdAt \in Nat
        BY <2>2 DEF StampsArePast, TypeOK, TablesTypeOK, Operation
      <3>2. now <= now' /\ now \in Nat /\ now' \in Nat
        BY ClockGoesForward DEF TypeOK
      <3> QED
        BY <2>2, <3>1, <3>2
    <2> QED
      BY <1>2, <2>1, <2>2, CreatedAtIsKept
  <1> QED
    BY <1>1, <1>2 DEF StampsArePast

\* In a consistent store the double and the statements take the same decisions.
LEMMA DoubleDecidesAlike ==
  ASSUME MaxSkew = 0, StoreInvariant, StampsArePast, NEW e \in Executions
  PROVE  /\ MemoryClaim(e) = StatementsClaim(e)
         /\ MemoryCompletable(e) <=> Completable(Key(e), Fingerprint(e), Clock(e))
         /\ MemoryReleasable(e) <=> Releasable(Key(e), Fingerprint(e))
  <1> DEFINE row == operations[Key(e)]
  <1>1. /\ Key(e) \in Keys /\ Clock(e) \in Nat /\ Clock(e) = now
        /\ row # NoOperation => row \in Operation
    BY RequestTyped, ClocksAgree DEF StoreInvariant, TypeOK, TablesTypeOK
  <1>2. row # NoOperation => row.createdAt <= Clock(e)
    BY <1>1 DEF StampsArePast
  <1>3. MemoryCompletable(e) <=> Completable(Key(e), Fingerprint(e), Clock(e))
    BY <1>1, <1>2 DEF MemoryCompletable, Completable, ProcessingRow, Operation
  <1>4. MemoryReleasable(e) <=> Releasable(Key(e), Fingerprint(e))
    BY DEF MemoryReleasable, Releasable, ProcessingRow
  <1>5. CASE row = NoOperation
    <2>1. MemoryClaim(e) = Claim("new_claim", ClaimedRow(Fingerprint(e), Clock(e)))
      BY <1>5 DEF MemoryClaim
    <2>2. StatementsClaim(e) = Claim("new_claim", ClaimedRow(Fingerprint(e), Clock(e)))
      BY <1>5, <1>1 DEF StatementsClaim, Reclaimable, ProcessingRow
    <2> QED
      BY <2>1, <2>2, <1>3, <1>4
  <1>6. CASE row # NoOperation /\ row.fingerprint # Fingerprint(e)
    <2>1. MemoryClaim(e) = Claim("fingerprint_conflict", row)
      BY <1>6 DEF MemoryClaim
    <2>2. StatementsClaim(e) = Claim("fingerprint_conflict", row)
      BY <1>6 DEF StatementsClaim, Reclaimable, ProcessingRow
    <2> QED
      BY <2>1, <2>2, <1>3, <1>4
  <1>7. CASE row # NoOperation /\ row.fingerprint = Fingerprint(e) /\ row.status = "completed"
    <2>1. row.transaction # NoTransaction /\ transactions[row.transaction] # NoTransaction
      <3>1. PICK d \in Executions : CompletedBy(Key(e), d) /\ transactions[d] # NoTransaction
        BY <1>1, <1>7 DEF StoreInvariant, TransactionsAreCompletions, Completed
      <3> QED
        BY <3>1, NullsAssumption, ExecutionsAssumption DEF CompletedBy
    <2>2. MemoryClaim(e) = Claim("completed_replay", row)
      BY <1>7, <2>1 DEF MemoryClaim
    <2>3. StatementsClaim(e) = Claim("completed_replay", row)
      BY <1>7 DEF StatementsClaim, Reclaimable, ProcessingRow
    <2> QED
      BY <2>2, <2>3, <1>3, <1>4
  <1>8. CASE row # NoOperation /\ row.fingerprint = Fingerprint(e) /\ row.status = "processing"
    <2>1. CASE row.updatedAt <= Clock(e) - StaleTimeout
      BY <1>8, <2>1, <1>3, <1>4
         DEF MemoryClaim, StatementsClaim, Reclaimable, ProcessingRow
    <2>2. CASE ~(row.updatedAt <= Clock(e) - StaleTimeout)
      BY <1>8, <2>2, <1>3, <1>4
         DEF MemoryClaim, StatementsClaim, Reclaimable, ProcessingRow
    <2> QED
      BY <2>1, <2>2
  <1> QED
    BY <1>1, <1>5, <1>6, <1>7, <1>8 DEF Operation, OperationStatus

\* On one clock a test written against the in-memory repository sees the claims,
\* completions and releases that the statements make on the same rows, in every
\* state that crashes, reclaims and overlapping executions reach.
THEOREM MemoryRepositoryIsFaithful == MaxSkew = 0 => (Spec => []DoubleAgreesWithStatements)
  <1> SUFFICES ASSUME MaxSkew = 0 PROVE Spec => []DoubleAgreesWithStatements
    OBVIOUS
  <1>1. Init => StampsArePast
    BY DEF Init, EmptyTables, StampsArePast
  <1>2. StoreInvariant /\ StoreInvariant' /\ StampsArePast /\ [Next]_vars => StampsArePast'
    BY StampsStayPast DEF StoreInvariant
  <1>3. StoreInvariant /\ StampsArePast => DoubleAgreesWithStatements
    BY DoubleDecidesAlike DEF DoubleAgreesWithStatements
  <1> QED
    BY <1>1, <1>2, <1>3, StoreIsConsistent, PTL DEF Spec

--------------------------------------------------------------------------------
(* The claim of an idempotency operation is an exclusive lease when executions *)
(* are punctual and the stale timeout exceeds the execution window by more     *)
(* than the clock skew, although nothing in the row names its owner.           *)

\* The types need only that a completing execution has a result.
LEMMA LeaseTyped == Spec => [](TypeOK /\ CompletionHasResult)
  <1>1. StoreInvariant => TypeOK /\ CompletionHasResult
    BY DEF StoreInvariant
  <1> QED
    BY <1>1, StoreIsConsistent, PTL

\* The arithmetic of the lease: while d is inside its window, no running execution
\* e, on whatever clock, reads a stamp of d as stale.
LEMMA StampIsNotStale ==
  ASSUME LeaseTiming, TypeOK, RunningInWindow,
         NEW d \in Executions, Live(d), NEW e \in Executions, Live(e)
  PROVE  ClaimedAt(d) > ClaimedAt(e) - StaleTimeout
  <1>1. /\ now \in Nat /\ startedAt[d] \in Nat /\ startedAt[e] \in Nat
        /\ request[d].skew \in 0 .. MaxSkew /\ request[e].skew \in 0 .. MaxSkew
    BY RequestTyped DEF TypeOK
  <1>2. now <= startedAt[d] + ExecutionWindow /\ startedAt[e] <= now
    BY DEF RunningInWindow
  <1> QED
    BY <1>1, <1>2, TimingAssumption DEF LeaseTiming, ClaimedAt

\* The initial state has no claim and no running execution.
LEMMA InitEstablishesLease == Init => LeaseInvariant
  <1> SUFFICES ASSUME Init PROVE LeaseInvariant
    OBVIOUS
  <1>1. TypeOK
    BY InitEstablishesStore DEF StoreInvariant
  <1>2. \A e \in Executions : pc[e] = "idle"
    BY DEF Init
  <1>3. \A k \in Keys : operations[k] = NoOperation
    BY DEF Init, EmptyTables
  <1> QED
    BY <1>1, <1>2, <1>3
    DEF LeaseInvariant, LeaseExclusion, HolderStampedRow, RowTimesOrdered, RunningInWindow,
        SelectSeesLease, Holds, HeldSteps, Live

\* A step of e that neither starts it nor moves any row, and after which e holds
\* the claim only if it held it before.
LEMMA UnmovedRowsKeepLease ==
  ASSUME LeaseInvariant, TypeOK', NEW e \in Executions,
         UNCHANGED <<now, request, startedAt, operations>>,
         \A d \in Executions : d # e => pc'[d] = pc[d],
         Holds(e)' => Holds(e),
         Live(e)' => Live(e),
         pc'[e] = "select" => ~Reclaimable(Key(e), Fingerprint(e), ClaimedAt(e) - StaleTimeout)
  PROVE  LeaseInvariant'
  <1>1. \A d \in Executions :
          /\ Key(d)' = Key(d) /\ Fingerprint(d)' = Fingerprint(d)
          /\ ClaimedAt(d)' = ClaimedAt(d)
          /\ Holds(d)' => Holds(d)
          /\ Live(d)' => Live(d)
    BY DEF Key, Fingerprint, ClaimedAt, Holds, Live
  <1>2. \A d \in Executions :
          ProcessingRow(Key(d), Fingerprint(d))' <=> ProcessingRow(Key(d), Fingerprint(d))
    BY <1>1 DEF ProcessingRow
  <1>3. LeaseExclusion' /\ HolderStampedRow'
    BY <1>1, <1>2 DEF LeaseInvariant, LeaseExclusion, HolderStampedRow
  <1>4. RowTimesOrdered' /\ RunningInWindow'
    BY <1>1 DEF LeaseInvariant, RowTimesOrdered, RunningInWindow
  <1>5. SelectSeesLease'
    <2> SUFFICES ASSUME NEW d \in Executions, pc'[d] = "select",
                        ProcessingRow(Key(d), Fingerprint(d))
                 PROVE  operations[Key(d)].updatedAt > ClaimedAt(d) - StaleTimeout
      BY <1>1, <1>2 DEF SelectSeesLease
    <2>1. CASE d # e
      BY <2>1 DEF LeaseInvariant, SelectSeesLease
    <2>2. CASE d = e
      <3>1. operations[Key(d)].updatedAt \in Nat /\ ClaimedAt(d) \in Nat
        BY RequestTyped DEF LeaseInvariant, ProcessingRow, TypeOK, TablesTypeOK, Operation
      <3> QED
        BY <2>2, <3>1, TimingAssumption DEF Reclaimable
    <2> QED
      BY <2>1, <2>2
  <1> QED
    BY <1>3, <1>4, <1>5 DEF LeaseInvariant

\* e stamps the row of its key, by a claim or a reclaim, when nobody else holds it.
LEMMA StampingKeepsLease ==
  ASSUME LeaseInvariant, LeaseTiming, TypeOK', NEW e \in Executions,
         UNCHANGED <<now, request, startedAt>>,
         \A d \in Executions : d # e => pc'[d] = pc[d],
         Live(e), pc'[e] \in {"provider", "done"},
         \A d \in Executions : Holds(d) => Key(d) # Key(e),
         \A k \in Keys : k # Key(e) => operations'[k] = operations[k],
         operations'[Key(e)] # NoOperation,
         operations'[Key(e)].fingerprint = Fingerprint(e),
         operations'[Key(e)].status = "processing",
         operations'[Key(e)].updatedAt = ClaimedAt(e),
         operations'[Key(e)].createdAt <= ClaimedAt(e)
  PROVE  LeaseInvariant'
  <1>1. \A d \in Executions :
          /\ Key(d) \in Keys
          /\ Key(d)' = Key(d) /\ Fingerprint(d)' = Fingerprint(d)
          /\ ClaimedAt(d)' = ClaimedAt(d)
    BY RequestTyped DEF LeaseInvariant, Key, Fingerprint, ClaimedAt
  <1>2. \A d \in Executions : d # e => (Holds(d)' <=> Holds(d)) /\ (Live(d)' <=> Live(d))
    BY DEF Holds, Live
  <1>3. LeaseExclusion'
    BY <1>1, <1>2 DEF LeaseInvariant, LeaseExclusion
  <1>4. HolderStampedRow'
    <2> SUFFICES ASSUME NEW d \in Executions, Holds(d)'
                 PROVE  /\ ProcessingRow(Key(d), Fingerprint(d))'
                        /\ operations'[Key(d)].updatedAt = ClaimedAt(d)
      BY <1>1 DEF HolderStampedRow
    <2>1. CASE d = e
      BY <1>1, <2>1 DEF ProcessingRow
    <2>2. CASE d # e
      <3>1. Holds(d) /\ Key(d) # Key(e)
        BY <1>2, <2>2
      <3>2. operations'[Key(d)] = operations[Key(d)]
        BY <1>1, <3>1
      <3> QED
        BY <1>1, <3>1, <3>2 DEF LeaseInvariant, HolderStampedRow, ProcessingRow
    <2> QED
      BY <2>1, <2>2
  <1>5. RowTimesOrdered'
    BY DEF LeaseInvariant, RowTimesOrdered
  <1>6. RunningInWindow'
    BY <1>2 DEF LeaseInvariant, RunningInWindow
  <1>7. SelectSeesLease'
    <2> SUFFICES ASSUME NEW d \in Executions, pc'[d] = "select",
                        ProcessingRow(Key(d), Fingerprint(d))'
                 PROVE  operations'[Key(d)].updatedAt > ClaimedAt(d) - StaleTimeout
      BY <1>1 DEF SelectSeesLease
    <2>1. d # e /\ pc[d] = "select" /\ Live(d)
      BY DEF Live
    <2>2. CASE Key(d) = Key(e)
      <3>1. ClaimedAt(e) > ClaimedAt(d) - StaleTimeout
        BY <2>1, StampIsNotStale DEF LeaseInvariant
      <3> QED
        BY <2>2, <3>1
    <2>3. CASE Key(d) # Key(e)
      <3>1. operations'[Key(d)] = operations[Key(d)]
        BY <1>1, <2>3
      <3> QED
        BY <1>1, <2>1, <3>1 DEF LeaseInvariant, SelectSeesLease, ProcessingRow
    <2> QED
      BY <2>2, <2>3
  <1> QED
    BY <1>3, <1>4, <1>5, <1>6, <1>7 DEF LeaseInvariant

\* e, which holds the claim, gives it up: it deletes or completes its own row.
LEMMA GivingUpKeepsLease ==
  ASSUME LeaseInvariant, TypeOK', NEW e \in Executions, Holds(e),
         UNCHANGED <<now, request, startedAt>>,
         pc' = [pc EXCEPT ![e] = "done"],
         \A k \in Keys : k # Key(e) => operations'[k] = operations[k],
         \/ operations'[Key(e)] = NoOperation
         \/ /\ operations'[Key(e)].status = "completed"
            /\ operations'[Key(e)].createdAt <= operations'[Key(e)].updatedAt
  PROVE  LeaseInvariant'
  <1>1. \A d \in Executions :
          /\ Key(d) \in Keys
          /\ Key(d)' = Key(d) /\ Fingerprint(d)' = Fingerprint(d)
          /\ ClaimedAt(d)' = ClaimedAt(d)
    BY RequestTyped DEF LeaseInvariant, Key, Fingerprint, ClaimedAt
  <1>2. \A d \in Executions : d # e => pc'[d] = pc[d]
    BY DEF LeaseInvariant, TypeOK
  <1>3. ~Holds(e)' /\ ~Live(e)' /\ pc'[e] # "select"
    BY DEF LeaseInvariant, TypeOK, Holds, Live, HeldSteps
  <1>4. \A d \in Executions : (Holds(d)' => Holds(d)) /\ (Live(d)' => Live(d))
    BY <1>2, <1>3 DEF Holds, Live
  <1>5. ASSUME NEW d \in Executions, ProcessingRow(Key(d), Fingerprint(d))'
        PROVE  /\ Key(d) # Key(e)
               /\ operations'[Key(d)] = operations[Key(d)]
               /\ ProcessingRow(Key(d), Fingerprint(d))
    BY <1>1, <1>5 DEF ProcessingRow
  <1>6. LeaseExclusion'
    BY <1>1, <1>4 DEF LeaseInvariant, LeaseExclusion
  <1>7. HolderStampedRow'
    <2> SUFFICES ASSUME NEW d \in Executions, Holds(d)'
                 PROVE  /\ ProcessingRow(Key(d), Fingerprint(d))'
                        /\ operations'[Key(d)].updatedAt = ClaimedAt(d)
      BY <1>1 DEF HolderStampedRow
    <2>1. Holds(d) /\ Key(d) # Key(e)
      BY <1>3, <1>4 DEF LeaseInvariant, LeaseExclusion
    <2>2. operations'[Key(d)] = operations[Key(d)]
      BY <1>1, <2>1
    <2> QED
      BY <1>1, <2>1, <2>2 DEF LeaseInvariant, HolderStampedRow, ProcessingRow
  <1>8. RowTimesOrdered'
    BY DEF LeaseInvariant, RowTimesOrdered
  <1>9. RunningInWindow'
    BY <1>4 DEF LeaseInvariant, RunningInWindow
  <1>10. SelectSeesLease'
    <2> SUFFICES ASSUME NEW d \in Executions, pc'[d] = "select",
                        ProcessingRow(Key(d), Fingerprint(d))'
                 PROVE  operations'[Key(d)].updatedAt > ClaimedAt(d) - StaleTimeout
      BY <1>1 DEF SelectSeesLease
    <2>1. pc[d] = "select"
      BY <1>2, <1>3
    <2> QED
      BY <1>5, <2>1 DEF LeaseInvariant, SelectSeesLease
  <1> QED
    BY <1>6, <1>7, <1>8, <1>9, <1>10 DEF LeaseInvariant

\* Every step keeps the lease, under the timing it needs.
LEMMA NextKeepsLease ==
  ASSUME LeaseInvariant, CompletionHasResult, LeaseTiming, [Next]_vars
  PROVE  LeaseInvariant'
  <1>1. TypeOK /\ TypeOK'
    BY NextTyped DEF LeaseInvariant
  <1>2. ASSUME NEW e \in Executions, Execute(e) PROVE LeaseInvariant'
    <2>1. /\ UNCHANGED <<now, request, operations>>
          /\ pc[e] = "idle" /\ pc' = [pc EXCEPT ![e] = "insert"]
          /\ startedAt' = [startedAt EXCEPT ![e] = now]
      BY <1>2 DEF Execute, Goto, tables
    <2>2. \A d \in Executions :
            /\ Key(d)' = Key(d) /\ Fingerprint(d)' = Fingerprint(d)
            /\ d # e => pc'[d] = pc[d] /\ startedAt'[d] = startedAt[d]
                       /\ ClaimedAt(d)' = ClaimedAt(d)
      BY <1>1, <2>1 DEF Key, Fingerprint, ClaimedAt, TypeOK
    <2>3. pc'[e] = "insert" /\ startedAt'[e] = now /\ ~Holds(e)'
      BY <1>1, <2>1 DEF Holds, HeldSteps, TypeOK
    <2>4. LeaseExclusion' /\ HolderStampedRow' /\ RowTimesOrdered' /\ SelectSeesLease'
      BY <2>1, <2>2, <2>3 DEF LeaseInvariant, LeaseExclusion, HolderStampedRow,
         RowTimesOrdered, SelectSeesLease, Holds, ProcessingRow
    <2>5. RunningInWindow'
      BY <1>1, <2>1, <2>2, <2>3, TimingAssumption
         DEF LeaseInvariant, RunningInWindow, Live, TypeOK
    <2> QED
      BY <1>1, <2>4, <2>5 DEF LeaseInvariant
  <1>3. ASSUME NEW e \in Executions, InsertOperation(e) PROVE LeaseInvariant'
    <2>1. /\ pc[e] = "insert" /\ Live(e) /\ UNCHANGED <<now, request, startedAt>>
          /\ Key(e) \in Keys /\ ClaimedAt(e) \in Nat
      BY <1>1, <1>3, RequestTyped DEF InsertOperation, Live
    <2>2. CASE /\ operations[Key(e)] = NoOperation
               /\ InsertRow(Key(e), Fingerprint(e), ClaimedAt(e))
               /\ NewClaim(e)
      <3>1. \E step \in {"provider", "done"} : pc' = [pc EXCEPT ![e] = step]
        BY <2>2 DEF NewClaim, Goto, Throw
      <3>2. pc'[e] \in {"provider", "done"} /\ \A d \in Executions : d # e => pc'[d] = pc[d]
        BY <1>1, <3>1 DEF TypeOK
      <3>3. \A d \in Executions : Holds(d) => Key(d) # Key(e)
        BY <2>2 DEF LeaseInvariant, HolderStampedRow, ProcessingRow
      <3>4. /\ \A k \in Keys : k # Key(e) => operations'[k] = operations[k]
            /\ operations'[Key(e)] = ClaimedRow(Fingerprint(e), ClaimedAt(e))
        BY <1>1, <2>1, <2>2 DEF InsertRow, TypeOK, TablesTypeOK
      <3>5. operations'[Key(e)] # NoOperation
        BY <1>1, <2>1, <3>4, RequestTyped, NullsAssumption
           DEF ClaimedRow, Operation, OperationStatus
      <3> QED
        BY <1>1, <2>1, <3>2, <3>3, <3>4, <3>5, StampingKeepsLease DEF ClaimedRow
    <2>3. CASE Goto(e, "reclaim") /\ UNCHANGED <<tables, attempt>>
      <3>1. /\ UNCHANGED operations /\ pc'[e] = "reclaim"
            /\ \A d \in Executions : d # e => pc'[d] = pc[d]
        BY <1>1, <2>3 DEF Goto, tables, TypeOK
      <3>2. ~Holds(e)'
        BY <3>1 DEF Holds, HeldSteps
      <3> QED
        BY <1>1, <2>1, <3>1, <3>2, UnmovedRowsKeepLease
    <2> QED
      BY <1>3, <2>2, <2>3 DEF InsertOperation
  <1>4. ASSUME NEW e \in Executions, ReclaimOperation(e) PROVE LeaseInvariant'
    <2> DEFINE stale == Reclaimable(Key(e), Fingerprint(e), ClaimedAt(e) - StaleTimeout)
    <2>1. /\ pc[e] = "reclaim" /\ Live(e) /\ UNCHANGED <<now, request, startedAt>>
          /\ Key(e) \in Keys /\ ClaimedAt(e) \in Nat
      BY <1>1, <1>4, RequestTyped DEF ReclaimOperation, Live
    <2>2. CASE stale /\ ReclaimRow(Key(e), ClaimedAt(e)) /\ NewClaim(e)
      <3>1. \E step \in {"provider", "done"} : pc' = [pc EXCEPT ![e] = step]
        BY <2>2 DEF NewClaim, Goto, Throw
      <3>2. pc'[e] \in {"provider", "done"} /\ \A d \in Executions : d # e => pc'[d] = pc[d]
        BY <1>1, <3>1 DEF TypeOK
      <3>3. /\ operations[Key(e)] \in Operation
            /\ operations[Key(e)].fingerprint = Fingerprint(e)
            /\ operations[Key(e)].status = "processing"
            /\ operations[Key(e)].updatedAt <= ClaimedAt(e) - StaleTimeout
        BY <1>1, <2>1, <2>2 DEF Reclaimable, ProcessingRow, TypeOK, TablesTypeOK
      <3>4. ASSUME NEW d \in Executions, Holds(d), Key(d) = Key(e) PROVE FALSE
        <4>1. operations[Key(e)].updatedAt = ClaimedAt(d)
          BY <3>4 DEF LeaseInvariant, HolderStampedRow
        <4>2. ClaimedAt(d) > ClaimedAt(e) - StaleTimeout
          <5>1. Live(d)
            BY <3>4 DEF Holds, HeldSteps, Live
          <5> QED
            BY <2>1, <5>1, StampIsNotStale DEF LeaseInvariant
        <4>3. ClaimedAt(d) \in Nat
          BY <1>1, RequestTyped
        <4> QED
          BY <2>1, <3>3, <4>1, <4>2, <4>3, TimingAssumption
      <3>5. /\ \A k \in Keys : k # Key(e) => operations'[k] = operations[k]
            /\ operations'[Key(e)] = [operations[Key(e)] EXCEPT !.updatedAt = ClaimedAt(e)]
        BY <1>1, <2>1, <2>2 DEF ReclaimRow, TypeOK, TablesTypeOK
      <3>6. /\ operations'[Key(e)].fingerprint = Fingerprint(e)
            /\ operations'[Key(e)].status = "processing"
            /\ operations'[Key(e)].updatedAt = ClaimedAt(e)
            /\ operations'[Key(e)].createdAt = operations[Key(e)].createdAt
            /\ operations'[Key(e)] \in Operation
        BY <2>1, <3>3, <3>5 DEF Operation
      <3>7. operations[Key(e)].createdAt <= ClaimedAt(e)
        <4>1. operations[Key(e)].createdAt <= operations[Key(e)].updatedAt
          BY <2>1, <3>3, NullsAssumption DEF LeaseInvariant, RowTimesOrdered
        <4> QED
          BY <2>1, <3>3, <4>1, TimingAssumption DEF Operation
      <3>8. operations'[Key(e)] # NoOperation
        BY <3>6, NullsAssumption
      <3> QED
        BY <1>1, <2>1, <3>2, <3>4, <3>5, <3>6, <3>7, <3>8, StampingKeepsLease
    <2>3. CASE ~stale /\ Goto(e, "select") /\ UNCHANGED <<tables, attempt>>
      <3>1. /\ UNCHANGED operations /\ pc'[e] = "select"
            /\ \A d \in Executions : d # e => pc'[d] = pc[d]
        BY <1>1, <2>3 DEF Goto, tables, TypeOK
      <3>2. ~Holds(e)'
        BY <3>1 DEF Holds, HeldSteps
      <3> QED
        BY <1>1, <2>1, <2>3, <3>1, <3>2, UnmovedRowsKeepLease
    <2> QED
      BY <1>4, <2>2, <2>3 DEF ReclaimOperation
  <1>5. ASSUME NEW e \in Executions, SelectOperation(e) PROVE LeaseInvariant'
    <2>1. /\ pc[e] = "select" /\ UNCHANGED <<now, request, startedAt, operations>>
          /\ \E step \in {"insert", "done"} : pc' = [pc EXCEPT ![e] = step]
      BY <1>5 DEF SelectOperation, RetryClaim, Goto, Throw, Return, tables
    <2>2. /\ \A d \in Executions : d # e => pc'[d] = pc[d]
          /\ ~Holds(e)' /\ Live(e) /\ pc'[e] # "select"
      BY <1>1, <2>1 DEF TypeOK, Holds, HeldSteps, Live
    <2> QED
      BY <1>1, <2>1, <2>2, UnmovedRowsKeepLease
  <1>6. ASSUME NEW e \in Executions, NEW error,
               CircuitRefuses(e) \/ AttemptApproved(e) \/ AttemptFails(e, error)
        PROVE  LeaseInvariant'
    <2>1. /\ pc[e] = "provider" /\ UNCHANGED <<now, request, startedAt, operations>>
          /\ \E step \in {"provider", "release", "complete", "done"} :
               pc' = [pc EXCEPT ![e] = step]
      BY <1>1, <1>6 DEF CircuitRefuses, AttemptApproved, AttemptFails, ProviderThrows, Goto,
         Throw, tables, TypeOK
    <2>2. /\ \A d \in Executions : d # e => pc'[d] = pc[d]
          /\ Holds(e) /\ Live(e) /\ pc'[e] # "select"
      BY <1>1, <2>1 DEF TypeOK, Holds, HeldSteps, Live
    <2> QED
      BY <1>1, <2>1, <2>2, UnmovedRowsKeepLease
  <1>7. ASSUME NEW e \in Executions, ReleaseOperation(e) PROVE LeaseInvariant'
    <2>1. /\ Holds(e) /\ UNCHANGED <<now, request, startedAt>>
          /\ pc' = [pc EXCEPT ![e] = "done"]
          /\ Key(e) \in Keys
      BY <1>1, <1>7, RequestTyped DEF ReleaseOperation, Throw, Holds, HeldSteps
    <2>2. Releasable(Key(e), Fingerprint(e))
      BY <2>1 DEF LeaseInvariant, HolderStampedRow, Releasable
    <2>3. operations' = [operations EXCEPT ![Key(e)] = NoOperation]
      BY <1>7, <2>2 DEF ReleaseOperation, DeleteRow
    <2>4. /\ operations'[Key(e)] = NoOperation
          /\ \A k \in Keys : k # Key(e) => operations'[k] = operations[k]
      BY <1>1, <2>1, <2>3 DEF TypeOK, TablesTypeOK
    <2> QED
      BY <1>1, <2>1, <2>4, GivingUpKeepsLease
  <1>8. ASSUME NEW e \in Executions, CompleteOperation(e) PROVE LeaseInvariant'
    <2>1. /\ Holds(e) /\ UNCHANGED <<now, request, startedAt>>
          /\ pc' = [pc EXCEPT ![e] = "done"]
          /\ Key(e) \in Keys /\ completedAt[e] \in Nat
      BY <1>1, <1>8, RequestTyped DEF CompleteOperation, Return, Throw, Holds, HeldSteps
    <2>2. CASE Completable(Key(e), Fingerprint(e), completedAt[e])
      <3>1. /\ operations'[Key(e)] =
                 [fingerprint |-> operations[Key(e)].fingerprint, status |-> "completed",
                  transaction |-> e, createdAt |-> operations[Key(e)].createdAt,
                  updatedAt |-> completedAt[e]]
            /\ \A k \in Keys : k # Key(e) => operations'[k] = operations[k]
        BY <1>1, <1>8, <2>1, <2>2
           DEF CompleteOperation, CommitCompletion, TypeOK, TablesTypeOK
      <3>2. completedAt[e] >= operations[Key(e)].createdAt /\ operations[Key(e)] \in Operation
        BY <1>1, <2>1, <2>2 DEF Completable, ProcessingRow, TypeOK, TablesTypeOK
      <3>3. operations'[Key(e)].createdAt <= operations'[Key(e)].updatedAt
        BY <2>1, <3>1, <3>2 DEF Operation
      <3>4. operations'[Key(e)].status = "completed"
        BY <3>1
      <3>5. \A k \in Keys : k # Key(e) => operations'[k] = operations[k]
        BY <3>1
      <3> QED
        BY <1>1, <2>1, <3>3, <3>4, <3>5, GivingUpKeepsLease
    <2>3. CASE ~Completable(Key(e), Fingerprint(e), completedAt[e])
      <3>1. UNCHANGED operations
        BY <1>8, <2>3 DEF CompleteOperation, tables
      <3>2. /\ \A d \in Executions : d # e => pc'[d] = pc[d]
            /\ Live(e) /\ pc'[e] # "select"
        BY <1>1, <2>1 DEF TypeOK, Live, Holds, HeldSteps
      <3> QED
        BY <1>1, <2>1, <3>1, <3>2, UnmovedRowsKeepLease
    <2> QED
      BY <2>2, <2>3
  <1>9. ASSUME NEW e \in Executions, StatementFails(e) \/ Crash(e) PROVE LeaseInvariant'
    <2>1. /\ Live(e) /\ UNCHANGED <<now, request, startedAt, operations>>
          /\ pc' = [pc EXCEPT ![e] = "done"]
      BY <1>1, <1>9 DEF StatementFails, Crash, Throw, tables, Live, ClaimSteps
    <2>2. /\ \A d \in Executions : d # e => pc'[d] = pc[d]
          /\ ~Holds(e)' /\ pc'[e] # "select"
      BY <1>1, <2>1 DEF TypeOK, Holds, HeldSteps
    <2> QED
      BY <1>1, <2>1, <2>2, UnmovedRowsKeepLease
  <1>10. ASSUME UNCHANGED <<now, request, pc, startedAt, operations>> PROVE LeaseInvariant'
    BY <1>1, <1>10 DEF LeaseInvariant, LeaseExclusion, HolderStampedRow, RowTimesOrdered,
       RunningInWindow, SelectSeesLease, Holds, Live, Key, Fingerprint, ClaimedAt,
       ProcessingRow
  <1>11. ASSUME NEW k \in Keys, NEW f \in Fingerprints, LateRequestProcessed(k, f)
         PROVE  LeaseInvariant'
    BY <1>10, <1>11 DEF LateRequestProcessed, tables
  <1>12. CASE Tick
    <2>1. UNCHANGED <<request, pc, startedAt, operations>> /\ now' = now + 1
      BY <1>12 DEF Tick, tables
    <2>2. LeaseExclusion' /\ HolderStampedRow' /\ RowTimesOrdered' /\ SelectSeesLease'
      BY <2>1 DEF LeaseInvariant, LeaseExclusion, HolderStampedRow, RowTimesOrdered,
         SelectSeesLease, Holds, Key, Fingerprint, ClaimedAt, ProcessingRow
    <2>3. RunningInWindow'
      <3> SUFFICES ASSUME NEW e \in Executions, Live(e)
                   PROVE  startedAt[e] <= now + 1 /\ now + 1 <= startedAt[e] + ExecutionWindow
        BY <2>1 DEF RunningInWindow, Live
      <3>1. now < startedAt[e] + ExecutionWindow /\ startedAt[e] <= now
        BY <1>12 DEF Tick, LeaseTiming, LeaseInvariant, RunningInWindow
      <3>2. now \in Nat /\ startedAt[e] \in Nat
        BY <1>1 DEF TypeOK
      <3> QED
        BY <3>1, <3>2, TimingAssumption
    <2> QED
      BY <1>1, <2>2, <2>3 DEF LeaseInvariant
  <1>13. CASE UNCHANGED vars
    BY <1>10, <1>13 DEF vars, tables
  <1> QED
    BY <1>2, <1>3, <1>4, <1>5, <1>6, <1>7, <1>8, <1>9, <1>11, <1>12, <1>13
       DEF Next, Step, Quiescent

\* The lease's invariant holds in every reachable state.
THEOREM LeaseIsKept == LeaseTiming => (Spec => []LeaseInvariant)
  <1> SUFFICES ASSUME LeaseTiming PROVE Spec => []LeaseInvariant
    OBVIOUS
  <1>1. Init => LeaseInvariant
    BY InitEstablishesLease
  <1>2. LeaseInvariant /\ CompletionHasResult /\ [Next]_vars => LeaseInvariant'
    BY NextKeepsLease
  <1> QED
    BY <1>1, <1>2, LeaseTyped, PTL DEF Spec

\* At most one execution of a key is past the claim, and what it will release or
\* complete is its own row.
THEOREM LeaseIsExclusive ==
  LeaseTiming => (Spec => [](LeaseExclusion /\ HolderOwnsRow))
  <1> SUFFICES ASSUME LeaseTiming PROVE Spec => [](LeaseExclusion /\ HolderOwnsRow)
    OBVIOUS
  <1>1. LeaseInvariant => LeaseExclusion /\ HolderOwnsRow
    <2> SUFFICES ASSUME LeaseInvariant, NEW e \in Executions, Holds(e)
                 PROVE  /\ ProcessingRow(Key(e), Fingerprint(e))
                        /\ operations[Key(e)].updatedAt = ClaimedAt(e)
                        /\ completedAt[e] >= ClaimedAt(e) =>
                             completedAt[e] >= operations[Key(e)].createdAt
      BY DEF LeaseInvariant, HolderOwnsRow, Completable
    <2>1. /\ ProcessingRow(Key(e), Fingerprint(e))
          /\ operations[Key(e)].updatedAt = ClaimedAt(e)
      BY DEF LeaseInvariant, HolderStampedRow
    <2>2. operations[Key(e)] \in Operation /\ Key(e) \in Keys
      BY <2>1, RequestTyped DEF LeaseInvariant, ProcessingRow, TypeOK, TablesTypeOK
    <2>3. operations[Key(e)].createdAt <= ClaimedAt(e)
      BY <2>1, <2>2, NullsAssumption DEF LeaseInvariant, RowTimesOrdered
    <2>4. ClaimedAt(e) \in Nat /\ completedAt[e] \in Nat
      BY RequestTyped DEF LeaseInvariant
    <2> QED
      BY <2>1, <2>2, <2>3, <2>4 DEF Operation
  <1> QED
    BY <1>1, LeaseIsKept, PTL

\* A request is refused as "in progress" only on a claim that is still leased.
THEOREM InProgressOnlyWhileLeased == LeaseTiming => (Spec => InProgressMeansLeased)
  <1> SUFFICES ASSUME LeaseTiming PROVE Spec => InProgressMeansLeased
    OBVIOUS
  <1> DEFINE Leased ==
        \A e \in Executions :
          (answer[e] # "in_progress" /\ answer'[e] = "in_progress") =>
            operations[Key(e)].updatedAt > ClaimedAt(e) - StaleTimeout
  <1>1. LeaseInvariant /\ [Next]_vars => [Leased]_vars
    <2> SUFFICES ASSUME LeaseInvariant, Next, NEW e \in Executions,
                        answer[e] # "in_progress", answer'[e] = "in_progress"
                 PROVE  pc[e] = "select" /\ ProcessingRow(Key(e), Fingerprint(e))
      BY DEF LeaseInvariant, SelectSeesLease
    <2>1. TypeOK
      BY DEF LeaseInvariant
    <2>2. ASSUME NEW d \in Executions, Execute(d) PROVE FALSE
      BY <2>2 DEF Execute, Goto
    <2>3. ASSUME NEW d \in Executions, InsertOperation(d) PROVE FALSE
      BY <2>1, <2>3 DEF InsertOperation, NewClaim, Goto, Throw, TypeOK
    <2>4. ASSUME NEW d \in Executions, ReclaimOperation(d) PROVE FALSE
      BY <2>1, <2>4 DEF ReclaimOperation, NewClaim, Goto, Throw, TypeOK
    <2>5. ASSUME NEW d \in Executions, SelectOperation(d)
          PROVE  pc[e] = "select" /\ ProcessingRow(Key(e), Fingerprint(e))
      BY <2>1, <2>5 DEF SelectOperation, RetryClaim, Goto, Throw, Return, ProcessingRow, TypeOK
    <2>6. ASSUME NEW d \in Executions, NEW error, ProviderThrows(d, error) PROVE FALSE
      BY <2>1, <2>6 DEF ProviderThrows, ClassifyProviderFailure, Throw, TypeOK
    <2>7. ASSUME NEW d \in Executions, NEW error,
                 CircuitRefuses(d) \/ AttemptApproved(d) \/ AttemptFails(d, error)
          PROVE  FALSE
      BY <2>6, <2>7 DEF CircuitRefuses, AttemptApproved, AttemptFails, Goto
    <2>8. ASSUME NEW d \in Executions, ReleaseOperation(d) PROVE FALSE
      BY <2>1, <2>8 DEF ReleaseOperation, Throw, TypeOK
    <2>9. ASSUME NEW d \in Executions, CompleteOperation(d) PROVE FALSE
      BY <2>1, <2>9 DEF CompleteOperation, Return, Throw, TypeOK
    <2>10. ASSUME NEW d \in Executions, StatementFails(d) \/ Crash(d) PROVE FALSE
      BY <2>1, <2>10 DEF StatementFails, Crash, Throw, TypeOK
    <2>11. answer' = answer => FALSE
      OBVIOUS
    <2> QED
      BY <2>2, <2>3, <2>4, <2>5, <2>7, <2>8, <2>9, <2>10, <2>11
         DEF Next, Step, LateRequestProcessed, Tick, Quiescent, vars
  <1> QED
    BY <1>1, LeaseIsKept, PTL DEF Spec, InProgressMeansLeased
================================================================================
