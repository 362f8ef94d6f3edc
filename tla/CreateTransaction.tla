--------------------------- MODULE CreateTransaction ---------------------------
(***************************************************************************)
(* POST /transactions from the claim to the answer: concurrent executions of *)
(* CreateTransaction.execute, in any number of replicas, over the shared     *)
(* tables of PostgresTransactionRepository and a payment provider that       *)
(* honours the Idempotency-Key it is sent.                                   *)
(*                                                                           *)
(* Every await of the code is a step boundary.  A step that runs a statement *)
(* may apply it and lose the reply; a statement may also fail before it is   *)
(* applied, and a replica may crash at any point.  A request the client gave *)
(* up on (timeout, broken connection) may still reach the provider later.    *)
(***************************************************************************)
EXTENDS PostgresTransactionRepository, ProviderFailurePolicy

CONSTANTS
  Executions,       \* calls of execute; an execution names the UUID it generates
  NoResult,         \* the provider has approved nothing for a key
  MaxAttempts,      \* retryPolicy.config.maxAttempts
  StaleTimeout,     \* processingTimeoutMs
  ExecutionWindow,  \* maximumProviderExecutionWindowMs
  MaxSkew,          \* largest difference between two clock readings of one moment,
                    \* of two replicas or of one before and after it was set
  Punctual,         \* every execution ends within ExecutionWindow
  MaxTime           \* bound on the clock

ASSUME ExecutionsAssumption == TransactionIds = Executions

ASSUME ResultsAssumption == NoResult \notin Fingerprints

ASSUME TimingAssumption ==
  /\ MaxAttempts \in Nat \ {0}
  /\ StaleTimeout \in Nat
  /\ ExecutionWindow \in Nat
  /\ MaxSkew \in Nat
  /\ MaxTime \in Nat
  /\ Punctual \in BOOLEAN

VARIABLES
  now,        \* real time
  request,    \* key, fingerprint and clock skew of the replica of each execution
  pc,         \* the await each execution is at
  startedAt,  \* real time at which the execution read claimedAt
  completedAt, \* the clock as the execution read it before the completion
  attempt,    \* the loop counter: of the claim, then of the provider attempts
  answer,     \* how execute ended; in "release", the error it will rethrow
  returned,   \* the transaction execute returned
  approved,   \* provider: the request it charged for each key
  late        \* provider: requests the client gave up on, not yet processed

tables == <<operations, transactions, released>>
provider == <<approved, late>>
vars ==
  <<now, request, pc, startedAt, completedAt, attempt, answer, returned, tables,
    provider>>

\* The awaits of execute, in order.
ClaimSteps == {"insert", "reclaim", "select"}
HeldSteps == {"provider", "release", "complete"}
Steps == {"idle", "done"} \cup ClaimSteps \cup HeldSteps

Answers ==
  {"none", "created", "replay", "conflict", "in_progress", "internal_error",
   "ambiguous", "definitive_rejection", "not_started"}

Key(e) == request[e].key
Fingerprint(e) == request[e].fingerprint

\* clock.now() in the replica of e, and the claimedAt it read at the start.
Clock(e) == now + request[e].skew
ClaimedAt(e) == startedAt[e] + request[e].skew

\* e has the claim, as far as it knows.
Holds(e) == pc[e] \in HeldSteps
Live(e) == pc[e] \notin {"idle", "done"}

Init ==
  /\ now = 0
  /\ request \in
       [Executions -> [key : Keys, fingerprint : Fingerprints, skew : 0 .. MaxSkew]]
  /\ pc = [e \in Executions |-> "idle"]
  /\ startedAt = [e \in Executions |-> 0]
  /\ completedAt = [e \in Executions |-> 0]
  /\ attempt = [e \in Executions |-> 0]
  /\ answer = [e \in Executions |-> "none"]
  /\ returned = [e \in Executions |-> NoTransaction]
  /\ approved = [k \in Keys |-> NoResult]
  /\ late = {}
  /\ EmptyTables

-------------------------------------------------------------------------------
(* Control of one execution.                                                *)

\* e waits for its next await.
Goto(e, step) ==
  /\ pc' = [pc EXCEPT ![e] = step]
  /\ UNCHANGED <<answer, returned>>

\* execute returns a transaction,
Return(e, how, id) ==
  /\ pc' = [pc EXCEPT ![e] = "done"]
  /\ answer' = [answer EXCEPT ![e] = how]
  /\ returned' = [returned EXCEPT ![e] = id]

\* or throws an error.
Throw(e, how) ==
  /\ pc' = [pc EXCEPT ![e] = "done"]
  /\ answer' = [answer EXCEPT ![e] = how]
  /\ UNCHANGED returned

\* execute: normalise, fingerprint, read claimedAt, start the claim.
Execute(e) ==
  /\ pc[e] = "idle"
  /\ Goto(e, "insert")
  /\ startedAt' = [startedAt EXCEPT ![e] = now]
  /\ UNCHANGED <<now, request, completedAt, attempt, tables, provider>>

-------------------------------------------------------------------------------
(* claimIdempotencyOperation: INSERT, UPDATE, SELECT, at most twice.         *)

\* new_claim: go on to the provider, or learn nothing because the reply is lost.
NewClaim(e) ==
  /\ attempt' = [attempt EXCEPT ![e] = 0]
  /\ Goto(e, "provider") \/ Throw(e, "internal_error")

InsertOperation(e) ==
  /\ pc[e] = "insert"
  /\ \/ /\ operations[Key(e)] = NoOperation
        /\ InsertRow(Key(e), Fingerprint(e), ClaimedAt(e))
        /\ NewClaim(e)
     \/ /\ operations[Key(e)] # NoOperation
        /\ Goto(e, "reclaim")
        /\ UNCHANGED <<tables, attempt>>
  /\ UNCHANGED <<now, request, startedAt, completedAt, provider>>

ReclaimOperation(e) ==
  /\ pc[e] = "reclaim"
  /\ LET stale == Reclaimable(Key(e), Fingerprint(e), ClaimedAt(e) - StaleTimeout)
     IN  \/ stale /\ ReclaimRow(Key(e), ClaimedAt(e)) /\ NewClaim(e)
         \/ ~stale /\ Goto(e, "select") /\ UNCHANGED <<tables, attempt>>
  /\ UNCHANGED <<now, request, startedAt, completedAt, provider>>

\* The row vanished since the INSERT: start over once, then give up.
RetryClaim(e) ==
  \/ /\ attempt[e] = 0
     /\ attempt' = [attempt EXCEPT ![e] = 1]
     /\ Goto(e, "insert")
  \/ /\ attempt[e] # 0
     /\ Throw(e, "internal_error")
     /\ UNCHANGED attempt

SelectOperation(e) ==
  /\ pc[e] = "select"
  /\ LET row == operations[Key(e)]
     IN  \/ row = NoOperation /\ RetryClaim(e)
         \/ /\ row # NoOperation
            /\ UNCHANGED attempt
            /\ \/ row.fingerprint # Fingerprint(e) /\ Throw(e, "conflict")
               \/ /\ row.fingerprint = Fingerprint(e)
                  /\ row.status = "completed"
                  /\ Return(e, "replay", row.transaction)
               \/ /\ row.fingerprint = Fingerprint(e)
                  /\ row.status = "processing"
                  /\ Throw(e, "in_progress")
  /\ UNCHANGED <<now, request, startedAt, completedAt, tables, provider>>

-------------------------------------------------------------------------------
(* paymentProvider.process, as ResilientPaymentProvider can end it.          *)

\* The provider charges a request unless it has already charged its key.
Charge(k, f) ==
  approved' = IF approved[k] = NoResult THEN [approved EXCEPT ![k] = f] ELSE approved

\* The catch clause of execute releases the claim on these errors.
ReleasingErrors == {"rejected", "circuit_open"}

\* process throws: release the claim first, or rethrow and leave it processing.
ProviderThrows(e, error) ==
  LET outcome == ClassifyProviderFailure(error).outcome
  IN  \/ /\ error \in ReleasingErrors
         /\ pc' = [pc EXCEPT ![e] = "release"]
         /\ answer' = [answer EXCEPT ![e] = outcome]
         /\ UNCHANGED returned
      \/ error \notin ReleasingErrors /\ Throw(e, outcome)

\* The breaker refuses the operation before its first attempt.
CircuitRefuses(e) ==
  /\ pc[e] = "provider"
  /\ attempt[e] = 0
  /\ ProviderThrows(e, "circuit_open")
  /\ UNCHANGED <<now, request, startedAt, completedAt, attempt, tables, provider>>

\* An attempt is approved, or replayed by the provider, and its reply arrives.
\* execute reads the clock and calls the completion: the clock may have been set,
\* forwards or back, since claimedAt was read from it.
AttemptApproved(e) ==
  /\ pc[e] = "provider"
  /\ Charge(Key(e), Fingerprint(e))
  /\ \E skew \in 0 .. MaxSkew : completedAt' = [completedAt EXCEPT ![e] = now + skew]
  /\ Goto(e, "complete")
  /\ UNCHANGED <<now, request, startedAt, attempt, tables, late>>

\* Errors that say the provider refused the request.
Refusals == {"rejected", "rate_limited"}

\* Mutant: the loop counter of the retries is not advanced.
AttemptFailsUncounted(e, error) ==
  /\ pc[e] = "provider"
  /\ error = "rejected" => approved[Key(e)] = NoResult
  /\ late' = IF error \in Refusals THEN late
                                   ELSE late \cup {<<Key(e), Fingerprint(e)>>}
  /\ LET retry == ClassifyProviderFailure(error).retryable
     IN  \/ retry /\ UNCHANGED <<pc, attempt, answer, returned>>
         \/ ~retry /\ ProviderThrows(e, error) /\ UNCHANGED attempt
  /\ UNCHANGED <<now, request, startedAt, completedAt, tables, approved>>

\* An attempt fails.  The provider may process what it did not refuse, before or
\* after the failure is seen; it does not reject a key it has charged.
AttemptFails(e, error) ==
  /\ pc[e] = "provider"
  /\ error = "rejected" => approved[Key(e)] = NoResult
  /\ late' = IF error \in Refusals THEN late
                                   ELSE late \cup {<<Key(e), Fingerprint(e)>>}
  /\ LET retry == /\ attempt[e] + 1 < MaxAttempts
                  /\ ClassifyProviderFailure(error).retryable
     IN  \/ /\ retry
            /\ attempt' = [attempt EXCEPT ![e] = attempt[e] + 1]
            /\ UNCHANGED <<pc, answer, returned>>
         \/ ~retry /\ ProviderThrows(e, error) /\ UNCHANGED attempt
  /\ UNCHANGED <<now, request, startedAt, completedAt, tables, approved>>

\* A request the client gave up on reaches the provider after all.
LateRequestProcessed(k, f) ==
  /\ <<k, f>> \in late
  /\ late' = late \ {<<k, f>>}
  /\ Charge(k, f)
  /\ UNCHANGED <<now, request, pc, startedAt, completedAt, attempt, answer, returned,
                 tables>>

-------------------------------------------------------------------------------
(* releaseIdempotencyOperation and completeIdempotencyOperation.             *)

ReleaseOperation(e) ==
  /\ pc[e] = "release"
  /\ \/ Releasable(Key(e), Fingerprint(e)) /\ DeleteRow(Key(e))
     \/ ~Releasable(Key(e), Fingerprint(e)) /\ UNCHANGED tables
  /\ Throw(e, answer[e]) \/ Throw(e, "internal_error")
  /\ UNCHANGED <<now, request, startedAt, completedAt, attempt, provider>>

\* The row of transactions that e builds from the provider's result.
BuiltTransaction(e) ==
  [fingerprint |-> Fingerprint(e), charged |-> approved[Key(e)]]

CompleteOperation(e) ==
  /\ pc[e] = "complete"
  /\ \/ /\ Completable(Key(e), Fingerprint(e), completedAt[e])
        /\ CommitCompletion(Key(e), e, BuiltTransaction(e), completedAt[e])
        /\ Return(e, "created", e) \/ Throw(e, "internal_error")
     \/ /\ ~Completable(Key(e), Fingerprint(e), completedAt[e])
        /\ Throw(e, "internal_error")
        /\ UNCHANGED tables
  /\ UNCHANGED <<now, request, startedAt, completedAt, attempt, provider>>

-------------------------------------------------------------------------------
(* Failures, time and the specification.                                     *)

\* A statement fails before it is applied.
StatementFails(e) ==
  /\ pc[e] \in ClaimSteps \cup {"release", "complete"}
  /\ Throw(e, "internal_error")
  /\ UNCHANGED <<now, request, startedAt, completedAt, attempt, tables, provider>>

\* The replica of e dies; a request it had sent may still reach the provider.
Crash(e) ==
  /\ Live(e)
  /\ Throw(e, "none")
  /\ late' = IF pc[e] = "provider" THEN late \cup {<<Key(e), Fingerprint(e)>>}
                                   ELSE late
  /\ UNCHANGED <<now, request, startedAt, completedAt, attempt, tables, approved>>

\* Time passes.  Punctual executions do not outlive the execution window that
\* validateProviderTiming checks the stale timeout against.
Tick ==
  /\ now < MaxTime
  /\ Punctual => \A e \in Executions : Live(e) => now < startedAt[e] + ExecutionWindow
  /\ now' = now + 1
  /\ UNCHANGED <<request, pc, startedAt, completedAt, attempt, answer, returned, tables,
                 provider>>

\* Every request of the instance has ended.
Quiescent ==
  /\ \A e \in Executions : pc[e] = "done"
  /\ UNCHANGED vars

Step(e) ==
  \/ InsertOperation(e) \/ ReclaimOperation(e) \/ SelectOperation(e)
  \/ CircuitRefuses(e) \/ AttemptApproved(e)
  \/ \E error \in ErrorKinds \ {"circuit_open"} : AttemptFails(e, error)
  \/ ReleaseOperation(e) \/ CompleteOperation(e)
  \/ StatementFails(e) \/ Crash(e)

Next ==
  \/ \E e \in Executions : Execute(e) \/ Step(e)
  \/ \E k \in Keys, f \in Fingerprints : LateRequestProcessed(k, f)
  \/ Tick
  \/ Quiescent

Spec == Init /\ [][Next]_vars

\* An attempt is aborted by its timeout, a backoff by its timer, and a statement
\* ends with the connection at the latest: a started execution keeps stepping.
FairSpec == Spec /\ \A e \in Executions : WF_vars(Step(e))

-------------------------------------------------------------------------------
(* Properties that hold whatever the timing.                                 *)

TypeOK ==
  /\ now \in Nat
  /\ request \in
       [Executions -> [key : Keys, fingerprint : Fingerprints, skew : 0 .. MaxSkew]]
  /\ pc \in [Executions -> Steps]
  /\ startedAt \in [Executions -> Nat]
  /\ completedAt \in [Executions -> Nat]
  /\ attempt \in [Executions -> Nat]
  /\ answer \in [Executions -> Answers]
  /\ returned \in [Executions -> Executions \cup {NoTransaction}]
  /\ approved \in [Keys -> Fingerprints \cup {NoResult}]
  /\ late \subseteq Keys \X Fingerprints
  /\ TablesTypeOK

Completed(k) == operations[k] # NoOperation /\ operations[k].status = "completed"

\* The row of k is the completion of execution e.
CompletedBy(k, e) ==
  /\ Completed(k)
  /\ operations[k].transaction = e
  /\ operations[k].fingerprint = Fingerprint(e)

\* The transactions table and the completed operations describe each other: a
\* stored transaction is the result of its key's completed operation, of the same
\* request, and a completed operation names a stored transaction of its key.  No
\* failure between the two writes of completeIdempotencyOperation, and no release
\* or reclaim that overlaps it, leaves an orphan or a dangling reference.
TransactionsAreCompletions ==
  /\ \A e \in Executions :
       transactions[e] # NoTransaction =>
         CompletedBy(Key(e), e) /\ transactions[e].fingerprint = Fingerprint(e)
  /\ \A k \in Keys :
       Completed(k) =>
         \E e \in Executions : /\ Key(e) = k
                               /\ CompletedBy(k, e)
                               /\ transactions[e] # NoTransaction

\* However many executions of a key overlap, after reclaims and releases, the key
\* gets at most one Transaction.
OneTransactionPerKey ==
  \A d, e \in Executions :
    (transactions[d] # NoTransaction /\ transactions[e] # NoTransaction
       /\ Key(d) = Key(e)) => d = e

\* Every execution that returned a transaction, created or replayed, returned the
\* one its key still has, and that transaction stores the request's own payload.
AnswersAgree ==
  \A e \in Executions :
    returned[e] # NoTransaction =>
      /\ Completed(Key(e))
      /\ operations[Key(e)].transaction = returned[e]
      /\ transactions[returned[e]] # NoTransaction
      /\ transactions[returned[e]].fingerprint = Fingerprint(e)

\* An execution that has not ended has returned and stored nothing yet.
RunningIsFresh ==
  \A e \in Executions :
    pc[e] # "done" => returned[e] = NoTransaction /\ transactions[e] = NoTransaction

\* An execution completes with a result the provider gave for its key.
CompletionHasResult ==
  \A e \in Executions : pc[e] = "complete" => approved[Key(e)] # NoResult

\* The inductive invariant behind the properties above: what the tables say of
\* each other, what was answered, and what a running execution has not done yet.
StoreInvariant ==
  /\ TypeOK
  /\ TransactionsAreCompletions
  /\ AnswersAgree
  /\ RunningIsFresh
  /\ CompletionHasResult

\* A payment of payload f under key k is on record: the key's row is of that payload,
\* so that only requests with the payload claim, complete or replay it; or a release
\* deleted such a row.
Recorded(k, f) ==
  \/ operations[k] # NoOperation /\ operations[k].fingerprint = f
  \/ <<k, f>> \in released

\* Whatever is lost, late or overtaken, and whatever the clocks say, only a release
\* can part a payment from its record.  A payload the provider charged, or may still
\* charge, is the one its key is held for, until a release gives the key up: a
\* completion that the database refuses, a reclaim or a crash never does.  And a
\* stored transaction names a payment of its own payload, unless the payload that
\* was charged had been released before.
PaymentsAreAccountedFor ==
  /\ \A k \in Keys, f \in Fingerprints :
       (approved[k] = f \/ <<k, f>> \in late) => Recorded(k, f)
  /\ \A e \in Executions :
       transactions[e] # NoTransaction =>
         \/ transactions[e].charged = transactions[e].fingerprint
         \/ <<Key(e), transactions[e].charged>> \in released

\* The implementation of PaymentLedger: a key's outcome is the transaction of its
\* completed operation.
Ledger ==
  INSTANCE PaymentLedger WITH
    Requests <- Executions,
    keyOf <- [e \in Executions |-> Key(e)],
    outcome <- [k \in Keys |-> IF Completed(k) THEN operations[k].transaction
                                                ELSE NoTransaction]

\* execute, over failing statements, crashes and concurrent executions, keeps the
\* promise of PaymentLedger.
ImplementsLedger == Ledger!Spec

\* A started execution ends: the claim loop and the retry loop are bounded.
ExecutionsEnd == \A e \in Executions : Live(e) ~> pc[e] = "done"

-------------------------------------------------------------------------------
(* Properties of punctual executions, with a stale timeout that exceeds the   *)
(* execution window by more than the clock skew.                             *)

\* The lease is exclusive: no two executions of a key are past the claim at the
\* same time, although a claim carries no owner and is reclaimed by time alone.
LeaseExclusion ==
  \A d, e \in Executions : (Holds(d) /\ Holds(e) /\ Key(d) = Key(e)) => d = e

\* An execution past the claim finds its own row, unmoved: what it releases or
\* completes is its own claim, "Idempotency operation cannot be completed" is never
\* thrown, and the CHECK on the timestamps refuses the completion only if the clock
\* of the replica went back since the execution read claimedAt.
HolderOwnsRow ==
  \A e \in Executions :
    Holds(e) =>
      /\ ProcessingRow(Key(e), Fingerprint(e))
      /\ operations[Key(e)].updatedAt = ClaimedAt(e)
      /\ completedAt[e] >= ClaimedAt(e) =>
           Completable(Key(e), Fingerprint(e), completedAt[e])

\* updated_at >= created_at (idempotency_operations_timestamps_check).
RowTimesOrdered ==
  \A k \in Keys :
    operations[k] # NoOperation => operations[k].createdAt <= operations[k].updatedAt

\* An execution past the claim is the one whose claimedAt the row carries.
HolderStampedRow ==
  \A e \in Executions :
    Holds(e) => /\ ProcessingRow(Key(e), Fingerprint(e))
                /\ operations[Key(e)].updatedAt = ClaimedAt(e)

\* A running execution is inside its window.
RunningInWindow ==
  \A e \in Executions :
    Live(e) => startedAt[e] <= now /\ now <= startedAt[e] + ExecutionWindow

\* Between the UPDATE that found nothing to reclaim and the SELECT, no claim older
\* than the stale timeout can appear.
SelectSeesLease ==
  \A e \in Executions :
    (pc[e] = "select" /\ ProcessingRow(Key(e), Fingerprint(e))) =>
      operations[Key(e)].updatedAt > ClaimedAt(e) - StaleTimeout

\* The inductive invariant of the lease: the row carries its holder's stamp, the
\* holder is inside its window, so no other clock can see the stamp as stale.
LeaseInvariant ==
  /\ TypeOK
  /\ LeaseExclusion
  /\ HolderStampedRow
  /\ RowTimesOrdered
  /\ RunningInWindow
  /\ SelectSeesLease

\* What the lease needs: executions end within the window, and the stale timeout
\* exceeds it by more than two clocks can differ (validateProviderTiming requires
\* a margin of at least minimumStaleMarginMs).
LeaseTiming == Punctual /\ StaleTimeout > ExecutionWindow + MaxSkew

\* A request is told "in progress" only while the claim it found is younger than
\* the stale timeout: an abandoned operation is recovered by the first request
\* that comes after it, never refused.
InProgressMeansLeased ==
  [][\A e \in Executions :
       (answer[e] # "in_progress" /\ answer'[e] = "in_progress") =>
         operations[Key(e)].updatedAt > ClaimedAt(e) - StaleTimeout]_vars

-------------------------------------------------------------------------------
(* What the documentation says and the code does not do.                     *)

\* README.md and ADR 0002: a provider failure that may hide a payment keeps the
\* operation.  A request the provider has charged, or may still process after the
\* client gave up on it, is therefore recorded under its key until it completes.
ChargesAreRecorded ==
  \A k \in Keys, f \in Fingerprints :
    (approved[k] = f \/ <<k, f>> \in late) =>
      operations[k] # NoOperation /\ operations[k].fingerprint = f
===============================================================================
