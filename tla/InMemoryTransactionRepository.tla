--------------------- MODULE InMemoryTransactionRepository ---------------------
(***************************************************************************)
(* The test double of the repository (infrastructure/repositories/          *)
(* in-memory-transaction-repository.ts): what each of its methods would do    *)
(* on the state the tables are in, beside what the statements of              *)
(* PostgresTransactionRepository do there.                                    *)
(*                                                                           *)
(* Its Maps are read here as the two tables: a method of the double runs in   *)
(* one turn of the event loop, and asks its questions in another order than   *)
(* the statements.  A test written against the double says something of       *)
(* production where the two agree.                                            *)
(***************************************************************************)
EXTENDS CreateTransaction

\* The result of a claim, and the row it leaves.
Claim(kind, row) == [kind |-> kind, row |-> row]

\* claimIdempotencyOperation of the double, called by e now.
MemoryClaim(e) ==
  LET existing == operations[Key(e)]
  IN  CASE existing = NoOperation
             -> Claim("new_claim", ClaimedRow(Fingerprint(e), Clock(e)))
        [] existing # NoOperation /\ existing.fingerprint # Fingerprint(e)
             -> Claim("fingerprint_conflict", existing)
        [] OTHER
             -> IF existing.status = "completed" /\ existing.transaction # NoTransaction
                  THEN Claim(IF transactions[existing.transaction] = NoTransaction
                               THEN "error" ELSE "completed_replay", existing)
                ELSE IF existing.updatedAt <= Clock(e) - StaleTimeout
                  THEN Claim("new_claim", [existing EXCEPT !.updatedAt = Clock(e)])
                  ELSE Claim("processing", existing)

\* The claim's INSERT, UPDATE and SELECT with nothing in between: the steps
\* InsertOperation, ReclaimOperation and SelectOperation, without other actors.
StatementsClaim(e) ==
  LET row == operations[Key(e)]
  IN  CASE row = NoOperation
             -> Claim("new_claim", ClaimedRow(Fingerprint(e), Clock(e)))
        [] Reclaimable(Key(e), Fingerprint(e), Clock(e) - StaleTimeout)
             -> Claim("new_claim", [row EXCEPT !.updatedAt = Clock(e)])
        [] OTHER
             -> Claim(IF row.fingerprint # Fingerprint(e) THEN "fingerprint_conflict"
                      ELSE IF row.status = "completed" THEN "completed_replay"
                      ELSE "processing", row)

\* completeIdempotencyOperation of the double throws unless it finds this.
MemoryCompletable(e) ==
  LET existing == operations[Key(e)]
  IN  /\ existing # NoOperation
      /\ existing.status = "processing"
      /\ existing.fingerprint = Fingerprint(e)

\* releaseIdempotencyOperation of the double deletes what it finds so.
MemoryReleasable(e) ==
  LET existing == operations[Key(e)]
  IN  /\ existing # NoOperation
      /\ existing.status = "processing"
      /\ existing.fingerprint = Fingerprint(e)

\* In every state that crashes, reclaims and overlapping executions reach, the
\* double answers a claim as the three statements do, leaves the same row, and
\* accepts the same completions and releases; it never meets its "Completed
\* idempotency operation has no transaction".  (Clocks that differ would let the
\* double complete what the table's CHECK refuses: it has no such check.)
DoubleAgreesWithStatements ==
  \A e \in Executions :
    /\ MemoryClaim(e) = StatementsClaim(e)
    /\ MemoryCompletable(e) <=> Completable(Key(e), Fingerprint(e), Clock(e))
    /\ MemoryReleasable(e) <=> Releasable(Key(e), Fingerprint(e))
===============================================================================
