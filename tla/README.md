# TLA+ models of resilient-transaction-api

The program is an HTTP API (TypeScript on Bun) that accepts a payment once per
`Idempotency-Key`, forwards it to an external payment provider through retries
and a circuit breaker, stores the result in PostgreSQL, and uses Redis for a read
cache and a rate limit. It is meant to run in several replicas. Everything that is
hard about it is an interleaving: replicas over shared tables, callers over one
breaker, commands that outlive the caller that sent them, pages that shift while
they are read, a process that starts after a migration and stops while requests
are in flight.

This directory holds TLA+ modules of those parts, TLC configurations that check
them on small instances, and TLAPS proofs of the central results for all
instances. Paths below are relative to the repository (`src/...` is its source
directory). `PROJECT.json` lists components, runs, mutants, the map from
definitions to source lines, findings, hazards and theorems.

    tlc -config MCCreateTransaction.cfg MCCreateTransaction
    tlapm CreateTransactionProofs.tla

## Inventory

| Part | State | Operations | Talks to | Hard part | Correct when |
| --- | --- | --- | --- | --- | --- |
| `CreateTransaction` + PostgreSQL repository | tables `idempotency_operations`, `transactions` | execute; claim (INSERT, UPDATE, SELECT), complete, release | provider, tables | no owner token on a claim, three-statement claim, crashes, lost replies, skewed clocks | one transaction and one answer per key; a live claim is not taken away |
| Circuit breaker | state, failures, openedAt, generation, probe flag | acquire, recordSuccess/Failure/NonFailure, state | wall clock | results of earlier eras, one probe, flag that leaks, a clock that is set | one probe, half-open neither early nor late, old results ignored, probe resolves |
| Resilient provider (retry, HTTP attempt) | attempt, timer, permit | process | breaker, provider | timer against reply, in headers and in body; admission only once per operation | bounded window, permit always returned |
| `GetTransaction` + Redis cache | cache entries, connection, outstanding commands | execute; GET, SET, DEL | Redis, tables | late commands, damaged entries, hanging Redis | answers are what the store holds; reads end |
| Redis rate limiter | counter with expiry | consume (Lua script) | Redis | several replicas, late scripts, key without expiry, rounding | quota per window, `Retry-After` sufficient, nobody locked out |
| HTTP boundary | body buffer, per request | route, size, authentication, quota, body, status | limiter, use cases | chunks against a limit, order of the checks, what a status promises | bounded chunks, quota of the right service, 4xx means nothing was paid |
| Lifecycle (tracker, readiness, shutdown) | active count, coordinator, resources | begin/release, check, shutdown | server, Redis, PostgreSQL | drain against last release, hanging close, stale readiness | no missed drain, bounded shutdown, clients closed after the requests |
| Migrations | `schema_migrations`, the schema | runMigrations | PostgreSQL | the check is outside the transaction, jobs overlap, die and are started again | every file once and in order; the API finds the whole schema |
| Configuration | the loaded configuration | loadConfig | lifecycle, provider, lease | timings that have to fit each other | what the other parts assume of the timings is checked at startup |
| List transactions | none | execute (list and count) | tables | two queries without a snapshot, OFFSET under insertions | nothing that was there is missed; total and data fit |
| In-memory repository and limiter | maps | test doubles of claim/complete/release and consume | - | another order of the same checks | they answer like the statements and the script |
| Fake provider (development) | results by key, outcome index | handler | API | await between lookup and store | a key is paid once (it is not, see Findings) |
| Observability, benchmarks, Terraform | - | - | - | - | not modelled: output, load generation, deployment |

`PROJECT.json` lists the hazards at their lines.

## Modules

    ProviderFailurePolicy ---+--> RetryPolicy ----> ResilientPaymentProvider --INSTANCE--> CircuitBreaker
                             +--> CreateTransaction --INSTANCE--> PaymentLedger
                             |      ^   \--> InMemoryTransactionRepository
                             |      +-- PostgresTransactionRepository
                             +--> HttpPipeline
    RetryPolicy --INSTANCE--> Configuration --> GracefulShutdown --+--> Deployment
                                                   Migrations -----+
    GetTransaction --INSTANCE--> TransactionReads
    RedisRateLimiter --> InMemoryRateLimiter
    ListTransactions     FakeProvider

The proofs are in modules of their own, each extending the module (or the top of
the chain) it is about: `CircuitBreakerProofs`, `ResilientPaymentProviderProofs`
(which takes the breaker's theorems with `INSTANCE CircuitBreakerProofs`),
`CreateTransactionProofs` (over `InMemoryTransactionRepository`),
`GetTransactionProofs`, `RateLimiterProofs` (over `InMemoryRateLimiter`),
`ListTransactionsProofs`, `HttpPipelineProofs`, `DeploymentProofs` (over
`Deployment`: lifecycle, configuration and migrations).

Each `MC*` module names the model values and the symmetry of the runs on its
component.

**CreateTransaction** (`create-transaction.ts`) over **PostgresTransactionRepository**
(`postgres-transaction-repository.ts`, the migration). An execution is one call of
`execute`; `pc` is the await it is at. One action per statement: `InsertOperation`,
`ReclaimOperation`, `SelectOperation` (with the second round of the claim loop),
the provider (`CircuitRefuses`, `AttemptApproved`, `AttemptFails`),
`ReleaseOperation`, `CompleteOperation`. `StatementFails` fails a statement before
it applies; a statement that applies may lose its reply; `Crash` ends an execution
anywhere; `LateRequestProcessed` is a request the client gave up on that reaches
the provider later. The provider is external and honours the key it is sent, as
README and ADR 0002 require. `Clock(e)` is real time plus the skew of the replica.
Timestamps in the rows are the ones of the claim, so staleness is compared the way
the SQL compares it; `completedAt` is the clock as it is read when the provider has
approved, before the completion is awaited, and the clock may have been set since the
claim, so the completion can fail the schema's CHECK. A payload is its fingerprint.
`charged` in a stored transaction is the payload the provider took the money for, and
the history variable `released` keeps the key and payload of each deleted row: both
are there for the accounts of payments (`PaymentsAreAccountedFor`).

**PaymentLedger** is the promise: a key gets at most one outcome, an answer never
contradicts it. `ImplementsLedger` is the refinement.

**InMemoryTransactionRepository** (`in-memory-transaction-repository.ts`) is the
test double, as operators on the same two tables: what its claim would answer and
leave, and what it would complete and release. It is compared with the statements,
run without interruption, in every state that `CreateTransaction` reaches. The
double has no counterpart of `idempotency_operations_timestamps_check`, so the two
agree for clocks that do not differ, and it runs `list` and `count` in one turn of
the event loop, so no test on it can show the race between them.

**CircuitBreaker** (`circuit-breaker.ts`) keeps the class's fields in one record;
`AfterAcquire`, `AfterSuccess`... are the methods, `Acquire`, `Record...` the calls
by concurrent callers who keep their permit as long as they like. Its clock is
`new Date()`: `now` is real time, `drift` what the wall clock is off (at most
`MaxDrift` either way), `ClockStepped` sets it, and `openedNow` remembers the real
time of the last opening.

**ResilientPaymentProvider** (`resilient-payment-provider.ts`,
`http-payment-provider.ts`, `retry-policy.ts`) has one record per operation: the
phase (fetching, body, sleeping), the attempt, the timer. The abort timer covers
`fetch` and `response.json()`, as in the code. `RetryPolicy` computes delays with
the code's rounding, at the two extremes of the random source.

**GetTransaction** (`get-transaction.ts`, `redis-transaction-cache.ts`,
`redis-client.ts`) has readers, a cache entry per id (a transaction, an entry of
another id, garbage), a connection, and the commands that nobody waits for any
more. **TransactionReads** is what a reader may observe.

**RedisRateLimiter** (`redis-rate-limiter.ts`): one subject's key, scripts that run
for a caller or for nobody, expiry that is lost once. Times are countdowns.
**InMemoryRateLimiter** (`in-memory-rate-limiter.ts`) is its test double, compared
with the script in every state in which the key has its expiry.

**ListTransactions** (`list-transactions.ts`, `list` and `count` of the repository,
`pagination-schema.ts`): a row is its `created_at` and its id, committed at any
moment with any `created_at`, since that is read before the commit. A request runs
its two queries in either order; a client walks the pages and stops after a page
that is not full, or after `totalPages`.

**GracefulShutdown** (`lifecycle.ts`, `readiness.ts`, `main.ts`, the wrapper in
`http/server.ts`): `loadConfig`, the startup check, the tracker, business requests,
readiness checks, and `performShutdown` await by await with its two timers.
**Configuration** (`config.ts`, the validations of `retry-policy.ts` and
`circuit-breaker.ts`) maps an environment to the configuration or to an error: an
unset variable is its default, a blank one is 0, and the numbers have to fit each
other. Strings, URLs, credentials and the key prefixes, which the constructors called
in `main` check, are one Boolean.

**Migrations** (`migrate.ts`): jobs step through the files; the SELECT is outside the
transaction that applies the file and inserts its row. PostgreSQL is external: a
file that creates a table waits for a transaction that is creating it and fails
once it is there, and so does the INSERT of a version. **Deployment** composes the
jobs with one API process, created when a job has succeeded (`compose.yml`), while
others may still run.

**HttpPipeline** (`http/server.ts`, `error-response.ts`, `service-authenticator.ts`):
routing and checks in the order of the code, the body chunk by chunk, the status of
each error. The use cases and the limiter are ports here.

**FakeProvider** (`dev/fake-provider.ts`, `dev/provider.ts`): the handler split at
its awaits.

## Runs

| Run | Instance | Shows |
| --- | --- | --- |
| `breaker` | 3 callers, threshold 2, interval 3, clock off by up to 1, 8 ticks, 4 generations, fair | one owned probe, half-open neither early nor late but for the clock's error, old eras ignored, a probe resolves |
| `create` | 3 executions, 1 key, 2 payloads, 2 attempts, stale timeout 1, executions of any length | one transaction per key, agreeing answers, refinement of the ledger, the test double agrees |
| `create_lease` | 2 executions on clocks that differ by up to 1, and may be set during an execution, 2 payloads, 2 attempts, window 1, stale timeout 3, 4 ticks, fair | the lease is exclusive; "in progress" only while it lasts; only a release parts a payment from its record; executions end |
| `create_ambiguous` | 2 executions, punctual | **violation**, see Findings |
| `provider` | 2 callers, 3 attempts, window 7, open interval 10, clock off by up to 1, 18 ticks, fair | retry window, permit held while calling, probe alone, implements the fair `CircuitBreaker` |
| `provider_timeout` | 1 operation | **violation**, see Findings |
| `shutdown` | `Deployment`: 2 jobs, 2 files of which 1 can be run again, 2 starts; 14 environments of which 3 are accepted; 1 business slot that may hang, 1 readiness slot, grace 3, close 1, 8 ticks, fair | files applied once and in order, serving on a whole schema; drain, order, bound, readiness, force only against overdue requests, an end |
| `get` | 2 readers, 2 ids, 2 outstanding commands, fair | cache never ahead of the store, refinement of the reads, reads end while Redis hangs |
| `list` | 4 rows, 2 values of `created_at`, page sizes 1 to 3, 3 pages | rows move to later pages only, total fits data, a walk misses nothing |
| `limiter` | 3 callers, quota 2, window 5 ticks of half a second, 2 orphans, fair | quota, `Retry-After`, not locked out by a key without expiry, the test double agrees |
| `http` | 2 requests, 2 services, body limit 3, chunks of 1 or 2 | chunks kept within the limit, quota paid by its service, status and effect |
| `fake_concurrent` | 3 requests, 1 key, latency; outcomes refusal, timeout, success | **violation**, see Findings |

Bounds. Two executions are enough for a reclaim of a live holder, which is the
question of `create_lease`; in `create` the third is the one that comes between
them, with the other payload. One key suffices because no
statement touches two keys (the theorems cover any number). The clock bounds let a
row go stale, be reclaimed and go stale again (`create`), the breaker go through
open, half-open, open and closed (`breaker`, 8 ticks with an interval of 3), and a
shutdown run to its worst case, grace period plus three close timeouts. In `provider` the
open interval is longer than the retry window and twice the clock's error, which is
the premise of `HalfOpenProbeIsAlone`; the application's defaults (10 000 ms against 10 800 ms)
do not meet it, so with them older operations may still be calling beside the
probe. In `http` the limit is odd and the chunks are 1 or 2, so a body can reach
the limit exactly and pass it by one. `limiter` uses half-second ticks so that
rounding of `Retry-After` matters. In `list` four rows are enough for a page to
shift by a row inserted before it while another is inserted behind it, equal
`created_at` values put the order on the ids, and page 3 is the last the schema
admits. In `shutdown` the accepted environments are the defaults, a readiness
timeout whose two probes outlast the grace period, and a retry configuration whose
window is exactly the grace period; two jobs with two starts overlap, or follow a
failure. One business slot replaces two because the tracker's count with several
requests is covered by the probe slot beside it. Every bound is a named constant.

Deadlock is checked in every run: where a behaviour may end, an action `Quiescent`
(or the end of the clock's range) says in which states.

Fairness. Liveness is claimed only under what the runtime gives: timers fire and
time passes (`WF` of `Tick` and of the timer actions), an awaited statement or
reply is eventually settled (`WF` of an execution's next step, of a reader's next
step), and a caller that holds a permit ends because each of its attempts has a
timer. There is no fairness on replies of the provider, on Redis, on business
requests during a shutdown, on migration jobs, or on any failure. `provider` discharges the fairness
that `CircuitBreaker` assumes of its callers from the timers of the retry loop.
`limiter` assumes that the client goes on sending. Runs with a liveness property use
no symmetry.

## Proofs

Every safety property that a passing run checks is also a theorem, for every value of
the constants that satisfies the named `ASSUME`s. A table of the theorems; the
arguments follow.

| Module | Theorem | States |
| --- | --- | --- |
| `CircuitBreakerProofs` | `BreakerIsSafe`, `ProbeIsExclusiveAndOwned` | `BreakerInvariant` |
| | `OpenIntervalIsRespectedAlways`, `OpenIsNeverOverdue` | `OpenIntervalIsRespected`, `OpenIsNotOverdue` |
| | `OnlyOwnEraMovesBreakerAlways` | `OnlyOwnEraMovesBreaker` |
| `ResilientPaymentProviderProofs` | `RetryLoopImplementsBreaker`, `BreakerIsSafeUnderRetries` | `CircuitBreaker!Spec`, the safety part of `ImplementsBreaker` |
| | `PermitsAreReturned` | `PermitHeldWhileCalling` |
| | `RetriesEndInWindow` | `WithinRetryWindow` |
| | `ProbeIsAlone` | `HalfOpenProbeIsAlone` |
| `CreateTransactionProofs` | `StoreIsConsistent` | `StoreInvariant` |
| | `OneTransactionForEachKey`, `OneAnswerForEachKey` | `OneTransactionPerKey`, `AnswersAgree` |
| | `CreateTransactionImplementsLedger` | `ImplementsLedger` |
| | `LeaseIsKept`, `LeaseIsExclusive`, `InProgressOnlyWhileLeased` | the lease, under `LeaseTiming` |
| | `OnlyReleasesLosePayments` | `PaymentsAreAccountedFor` |
| | `MemoryRepositoryIsFaithful` | `DoubleAgreesWithStatements`, on one clock |
| `GetTransactionProofs` | `CacheStaysBehindStore`, `CachedReadImplementsReads` | `CacheInvariant`, `ImplementsReads` |
| `RateLimiterProofs` | `QuotaIsKept`, `RetryAfterIsLongEnough`, `DoubleIsFaithful` | `LimiterInvariant`, `RetryAfterIsEnough`, `DoubleAgreesWithScript` |
| `ListTransactionsProofs` | `RowsNeverSlipBack`, `WalkIsComplete`, `PageAndTotalAgree` | `ListInvariant`, `WalkMissesNothing`, `TotalMatchesPage` |
| `HttpPipelineProofs` | `BodiesAreBounded`, `StatusIsHonest`, `OnlyOwnersPay` | `PipelineInvariant`, `StatusTellsEffect`, `QuotaIsPaidByItsService` |
| `DeploymentProofs` | `MigrationsApplyOnceInOrder`, `ApiServesMigratedSchema` | `AppliedOnceInOrder`, `ServingMeansMigrated` |
| | `DrainIsNeverMissed`, `ClientsOutliveRequests`, `ShutdownTimeIsBounded`, `ReadinessRunsOut`, `ForcedOnlyWhenOverdue` | `ShutdownInvariant`, `DrainedBeforeClose`, `ShutdownIsBounded`, `ReadyAnswersRunOut`, `OnlyOverdueIsForced` |
| | `AcceptedConfigurationIsSound` | what `loadConfig` guarantees the other parts |

**The breaker.** That there is one probe is not inductive: a permit of an old era must
be known not to be current, so the invariant adds that no permit is from the future
and that a current permit has the mode of the breaker's state. The last of these is
also why only an operation of the breaker's own era moves it. The two results about
the interval need that `openedAt` differs from the real time of the opening by at most
the clock's error (`OpeningIsTimed`); with the error of the clock that reads it the
interval is respected, and ends, within twice that error.

**The retry loop.** Each action maps to one method of the breaker or to a stutter, so
the breaker's invariant carries over. `WithinRetryWindow` is not inductive: it does not
say how much of the window is used up. `OperationsInvariant` does: after `a` attempts
the timer is at most `a` timeouts and the first `a - 1` longest pauses (`a` of them
while sleeping) after the start, and the clock has not passed it. That a drawn pause is
at most the one that the window counts is `DelayIsBounded` (monotonicity of the jitter,
of `Math.round` and of the cap). The window's loop is the recursive function
`TotalDelay` on 0..9: since `validateRetryPolicyConfig` admits at most ten attempts, it
is unfolded by exhibiting the nine sums, without induction. `ProbeIsAlone` adds
`EarlierCallsAreOlder`: while the breaker is not closed, an operation it does not listen
to any more started before it opened.

**The store**, for any timing (`Punctual` or not). The invariant says that the stored
transactions are exactly those of completed operations and that answers agree with the
completed row; it needs besides that a running execution has not used its transaction
id yet (`RunningIsFresh`) and that an execution about to complete has an approval
(`CompletionHasResult`). **The lease** is proved under `LeaseTiming` (executions end
within the window, and the stale timeout exceeds it by more than two clocks differ):
the row carries its holder's stamp, the holder is inside its window, hence the stamp is
younger than the stale timeout on every clock, hence no UPDATE matches it. The
**payments** are accounted for without any timing: what makes it inductive is that an
execution that holds a claim, or held one that was reclaimed under it, finds its
payload on record (the row's, or a released one), and that no statement but the
release takes a payload off a row. A reclaim does not, because its UPDATE asks for the
same fingerprint; a mutant without that condition is what the property refutes. The
**in-memory double** is compared for `MaxSkew = 0`; the invariant is that no row is
ahead of the clock (`StampsArePast`), which is what makes the schema's check on the
timestamps, absent from the double, pass.

**The cached read.** The invariant ranges over entries, over commands that nobody waits
for any more, and over readers about to send one: each names only rows the table has.
The refinement follows action by action; the actions of Redis are stutters.

**The limiter.** A refusal announces the time left on the key; to bound the wait
afterwards it must be known that the key it speaks of is still there
(`RefusalHasKey`, part of `LimiterInvariant`). The rounding to seconds is exact integer
arithmetic.

**The pages.** `WalkInvariant` joins `ListInvariant` to what one page says of the table
(`PageIsOfTable`): a page that is not full is the end of the table, so everything owed
and not yet seen is in it. The argument about positions is a counting one: the
predecessors of a row only become more. That a page of `n` rows exists in a finite
ordered table is proved with the well-founded order of the finite subsets.

**The HTTP boundary.** `HandlerInvariant` says of each request, phase by phase, what it
may have read, taken and caused, and that a service's quota is the number of its
requests that took a unit. Only finitely many requests have come at any moment, so
this makes sense also for an infinite set of requests.

**The deployment.** For the migrations (`MigrationsInvariant`) a job between its check
and its commit may be about to repeat a file, so what is inductive is that the loop is
in range and that whoever can still commit a file is alone with it (`CommitIsAlone`).
For the process (`ProcessInvariant`) the deadlines of the shutdown's awaits are added
up one by one (`DeadlinesAreMet`), and each request is placed before or after the
signal (`RequestsInTime`). `AcceptedConfigurationIsSound` closes the circle: what the
proofs about the retry loop, the breaker, the limiter and the body limit assume of
their constants holds of every configuration that `loadConfig` returns, and the stale
timeout and the grace period leave the room that the lease and the drain need, the
former with the configured margin for the skew of the clocks.

Assumptions on constants are the named `ASSUME`s of the modules; TLC evaluates
them in the runs. They are the checks of the code's constructors and of
`loadConfig`, the distinctness of placeholders, the finiteness of slots and rows, and
that bounds are numbers.

Only model-checked: the liveness properties (`ProbeResolves`, `ExecutionsEnd`,
`ReadsEnd`, `NotLockedOut`, `ShutdownEnds`) and the fairness part of
`ImplementsBreaker`, because fairness and `ENABLED` are out of the prover's reach; and
`FakeProvider`, whose only property is refuted by a run.

Each property has a mutant: a variant of a definition, changed as a plausible bug
would change the code, for which the property fails. They stand before the
definition they vary and are marked `Mutant:`.

## Findings

1. `ChargesAreRecorded`. README and ADR 0002 say that an ambiguous failure leaves
   the operation `processing`, because the payment may have been made. A later
   request that reclaims the stale operation gets `new_claim`, as for a fresh one;
   if the breaker is then open, `create-transaction.ts:72` releases the claim and
   with it the record of the earlier attempt, which may have been charged or may
   still be on its way. The key can afterwards be used with another payload, and as
   the provider answers by key, the transaction stored then differs from the one that
   was charged. `PaymentsAreAccountedFor` bounds the damage: it takes a release. The
   run uses one attempt per execution, which leaves the reclaim as the shortest
   counterexample; with two a single execution is enough (the first attempt times
   out, the second is answered 4xx), and `create_lease`, which has two, reaches that.
2. `TimeoutsAreRetried`. README and ADR 0002 say that timeouts are retried. The
   abort timer also runs while the body is read; there the abort becomes
   `ProviderInvalidResponseError` (`http-payment-provider.ts:101`), which is not.
3. `OnePaymentPerKey`. README says that the fake provider keeps its own
   idempotency. Its handler looks the key up, awaits the body, and stores the
   result without looking again: two concurrent requests are both paid.

## Not modelled

Schemas' details, string formats, logging, metrics and redaction (no control
decision reads them), benchmarks, Terraform and Docker. The fingerprint is taken as
injective and the normalisation before it is not modelled. PostgreSQL's statements
are atomic and its transactions serialised on the operation's row, which the row
locks of `UPDATE` and `INSERT ... ON CONFLICT` give for the statements used. The
names of migration files and their lexicographic order are given, and so is that
every job sees the same files; a release that adds a file while an older job runs
is not modelled. A container that is restarted after its process has stopped is a
new behaviour of `GracefulShutdown`. The wall clock is stepped under the breaker, and
in `CreateTransaction` between an execution's claim and its completion, within
`MaxSkew`. Timers fire when they are due: that `setTimeout` turns a delay above
2^31 - 1 ms into an immediate one is left out, although `loadConfig` admits such values.
Only the chunks of a body are counted, not the joined array and the text that
`http/server.ts` makes of them. `FakeProvider` has no property that holds beyond the
one its run refutes.

Observations the models record without a finding, because no document says
otherwise: a client that trusts `totalPages` may miss rows committed during its last
request (`WalkMissesNothing`); loadConfig does not relate `READINESS_TIMEOUT_MS` to
the grace period, so a readiness check may be what a forced stop interrupts
(`OnlyOverdueIsForced`); the startup check does not look at the schema, which only
the order of the containers guarantees (`ServingMeansMigrated`).

## Plan

Done: all components above but observability and the deployment descriptions; proofs
of every safety property that the runs check, and of the three refinements (ledger,
reads, breaker without its fairness).

What could follow: the normalisation of the payload before its fingerprint; a model of
one client's view of the whole API, with statuses and retries until a final answer.
