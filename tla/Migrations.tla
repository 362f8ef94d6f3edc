------------------------------ MODULE Migrations ------------------------------
(***************************************************************************)
(* runMigrations (infrastructure/database/migrate.ts): jobs that bring the  *)
(* schema up to date, file by file, each file and its record in             *)
(* schema_migrations in one transaction.                                    *)
(*                                                                         *)
(* Nothing stops two jobs from running at once (a job started again, two    *)
(* operators), and the check whether a file was applied is outside the      *)
(* transaction that applies it.  Between them stand only the locks of       *)
(* PostgreSQL and the primary key of schema_migrations.                     *)
(***************************************************************************)
EXTENDS Integers, SequencesExt

CONSTANTS
  Jobs,        \* the migration jobs that may run
  Files,       \* the migration files, as readdir().sort() returns them
  Rerunnable,  \* files whose statements also succeed on a schema that has them
  MaxStarts    \* bound on how often jobs are started

ASSUME MigrationsAssumption ==
  /\ Files \in Seq(Range(Files)) /\ IsInjective(Files)
  /\ Rerunnable \subseteq Range(Files)
  /\ MaxStarts \in Nat

VARIABLES
  schema,    \* the files whose changes have been committed, in that order
  versions,  \* the rows of schema_migrations
  jobs,      \* where each job is
  starts     \* how often jobs have been started

migrationsVars == <<schema, versions, jobs, starts>>

\* The awaits of runMigrations.  applying, recording and committing are inside the
\* transaction of the current file.
JobPhases ==
  {"idle", "creating", "checking", "applying", "recording", "committing",
   "succeeded", "failed"}

InTransaction(j) == jobs[j].phase \in {"recording", "committing"}

\* The file of the job's loop variable.
File(j) == Files[jobs[j].next]

MigrationsInit ==
  /\ schema = << >>
  /\ versions = {}
  /\ jobs = [j \in Jobs |-> [phase |-> "idle", next |-> 1]]
  /\ starts = 0

-------------------------------------------------------------------------------
\* The loop takes the given file, or ends after the last one.
GoOn(j, next) ==
  jobs' = [jobs EXCEPT ![j] =
             [phase |-> IF next > Len(Files) THEN "succeeded" ELSE "checking",
              next |-> next]]

\* runMigrations throws; an open transaction is rolled back.
Fail(j) == jobs' = [jobs EXCEPT ![j] = [phase |-> "failed", next |-> 1]]

\* The job is started.  Compose starts it once (restart: "no"); it may be started
\* again by hand.
RunMigrations(j) ==
  /\ jobs[j].phase \in {"idle", "failed", "succeeded"}
  /\ starts < MaxStarts
  /\ starts' = starts + 1
  /\ jobs' = [jobs EXCEPT ![j] = [phase |-> "creating", next |-> 1]]
  /\ UNCHANGED <<schema, versions>>

\* CREATE TABLE IF NOT EXISTS schema_migrations leaves the rows of an existing table
\* alone.
CreateTable(j) ==
  /\ jobs[j].phase = "creating"
  /\ GoOn(j, 1)
  /\ UNCHANGED <<schema, versions, starts>>

\* Mutant: break instead of continue.
SelectVersionBreaks(j) ==
  /\ jobs[j].phase = "checking"
  /\ \/ File(j) \in versions
        /\ jobs' = [jobs EXCEPT ![j].phase = "succeeded"]
     \/ File(j) \notin versions
        /\ jobs' = [jobs EXCEPT ![j].phase = "applying"]
  /\ UNCHANGED <<schema, versions, starts>>

\* SELECT version ... WHERE version = file, outside any transaction.
SelectVersion(j) ==
  /\ jobs[j].phase = "checking"
  /\ \/ File(j) \in versions /\ GoOn(j, jobs[j].next + 1)
     \/ File(j) \notin versions
        /\ jobs' = [jobs EXCEPT ![j].phase = "applying"]
  /\ UNCHANGED <<schema, versions, starts>>

\* transaction.file(...).  External: statements that cannot be repeated (CREATE TABLE)
\* wait for another transaction that has run them, and fail once they are committed.
ApplyFile(j) ==
  /\ jobs[j].phase = "applying"
  /\ \/ /\ \/ File(j) \in Rerunnable
           \/ /\ ~Contains(schema, File(j))
              /\ \A k \in Jobs \ {j} : ~(InTransaction(k) /\ File(k) = File(j))
        /\ jobs' = [jobs EXCEPT ![j].phase = "recording"]
     \/ /\ File(j) \notin Rerunnable
        /\ Contains(schema, File(j))
        /\ Fail(j)
  /\ UNCHANGED <<schema, versions, starts>>

\* Mutant: INSERT ... ON CONFLICT DO NOTHING.
InsertIgnored(j) ==
  /\ jobs[j].phase = "recording"
  /\ jobs' = [jobs EXCEPT ![j].phase = "committing"]
  /\ UNCHANGED <<schema, versions, starts>>

\* INSERT INTO schema_migrations.  External: the primary key makes the statement wait
\* for another transaction that has inserted the version, and fail once it is there.
InsertVersion(j) ==
  /\ jobs[j].phase = "recording"
  /\ \/ /\ File(j) \notin versions
        /\ \A k \in Jobs \ {j} : ~(jobs[k].phase = "committing" /\ File(k) = File(j))
        /\ jobs' = [jobs EXCEPT ![j].phase = "committing"]
     \/ File(j) \in versions /\ Fail(j)
  /\ UNCHANGED <<schema, versions, starts>>

\* COMMIT takes effect; the job goes on, or does not hear of it and fails.
Commit(j) ==
  /\ jobs[j].phase = "committing"
  /\ schema' = Append(schema, File(j))
  /\ versions' = versions \cup {File(j)}
  /\ GoOn(j, jobs[j].next + 1) \/ Fail(j)
  /\ UNCHANGED starts

\* A statement fails, the connection is lost or the job is killed.
JobFails(j) ==
  /\ jobs[j].phase \notin {"idle", "succeeded", "failed"}
  /\ Fail(j)
  /\ UNCHANGED <<schema, versions, starts>>

MigrationsNext ==
  \E j \in Jobs :
    \/ RunMigrations(j)
    \/ CreateTable(j)
    \/ SelectVersion(j)
    \/ ApplyFile(j)
    \/ InsertVersion(j)
    \/ Commit(j)
    \/ JobFails(j)

-------------------------------------------------------------------------------
(* Properties                                                               *)

MigrationsTypeOK ==
  /\ schema \in Seq(Range(Files))
  /\ versions \subseteq Range(Files)
  /\ jobs \in [Jobs -> [phase : JobPhases, next : 1..(Len(Files) + 1)]]
  /\ starts \in 0..MaxStarts

\* A job that has come to a file has seen or made every earlier one.
EarlierFilesApplied ==
  \A j \in Jobs : jobs[j].phase \notin {"idle", "creating"} =>
    \A i \in 1..(jobs[j].next - 1) : Files[i] \in versions

\* A job inside its loop is at a file; one that has succeeded is past the last one.
LoopIsInRange ==
  \A j \in Jobs :
    /\ jobs[j].phase \in {"checking", "applying", "recording", "committing"}
         => jobs[j].next <= Len(Files)
    /\ jobs[j].phase = "succeeded" => jobs[j].next = Len(Files) + 1

\* The primary key of schema_migrations lets one job at a time commit a file, and only
\* one that has not been applied.
CommitIsAlone ==
  \A j \in Jobs : jobs[j].phase = "committing" =>
    /\ File(j) \notin versions
    /\ \A k \in Jobs : (jobs[k].phase = "committing" /\ File(k) = File(j)) => k = j

\* However many jobs run, fail and are started again: the schema is made of the first
\* files, each applied once and in order, and schema_migrations says so.
AppliedOnceInOrder ==
  /\ MigrationsTypeOK
  /\ IsPrefix(schema, Files)
  /\ versions = Range(schema)
  /\ EarlierFilesApplied

\* What every step of every job relies on.
MigrationsInvariant == AppliedOnceInOrder /\ LoopIsInRange /\ CommitIsAlone
===============================================================================
