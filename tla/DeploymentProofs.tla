--------------------------- MODULE DeploymentProofs ---------------------------
(***************************************************************************)
(* The deployed stack, for any number of migration jobs, files, request      *)
(* slots and any accepted configuration: the schema is made of the first     *)
(* files, each applied once; the API serves only on the whole schema; and    *)
(* the shutdown of the API process is bounded and takes no client away from  *)
(* a request that has not outlived the grace period.                         *)
(***************************************************************************)
EXTENDS Deployment, SequenceTheorems, FiniteSetTheorems, TLAPS

-------------------------------------------------------------------------------
(* The migrations.                                                           *)

\* Files, element by element.
LEMMA FilesTyped ==
  /\ Len(Files) \in Nat
  /\ \A i \in 1 .. Len(Files) : Files[i] \in Range(Files)
  /\ \A i, k \in 1 .. Len(Files) : Files[i] = Files[k] => i = k
  BY MigrationsAssumption DEF IsInjective

\* The shape of a schema that is a prefix of the files, element by element.
LEMMA PrefixByElement ==
  ASSUME NEW s \in Seq(Range(Files))
  PROVE  IsPrefix(s, Files) <=>
           /\ Len(s) <= Len(Files)
           /\ \A i \in 1 .. Len(s) : s[i] = Files[i]
  <1>1. Files \in Seq(Range(Files)) /\ Len(s) \in Nat /\ Len(Files) \in Nat
    BY MigrationsAssumption
  <1>2. ASSUME Len(s) <= Len(Files)
        PROVE  SubSeq(s, 1, Len(s)) = SubSeq(Files, 1, Len(s))
                 <=> \A i \in 1 .. Len(s) : s[i] = Files[i]
    <2>1. /\ SubSeq(s, 1, Len(s)) \in Seq(Range(Files))
          /\ Len(SubSeq(s, 1, Len(s))) = Len(s)
          /\ \A i \in 1 .. Len(s) : SubSeq(s, 1, Len(s))[i] = s[i]
      BY <1>1
    <2>2. /\ SubSeq(Files, 1, Len(s)) \in Seq(Range(Files))
          /\ Len(SubSeq(Files, 1, Len(s))) = Len(s)
          /\ \A i \in 1 .. Len(s) : SubSeq(Files, 1, Len(s))[i] = Files[i]
      BY <1>1, <1>2
    <2> QED
      BY <2>1, <2>2, SeqEqual
  <1> QED
    BY <1>2 DEF IsPrefix

\* The versions of a schema that is a prefix of the files are the files up to it.
LEMMA VersionsArePrefix ==
  ASSUME AppliedOnceInOrder
  PROVE  /\ Len(schema) \in Nat /\ Len(schema) <= Len(Files)
         /\ \A i \in 1 .. Len(schema) : schema[i] = Files[i]
         /\ \A i \in 1 .. Len(Files) : Files[i] \in versions <=> i <= Len(schema)
  <1>1. schema \in Seq(Range(Files)) /\ Len(schema) \in Nat
    BY DEF AppliedOnceInOrder, MigrationsTypeOK
  <1>2. /\ Len(schema) <= Len(Files)
        /\ \A i \in 1 .. Len(schema) : schema[i] = Files[i]
    BY <1>1, PrefixByElement DEF AppliedOnceInOrder
  <1>3. versions = {schema[i] : i \in 1 .. Len(schema)}
    BY <1>1 DEF AppliedOnceInOrder, Range
  <1>4. ASSUME NEW i \in 1 .. Len(Files) PROVE Files[i] \in versions <=> i <= Len(schema)
    <2>1. ASSUME Files[i] \in versions PROVE i <= Len(schema)
      <3>1. PICK k \in 1 .. Len(schema) : Files[i] = schema[k]
        BY <1>3, <2>1
      <3>2. k \in 1 .. Len(Files) /\ Files[i] = Files[k]
        BY <1>1, <1>2, <3>1, FilesTyped
      <3> QED
        BY <1>1, <3>2, FilesTyped
    <2>2. ASSUME i <= Len(schema) PROVE Files[i] \in versions
      BY <1>1, <1>2, <1>3, <2>2
    <2> QED
      BY <2>1, <2>2
  <1> QED
    BY <1>1, <1>2, <1>4

\* The file that a job commits is the first one that has not been applied.
LEMMA CommitIsNext ==
  ASSUME MigrationsInvariant, NEW j \in Jobs, jobs[j].phase = "committing"
  PROVE  jobs[j].next = Len(schema) + 1 /\ Len(schema) < Len(Files)
  <1>1. jobs[j].next \in 1 .. (Len(Files) + 1) /\ jobs[j].next <= Len(Files)
    BY DEF MigrationsInvariant, LoopIsInRange, AppliedOnceInOrder, MigrationsTypeOK
  <1>2. Files[jobs[j].next] \notin versions
    BY DEF MigrationsInvariant, CommitIsAlone, File
  <1>3. \A i \in 1 .. (jobs[j].next - 1) : Files[i] \in versions
    BY DEF MigrationsInvariant, AppliedOnceInOrder, EarlierFilesApplied
  <1>4. jobs[j].next > Len(schema) /\ Len(schema) \in Nat
    BY <1>1, <1>2, FilesTyped, VersionsArePrefix DEF MigrationsInvariant
  <1>5. CASE jobs[j].next = 1
    BY <1>1, <1>4, <1>5, FilesTyped
  <1>6. CASE jobs[j].next > 1
    <2>1. jobs[j].next - 1 \in 1 .. (jobs[j].next - 1) /\ jobs[j].next - 1 \in 1 .. Len(Files)
      BY <1>1, <1>6, FilesTyped
    <2>2. jobs[j].next - 1 <= Len(schema)
      BY <1>3, <2>1, VersionsArePrefix DEF MigrationsInvariant
    <2> QED
      BY <1>1, <1>4, <2>2, FilesTyped
  <1> QED
    BY <1>1, <1>5, <1>6

\* Nothing is applied and no job runs at the start.
LEMMA InitEstablishesMigrations == MigrationsInit => MigrationsInvariant
  <1> SUFFICES ASSUME MigrationsInit PROVE MigrationsInvariant
    OBVIOUS
  <1>1. MigrationsTypeOK
    <2>1. [phase |-> "idle", next |-> 1] \in [phase : JobPhases, next : 1 .. (Len(Files) + 1)]
      BY FilesTyped DEF JobPhases
    <2>2. 0 \in 0 .. MaxStarts
      BY MigrationsAssumption
    <2> QED
      BY <2>1, <2>2 DEF MigrationsInit, MigrationsTypeOK
  <1>2. IsPrefix(schema, Files)
    <2>1. schema \in Seq(Range(Files)) /\ Len(schema) = 0
      BY <1>1 DEF MigrationsInit, MigrationsTypeOK
    <2>2. Len(schema) <= Len(Files) /\ \A i \in 1 .. Len(schema) : schema[i] = Files[i]
      BY <2>1, FilesTyped
    <2> QED
      BY <2>1, <2>2, PrefixByElement
  <1>3. versions = Range(schema)
    BY DEF MigrationsInit, Range
  <1>4. \A j \in Jobs : jobs[j].phase = "idle"
    BY DEF MigrationsInit
  <1> QED
    BY <1>1, <1>2, <1>3, <1>4
    DEF MigrationsInvariant, AppliedOnceInOrder, EarlierFilesApplied, LoopIsInRange,
        CommitIsAlone

\* Job j may be in the phase, at that file.
MayBe(j, phase, next) ==
  /\ phase \notin {"idle", "creating"} => \A i \in 1 .. (next - 1) : Files[i] \in versions
  /\ phase \in {"checking", "applying", "recording", "committing"} => next <= Len(Files)
  /\ phase = "succeeded" => next = Len(Files) + 1
  /\ phase = "committing" =>
       /\ Files[next] \notin versions
       /\ \A k \in Jobs \ {j} : ~(jobs[k].phase = "committing" /\ File(k) = Files[next])

\* A step of one job that commits nothing keeps the invariant if the job keeps its
\* part of it.
LEMMA JobStepKeepsMigrations ==
  ASSUME MigrationsInvariant, NEW j \in Jobs, UNCHANGED <<schema, versions>>,
         starts' \in 0 .. MaxStarts,
         NEW phase \in JobPhases, NEW next \in 1 .. (Len(Files) + 1),
         jobs' = [jobs EXCEPT ![j] = [phase |-> phase, next |-> next]],
         MayBe(j, phase, next)
  PROVE  MigrationsInvariant'
  <1>1. MigrationsTypeOK'
    BY DEF MigrationsInvariant, AppliedOnceInOrder, MigrationsTypeOK
  <1>2. /\ jobs'[j].phase = phase /\ jobs'[j].next = next
        /\ \A k \in Jobs : k # j => jobs'[k] = jobs[k]
    BY DEF MigrationsInvariant, AppliedOnceInOrder, MigrationsTypeOK
  <1>3. EarlierFilesApplied'
    BY <1>2 DEF MigrationsInvariant, AppliedOnceInOrder, EarlierFilesApplied, MayBe
  <1>4. LoopIsInRange'
    BY <1>2 DEF MigrationsInvariant, LoopIsInRange, MayBe
  <1>5. CommitIsAlone'
    BY <1>2 DEF MigrationsInvariant, CommitIsAlone, File, MayBe
  <1> QED
    BY <1>1, <1>3, <1>4, <1>5 DEF MigrationsInvariant, AppliedOnceInOrder

\* A job that fails, or is started, keeps nothing of its loop.
LEMMA RestartKeepsMigrations ==
  ASSUME MigrationsInvariant, NEW j \in Jobs, UNCHANGED <<schema, versions>>,
         starts' \in 0 .. MaxStarts, NEW phase \in {"creating", "failed"},
         jobs' = [jobs EXCEPT ![j] = [phase |-> phase, next |-> 1]]
  PROVE  MigrationsInvariant'
  <1>1. phase \in JobPhases /\ 1 \in 1 .. (Len(Files) + 1) /\ MayBe(j, phase, 1)
    BY FilesTyped DEF JobPhases, MayBe
  <1> QED
    BY <1>1, JobStepKeepsMigrations

\* The loop goes on to the next file when the earlier ones are there.
LEMMA GoOnKeepsMigrations ==
  ASSUME MigrationsInvariant, NEW j \in Jobs, UNCHANGED <<schema, versions>>,
         starts' \in 0 .. MaxStarts, NEW next \in 1 .. (Len(Files) + 1), GoOn(j, next),
         \A i \in 1 .. (next - 1) : Files[i] \in versions
  PROVE  MigrationsInvariant'
  <1>1. CASE next > Len(Files)
    <2>1. jobs' = [jobs EXCEPT ![j] = [phase |-> "succeeded", next |-> next]]
      BY <1>1 DEF GoOn
    <2>2. MayBe(j, "succeeded", next) /\ "succeeded" \in JobPhases
      BY <1>1, FilesTyped DEF JobPhases, MayBe
    <2> QED
      BY <2>1, <2>2, JobStepKeepsMigrations
  <1>2. CASE ~(next > Len(Files))
    <2>1. jobs' = [jobs EXCEPT ![j] = [phase |-> "checking", next |-> next]]
      BY <1>2 DEF GoOn
    <2>2. MayBe(j, "checking", next) /\ "checking" \in JobPhases
      BY <1>2, FilesTyped DEF JobPhases, MayBe
    <2> QED
      BY <2>1, <2>2, JobStepKeepsMigrations
  <1> QED
    BY <1>1, <1>2

\* A job inside its loop moves to another phase at the same file.
LEMMA PhaseKeepsMigrations ==
  ASSUME MigrationsInvariant, NEW j \in Jobs, UNCHANGED <<schema, versions, starts>>,
         jobs[j].phase \in {"checking", "applying", "recording"},
         NEW phase \in {"applying", "recording", "committing"},
         jobs' = [jobs EXCEPT ![j].phase = phase],
         phase = "committing" =>
           /\ File(j) \notin versions
           /\ \A k \in Jobs \ {j} : ~(jobs[k].phase = "committing" /\ File(k) = File(j))
  PROVE  MigrationsInvariant'
  <1>1. /\ jobs[j] \in [phase : JobPhases, next : 1 .. (Len(Files) + 1)]
        /\ starts' \in 0 .. MaxStarts
    BY DEF MigrationsInvariant, AppliedOnceInOrder, MigrationsTypeOK
  <1>2. jobs' = [jobs EXCEPT ![j] = [phase |-> phase, next |-> jobs[j].next]]
    <2>1. [jobs[j] EXCEPT !.phase = phase] = [phase |-> phase, next |-> jobs[j].next]
      BY <1>1
    <2> QED
      BY <2>1 DEF MigrationsInvariant, AppliedOnceInOrder, MigrationsTypeOK
  <1>3. /\ jobs[j].next <= Len(Files)
        /\ \A i \in 1 .. (jobs[j].next - 1) : Files[i] \in versions
    BY DEF MigrationsInvariant, AppliedOnceInOrder, EarlierFilesApplied, LoopIsInRange
  <1>4. phase \in JobPhases /\ jobs[j].next \in 1 .. (Len(Files) + 1)
    BY <1>1 DEF JobPhases
  <1>5. MayBe(j, phase, jobs[j].next)
    BY <1>3 DEF File, MayBe
  <1> QED
    BY <1>1, <1>2, <1>4, <1>5, JobStepKeepsMigrations

\* COMMIT appends the next file and no other job is committing it.
LEMMA CommitKeepsMigrations ==
  ASSUME MigrationsInvariant, NEW j \in Jobs, Commit(j)
  PROVE  MigrationsInvariant'
  <1> DEFINE n == Len(schema) + 1
  <1>1. /\ jobs[j].next = n /\ n \in 1 .. Len(Files) /\ File(j) = Files[n]
        /\ schema \in Seq(Range(Files)) /\ Len(schema) \in Nat
    BY CommitIsNext, FilesTyped
    DEF Commit, File, MigrationsInvariant, AppliedOnceInOrder, MigrationsTypeOK
  <1>2. schema' = Append(schema, Files[n]) /\ versions' = versions \cup {Files[n]}
    BY <1>1 DEF Commit
  <1>3. /\ schema' \in Seq(Range(Files)) /\ Len(schema') = n
        /\ \A i \in 1 .. Len(schema) : schema'[i] = schema[i]
        /\ schema'[n] = Files[n]
    BY <1>1, <1>2, FilesTyped
  <1>4. IsPrefix(schema', Files)
    <2>1. \A i \in 1 .. n : schema'[i] = Files[i]
      BY <1>1, <1>3, VersionsArePrefix DEF MigrationsInvariant
    <2> QED
      BY <1>1, <1>3, <2>1, PrefixByElement
  <1>5. versions' = Range(schema')
    <2>1. Range(schema) = {schema[i] : i \in 1 .. Len(schema)}
      BY <1>1 DEF Range
    <2>2. Range(schema') = {schema'[i] : i \in 1 .. n}
      BY <1>3 DEF Range
    <2>3. versions = {schema[i] : i \in 1 .. Len(schema)}
      BY <2>1 DEF MigrationsInvariant, AppliedOnceInOrder
    <2> QED
      BY <1>1, <1>2, <1>3, <2>2, <2>3
  <1>6. PICK phase \in {"succeeded", "checking", "failed"}, next \in {1, n + 1} :
          /\ jobs' = [jobs EXCEPT ![j] = [phase |-> phase, next |-> next]]
          /\ phase = "checking" => next <= Len(Files)
          /\ phase = "succeeded" => next = Len(Files) + 1
    <2>1. CASE GoOn(j, n + 1)
      <3>1. CASE n + 1 > Len(Files)
        <4>1. jobs' = [jobs EXCEPT ![j] = [phase |-> "succeeded", next |-> n + 1]]
          BY <2>1, <3>1 DEF GoOn
        <4> QED
          BY <1>1, <3>1, <4>1, FilesTyped
      <3>2. CASE ~(n + 1 > Len(Files))
        <4>1. jobs' = [jobs EXCEPT ![j] = [phase |-> "checking", next |-> n + 1]]
          BY <2>1, <3>2 DEF GoOn
        <4> QED
          BY <1>1, <3>2, <4>1, FilesTyped
      <3> QED
        BY <3>1, <3>2
    <2>2. CASE Fail(j)
      BY <2>2 DEF Fail
    <2> QED
      BY <1>1, <2>1, <2>2 DEF Commit
  <1>7. /\ jobs'[j].phase = phase /\ jobs'[j].next = next
        /\ \A k \in Jobs : k # j => jobs'[k] = jobs[k]
    BY <1>6 DEF MigrationsInvariant, AppliedOnceInOrder, MigrationsTypeOK
  <1>8. MigrationsTypeOK'
    <2>1. [phase |-> phase, next |-> next] \in [phase : JobPhases, next : 1 .. (Len(Files) + 1)]
      BY <1>1, FilesTyped DEF JobPhases
    <2>2. jobs' \in [Jobs -> [phase : JobPhases, next : 1 .. (Len(Files) + 1)]]
      BY <1>6, <2>1 DEF MigrationsInvariant, AppliedOnceInOrder, MigrationsTypeOK
    <2> QED
      BY <1>1, <1>2, <1>3, <2>2, FilesTyped
      DEF Commit, MigrationsInvariant, AppliedOnceInOrder, MigrationsTypeOK
  <1>9. EarlierFilesApplied'
    <2>1. \A i \in 1 .. n : Files[i] \in versions'
      BY <1>1, <1>2, VersionsArePrefix DEF MigrationsInvariant
    <2>2. \A i \in 1 .. (next - 1) : Files[i] \in versions'
      BY <1>1, <2>1
    <2>3. versions \subseteq versions'
      BY <1>2
    <2> QED
      BY <1>7, <2>2, <2>3 DEF MigrationsInvariant, AppliedOnceInOrder, EarlierFilesApplied
  <1>10. LoopIsInRange'
    BY <1>6, <1>7 DEF MigrationsInvariant, LoopIsInRange
  <1>11. ASSUME NEW k \in Jobs PROVE jobs'[k].phase # "committing"
    <2>1. SUFFICES ASSUME jobs'[k].phase = "committing" PROVE FALSE
      OBVIOUS
    <2>2. k # j /\ jobs[k].phase = "committing"
      BY <1>6, <1>7, <2>1
    <2>3. File(k) = File(j)
      BY <1>1, <2>2, CommitIsNext DEF File
    <2> QED
      BY <2>2, <2>3 DEF Commit, MigrationsInvariant, CommitIsAlone
  <1>12. CommitIsAlone'
    BY <1>11 DEF CommitIsAlone
  <1> QED
    BY <1>4, <1>5, <1>8, <1>9, <1>10, <1>12 DEF MigrationsInvariant, AppliedOnceInOrder

\* Every step of every job keeps the invariant.
LEMMA NextKeepsMigrations ==
  MigrationsInvariant /\ [MigrationsNext]_migrationsVars => MigrationsInvariant'
  <1> SUFFICES ASSUME MigrationsInvariant, [MigrationsNext]_migrationsVars
               PROVE  MigrationsInvariant'
    OBVIOUS
  <1>0. starts \in 0 .. MaxStarts /\ MaxStarts \in Nat
    BY MigrationsAssumption DEF MigrationsInvariant, AppliedOnceInOrder, MigrationsTypeOK
  <1>1. ASSUME NEW j \in Jobs, RunMigrations(j) PROVE MigrationsInvariant'
    <2>1. starts' \in 0 .. MaxStarts
      BY <1>0, <1>1 DEF RunMigrations
    <2> QED
      BY <1>1, <2>1, RestartKeepsMigrations DEF RunMigrations
  <1>2. ASSUME NEW j \in Jobs, CreateTable(j) PROVE MigrationsInvariant'
    <2>1. 1 \in 1 .. (Len(Files) + 1) /\ 1 .. (1 - 1) = {}
      BY FilesTyped
    <2> QED
      BY <1>0, <1>2, <2>1, GoOnKeepsMigrations DEF CreateTable
  <1>3. ASSUME NEW j \in Jobs, SelectVersion(j) PROVE MigrationsInvariant'
    <2>1. CASE File(j) \in versions /\ GoOn(j, jobs[j].next + 1)
      <3>1. /\ jobs[j].next \in 1 .. Len(Files)
            /\ \A i \in 1 .. (jobs[j].next - 1) : Files[i] \in versions
        BY <1>3, FilesTyped
        DEF SelectVersion, MigrationsInvariant, AppliedOnceInOrder, EarlierFilesApplied,
            MigrationsTypeOK, LoopIsInRange
      <3> DEFINE next == jobs[j].next + 1
      <3>2. /\ next \in 1 .. (Len(Files) + 1)
            /\ \A i \in 1 .. (next - 1) : Files[i] \in versions
        BY <2>1, <3>1, FilesTyped DEF File
      <3>3. GoOn(j, next) /\ UNCHANGED <<schema, versions>> /\ starts' \in 0 .. MaxStarts
        BY <1>0, <1>3, <2>1 DEF SelectVersion
      <3> HIDE DEF next
      <3> QED
        BY <3>2, <3>3, GoOnKeepsMigrations
    <2>2. CASE jobs' = [jobs EXCEPT ![j].phase = "applying"]
      BY <1>3, <2>2, PhaseKeepsMigrations DEF SelectVersion
    <2> QED
      BY <1>3, <2>1, <2>2 DEF SelectVersion
  <1>4. ASSUME NEW j \in Jobs, Fail(j), UNCHANGED <<schema, versions, starts>>
        PROVE  MigrationsInvariant'
    BY <1>0, <1>4, RestartKeepsMigrations DEF Fail
  <1>5. ASSUME NEW j \in Jobs, ApplyFile(j) PROVE MigrationsInvariant'
    <2>1. CASE jobs' = [jobs EXCEPT ![j].phase = "recording"]
      BY <1>5, <2>1, PhaseKeepsMigrations DEF ApplyFile
    <2> QED
      BY <1>4, <1>5, <2>1 DEF ApplyFile
  <1>6. ASSUME NEW j \in Jobs, InsertVersion(j) PROVE MigrationsInvariant'
    <2>1. CASE /\ File(j) \notin versions
               /\ \A k \in Jobs \ {j} : ~(jobs[k].phase = "committing" /\ File(k) = File(j))
               /\ jobs' = [jobs EXCEPT ![j].phase = "committing"]
      BY <1>6, <2>1, PhaseKeepsMigrations DEF InsertVersion
    <2> QED
      BY <1>4, <1>6, <2>1 DEF InsertVersion
  <1>7. ASSUME NEW j \in Jobs, Commit(j) PROVE MigrationsInvariant'
    BY <1>7, CommitKeepsMigrations
  <1>8. ASSUME NEW j \in Jobs, JobFails(j) PROVE MigrationsInvariant'
    BY <1>4, <1>8 DEF JobFails
  <1>9. CASE UNCHANGED migrationsVars
    BY <1>9 DEF migrationsVars, MigrationsInvariant, AppliedOnceInOrder, MigrationsTypeOK,
       EarlierFilesApplied, LoopIsInRange, CommitIsAlone, File
  <1> QED
    BY <1>1, <1>2, <1>3, <1>5, <1>6, <1>7, <1>8, <1>9 DEF MigrationsNext

\* The steps of the deployment are steps of the jobs and of the API process.
LEMMA DeploymentSteps ==
  [DeploymentNext]_deploymentVars => [MigrationsNext]_migrationsVars /\ [Next]_vars
  BY DEF DeploymentNext, ApiSteps, MigrationSteps, deploymentVars

\* However many jobs run at once, fail and are started again, for any list of files:
\* the schema is made of the first files, each applied once and in order, and
\* schema_migrations says so.
THEOREM MigrationsApplyOnceInOrder == DeploymentSpec => []AppliedOnceInOrder
  <1>1. DeploymentSpec => []MigrationsInvariant
    BY InitEstablishesMigrations, NextKeepsMigrations, DeploymentSteps, PTL
    DEF DeploymentSpec, DeploymentInit
  <1>2. MigrationsInvariant => AppliedOnceInOrder
    BY DEF MigrationsInvariant
  <1> QED
    BY <1>1, <1>2, PTL

-------------------------------------------------------------------------------
(* The inductive invariant of the API process.                               *)

BeforeSignal == {"loading", "starting", "failed", "up"}

\* Once the process is up, its configuration is one that loadConfig accepts.
ConfigIsLoaded ==
  /\ GracePeriod \in Nat /\ ReadinessTimeout \in Nat
  /\ coordinator.phase \notin {"loading", "failed"}
       => \E environment \in Environments : config \in LoadConfig(environment)

\* What the coordinator has come to says what the tracker and the clients are.
PhasesAgree ==
  /\ coordinator.phase \in {"loading", "starting", "failed"}
       => resources.http = "down" /\ \A r \in Requests : requests[r].phase = "idle"
  /\ tracker.shuttingDown <=> coordinator.phase \notin BeforeSignal
  /\ coordinator.phase \in BeforeSignal
       => coordinator.drain = "none" /\ coordinator.httpStop = "none"
  /\ coordinator.phase \in {"starting", "up", "draining", "awaiting_stop", "forcing"}
       => resources.redis = "open"
  /\ coordinator.phase = "awaiting_stop" => coordinator.drain = "drained"
  /\ coordinator.phase = "forcing" => coordinator.drain = "expired"
  /\ coordinator.phase \in {"closing_redis", "closing_postgres", "stopped"}
       => coordinator.drain \in {"drained", "expired"}
  /\ coordinator.drain = "drained" => tracker.active = 0

\* Every await of performShutdown ends at a time that is known when it begins.
DeadlinesAreMet ==
  /\ coordinator.startedAt <= now
  /\ coordinator.phase \in {"draining", "awaiting_stop"}
       => now <= coordinator.startedAt + GracePeriod
  /\ coordinator.phase \in {"forcing", "closing_redis", "closing_postgres"}
       => now <= coordinator.deadline
  /\ coordinator.phase = "forcing"
       => coordinator.deadline <= coordinator.startedAt + GracePeriod + CloseTimeout
  /\ coordinator.phase = "closing_redis"
       => coordinator.deadline <= coordinator.startedAt + GracePeriod + 2 * CloseTimeout
  /\ coordinator.phase = "closing_postgres"
       => coordinator.deadline <= coordinator.startedAt + GracePeriod + 3 * CloseTimeout

\* A request that is running has begun before the signal, and each of its probes
\* before the last one's deadline.
RequestInTime(r) ==
  /\ requests[r].since <= now
  /\ r \in Business => requests[r].phase \notin {"probing_postgres", "probing_redis"}
  /\ r \in Probes => requests[r].phase # "working"
  /\ requests[r].phase \in {"probing_postgres", "probing_redis"}
       => now <= requests[r].since + ReadinessTimeout
  /\ (coordinator.phase \notin BeforeSignal
        /\ requests[r].phase \in {"working", "probing_postgres"})
       => requests[r].since <= coordinator.startedAt
  /\ (coordinator.phase \notin BeforeSignal /\ requests[r].phase = "probing_redis")
       => requests[r].since <= coordinator.startedAt + ReadinessTimeout

RequestsInTime == \A r \in Requests : RequestInTime(r)

ProcessInvariant ==
  /\ ShutdownInvariant
  /\ ConfigIsLoaded
  /\ PhasesAgree
  /\ DeadlinesAreMet
  /\ RequestsInTime

\* The API process exists only on the whole schema.
CreatedMigrated == coordinator.phase # "loading" => schema = Files

\* What loadConfig returns: numbers, the grace period and the probes' deadline
\* positive, and a grace period that covers the longest execution.
LEMMA LoadedConfig ==
  ASSUME NEW environment \in Environments, NEW c \in LoadConfig(environment)
  PROVE  /\ c \in [Names -> Int]
         /\ c["gracePeriod"] \in Nat /\ c["readinessTimeout"] \in Nat
         /\ c["gracePeriod"] >= MaximumExecutionWindow(c)
         /\ MaximumExecutionWindow(c) \in Int
  <1> DEFINE n == NumbersOf(environment)
  <1>1. c = ValuesOf(n) /\ IsValid(n, c)
    BY DEF LoadConfig
  <1>2. environment.numbers \in [Names -> Raw]
    BY ShutdownConfigAssumption DEF Environment
  <1>3. ASSUME NEW name \in Names PROVE n[name].value \in Int
    <2>1. environment.numbers[name] \in Raw /\ Defaults[name] \in Int
      BY <1>2, ConfigurationAssumption
    <2> QED
      BY <2>1 DEF NumbersOf, NumberOf, Raw
  <1>4. c \in [Names -> Int]
    BY <1>1, <1>3 DEF ValuesOf
  <1> HIDE DEF n
  <1>5. ASSUME NEW name \in PositiveNames PROVE c[name] \in Nat
    <2>1. name \in Names /\ n[name].value >= 1
      BY <1>1 DEF Names, IsAtLeast, IsValid
    <2>2. c[name] = n[name].value /\ n[name].value \in Int
      BY <1>1, <1>3, <2>1 DEF ValuesOf
    <2> QED
      BY <2>1, <2>2
  <1>6. c["gracePeriod"] \in Nat /\ c["readinessTimeout"] \in Nat
    BY <1>5 DEF PositiveNames
  <1>7. MaximumExecutionWindow(c) \in Int
    <2> DEFINE w == Policy(c)!MaximumRetryWindow
    <2>1. w \in -MaxSafeInteger..MaxSafeInteger
      BY <1>1 DEF IsValid, TimingIsValid
    <2>2. c["executionOverhead"] \in Int
      BY <1>4 DEF Names, NumberNames
    <2> HIDE DEF w
    <2>3. w + c["executionOverhead"] \in Int
      BY <2>1, <2>2, ConfigurationAssumption
    <2> QED
      BY <2>3 DEF w, MaximumExecutionWindow
  <1> QED
    BY <1>1, <1>4, <1>6, <1>7 DEF IsValid, GraceCoversExecution

\* A configuration that loadConfig lets through has what the theorems about the other
\* components assume of it, whatever was in the environment: the checks of the retry
\* policy, the breaker, the limiter and the body limit all reach the values used, and
\* between the longest execution of the provider and both the stale timeout and the
\* grace period there is the room that the lease and the drain need.
THEOREM AcceptedConfigurationIsSound ==
  \A environment \in Environments : \A c \in LoadConfig(environment) :
    /\ c["maxAttempts"] \in 1..10
    /\ c["attemptTimeout"] \in Nat \ {0}
    /\ c["baseDelay"] \in Nat /\ c["maxDelay"] \in Nat
    /\ c["maxDelay"] >= c["baseDelay"]
    /\ c["jitterPercent"] \in 0..100
    /\ c["failureThreshold"] \in Nat \ {0} /\ c["openDuration"] \in Nat \ {0}
    /\ c["rateLimitMaxRequests"] \in Nat \ {0} /\ c["rateLimitWindow"] \in Nat \ {0}
    /\ c["maxBodyBytes"] \in Nat \ {0}
    /\ c["minimumStaleMargin"] \in Nat \ {0}
    /\ c["staleTimeout"] >= MaximumExecutionWindow(c) + c["minimumStaleMargin"]
    /\ c["gracePeriod"] >= MaximumExecutionWindow(c)
  <1> SUFFICES ASSUME NEW environment \in Environments, NEW c \in LoadConfig(environment)
      PROVE  /\ c["maxAttempts"] \in 1..10
             /\ c["attemptTimeout"] \in Nat \ {0}
             /\ c["baseDelay"] \in Nat /\ c["maxDelay"] \in Nat
             /\ c["maxDelay"] >= c["baseDelay"]
             /\ c["jitterPercent"] \in 0..100
             /\ c["failureThreshold"] \in Nat \ {0} /\ c["openDuration"] \in Nat \ {0}
             /\ c["rateLimitMaxRequests"] \in Nat \ {0} /\ c["rateLimitWindow"] \in Nat \ {0}
             /\ c["maxBodyBytes"] \in Nat \ {0}
             /\ c["minimumStaleMargin"] \in Nat \ {0}
             /\ c["staleTimeout"] >= MaximumExecutionWindow(c) + c["minimumStaleMargin"]
             /\ c["gracePeriod"] >= MaximumExecutionWindow(c)
    OBVIOUS
  <1> DEFINE n == NumbersOf(environment)
             x == MaximumExecutionWindow(c)
  <1>1. c = ValuesOf(n) /\ IsValid(n, c)
    BY DEF LoadConfig
  <1>2. /\ c \in [Names -> Int] /\ x \in Int /\ c["gracePeriod"] >= x
    BY LoadedConfig
  <1> HIDE DEF n, x
  <1>3. \A name \in Names : c[name] = n[name].value /\ c[name] \in Int
    BY <1>1, <1>2 DEF ValuesOf
  <1>4. ASSUME NEW name \in Names, NEW m \in Nat, IsAtLeast(n[name], m)
        PROVE  c[name] \in Nat /\ c[name] >= m
    BY <1>3, <1>4 DEF IsAtLeast
  <1>5. {"maxAttempts", "attemptTimeout", "baseDelay", "maxDelay", "jitterPercent",
         "failureThreshold", "openDuration", "rateLimitMaxRequests", "rateLimitWindow",
         "maxBodyBytes", "minimumStaleMargin", "staleTimeout"} \subseteq Names
    BY DEF Names, PositiveNames, NumberNames
  <1>6. /\ RetryIsValid(n) /\ BreakerIsValid(n)
        /\ IsAtLeast(n["minimumStaleMargin"], 1)
        /\ c["staleTimeout"] - x >= c["minimumStaleMargin"]
        /\ IsAtLeast(n["rateLimitMaxRequests"], 1) /\ IsAtLeast(n["rateLimitWindow"], 1)
        /\ IsAtLeast(n["maxBodyBytes"], 1)
    BY <1>1 DEF IsValid, TimingIsValid, PositiveNames, x
  <1>7. /\ c["maxAttempts"] \in Nat /\ c["maxAttempts"] >= 1
        /\ c["attemptTimeout"] \in Nat /\ c["attemptTimeout"] >= 1
        /\ c["baseDelay"] \in Nat /\ c["maxDelay"] \in Nat
    BY <1>4, <1>5, <1>6 DEF RetryIsValid
  <1>8. /\ c["maxAttempts"] <= 10
        /\ c["maxDelay"] >= c["baseDelay"]
        /\ c["jitterPercent"] \in 0..100
    BY <1>3, <1>5, <1>6 DEF RetryIsValid
  <1>9. /\ c["failureThreshold"] \in Nat /\ c["failureThreshold"] >= 1
        /\ c["openDuration"] \in Nat /\ c["openDuration"] >= 1
    BY <1>4, <1>5, <1>6 DEF BreakerIsValid
  <1>10. /\ c["rateLimitMaxRequests"] \in Nat /\ c["rateLimitMaxRequests"] >= 1
         /\ c["rateLimitWindow"] \in Nat /\ c["rateLimitWindow"] >= 1
         /\ c["maxBodyBytes"] \in Nat /\ c["maxBodyBytes"] >= 1
         /\ c["minimumStaleMargin"] \in Nat /\ c["minimumStaleMargin"] >= 1
    BY <1>4, <1>5, <1>6
  <1>11. c["staleTimeout"] >= x + c["minimumStaleMargin"]
    <2>1. c["staleTimeout"] \in Int
      BY <1>3, <1>5
    <2> QED
      BY <1>2, <1>6, <1>10, <2>1
  <1> QED
    BY <1>2, <1>7, <1>8, <1>9, <1>10, <1>11 DEF x

\* The running requests, and that they can be counted.
RunningSet == {r \in Requests : Running(r)}

\* A finite number of slots has a finite number of running requests.
LEMMA RunningIsFinite == IsFiniteSet(RunningSet) /\ Cardinality(RunningSet) \in Nat
  BY ShutdownBoundsAssumption, FS_Subset, FS_CardinalityType DEF RunningSet, Requests

\* One request more is running: begin().
LEMMA OneMoreRunning ==
  ASSUME NEW r \in Requests, ~Running(r), Running(r)',
         \A q \in Requests : q # r => requests'[q] = requests[q]
  PROVE  Cardinality(RunningSet') = Cardinality(RunningSet) + 1
  <1>1. RunningSet' = RunningSet \cup {r} /\ r \notin RunningSet
    BY DEF RunningSet, Running
  <1> QED
    BY <1>1, RunningIsFinite, FS_AddElement

\* One request less is running: the release function.
LEMMA OneLessRunning ==
  ASSUME NEW r \in Requests, Running(r), ~Running(r)',
         \A q \in Requests : q # r => requests'[q] = requests[q]
  PROVE  /\ Cardinality(RunningSet') = Cardinality(RunningSet) - 1
         /\ Cardinality(RunningSet) > 0
  <1>1. RunningSet' = RunningSet \ {r} /\ r \in RunningSet
    BY DEF RunningSet, Running
  <1>2. Cardinality(RunningSet') = Cardinality(RunningSet) - 1
    BY <1>1, RunningIsFinite, FS_RemoveElement
  <1>3. Cardinality(RunningSet) # 0
    BY <1>1, RunningIsFinite, FS_EmptySet
  <1> QED
    BY <1>2, <1>3, RunningIsFinite

\* The count does not change when no request starts or stops to run.
LEMMA SameRunning ==
  ASSUME \A r \in Requests : Running(r)' <=> Running(r)
  PROVE  Cardinality(RunningSet') = Cardinality(RunningSet)
  <1>1. RunningSet' = RunningSet
    BY DEF RunningSet
  <1> QED
    BY <1>1

\* Nobody runs when the tracker is at zero, and somebody does when it is not.
LEMMA ZeroMeansIdle ==
  ASSUME DrainIsNotMissed
  PROVE  tracker.active = 0 <=> \A r \in Requests : ~Running(r)
  <1>1. tracker.active = Cardinality(RunningSet)
    BY DEF DrainIsNotMissed, RunningSet
  <1>2. Cardinality(RunningSet) = 0 <=> RunningSet = {}
    BY RunningIsFinite, FS_EmptySet
  <1> QED
    BY <1>1, <1>2 DEF RunningSet

\* The process has not begun: nothing is open, nothing runs.
LEMMA InitEstablishesProcess == Init => ProcessInvariant
  <1> SUFFICES ASSUME Init PROVE ProcessInvariant
    OBVIOUS
  <1>1. \A r \in Requests : requests[r] = IdleRequest
    BY DEF Init
  <1>2. IdleRequest \in Request /\ IdleRequest.phase = "idle" /\ IdleRequest.since = 0
    BY DEF IdleRequest, Request, RequestPhases
  <1>3. /\ coordinator.phase = "loading" /\ coordinator.startedAt = 0
        /\ coordinator.drain = "none" /\ coordinator.httpStop = "none"
        /\ tracker.active = 0 /\ resources.http = "down" /\ now = 0
    BY DEF Init
  <1>4. TypeOK
    <2>1. NoConfig \in [Names -> Int]
      BY DEF NoConfig
    <2>2. tracker \in [active : Nat, shuttingDown : BOOLEAN]
      <3>1. FALSE \in BOOLEAN /\ 0 \in Nat
        OBVIOUS
      <3> QED
        BY <3>1, Zenon DEF Init
    <2>3. coordinator \in Coordinator /\ resources \in Resources
      BY DEF Init, Coordinator, Resources, Phases
    <2>4. requests \in [Requests -> Request]
      BY <1>2 DEF Init
    <2> QED
      BY <2>1, <2>2, <2>3, <2>4 DEF Init, TypeOK
  <1>5. DrainIsNotMissed
    <2>1. RunningSet = {}
      BY <1>1, <1>2 DEF RunningSet, Running
    <2> QED
      BY <1>3, <2>1, FS_EmptySet DEF DrainIsNotMissed, RunningSet
  <1>6. ConfigIsLoaded
    BY <1>3 DEF Init, NoConfig, ConfigIsLoaded, GracePeriod, ReadinessTimeout, Names,
       PositiveNames
  <1>7. PhasesAgree
    <2>1. ~tracker.shuttingDown
      BY Zenon DEF Init
    <2> QED
      BY <1>1, <1>2, <1>3, <2>1 DEF PhasesAgree, BeforeSignal
  <1>8. DeadlinesAreMet
    BY <1>3 DEF DeadlinesAreMet
  <1>9. RequestsInTime
    BY <1>1, <1>2, <1>3 DEF RequestsInTime, RequestInTime, BeforeSignal
  <1> QED
    BY <1>4, <1>5, <1>6, <1>7, <1>8, <1>9 DEF ProcessInvariant, ShutdownInvariant

\* The types of what the proofs compute with.
LEMMA ProcessTyped ==
  ASSUME ProcessInvariant
  PROVE  /\ TypeOK /\ now \in Nat /\ GracePeriod \in Nat /\ ReadinessTimeout \in Nat
         /\ CloseTimeout \in Nat
         /\ coordinator \in Coordinator /\ coordinator.startedAt \in Nat
         /\ coordinator.deadline \in Nat
         /\ tracker.active \in Nat /\ tracker \in [active : Nat, shuttingDown : BOOLEAN]
         /\ \A r \in Requests : requests[r] \in Request /\ requests[r].since \in Nat
  BY ShutdownConfigAssumption
  DEF ProcessInvariant, ShutdownInvariant, TypeOK, ConfigIsLoaded, Coordinator, Request

-------------------------------------------------------------------------------
(* The steps of a request.                                                   *)

\* A step of request r that leaves the clock, the coordinator's phase and the clients
\* alone.
RequestMoves(r) ==
  /\ UNCHANGED <<now, config, resources>>
  /\ requests' \in [Requests -> Request]
  /\ \A q \in Requests : q # r => requests'[q] = requests[q]
  /\ tracker' \in [active : Nat, shuttingDown : BOOLEAN]
  /\ tracker'.shuttingDown = tracker.shuttingDown
  /\ coordinator' \in Coordinator
  /\ coordinator'.phase = coordinator.phase
  /\ coordinator'.startedAt = coordinator.startedAt
  /\ coordinator'.deadline = coordinator.deadline
  /\ coordinator'.httpStop = coordinator.httpStop

\* Such a step keeps the invariant if the count stays right and r stays in time.
LEMMA RequestStepKeepsProcess ==
  ASSUME ProcessInvariant, NEW r \in Requests, RequestMoves(r),
         coordinator.phase \notin {"loading", "starting", "failed"},
         tracker'.active = Cardinality(RunningSet'),
         coordinator'.drain = "waiting" => tracker'.active > 0,
         coordinator'.drain = "drained" => tracker'.active = 0,
         \/ coordinator'.drain = coordinator.drain
         \/ coordinator.drain = "waiting" /\ coordinator'.drain = "drained",
         RequestInTime(r)'
  PROVE  ProcessInvariant'
  <1>1. TypeOK'
    BY ProcessTyped DEF RequestMoves, TypeOK
  <1>2. DrainIsNotMissed'
    BY DEF DrainIsNotMissed, RunningSet
  <1>3. GracePeriod' = GracePeriod /\ ReadinessTimeout' = ReadinessTimeout
    BY DEF RequestMoves, GracePeriod, ReadinessTimeout
  <1>4. ConfigIsLoaded'
    BY <1>3 DEF RequestMoves, ProcessInvariant, ConfigIsLoaded
  <1>5. PhasesAgree'
    BY DEF RequestMoves, ProcessInvariant, PhasesAgree, BeforeSignal
  <1>6. DeadlinesAreMet'
    BY <1>3 DEF RequestMoves, ProcessInvariant, DeadlinesAreMet
  <1>7. RequestsInTime'
    <2> SUFFICES ASSUME NEW q \in Requests, q # r PROVE RequestInTime(q)'
      BY DEF RequestsInTime
    <2>1. RequestInTime(q)
      BY DEF ProcessInvariant, RequestsInTime
    <2> QED
      BY <1>3, <2>1 DEF RequestMoves, RequestInTime
  <1> QED
    BY <1>1, <1>2, <1>4, <1>5, <1>6, <1>7 DEF ProcessInvariant, ShutdownInvariant

\* Requests come and go only while the server is up or shutting down.
LEMMA RequestsNeedServer ==
  ASSUME ProcessInvariant,
         ServerDelivers \/ \E r \in Requests : requests[r].phase # "idle"
  PROVE  coordinator.phase \notin {"loading", "starting", "failed"}
  BY DEF ProcessInvariant, PhasesAgree, ServerDelivers

\* begin() refuses while the process shuts down: a request that enters routeRequest
\* does so before the signal, and is counted.
LEMMA ArriveKeepsProcess ==
  ASSUME ProcessInvariant, NEW r \in Requests, NEW phase \in {"working", "probing_postgres"},
         NEW refusal \in {"none", "not_ready"}, Arrive(r, phase, refusal),
         r \in Business => phase = "working", r \in Probes => phase = "probing_postgres"
  PROVE  ProcessInvariant'
  <1>0. /\ coordinator.phase \notin {"loading", "starting", "failed"}
        /\ UNCHANGED <<now, config, coordinator, resources>>
        /\ requests \in [Requests -> Request]
    BY RequestsNeedServer, ProcessTyped DEF Arrive, TypeOK
  <1>1. CASE ~tracker.shuttingDown /\ Begin(r, phase)
    <2> DEFINE begun == [phase |-> phase, since |-> now, answer |-> "none"]
    <2>1. begun \in Request
      BY ProcessTyped DEF Request, RequestPhases
    <2>2. /\ requests' \in [Requests -> Request]
          /\ requests'[r].phase = phase /\ requests'[r].since = now
          /\ \A q \in Requests : q # r => requests'[q] = requests[q]
      BY <1>0, <1>1, <2>1 DEF Begin
    <2>3. /\ tracker' \in [active : Nat, shuttingDown : BOOLEAN]
          /\ tracker'.shuttingDown = tracker.shuttingDown
          /\ tracker'.active = tracker.active + 1
      BY <1>1, ProcessTyped DEF Begin
    <2>4. Cardinality(RunningSet') = Cardinality(RunningSet) + 1
      BY <1>0, <2>2, OneMoreRunning DEF Arrive, Running
    <2>5. tracker'.active = Cardinality(RunningSet') /\ tracker'.active > 0
      BY <2>3, <2>4, ProcessTyped
      DEF ProcessInvariant, ShutdownInvariant, DrainIsNotMissed, RunningSet
    <2>6. coordinator.phase \in BeforeSignal /\ coordinator.drain = "none"
      BY <1>1 DEF ProcessInvariant, PhasesAgree
    <2>7. RequestInTime(r)'
      BY <1>0, <2>2, <2>6, ProcessTyped DEF RequestInTime, ReadinessTimeout
    <2>8. RequestMoves(r)
      BY <1>0, <2>2, <2>3, ProcessTyped DEF RequestMoves
    <2> QED
      BY <1>0, <2>5, <2>6, <2>7, <2>8, RequestStepKeepsProcess
  <1>2. CASE requests' = [requests EXCEPT ![r] = Responding(refusal)] /\ tracker' = tracker
    <2>1. /\ Responding(refusal) \in Request
          /\ Responding(refusal).phase = "responding" /\ Responding(refusal).since = 0
      BY DEF Responding, Request, RequestPhases
    <2>2. /\ requests' \in [Requests -> Request]
          /\ requests'[r].phase = "responding" /\ requests'[r].since = 0
          /\ \A q \in Requests : q # r => requests'[q] = requests[q]
      BY <1>0, <1>2, <2>1
    <2>3. Cardinality(RunningSet') = Cardinality(RunningSet)
      BY <2>2, SameRunning DEF Arrive, Running
    <2>4. RequestInTime(r)'
      BY <1>0, <2>2, ProcessTyped DEF RequestInTime
    <2>5. RequestMoves(r)
      BY <1>0, <1>2, <2>2, ProcessTyped DEF RequestMoves
    <2> QED
      BY <1>0, <1>2, <2>3, <2>4, <2>5, RequestStepKeepsProcess
      DEF ProcessInvariant, ShutdownInvariant, DrainIsNotMissed, RunningSet, PhasesAgree
  <1> QED
    BY <1>1, <1>2 DEF Arrive

\* The last release settles the promise of waitForDrain, and no earlier one does.
LEMMA ReleaseKeepsProcess ==
  ASSUME ProcessInvariant, NEW r \in Requests, Running(r),
         NEW answer \in {"none", "ready", "degraded", "not_ready"}, Release(r, answer)
  PROVE  ProcessInvariant'
  <1>0. /\ coordinator.phase \notin {"loading", "starting", "failed"}
        /\ requests \in [Requests -> Request]
    BY RequestsNeedServer, ProcessTyped DEF Running, TypeOK
  <1>1. /\ Responding(answer) \in Request
        /\ Responding(answer).phase = "responding" /\ Responding(answer).since = 0
    BY DEF Responding, Request, RequestPhases
  <1>2. /\ requests' \in [Requests -> Request]
        /\ requests'[r].phase = "responding" /\ requests'[r].since = 0
        /\ \A q \in Requests : q # r => requests'[q] = requests[q]
    BY <1>0, <1>1 DEF Release
  <1>3. /\ Cardinality(RunningSet') = Cardinality(RunningSet) - 1
        /\ Cardinality(RunningSet) > 0
    BY <1>2, OneLessRunning DEF Running
  <1>4. tracker.active = Cardinality(RunningSet) /\ tracker.active > 0
        /\ (coordinator.drain = "drained" => tracker.active = 0)
    BY <1>3 DEF ProcessInvariant, ShutdownInvariant, DrainIsNotMissed, RunningSet, PhasesAgree
  <1>5. /\ tracker' \in [active : Nat, shuttingDown : BOOLEAN]
        /\ tracker'.shuttingDown = tracker.shuttingDown
        /\ tracker'.active = tracker.active - 1
    BY <1>4, ProcessTyped DEF Release
  <1> DEFINE drain == IF coordinator.drain = "waiting" /\ tracker.active = 1 THEN "drained"
                      ELSE coordinator.drain
  <1>6. /\ coordinator' \in Coordinator
        /\ coordinator'.phase = coordinator.phase
        /\ coordinator'.startedAt = coordinator.startedAt
        /\ coordinator'.deadline = coordinator.deadline
        /\ coordinator'.httpStop = coordinator.httpStop
        /\ coordinator'.drain = drain
    <2>1. drain \in {"none", "waiting", "drained", "expired"}
      BY ProcessTyped DEF Coordinator
    <2>2. coordinator' = [coordinator EXCEPT !.drain = drain]
      BY DEF Release
    <2> HIDE DEF drain
    <2> QED
      BY <2>1, <2>2, ProcessTyped DEF Coordinator
  <1>7. RequestInTime(r)'
    BY <1>2, ProcessTyped DEF RequestInTime, Release
  <1>8. RequestMoves(r)
    BY <1>2, <1>5, <1>6 DEF RequestMoves, Release
  <1>9. /\ tracker'.active = Cardinality(RunningSet')
        /\ coordinator'.drain = "waiting" => tracker'.active > 0
        /\ coordinator'.drain = "drained" => tracker'.active = 0
        /\ \/ coordinator'.drain = coordinator.drain
           \/ coordinator.drain = "waiting" /\ coordinator'.drain = "drained"
    BY <1>3, <1>4, <1>5, <1>6, ProcessTyped
  <1> QED
    BY <1>0, <1>7, <1>8, <1>9, RequestStepKeepsProcess

\* SELECT 1 has answered: the PING gets a deadline of its own, which starts before the
\* first one's end.
LEMMA SecondProbeKeepsProcess ==
  ASSUME ProcessInvariant, NEW r \in Probes, PostgresProbeSucceeds(r)
  PROVE  ProcessInvariant'
  <1>0. /\ r \in Requests /\ r \notin Business
        /\ coordinator.phase \notin {"loading", "starting", "failed"}
        /\ requests \in [Requests -> Request]
        /\ UNCHANGED <<now, config, tracker, coordinator, resources>>
    BY RequestsNeedServer, ProcessTyped, ShutdownBoundsAssumption
    DEF PostgresProbeSucceeds, TypeOK, Requests
  <1> DEFINE second == [phase |-> "probing_redis", since |-> now, answer |-> "none"]
  <1>1. second \in Request
    BY ProcessTyped DEF Request, RequestPhases
  <1>2. /\ requests' \in [Requests -> Request]
        /\ requests'[r].phase = "probing_redis" /\ requests'[r].since = now
        /\ \A q \in Requests : q # r => requests'[q] = requests[q]
    BY <1>0, <1>1 DEF PostgresProbeSucceeds
  <1>3. Cardinality(RunningSet') = Cardinality(RunningSet)
    BY <1>2, SameRunning DEF PostgresProbeSucceeds, Running
  <1>4. RequestInTime(r)'
    <2>1. /\ now <= requests[r].since + ReadinessTimeout
          /\ coordinator.phase \notin BeforeSignal => requests[r].since <= coordinator.startedAt
      BY <1>0 DEF PostgresProbeSucceeds, ProcessInvariant, RequestsInTime, RequestInTime
    <2>2. requests[r].since \in Nat
      BY <1>0, ProcessTyped
    <2> QED
      BY <1>0, <1>2, <2>1, <2>2, ProcessTyped DEF RequestInTime, ReadinessTimeout
  <1>5. RequestMoves(r)
    BY <1>0, <1>2, ProcessTyped DEF RequestMoves
  <1> QED
    BY <1>0, <1>3, <1>4, <1>5, RequestStepKeepsProcess
    DEF ProcessInvariant, ShutdownInvariant, DrainIsNotMissed, RunningSet, PhasesAgree

\* A response that has left is not in flight.
LEMMA ResponseKeepsProcess ==
  ASSUME ProcessInvariant, NEW r \in Requests, ResponseSent(r)
  PROVE  ProcessInvariant'
  <1>0. /\ coordinator.phase \notin {"loading", "starting", "failed"}
        /\ requests \in [Requests -> Request]
        /\ UNCHANGED <<now, config, tracker, coordinator, resources>>
    BY RequestsNeedServer, ProcessTyped DEF ResponseSent, TypeOK
  <1>1. IdleRequest \in Request /\ IdleRequest.phase = "idle" /\ IdleRequest.since = 0
    BY DEF IdleRequest, Request, RequestPhases
  <1>2. /\ requests' \in [Requests -> Request]
        /\ requests'[r].phase = "idle" /\ requests'[r].since = 0
        /\ \A q \in Requests : q # r => requests'[q] = requests[q]
    BY <1>0, <1>1 DEF ResponseSent
  <1>3. Cardinality(RunningSet') = Cardinality(RunningSet)
    BY <1>2, SameRunning DEF ResponseSent, Running
  <1>4. RequestInTime(r)'
    BY <1>0, <1>2, ProcessTyped DEF RequestInTime
  <1>5. RequestMoves(r)
    BY <1>0, <1>2, ProcessTyped DEF RequestMoves
  <1> QED
    BY <1>0, <1>3, <1>4, <1>5, RequestStepKeepsProcess
    DEF ProcessInvariant, ShutdownInvariant, DrainIsNotMissed, RunningSet, PhasesAgree

-------------------------------------------------------------------------------
(* The steps of main.ts and of the coordinator.                              *)

\* A step that leaves the clock and the requests alone keeps the invariant if the
\* coordinator's own parts of it stay.
LEMMA CoordinatorStepKeepsProcess ==
  ASSUME ProcessInvariant, UNCHANGED <<now, requests>>,
         tracker' \in [active : Nat, shuttingDown : BOOLEAN],
         tracker'.active = tracker.active,
         config' \in [Names -> Int], coordinator' \in Coordinator, resources' \in Resources,
         coordinator'.drain = "waiting" => tracker.active > 0,
         ConfigIsLoaded', PhasesAgree', DeadlinesAreMet', RequestsInTime'
  PROVE  ProcessInvariant'
  <1>1. TypeOK'
    BY ProcessTyped DEF TypeOK
  <1>2. \A r \in Requests : Running(r)' <=> Running(r)
    BY DEF Running
  <1>3. DrainIsNotMissed'
    BY <1>2, SameRunning
    DEF ProcessInvariant, ShutdownInvariant, DrainIsNotMissed, RunningSet
  <1> QED
    BY <1>1, <1>3 DEF ProcessInvariant, ShutdownInvariant

\* Startup opens the clients for an accepted configuration, then the server.
LEMMA StartupKeepsProcess ==
  ASSUME ProcessInvariant,
         \/ \E environment \in Environments : Load(environment)
         \/ StartupSucceeds
         \/ StartupFails
  PROVE  ProcessInvariant'
  <1>0. /\ UNCHANGED <<now, tracker, requests>>
        /\ coordinator.phase \in {"loading", "starting"}
        /\ coordinator'.phase \in BeforeSignal
    BY ProcessTyped
    DEF Load, StartupSucceeds, StartupFails, BeforeSignal, Coordinator
  <1>1. /\ coordinator' \in Coordinator
        /\ coordinator'.startedAt = coordinator.startedAt
        /\ coordinator'.drain = coordinator.drain
        /\ coordinator'.httpStop = coordinator.httpStop
    BY ProcessTyped DEF Load, StartupSucceeds, StartupFails, Coordinator, Phases
  <1>2. resources \in Resources /\ config \in [Names -> Int]
    BY ProcessTyped DEF TypeOK
  <1>3. /\ resources' \in Resources
        /\ coordinator'.phase \in {"loading", "starting", "failed"} => resources'.http = "down"
        /\ coordinator'.phase \in {"starting", "up"} => resources'.redis = "open"
    <2>1. /\ resources.http = "down"
          /\ coordinator.phase = "starting" => resources.redis = "open"
      BY <1>0 DEF ProcessInvariant, PhasesAgree
    <2>2. CASE \E environment \in Environments : Load(environment)
      BY <1>2, <2>1, <2>2, ProcessTyped DEF Load, Resources, Coordinator
    <2>3. CASE StartupSucceeds
      BY <1>2, <2>1, <2>3, ProcessTyped DEF StartupSucceeds, Resources, Coordinator
    <2>4. CASE StartupFails
      BY <1>2, <2>1, <2>4, ProcessTyped DEF StartupFails, Resources, Coordinator
    <2> QED
      BY <2>2, <2>3, <2>4
  <1>4. config' \in [Names -> Int] /\ ConfigIsLoaded'
    <2>1. ASSUME NEW environment \in Environments, Load(environment)
          PROVE  config' \in [Names -> Int] /\ ConfigIsLoaded'
      <3>1. CASE config' \in LoadConfig(environment)
        BY <3>1, LoadedConfig DEF ConfigIsLoaded, GracePeriod, ReadinessTimeout
      <3>2. CASE config' = config /\ coordinator'.phase = "failed"
        BY <1>2, <3>2
        DEF ProcessInvariant, ConfigIsLoaded, GracePeriod, ReadinessTimeout
      <3> QED
        BY <2>1, <3>1, <3>2, ProcessTyped DEF Load, Coordinator
    <2>2. CASE StartupSucceeds \/ StartupFails
      BY <1>0, <1>2, <2>2
      DEF StartupSucceeds, StartupFails, ProcessInvariant, ConfigIsLoaded, GracePeriod,
          ReadinessTimeout
    <2> QED
      BY <2>1, <2>2
  <1>5. PhasesAgree'
    BY <1>0, <1>1, <1>3 DEF ProcessInvariant, PhasesAgree, BeforeSignal
  <1>6. DeadlinesAreMet'
    BY <1>0, <1>1 DEF ProcessInvariant, DeadlinesAreMet, BeforeSignal
  <1>7. RequestsInTime'
    <2> SUFFICES ASSUME NEW r \in Requests PROVE RequestInTime(r)'
      BY DEF RequestsInTime
    <2>1. requests[r].phase = "idle" /\ requests[r].since <= now
      BY <1>0 DEF ProcessInvariant, PhasesAgree, RequestsInTime, RequestInTime
    <2> QED
      BY <1>0, <2>1 DEF RequestInTime
  <1> QED
    BY <1>0, <1>1, <1>3, <1>4, <1>5, <1>6, <1>7, ProcessTyped, CoordinatorStepKeepsProcess
    DEF ProcessInvariant, ShutdownInvariant, DrainIsNotMissed

\* shutdown() runs up to its first await: whoever is running has begun by now, and
\* the drain is awaited only if somebody is.
LEMMA SignalKeepsProcess ==
  ASSUME ProcessInvariant, Signal, coordinator.phase = "up"
  PROVE  ProcessInvariant'
  <1>0. /\ UNCHANGED <<now, config, requests>>
        /\ GracePeriod' = GracePeriod /\ ReadinessTimeout' = ReadinessTimeout
        /\ config \in [Names -> Int] /\ resources \in Resources
    BY ProcessTyped DEF Signal, TypeOK, GracePeriod, ReadinessTimeout
  <1>1. /\ tracker' \in [active : Nat, shuttingDown : BOOLEAN]
        /\ tracker'.active = tracker.active /\ tracker'.shuttingDown
    BY ProcessTyped DEF Signal
  <1> DEFINE drain == IF tracker.active = 0 THEN "drained" ELSE "waiting"
  <1>2. /\ coordinator' \in Coordinator
        /\ coordinator'.phase = "draining" /\ coordinator'.startedAt = now
        /\ coordinator'.drain = drain /\ coordinator'.httpStop = "pending"
    <2>1. coordinator' = [phase |-> "draining", startedAt |-> now,
                          deadline |-> now + GracePeriod, drain |-> drain,
                          httpStop |-> "pending"]
      BY DEF Signal
    <2>2. drain \in {"drained", "waiting"} /\ now + GracePeriod \in Nat
      BY ProcessTyped
    <2> HIDE DEF drain
    <2> QED
      BY <2>1, <2>2, ProcessTyped DEF Coordinator, Phases
  <1>3. /\ resources' \in Resources /\ resources'.redis = resources.redis
    BY <1>0 DEF Signal, Resources
  <1>4. ConfigIsLoaded'
    BY <1>0 DEF ProcessInvariant, ConfigIsLoaded
  <1>5. PhasesAgree'
    BY <1>1, <1>2, <1>3, ProcessTyped DEF ProcessInvariant, PhasesAgree, BeforeSignal
  <1>6. DeadlinesAreMet'
    BY <1>0, <1>2, ProcessTyped DEF DeadlinesAreMet
  <1>7. RequestsInTime'
    <2> SUFFICES ASSUME NEW r \in Requests PROVE RequestInTime(r)'
      BY DEF RequestsInTime
    <2>1. RequestInTime(r) /\ requests[r].since \in Nat
      BY ProcessTyped DEF ProcessInvariant, RequestsInTime
    <2>2. requests'[r] = requests[r]
      BY <1>0
    <2> QED
      BY <1>0, <1>2, <2>1, <2>2, ProcessTyped DEF RequestInTime
  <1>8. coordinator'.drain = "waiting" => tracker.active > 0
    BY <1>2, ProcessTyped
  <1> QED
    BY <1>0, <1>1, <1>2, <1>3, <1>4, <1>5, <1>6, <1>7, <1>8, CoordinatorStepKeepsProcess

\* A step of performShutdown after the signal.
LEMMA ShutdownStepKeepsProcess ==
  ASSUME ProcessInvariant, UNCHANGED <<now, config, tracker, requests>>,
         coordinator.phase \notin BeforeSignal, coordinator'.phase \notin BeforeSignal,
         coordinator' \in Coordinator, resources' \in Resources,
         coordinator'.startedAt = coordinator.startedAt,
         coordinator'.drain \in {coordinator.drain, "expired"},
         \/ coordinator'.phase = coordinator.phase /\ resources'.redis = resources.redis
         \/ coordinator'.phase = "awaiting_stop" /\ coordinator'.drain = "drained"
            /\ resources'.redis = "open"
         \/ coordinator'.phase = "forcing" /\ coordinator'.drain = "expired"
            /\ resources'.redis = "open"
         \/ coordinator'.phase \in {"closing_redis", "closing_postgres", "stopped"}
            /\ coordinator'.drain \in {"drained", "expired"},
         coordinator.phase # "draining" => coordinator'.drain = coordinator.drain,
         DeadlinesAreMet'
  PROVE  ProcessInvariant'
  <1>1. GracePeriod' = GracePeriod /\ ReadinessTimeout' = ReadinessTimeout
    BY DEF GracePeriod, ReadinessTimeout
  <1>2. ConfigIsLoaded'
    BY <1>1 DEF ProcessInvariant, ConfigIsLoaded, BeforeSignal
  <1>3. PhasesAgree'
    BY DEF ProcessInvariant, PhasesAgree, BeforeSignal
  <1>4. RequestsInTime'
    BY <1>1 DEF ProcessInvariant, RequestsInTime, RequestInTime
  <1>5. coordinator'.drain = "waiting" => tracker.active > 0
    BY DEF ProcessInvariant, ShutdownInvariant, DrainIsNotMissed
  <1>6. config' \in [Names -> Int] /\ tracker' \in [active : Nat, shuttingDown : BOOLEAN]
    BY ProcessTyped DEF TypeOK
  <1> QED
    BY <1>2, <1>3, <1>4, <1>5, <1>6, CoordinatorStepKeepsProcess

\* The graceful stop settles, or the grace timer fires.
LEMMA TimersKeepProcess ==
  ASSUME ProcessInvariant, HttpStops \/ HttpStopGivesUp \/ GraceExpires
  PROVE  ProcessInvariant'
  <1>0. resources \in Resources /\ coordinator \in Coordinator
    BY ProcessTyped DEF TypeOK
  <1>1. UNCHANGED <<now, config, tracker, requests>>
    BY DEF HttpStops, HttpStopGivesUp, GraceExpires
  <1>2. /\ coordinator' \in Coordinator
        /\ coordinator'.phase = coordinator.phase
        /\ coordinator'.startedAt = coordinator.startedAt
        /\ coordinator'.deadline = coordinator.deadline
        /\ \/ coordinator'.drain = coordinator.drain
           \/ coordinator.drain = "waiting" /\ coordinator'.drain = "expired"
    BY <1>0 DEF HttpStops, HttpStopGivesUp, GraceExpires, Coordinator
  <1>3. resources' \in Resources /\ resources'.redis = resources.redis
    BY <1>0 DEF HttpStops, HttpStopGivesUp, GraceExpires, Resources
  <1>4. /\ coordinator.phase \notin BeforeSignal
        /\ coordinator.drain = "waiting" => coordinator.phase = "draining"
    BY <1>0
    DEF HttpStops, HttpStopGivesUp, GraceExpires, ProcessInvariant, PhasesAgree,
        BeforeSignal, Coordinator, Phases
  <1>5. DeadlinesAreMet'
    BY <1>1, <1>2 DEF ProcessInvariant, DeadlinesAreMet, GracePeriod
  <1> QED
    BY <1>1, <1>2, <1>3, <1>4, <1>5, ShutdownStepKeepsProcess

\* performShutdown goes on after each of its awaits, with a deadline that starts when
\* the last await ended.
LEMMA PerformShutdownKeepsProcess ==
  ASSUME ProcessInvariant, DrainEnds \/ CloseRedis \/ ClosePostgres \/ ShutdownCompletes
  PROVE  ProcessInvariant'
  <1>0. /\ resources \in Resources /\ coordinator \in Coordinator
        /\ now \in Nat /\ CloseTimeout \in Nat /\ GracePeriod \in Nat
        /\ coordinator.startedAt \in Nat
    BY ProcessTyped DEF TypeOK
  <1>1. /\ UNCHANGED <<now, config, tracker, requests>> /\ GracePeriod' = GracePeriod
        /\ coordinator.phase \notin BeforeSignal
    BY DEF DrainEnds, CloseRedis, ClosePostgres, ShutdownCompletes, BeforeSignal, GracePeriod
  <1>2. ASSUME NEW phase \in Phases, Await(phase)
        PROVE  /\ coordinator' \in Coordinator
               /\ coordinator'.phase = phase /\ coordinator'.drain = coordinator.drain
               /\ coordinator'.startedAt = coordinator.startedAt
               /\ coordinator'.deadline = now + CloseTimeout
    <2>1. now + CloseTimeout \in Nat
      BY <1>0
    <2> QED
      BY <1>0, <1>2, <2>1 DEF Await, Coordinator
  <1>3. CASE DrainEnds
    <2>1. /\ resources' = resources /\ resources.redis = "open"
          /\ now <= coordinator.startedAt + GracePeriod
      BY <1>3 DEF DrainEnds, ProcessInvariant, PhasesAgree, DeadlinesAreMet
    <2>2. CASE coordinator.drain = "drained"
               /\ coordinator' = [coordinator EXCEPT !.phase = "awaiting_stop"]
      <3>1. /\ coordinator' \in Coordinator /\ coordinator'.phase = "awaiting_stop"
            /\ coordinator'.startedAt = coordinator.startedAt
            /\ coordinator'.drain = "drained"
        BY <1>0, <2>2 DEF Coordinator, Phases
      <3>2. DeadlinesAreMet'
        BY <1>1, <2>1, <3>1 DEF ProcessInvariant, DeadlinesAreMet
      <3> QED
        BY <1>0, <1>1, <2>1, <2>2, <3>1, <3>2, ShutdownStepKeepsProcess DEF BeforeSignal
    <2>3. CASE coordinator.drain = "expired" /\ Await("forcing")
      <3>1. /\ coordinator' \in Coordinator /\ coordinator'.phase = "forcing"
            /\ coordinator'.startedAt = coordinator.startedAt
            /\ coordinator'.drain = "expired"
            /\ coordinator'.deadline = now + CloseTimeout
        BY <1>2, <2>3 DEF Phases
      <3>2. DeadlinesAreMet'
        BY <1>0, <1>1, <2>1, <3>1 DEF ProcessInvariant, DeadlinesAreMet
      <3> QED
        BY <1>0, <1>1, <2>1, <2>3, <3>1, <3>2, ShutdownStepKeepsProcess DEF BeforeSignal
    <2> QED
      BY <1>3, <2>2, <2>3 DEF DrainEnds
  <1>4. CASE CloseRedis
    <2>1. /\ coordinator' \in Coordinator /\ coordinator'.phase = "closing_redis"
          /\ coordinator'.startedAt = coordinator.startedAt
          /\ coordinator'.drain = coordinator.drain
          /\ coordinator'.deadline = now + CloseTimeout
      BY <1>2, <1>4 DEF CloseRedis, Phases
    <2>2. resources' \in Resources
      <3>1. PICK http \in {"stopped", resources.http} :
              resources' = [resources EXCEPT !.http = http, !.redis = "closing"]
        BY <1>4 DEF CloseRedis
      <3> QED
        BY <1>0, <3>1 DEF Resources
    <2>3. /\ coordinator.phase # "draining" /\ coordinator.drain \in {"drained", "expired"}
          /\ now <= coordinator.startedAt + GracePeriod + CloseTimeout
      <3>1. coordinator.phase \in {"awaiting_stop", "forcing"}
        BY <1>4 DEF CloseRedis
      <3> QED
        BY <1>0, <3>1, ProcessTyped DEF ProcessInvariant, PhasesAgree, DeadlinesAreMet
    <2>4. DeadlinesAreMet'
      BY <1>0, <1>1, <2>1, <2>3 DEF ProcessInvariant, DeadlinesAreMet
    <2> QED
      BY <1>1, <2>1, <2>2, <2>3, <2>4, ShutdownStepKeepsProcess DEF BeforeSignal
  <1>5. CASE ClosePostgres
    <2>1. /\ coordinator' \in Coordinator /\ coordinator'.phase = "closing_postgres"
          /\ coordinator'.startedAt = coordinator.startedAt
          /\ coordinator'.drain = coordinator.drain
          /\ coordinator'.deadline = now + CloseTimeout
      BY <1>2, <1>5 DEF ClosePostgres, Phases
    <2>2. resources' \in Resources
      BY <1>0, <1>5 DEF ClosePostgres, Resources
    <2>3. /\ coordinator.phase # "draining" /\ coordinator.drain \in {"drained", "expired"}
          /\ now <= coordinator.startedAt + GracePeriod + 2 * CloseTimeout
      BY <1>0, <1>5, ProcessTyped
      DEF ClosePostgres, ProcessInvariant, PhasesAgree, DeadlinesAreMet
    <2>4. DeadlinesAreMet'
      BY <1>0, <1>1, <2>1, <2>3 DEF ProcessInvariant, DeadlinesAreMet
    <2> QED
      BY <1>1, <2>1, <2>2, <2>3, <2>4, ShutdownStepKeepsProcess DEF BeforeSignal
  <1>6. CASE ShutdownCompletes
    <2>1. /\ coordinator' \in Coordinator /\ coordinator'.phase = "stopped"
          /\ coordinator'.startedAt = coordinator.startedAt
          /\ coordinator'.drain = coordinator.drain
      BY <1>0, <1>6 DEF ShutdownCompletes, Coordinator, Phases
    <2>2. resources' \in Resources
      BY <1>0, <1>6 DEF ShutdownCompletes, Resources
    <2>3. coordinator.phase # "draining" /\ coordinator.drain \in {"drained", "expired"}
      BY <1>6 DEF ShutdownCompletes, ProcessInvariant, PhasesAgree
    <2>4. DeadlinesAreMet'
      BY <1>1, <2>1 DEF ProcessInvariant, DeadlinesAreMet
    <2> QED
      BY <1>1, <2>1, <2>2, <2>3, <2>4, ShutdownStepKeepsProcess DEF BeforeSignal
  <1> QED
    BY <1>3, <1>4, <1>5, <1>6

\* Timers fire on time: the clock does not pass a deadline that somebody awaits.
LEMMA TickKeepsProcess ==
  ASSUME ProcessInvariant, Tick
  PROVE  ProcessInvariant'
  <1>1. /\ now' = now + 1 /\ UNCHANGED <<config, tracker, requests, coordinator, resources>>
        /\ GracePeriod' = GracePeriod /\ ReadinessTimeout' = ReadinessTimeout
    BY DEF Tick, GracePeriod, ReadinessTimeout
  <1>2. TypeOK' /\ ConfigIsLoaded' /\ PhasesAgree'
    BY <1>1, ProcessTyped DEF ProcessInvariant, TypeOK, ConfigIsLoaded, PhasesAgree
  <1>3. DrainIsNotMissed'
    BY <1>1 DEF ProcessInvariant, ShutdownInvariant, DrainIsNotMissed, Running
  <1>4. DeadlinesAreMet'
    BY <1>1, ProcessTyped DEF Tick, ProcessInvariant, DeadlinesAreMet
  <1>5. RequestsInTime'
    <2> SUFFICES ASSUME NEW r \in Requests PROVE RequestInTime(r)'
      BY DEF RequestsInTime
    <2>1. RequestInTime(r) /\ requests[r].since \in Nat /\ requests'[r] = requests[r]
      BY <1>1, ProcessTyped DEF ProcessInvariant, RequestsInTime
    <2>2. requests[r].phase \in {"probing_postgres", "probing_redis"}
            => ~(now >= requests[r].since + ReadinessTimeout)
      BY DEF Tick, ProbeDue
    <2> QED
      BY <1>1, <2>1, <2>2, ProcessTyped DEF RequestInTime
  <1> QED
    BY <1>2, <1>3, <1>4, <1>5 DEF ProcessInvariant, ShutdownInvariant

\* Every step of the API process keeps its invariant.
LEMMA NextKeepsProcess == ProcessInvariant /\ [Next]_vars => ProcessInvariant'
  <1> SUFFICES ASSUME ProcessInvariant, [Next]_vars PROVE ProcessInvariant'
    OBVIOUS
  <1>1. CASE \/ \E environment \in Environments : Load(environment)
             \/ StartupSucceeds
             \/ StartupFails
    BY <1>1, StartupKeepsProcess
  <1>2. ASSUME NEW r \in Business, BusinessArrives(r) PROVE ProcessInvariant'
    <2>1. r \in Requests /\ r \notin Probes
      BY ShutdownBoundsAssumption DEF Requests
    <2> QED
      BY <1>2, <2>1, ArriveKeepsProcess DEF BusinessArrives
  <1>3. ASSUME NEW r \in Business, BusinessEnds(r) PROVE ProcessInvariant'
    BY <1>3, ReleaseKeepsProcess DEF BusinessEnds, Running, Requests
  <1>4. ASSUME NEW r \in Probes, ProbeArrives(r) PROVE ProcessInvariant'
    <2>1. r \in Requests /\ r \notin Business
      BY ShutdownBoundsAssumption DEF Requests
    <2> QED
      BY <1>4, <2>1, ArriveKeepsProcess DEF ProbeArrives
  <1>5. ASSUME NEW r \in Probes, PostgresProbeSucceeds(r) PROVE ProcessInvariant'
    BY <1>5, SecondProbeKeepsProcess
  <1>6. ASSUME NEW r \in Probes, PostgresProbeFails(r) PROVE ProcessInvariant'
    BY <1>6, ReleaseKeepsProcess DEF PostgresProbeFails, Running, Requests
  <1>7. ASSUME NEW r \in Probes, RedisProbeEnds(r) PROVE ProcessInvariant'
    BY <1>7, ReleaseKeepsProcess DEF RedisProbeEnds, Running, Requests
  <1>8. ASSUME NEW r \in Requests, ResponseSent(r) PROVE ProcessInvariant'
    BY <1>8, ResponseKeepsProcess
  <1>9. CASE HttpStops \/ HttpStopGivesUp \/ GraceExpires
    BY <1>9, TimersKeepProcess
  <1>10. CASE DrainEnds \/ CloseRedis \/ ClosePostgres \/ ShutdownCompletes
    BY <1>10, PerformShutdownKeepsProcess
  <1>11. CASE Tick
    BY <1>11, TickKeepsProcess
  <1>12. CASE UNCHANGED vars
    BY <1>12
    DEF vars, ProcessInvariant, ShutdownInvariant, TypeOK, DrainIsNotMissed, ConfigIsLoaded,
        PhasesAgree, DeadlinesAreMet, RequestsInTime, RequestInTime, Running, GracePeriod,
        ReadinessTimeout
  <1>13. CASE Signal
    <2>1. CASE coordinator.phase = "up"
      BY <1>13, <2>1, SignalKeepsProcess
    <2>2. CASE coordinator.phase # "up"
      BY <1>12, <1>13, <2>2 DEF Signal, vars
    <2> QED
      BY <2>1, <2>2
  <1> QED
    BY <1>1, <1>2, <1>3, <1>4, <1>5, <1>6, <1>7, <1>8, <1>9, <1>10, <1>11, <1>12, <1>13
    DEF Next, Quiescent

-------------------------------------------------------------------------------
(* The theorems.                                                             *)

\* The process invariant, of the migrator and the process together.
LEMMA ProcessIsConsistent == DeploymentSpec => []ProcessInvariant
  <1> QED
    BY InitEstablishesProcess, NextKeepsProcess, DeploymentSteps, PTL
    DEF DeploymentSpec, DeploymentInit

\* For any number of requests, whichever of the last release and the signal comes
\* first: the tracker counts exactly the requests inside routeRequest and the drain is
\* never awaited for nobody.
THEOREM DrainIsNeverMissed == DeploymentSpec => []ShutdownInvariant
  <1>1. ProcessInvariant => ShutdownInvariant
    BY DEF ProcessInvariant
  <1> QED
    BY <1>1, ProcessIsConsistent, PTL

\* Unless the grace period has expired, no request is inside routeRequest once a
\* client is being closed.
THEOREM ClientsOutliveRequests == DeploymentSpec => []DrainedBeforeClose
  <1>1. ProcessInvariant => DrainedBeforeClose
    <2> SUFFICES ASSUME ProcessInvariant, resources.redis # "open",
                        coordinator.drain # "expired", NEW r \in Requests
                 PROVE  ~Running(r)
      BY DEF DrainedBeforeClose
    <2>1. CASE coordinator.phase \in {"loading", "starting", "failed"}
      BY <2>1 DEF ProcessInvariant, PhasesAgree, Running
    <2>2. CASE coordinator.phase \notin {"loading", "starting", "failed"}
      <3>1. coordinator.phase \in {"closing_redis", "closing_postgres", "stopped"}
        BY <2>2, ProcessTyped DEF ProcessInvariant, PhasesAgree, Coordinator, Phases
      <3>2. tracker.active = 0
        BY <3>1 DEF ProcessInvariant, PhasesAgree
      <3> QED
        BY <3>2, ZeroMeansIdle DEF ProcessInvariant, ShutdownInvariant
    <2> QED
      BY <2>1, <2>2
  <1> QED
    BY <1>1, ProcessIsConsistent, PTL

\* The shutdown takes at most the grace period and three close timeouts, for every
\* accepted configuration and whatever hangs.
THEOREM ShutdownTimeIsBounded == DeploymentSpec => []ShutdownIsBounded
  <1>1. ProcessInvariant => ShutdownIsBounded
    <2> SUFFICES ASSUME ProcessInvariant,
                        coordinator.phase \notin {"loading", "starting", "failed", "up", "stopped"}
                 PROVE  now <= coordinator.startedAt + GracePeriod + 3 * CloseTimeout
      BY DEF ShutdownIsBounded
    <2>1. coordinator.phase \in {"draining", "awaiting_stop", "forcing", "closing_redis",
                                 "closing_postgres"}
      BY ProcessTyped DEF Coordinator, Phases
    <2> QED
      BY <2>1, ProcessTyped DEF ProcessInvariant, DeadlinesAreMet
  <1> QED
    BY <1>1, ProcessIsConsistent, PTL

\* A readiness check that was under way at the signal is over within two probe
\* timeouts of it.
THEOREM ReadinessRunsOut == DeploymentSpec => []ReadyAnswersRunOut
  <1>1. ProcessInvariant => ReadyAnswersRunOut
    <2> SUFFICES ASSUME ProcessInvariant, NEW r \in Probes, tracker.shuttingDown, Running(r)
                 PROVE  now <= coordinator.startedAt + 2 * ReadinessTimeout
      BY DEF ReadyAnswersRunOut
    <2>1. RequestInTime(r) /\ requests[r] \in Request /\ requests[r].since \in Nat
      BY ProcessTyped DEF ProcessInvariant, RequestsInTime, Requests
    <2>2. requests[r].phase \in {"probing_postgres", "probing_redis"}
      BY <2>1 DEF RequestInTime, Request, RequestPhases, Running
    <2>3. coordinator.phase \notin BeforeSignal
      BY DEF ProcessInvariant, PhasesAgree
    <2> QED
      BY <2>1, <2>2, <2>3, ProcessTyped DEF RequestInTime
  <1> QED
    BY <1>1, ProcessIsConsistent, PTL

\* The grace timer fires only on a request that has outlived the longest execution the
\* configuration allows, or on a readiness check that may take as long.
LEMMA OnlyGraceTimerExpires ==
  ASSUME ProcessInvariant, [Next]_vars,
         coordinator.drain # "expired", coordinator'.drain = "expired"
  PROVE  coordinator.drain = "waiting" /\ now >= coordinator.startedAt + GracePeriod
  <1>0. coordinator \in Coordinator
    BY ProcessTyped
  <1>1. \A r, answer : Release(r, answer) => FALSE
    BY <1>0 DEF Release, Coordinator
  <1>2. \A phase : Await(phase) => FALSE
    BY <1>0 DEF Await, Coordinator
  <1>3. ~(\E environment \in Environments : Load(environment)) /\ ~StartupSucceeds
        /\ ~StartupFails
    BY <1>0 DEF Load, StartupSucceeds, StartupFails, Coordinator
  <1>4. ~(\E r : \/ BusinessArrives(r) \/ ProbeArrives(r) \/ PostgresProbeSucceeds(r)
                 \/ ResponseSent(r))
    BY DEF BusinessArrives, ProbeArrives, Arrive, PostgresProbeSucceeds, ResponseSent
  <1>5. ~(\E r : BusinessEnds(r) \/ PostgresProbeFails(r) \/ RedisProbeEnds(r))
    BY <1>1 DEF BusinessEnds, PostgresProbeFails, RedisProbeEnds
  <1>6. ~Signal
    <2> SUFFICES ASSUME Signal PROVE FALSE
      OBVIOUS
    <2>1. coordinator' = [phase |-> "draining", startedAt |-> now,
                          deadline |-> now + GracePeriod,
                          drain |-> IF tracker.active = 0 THEN "drained" ELSE "waiting",
                          httpStop |-> "pending"]
      BY DEF Signal
    <2>2. coordinator'.drain = IF tracker.active = 0 THEN "drained" ELSE "waiting"
      BY <2>1
    <2> QED
      BY <2>2
  <1>7. ~HttpStops /\ ~HttpStopGivesUp
    BY <1>0 DEF HttpStops, HttpStopGivesUp, Coordinator
  <1>8. ~DrainEnds /\ ~CloseRedis /\ ~ClosePostgres /\ ~ShutdownCompletes
    BY <1>0, <1>2 DEF DrainEnds, CloseRedis, ClosePostgres, ShutdownCompletes, Coordinator
  <1>9. ~Tick /\ ~Quiescent /\ ~UNCHANGED vars
    BY DEF Tick, Quiescent, vars
  <1>10. GraceExpires
    BY <1>3, <1>4, <1>5, <1>6, <1>7, <1>8, <1>9 DEF Next
  <1> QED
    BY <1>10 DEF GraceExpires

\* HTTP is stopped by force only because of a business request that has outlived the
\* longest execution the accepted configuration allows, or because of a readiness
\* check whose two probes may take as long as the grace period.
THEOREM ForcedOnlyWhenOverdue == DeploymentSpec => OnlyOverdueIsForced
  <1> DEFINE Expires == coordinator.drain # "expired" /\ coordinator'.drain = "expired"
             Overdue == \/ \E r \in Business :
                              /\ requests[r].phase = "working"
                              /\ now >= requests[r].since + MaximumExecutionWindow(config)
                        \/ \E r \in Probes : Running(r) /\ 2 * ReadinessTimeout >= GracePeriod
  <1>1. ProcessInvariant /\ [Next]_vars => [Expires => Overdue]_vars
    <2> SUFFICES ASSUME ProcessInvariant, [Next]_vars, Expires PROVE Overdue
      OBVIOUS
    <2>1. coordinator.drain = "waiting" /\ now >= coordinator.startedAt + GracePeriod
      BY OnlyGraceTimerExpires
    <2>2. PICK r \in Requests : Running(r)
      BY <2>1, ZeroMeansIdle DEF ProcessInvariant, ShutdownInvariant, DrainIsNotMissed
    <2>3. coordinator.phase \notin BeforeSignal
      BY <2>1 DEF ProcessInvariant, PhasesAgree
    <2>4. RequestInTime(r) /\ requests[r] \in Request /\ requests[r].since \in Nat
      BY ProcessTyped DEF ProcessInvariant, RequestsInTime
    <2>5. CASE r \in Business
      <3>1. requests[r].phase = "working" /\ requests[r].since <= coordinator.startedAt
        BY <2>2, <2>3, <2>4, <2>5 DEF RequestInTime, Request, RequestPhases, Running
      <3>2. /\ MaximumExecutionWindow(config) \in Int
            /\ GracePeriod >= MaximumExecutionWindow(config)
        BY <2>3, LoadedConfig DEF ProcessInvariant, ConfigIsLoaded, BeforeSignal, GracePeriod
      <3>3. now >= requests[r].since + MaximumExecutionWindow(config)
        BY <2>1, <2>4, <3>1, <3>2, ProcessTyped
      <3> QED
        BY <2>5, <3>1, <3>3
    <2>6. CASE r \in Probes
      <3>1. requests[r].phase \in {"probing_postgres", "probing_redis"}
        BY <2>2, <2>4, <2>6 DEF RequestInTime, Request, RequestPhases, Running
      <3>2. now <= coordinator.startedAt + 2 * ReadinessTimeout
        BY <2>3, <2>4, <3>1, ProcessTyped DEF RequestInTime
      <3>3. 2 * ReadinessTimeout >= GracePeriod
        BY <2>1, <3>2, ProcessTyped
      <3> QED
        BY <2>2, <2>6, <3>3
    <2> QED
      BY <2>5, <2>6 DEF Requests
  <1> QED
    BY <1>1, ProcessIsConsistent, DeploymentSteps, PTL DEF DeploymentSpec, OnlyOverdueIsForced

\* A job that has succeeded leaves nothing to apply.
LEMMA SuccessMeansMigrated ==
  ASSUME MigrationsInvariant, MigrationCompleted
  PROVE  schema = Files
  <1>1. PICK j \in Jobs : jobs[j].phase = "succeeded"
    BY DEF MigrationCompleted
  <1>2. \A i \in 1 .. Len(Files) : Files[i] \in versions
    BY <1>1, FilesTyped
    DEF MigrationsInvariant, LoopIsInRange, AppliedOnceInOrder, EarlierFilesApplied
  <1>3. /\ Len(schema) \in Nat /\ Len(schema) <= Len(Files)
        /\ \A i \in 1 .. Len(schema) : schema[i] = Files[i]
        /\ \A i \in 1 .. Len(Files) : Files[i] \in versions <=> i <= Len(schema)
    BY VersionsArePrefix DEF MigrationsInvariant
  <1>4. Len(schema) = Len(Files)
    BY <1>2, <1>3, FilesTyped
  <1>5. schema \in Seq(Range(Files)) /\ Files \in Seq(Range(Files))
    BY MigrationsAssumption DEF MigrationsInvariant, AppliedOnceInOrder, MigrationsTypeOK
  <1> QED
    BY <1>3, <1>4, <1>5, SeqEqual

\* The process is created on the whole schema and no job changes it any more.
LEMMA CreatedMigratedStays ==
  MigrationsInvariant /\ CreatedMigrated /\ [DeploymentNext]_deploymentVars
    => CreatedMigrated'
  <1> SUFFICES ASSUME MigrationsInvariant, CreatedMigrated, [DeploymentNext]_deploymentVars,
                      coordinator'.phase # "loading"
               PROVE  schema' = Files
    BY DEF CreatedMigrated
  <1>1. CASE ApiSteps
    <2>1. schema' = schema
      BY <1>1 DEF ApiSteps, migrationsVars
    <2>2. CASE coordinator.phase = "loading"
      BY <1>1, <2>1, <2>2, SuccessMeansMigrated DEF ApiSteps
    <2> QED
      BY <2>1, <2>2 DEF CreatedMigrated
  <1>2. CASE MigrationSteps
    <2>1. schema = Files
      BY <1>2 DEF MigrationSteps, vars, CreatedMigrated
    <2>2. ASSUME NEW j \in Jobs, Commit(j) PROVE FALSE
      BY <2>1, <2>2, CommitIsNext, FilesTyped DEF Commit
    <2> QED
      BY <1>2, <2>1, <2>2
      DEF MigrationSteps, MigrationsNext, RunMigrations, CreateTable, SelectVersion, ApplyFile,
          InsertVersion, JobFails
  <1>3. CASE UNCHANGED deploymentVars
    BY <1>3 DEF deploymentVars, vars, migrationsVars, CreatedMigrated
  <1> QED
    BY <1>1, <1>2, <1>3 DEF DeploymentNext

\* An API process that takes requests finds the whole schema, although it never
\* checks, however many jobs run before, beside and after it.
THEOREM ApiServesMigratedSchema == DeploymentSpec => []ServingMeansMigrated
  <1>1. DeploymentInit => CreatedMigrated
    BY DEF DeploymentInit, Init, CreatedMigrated
  <1>2. DeploymentSpec => []MigrationsInvariant
    BY InitEstablishesMigrations, NextKeepsMigrations, DeploymentSteps, PTL
    DEF DeploymentSpec, DeploymentInit
  <1>3. ProcessInvariant /\ CreatedMigrated => ServingMeansMigrated
    BY DEF ProcessInvariant, PhasesAgree, CreatedMigrated, ServingMeansMigrated
  <1> QED
    BY <1>1, <1>2, <1>3, CreatedMigratedStays, ProcessIsConsistent, PTL DEF DeploymentSpec
===============================================================================
