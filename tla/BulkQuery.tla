----------------------------- MODULE BulkQuery -----------------------------
(***************************************************************************)
(* The Bulk API 2.0 query path: request handlers that create and abort     *)
(* jobs, the bounded executor, the worker that turns a scan into CSV parts *)
(* plus a manifest plus checkpoints, process crashes, and the startup      *)
(* sequence that deletes expired jobs and resubmits the unfinished ones.   *)
(*                                                                         *)
(* Abstractions.  A row is its internal id.  A part file is the slice of   *)
(* one scan it holds.  The manifest is the number of parts it lists and    *)
(* the sum of their record counts; parts are numbered 0, 1, ... in the     *)
(* order in which they are listed.  No manifest file is the same as one    *)
(* with no parts: the worker never writes an empty one.  Reads that are    *)
(* followed by a second, deciding read of the same row (dispatcher then    *)
(* worker) are one step, since job states and expiry only move forward.    *)
(***************************************************************************)
EXTENDS Integers, FiniteSets, Sequences

CONSTANTS
    Jobs,         \* job ids the clients may create
    Datasets,     \* sets of row ids a query can match, one per data version
    HasOrderBy,   \* the query has an ORDER BY clause of its own
    SortKey,      \* value of that ORDER BY key for each row
    PartRecords,  \* setting bulk_result_part_records
    BulkWorkers,  \* setting bulk_workers: threads of the executor
    MaxCrashes    \* bound on process crashes

Rows == UNION Datasets

ASSUME DatasetsAssumption ==
    /\ \A d \in Datasets : IsFiniteSet(d) /\ d \subseteq Nat
    /\ Datasets # {}
ASSUME QueryAssumption   == HasOrderBy \in BOOLEAN /\ SortKey \in [Rows -> Nat]
ASSUME SettingsAssumption ==
    /\ PartRecords \in Nat \ {0}
    /\ BulkWorkers \in Nat \ {0}
    /\ MaxCrashes \in Nat

VARIABLES
    \* durable
    job,        \* jobs.state
    expired,    \* expires_at <= now
    manifest,   \* manifest.json
    files,      \* part-NNNNN.csv files of each job's result directory
    checkpoint, \* max(records_processed) of job_checkpoints, 0 if none
    \* outside the process
    data,       \* the dataset version a scan opened now would see
    \* lost with the process
    phase,      \* "down", "sweeping" (startup), "up"
    sweep,      \* job ids expire_jobs returned, directories still to remove
    pc,         \* what the executor task of the job does next
    work,       \* the worker's locals: scan, parts listed, records_processed
    crashes

durable == <<job, expired, manifest, files, checkpoint>>
vars == <<durable, data, phase, sweep, pc, work, crashes>>

J == INSTANCE BulkJob

----------------------------------------------------------------------------
(* Row orders one execution of execution_sql over `rows' may return.       *)
(* Without an ORDER BY the worker adds one over the unique internal id; a  *)
(* query's own ORDER BY is used as it is and leaves ties in any order.     *)
ScanOrders(rows) ==
    LET n == Cardinality(rows) IN
    {o \in [1..n -> rows] :
        \A a, b \in 1..n : a < b =>
            /\ o[a] # o[b]
            /\ HasOrderBy  => SortKey[o[a]] <= SortKey[o[b]]
            /\ ~HasOrderBy => o[a] < o[b]}

Scans == UNION {ScanOrders(d) : d \in Datasets}

Slice    == [scan: Scans, start: Nat, count: Nat]
NoFile   == [scan |-> <<>>, start |-> 0, count |-> 0]
Manifest == [parts: Nat, records: Nat]
NoManifest == [parts |-> 0, records |-> 0]
NoWork   == [scan |-> <<>>, parts |-> 0, records |-> 0]

OnlyQueued == {"UploadComplete"}  \* mutant: jobs cut off mid-stream are forgotten

Runnable == {"UploadComplete", "InProgress"}

Streaming == {"load", "stream", "written", "manifested"}  \* inside _stream's try
Running   == Streaming \cup {"begin"}
Steps     == Running \cup {"none", "queued"}

Committed(j) == 0..manifest[j].parts - 1

(* get_job: the row, unless its retention has ended.                       *)
Visible(j) == job[j] \in J!BulkJobState /\ ~expired[j]

----------------------------------------------------------------------------
Init ==
    /\ job = [j \in Jobs |-> J!NoJob]
    /\ expired = [j \in Jobs |-> FALSE]
    /\ manifest = [j \in Jobs |-> NoManifest]
    /\ files = [j \in Jobs |-> [p \in {} |-> NoFile]]
    /\ checkpoint = [j \in Jobs |-> 0]
    /\ data \in Datasets
    /\ phase = "up"
    /\ sweep = {}
    /\ pc = [j \in Jobs |-> "none"]
    /\ work = [j \in Jobs |-> NoWork]
    /\ crashes = 0

(* POST /jobs/query: insert the row UploadComplete, submit it.             *)
CreateJob(j) ==
    /\ phase = "up"
    /\ job[j] = J!NoJob
    /\ job' = [job EXCEPT ![j] = "UploadComplete"]
    /\ pc' = [pc EXCEPT ![j] = "queued"]
    /\ UNCHANGED <<expired, manifest, files, checkpoint, data, phase, sweep, work, crashes>>

(* PATCH /jobs/query: transition_job has no retention check, so an expired *)
(* job can still be aborted.  A refused transition answers 400 or 404.     *)
Abort(j) ==
    /\ phase = "up"
    /\ J!CanMove(job[j], "Aborted")
    /\ job' = [job EXCEPT ![j] = "Aborted"]
    /\ UNCHANGED <<expired, manifest, files, checkpoint, data, phase, sweep, pc, work, crashes>>

(* The clock passes expires_at, whatever the process is doing.             *)
RetentionEnds(j) ==
    /\ job[j] \in J!BulkJobState
    /\ ~expired[j]
    /\ expired' = [expired EXCEPT ![j] = TRUE]
    /\ UNCHANGED <<job, manifest, files, checkpoint, data, phase, sweep, pc, work, crashes>>

(* The simulator or a compaction changes what a new scan sees.             *)
Publish ==
    /\ data' \in Datasets \ {data}
    /\ UNCHANGED <<durable, phase, sweep, pc, work, crashes>>

----------------------------------------------------------------------------
(* An executor thread takes the task; _run and worker.run look at the job. *)
Dispatch(j) ==
    /\ pc[j] = "queued"
    /\ Cardinality({k \in Jobs : pc[k] \in Running}) < BulkWorkers
    /\ pc' = [pc EXCEPT ![j] =
                CASE Visible(j) /\ job[j] = "UploadComplete" -> "begin"
                  [] Visible(j) /\ job[j] = "InProgress"     -> "load"
                  [] OTHER                                   -> "none"]
    /\ UNCHANGED <<durable, data, phase, sweep, work, crashes>>

(* transition_job(InProgress), outside the try: a refused transition ends  *)
(* the task, and so does the assertion on a job that has expired.          *)
Begin(j) ==
    /\ pc[j] = "begin"
    /\ IF J!CanMove(job[j], "InProgress")
       THEN /\ job' = [job EXCEPT ![j] = "InProgress"]
            /\ pc' = [pc EXCEPT ![j] = IF expired[j] THEN "none" ELSE "load"]
       ELSE /\ pc' = [pc EXCEPT ![j] = "none"]
            /\ UNCHANGED job
    /\ UNCHANGED <<expired, manifest, files, checkpoint, data, phase, sweep, work, crashes>>

(* What makes _stream refuse to resume: a listed part without its file, or *)
(* a checkpoint ahead of the manifest.                                     *)
ResumeRefused(j) ==
    \/ ~(Committed(j) \subseteq DOMAIN files[j])
    \/ checkpoint[j] > manifest[j].records

(* Mutant: resume from the checkpoint, which may lag behind the manifest.  *)
LoadFromCheckpoint(j) ==
    /\ pc[j] = "load"
    /\ ~ResumeRefused(j)
    /\ \E scan \in ScanOrders(data) :
        work' = [work EXCEPT ![j] = [scan    |-> scan,
                                     parts   |-> manifest[j].parts,
                                     records |-> checkpoint[j]]]
    /\ pc' = [pc EXCEPT ![j] = "stream"]
    /\ UNCHANGED <<durable, data, phase, sweep, crashes>>

(* _stream up to the scan: load the manifest, delete the parts it does not *)
(* list, open the scan and skip the rows that the manifest holds.          *)
Load(j) ==
    /\ pc[j] = "load"
    /\ ~ResumeRefused(j)
    /\ files' = [files EXCEPT ![j] = [p \in Committed(j) |-> files[j][p]]]
    /\ \E scan \in ScanOrders(data) :
        work' = [work EXCEPT ![j] = [scan    |-> scan,
                                     parts   |-> manifest[j].parts,
                                     records |-> manifest[j].records]]
    /\ pc' = [pc EXCEPT ![j] = "stream"]
    /\ UNCHANGED <<job, expired, manifest, checkpoint, data, phase, sweep, crashes>>

(* Mutant: the subtraction the wrong way round.                            *)
NegatedPartSize(j) == work[j].records - Len(work[j].scan)

(* _write_part: the next full part, or the rest of the scan.               *)
NextPartSize(j) ==
    LET left == Len(work[j].scan) - work[j].records
    IN  IF left < PartRecords THEN left ELSE PartRecords

WritePart(j) ==
    /\ pc[j] = "stream"
    /\ work[j].records < Len(work[j].scan)
    /\ LET w == work[j]
           n == NextPartSize(j)
       IN  /\ files' = [files EXCEPT ![j] =
                 [p \in DOMAIN files[j] \cup {w.parts} |->
                    IF p = w.parts
                    THEN [scan |-> w.scan, start |-> w.records, count |-> n]
                    ELSE files[j][p]]]
           /\ work' = [work EXCEPT ![j] = [scan    |-> w.scan,
                                           parts   |-> w.parts + 1,
                                           records |-> w.records + n]]
    /\ pc' = [pc EXCEPT ![j] = "written"]
    /\ UNCHANGED <<job, expired, manifest, checkpoint, data, phase, sweep, crashes>>

(* Mutant: the checkpoint is recorded where the manifest should be.        *)
CheckpointFirst(j) ==
    /\ pc[j] = "written"
    /\ checkpoint' = [checkpoint EXCEPT ![j] = work[j].records]
    /\ pc' = [pc EXCEPT ![j] = "manifested"]
    /\ UNCHANGED <<job, expired, manifest, files, data, phase, sweep, work, crashes>>

(* _commit_part, first half: the manifest that lists the part.             *)
CommitManifest(j) ==
    /\ pc[j] = "written"
    /\ manifest' = [manifest EXCEPT ![j] = [parts   |-> work[j].parts,
                                            records |-> work[j].records]]
    /\ pc' = [pc EXCEPT ![j] = "manifested"]
    /\ UNCHANGED <<job, expired, files, checkpoint, data, phase, sweep, work, crashes>>

(* _commit_part, second half: the checkpoint row.                          *)
AddCheckpoint(j) ==
    /\ pc[j] = "manifested"
    /\ checkpoint' = [checkpoint EXCEPT ![j] =
                        IF work[j].records > @ THEN work[j].records ELSE @]
    /\ pc' = [pc EXCEPT ![j] = "stream"]
    /\ UNCHANGED <<job, expired, manifest, files, data, phase, sweep, work, crashes>>

(* A task is over: its thread is free and its locals are gone.             *)
EndTask(j) ==
    /\ pc' = [pc EXCEPT ![j] = "none"]
    /\ work' = [work EXCEPT ![j] = NoWork]

(* Mutants: the partial last batch is not flushed; the job is completed    *)
(* before its last part is committed; the transition is not validated.     *)
FinishWithoutTail(j) ==
    /\ pc[j] = "stream"
    /\ Len(work[j].scan) - work[j].records < PartRecords
    /\ job' = [job EXCEPT ![j] = IF J!CanMove(@, "JobComplete") THEN "JobComplete" ELSE @]
    /\ EndTask(j)
    /\ UNCHANGED <<expired, manifest, files, checkpoint, data, phase, sweep, crashes>>

FinishBeforeCommit(j) ==
    /\ pc[j] = "written"
    /\ work[j].records >= Len(work[j].scan)
    /\ J!CanMove(job[j], "JobComplete")
    /\ job' = [job EXCEPT ![j] = "JobComplete"]
    /\ UNCHANGED <<expired, manifest, files, checkpoint, data, phase, sweep, pc, work, crashes>>

FailUnchecked(j) ==
    /\ pc[j] \in Streaming
    /\ job' = [job EXCEPT ![j] = "Failed"]
    /\ EndTask(j)
    /\ UNCHANGED <<expired, manifest, files, checkpoint, data, phase, sweep, crashes>>

(* The scan is exhausted; transition_job(JobComplete) is outside the try,  *)
(* so after an abort it raises and the dispatcher drops the exception.     *)
Finish(j) ==
    /\ pc[j] = "stream"
    /\ work[j].records >= Len(work[j].scan)
    /\ job' = [job EXCEPT ![j] = IF J!CanMove(@, "JobComplete") THEN "JobComplete" ELSE @]
    /\ EndTask(j)
    /\ UNCHANGED <<expired, manifest, files, checkpoint, data, phase, sweep, crashes>>

(* Any exception in _stream (disk reserve, engine, I/O, refused resume)    *)
(* moves the job to Failed, unless it has been aborted meanwhile.          *)
StreamFails(j) ==
    /\ pc[j] \in Streaming
    /\ job' = [job EXCEPT ![j] = IF J!CanMove(@, "Failed") THEN "Failed" ELSE @]
    /\ EndTask(j)
    /\ UNCHANGED <<expired, manifest, files, checkpoint, data, phase, sweep, crashes>>

----------------------------------------------------------------------------
(* The process dies: the executor's queue and every local go with it.      *)
Crash ==
    /\ phase # "down"
    /\ crashes < MaxCrashes
    /\ phase' = "down"
    /\ sweep' = {}
    /\ pc' = [j \in Jobs |-> "none"]
    /\ work' = [j \in Jobs |-> NoWork]
    /\ crashes' = crashes + 1
    /\ UNCHANGED <<durable, data>>

(* Startup, recover_bulk_artifacts: one transaction deletes the expired    *)
(* jobs with their checkpoints and returns their ids ...                   *)
ExpireJobs ==
    /\ phase = "down"
    /\ sweep' = {j \in Jobs : job[j] \in J!BulkJobState /\ expired[j]}
    /\ job' = [j \in Jobs |-> IF j \in sweep' THEN J!Removed ELSE job[j]]
    /\ checkpoint' = [j \in Jobs |-> IF j \in sweep' THEN 0 ELSE checkpoint[j]]
    /\ phase' = "sweeping"
    /\ UNCHANGED <<expired, manifest, files, data, pc, work, crashes>>

(* ... then their directories are removed one after the other ...          *)
RemoveArtifacts(j) ==
    /\ phase = "sweeping"
    /\ j \in sweep
    /\ sweep' = sweep \ {j}
    /\ manifest' = [manifest EXCEPT ![j] = NoManifest]
    /\ files' = [files EXCEPT ![j] = [p \in {} |-> NoFile]]
    /\ UNCHANGED <<job, expired, checkpoint, data, phase, pc, work, crashes>>

(* ... and resume_pending submits the jobs that are not finished.          *)
ResumePending ==
    /\ phase = "sweeping"
    /\ sweep = {}
    /\ phase' = "up"
    /\ pc' = [j \in Jobs |-> IF job[j] \in Runnable /\ ~expired[j] THEN "queued" ELSE "none"]
    /\ UNCHANGED <<durable, data, sweep, work, crashes>>

----------------------------------------------------------------------------
WorkerStep(j) ==
    \/ Dispatch(j) \/ Begin(j) \/ Load(j) \/ WritePart(j)
    \/ CommitManifest(j) \/ AddCheckpoint(j) \/ Finish(j)

StartupStep == ExpireJobs \/ ResumePending \/ \E j \in Jobs : RemoveArtifacts(j)

Next ==
    \/ \E j \in Jobs : \/ CreateJob(j) \/ Abort(j) \/ RetentionEnds(j)
                       \/ WorkerStep(j) \/ StreamFails(j)
    \/ Publish \/ Crash \/ StartupStep

Spec == Init /\ [][Next]_vars

(* Executor threads run, and the container restarts (unless-stopped).      *)
Fairness == WF_vars(StartupStep) /\ \A j \in Jobs : WF_vars(WorkerStep(j))

FairSpec == Spec /\ Fairness
----------------------------------------------------------------------------
(* Type invariant: the tables, the result directories and the worker's     *)
(* locals hold values of their types, and what parts and scans are slices  *)
(* of is a scan of some version of the data.                               *)
TypeOK ==
    /\ job \in [Jobs -> J!JobStatus]
    /\ expired \in [Jobs -> BOOLEAN]
    /\ manifest \in [Jobs -> Manifest]
    /\ DOMAIN files = Jobs
    /\ \A j \in Jobs : /\ DOMAIN files[j] \subseteq Nat
                       /\ \A p \in DOMAIN files[j] : files[j][p] \in Slice
    /\ checkpoint \in [Jobs -> Nat]
    /\ data \in Datasets
    /\ phase \in {"down", "sweeping", "up"}
    /\ sweep \subseteq Jobs
    /\ pc \in [Jobs -> Steps]
    /\ work \in [Jobs -> [scan: Scans \cup {<<>>}, parts: Nat, records: Nat]]
    /\ crashes \in 0..MaxCrashes

(* A job whose row still exists can always be resumed: every part that its *)
(* manifest lists is on disk, and no checkpoint is ahead of the manifest,  *)
(* whichever of part, manifest and checkpoint the last crash came after.   *)
(* This is what _stream's two RuntimeErrors guard against.                 *)
ResumeNeverRefused ==
    \A j \in Jobs : job[j] \in J!BulkJobState => ~ResumeRefused(j)

(* Committed parts tile the result: part 0 starts at record 0, each part   *)
(* starts where the one before it ends, and the last ends at the total the *)
(* manifest gives, so a resumed worker neither repeats nor skips a record  *)
(* number.                                                                 *)
PartsTile ==
    \A j \in Jobs : job[j] \in J!BulkJobState =>
        LET m == manifest[j]
            end(p) == files[j][p].start + files[j][p].count
        IN  /\ m.parts = 0 => m.records = 0
            /\ m.parts > 0 => files[j][0].start = 0 /\ end(m.parts - 1) = m.records
            /\ \A p \in Committed(j) :
                  /\ files[j][p].count > 0
                  /\ p > 0 => files[j][p].start = end(p - 1)

(* The row a reader of the committed parts finds at record i.              *)
ResultRow(j, i) ==
    LET p == CHOOSE p \in Committed(j) :
                files[j][p].start < i /\ i <= files[j][p].start + files[j][p].count
    IN  files[j][p].scan[i]

(* A completed job holds every row of the dataset once, in the scan order, *)
(* no matter how often the process crashed and the scan was run again.     *)
ExactlyOnce ==
    \A j \in Jobs : job[j] = "JobComplete" =>
        \E d \in Datasets : \E scan \in ScanOrders(d) :
            /\ manifest[j].records = Len(scan)
            /\ \A i \in 1..Len(scan) : ResultRow(j, i) = scan[i]

(* Once a job is JobComplete its result is frozen: manifest and part files *)
(* change only when the retention sweep deletes them.  A second task for   *)
(* the same job, or one that outlives the completion, would break it.      *)
ResultsFrozen ==
    [][\A j \in Jobs :
        (job[j] = "JobComplete" /\ job'[j] = "JobComplete")
            => manifest'[j] = manifest[j] /\ files'[j] = files[j]]_vars

(* The job rows follow the lifecycle of jobs.py.                           *)
JobLifecycle == J!Spec

(* Every accepted job reaches a terminal state, through any crash, unless  *)
(* its retention ends first.                                               *)
EveryJobSettles ==
    \A j \in Jobs : job[j] = "UploadComplete" ~>
        (job[j] \in J!Terminal \cup {J!Removed} \/ expired[j])
=============================================================================
