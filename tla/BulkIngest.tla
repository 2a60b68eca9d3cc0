----------------------------- MODULE BulkIngest -----------------------------
(***************************************************************************)
(* The Bulk API 2.0 ingest path: the handlers that create, upload, close   *)
(* and abort a job, the worker that applies the CSV in batches to a        *)
(* mutable table, process crashes, and the startup sequence.               *)
(*                                                                         *)
(* Abstractions.  A CSV is a header, valid or not, and its rows; a row is  *)
(* what _prepare_row sees of it: the id it carries, no id (Blank), a value *)
(* that cannot be coerced (Malformed), or more values than the header      *)
(* (Wide).  The checkpoints of a job are its latest one, the only one the  *)
(* worker reads.  An upload in flight is the content it will publish.      *)
(***************************************************************************)
EXTENDS Integers, FiniteSets, Sequences

CONSTANTS
    Jobs,          \* job ids the clients may create
    Ids,           \* record ids a CSV row can carry
    Blank, Malformed, Wide,
    Files,         \* CSVs the clients may upload
    Seed,          \* ids copied from the source when the table was created
    BatchRecords,  \* setting bulk_ingest_batch_records
    BulkWorkers,   \* setting bulk_workers: threads of the executor
    MaxCrashes     \* bound on process crashes

Rows == Ids \cup {Blank, Malformed, Wide}

ASSUME RowsAssumption ==
    /\ Cardinality({Blank, Malformed, Wide}) = 3
    /\ {Blank, Malformed, Wide} \cap Ids = {}
    /\ Seed \subseteq Ids
ASSUME FilesAssumption ==
    \A f \in Files : /\ DOMAIN f = {"header", "rows"}
                     /\ f.header \in BOOLEAN
                     /\ f.rows \in Seq(Rows)
                     /\ f.header \/ f.rows # <<>>  \* rows under no header do not matter
ASSUME IngestSettingsAssumption ==
    /\ BatchRecords \in Nat \ {0}
    /\ BulkWorkers \in Nat \ {0}
    /\ MaxCrashes \in Nat

VARIABLES
    \* durable
    job,        \* jobs.state
    expired,    \* expires_at <= now
    file,       \* input.csv of each job, or NoFile
    table,      \* ff_mutable rows that ingest inserted: id, job, CSV row
    results,    \* job_row_results: CSV row -> status
    progress,   \* latest job_checkpoints row
    \* lost with the process
    uploads,    \* PUT requests still streaming into their temporary files
    phase,      \* "down", "sweeping" (startup), "up"
    sweep,      \* job ids expire_jobs returned, directories still to remove
    pc,         \* what the executor task of the job does next
    work,       \* the worker's locals: open file, counts, ids found to exist
    crashes

store == <<table, results, progress>>
vars == <<job, expired, file, store, uploads, phase, sweep, pc, work, crashes>>

J == INSTANCE BulkJob

NoFile == [header |-> FALSE, rows |-> <<>>]

(* Mutant: the row number before the first row taken for -1.               *)
NoProgressFromZero == [processed |-> 0, failed |-> 0, row |-> -1]

(* ingest_progress of a job without a checkpoint.                          *)
NoProgress == [processed |-> 0, failed |-> 0, row |-> 0]

NoWork == [file |-> NoFile, processed |-> 0, failed |-> 0, row |-> 0, existing |-> {}]

OnlyClosed == {"UploadComplete"}  \* mutant: jobs cut off mid-stream are forgotten

Runnable == {"UploadComplete", "InProgress"}

Streaming == {"load", "stream", "checked"}  \* inside run's try
Running   == Streaming \cup {"begin"}

(* get_job: the row, unless its retention has ended.                       *)
Visible(j) == job[j] \in J!BulkJobState /\ ~expired[j]

----------------------------------------------------------------------------
(* What _apply_batch does with the rows first..last of a CSV.              *)

(* The id _prepare_row gives row i: its own, or a hash of job and row      *)
(* number, which is the same each time the row is processed.               *)
RecordId(j, f, i) == IF f.rows[i] = Blank THEN <<j, i>> ELSE f.rows[i]

Valid(f, i) == f.rows[i] # Malformed

(* A row whose id no other valid row of its batch carries.                 *)
UniqueIn(j, f, batch, i) ==
    \A k \in batch : (k # i /\ Valid(f, k)) => RecordId(j, f, k) # RecordId(j, f, i)

(* Mutant: of the rows of a batch with one id, the first is inserted.      *)
AcceptedFirstWins(j, f, batch, existing) ==
    {i \in batch : /\ Valid(f, i)
                   /\ \A k \in batch : (k < i /\ Valid(f, k)) => RecordId(j, f, k) # RecordId(j, f, i)
                   /\ RecordId(j, f, i) \notin existing}

(* The rows that are inserted: valid, unique in the batch, and not found   *)
(* in the table by the SELECT that precedes the transaction.               *)
Accepted(j, f, batch, existing) ==
    {i \in batch : /\ Valid(f, i)
                   /\ UniqueIn(j, f, batch, i)
                   /\ RecordId(j, f, i) \notin existing}

TableIds == {r.id : r \in table} \cup Seed

(* The rows the worker reads before it applies the next batch.             *)
Batch(j) ==
    LET w == work[j]
        n == Len(w.file.rows)
    IN  w.row + 1 .. (IF w.row + BatchRecords < n THEN w.row + BatchRecords ELSE n)

----------------------------------------------------------------------------
Init ==
    /\ job = [j \in Jobs |-> J!NoJob]
    /\ expired = [j \in Jobs |-> FALSE]
    /\ file = [j \in Jobs |-> NoFile]
    /\ table = {}
    /\ results = [j \in Jobs |-> <<>>]
    /\ progress = [j \in Jobs |-> NoProgress]
    /\ uploads = [j \in Jobs |-> {}]
    /\ phase = "up"
    /\ sweep = {}
    /\ pc = [j \in Jobs |-> "none"]
    /\ work = [j \in Jobs |-> NoWork]
    /\ crashes = 0

(* POST /jobs/ingest.                                                      *)
CreateJob(j) ==
    /\ phase = "up"
    /\ job[j] = J!NoJob
    /\ job' = [job EXCEPT ![j] = "Open"]
    /\ UNCHANGED <<expired, file, store, uploads, phase, sweep, pc, work, crashes>>

(* PUT .../batches: the state is checked before the body is awaited ...    *)
StartUpload(j, f) ==
    /\ phase = "up"
    /\ Visible(j)
    /\ job[j] = "Open"
    /\ uploads' = [uploads EXCEPT ![j] = @ \cup {f}]
    /\ UNCHANGED <<job, expired, file, store, phase, sweep, pc, work, crashes>>

(* ... and the temporary file replaces input.csv at its end ...            *)
FinishUpload(j, f) ==
    /\ f \in uploads[j]
    /\ file' = [file EXCEPT ![j] = f]
    /\ uploads' = [uploads EXCEPT ![j] = @ \ {f}]
    /\ UNCHANGED <<job, expired, store, phase, sweep, pc, work, crashes>>

(* ... or is unlinked: body too large, client gone, disk reserve reached.  *)
UploadFails(j, f) ==
    /\ f \in uploads[j]
    /\ uploads' = [uploads EXCEPT ![j] = @ \ {f}]
    /\ UNCHANGED <<job, expired, file, store, phase, sweep, pc, work, crashes>>

(* PATCH UploadComplete: needs an upload; submits the job.                 *)
Close(j) ==
    /\ phase = "up"
    /\ Visible(j)
    /\ file[j] # NoFile
    /\ J!CanMove(job[j], "UploadComplete")
    /\ job' = [job EXCEPT ![j] = "UploadComplete"]
    /\ pc' = [pc EXCEPT ![j] = "queued"]
    /\ UNCHANGED <<expired, file, store, uploads, phase, sweep, work, crashes>>

(* PATCH Aborted; through /jobs/query/{id}, which checks neither the type  *)
(* nor the retention of the job, an expired one too.                       *)
Abort(j) ==
    /\ phase = "up"
    /\ J!CanMove(job[j], "Aborted")
    /\ job' = [job EXCEPT ![j] = "Aborted"]
    /\ UNCHANGED <<expired, file, store, uploads, phase, sweep, pc, work, crashes>>

(* The clock passes expires_at, whatever the process is doing.             *)
RetentionEnds(j) ==
    /\ job[j] \in J!BulkJobState
    /\ ~expired[j]
    /\ expired' = [expired EXCEPT ![j] = TRUE]
    /\ UNCHANGED <<job, file, store, uploads, phase, sweep, pc, work, crashes>>

----------------------------------------------------------------------------
(* An executor thread takes the task; _run and worker.run look at the job. *)
Dispatch(j) ==
    /\ pc[j] = "queued"
    /\ Cardinality({k \in Jobs : pc[k] \in Running}) < BulkWorkers
    /\ pc' = [pc EXCEPT ![j] =
                CASE Visible(j) /\ job[j] = "UploadComplete" -> "begin"
                  [] Visible(j) /\ job[j] = "InProgress"     -> "load"
                  [] OTHER                                   -> "none"]
    /\ UNCHANGED <<job, expired, file, store, uploads, phase, sweep, work, crashes>>

(* transition_job(InProgress), outside the try: a refused transition ends  *)
(* the task, and so does the assertion on a job that has expired.          *)
Begin(j) ==
    /\ pc[j] = "begin"
    /\ IF J!CanMove(job[j], "InProgress")
       THEN /\ job' = [job EXCEPT ![j] = "InProgress"]
            /\ pc' = [pc EXCEPT ![j] = IF expired[j] THEN "none" ELSE "load"]
       ELSE /\ pc' = [pc EXCEPT ![j] = "none"]
            /\ UNCHANGED job
    /\ UNCHANGED <<expired, file, store, uploads, phase, sweep, work, crashes>>

(* A task is over: its thread is free and its locals are gone.             *)
EndTask(j) ==
    /\ pc' = [pc EXCEPT ![j] = "none"]
    /\ work' = [work EXCEPT ![j] = NoWork]

(* run's two except clauses: Failed, unless the job was aborted meanwhile. *)
Fail(j) ==
    /\ job' = [job EXCEPT ![j] = IF J!CanMove(@, "Failed") THEN "Failed" ELSE @]
    /\ EndTask(j)
    /\ UNCHANGED <<expired, file, store, uploads, phase, sweep, crashes>>

(* _stream up to the loop: read the progress, open the upload.  The open   *)
(* file stays the same when a later upload replaces input.csv.             *)
Load(j) ==
    /\ pc[j] = "load"
    /\ file[j] # NoFile /\ file[j].header
    /\ work' = [work EXCEPT ![j] = [file      |-> file[j],
                                    processed |-> progress[j].processed,
                                    failed    |-> progress[j].failed,
                                    row       |-> progress[j].row,
                                    existing  |-> {}]]
    /\ pc' = [pc EXCEPT ![j] = "stream"]
    /\ UNCHANGED <<job, expired, file, store, uploads, phase, sweep, crashes>>

(* IngestFileError: no upload, an invalid header, or a wide row among the  *)
(* rows of the next batch, none of which is then applied.                  *)
RejectFile(j) ==
    /\ \/ pc[j] = "load" /\ (file[j] = NoFile \/ ~file[j].header)
       \/ pc[j] = "stream" /\ \E i \in Batch(j) : work[j].file.rows[i] = Wide
    /\ Fail(j)

(* _apply_batch up to _commit_batch: the SELECT, outside any transaction,  *)
(* that finds the ids of the batch which already exist.                    *)
CheckExisting(j) ==
    /\ pc[j] = "stream"
    /\ work[j].row < Len(work[j].file.rows)
    /\ \A i \in Batch(j) : work[j].file.rows[i] # Wide
    /\ work' = [work EXCEPT ![j].existing =
                  {RecordId(j, work[j].file, i) : i \in {k \in Batch(j) : Valid(work[j].file, k)}}
                     \cap TableIds]
    /\ pc' = [pc EXCEPT ![j] = "checked"]
    /\ UNCHANGED <<job, expired, file, store, uploads, phase, sweep, crashes>>

(* The records the transaction inserts, and whether the unique index lets  *)
(* it commit.                                                              *)
NewRecords(j) ==
    LET w == work[j] IN
    {[id |-> RecordId(j, w.file, i), job |-> j, row |-> i] :
        i \in Accepted(j, w.file, Batch(j), w.existing)}

IndexAllows(j) ==
    /\ {r.id : r \in NewRecords(j)} \cap TableIds = {}
    /\ \A r, s \in NewRecords(j) : r.id = s.id => r = s

(* Mutant: the checkpoint is not part of the batch's transaction.          *)
CommitWithoutCheckpoint(j) ==
    /\ pc[j] = "checked"
    /\ IndexAllows(j)
    /\ LET w   == work[j]
           acc == Accepted(j, w.file, Batch(j), w.existing)
           n   == Cardinality(Batch(j))
       IN  /\ table' = table \cup NewRecords(j)
           /\ results' = [results EXCEPT ![j] =
                [i \in DOMAIN @ \cup Batch(j) |->
                    IF i \notin Batch(j) THEN @[i]
                    ELSE IF i \in acc THEN "success" ELSE "failed"]]
           /\ work' = [work EXCEPT ![j].row = @ + n, ![j].existing = {}]
    /\ pc' = [pc EXCEPT ![j] = "stream"]
    /\ UNCHANGED <<job, expired, file, progress, uploads, phase, sweep, crashes>>

(* _commit_batch: records, row results and checkpoint in one transaction.  *)
CommitBatch(j) ==
    /\ pc[j] = "checked"
    /\ IndexAllows(j)
    /\ LET w    == work[j]
           acc  == Accepted(j, w.file, Batch(j), w.existing)
           n    == Cardinality(Batch(j))
           next == [processed |-> w.processed + Cardinality(acc),
                    failed    |-> w.failed + n - Cardinality(acc),
                    row       |-> w.row + n]
       IN  /\ table' = table \cup NewRecords(j)
           /\ results' = [results EXCEPT ![j] =
                [i \in DOMAIN @ \cup Batch(j) |->
                    IF i \notin Batch(j) THEN @[i]
                    ELSE IF i \in acc THEN "success" ELSE "failed"]]
           /\ progress' = [progress EXCEPT ![j] = next]
           /\ work' = [work EXCEPT ![j] = [file      |-> w.file,
                                           processed |-> next.processed,
                                           failed    |-> next.failed,
                                           row       |-> next.row,
                                           existing  |-> {}]]
    /\ pc' = [pc EXCEPT ![j] = "stream"]
    /\ UNCHANGED <<job, expired, file, uploads, phase, sweep, crashes>>

(* Another job inserted one of the ids after the SELECT: the index refuses *)
(* the transaction, and with it the job.                                   *)
RejectCommit(j) ==
    /\ pc[j] = "checked"
    /\ ~IndexAllows(j)
    /\ Fail(j)

(* Mutants: the rows after the last full batch are dropped; the task       *)
(* outlives the completion of its job.                                     *)
FinishWithoutTail(j) ==
    /\ pc[j] = "stream"
    /\ work[j].row + BatchRecords > Len(work[j].file.rows)
    /\ job' = [job EXCEPT ![j] = IF J!CanMove(@, "JobComplete") THEN "JobComplete" ELSE @]
    /\ EndTask(j)
    /\ UNCHANGED <<expired, file, store, uploads, phase, sweep, crashes>>

FinishEarly(j) ==
    /\ pc[j] = "stream"
    /\ J!CanMove(job[j], "JobComplete")
    /\ job' = [job EXCEPT ![j] = "JobComplete"]
    /\ UNCHANGED <<expired, file, store, uploads, phase, sweep, pc, work, crashes>>

(* The CSV is exhausted; transition_job(JobComplete) is outside the try,   *)
(* so after an abort it raises and the dispatcher drops the exception.     *)
Finish(j) ==
    /\ pc[j] = "stream"
    /\ work[j].row >= Len(work[j].file.rows)
    /\ job' = [job EXCEPT ![j] = IF J!CanMove(@, "JobComplete") THEN "JobComplete" ELSE @]
    /\ EndTask(j)
    /\ UNCHANGED <<expired, file, store, uploads, phase, sweep, crashes>>

(* Mutant: the failure is recorded whatever became of the job meanwhile.   *)
FailUnchecked(j) ==
    /\ pc[j] \in Streaming
    /\ job' = [job EXCEPT ![j] = "Failed"]
    /\ EndTask(j)
    /\ UNCHANGED <<expired, file, store, uploads, phase, sweep, crashes>>

(* Any other exception in _stream: I/O, decoding, a transaction conflict.  *)
StreamFails(j) == pc[j] \in Streaming /\ Fail(j)

----------------------------------------------------------------------------
(* The process dies: uploads in flight, queue and locals go with it.       *)
Crash ==
    /\ phase # "down"
    /\ crashes < MaxCrashes
    /\ phase' = "down"
    /\ sweep' = {}
    /\ uploads' = [j \in Jobs |-> {}]
    /\ pc' = [j \in Jobs |-> "none"]
    /\ work' = [j \in Jobs |-> NoWork]
    /\ crashes' = crashes + 1
    /\ UNCHANGED <<job, expired, file, store>>

(* Startup: one transaction deletes the expired jobs and their             *)
(* checkpoints (their row results stay) and returns their ids ...          *)
ExpireJobs ==
    /\ phase = "down"
    /\ sweep' = {j \in Jobs : job[j] \in J!BulkJobState /\ expired[j]}
    /\ job' = [j \in Jobs |-> IF j \in sweep' THEN J!Removed ELSE job[j]]
    /\ progress' = [j \in Jobs |-> IF j \in sweep' THEN NoProgress ELSE progress[j]]
    /\ phase' = "sweeping"
    /\ UNCHANGED <<expired, file, table, results, uploads, pc, work, crashes>>

(* ... then their directories are removed one after the other ...          *)
RemoveArtifacts(j) ==
    /\ phase = "sweeping"
    /\ j \in sweep
    /\ sweep' = sweep \ {j}
    /\ file' = [file EXCEPT ![j] = NoFile]
    /\ UNCHANGED <<job, expired, store, uploads, phase, pc, work, crashes>>

(* ... and resume_pending submits the jobs that are not finished.          *)
ResumePending ==
    /\ phase = "sweeping"
    /\ sweep = {}
    /\ phase' = "up"
    /\ pc' = [j \in Jobs |-> IF job[j] \in Runnable /\ ~expired[j] THEN "queued" ELSE "none"]
    /\ UNCHANGED <<job, expired, file, store, uploads, sweep, work, crashes>>

----------------------------------------------------------------------------
ClientStep(j) ==
    \/ CreateJob(j) \/ Close(j) \/ Abort(j)
    \/ \E f \in Files : StartUpload(j, f) \/ FinishUpload(j, f) \/ UploadFails(j, f)

WorkerStep(j) ==
    \/ Dispatch(j) \/ Begin(j) \/ Load(j) \/ RejectFile(j)
    \/ CheckExisting(j) \/ CommitBatch(j) \/ RejectCommit(j) \/ Finish(j)

StartupStep == ExpireJobs \/ ResumePending \/ \E j \in Jobs : RemoveArtifacts(j)

Next ==
    \/ \E j \in Jobs : ClientStep(j) \/ RetentionEnds(j) \/ WorkerStep(j) \/ StreamFails(j)
    \/ Crash \/ StartupStep

Spec == Init /\ [][Next]_vars

(* Executor threads run, and the container restarts (unless-stopped).      *)
Fairness == WF_vars(StartupStep) /\ \A j \in Jobs : WF_vars(WorkerStep(j))

FairSpec == Spec /\ Fairness
----------------------------------------------------------------------------
(* Type invariant: the tables, the uploads and the worker's locals hold    *)
(* values of their types; a checkpoint's counters never go below zero.     *)
TypeOK ==
    /\ job \in [Jobs -> J!JobStatus]
    /\ expired \in [Jobs -> BOOLEAN]
    /\ file \in [Jobs -> Files \cup {NoFile}]
    /\ \A r \in table : r.job \in Jobs /\ r.row \in Nat
    /\ DOMAIN results = Jobs
    /\ \A j \in Jobs : \A i \in DOMAIN results[j] : results[j][i] \in {"success", "failed"}
    /\ progress \in [Jobs -> [processed: Nat, failed: Nat, row: Nat]]
    /\ uploads \in [Jobs -> SUBSET Files]
    /\ phase \in {"down", "sweeping", "up"}
    /\ sweep \subseteq Jobs
    /\ pc \in [Jobs -> Running \cup {"none", "queued"}]
    /\ DOMAIN work = Jobs
    /\ \A j \in Jobs : /\ work[j].file \in Files \cup {NoFile}
                       /\ work[j].processed \in Nat /\ work[j].failed \in Nat
                       /\ work[j].row \in Nat
    /\ crashes \in 0..MaxCrashes

(* The outcomes a client can download, the counts of the checkpoint and    *)
(* the table agree for every job that still has its row, after any crash:  *)
(* rows 1..csv_row_number have an outcome and no other row has, a row is   *)
(* reported successful exactly if the table holds its record, and          *)
(* records_processed and records_failed count the two kinds.               *)
OutcomesMatchTable ==
    \A j \in Jobs : job[j] # J!Removed =>
        LET ok  == {i \in DOMAIN results[j] : results[j][i] = "success"}
            bad == DOMAIN results[j] \ ok
        IN  /\ DOMAIN results[j] = 1..progress[j].row
            /\ ok = {r.row : r \in {s \in table : s.job = j}}
            /\ progress[j].processed = Cardinality(ok)
            /\ progress[j].failed = Cardinality(bad)

(* The rows of the batch that row i of a CSV is applied in.                *)
BatchOf(f, i) ==
    LET first == ((i - 1) \div BatchRecords) * BatchRecords + 1
    IN  {k \in first..first + BatchRecords - 1 : k <= Len(f.rows)}

(* The outcome of a row is the one a run without crashes could give.  With *)
(* one CSV f: a successful row is well-formed and its id is unique in its  *)
(* batch; a failed one is malformed, or its id repeats in its batch, or    *)
(* the id belongs to the seed, to another job or to an earlier batch of    *)
(* this one.  A resumed job never reports as duplicate what it inserted    *)
(* itself before the crash.                                                *)
OutcomesJustified ==
    \A f \in Files : \A j \in Jobs : \A i \in DOMAIN results[j] :
        LET well == Valid(f, i) /\ UniqueIn(j, f, BatchOf(f, i), i)
        IN  IF results[j][i] = "success" THEN well
            ELSE well => \/ RecordId(j, f, i) \in Seed
                         \/ \E r \in table : /\ r.id = RecordId(j, f, i)
                                             /\ r.job = j => r.row \notin BatchOf(f, i)

(* Row outcomes are available from JobComplete or Failed on, as a header   *)
(* count and a stream read one after the other: from then on they never    *)
(* change.                                                                 *)
OutcomesFrozen ==
    [][\A j \in Jobs : job[j] \in {"JobComplete", "Failed"} => results'[j] = results[j]]_vars

(* A completed job has accounted for every row of its CSV: nothing is lost *)
(* or counted twice between the counters that a resumed worker takes from  *)
(* the checkpoint and the rows that it skips.                              *)
CompleteIsWhole ==
    \A j \in Jobs : job[j] = "JobComplete" =>
        \E f \in Files : progress[j].processed + progress[j].failed = Len(f.rows)

(* The job rows follow the lifecycle of jobs.py.                           *)
JobLifecycle == J!Spec

(* Every closed job reaches a terminal state, through any crash, unless    *)
(* its retention ends first.                                               *)
EveryJobSettles ==
    \A j \in Jobs : job[j] = "UploadComplete" ~>
        (job[j] \in J!Terminal \cup {J!Removed} \/ expired[j])
=============================================================================
