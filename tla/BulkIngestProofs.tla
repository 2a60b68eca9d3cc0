-------------------------- MODULE BulkIngestProofs --------------------------
(***************************************************************************)
(* Proofs about BulkIngest, for any number of jobs, files, threads and     *)
(* crashes.  The inductive invariant Inv ties the worker's locals to the   *)
(* checkpoint it started from, and the checkpoint to the row results and   *)
(* the table.                                                              *)
(***************************************************************************)
EXTENDS BulkIngest, FiniteSetTheorems, TLAPS

USE RowsAssumption, FilesAssumption, IngestSettingsAssumption

(* No task outlives the process or a deleted job, and a job that is done   *)
(* has none.                                                               *)
ProcessOK ==
    /\ phase # "up" => \A j \in Jobs : pc[j] = "none"
    /\ \A j \in Jobs : pc[j] # "none" => job[j] \in J!BulkJobState \ {"JobComplete", "Failed"}

(* While it streams, the worker has an uploaded file open, and its counts  *)
(* are those of the checkpoint.  A batch is checked only if there is one,  *)
(* and what the SELECT found stays in the table.                           *)
WorkerOK(j) ==
    /\ DOMAIN work[j] = DOMAIN NoWork
    /\ pc[j] \in {"stream", "checked"} =>
          /\ work[j].file \in Files
          /\ work[j].processed = progress[j].processed
          /\ work[j].failed = progress[j].failed
          /\ work[j].row = progress[j].row
    /\ pc[j] = "checked" =>
          /\ work[j].row < Len(work[j].file.rows)
          /\ work[j].existing \subseteq TableIds

(* OutcomesMatchTable, for one job.                                        *)
OutcomesOK(j) ==
    LET ok  == {i \in DOMAIN results[j] : results[j][i] = "success"}
        bad == DOMAIN results[j] \ ok
    IN  /\ DOMAIN results[j] = 1..progress[j].row
        /\ ok = {r.row : r \in {s \in table : s.job = j}}
        /\ progress[j].processed = Cardinality(ok)
        /\ progress[j].failed = Cardinality(bad)

Inv ==
    /\ TypeOK
    /\ ProcessOK
    /\ \A j \in Jobs : WorkerOK(j)
    /\ \A j \in Jobs : job[j] # J!Removed => OutcomesOK(j)
----------------------------------------------------------------------------
(* An uploaded CSV has finitely many rows; that no file is not one.        *)
LEMMA FilesAreSequences ==
    \A f \in Files \cup {NoFile} : f.rows \in Seq(Rows) /\ Len(f.rows) \in Nat
<1>1. ASSUME NEW f \in Files PROVE f.rows \in Seq(Rows)
  OBVIOUS
<1>2. NoFile.rows \in Seq(Rows)
  BY DEF NoFile
<1>3. ASSUME NEW s \in Seq(Rows) PROVE Len(s) \in Nat
  OBVIOUS
<1> QED
  BY <1>1, <1>2, <1>3

(* A batch that is not empty is an interval that starts after the last     *)
(* row of the checkpoint and ends at most with the CSV.                    *)
LEMMA BatchInterval ==
    ASSUME NEW j \in Jobs, work[j].file \in Files, work[j].row \in Nat,
           work[j].row < Len(work[j].file.rows)
    PROVE  \E m \in Nat : /\ work[j].row < m
                          /\ m <= Len(work[j].file.rows)
                          /\ m = work[j].row + BatchRecords \/ m = Len(work[j].file.rows)
                          /\ m <= work[j].row + BatchRecords
                          /\ Batch(j) = work[j].row + 1 .. m
                          /\ IsFiniteSet(Batch(j))
                          /\ Cardinality(Batch(j)) = m - work[j].row
<1> DEFINE n == Len(work[j].file.rows)
           r == work[j].row
           m == IF r + BatchRecords < n THEN r + BatchRecords ELSE n
<1>1. n \in Nat /\ r \in Nat /\ r < n
  BY FilesAreSequences
<1>2. Batch(j) = r + 1 .. m
  BY DEF Batch
<1>3. BatchRecords \in Nat /\ BatchRecords > 0
  OBVIOUS
<1> HIDE DEF n, r
<1>4. /\ m \in Nat /\ r < m /\ m <= n /\ m <= r + BatchRecords
      /\ m = r + BatchRecords \/ m = n
  BY <1>1, <1>3
<1> HIDE DEF m
<1>5. IsFiniteSet(r + 1 .. m) /\ Cardinality(r + 1 .. m) = m - r
  <2>1. r + 1 \in Int /\ m \in Int /\ ~(r + 1 > m)
    BY <1>1, <1>4
  <2>2. IsFiniteSet(r + 1 .. m) /\ Cardinality(r + 1 .. m) = m - (r + 1) + 1
    BY <2>1, FS_Interval
  <2> QED
    BY <1>1, <1>4, <2>2
<1> QED
  BY <1>2, <1>4, <1>5 DEF n, r

(* The invariant holds initially: no job, no upload, nothing running.      *)
LEMMA InitInv == Init => Inv
<1> SUFFICES ASSUME Init PROVE Inv
  OBVIOUS
<1>1. TypeOK
  BY DEF Init, TypeOK, NoProgress, NoWork, Running, Streaming, J!JobStatus, J!NoJob
<1>2. ProcessOK
  BY DEF Init, ProcessOK
<1>3. ASSUME NEW j \in Jobs PROVE WorkerOK(j)
  BY DEF Init, WorkerOK, NoWork
<1>4. ASSUME NEW j \in Jobs PROVE OutcomesOK(j)
  <2>1. /\ DOMAIN results[j] = {} /\ table = {}
        /\ progress[j].row = 0 /\ progress[j].processed = 0 /\ progress[j].failed = 0
    BY DEF Init, NoProgress
  <2>2. 1..0 = {} /\ Cardinality({}) = 0
    BY FS_EmptySet
  <2> QED
    BY <2>1, <2>2 DEF OutcomesOK
<1> QED
  BY <1>1, <1>2, <1>3, <1>4 DEF Inv
----------------------------------------------------------------------------
(* Types, for the requests of the clients and the end of the retention.    *)
LEMMA ClientTypeOK ==
    ASSUME TypeOK, NEW j \in Jobs, ClientStep(j) \/ RetentionEnds(j)
    PROVE  TypeOK'
<1> USE DEF J!JobStatus, J!BulkJobState
<1>1. CASE CreateJob(j)
  BY <1>1 DEF CreateJob, TypeOK, store
<1>2. ASSUME NEW f \in Files, StartUpload(j, f) PROVE TypeOK'
  BY <1>2 DEF StartUpload, TypeOK, store
<1>3. ASSUME NEW f \in Files, FinishUpload(j, f) PROVE TypeOK'
  BY <1>3 DEF FinishUpload, TypeOK, store
<1>4. ASSUME NEW f \in Files, UploadFails(j, f) PROVE TypeOK'
  BY <1>4 DEF UploadFails, TypeOK, store
<1>5. CASE Close(j)
  BY <1>5 DEF Close, TypeOK, store, Running, Streaming
<1>6. CASE Abort(j)
  BY <1>6 DEF Abort, TypeOK, store
<1>7. CASE RetentionEnds(j)
  BY <1>7 DEF RetentionEnds, TypeOK, store
<1> QED
  BY <1>1, <1>2, <1>3, <1>4, <1>5, <1>6, <1>7 DEF ClientStep

(* Types, for the end of a task.                                           *)
LEMMA EndTypeOK ==
    ASSUME TypeOK, NEW j \in Jobs, EndTask(j), job' \in [Jobs -> J!JobStatus],
           UNCHANGED <<expired, file, store, uploads, phase, sweep, crashes>>
    PROVE  TypeOK'
BY DEF EndTask, TypeOK, store, NoWork, Running, Streaming

(* Types, for the startup sequence and the crash.                          *)
LEMMA CrashTypeOK ==
    ASSUME TypeOK, Crash \/ StartupStep
    PROVE  TypeOK'
<1>1. CASE Crash
  BY <1>1 DEF Crash, TypeOK, store, NoWork, Running, Streaming
<1>2. CASE ExpireJobs
  <2>1. /\ sweep' \subseteq Jobs
        /\ job' \in [Jobs -> J!JobStatus]
    BY <1>2 DEF ExpireJobs, TypeOK, J!JobStatus, J!Removed
  <2>2. progress' \in [Jobs -> [processed: Nat, failed: Nat, row: Nat]]
    BY <1>2 DEF ExpireJobs, TypeOK, NoProgress
  <2> QED
    BY <1>2, <2>1, <2>2 DEF ExpireJobs, TypeOK
<1>3. CASE ResumePending
  BY <1>3 DEF ResumePending, TypeOK, store, Running, Streaming
<1>4. ASSUME NEW j \in Jobs, RemoveArtifacts(j) PROVE TypeOK'
  BY <1>4 DEF RemoveArtifacts, TypeOK, store
<1> QED
  BY <1>1, <1>2, <1>3, <1>4 DEF StartupStep
----------------------------------------------------------------------------
(* A step that touches neither the results, the checkpoint nor the records *)
(* of a job keeps what is known of its outcomes.                           *)
LEMMA OutcomesFrame ==
    ASSUME NEW k \in Jobs, OutcomesOK(k),
           results'[k] = results[k], progress'[k] = progress[k],
           {s \in table' : s.job = k} = {s \in table : s.job = k}
    PROVE  OutcomesOK(k)'
BY DEF OutcomesOK

(* A step keeps what is known of a worker if it leaves it where it is, its *)
(* checkpoint alone, and deletes no record; or if it takes it out of the   *)
(* loop.                                                                   *)
LEMMA WorkerFrame ==
    ASSUME NEW k \in Jobs, WorkerOK(k),
           \/ /\ pc'[k] = pc[k]
              /\ work'[k] = work[k]
              /\ progress'[k] = progress[k]
              /\ table \subseteq table'
           \/ /\ pc'[k] \notin {"stream", "checked"}
              /\ work'[k] \in {work[k], NoWork}
    PROVE  WorkerOK(k)'
<1>1. CASE /\ pc'[k] = pc[k]
           /\ work'[k] = work[k]
           /\ progress'[k] = progress[k]
           /\ table \subseteq table'
  <2>1. TableIds \subseteq TableIds'
    BY <1>1 DEF TableIds
  <2> QED
    BY <1>1, <2>1 DEF WorkerOK
<1>2. CASE /\ pc'[k] \notin {"stream", "checked"}
           /\ work'[k] \in {work[k], NoWork}
  BY <1>2 DEF WorkerOK
<1> QED
  BY <1>1, <1>2

(* A deleted job stays deleted.                                            *)
LEMMA RemovedStays ==
    ASSUME Inv, [Next]_vars, NEW k \in Jobs, job[k] = J!Removed
    PROVE  job'[k] = J!Removed
<1> USE DEF J!Removed, J!NoJob, J!BulkJobState
<1>1. ~(job[k] \in J!BulkJobState) /\ job[k] # J!NoJob
  OBVIOUS
<1>2. ASSUME NEW s PROVE ~J!CanMove(job[k], s)
  BY <1>1 DEF J!CanMove
<1>3. job \in [Jobs -> J!JobStatus]
  BY DEF Inv, TypeOK
<1>4. ASSUME NEW j \in Jobs, ClientStep(j) \/ RetentionEnds(j)
      PROVE  job'[k] = J!Removed
  BY <1>1, <1>2, <1>3, <1>4 DEF ClientStep, CreateJob, Close, Abort, StartUpload, FinishUpload,
                                UploadFails, RetentionEnds
<1>5. ASSUME NEW j \in Jobs, WorkerStep(j) \/ StreamFails(j)
      PROVE  job'[k] = J!Removed
  <2>1. CASE Dispatch(j) \/ Load(j) \/ CheckExisting(j) \/ CommitBatch(j)
    BY <2>1 DEF Dispatch, Load, CheckExisting, CommitBatch
  <2>2. CASE Begin(j)
    BY <1>2, <1>3, <2>2 DEF Begin
  <2>3. CASE RejectFile(j) \/ RejectCommit(j) \/ StreamFails(j)
    BY <1>2, <1>3, <2>3 DEF RejectFile, RejectCommit, StreamFails, Fail
  <2>4. CASE Finish(j)
    BY <1>2, <1>3, <2>4 DEF Finish
  <2> QED
    BY <1>5, <2>1, <2>2, <2>3, <2>4 DEF WorkerStep
<1>6. CASE Crash \/ StartupStep
  BY <1>3, <1>6 DEF Crash, StartupStep, ExpireJobs, ResumePending, RemoveArtifacts
<1>7. CASE UNCHANGED vars
  BY <1>7 DEF vars
<1> QED
  BY <1>4, <1>5, <1>6, <1>7 DEF Next

(* So a step that leaves the store alone keeps what is known of outcomes.  *)
LEMMA StoreKept ==
    ASSUME Inv, [Next]_vars, UNCHANGED store
    PROVE  \A k \in Jobs : job'[k] # J!Removed => OutcomesOK(k)'
<1> SUFFICES ASSUME NEW k \in Jobs, job'[k] # J!Removed
             PROVE  OutcomesOK(k)'
  OBVIOUS
<1>1. OutcomesOK(k)
  BY RemovedStays DEF Inv
<1>2. results' = results /\ progress' = progress /\ table' = table
  BY DEF store
<1> QED
  BY <1>1, <1>2, OutcomesFrame
----------------------------------------------------------------------------
(* The steps that never touch a worker inside its loop, nor the store.     *)
LEMMA ControlStepInv ==
    ASSUME Inv,
           \/ \E j \in Jobs : \/ ClientStep(j) \/ RetentionEnds(j)
                              \/ Dispatch(j) \/ Begin(j) \/ RemoveArtifacts(j)
           \/ ResumePending
    PROVE  Inv'
<1> USE DEF J!BulkJobState
<1>0. TypeOK /\ ProcessOK /\ \A k \in Jobs : WorkerOK(k)
  BY DEF Inv
<1>1. UNCHANGED <<store, work>>
  BY DEF ClientStep, CreateJob, Close, Abort, StartUpload, FinishUpload, UploadFails,
         RetentionEnds, Dispatch, Begin, RemoveArtifacts, ResumePending
<1>2. \A k \in Jobs : job'[k] # J!Removed => OutcomesOK(k)'
  BY <1>1, StoreKept DEF Next, WorkerStep, StartupStep
<1>3. ASSUME pc \in [Jobs -> Running \cup {"none", "queued"}],
             \A k \in Jobs : pc'[k] = pc[k] \/ pc'[k] \notin {"stream", "checked"}
      PROVE  \A k \in Jobs : WorkerOK(k)'
  BY <1>0, <1>1, <1>3, WorkerFrame DEF store
<1>4. ASSUME NEW j \in Jobs, ClientStep(j) \/ RetentionEnds(j) PROVE Inv'
  <2>1. TypeOK'
    BY <1>0, <1>4, ClientTypeOK
  <2>2. \A k \in Jobs : WorkerOK(k)'
    BY <1>0, <1>3, <1>4 DEF ClientStep, CreateJob, Close, Abort, StartUpload, FinishUpload,
                    UploadFails, RetentionEnds, TypeOK
  <2>3. ProcessOK'
    <3>1. CASE CreateJob(j)
      BY <1>0, <3>1 DEF CreateJob, ProcessOK, TypeOK
    <3>2. CASE Close(j)
      BY <1>0, <3>2 DEF Close, ProcessOK, TypeOK
    <3>3. CASE Abort(j)
      BY <1>0, <3>3 DEF Abort, ProcessOK, TypeOK
    <3>4. CASE RetentionEnds(j) \/ \E f \in Files : \/ StartUpload(j, f) \/ FinishUpload(j, f)
                                                  \/ UploadFails(j, f)
      BY <1>0, <3>4 DEF RetentionEnds, StartUpload, FinishUpload, UploadFails, ProcessOK
    <3> QED
      BY <1>4, <3>1, <3>2, <3>3, <3>4 DEF ClientStep
  <2> QED
    BY <1>2, <2>1, <2>2, <2>3 DEF Inv
<1>5. ASSUME NEW j \in Jobs, Dispatch(j) \/ Begin(j) PROVE Inv'
  <2>1. /\ pc[j] \in {"queued", "begin"} /\ phase' = phase
        /\ pc' = [pc EXCEPT ![j] = pc'[j]]
        /\ pc'[j] \in {"begin", "load", "none"}
        /\ job' = [job EXCEPT ![j] = job'[j]]
        /\ job'[j] \in {job[j], "InProgress"}
    <3>1. CASE Dispatch(j)
      BY <1>0, <3>1 DEF Dispatch, TypeOK
    <3>2. CASE Begin(j)
      BY <1>0, <3>2 DEF Begin, TypeOK
    <3> QED
      BY <1>5, <3>1, <3>2
  <2>2. TypeOK'
    <3>1. UNCHANGED <<expired, file, table, results, progress, uploads, phase, sweep, work, crashes>>
      BY <1>5 DEF Dispatch, Begin, store
    <3>2. job \in [Jobs -> J!JobStatus] /\ pc \in [Jobs -> Running \cup {"none", "queued"}]
      BY <1>0 DEF TypeOK
    <3>3. job' \in [Jobs -> J!JobStatus]
      BY <2>1, <3>2 DEF J!JobStatus
    <3>4. pc' \in [Jobs -> Running \cup {"none", "queued"}]
      BY <2>1, <3>2 DEF Running, Streaming
    <3> QED
      BY <1>0, <3>1, <3>3, <3>4 DEF TypeOK
  <2>3. \A k \in Jobs : WorkerOK(k)'
    BY <1>0, <1>3, <2>1 DEF TypeOK
  <2>4. ProcessOK'
    <3>1. job[j] \in J!BulkJobState \ {"JobComplete", "Failed"}
      BY <1>0, <2>1 DEF ProcessOK
    <3> QED
      BY <1>0, <2>1, <3>1 DEF ProcessOK, TypeOK
  <2> QED
    BY <1>2, <2>2, <2>3, <2>4 DEF Inv
<1>6. ASSUME ResumePending \/ \E j \in Jobs : RemoveArtifacts(j) PROVE Inv'
  <2>1. TypeOK'
    BY <1>0, <1>6, CrashTypeOK DEF StartupStep
  <2>2. \A k \in Jobs : WorkerOK(k)'
    BY <1>0, <1>3, <1>6 DEF ResumePending, RemoveArtifacts, TypeOK
  <2>3. ProcessOK'
    BY <1>0, <1>6 DEF ResumePending, Runnable, RemoveArtifacts, ProcessOK, TypeOK
  <2> QED
    BY <1>2, <2>1, <2>2, <2>3 DEF Inv
<1> QED
  BY <1>4, <1>5, <1>6

(* The end of a task: the loop is left, the job fails, completes, or was   *)
(* aborted meanwhile.                                                      *)
LEMMA EndStepInv ==
    ASSUME Inv, NEW j \in Jobs, RejectFile(j) \/ RejectCommit(j) \/ StreamFails(j) \/ Finish(j)
    PROVE  Inv'
<1> USE DEF J!BulkJobState
<1>0. TypeOK /\ ProcessOK /\ \A k \in Jobs : WorkerOK(k)
  BY DEF Inv
<1>1. /\ EndTask(j)
      /\ UNCHANGED <<expired, file, store, uploads, phase, sweep, crashes>>
      /\ \E s \in {"Failed", "JobComplete"} :
            job' = [job EXCEPT ![j] = IF J!CanMove(@, s) THEN s ELSE @]
  BY DEF RejectFile, RejectCommit, StreamFails, Fail, Finish
<1>2. \A k \in Jobs : job'[k] # J!Removed => OutcomesOK(k)'
  <2>1. UNCHANGED store
    BY <1>1
  <2> QED
    BY <2>1, StoreKept DEF Next, WorkerStep
<1>3. TypeOK'
  <2>1. job' \in [Jobs -> J!JobStatus]
    BY <1>0, <1>1 DEF TypeOK, J!JobStatus
  <2> QED
    BY <1>0, <1>1, <2>1, EndTypeOK
<1>4. \A k \in Jobs : WorkerOK(k)'
  <2>1. UNCHANGED <<table, progress>>
    BY <1>1 DEF store
  <2>2. \A k \in Jobs : \/ pc'[k] = pc[k] /\ work'[k] = work[k]
                        \/ pc'[k] = "none" /\ work'[k] = NoWork
    BY <1>0, <1>1 DEF EndTask, TypeOK
  <2> QED
    BY <1>0, <2>1, <2>2, WorkerFrame
<1>5. ProcessOK'
  BY <1>0, <1>1 DEF EndTask, ProcessOK, TypeOK
<1> QED
  BY <1>2, <1>3, <1>4, <1>5 DEF Inv

(* The worker reads the checkpoint, or asks which ids exist.               *)
LEMMA ReadStepInv ==
    ASSUME Inv, NEW j \in Jobs, Load(j) \/ CheckExisting(j)
    PROVE  Inv'
<1>0. TypeOK /\ ProcessOK /\ \A k \in Jobs : WorkerOK(k)
  BY DEF Inv
<1>1. \A k \in Jobs : job'[k] # J!Removed => OutcomesOK(k)'
  <2>1. UNCHANGED store
    BY DEF Load, CheckExisting
  <2> QED
    BY <2>1, StoreKept DEF Next, WorkerStep
<1>2. /\ UNCHANGED <<job, expired, file, table, results, progress, uploads, phase, sweep, crashes>>
      /\ pc' = [pc EXCEPT ![j] = pc'[j]]
      /\ pc'[j] \in {"stream", "checked"} /\ pc[j] # "none"
      /\ work' = [work EXCEPT ![j] = work'[j]]
  <2>1. pc \in [Jobs -> Running \cup {"none", "queued"}] /\ DOMAIN work = Jobs
    BY <1>0 DEF TypeOK
  <2>2. CASE Load(j)
    BY <2>1, <2>2 DEF Load, store
  <2>3. CASE CheckExisting(j)
    BY <2>1, <2>3 DEF CheckExisting, store
  <2> QED
    BY <2>2, <2>3
<1>3. ProcessOK'
  BY <1>0, <1>2 DEF ProcessOK, TypeOK
<1>4. /\ WorkerOK(j)'
      /\ work'[j].file \in Files \cup {NoFile}
      /\ work'[j].processed \in Nat /\ work'[j].failed \in Nat /\ work'[j].row \in Nat
  <2>1. CASE Load(j)
    <3>1. work'[j] = [file |-> file[j], processed |-> progress[j].processed,
                      failed |-> progress[j].failed, row |-> progress[j].row, existing |-> {}]
      BY <1>0, <2>1 DEF Load, TypeOK
    <3>2. file[j] \in Files
      BY <1>0, <2>1 DEF Load, TypeOK
    <3>3. progress[j] \in [processed: Nat, failed: Nat, row: Nat]
      BY <1>0 DEF TypeOK
    <3>4. pc'[j] = "stream" /\ progress' = progress
      BY <1>0, <1>2, <2>1 DEF Load, TypeOK
    <3>5. /\ DOMAIN work'[j] = DOMAIN NoWork
          /\ work'[j].file = file[j] /\ work'[j].processed = progress[j].processed
          /\ work'[j].failed = progress[j].failed /\ work'[j].row = progress[j].row
      BY <3>1 DEF NoWork
    <3>6. WorkerOK(j)'
      BY <3>2, <3>4, <3>5 DEF WorkerOK
    <3> QED
      BY <3>2, <3>3, <3>5, <3>6
  <2>2. CASE CheckExisting(j)
    <3> DEFINE e == {RecordId(j, work[j].file, i) :
                          i \in {k \in Batch(j) : Valid(work[j].file, k)}} \cap TableIds
    <3>1. /\ work' = [work EXCEPT ![j].existing = e]
          /\ e \subseteq TableIds
      BY <2>2 DEF CheckExisting
    <3> HIDE DEF e
    <3>2. work'[j] = [work[j] EXCEPT !.existing = e]
      BY <1>0, <3>1 DEF TypeOK
    <3>3. /\ DOMAIN work'[j] = DOMAIN NoWork
          /\ work'[j].file = work[j].file /\ work'[j].processed = work[j].processed
          /\ work'[j].failed = work[j].failed /\ work'[j].row = work[j].row
          /\ work'[j].existing = e
      BY <1>0, <3>2 DEF WorkerOK, NoWork
    <3>4. TableIds' = TableIds
      BY <1>2 DEF TableIds
    <3>5. pc[j] = "stream" /\ work[j].row < Len(work[j].file.rows)
      BY <2>2 DEF CheckExisting
    <3>6. WorkerOK(j)'
      BY <1>0, <1>2, <3>1, <3>3, <3>4, <3>5 DEF WorkerOK
    <3> QED
      BY <1>0, <3>3, <3>6 DEF TypeOK
  <2> QED
    BY <2>1, <2>2
<1>5. \A k \in Jobs : WorkerOK(k)'
  <2>1. ASSUME NEW k \in Jobs, k # j PROVE WorkerOK(k)'
    BY <1>0, <1>2, <2>1, WorkerFrame DEF TypeOK
  <2> QED
    BY <1>4, <2>1
<1>6. TypeOK'
  <2>1. pc' \in [Jobs -> Running \cup {"none", "queued"}]
    <3>1. pc \in [Jobs -> Running \cup {"none", "queued"}]
      BY <1>0 DEF TypeOK
    <3> QED
      BY <1>2, <3>1 DEF Running, Streaming
  <2>2. /\ DOMAIN work' = Jobs
        /\ \A k \in Jobs : /\ work'[k].file \in Files \cup {NoFile}
                           /\ work'[k].processed \in Nat /\ work'[k].failed \in Nat
                           /\ work'[k].row \in Nat
    BY <1>0, <1>2, <1>4 DEF TypeOK
  <2> QED
    BY <1>0, <1>2, <2>1, <2>2 DEF TypeOK
<1> QED
  BY <1>1, <1>3, <1>5, <1>6 DEF Inv

(* The process dies, or deletes what has expired.                          *)
LEMMA CrashStepInv ==
    ASSUME Inv, Crash \/ ExpireJobs
    PROVE  Inv'
<1> USE DEF J!BulkJobState
<1>0. TypeOK /\ ProcessOK /\ \A k \in Jobs : WorkerOK(k)
  BY DEF Inv
<1>1. TypeOK'
  BY <1>0, CrashTypeOK DEF StartupStep
<1>2. \A k \in Jobs : pc'[k] = "none" /\ work'[k] \in {work[k], NoWork}
  BY <1>0 DEF Crash, ExpireJobs, ProcessOK
<1>3. \A k \in Jobs : WorkerOK(k)'
  BY <1>0, <1>2, WorkerFrame
<1>4. ProcessOK'
  BY <1>2 DEF ProcessOK
<1>5. ASSUME NEW k \in Jobs, job'[k] # J!Removed PROVE OutcomesOK(k)'
  <2>1. job[k] # J!Removed
    BY <1>5, RemovedStays DEF Next, StartupStep
  <2>2. /\ table' = table /\ results' = results
        /\ progress'[k] = progress[k]
    BY <1>0, <1>5 DEF Crash, ExpireJobs, store, TypeOK
  <2> QED
    BY <2>1, <2>2, OutcomesFrame DEF Inv
<1> QED
  BY <1>1, <1>3, <1>4, <1>5 DEF Inv
----------------------------------------------------------------------------
(* Sizes add up over disjoint sets.                                        *)
LEMMA DisjointSizes ==
    ASSUME NEW S, NEW T, IsFiniteSet(S), IsFiniteSet(T), S \cap T = {}
    PROVE  /\ IsFiniteSet(S \cup T)
           /\ Cardinality(S) \in Nat /\ Cardinality(T) \in Nat
           /\ Cardinality(S \cup T) = Cardinality(S) + Cardinality(T)
<1>1. Cardinality(S) \in Nat /\ Cardinality(T) \in Nat
  BY FS_CardinalityType
<1>2. Cardinality(S \cap T) = 0
  BY FS_EmptySet
<1>3. /\ IsFiniteSet(S \cup T)
      /\ Cardinality(S \cup T) = Cardinality(S) + Cardinality(T) - Cardinality(S \cap T)
  BY FS_Union
<1> QED
  BY <1>1, <1>2, <1>3

(* What a committed batch is: the worker is at the checkpoint, the batch   *)
(* is the interval of rows after it, and part of it is accepted.           *)
LEMMA CommittedBatch ==
    ASSUME Inv, NEW j \in Jobs, CommitBatch(j)
    PROVE  \E m \in Nat, acc \in SUBSET Batch(j) :
              /\ acc = Accepted(j, work[j].file, Batch(j), work[j].existing)
              /\ work[j].file \in Files
              /\ progress[j].row \in Nat /\ progress[j].row < m
              /\ m <= Len(work[j].file.rows)
              /\ m = progress[j].row + BatchRecords \/ m = Len(work[j].file.rows)
              /\ m <= progress[j].row + BatchRecords
              /\ Batch(j) = progress[j].row + 1 .. m
              /\ IsFiniteSet(acc) /\ IsFiniteSet(Batch(j) \ acc)
              /\ Cardinality(acc) \in Nat /\ Cardinality(Batch(j) \ acc) \in Nat
              /\ progress' = [progress EXCEPT ![j] =
                    [processed |-> progress[j].processed + Cardinality(acc),
                     failed    |-> progress[j].failed + Cardinality(Batch(j) \ acc),
                     row       |-> m]]
<1> DEFINE B == Batch(j)
           acc == Accepted(j, work[j].file, B, work[j].existing)
           r == progress[j].row
<1>1. /\ pc[j] = "checked" /\ WorkerOK(j)
      /\ progress \in [Jobs -> [processed: Nat, failed: Nat, row: Nat]]
  BY DEF CommitBatch, Inv, TypeOK
<1>2. /\ work[j].file \in Files /\ work[j].row = r /\ work[j].row < Len(work[j].file.rows)
      /\ work[j].processed = progress[j].processed /\ work[j].failed = progress[j].failed
  BY <1>1 DEF WorkerOK
<1>3. r \in Nat /\ progress[j].processed \in Nat /\ progress[j].failed \in Nat
  BY <1>1
<1>4. PICK m \in Nat : /\ r < m /\ m <= Len(work[j].file.rows)
                       /\ m = r + BatchRecords \/ m = Len(work[j].file.rows)
                       /\ m <= r + BatchRecords
                       /\ B = r + 1 .. m
                       /\ IsFiniteSet(B) /\ Cardinality(B) = m - r
  BY <1>2, <1>3, BatchInterval
<1>5. acc \in SUBSET B
  BY DEF Accepted
<1>6. progress' = [progress EXCEPT ![j] =
                     [processed |-> work[j].processed + Cardinality(acc),
                      failed    |-> work[j].failed + Cardinality(B) - Cardinality(acc),
                      row       |-> work[j].row + Cardinality(B)]]
  BY DEF CommitBatch
<1> HIDE DEF acc, B, r
<1>7. IsFiniteSet(acc) /\ IsFiniteSet(B \ acc)
  <2>1. IsFiniteSet(B) /\ B \ acc \in SUBSET B
    BY <1>4
  <2> QED
    BY <1>5, <2>1, FS_Subset
<1>8. /\ Cardinality(acc) \in Nat /\ Cardinality(B \ acc) \in Nat
      /\ Cardinality(B) = Cardinality(acc) + Cardinality(B \ acc)
  <2>1. acc \cup (B \ acc) = B /\ acc \cap (B \ acc) = {}
    BY <1>5
  <2> QED
    BY <1>7, <2>1, DisjointSizes
<1>9. /\ work[j].failed + Cardinality(B) - Cardinality(acc) = progress[j].failed + Cardinality(B \ acc)
      /\ work[j].row + Cardinality(B) = m
      /\ work[j].processed + Cardinality(acc) = progress[j].processed + Cardinality(acc)
  <2>1. Cardinality(B) = m - r /\ work[j].row = r /\ r \in Nat
    BY <1>2, <1>3, <1>4 DEF r
  <2>2. work[j].row + Cardinality(B) = m
    BY <2>1
  <2>3. work[j].failed + Cardinality(B) - Cardinality(acc) = progress[j].failed + Cardinality(B \ acc)
    <3>1. work[j].failed = progress[j].failed /\ progress[j].failed \in Nat
      BY <1>2, <1>3
    <3> QED
      BY <1>8, <3>1
  <2> QED
    BY <1>2, <2>2, <2>3
<1>10. progress' = [progress EXCEPT ![j] =
                     [processed |-> progress[j].processed + Cardinality(acc),
                      failed    |-> progress[j].failed + Cardinality(B \ acc),
                      row       |-> m]]
  BY <1>6, <1>9
<1> QED
  BY <1>2, <1>3, <1>4, <1>5, <1>7, <1>8, <1>10 DEF acc, B, r

(* The batch transaction keeps outcomes, counts and table together.        *)
LEMMA CommitOutcomes ==
    ASSUME Inv, NEW j \in Jobs, CommitBatch(j)
    PROVE  OutcomesOK(j)' /\ progress'[j] \in [processed: Nat, failed: Nat, row: Nat]
<1> DEFINE B == Batch(j)
           r == progress[j].row
           R == results[j]
           ok == {i \in DOMAIN R : R[i] = "success"}
<1>1. PICK m \in Nat, acc \in SUBSET B :
              /\ acc = Accepted(j, work[j].file, B, work[j].existing)
              /\ r \in Nat /\ r < m
              /\ B = r + 1 .. m
              /\ IsFiniteSet(acc) /\ IsFiniteSet(B \ acc)
              /\ Cardinality(acc) \in Nat /\ Cardinality(B \ acc) \in Nat
              /\ progress' = [progress EXCEPT ![j] =
                    [processed |-> progress[j].processed + Cardinality(acc),
                     failed    |-> progress[j].failed + Cardinality(B \ acc),
                     row       |-> m]]
  BY CommittedBatch
<1>2. job[j] # J!Removed
  BY DEF Inv, ProcessOK, CommitBatch, J!BulkJobState, J!Removed
<1>3. /\ DOMAIN R = 1..r
      /\ ok = {s.row : s \in {t \in table : t.job = j}}
      /\ progress[j].processed = Cardinality(ok)
      /\ progress[j].failed = Cardinality(DOMAIN R \ ok)
  BY <1>2 DEF Inv, OutcomesOK
<1>4. /\ DOMAIN results = Jobs /\ DOMAIN progress = Jobs
      /\ \A i \in DOMAIN R : R[i] \in {"success", "failed"}
  BY DEF Inv, TypeOK
<1>5. results'[j] = [i \in DOMAIN R \cup B |->
                        IF i \notin B THEN R[i] ELSE IF i \in acc THEN "success" ELSE "failed"]
  BY <1>1, <1>4 DEF CommitBatch
<1>6. table' = table \cup {[id |-> RecordId(j, work[j].file, i), job |-> j, row |-> i] : i \in acc}
  BY <1>1 DEF CommitBatch, NewRecords
<1>7. progress'[j] = [processed |-> progress[j].processed + Cardinality(acc),
                      failed    |-> progress[j].failed + Cardinality(B \ acc),
                      row       |-> m]
  BY <1>1, <1>4
<1>8. (DOMAIN R) \cap B = {} /\ DOMAIN R \cup B = 1..m
  BY <1>1, <1>3
<1> DEFINE R2 == results'[j]
           ok2 == {i \in DOMAIN R2 : R2[i] = "success"}
<1>9. DOMAIN R2 = 1..m
  BY <1>5, <1>8
<1>10. ok2 = ok \cup acc /\ DOMAIN R2 \ ok2 = (DOMAIN R \ ok) \cup (B \ acc)
  <2>1. \A i \in DOMAIN R : R2[i] = R[i]
    BY <1>5, <1>8
  <2>2. \A i \in B : R2[i] = IF i \in acc THEN "success" ELSE "failed"
    BY <1>5
  <2>3. DOMAIN R2 = DOMAIN R \cup B
    BY <1>5
  <2> HIDE DEF R, R2, B
  <2> QED
    BY <1>8, <2>1, <2>2, <2>3
<1>11. ok2 = {s.row : s \in {t \in table' : t.job = j}}
  <2>1. {s.row : s \in {t \in table' : t.job = j}}
          = {s.row : s \in {t \in table : t.job = j}} \cup acc
    <3> DEFINE new(i) == [id |-> RecordId(j, work[j].file, i), job |-> j, row |-> i]
    <3>1. \A i \in acc : new(i) \in table' /\ new(i).job = j /\ new(i).row = i
      BY <1>6
    <3>2. \A s \in table' : s \in table \/ s.row \in acc
      BY <1>6
    <3>3. table \subseteq table'
      BY <1>6
    <3> HIDE DEF new
    <3>4. \A x : x \in acc => \E s \in table' : s.job = j /\ x = s.row
      BY <3>1
    <3> QED
      BY <3>2, <3>3, <3>4
  <2> QED
    BY <1>3, <1>10, <2>1
<1>12. IsFiniteSet(ok) /\ IsFiniteSet(DOMAIN R \ ok)
  <2>1. IsFiniteSet(1..r)
    <3>1. 1 \in Int /\ r \in Int
      BY <1>1
    <3> HIDE DEF r
    <3> QED
      BY <3>1, FS_Interval
  <2>2. ok \in SUBSET (1..r) /\ DOMAIN R \ ok \in SUBSET (1..r)
    BY <1>3
  <2> QED
    BY <2>1, <2>2, FS_Subset
<1>13. /\ Cardinality(ok2) = Cardinality(ok) + Cardinality(acc)
       /\ Cardinality(DOMAIN R2 \ ok2) = Cardinality(DOMAIN R \ ok) + Cardinality(B \ acc)
       /\ Cardinality(ok) \in Nat /\ Cardinality(DOMAIN R \ ok) \in Nat
  <2>1. ok \cap acc = {} /\ (DOMAIN R \ ok) \cap (B \ acc) = {}
    BY <1>8
  <2>a. IsFiniteSet(acc) /\ IsFiniteSet(B \ acc)
    BY <1>1
  <2> HIDE DEF R, R2, B, ok, ok2
  <2>2. /\ Cardinality(ok \cup acc) = Cardinality(ok) + Cardinality(acc)
        /\ Cardinality(ok) \in Nat
    BY <1>12, <2>1, <2>a, DisjointSizes
  <2>3. /\ Cardinality((DOMAIN R \ ok) \cup (B \ acc)) = Cardinality(DOMAIN R \ ok) + Cardinality(B \ acc)
        /\ Cardinality(DOMAIN R \ ok) \in Nat
    BY <1>12, <2>1, <2>a, DisjointSizes
  <2> QED
    BY <1>10, <2>2, <2>3
<1>14. /\ progress'[j].row = m
       /\ progress'[j].processed = Cardinality(ok2)
       /\ progress'[j].failed = Cardinality(DOMAIN R2 \ ok2)
  <2> HIDE DEF R, R2, B, ok, ok2
  <2> QED
    BY <1>3, <1>7, <1>13
<1>15. OutcomesOK(j)'
  BY <1>9, <1>11, <1>14 DEF OutcomesOK
<1>16. progress'[j] \in [processed: Nat, failed: Nat, row: Nat]
  <2>1. progress[j].processed \in Nat /\ progress[j].failed \in Nat
    BY <1>3, <1>13
  <2> HIDE DEF R, R2, B, ok, ok2
  <2> QED
    BY <1>1, <1>7, <2>1
<1> QED
  BY <1>15, <1>16

(* A worker commits a batch.                                               *)
LEMMA CommitStepInv ==
    ASSUME Inv, NEW j \in Jobs, CommitBatch(j)
    PROVE  Inv'
<1>0. TypeOK /\ ProcessOK /\ \A k \in Jobs : WorkerOK(k)
  BY DEF Inv
<1>1. OutcomesOK(j)' /\ progress'[j] \in [processed: Nat, failed: Nat, row: Nat]
  BY CommitOutcomes
<1>2. /\ pc[j] = "checked"
      /\ pc' = [pc EXCEPT ![j] = "stream"]
      /\ UNCHANGED <<job, expired, file, uploads, phase, sweep, crashes>>
      /\ table' = table \cup NewRecords(j)
  BY DEF CommitBatch
<1>3. /\ progress' = [progress EXCEPT ![j] = progress'[j]]
      /\ results' = [results EXCEPT ![j] = results'[j]]
      /\ work' = [work EXCEPT ![j] = work'[j]]
  <2>1. DOMAIN progress = Jobs /\ DOMAIN results = Jobs /\ DOMAIN work = Jobs
    BY <1>0 DEF TypeOK
  <2>2. ASSUME NEW f, NEW g, NEW e, DOMAIN f = Jobs, g = [f EXCEPT ![j] = e]
        PROVE  g = [f EXCEPT ![j] = g[j]]
    BY <2>2
  <2> QED
    BY <2>1, <2>2 DEF CommitBatch
<1>4. work'[j] = [file      |-> work[j].file,
                  processed |-> progress'[j].processed,
                  failed    |-> progress'[j].failed,
                  row       |-> progress'[j].row,
                  existing  |-> {}]
  <2>1. DOMAIN progress = Jobs /\ DOMAIN work = Jobs
    BY <1>0 DEF TypeOK
  <2> QED
    BY <2>1 DEF CommitBatch
<1>5. work[j].file \in Files
  BY <1>0, <1>2 DEF WorkerOK
<1>6. \A i \in DOMAIN results'[j] : results'[j][i] \in {"success", "failed"}
  <2>1. DOMAIN results = Jobs /\ \A i \in DOMAIN results[j] : results[j][i] \in {"success", "failed"}
    BY <1>0 DEF TypeOK
  <2> DEFINE acc == Accepted(j, work[j].file, Batch(j), work[j].existing)
  <2>2. results'[j] = [i \in DOMAIN results[j] \cup Batch(j) |->
                          IF i \notin Batch(j) THEN results[j][i]
                          ELSE IF i \in acc THEN "success" ELSE "failed"]
    BY <2>1 DEF CommitBatch
  <2> HIDE DEF acc
  <2> QED
    BY <2>1, <2>2
<1>7. \A r \in NewRecords(j) : r.job = j /\ r.row \in Nat
  <2>1. PICK m \in Nat : Batch(j) = progress[j].row + 1 .. m /\ progress[j].row \in Nat
    BY CommittedBatch
  <2>2. \A i \in Batch(j) : i \in Nat
    BY <2>1
  <2> QED
    BY <2>2 DEF NewRecords, Accepted
<1>8. TypeOK'
  <2>1. pc' \in [Jobs -> Running \cup {"none", "queued"}]
    BY <1>0, <1>2 DEF TypeOK, Running, Streaming
  <2>2. progress' \in [Jobs -> [processed: Nat, failed: Nat, row: Nat]]
    <3>1. PICK T, next : T = [processed: Nat, failed: Nat, row: Nat] /\ next = progress'[j]
      OBVIOUS
    <3>2. next \in T /\ progress \in [Jobs -> T] /\ progress' = [progress EXCEPT ![j] = next]
      BY <1>0, <1>1, <1>3, <3>1 DEF TypeOK
    <3>3. progress' \in [Jobs -> T]
      BY <3>2
    <3> QED
      BY <3>1, <3>3
  <2>3. /\ DOMAIN results' = Jobs
        /\ \A k \in Jobs : \A i \in DOMAIN results'[k] : results'[k][i] \in {"success", "failed"}
    BY <1>0, <1>3, <1>6 DEF TypeOK
  <2>4. \A r \in table' : r.job \in Jobs /\ r.row \in Nat
    BY <1>0, <1>2, <1>7 DEF TypeOK
  <2>5. /\ DOMAIN work' = Jobs
        /\ \A k \in Jobs : /\ work'[k].file \in Files \cup {NoFile}
                           /\ work'[k].processed \in Nat /\ work'[k].failed \in Nat
                           /\ work'[k].row \in Nat
    <3>1. /\ work'[j].file \in Files
          /\ work'[j].processed \in Nat /\ work'[j].failed \in Nat /\ work'[j].row \in Nat
      BY <1>1, <1>4, <1>5
    <3> QED
      BY <1>0, <1>3, <3>1 DEF TypeOK
  <2> QED
    BY <1>0, <1>2, <2>1, <2>2, <2>3, <2>4, <2>5 DEF TypeOK
<1>9. ProcessOK'
  BY <1>0, <1>2 DEF ProcessOK, TypeOK
<1>10. WorkerOK(j)'
  <2>1. pc'[j] = "stream"
    BY <1>0, <1>2 DEF TypeOK
  <2> QED
    BY <1>4, <1>5, <2>1 DEF WorkerOK, NoWork
<1>11. ASSUME NEW k \in Jobs, k # j
       PROVE  WorkerOK(k)' /\ (job'[k] # J!Removed => OutcomesOK(k)')
  <2>1. /\ pc'[k] = pc[k] /\ work'[k] = work[k]
        /\ progress'[k] = progress[k] /\ results'[k] = results[k]
        /\ job' = job /\ table \subseteq table'
    BY <1>0, <1>2, <1>3, <1>11 DEF TypeOK
  <2>2. {s \in table' : s.job = k} = {s \in table : s.job = k}
    BY <1>2, <1>7, <1>11
  <2>3. WorkerOK(k)'
    BY <1>0, <2>1, WorkerFrame
  <2>4. ASSUME job'[k] # J!Removed PROVE OutcomesOK(k)'
    <3>1. OutcomesOK(k)
      BY <2>1, <2>4 DEF Inv
    <3> QED
      BY <2>1, <2>2, <3>1, OutcomesFrame
  <2> QED
    BY <2>3, <2>4
<1> QED
  BY <1>1, <1>8, <1>9, <1>10, <1>11 DEF Inv

(* Every step keeps the invariant.                                         *)
LEMMA NextInv == Inv /\ [Next]_vars => Inv'
<1> SUFFICES ASSUME Inv, [Next]_vars PROVE Inv'
  OBVIOUS
<1>1. ASSUME NEW j \in Jobs,
             ClientStep(j) \/ RetentionEnds(j) \/ WorkerStep(j) \/ StreamFails(j)
      PROVE  Inv'
  BY <1>1, ControlStepInv, EndStepInv, ReadStepInv, CommitStepInv DEF WorkerStep
<1>2. CASE Crash \/ StartupStep
  BY <1>2, ControlStepInv, CrashStepInv DEF StartupStep
<1>3. CASE UNCHANGED vars
  <2>1. TypeOK' /\ ProcessOK'
    BY <1>3 DEF vars, store, Inv, TypeOK, ProcessOK
  <2>2. \A k \in Jobs : WorkerOK(k)'
    BY <1>3, WorkerFrame DEF vars, store, Inv
  <2>3. \A k \in Jobs : job'[k] # J!Removed => OutcomesOK(k)'
    BY <1>3, StoreKept DEF vars
  <2> QED
    BY <2>1, <2>2, <2>3 DEF Inv
<1> QED
  BY <1>1, <1>2, <1>3 DEF Next

(* The invariant of the ingest path, for any jobs, files, batch size,      *)
(* number of threads and crashes.                                          *)
THEOREM Invariance == Spec => []Inv
<1> QED
  BY InitInv, NextInv, PTL DEF Spec
----------------------------------------------------------------------------
(* The tables, the uploads and the workers' locals always hold values of   *)
(* their types.                                                            *)
THEOREM TypeCorrect == Spec => []TypeOK
<1>1. Inv => TypeOK
  BY DEF Inv
<1> QED
  BY <1>1, Invariance, PTL

(* _commit_batch: whatever crashes, aborts, failures and other jobs come   *)
(* between its batches, the row results of a job, the counts of its        *)
(* checkpoint and the records in the table tell the same story.            *)
THEOREM OutcomesAgree == Spec => []OutcomesMatchTable
<1>1. Inv => OutcomesMatchTable
  BY DEF Inv, OutcomesOK, OutcomesMatchTable
<1> QED
  BY <1>1, Invariance, PTL

(* Once a client may download the outcomes of a job, no step of any worker *)
(* or restart changes them.                                                *)
THEOREM FrozenOutcomes == Spec => OutcomesFrozen
<1> DEFINE Frozen(j) == job[j] \in {"JobComplete", "Failed"} => results'[j] = results[j]
<1>1. ASSUME Inv, [Next]_vars, NEW j \in Jobs PROVE Frozen(j)
  <2>1. CASE \E k \in Jobs : CommitBatch(k)
    <3>1. PICK k \in Jobs : CommitBatch(k)
      BY <2>1
    <3>2. k = j => job[j] \notin {"JobComplete", "Failed"}
      BY <1>1, <3>1 DEF CommitBatch, Inv, ProcessOK
    <3>3. k # j => results'[j] = results[j]
      BY <1>1, <3>1 DEF CommitBatch, Inv, TypeOK
    <3> QED
      BY <3>2, <3>3
  <2>2. CASE \/ \E k \in Jobs : \/ ClientStep(k) \/ RetentionEnds(k) \/ StreamFails(k)
                                \/ Dispatch(k) \/ Begin(k) \/ Load(k) \/ RejectFile(k)
                                \/ CheckExisting(k) \/ RejectCommit(k) \/ Finish(k)
             \/ Crash \/ StartupStep \/ UNCHANGED vars
    <3>1. results' = results
      BY <2>2 DEF ClientStep, CreateJob, Close, Abort, StartUpload, FinishUpload, UploadFails,
                  RetentionEnds, StreamFails, Fail, Dispatch, Begin, Load, RejectFile,
                  CheckExisting, RejectCommit, Finish, Crash, StartupStep, ExpireJobs,
                  ResumePending, RemoveArtifacts, vars, store
    <3> QED
      BY <3>1
  <2> QED
    BY <1>1, <2>1, <2>2 DEF Next, WorkerStep
<1>2. Inv /\ [Next]_vars => [\A j \in Jobs : Frozen(j)]_vars
  BY <1>1
<1> QED
  BY <1>2, Invariance, PTL DEF Spec, OutcomesFrozen
----------------------------------------------------------------------------
(* Every step moves the job rows along the graph of jobs.py, or not at     *)
(* all.                                                                    *)
LEMMA LifecycleStep == ASSUME Inv, [Next]_vars PROVE [J!Next]_job
<1> USE DEF J!BulkJobState, J!JobStatus
<1>1. job \in [Jobs -> J!JobStatus]
  BY DEF Inv, TypeOK
<1>2. ASSUME NEW j \in Jobs, CreateJob(j) PROVE J!Create(j)
  BY <1>2 DEF CreateJob, J!Create
<1>3. ASSUME NEW j \in Jobs, NEW s \in J!BulkJobState,
             job' = [job EXCEPT ![j] = IF J!CanMove(@, s) THEN s ELSE @]
      PROVE  J!Transition(j) \/ job' = job
  BY <1>1, <1>3 DEF J!Transition
<1>4. ASSUME NEW j \in Jobs, Abort(j) \/ Close(j) PROVE J!Transition(j)
  BY <1>4 DEF Abort, Close, J!Transition
<1>5. ASSUME NEW j \in Jobs, Begin(j) PROVE J!Transition(j) \/ job' = job
  BY <1>5 DEF Begin, J!Transition
<1>6. ASSUME NEW j \in Jobs, Finish(j) PROVE J!Transition(j) \/ job' = job
  BY <1>3, <1>6 DEF Finish
<1>7. ASSUME NEW j \in Jobs, RejectFile(j) \/ RejectCommit(j) \/ StreamFails(j)
      PROVE  J!Transition(j) \/ job' = job
  BY <1>3, <1>7 DEF RejectFile, RejectCommit, StreamFails, Fail
<1>8. CASE ExpireJobs
  <2>1. sweep' \in SUBSET {j \in Jobs : job[j] \in J!BulkJobState}
    BY <1>8 DEF ExpireJobs
  <2>2. job' = [j \in Jobs |-> IF j \in sweep' THEN J!Removed ELSE job[j]]
    BY <1>8 DEF ExpireJobs
  <2>3. J!Expire
    BY <2>1, <2>2 DEF J!Expire
  <2> QED
    BY <2>3 DEF J!Next
<1>9. CASE \/ \E j \in Jobs : \/ RetentionEnds(j) \/ Dispatch(j) \/ Load(j) \/ CheckExisting(j)
                              \/ CommitBatch(j) \/ RemoveArtifacts(j)
                              \/ \E f \in Files : \/ StartUpload(j, f) \/ FinishUpload(j, f)
                                                  \/ UploadFails(j, f)
           \/ Crash \/ ResumePending \/ UNCHANGED vars
  BY <1>9 DEF RetentionEnds, Dispatch, Load, CheckExisting, CommitBatch, RemoveArtifacts,
              StartUpload, FinishUpload, UploadFails, Crash, ResumePending, vars
<1> QED
  BY <1>2, <1>4, <1>5, <1>6, <1>7, <1>8, <1>9
  DEF Next, ClientStep, WorkerStep, StartupStep, J!Next

(* BulkIngest implements BulkJob: uploads, closes, aborts, workers and the *)
(* startup sweep only ever move a job row along _ALLOWED_TRANSITIONS.      *)
THEOREM LifecycleRefined == Spec => JobLifecycle
<1>1. Init => J!Init
  BY DEF Init, J!Init
<1>2. Inv /\ [Next]_vars => [J!Next]_job
  BY LifecycleStep
<1> QED
  BY <1>1, <1>2, Invariance, PTL DEF Spec, JobLifecycle, J!Spec
----------------------------------------------------------------------------
(* The hypothesis under which a resumed job ends where its CSV ends: the   *)
(* client replaces an upload only by one of as many rows.  Without it an   *)
(* upload that was in flight when the job was closed may publish a shorter *)
(* CSV between a crash and the resumption, and the job completes with more *)
(* rows accounted for than the CSV has.                                    *)
SameLength == \A f, g \in Files : Len(f.rows) = Len(g.rows)

(* The checkpoint never runs past the CSV, and that of a completed job is  *)
(* at its end.                                                             *)
LengthOK(j) ==
    /\ \A f \in Files : progress[j].row <= Len(f.rows)
    /\ job[j] = "JobComplete" => \E f \in Files : progress[j].row = Len(f.rows)

(* LengthOK is inductive, with Inv.                                        *)
LEMMA LengthStep ==
    ASSUME SameLength, Inv, [Next]_vars, \A j \in Jobs : LengthOK(j)
    PROVE  \A j \in Jobs : LengthOK(j)'
<1> USE DEF J!BulkJobState
<1>0. /\ job \in [Jobs -> J!JobStatus]
      /\ progress \in [Jobs -> [processed: Nat, failed: Nat, row: Nat]]
  BY DEF Inv, TypeOK
<1> SUFFICES ASSUME NEW j \in Jobs PROVE LengthOK(j)'
  OBVIOUS
<1>1. ASSUME progress'[j] = progress[j], job'[j] = "JobComplete" => job[j] = "JobComplete"
      PROVE  LengthOK(j)'
  BY <1>1 DEF LengthOK
<1>2. ASSUME NEW k \in Jobs, CommitBatch(k) PROVE LengthOK(j)'
  <2>1. CASE k = j
    <3>1. PICK m \in Nat, acc \in SUBSET Batch(j) :
                /\ m <= Len(work[j].file.rows)
                /\ work[j].file \in Files
                /\ progress' = [progress EXCEPT ![j] =
                      [processed |-> progress[j].processed + Cardinality(acc),
                       failed    |-> progress[j].failed + Cardinality(Batch(j) \ acc),
                       row       |-> m]]
      BY <1>2, <2>1, CommittedBatch
    <3>4. progress'[j].row = m
      BY <1>0, <3>1
    <3>2. \A f \in Files : Len(f.rows) = Len(work[j].file.rows)
      BY <3>1 DEF SameLength
    <3>3. job'[j] # "JobComplete"
      BY <1>2, <2>1 DEF CommitBatch, Inv, ProcessOK
    <3> QED
      BY <3>1, <3>2, <3>3, <3>4 DEF LengthOK
  <2>2. CASE k # j
    BY <1>0, <1>1, <1>2, <2>2 DEF CommitBatch
  <2> QED
    BY <2>1, <2>2
<1>3. ASSUME NEW k \in Jobs, Finish(k) PROVE LengthOK(j)'
  <2>1. CASE k = j
    <3>1. /\ work[j].file \in Files /\ work[j].row = progress[j].row
          /\ work[j].row >= Len(work[j].file.rows)
      BY <1>3, <2>1 DEF Finish, Inv, WorkerOK
    <3>2. progress[j].row <= Len(work[j].file.rows)
      BY <3>1 DEF LengthOK
    <3>3. progress[j].row \in Nat /\ Len(work[j].file.rows) \in Nat
      BY <1>0, <3>1, FilesAreSequences
    <3>4. progress[j].row = Len(work[j].file.rows)
      BY <3>1, <3>2, <3>3
    <3>5. progress' = progress
      BY <1>3 DEF Finish, store
    <3> QED
      BY <3>1, <3>4, <3>5 DEF LengthOK
  <2>2. CASE k # j
    BY <1>0, <1>1, <1>3, <2>2 DEF Finish, store
  <2> QED
    BY <2>1, <2>2
<1>4. ASSUME NEW k \in Jobs, RejectFile(k) \/ RejectCommit(k) \/ StreamFails(k) \/ Begin(k)
      PROVE  LengthOK(j)'
  BY <1>0, <1>1, <1>4 DEF RejectFile, RejectCommit, StreamFails, Fail, Begin, store
<1>5. ASSUME NEW k \in Jobs, ClientStep(k) PROVE LengthOK(j)'
  BY <1>0, <1>1, <1>5 DEF ClientStep, CreateJob, Close, Abort, StartUpload, FinishUpload,
                          UploadFails, store
<1>6. CASE ExpireJobs
  <2>1. \/ progress'[j] = progress[j] /\ job'[j] = job[j]
        \/ progress'[j] = NoProgress /\ job'[j] = J!Removed
    BY <1>6 DEF ExpireJobs
  <2>2. ASSUME NEW f \in Files PROVE Len(f.rows) \in Nat
    BY FilesAreSequences
  <2> QED
    BY <1>1, <2>1, <2>2 DEF LengthOK, NoProgress, J!Removed
<1>7. CASE \/ \E k \in Jobs : \/ RetentionEnds(k) \/ Dispatch(k) \/ Load(k) \/ CheckExisting(k)
                              \/ RemoveArtifacts(k)
           \/ Crash \/ ResumePending \/ UNCHANGED vars
  BY <1>1, <1>7 DEF RetentionEnds, Dispatch, Load, CheckExisting, RemoveArtifacts, Crash,
                    ResumePending, vars, store
<1> QED
  BY <1>2, <1>3, <1>4, <1>5, <1>6, <1>7 DEF Next, WorkerStep, StartupStep

(* A completed job has accounted for every row of its CSV, however often   *)
(* it was resumed from its checkpoint.                                     *)
THEOREM CompleteWhole == SameLength => (Spec => []CompleteIsWhole)
<1> SUFFICES ASSUME SameLength PROVE Spec => []CompleteIsWhole
  OBVIOUS
<1> DEFINE Lengths == \A j \in Jobs : LengthOK(j)
<1>1. Init => Lengths
  <2> SUFFICES ASSUME Init, NEW j \in Jobs PROVE LengthOK(j)
    OBVIOUS
  <2>1. progress[j].row = 0 /\ job[j] # "JobComplete"
    BY DEF Init, NoProgress, J!NoJob
  <2>2. ASSUME NEW f \in Files PROVE Len(f.rows) \in Nat
    BY FilesAreSequences
  <2> QED
    BY <2>1, <2>2 DEF LengthOK
<1>2. Inv /\ Lengths /\ [Next]_vars => Lengths'
  BY LengthStep
<1>3. Inv /\ Lengths => CompleteIsWhole
  <2> SUFFICES ASSUME Inv, Lengths, NEW j \in Jobs, job[j] = "JobComplete"
               PROVE  \E f \in Files : progress[j].processed + progress[j].failed = Len(f.rows)
    BY DEF CompleteIsWhole
  <2>1. OutcomesOK(j) /\ progress[j] \in [processed: Nat, failed: Nat, row: Nat]
    BY DEF Inv, TypeOK, J!Removed
  <2>2. progress[j].processed + progress[j].failed = progress[j].row
    <3> DEFINE D == DOMAIN results[j]
               ok == {i \in D : results[j][i] = "success"}
    <3>1. /\ D = 1..progress[j].row
          /\ progress[j].processed = Cardinality(ok) /\ progress[j].failed = Cardinality(D \ ok)
      BY <2>1 DEF OutcomesOK
    <3>2. progress[j].row \in Nat
      BY <2>1
    <3>3. IsFiniteSet(D) /\ Cardinality(D) = progress[j].row
      <4>1. /\ IsFiniteSet(1..progress[j].row)
            /\ Cardinality(1..progress[j].row)
                 = IF 1 > progress[j].row THEN 0 ELSE progress[j].row - 1 + 1
        BY <3>2, FS_Interval
      <4> QED
        BY <3>1, <3>2, <4>1
    <3>4. /\ ok \in SUBSET D /\ D \ ok \in SUBSET D
          /\ ok \cup (D \ ok) = D /\ ok \cap (D \ ok) = {}
      OBVIOUS
    <3> HIDE DEF ok, D
    <3>5. IsFiniteSet(ok) /\ IsFiniteSet(D \ ok)
      BY <3>3, <3>4, FS_Subset
    <3>6. Cardinality(D) = Cardinality(ok) + Cardinality(D \ ok)
      BY <3>4, <3>5, DisjointSizes
    <3> QED
      BY <3>1, <3>3, <3>6
  <2> QED
    BY <2>2 DEF LengthOK
<1> QED
  BY <1>1, <1>2, <1>3, Invariance, PTL DEF Spec
----------------------------------------------------------------------------
(* Rows are applied in batches of BatchRecords from the first one on, and  *)
(* i is in the batch after row q * BatchRecords.                           *)
LEMMA BatchNumber ==
    ASSUME NEW q \in Nat, NEW i \in Int,
           q * BatchRecords < i, i <= q * BatchRecords + BatchRecords
    PROVE  (i - 1) \div BatchRecords = q
<1>1. ASSUME NEW B \in Nat \ {0}, NEW p \in Nat, NEW n \in Int, p * B < n, n <= p * B + B
      PROVE  (n - 1) \div B = p
  BY <1>1, Z3
<1> QED
  BY <1>1

(* The hypothesis of OutcomesJustified, which compares a row with its CSV: *)
(* there is one.                                                           *)
OneCsv == \A f, g \in Files : f = g

(* A checkpoint lies on a batch boundary or at the end of the CSV, so a    *)
(* resumed worker cuts the CSV into the same batches.                      *)
Aligned(j) ==
    \/ \E q \in Nat : progress[j].row = q * BatchRecords
    \/ \A f \in Files : progress[j].row = Len(f.rows)

(* OutcomesJustified, for one row.                                         *)
Justified(j, f, i) ==
    LET well == Valid(f, i) /\ UniqueIn(j, f, BatchOf(f, i), i)
    IN  IF results[j][i] = "success" THEN well
        ELSE well => \/ RecordId(j, f, i) \in Seed
                     \/ \E r \in table : /\ r.id = RecordId(j, f, i)
                                         /\ r.job = j => r.row \notin BatchOf(f, i)

JustifiedOK(j) ==
    /\ Aligned(j)
    /\ \A f \in Files : \A i \in DOMAIN results[j] : Justified(j, f, i)

(* A row that was justified stays so when records are added.               *)
LEMMA JustifiedFrame ==
    ASSUME NEW j, NEW f, NEW i, Justified(j, f, i),
           results'[j][i] = results[j][i], table \subseteq table'
    PROVE  Justified(j, f, i)'
BY DEF Justified, Valid, UniqueIn, RecordId, BatchOf

(* The batch the worker commits is the batch of each of its rows.          *)
LEMMA BatchIsBatchOf ==
    ASSUME NEW q \in Nat, NEW r \in Nat, NEW m \in Nat, NEW f \in Files,
           r = q * BatchRecords, r < m, m <= Len(f.rows), m <= r + BatchRecords,
           m = r + BatchRecords \/ m = Len(f.rows),
           NEW i \in r + 1 .. m
    PROVE  BatchOf(f, i) = r + 1 .. m
<1>1. Len(f.rows) \in Nat /\ BatchRecords \in Nat
  BY FilesAreSequences
<1>2. i \in Int /\ r < i /\ i <= r + BatchRecords /\ r + BatchRecords \in Int
  BY <1>1
<1>3. (i - 1) \div BatchRecords = q
  BY <1>2, BatchNumber
<1>4. BatchOf(f, i) = {k \in r + 1 .. r + 1 + BatchRecords - 1 : k <= Len(f.rows)}
  BY <1>3 DEF BatchOf
<1> DEFINE n == Len(f.rows)
<1>5. n \in Nat /\ m <= n /\ (m = r + BatchRecords \/ m = n)
  BY <1>1
<1> HIDE DEF n
<1>6. {k \in r + 1 .. r + 1 + BatchRecords - 1 : k <= n} = r + 1 .. m
  BY <1>1, <1>5
<1> QED
  BY <1>4, <1>6 DEF n

(* The batch transaction gives every row of the batch a justified outcome. *)
LEMMA CommitJustified ==
    ASSUME OneCsv, Inv, NEW j \in Jobs, CommitBatch(j), JustifiedOK(j)
    PROVE  JustifiedOK(j)'
<1> DEFINE B == Batch(j)
           r == progress[j].row
<1>0. PICK f \in Files : f = work[j].file
  BY CommittedBatch
<1>1. PICK m \in Nat, acc \in SUBSET B :
              /\ acc = Accepted(j, f, B, work[j].existing)
              /\ r \in Nat /\ r < m
              /\ m <= Len(f.rows)
              /\ m = r + BatchRecords \/ m = Len(f.rows)
              /\ m <= r + BatchRecords
              /\ B = r + 1 .. m
              /\ progress' = [progress EXCEPT ![j] =
                    [processed |-> progress[j].processed + Cardinality(acc),
                     failed    |-> progress[j].failed + Cardinality(B \ acc),
                     row       |-> m]]
  BY <1>0, CommittedBatch
<1>2. f \in Files /\ Len(f.rows) \in Nat /\ BatchRecords \in Nat
  BY <1>1, FilesAreSequences
<1>3. \A g \in Files : g = f
  BY <1>2 DEF OneCsv
<1>4. PICK q \in Nat : r = q * BatchRecords
  <2>1. r # Len(f.rows)
    BY <1>1, <1>2
  <2> QED
    BY <1>2, <2>1 DEF JustifiedOK, Aligned
<1>5. progress'[j].row = m
  <2>1. DOMAIN progress = Jobs
    BY DEF Inv, TypeOK
  <2> QED
    BY <1>1, <2>1
<1>6. Aligned(j)'
  <2>1. CASE m = Len(f.rows)
    BY <1>3, <1>5, <2>1 DEF Aligned
  <2>2. CASE m = r + BatchRecords
    <3>1. q + 1 \in Nat /\ m = (q + 1) * BatchRecords
      <4>1. ASSUME NEW b \in Nat, NEW p \in Nat PROVE (p + 1) * b = p * b + b
        OBVIOUS
      <4> QED
        BY <1>2, <1>4, <2>2, <4>1
    <3> QED
      BY <1>5, <3>1 DEF Aligned
  <2> QED
    BY <1>1, <2>1, <2>2
<1>7. /\ DOMAIN results[j] = 1..r
      /\ {i \in DOMAIN results[j] : results[j][i] = "success"}
            = {s.row : s \in {t \in table : t.job = j}}
  <2>1. job[j] # J!Removed
    BY DEF Inv, ProcessOK, CommitBatch, J!BulkJobState, J!Removed
  <2> QED
    BY <2>1 DEF Inv, OutcomesOK
<1>8. results'[j] = [i \in DOMAIN results[j] \cup B |->
                        IF i \notin B THEN results[j][i]
                        ELSE IF i \in acc THEN "success" ELSE "failed"]
  <2>1. DOMAIN results = Jobs
    BY DEF Inv, TypeOK
  <2> QED
    BY <1>0, <1>1, <2>1 DEF CommitBatch
<1>9. table \subseteq table'
  BY DEF CommitBatch
<1>10. ASSUME NEW i \in DOMAIN results[j] PROVE Justified(j, f, i)'
  <2>1. i \notin B
    BY <1>1, <1>7
  <2>2. results'[j][i] = results[j][i]
    BY <1>8, <2>1
  <2>3. Justified(j, f, i)
    BY <1>2 DEF JustifiedOK
  <2> QED
    BY <1>9, <2>2, <2>3, JustifiedFrame
<1>11. ASSUME NEW i \in B PROVE Justified(j, f, i)'
  <2>1. BatchOf(f, i) = B
    <3>1. i \in r + 1 .. m
      BY <1>1
    <3>2. BatchOf(f, i) = r + 1 .. m
      <4>1. /\ r \in Nat /\ r = q * BatchRecords /\ r < m
            /\ m <= Len(f.rows) /\ m <= r + BatchRecords
            /\ m = r + BatchRecords \/ m = Len(f.rows)
        BY <1>1, <1>4
      <4> HIDE DEF r
      <4>2. PICK b \in Nat : b = r
        BY <4>1
      <4>3. b = q * BatchRecords /\ b < m
        BY <4>1, <4>2
      <4>4. m <= Len(f.rows) /\ m <= b + BatchRecords /\ (m = b + BatchRecords \/ m = Len(f.rows))
        BY <4>1, <4>2
      <4>5. i \in b + 1 .. m
        BY <3>1, <4>2
      <4>6. BatchOf(f, i) = b + 1 .. m
        BY <4>2, <4>3, <4>4, <4>5, BatchIsBatchOf
      <4> QED
        BY <4>2, <4>6
    <3> QED
      BY <1>1, <3>2
  <2>2. results'[j][i] = IF i \in acc THEN "success" ELSE "failed"
    BY <1>8
  <2>3. CASE i \in acc
    <3>1. Valid(f, i) /\ UniqueIn(j, f, B, i)
      BY <1>1, <2>3 DEF Accepted
    <3> QED
      BY <2>1, <2>2, <2>3, <3>1 DEF Justified
  <2>4. ASSUME i \notin acc, Valid(f, i), UniqueIn(j, f, B, i)
        PROVE  \/ RecordId(j, f, i) \in Seed
               \/ \E s \in table' : s.id = RecordId(j, f, i) /\ (s.job = j => s.row \notin B)
    <3>2. RecordId(j, f, i) \in work[j].existing
      BY <1>1, <2>4 DEF Accepted
    <3>3. work[j].existing \subseteq TableIds
      BY DEF CommitBatch, Inv, WorkerOK
    <3>4. RecordId(j, f, i) \in Seed \/ \E s \in table : s.id = RecordId(j, f, i)
      BY <3>2, <3>3 DEF TableIds
    <3>5. ASSUME NEW s \in table, s.job = j PROVE s.row \notin B
      <4>1. s.row \in {t.row : t \in {u \in table : u.job = j}}
        BY <3>5
      <4>2. s.row \in 1..r
        BY <1>7, <4>1
      <4> QED
        BY <1>1, <4>2
    <3> QED
      BY <1>9, <3>4, <3>5
  <2>5. CASE i \notin acc
    <3>1. results'[j][i] # "success"
      BY <2>2, <2>5
    <3> HIDE DEF B
    <3> QED
      BY <2>1, <2>4, <2>5, <3>1 DEF Justified
  <2> QED
    BY <2>3, <2>5
<1>12. DOMAIN results'[j] = DOMAIN results[j] \cup B
  BY <1>8
<1>13. ASSUME NEW g \in Files, NEW i \in DOMAIN results'[j] PROVE Justified(j, g, i)'
  <2>1. g = f
    BY <1>3
  <2>2. Justified(j, f, i)'
    BY <1>10, <1>11, <1>12
  <2> QED
    BY <2>1, <2>2
<1> QED
  BY <1>6, <1>13 DEF JustifiedOK

(* JustifiedOK is inductive, with Inv.                                     *)
LEMMA JustifiedStep ==
    ASSUME OneCsv, Inv, [Next]_vars, \A j \in Jobs : JustifiedOK(j)
    PROVE  \A j \in Jobs : JustifiedOK(j)'
<1> SUFFICES ASSUME NEW j \in Jobs PROVE JustifiedOK(j)'
  OBVIOUS
<1>1. ASSUME results'[j] = results[j], table \subseteq table',
             \/ progress'[j] = progress[j]
             \/ progress'[j] = NoProgress
      PROVE  JustifiedOK(j)'
  <2>1. Aligned(j)'
    <3>1. CASE progress'[j] = progress[j]
      BY <3>1 DEF JustifiedOK, Aligned
    <3>2. CASE progress'[j] = NoProgress
      <4>1. progress'[j].row = 0
        BY <3>2 DEF NoProgress
      <4>2. 0 \in Nat /\ 0 * BatchRecords = 0
        OBVIOUS
      <4> QED
        BY <4>1, <4>2 DEF Aligned
    <3> QED
      BY <1>1, <3>1, <3>2
  <2>2. ASSUME NEW f \in Files, NEW i \in DOMAIN results'[j] PROVE Justified(j, f, i)'
    <3>1. Justified(j, f, i)
      BY <1>1 DEF JustifiedOK
    <3> QED
      BY <1>1, <3>1, JustifiedFrame
  <2> QED
    BY <2>1, <2>2 DEF JustifiedOK
<1>2. ASSUME NEW k \in Jobs, CommitBatch(k) PROVE JustifiedOK(j)'
  <2>1. CASE k = j
    BY <1>2, <2>1, CommitJustified
  <2>2. CASE k # j
    BY <1>1, <1>2, <2>2 DEF CommitBatch, Inv, TypeOK
  <2> QED
    BY <2>1, <2>2
<1>3. CASE ExpireJobs
  BY <1>1, <1>3 DEF ExpireJobs
<1>4. CASE \/ \E k \in Jobs : \/ ClientStep(k) \/ RetentionEnds(k) \/ StreamFails(k)
                              \/ Dispatch(k) \/ Begin(k) \/ Load(k) \/ RejectFile(k)
                              \/ CheckExisting(k) \/ RejectCommit(k) \/ Finish(k)
                              \/ RemoveArtifacts(k)
           \/ Crash \/ ResumePending \/ UNCHANGED vars
  <2>1. UNCHANGED store
    BY <1>4 DEF ClientStep, CreateJob, Close, Abort, StartUpload, FinishUpload, UploadFails,
                RetentionEnds, StreamFails, Fail, Dispatch, Begin, Load, RejectFile,
                CheckExisting, RejectCommit, Finish, Crash, ResumePending, RemoveArtifacts, vars
  <2> QED
    BY <1>1, <2>1 DEF store
<1> QED
  BY <1>2, <1>3, <1>4 DEF Next, WorkerStep, StartupStep

(* The outcome of a row is one that a run without crashes could give: a    *)
(* resumed job never reports as a duplicate what it inserted itself before *)
(* the crash.                                                              *)
THEOREM JustifiedOutcomes == OneCsv => (Spec => []OutcomesJustified)
<1> SUFFICES ASSUME OneCsv PROVE Spec => []OutcomesJustified
  OBVIOUS
<1> DEFINE AllJustified == \A j \in Jobs : JustifiedOK(j)
<1>1. Init => AllJustified
  <2> SUFFICES ASSUME Init, NEW j \in Jobs PROVE JustifiedOK(j)
    OBVIOUS
  <2>1. progress[j].row = 0 /\ DOMAIN results[j] = {}
    BY DEF Init, NoProgress
  <2>2. 0 \in Nat /\ 0 * BatchRecords = 0
    OBVIOUS
  <2> QED
    BY <2>1, <2>2 DEF JustifiedOK, Aligned
<1>2. Inv /\ AllJustified /\ [Next]_vars => AllJustified'
  BY JustifiedStep
<1>3. AllJustified => OutcomesJustified
  BY DEF JustifiedOK, Justified, OutcomesJustified
<1> QED
  BY <1>1, <1>2, <1>3, Invariance, PTL DEF Spec
----------------------------------------------------------------------------
(* The executor's queue and the job table are two records of the same      *)
(* work: where a task is, and what that says of the job's row.             *)

Unfinished == {"UploadComplete", "InProgress"}

(* While the process is up, a job that is not finished has a task.         *)
NoJobForgotten ==
    phase = "up" => \A j \in Jobs : job[j] \in Unfinished /\ ~expired[j] => pc[j] # "none"

(* A task that is to begin its job finds it not begun by anyone else, and  *)
(* one that streams finds it begun.                                        *)
TaskOK ==
    \A j \in Jobs : /\ pc[j] = "begin" => job[j] # "InProgress"
                    /\ pc[j] \in Streaming => job[j] # "UploadComplete"

(* One job's step: the others keep row, task and retention.                *)
LEMMA TaskFrame ==
    ASSUME NoJobForgotten, TaskOK, UNCHANGED phase, NEW j \in Jobs,
           \A k \in Jobs : k # j => /\ job'[k] = job[k] /\ pc'[k] = pc[k]
                                    /\ expired'[k] = expired[k],
           phase = "up" /\ job'[j] \in Unfinished /\ ~expired'[j] => pc'[j] # "none",
           pc'[j] = "begin" => job'[j] # "InProgress",
           pc'[j] \in Streaming => job'[j] # "UploadComplete"
    PROVE  NoJobForgotten' /\ TaskOK'
<1>1. NoJobForgotten'
  BY DEF NoJobForgotten
<1>2. TaskOK'
  BY DEF TaskOK
<1> QED
  BY <1>1, <1>2

LEMMA TaskStep ==
    ASSUME Inv, NoJobForgotten, TaskOK, [Next]_vars
    PROVE  NoJobForgotten' /\ TaskOK'
<1>1. /\ job \in [Jobs -> J!JobStatus] /\ DOMAIN pc = Jobs /\ DOMAIN expired = Jobs
  BY DEF Inv, TypeOK
<1>2. ASSUME NEW j \in Jobs, Close(j) PROVE NoJobForgotten' /\ TaskOK'
  <2>1. /\ UNCHANGED <<phase, expired>> /\ job' = [job EXCEPT ![j] = "UploadComplete"]
        /\ pc' = [pc EXCEPT ![j] = "queued"]
    BY <1>2 DEF Close
  <2> QED
    BY <1>1, <2>1, TaskFrame DEF Streaming
<1>3. ASSUME NEW j \in Jobs, CreateJob(j) \/ Abort(j) PROVE NoJobForgotten' /\ TaskOK'
  <2>1. PICK s \in {"Open", "Aborted"} : UNCHANGED <<phase, expired, pc>> /\ job' = [job EXCEPT ![j] = s]
    BY <1>3 DEF CreateJob, Abort
  <2> QED
    BY <1>1, <2>1, TaskFrame DEF Unfinished
<1>4. ASSUME NEW j \in Jobs, RetentionEnds(j) PROVE NoJobForgotten' /\ TaskOK'
  <2>1. UNCHANGED <<phase, job, pc>> /\ expired' = [expired EXCEPT ![j] = TRUE]
    BY <1>4 DEF RetentionEnds
  <2>2. expired'[j] /\ \A k \in Jobs : k # j => expired'[k] = expired[k]
    BY <1>1, <2>1
  <2>3. NoJobForgotten'
    BY <2>1, <2>2 DEF NoJobForgotten
  <2>4. TaskOK'
    BY <2>1 DEF TaskOK
  <2> QED
    BY <2>3, <2>4
<1>5. ASSUME NEW j \in Jobs, Dispatch(j) PROVE NoJobForgotten' /\ TaskOK'
  <2>1. /\ UNCHANGED <<phase, job, expired>>
        /\ pc' = [pc EXCEPT ![j] =
                CASE Visible(j) /\ job[j] = "UploadComplete" -> "begin"
                  [] Visible(j) /\ job[j] = "InProgress"     -> "load"
                  [] OTHER                                   -> "none"]
    BY <1>5 DEF Dispatch
  <2>2. job[j] \in Unfinished /\ ~expired[j] => Visible(j)
    BY DEF Visible, Unfinished, J!BulkJobState
  <2>3. \/ Visible(j) /\ job[j] = "UploadComplete" /\ pc'[j] = "begin"
        \/ Visible(j) /\ job[j] = "InProgress" /\ pc'[j] = "load"
        \/ ~(Visible(j) /\ job[j] \in Unfinished) /\ pc'[j] = "none"
    BY <1>1, <2>1 DEF Unfinished
  <2> QED
    BY <1>1, <2>1, <2>2, <2>3, TaskFrame DEF Streaming
<1>6. ASSUME NEW j \in Jobs, Begin(j) PROVE NoJobForgotten' /\ TaskOK'
  <2>1. pc[j] = "begin" /\ UNCHANGED <<phase, expired>>
    BY <1>6 DEF Begin
  <2>2. CASE J!CanMove(job[j], "InProgress")
    <3>1. /\ job' = [job EXCEPT ![j] = "InProgress"]
          /\ pc' = [pc EXCEPT ![j] = IF expired[j] THEN "none" ELSE "load"]
      BY <1>6, <2>2 DEF Begin
    <3>2. job'[j] = "InProgress" /\ (pc'[j] = "load" \/ (pc'[j] = "none" /\ expired[j]))
      BY <1>1, <3>1
    <3> QED
      BY <1>1, <2>1, <3>1, <3>2, TaskFrame
  <2>3. CASE ~J!CanMove(job[j], "InProgress")
    <3>1. UNCHANGED job /\ pc' = [pc EXCEPT ![j] = "none"]
      BY <1>6, <2>3 DEF Begin
    <3>2. J!CanMove("UploadComplete", "InProgress")
      BY DEF J!CanMove, J!AllowedTransitions, J!BulkJobState
    <3>3. job[j] \notin Unfinished
      BY <2>1, <2>3, <3>2 DEF TaskOK, Unfinished
    <3> QED
      BY <1>1, <2>1, <3>1, <3>3, TaskFrame DEF Streaming
  <2> QED
    BY <2>2, <2>3
<1>7. ASSUME NEW j \in Jobs, Load(j) \/ CheckExisting(j) \/ CommitBatch(j)
      PROVE  NoJobForgotten' /\ TaskOK'
  <2>1. PICK p \in Streaming : /\ UNCHANGED <<phase, job, expired>> /\ pc[j] \in Streaming
                               /\ pc' = [pc EXCEPT ![j] = p]
    BY <1>7 DEF Load, CheckExisting, CommitBatch, Streaming
  <2>2. p \notin {"none", "begin"} /\ job[j] # "UploadComplete"
    BY <2>1 DEF Streaming, TaskOK
  <2> QED
    BY <1>1, <2>1, <2>2, TaskFrame
<1>8. ASSUME NEW j \in Jobs, NEW s \in {"JobComplete", "Failed"}, pc[j] \in Streaming,
             UNCHANGED <<phase, expired>>, pc' = [pc EXCEPT ![j] = "none"],
             job' = [job EXCEPT ![j] = IF J!CanMove(@, s) THEN s ELSE @]
      PROVE  NoJobForgotten' /\ TaskOK'
  <2>1. J!CanMove("InProgress", s)
    BY <1>8 DEF J!CanMove, J!AllowedTransitions, J!BulkJobState
  <2>2. job[j] # "UploadComplete"
    BY <1>8 DEF TaskOK
  <2>3. job'[j] \notin Unfinished
    BY <1>1, <1>8, <2>1, <2>2 DEF Unfinished
  <2> QED
    BY <1>1, <1>8, <2>3, TaskFrame DEF Streaming
<1>9. ASSUME NEW j \in Jobs, Finish(j) \/ RejectFile(j) \/ RejectCommit(j) \/ StreamFails(j)
      PROVE  NoJobForgotten' /\ TaskOK'
  <2>1. PICK s \in {"JobComplete", "Failed"} :
            /\ pc[j] \in Streaming /\ UNCHANGED <<phase, expired>> /\ pc' = [pc EXCEPT ![j] = "none"]
            /\ job' = [job EXCEPT ![j] = IF J!CanMove(@, s) THEN s ELSE @]
    BY <1>9 DEF Finish, RejectFile, RejectCommit, StreamFails, Fail, EndTask, Streaming
  <2> QED
    BY <1>8, <2>1
<1>10. CASE Crash \/ ExpireJobs
  <2>1. phase' # "up" /\ \A j \in Jobs : pc'[j] = "none"
    BY <1>10 DEF Crash, ExpireJobs, Inv, ProcessOK
  <2> QED
    BY <2>1 DEF NoJobForgotten, TaskOK, Streaming
<1>11. CASE ResumePending
  <2>1. /\ UNCHANGED <<job, expired>>
        /\ pc' = [j \in Jobs |-> IF job[j] \in Runnable /\ ~expired[j] THEN "queued" ELSE "none"]
    BY <1>11 DEF ResumePending
  <2>2. \A j \in Jobs : /\ job[j] \in Unfinished /\ ~expired[j] => pc'[j] = "queued"
                        /\ pc'[j] \in {"queued", "none"}
    BY <2>1 DEF Runnable, Unfinished
  <2>3. NoJobForgotten'
    BY <2>1, <2>2 DEF NoJobForgotten
  <2>4. TaskOK'
    BY <2>2 DEF TaskOK, Streaming
  <2> QED
    BY <2>3, <2>4
<1>12. CASE \/ \E j \in Jobs : \/ RemoveArtifacts(j)
                              \/ \E f \in Files : StartUpload(j, f) \/ FinishUpload(j, f) \/ UploadFails(j, f)
            \/ UNCHANGED vars
  <2>1. UNCHANGED <<phase, job, expired, pc>>
    BY <1>12 DEF RemoveArtifacts, StartUpload, FinishUpload, UploadFails, vars
  <2> QED
    BY <2>1 DEF NoJobForgotten, TaskOK
<1> QED
  BY <1>2, <1>3, <1>4, <1>5, <1>6, <1>7, <1>9, <1>10, <1>11, <1>12 DEF Next, ClientStep, WorkerStep, StartupStep

(* No closed ingest job is forgotten: while the process is up, every one   *)
(* that is neither finished nor expired is queued or with a thread, at     *)
(* whatever step the last crash came.  With the executor's fairness this   *)
(* is what EveryJobSettles rests on: a row that no task works on would     *)
(* stay UploadComplete or InProgress until the next restart.               *)
THEOREM EveryJobHasTask == Spec => []NoJobForgotten
<1>1. Init => NoJobForgotten /\ TaskOK
  BY DEF Init, NoJobForgotten, TaskOK, Unfinished, Streaming, J!NoJob
<1>2. Inv /\ NoJobForgotten /\ TaskOK /\ [Next]_vars => NoJobForgotten' /\ TaskOK'
  BY TaskStep
<1> QED
  BY <1>1, <1>2, Invariance, PTL DEF Spec
=============================================================================
