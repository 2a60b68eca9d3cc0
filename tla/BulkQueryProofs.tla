-------------------------- MODULE BulkQueryProofs --------------------------
(***************************************************************************)
(* Proofs about BulkQuery, for any number of jobs, rows, threads and       *)
(* crashes.  The inductive invariant Inv ties the worker's locals at each  *)
(* step to what the manifest and the directory hold.                       *)
(***************************************************************************)
EXTENDS BulkQuery, FiniteSetTheorems, TLAPS

USE DatasetsAssumption, QueryAssumption, SettingsAssumption

(* A scan is a finite sequence of rows.                                    *)
LEMMA ScansAreSequences == \A s \in Scans : s \in Seq(Rows) /\ Len(s) \in Nat
<1> SUFFICES ASSUME NEW d \in Datasets, NEW s \in ScanOrders(d)
             PROVE  s \in Seq(Rows) /\ Len(s) \in Nat
  BY DEF Scans
<1>1. Cardinality(d) \in Nat
  BY FS_CardinalityType
<1>2. d \subseteq Rows
  BY DEF Rows
<1>3. s \in [1..Cardinality(d) -> Rows]
  BY <1>2 DEF ScanOrders
<1>4. s \in Seq(Rows)
  BY <1>1, <1>3
<1> QED
  BY <1>4

(* The size of the part written next: at least one record, and never past  *)
(* the end of the scan.                                                    *)
LEMMA NextPartSizeBounds ==
    ASSUME NEW j \in Jobs, work[j].scan \in Scans, work[j].records \in Nat,
           work[j].records < Len(work[j].scan)
    PROVE  /\ NextPartSize(j) \in Nat \ {0}
           /\ work[j].records + NextPartSize(j) <= Len(work[j].scan)
<1> DEFINE n == Len(work[j].scan)
           r == work[j].records
<1>1. n \in Nat /\ r \in Nat /\ r < n
  BY ScansAreSequences
<1>2. NextPartSize(j) = IF n - r < PartRecords THEN n - r ELSE PartRecords
  BY DEF NextPartSize
<1>3. PartRecords \in Nat /\ PartRecords > 0
  OBVIOUS
<1> HIDE DEF n, r
<1> QED
  BY <1>1, <1>2, <1>3 DEF r, n
----------------------------------------------------------------------------
(* What holds of a job whose row has not been deleted.  The manifest never *)
(* lists a part that is not on disk, its parts tile 0..records-1, and no   *)
(* checkpoint is ahead of it.                                              *)
ManifestOK(j) ==
    LET m == manifest[j]
        end(p) == files[j][p].start + files[j][p].count
    IN  /\ Committed(j) \subseteq DOMAIN files[j]
        /\ checkpoint[j] <= m.records
        /\ m.parts = 0 => m.records = 0
        /\ m.parts > 0 => files[j][0].start = 0 /\ end(m.parts - 1) = m.records
        /\ \A p \in Committed(j) :
              /\ files[j][p].count > 0
              /\ p > 0 => files[j][p].start = end(p - 1)

(* What the worker's locals mean at each of its steps.                     *)
WorkerOK(j) ==
    /\ pc[j] \in {"stream", "written", "manifested"} => work[j].scan \in Scans
    /\ pc[j] \in {"stream", "manifested"} =>
          /\ work[j].parts = manifest[j].parts
          /\ work[j].records = manifest[j].records
    /\ pc[j] = "written" =>
          /\ work[j].parts = manifest[j].parts + 1
          /\ manifest[j].parts \in DOMAIN files[j]
          /\ LET f == files[j][manifest[j].parts]
             IN  /\ f.start = manifest[j].records
                 /\ f.count > 0
                 /\ f.start + f.count = work[j].records

(* Tasks exist only while the process is up and for rows that exist, no    *)
(* task is left of a job that its worker has ended, and the sweep only     *)
(* ever touches deleted jobs.                                              *)
ProcessOK ==
    /\ phase # "up" => \A j \in Jobs : pc[j] = "none"
    /\ \A j \in Jobs : pc[j] # "none" => job[j] \in J!BulkJobState
    /\ \A j \in Jobs : job[j] \in {"JobComplete", "Failed"} => pc[j] = "none"
    /\ \A j \in sweep : job[j] = J!Removed

Inv ==
    /\ TypeOK
    /\ ProcessOK
    /\ \A j \in Jobs : job[j] # J!Removed => ManifestOK(j) /\ WorkerOK(j)
----------------------------------------------------------------------------
(* The invariant holds initially: no job, no file, nothing running.        *)
LEMMA InitInv == Init => Inv
<1> SUFFICES ASSUME Init PROVE Inv
  OBVIOUS
<1>1. TypeOK
  BY DEF Init, TypeOK, NoManifest, Manifest, NoWork, Steps, J!JobStatus, J!NoJob
<1>2. ProcessOK
  BY DEF Init, ProcessOK, J!Removed
<1>3. ASSUME NEW j \in Jobs PROVE ManifestOK(j) /\ WorkerOK(j)
  BY DEF Init, ManifestOK, WorkerOK, Committed, NoManifest
<1> QED
  BY <1>1, <1>2, <1>3 DEF Inv

(* Types, for the steps that leave every result directory alone.           *)
LEMMA ControlStepTypeOK ==
    ASSUME TypeOK,
           \/ \E j \in Jobs : \/ CreateJob(j) \/ Abort(j) \/ RetentionEnds(j)
                              \/ Dispatch(j) \/ Begin(j)
           \/ Publish
           \/ ResumePending
    PROVE  TypeOK'
<1>1. ASSUME NEW j \in Jobs, CreateJob(j) PROVE TypeOK'
  BY <1>1 DEF CreateJob, TypeOK, Steps, J!JobStatus, J!BulkJobState
<1>2. ASSUME NEW j \in Jobs, Abort(j) PROVE TypeOK'
  BY <1>2 DEF Abort, TypeOK, J!JobStatus, J!BulkJobState
<1>3. ASSUME NEW j \in Jobs, RetentionEnds(j) PROVE TypeOK'
  BY <1>3 DEF RetentionEnds, TypeOK
<1>4. ASSUME NEW j \in Jobs, Dispatch(j) PROVE TypeOK'
  BY <1>4 DEF Dispatch, durable, TypeOK, Steps, Running, Streaming
<1>5. ASSUME NEW j \in Jobs, Begin(j) PROVE TypeOK'
  BY <1>5 DEF Begin, TypeOK, Steps, Running, Streaming, J!JobStatus, J!BulkJobState
<1>6. ASSUME Publish PROVE TypeOK'
  BY <1>6 DEF Publish, durable, TypeOK
<1>7. ASSUME ResumePending PROVE TypeOK'
  BY <1>7 DEF ResumePending, durable, TypeOK, Steps
<1> QED
  BY <1>1, <1>2, <1>3, <1>4, <1>5, <1>6, <1>7

(* Types, for the worker's steps on its directory and its job's end.       *)
LEMMA StreamStepTypeOK ==
    ASSUME TypeOK, NEW j \in Jobs, WorkerOK(j),
           \/ Load(j) \/ WritePart(j) \/ CommitManifest(j) \/ AddCheckpoint(j)
           \/ Finish(j) \/ StreamFails(j)
    PROVE  TypeOK'
<1>1. CASE Load(j)
  <2>1. PICK scan \in ScanOrders(data) :
            work' = [work EXCEPT ![j] = [scan    |-> scan,
                                         parts   |-> manifest[j].parts,
                                         records |-> manifest[j].records]]
    BY <1>1 DEF Load
  <2>2. scan \in Scans /\ manifest[j].parts \in Nat /\ manifest[j].records \in Nat
    BY DEF TypeOK, Scans, Manifest
  <2>3. work' \in [Jobs -> [scan: Scans \cup {<<>>}, parts: Nat, records: Nat]]
    BY <2>1, <2>2 DEF TypeOK
  <2>4. Committed(j) \subseteq DOMAIN files[j]
    BY <1>1 DEF Load, ResumeRefused
  <2>5. /\ DOMAIN files' = Jobs
        /\ \A k \in Jobs : /\ DOMAIN files'[k] \subseteq Nat
                           /\ \A p \in DOMAIN files'[k] : files'[k][p] \in Slice
    BY <1>1, <2>4 DEF Load, TypeOK
  <2> QED
    BY <1>1, <2>3, <2>5 DEF Load, TypeOK, Steps, Running, Streaming
<1>2. CASE WritePart(j)
  <2> DEFINE w == work[j]
             n == NextPartSize(j)
  <2>1. w.scan \in Scans /\ w.parts \in Nat /\ w.records \in Nat
    BY <1>2 DEF WritePart, WorkerOK, TypeOK
  <2>2. n \in Nat
    BY <1>2, <2>1, NextPartSizeBounds DEF WritePart
  <2> HIDE DEF n
  <2>3. [scan |-> w.scan, start |-> w.records, count |-> n] \in Slice
    BY <2>1, <2>2 DEF Slice
  <2>4. /\ DOMAIN files' = Jobs
        /\ \A k \in Jobs : /\ DOMAIN files'[k] \subseteq Nat
                           /\ \A p \in DOMAIN files'[k] : files'[k][p] \in Slice
    <3> DEFINE D == DOMAIN files[j] \cup {w.parts}
               g == [p \in D |-> IF p = w.parts
                                 THEN [scan |-> w.scan, start |-> w.records, count |-> n]
                                 ELSE files[j][p]]
    <3>1. files' = [files EXCEPT ![j] = g]
      BY <1>2 DEF WritePart, n
    <3>2. D \subseteq Nat /\ \A p \in D : g[p] \in Slice
      BY <2>1, <2>3 DEF TypeOK
    <3>3. DOMAIN g = D
      OBVIOUS
    <3> HIDE DEF g, D
    <3> QED
      BY <3>1, <3>2, <3>3 DEF TypeOK
  <2>5. work' \in [Jobs -> [scan: Scans \cup {<<>>}, parts: Nat, records: Nat]]
    BY <1>2, <2>1, <2>2 DEF WritePart, TypeOK, n
  <2> QED
    BY <1>2, <2>4, <2>5 DEF WritePart, TypeOK, Steps, Running, Streaming
<1>3. CASE CommitManifest(j)
  BY <1>3 DEF CommitManifest, TypeOK, Manifest, Steps, Running, Streaming
<1>4. CASE AddCheckpoint(j)
  BY <1>4 DEF AddCheckpoint, TypeOK, Steps, Running, Streaming
<1>5. CASE Finish(j)
  BY <1>5 DEF Finish, EndTask, NoWork, TypeOK, Steps, J!JobStatus, J!BulkJobState
<1>6. CASE StreamFails(j)
  BY <1>6 DEF StreamFails, EndTask, NoWork, TypeOK, Steps, J!JobStatus, J!BulkJobState
<1> QED
  BY <1>1, <1>2, <1>3, <1>4, <1>5, <1>6

(* Types, for the crash and the startup sweep.                             *)
LEMMA CrashStepTypeOK ==
    ASSUME TypeOK,
           Crash \/ ExpireJobs \/ \E j \in Jobs : RemoveArtifacts(j)
    PROVE  TypeOK'
<1>1. CASE Crash
  BY <1>1 DEF Crash, durable, NoWork, TypeOK, Steps
<1>2. CASE ExpireJobs
  BY <1>2 DEF ExpireJobs, TypeOK, J!JobStatus, J!BulkJobState, J!Removed
<1>3. ASSUME NEW j \in Jobs, RemoveArtifacts(j) PROVE TypeOK'
  BY <1>3 DEF RemoveArtifacts, TypeOK, NoManifest, Manifest
<1> QED
  BY <1>1, <1>2, <1>3
----------------------------------------------------------------------------
(* A step that does not touch a job's directory, manifest or checkpoints   *)
(* keeps ManifestOK; if it leaves its locals alone too and does not move   *)
(* it into a streaming step, it keeps WorkerOK.                            *)
LEMMA ManifestFrame ==
    ASSUME NEW k \in Jobs, ManifestOK(k),
           manifest'[k] = manifest[k], files'[k] = files[k], checkpoint'[k] = checkpoint[k]
    PROVE  ManifestOK(k)'
BY DEF ManifestOK, Committed

(* The same for the worker's locals.                                       *)
LEMMA WorkerFrame ==
    ASSUME NEW k \in Jobs, WorkerOK(k),
           \/ /\ manifest'[k] = manifest[k]
              /\ files'[k] = files[k]
              /\ work'[k] = work[k]
              /\ pc'[k] = pc[k]
           \/ pc'[k] \notin {"stream", "written", "manifested"}
    PROVE  WorkerOK(k)'
BY DEF WorkerOK

(* Steps that leave every directory, manifest and checkpoint alone.        *)
LEMMA ControlStepInv ==
    ASSUME Inv,
           \/ \E j \in Jobs : \/ CreateJob(j) \/ Abort(j) \/ RetentionEnds(j)
                              \/ Dispatch(j) \/ Begin(j)
                              \/ Finish(j) \/ StreamFails(j)
           \/ Publish
           \/ ResumePending
           \/ Crash
    PROVE  /\ ProcessOK'
           /\ \A k \in Jobs : job'[k] # J!Removed => ManifestOK(k)' /\ WorkerOK(k)'
<1> USE DEF J!Removed, J!NoJob, J!BulkJobState
<1>1. ASSUME NEW j \in Jobs, CreateJob(j) \/ Abort(j) \/ RetentionEnds(j)
      PROVE  /\ ProcessOK'
             /\ \A k \in Jobs : job'[k] # J!Removed => ManifestOK(k)' /\ WorkerOK(k)'
  <2>1. ProcessOK'
    <3>1. CASE CreateJob(j)
      BY <3>1 DEF CreateJob, Inv, ProcessOK, TypeOK
    <3>2. CASE Abort(j)
      BY <3>2 DEF Abort, Inv, ProcessOK, TypeOK, J!CanMove
    <3>3. CASE RetentionEnds(j)
      BY <3>3 DEF RetentionEnds, Inv, ProcessOK
    <3> QED
      BY <1>1, <3>1, <3>2, <3>3
  <2>2. ASSUME NEW k \in Jobs, job'[k] # J!Removed PROVE ManifestOK(k)' /\ WorkerOK(k)'
    <3>1. job[k] # J!Removed
      BY <1>1, <2>2 DEF CreateJob, Abort, RetentionEnds, Inv, TypeOK, J!CanMove
    <3>2. ManifestOK(k)'
      BY <1>1, <3>1, ManifestFrame DEF CreateJob, Abort, RetentionEnds, Inv
    <3>3. WorkerOK(k)'
      BY <1>1, <3>1, WorkerFrame DEF CreateJob, Abort, RetentionEnds, Inv, TypeOK
    <3> QED
      BY <3>2, <3>3
  <2> QED
    BY <2>1, <2>2
<1>2. ASSUME NEW j \in Jobs, Dispatch(j) \/ Begin(j)
      PROVE  /\ ProcessOK'
             /\ \A k \in Jobs : job'[k] # J!Removed => ManifestOK(k)' /\ WorkerOK(k)'
  <2>1. ProcessOK'
    <3>1. CASE Dispatch(j)
      BY <3>1 DEF Dispatch, durable, Inv, ProcessOK, TypeOK
    <3>2. CASE Begin(j)
      <4>1. /\ pc[j] = "begin" /\ phase' = phase /\ sweep' = sweep
            /\ pc' = [pc EXCEPT ![j] = pc'[j]]
            /\ job' = [job EXCEPT ![j] = job'[j]]
            /\ job'[j] \in {job[j], "InProgress"}
        BY <3>2 DEF Begin, Inv, TypeOK
      <4>2. job[j] \in J!BulkJobState \ {"JobComplete", "Failed"}
        BY <4>1 DEF Inv, ProcessOK
      <4> QED
        BY <4>1, <4>2 DEF Inv, ProcessOK, TypeOK
    <3> QED
      BY <1>2, <3>1, <3>2
  <2>2. ASSUME NEW k \in Jobs, job'[k] # J!Removed PROVE ManifestOK(k)' /\ WorkerOK(k)'
    <3>1. job[k] # J!Removed
      BY <1>2, <2>2 DEF Dispatch, Begin, durable, Inv, TypeOK, J!CanMove
    <3>2. ManifestOK(k)'
      BY <1>2, <3>1, ManifestFrame DEF Dispatch, Begin, durable, Inv
    <3>3. WorkerOK(k)'
      BY <1>2, <3>1, WorkerFrame DEF Dispatch, Begin, durable, Inv, TypeOK
    <3> QED
      BY <3>2, <3>3
  <2> QED
    BY <2>1, <2>2
<1>3. ASSUME NEW j \in Jobs, Finish(j) \/ StreamFails(j)
      PROVE  /\ ProcessOK'
             /\ \A k \in Jobs : job'[k] # J!Removed => ManifestOK(k)' /\ WorkerOK(k)'
  <2>1. ProcessOK'
    <3>1. /\ job' \in [Jobs -> J!JobStatus]
          /\ \A k \in Jobs : \/ job'[k] = job[k]
                             \/ k = j /\ job[k] \in J!BulkJobState /\ job'[k] \in J!BulkJobState
      BY <1>3 DEF Finish, StreamFails, Inv, TypeOK, J!CanMove, J!JobStatus
    <3>2. /\ pc' = [pc EXCEPT ![j] = "none"]
          /\ phase' = phase /\ sweep' = sweep
      BY <1>3 DEF Finish, StreamFails, EndTask
    <3> QED
      BY <3>1, <3>2 DEF Inv, ProcessOK, TypeOK
  <2>2. ASSUME NEW k \in Jobs, job'[k] # J!Removed PROVE ManifestOK(k)' /\ WorkerOK(k)'
    <3>1. job[k] # J!Removed
      BY <1>3, <2>2 DEF Finish, StreamFails, Inv, TypeOK, J!CanMove
    <3>2. ManifestOK(k)'
      BY <1>3, <3>1, ManifestFrame DEF Finish, StreamFails, Inv
    <3>3. WorkerOK(k)'
      BY <1>3, <3>1, WorkerFrame DEF Finish, StreamFails, EndTask, Inv, TypeOK
    <3> QED
      BY <3>2, <3>3
  <2> QED
    BY <2>1, <2>2
<1>4. ASSUME Publish \/ ResumePending \/ Crash
      PROVE  /\ ProcessOK'
             /\ \A k \in Jobs : job'[k] # J!Removed => ManifestOK(k)' /\ WorkerOK(k)'
  <2>1. ProcessOK'
    <3>1. CASE Publish
      BY <3>1 DEF Publish, durable, Inv, ProcessOK
    <3>2. CASE ResumePending
      BY <3>2 DEF ResumePending, Runnable, durable, Inv, ProcessOK, TypeOK
    <3>3. CASE Crash
      BY <3>3 DEF Crash, durable, Inv, ProcessOK, TypeOK
    <3> QED
      BY <1>4, <3>1, <3>2, <3>3
  <2>2. ASSUME NEW k \in Jobs, job'[k] # J!Removed PROVE ManifestOK(k)' /\ WorkerOK(k)'
    <3>1. job[k] # J!Removed
      BY <1>4, <2>2 DEF Publish, ResumePending, Crash, durable
    <3>2. ManifestOK(k)'
      BY <1>4, <3>1, ManifestFrame DEF Publish, ResumePending, Crash, durable, Inv
    <3>3. WorkerOK(k)'
      BY <1>4, <3>1, WorkerFrame DEF Publish, ResumePending, Crash, durable, Inv, TypeOK
    <3> QED
      BY <3>2, <3>3
  <2> QED
    BY <2>1, <2>2
<1> QED
  BY <1>1, <1>2, <1>3, <1>4

(* The worker's steps on its own directory.                                *)
LEMMA StreamStepInv ==
    ASSUME Inv, NEW j \in Jobs,
           Load(j) \/ WritePart(j) \/ CommitManifest(j) \/ AddCheckpoint(j)
    PROVE  /\ ProcessOK'
           /\ \A k \in Jobs : job'[k] # J!Removed => ManifestOK(k)' /\ WorkerOK(k)'
<1> USE DEF J!Removed, J!BulkJobState
<1>1. job' = job /\ pc[j] \in {"load", "stream", "written", "manifested"}
  BY DEF Load, WritePart, CommitManifest, AddCheckpoint
<1>2. job[j] \in J!BulkJobState /\ ManifestOK(j) /\ WorkerOK(j)
  BY <1>1 DEF Inv, ProcessOK
<1>3. ProcessOK'
  BY <1>1, <1>2 DEF Load, WritePart, CommitManifest, AddCheckpoint, Inv, ProcessOK, TypeOK
<1>4. ASSUME NEW k \in Jobs, k # j, job'[k] # J!Removed
      PROVE  ManifestOK(k)' /\ WorkerOK(k)'
  <2>1. /\ manifest'[k] = manifest[k] /\ files'[k] = files[k]
        /\ checkpoint'[k] = checkpoint[k] /\ work'[k] = work[k] /\ pc'[k] = pc[k]
    BY <1>4 DEF Load, WritePart, CommitManifest, AddCheckpoint, Inv, TypeOK
  <2> QED
    BY <1>1, <1>4, <2>1, ManifestFrame, WorkerFrame DEF Inv
<1>5. manifest[j].parts \in Nat /\ manifest[j].records \in Nat /\ checkpoint[j] \in Nat
  BY DEF Inv, TypeOK, Manifest
<1>6. ManifestOK(j)' /\ WorkerOK(j)'
  <2>1. CASE Load(j)
    <3>1. /\ files'[j] = [p \in Committed(j) |-> files[j][p]]
          /\ manifest' = manifest /\ checkpoint' = checkpoint /\ pc'[j] = "stream"
      BY <2>1 DEF Load, Inv, TypeOK
    <3>2. /\ Committed(j)' = Committed(j)
          /\ DOMAIN files'[j] = Committed(j)
          /\ \A p \in Committed(j) : files'[j][p] = files[j][p]
      BY <3>1 DEF Committed
    <3>3. ManifestOK(j)'
      BY <1>2, <1>5, <3>1, <3>2 DEF ManifestOK, Committed
    <3>4. /\ work'[j].scan \in Scans
          /\ work'[j].parts = manifest[j].parts
          /\ work'[j].records = manifest[j].records
      BY <2>1 DEF Load, Inv, TypeOK, Scans
    <3> QED
      BY <3>1, <3>3, <3>4 DEF WorkerOK
  <2>2. CASE WritePart(j)
    <3> DEFINE w == work[j]
               n == NextPartSize(j)
    <3>1. /\ w.scan \in Scans /\ w.parts = manifest[j].parts /\ w.records = manifest[j].records
      BY <1>2, <2>2 DEF WritePart, WorkerOK
    <3>2. n \in Nat /\ n > 0
      BY <1>5, <2>2, <3>1, NextPartSizeBounds DEF WritePart
    <3> HIDE DEF n
    <3>3. /\ DOMAIN files'[j] = DOMAIN files[j] \cup {w.parts}
          /\ files'[j][w.parts] = [scan |-> w.scan, start |-> w.records, count |-> n]
          /\ \A p \in DOMAIN files[j] : p # w.parts => files'[j][p] = files[j][p]
      BY <2>2 DEF WritePart, n, Inv, TypeOK
    <3>4. /\ manifest' = manifest /\ checkpoint' = checkpoint /\ pc'[j] = "written"
          /\ work'[j] = [scan |-> w.scan, parts |-> w.parts + 1, records |-> w.records + n]
      BY <2>2 DEF WritePart, n, Inv, TypeOK
    <3>5. Committed(j)' = Committed(j) /\ w.parts \notin Committed(j)
      BY <1>5, <3>1, <3>4 DEF Committed
    <3>6. /\ Committed(j) \subseteq DOMAIN files'[j]
          /\ \A p \in Committed(j) : files'[j][p] = files[j][p]
      BY <1>2, <3>3, <3>5 DEF ManifestOK
    <3>7. ManifestOK(j)'
      BY <1>2, <1>5, <3>4, <3>5, <3>6 DEF ManifestOK, Committed
    <3> QED
      BY <1>5, <3>1, <3>2, <3>3, <3>4, <3>7 DEF WorkerOK
  <2>3. CASE CommitManifest(j)
    <3>1. /\ manifest'[j] = [parts |-> work[j].parts, records |-> work[j].records]
          /\ files' = files /\ checkpoint' = checkpoint /\ work' = work
          /\ pc[j] = "written" /\ pc'[j] = "manifested"
      BY <2>3 DEF CommitManifest, Inv, TypeOK
    <3> DEFINE q == manifest[j].parts
    <3>2. /\ work[j].parts = q + 1 /\ q \in DOMAIN files[j]
          /\ files[j][q].start = manifest[j].records
          /\ files[j][q].count > 0
          /\ files[j][q].start + files[j][q].count = work[j].records
          /\ work[j].scan \in Scans
      BY <1>2, <3>1 DEF WorkerOK
    <3>3. files[j][q].count \in Nat /\ files[j][q].start \in Nat
      BY <3>2 DEF Inv, TypeOK, Slice
    <3>4. Committed(j)' = Committed(j) \cup {q} /\ manifest'[j].parts = q + 1
      BY <1>5, <3>1, <3>2 DEF Committed
    <3>5. checkpoint'[j] <= manifest'[j].records
      BY <1>2, <1>5, <3>1, <3>2, <3>3 DEF ManifestOK
    <3>6. files[j][0].start = 0
      BY <1>2, <1>5, <3>2 DEF ManifestOK
    <3>7. ASSUME NEW p \in Committed(j)'
          PROVE  /\ files[j][p].count > 0
                 /\ p > 0 => files[j][p].start = files[j][p - 1].start + files[j][p - 1].count
      BY <1>2, <1>5, <3>2, <3>4, <3>7 DEF ManifestOK, Committed
    <3>8. ManifestOK(j)'
      BY <1>2, <1>5, <3>1, <3>2, <3>4, <3>5, <3>6, <3>7 DEF ManifestOK
    <3> QED
      BY <3>1, <3>2, <3>8 DEF WorkerOK
  <2>4. CASE AddCheckpoint(j)
    <3>1. /\ manifest' = manifest /\ files' = files /\ work' = work
          /\ checkpoint'[j] \in {checkpoint[j], work[j].records}
          /\ pc[j] = "manifested" /\ pc'[j] = "stream"
      BY <2>4 DEF AddCheckpoint, Inv, TypeOK
    <3>2. ManifestOK(j)'
      BY <1>2, <1>5, <3>1 DEF ManifestOK, WorkerOK, Committed
    <3> QED
      BY <1>2, <3>1, <3>2 DEF WorkerOK
  <2> QED
    BY <2>1, <2>2, <2>3, <2>4
<1> QED
  BY <1>3, <1>4, <1>6

(* The startup sweep only touches deleted jobs.                            *)
LEMMA SweepStepInv ==
    ASSUME Inv, ExpireJobs \/ \E j \in Jobs : RemoveArtifacts(j)
    PROVE  /\ ProcessOK'
           /\ \A k \in Jobs : job'[k] # J!Removed => ManifestOK(k)' /\ WorkerOK(k)'
<1> USE DEF J!Removed, J!BulkJobState
<1>1. CASE ExpireJobs
  <2>1. ProcessOK'
    BY <1>1 DEF ExpireJobs, Inv, ProcessOK, TypeOK
  <2>2. ASSUME NEW k \in Jobs, job'[k] # J!Removed PROVE ManifestOK(k)' /\ WorkerOK(k)'
    <3>1. job[k] # J!Removed /\ checkpoint'[k] = checkpoint[k]
      BY <1>1, <2>2 DEF ExpireJobs, Inv, TypeOK
    <3> QED
      BY <1>1, <3>1, ManifestFrame, WorkerFrame DEF ExpireJobs, Inv
  <2> QED
    BY <2>1, <2>2
<1>2. ASSUME NEW j \in Jobs, RemoveArtifacts(j)
      PROVE  /\ ProcessOK'
             /\ \A k \in Jobs : job'[k] # J!Removed => ManifestOK(k)' /\ WorkerOK(k)'
  <2>1. ProcessOK' /\ job[j] = J!Removed
    BY <1>2 DEF RemoveArtifacts, Inv, ProcessOK
  <2>2. ASSUME NEW k \in Jobs, job'[k] # J!Removed PROVE ManifestOK(k)' /\ WorkerOK(k)'
    <3>1. k # j /\ job[k] # J!Removed
      BY <1>2, <2>1, <2>2 DEF RemoveArtifacts
    <3>2. manifest'[k] = manifest[k] /\ files'[k] = files[k]
      BY <1>2, <3>1 DEF RemoveArtifacts, Inv, TypeOK
    <3> QED
      BY <1>2, <3>1, <3>2, ManifestFrame, WorkerFrame DEF RemoveArtifacts, Inv
  <2> QED
    BY <2>1, <2>2
<1> QED
  BY <1>1, <1>2

(* Every step preserves the invariant.                                     *)
LEMMA InvStep == Inv /\ [Next]_vars => Inv'
<1> SUFFICES ASSUME Inv, [Next]_vars PROVE Inv'
  OBVIOUS
<1>1. CASE \/ \E j \in Jobs : \/ CreateJob(j) \/ Abort(j) \/ RetentionEnds(j)
                              \/ Dispatch(j) \/ Begin(j)
           \/ Publish \/ ResumePending
  BY <1>1, ControlStepTypeOK, ControlStepInv DEF Inv
<1>2. ASSUME NEW j \in Jobs, Load(j) \/ WritePart(j) \/ CommitManifest(j) \/ AddCheckpoint(j)
      PROVE  Inv'
  <2>1. WorkerOK(j)
    BY <1>2 DEF Inv, ProcessOK, Load, WritePart, CommitManifest, AddCheckpoint,
                J!Removed, J!BulkJobState
  <2> QED
    BY <1>2, <2>1, StreamStepTypeOK, StreamStepInv DEF Inv
<1>3. ASSUME NEW j \in Jobs, Finish(j) \/ StreamFails(j)
      PROVE  Inv'
  <2>1. WorkerOK(j)
    BY <1>3 DEF Inv, ProcessOK, Finish, StreamFails, Streaming, J!Removed, J!BulkJobState
  <2> QED
    BY <1>3, <2>1, StreamStepTypeOK, ControlStepInv DEF Inv
<1>4. CASE Crash
  BY <1>4, CrashStepTypeOK, ControlStepInv DEF Inv
<1>5. CASE ExpireJobs \/ \E j \in Jobs : RemoveArtifacts(j)
  BY <1>5, CrashStepTypeOK, SweepStepInv DEF Inv
<1>6. CASE UNCHANGED vars
  BY <1>6 DEF vars, durable, Inv, TypeOK, ProcessOK, ManifestOK, WorkerOK, Committed
<1> QED
  BY <1>1, <1>2, <1>3, <1>4, <1>5, <1>6 DEF Next, WorkerStep, StartupStep

(* Inv holds in every reachable state.                                     *)
THEOREM Invariance == Spec => []Inv
BY InitInv, InvStep, PTL DEF Spec

(* Every variable of BulkQuery keeps its type; in particular part numbers  *)
(* and record counts never go negative and every part file is a slice of a *)
(* scan that the engine could have returned.                               *)
THEOREM TypeCorrect == Spec => []TypeOK
<1>1. Inv => TypeOK
  BY DEF Inv
<1> QED
  BY <1>1, Invariance, PTL

(* The two RuntimeErrors with which _stream refuses to resume are          *)
(* unreachable for a job that still has its row: the order part, manifest, *)
(* checkpoint is safe against a crash between any two of them.             *)
THEOREM ResumeSafe == Spec => []ResumeNeverRefused
<1>1. Inv => ResumeNeverRefused
  <2> SUFFICES ASSUME Inv, NEW j \in Jobs, job[j] \in J!BulkJobState
               PROVE  ~ResumeRefused(j)
    BY DEF ResumeNeverRefused
  <2>1. ManifestOK(j)
    BY DEF Inv, J!BulkJobState, J!Removed
  <2>2. checkpoint[j] \in Nat /\ manifest[j].records \in Nat
    BY DEF Inv, TypeOK, Manifest
  <2> QED
    BY <2>1, <2>2 DEF ManifestOK, ResumeRefused
<1> QED
  BY <1>1, Invariance, PTL

(* The parts a manifest lists are consecutive, non-empty and end at the    *)
(* record total, however often the worker was killed and resumed.          *)
THEOREM Tiling == Spec => []PartsTile
<1>1. Inv => PartsTile
  BY DEF Inv, PartsTile, ManifestOK, J!BulkJobState, J!Removed
<1> QED
  BY <1>1, Invariance, PTL
----------------------------------------------------------------------------
(* A completed result is never written again before it is deleted: no task *)
(* outlives the completion of its job, and no restart queues one.          *)
THEOREM FrozenResults == Spec => ResultsFrozen
<1> DEFINE Frozen(j) == (job[j] = "JobComplete" /\ job'[j] = "JobComplete")
                           => manifest'[j] = manifest[j] /\ files'[j] = files[j]
<1>1. ASSUME Inv, [Next]_vars, NEW j \in Jobs PROVE Frozen(j)
  <2> SUFFICES ASSUME job[j] = "JobComplete", job'[j] = "JobComplete"
               PROVE  manifest'[j] = manifest[j] /\ files'[j] = files[j]
    OBVIOUS
  <2>1. pc[j] = "none" /\ j \notin sweep
    BY <1>1 DEF Inv, ProcessOK, J!Removed
  <2>2. ASSUME NEW k \in Jobs,
               \/ Load(k) \/ WritePart(k) \/ CommitManifest(k) \/ RemoveArtifacts(k)
        PROVE  manifest'[j] = manifest[j] /\ files'[j] = files[j]
    <3>1. k # j
      BY <2>1, <2>2 DEF Load, WritePart, CommitManifest, RemoveArtifacts
    <3> QED
      BY <1>1, <2>2, <3>1 DEF Load, WritePart, CommitManifest, RemoveArtifacts, Inv, TypeOK
  <2>3. CASE \/ \E k \in Jobs : \/ CreateJob(k) \/ Abort(k) \/ RetentionEnds(k) \/ Dispatch(k)
                                \/ Begin(k) \/ AddCheckpoint(k) \/ Finish(k) \/ StreamFails(k)
             \/ Publish \/ Crash \/ ExpireJobs \/ ResumePending \/ UNCHANGED vars
    BY <2>3 DEF CreateJob, Abort, RetentionEnds, Dispatch, Begin, AddCheckpoint, Finish,
                StreamFails, Publish, Crash, ExpireJobs, ResumePending, vars, durable
  <2> QED
    BY <1>1, <2>2, <2>3 DEF Next, WorkerStep, StartupStep
<1>2. Inv /\ [Next]_vars => [\A j \in Jobs : Frozen(j)]_vars
  BY <1>1
<1> QED
  BY <1>2, Invariance, PTL DEF Spec, ResultsFrozen
----------------------------------------------------------------------------
(* Every step moves the job rows along the graph of jobs.py, or not at     *)
(* all.                                                                    *)
LEMMA LifecycleStep == ASSUME Inv, [Next]_vars PROVE [J!Next]_job
<1> USE DEF J!BulkJobState, J!JobStatus
<1>1. job \in [Jobs -> J!JobStatus]
  BY DEF Inv, TypeOK
<1>2. ASSUME NEW j \in Jobs, CreateJob(j) PROVE J!Create(j)
  BY <1>2 DEF CreateJob, J!Create
<1>3. ASSUME NEW j \in Jobs, NEW s \in J!BulkJobState,
             job' = [job EXCEPT ![j] = IF J!CanMove(@, s) THEN s ELSE @]
      PROVE  J!Transition(j) \/ job' = job
  BY <1>1, <1>3 DEF J!Transition
<1>4. ASSUME NEW j \in Jobs, Abort(j) PROVE J!Transition(j)
  BY <1>4 DEF Abort, J!Transition
<1>5. ASSUME NEW j \in Jobs, Begin(j) PROVE J!Transition(j) \/ job' = job
  BY <1>5 DEF Begin, J!Transition
<1>6. ASSUME NEW j \in Jobs, Finish(j) PROVE J!Transition(j) \/ job' = job
  BY <1>3, <1>6 DEF Finish
<1>7. ASSUME NEW j \in Jobs, StreamFails(j) PROVE J!Transition(j) \/ job' = job
  BY <1>3, <1>7 DEF StreamFails
<1>8. CASE ExpireJobs
  <2>1. sweep' \in SUBSET {j \in Jobs : job[j] \in J!BulkJobState}
    BY <1>8 DEF ExpireJobs
  <2>2. job' = [j \in Jobs |-> IF j \in sweep' THEN J!Removed ELSE job[j]]
    BY <1>8 DEF ExpireJobs
  <2>3. J!Expire
    BY <2>1, <2>2 DEF J!Expire
  <2> QED
    BY <2>3 DEF J!Next
<1>9. CASE \/ \E j \in Jobs : \/ RetentionEnds(j) \/ Dispatch(j) \/ Load(j) \/ WritePart(j)
                              \/ CommitManifest(j) \/ AddCheckpoint(j) \/ RemoveArtifacts(j)
           \/ Publish \/ Crash \/ ResumePending \/ UNCHANGED vars
  BY <1>9 DEF RetentionEnds, Dispatch, Load, WritePart, CommitManifest, AddCheckpoint,
              RemoveArtifacts, Publish, Crash, ResumePending, vars, durable
<1> QED
  BY <1>2, <1>4, <1>5, <1>6, <1>7, <1>8, <1>9 DEF Next, WorkerStep, StartupStep, J!Next

(* BulkQuery implements BulkJob: whatever the handlers, the workers and    *)
(* the startup sweep interleave, a job row only ever moves along           *)
(* _ALLOWED_TRANSITIONS, and never leaves a terminal state except by       *)
(* deletion.                                                               *)
THEOREM LifecycleRefined == Spec => JobLifecycle
<1>1. Init => J!Init
  BY DEF Init, J!Init
<1>2. Inv /\ [Next]_vars => [J!Next]_job
  BY LifecycleStep
<1> QED
  BY <1>1, <1>2, Invariance, PTL DEF Spec, JobLifecycle, J!Spec
----------------------------------------------------------------------------
(* The hypothesis under which a re-executed scan is the same scan: the     *)
(* data does not change and the sort order is total.  The instance of run  *)
(* query_resume satisfies it; run query_new_data drops the first half.     *)
SingleScan == \A s, t \in Scans : s = t

(* Record i of the result is in a committed part.                          *)
Covered(j, i) ==
    \E p \in Committed(j) :
        files[j][p].start < i /\ i <= files[j][p].start + files[j][p].count

(* The manifest covers a prefix of the scan, the worker never runs past    *)
(* its end, and a completed job covers all of it.                          *)
CoverOK(j) ==
    /\ \A i \in 1..manifest[j].records : Covered(j, i)
    /\ \A s \in Scans : manifest[j].records <= Len(s)
    /\ pc[j] = "written" => work[j].records <= Len(work[j].scan)
    /\ job[j] = "JobComplete" => \E s \in Scans : manifest[j].records = Len(s)

Cover == \A j \in Jobs : job[j] # J!Removed => CoverOK(j)

(* Nothing is covered and nothing needs to be at the start.                *)
LEMMA InitCover == Init => Cover
<1> SUFFICES ASSUME Init, NEW j \in Jobs PROVE CoverOK(j)
  BY DEF Cover
<1>1. manifest[j].records = 0 /\ pc[j] = "none" /\ job[j] = "NoJob"
  BY DEF Init, NoManifest, J!NoJob
<1> QED
  BY <1>1, ScansAreSequences DEF CoverOK

(* A job whose files, manifest, task and completion a step leaves alone    *)
(* stays covered.                                                          *)
LEMMA CoverFrame ==
    ASSUME NEW k \in Jobs, CoverOK(k),
           manifest'[k] = manifest[k], files'[k] = files[k],
           pc'[k] = "written" => pc[k] = "written" /\ work'[k] = work[k],
           job'[k] = "JobComplete" => job[k] = "JobComplete"
    PROVE  CoverOK(k)'
BY DEF CoverOK, Covered, Committed

(* A step of job j's worker that changes its files or manifest, or         *)
(* completes it, keeps j covered.                                          *)
LEMMA CoverWorkerStep ==
    ASSUME SingleScan, Inv, NEW j \in Jobs, CoverOK(j), ManifestOK(j), WorkerOK(j),
           Load(j) \/ WritePart(j) \/ CommitManifest(j) \/ Finish(j)
    PROVE  CoverOK(j)'
<1>0. manifest[j].parts \in Nat /\ manifest[j].records \in Nat
  BY DEF Inv, TypeOK, Manifest
<1>1. CASE Load(j)
  <2>1. /\ files'[j] = [p \in Committed(j) |-> files[j][p]]
        /\ manifest' = manifest /\ job' = job /\ pc'[j] = "stream"
    BY <1>1 DEF Load, Inv, TypeOK
  <2>2. Committed(j)' = Committed(j) /\ \A p \in Committed(j) : files'[j][p] = files[j][p]
    BY <2>1 DEF Committed
  <2>3. \A i : Covered(j, i) => Covered(j, i)'
    BY <2>2 DEF Covered
  <2> QED
    BY <2>1, <2>3 DEF CoverOK
<1>2. CASE WritePart(j)
  <2> DEFINE w == work[j]
             n == NextPartSize(j)
  <2>1. w.scan \in Scans /\ w.parts = manifest[j].parts /\ w.records = manifest[j].records
    BY <1>2 DEF WritePart, WorkerOK
  <2>2. w.records + n <= Len(w.scan)
    BY <1>0, <1>2, <2>1, NextPartSizeBounds DEF WritePart
  <2> HIDE DEF n
  <2>3. /\ \A p \in DOMAIN files[j] : p # w.parts => files'[j][p] = files[j][p]
        /\ manifest' = manifest /\ job' = job
        /\ work'[j] = [scan |-> w.scan, parts |-> w.parts + 1, records |-> w.records + n]
    BY <1>2 DEF WritePart, n, Inv, TypeOK
  <2>4. Committed(j)' = Committed(j) /\ \A p \in Committed(j) : files'[j][p] = files[j][p]
    BY <1>0, <2>1, <2>3 DEF Committed, ManifestOK
  <2>5. \A i : Covered(j, i) => Covered(j, i)'
    BY <2>4 DEF Covered
  <2> QED
    BY <2>2, <2>3, <2>5 DEF CoverOK
<1>3. CASE CommitManifest(j)
  <2> DEFINE q == manifest[j].parts
  <2>1. /\ manifest'[j] = [parts |-> work[j].parts, records |-> work[j].records]
        /\ files' = files /\ job' = job /\ pc[j] = "written" /\ pc'[j] = "manifested"
    BY <1>3 DEF CommitManifest, Inv, TypeOK
  <2>2. /\ work[j].parts = q + 1 /\ q \in DOMAIN files[j]
        /\ files[j][q].start = manifest[j].records
        /\ files[j][q].start + files[j][q].count = work[j].records
        /\ work[j].scan \in Scans
    BY <2>1 DEF WorkerOK
  <2>3. files[j][q].count \in Nat /\ files[j][q].start \in Nat
    BY <2>2 DEF Inv, TypeOK, Slice
  <2>4. Committed(j)' = Committed(j) \cup {q}
    BY <1>0, <2>1, <2>2 DEF Committed
  <2>5. ASSUME NEW i \in 1..manifest'[j].records PROVE Covered(j, i)'
    <3>1. CASE i <= manifest[j].records
      <4>1. Covered(j, i)
        BY <1>0, <2>1, <2>2, <2>3, <3>1 DEF CoverOK
      <4> QED
        BY <2>1, <2>4, <4>1 DEF Covered
    <3>2. CASE i > manifest[j].records
      BY <2>1, <2>2, <2>4, <3>2 DEF Covered
    <3> QED
      BY <1>0, <2>1, <2>2, <2>3, <3>1, <3>2
  <2>6. \A s \in Scans : manifest'[j].records <= Len(s)
    BY <2>1, <2>2 DEF CoverOK, SingleScan
  <2>7. job[j] # "JobComplete"
    BY <2>1 DEF Inv, ProcessOK
  <2> QED
    BY <2>1, <2>5, <2>6, <2>7 DEF CoverOK
<1>4. CASE Finish(j)
  <2>1. /\ manifest' = manifest /\ files' = files /\ pc'[j] = "none"
        /\ pc[j] = "stream" /\ work[j].records >= Len(work[j].scan)
    BY <1>4 DEF Finish, EndTask, Inv, TypeOK
  <2>2. work[j].scan \in Scans /\ work[j].records = manifest[j].records
    BY <2>1 DEF WorkerOK
  <2>3. manifest[j].records = Len(work[j].scan)
    BY <1>0, <2>1, <2>2, ScansAreSequences DEF CoverOK
  <2>4. \A i : Covered(j, i) => Covered(j, i)'
    BY <2>1 DEF Covered, Committed
  <2> QED
    BY <2>1, <2>2, <2>3, <2>4 DEF CoverOK
<1> QED
  BY <1>1, <1>2, <1>3, <1>4

(* Every step keeps the jobs covered.                                      *)
LEMMA CoverStep == ASSUME SingleScan, Inv, Cover, [Next]_vars PROVE Cover'
<1> SUFFICES ASSUME NEW k \in Jobs, job'[k] # J!Removed PROVE CoverOK(k)'
  BY DEF Cover
<1> USE DEF J!Removed, J!NoJob, J!BulkJobState
<1>1. job[k] # J!Removed => CoverOK(k) /\ ManifestOK(k) /\ WorkerOK(k)
  BY DEF Cover, Inv
<1>2. ASSUME NEW j \in Jobs, Load(j) \/ WritePart(j) \/ CommitManifest(j) \/ Finish(j)
      PROVE  CoverOK(k)'
  <2>1. job[k] # J!Removed
    BY <1>2 DEF Load, WritePart, CommitManifest, Finish, Inv, TypeOK, J!CanMove
  <2>2. CASE k = j
    BY <1>1, <1>2, <2>1, <2>2, CoverWorkerStep
  <2>3. CASE k # j
    BY <1>1, <1>2, <2>1, <2>3, CoverFrame
       DEF Load, WritePart, CommitManifest, Finish, EndTask, Inv, TypeOK
  <2> QED
    BY <2>2, <2>3
<1>3. ASSUME NEW j \in Jobs, CreateJob(j) \/ Abort(j) \/ RetentionEnds(j) \/ Dispatch(j)
      PROVE  CoverOK(k)'
  <2>1. job[k] # J!Removed
    BY <1>3 DEF CreateJob, Abort, RetentionEnds, Dispatch, durable, Inv, TypeOK, J!CanMove
  <2> QED
    BY <1>1, <1>3, <2>1, CoverFrame
       DEF CreateJob, Abort, RetentionEnds, Dispatch, durable, Inv, TypeOK
<1>4. ASSUME NEW j \in Jobs, Begin(j) \/ AddCheckpoint(j) \/ StreamFails(j)
      PROVE  CoverOK(k)'
  <2>1. job[k] # J!Removed
    BY <1>4 DEF Begin, AddCheckpoint, StreamFails, Inv, TypeOK, J!CanMove
  <2> QED
    BY <1>1, <1>4, <2>1, CoverFrame DEF Begin, AddCheckpoint, StreamFails, EndTask, Inv, TypeOK
<1>5. CASE Publish \/ Crash \/ ExpireJobs \/ ResumePending \/ UNCHANGED vars
  <2>1. job[k] # J!Removed
    BY <1>5 DEF Publish, Crash, ExpireJobs, ResumePending, vars, durable, Inv, TypeOK
  <2> QED
    BY <1>1, <1>5, <2>1, CoverFrame
       DEF Publish, Crash, ExpireJobs, ResumePending, vars, durable, Inv, TypeOK
<1>6. ASSUME NEW j \in Jobs, RemoveArtifacts(j) PROVE CoverOK(k)'
  <2>1. job[k] # J!Removed /\ job[j] = J!Removed
    BY <1>6 DEF RemoveArtifacts, Inv, ProcessOK
  <2> QED
    BY <1>1, <1>6, <2>1, CoverFrame DEF RemoveArtifacts, Inv, TypeOK
<1> QED
  BY <1>2, <1>3, <1>4, <1>5, <1>6 DEF Next, WorkerStep, StartupStep

(* With one scan order, covering every record is holding every row.        *)
LEMMA CoverExact == ASSUME SingleScan, Inv, Cover PROVE ExactlyOnce
<1> SUFFICES ASSUME NEW j \in Jobs, job[j] = "JobComplete"
             PROVE  \E d \in Datasets : \E scan \in ScanOrders(d) :
                       /\ manifest[j].records = Len(scan)
                       /\ \A i \in 1..Len(scan) : ResultRow(j, i) = scan[i]
  BY DEF ExactlyOnce
<1>1. CoverOK(j) /\ ManifestOK(j)
  BY DEF Cover, Inv, J!Removed
<1>2. PICK s \in Scans : manifest[j].records = Len(s)
  BY <1>1 DEF CoverOK
<1>3. PICK d \in Datasets : s \in ScanOrders(d)
  BY DEF Scans
<1>4. ASSUME NEW i \in 1..Len(s) PROVE ResultRow(j, i) = s[i]
  <2> DEFINE Holds(p) == /\ files[j][p].start < i
                         /\ i <= files[j][p].start + files[j][p].count
             q == CHOOSE p \in Committed(j) : Holds(p)
  <2>1. \E p \in Committed(j) : Holds(p)
    BY <1>1, <1>2 DEF CoverOK, Covered
  <2>2. q \in Committed(j)
    BY <2>1
  <2>3. q \in DOMAIN files[j]
    BY <1>1, <2>2 DEF ManifestOK
  <2>4. files[j][q].scan \in Scans
    BY <2>3 DEF Inv, TypeOK, Slice
  <2>5. ResultRow(j, i) = files[j][q].scan[i]
    BY DEF ResultRow
  <2> HIDE DEF q
  <2> QED
    BY <2>4, <2>5 DEF SingleScan
<1> QED
  BY <1>2, <1>3, <1>4

(* When re-executing the query always gives the same rows in the same      *)
(* order, a completed job holds each of them exactly once and in order,    *)
(* for any number of crashes at any point of the part/manifest/checkpoint  *)
(* sequence, any part size and any number of concurrent jobs.              *)
THEOREM ResultExact == SingleScan => (Spec => []ExactlyOnce)
<1> SUFFICES ASSUME SingleScan PROVE Spec => []ExactlyOnce
  OBVIOUS
<1>1. Init => Cover
  BY InitCover
<1>2. Inv /\ Cover /\ [Next]_vars => Cover'
  BY CoverStep
<1>3. Inv /\ Cover => ExactlyOnce
  BY CoverExact
<1> QED
  BY <1>1, <1>2, <1>3, Invariance, PTL DEF Spec
----------------------------------------------------------------------------
(* The executor's queue and the job table are two records of the same      *)
(* work: where a task is, and what that says of the job's row.             *)

Unfinished == {"UploadComplete", "InProgress"}

(* While the process is up, a job that is not finished has a task.         *)
NoJobForgotten ==
    phase = "up" => \A j \in Jobs : job[j] \in Unfinished /\ ~expired[j] => pc[j] # "none"

(* A task that is to begin its job finds it not begun by anyone else, and  *)
(* one that streams finds it begun.                                        *)
TaskOK ==
    \A j \in Jobs : /\ pc[j] = "begin" => job[j] # "InProgress"
                    /\ pc[j] \in Streaming => job[j] # "UploadComplete"

(* One job's step: the others keep row, task and retention.                *)
LEMMA TaskFrame ==
    ASSUME NoJobForgotten, TaskOK, UNCHANGED phase, NEW j \in Jobs,
           \A k \in Jobs : k # j => /\ job'[k] = job[k] /\ pc'[k] = pc[k]
                                    /\ expired'[k] = expired[k],
           phase = "up" /\ job'[j] \in Unfinished /\ ~expired'[j] => pc'[j] # "none",
           pc'[j] = "begin" => job'[j] # "InProgress",
           pc'[j] \in Streaming => job'[j] # "UploadComplete"
    PROVE  NoJobForgotten' /\ TaskOK'
<1>1. NoJobForgotten'
  BY DEF NoJobForgotten
<1>2. TaskOK'
  BY DEF TaskOK
<1> QED
  BY <1>1, <1>2

LEMMA TaskStep ==
    ASSUME Inv, NoJobForgotten, TaskOK, [Next]_vars
    PROVE  NoJobForgotten' /\ TaskOK'
<1>1. /\ job \in [Jobs -> J!JobStatus] /\ pc \in [Jobs -> Steps] /\ DOMAIN expired = Jobs
  BY DEF Inv, TypeOK
<1>2. ASSUME NEW j \in Jobs, CreateJob(j) PROVE NoJobForgotten' /\ TaskOK'
  <2>1. /\ UNCHANGED <<phase, expired>> /\ job' = [job EXCEPT ![j] = "UploadComplete"]
        /\ pc' = [pc EXCEPT ![j] = "queued"]
    BY <1>2 DEF CreateJob
  <2> QED
    BY <1>1, <2>1, TaskFrame DEF Streaming
<1>3. ASSUME NEW j \in Jobs, Abort(j) PROVE NoJobForgotten' /\ TaskOK'
  <2>1. UNCHANGED <<phase, expired, pc>> /\ job' = [job EXCEPT ![j] = "Aborted"]
    BY <1>3 DEF Abort
  <2> QED
    BY <1>1, <2>1, TaskFrame DEF Unfinished
<1>4. ASSUME NEW j \in Jobs, RetentionEnds(j) PROVE NoJobForgotten' /\ TaskOK'
  <2>1. UNCHANGED <<phase, job, pc>> /\ expired' = [expired EXCEPT ![j] = TRUE]
    BY <1>4 DEF RetentionEnds
  <2>2. expired'[j] /\ \A k \in Jobs : k # j => expired'[k] = expired[k]
    BY <1>1, <2>1
  <2>3. NoJobForgotten'
    BY <2>1, <2>2 DEF NoJobForgotten
  <2>4. TaskOK'
    BY <2>1 DEF TaskOK
  <2> QED
    BY <2>3, <2>4
<1>5. ASSUME NEW j \in Jobs, Dispatch(j) PROVE NoJobForgotten' /\ TaskOK'
  <2>1. /\ UNCHANGED <<phase, job, expired>>
        /\ pc' = [pc EXCEPT ![j] =
                CASE Visible(j) /\ job[j] = "UploadComplete" -> "begin"
                  [] Visible(j) /\ job[j] = "InProgress"     -> "load"
                  [] OTHER                                   -> "none"]
    BY <1>5 DEF Dispatch, durable
  <2>2. job[j] \in Unfinished /\ ~expired[j] => Visible(j)
    BY DEF Visible, Unfinished, J!BulkJobState
  <2>3. \/ Visible(j) /\ job[j] = "UploadComplete" /\ pc'[j] = "begin"
        \/ Visible(j) /\ job[j] = "InProgress" /\ pc'[j] = "load"
        \/ ~(Visible(j) /\ job[j] \in Unfinished) /\ pc'[j] = "none"
    BY <1>1, <2>1 DEF Unfinished
  <2> QED
    BY <1>1, <2>1, <2>2, <2>3, TaskFrame DEF Streaming
<1>6. ASSUME NEW j \in Jobs, Begin(j) PROVE NoJobForgotten' /\ TaskOK'
  <2>1. pc[j] = "begin" /\ UNCHANGED <<phase, expired>>
    BY <1>6 DEF Begin
  <2>2. CASE J!CanMove(job[j], "InProgress")
    <3>1. /\ job' = [job EXCEPT ![j] = "InProgress"]
          /\ pc' = [pc EXCEPT ![j] = IF expired[j] THEN "none" ELSE "load"]
      BY <1>6, <2>2 DEF Begin
    <3>2. job'[j] = "InProgress" /\ (pc'[j] = "load" \/ (pc'[j] = "none" /\ expired[j]))
      BY <1>1, <3>1
    <3> QED
      BY <1>1, <2>1, <3>1, <3>2, TaskFrame
  <2>3. CASE ~J!CanMove(job[j], "InProgress")
    <3>1. UNCHANGED job /\ pc' = [pc EXCEPT ![j] = "none"]
      BY <1>6, <2>3 DEF Begin
    <3>2. J!CanMove("UploadComplete", "InProgress")
      BY DEF J!CanMove, J!AllowedTransitions, J!BulkJobState
    <3>3. job[j] \notin Unfinished
      BY <2>1, <2>3, <3>2 DEF TaskOK, Unfinished
    <3> QED
      BY <1>1, <2>1, <3>1, <3>3, TaskFrame DEF Streaming
  <2> QED
    BY <2>2, <2>3
<1>7. ASSUME NEW j \in Jobs, Load(j) \/ WritePart(j) \/ CommitManifest(j) \/ AddCheckpoint(j)
      PROVE  NoJobForgotten' /\ TaskOK'
  <2>1. PICK p \in Streaming : /\ UNCHANGED <<phase, job, expired>> /\ pc[j] \in Streaming
                               /\ pc' = [pc EXCEPT ![j] = p]
    BY <1>7 DEF Load, WritePart, CommitManifest, AddCheckpoint, Streaming
  <2>2. p \notin {"none", "begin"} /\ job[j] # "UploadComplete"
    BY <2>1 DEF Streaming, TaskOK
  <2> QED
    BY <1>1, <2>1, <2>2, TaskFrame
<1>8. ASSUME NEW j \in Jobs, NEW s \in {"JobComplete", "Failed"}, pc[j] \in Streaming,
             UNCHANGED <<phase, expired>>, pc' = [pc EXCEPT ![j] = "none"],
             job' = [job EXCEPT ![j] = IF J!CanMove(@, s) THEN s ELSE @]
      PROVE  NoJobForgotten' /\ TaskOK'
  <2>1. J!CanMove("InProgress", s)
    BY <1>8 DEF J!CanMove, J!AllowedTransitions, J!BulkJobState
  <2>2. job[j] # "UploadComplete"
    BY <1>8 DEF TaskOK
  <2>3. job'[j] \notin Unfinished
    BY <1>1, <1>8, <2>1, <2>2 DEF Unfinished
  <2> QED
    BY <1>1, <1>8, <2>3, TaskFrame DEF Streaming
<1>9. ASSUME NEW j \in Jobs, Finish(j) \/ StreamFails(j) PROVE NoJobForgotten' /\ TaskOK'
  BY <1>8, <1>9 DEF Finish, StreamFails, EndTask, Streaming
<1>10. CASE Crash \/ ExpireJobs
  <2>1. phase' # "up" /\ \A j \in Jobs : pc'[j] = "none"
    BY <1>10 DEF Crash, ExpireJobs, Inv, ProcessOK
  <2> QED
    BY <2>1 DEF NoJobForgotten, TaskOK, Streaming
<1>11. CASE ResumePending
  <2>1. /\ UNCHANGED <<job, expired>>
        /\ pc' = [j \in Jobs |-> IF job[j] \in Runnable /\ ~expired[j] THEN "queued" ELSE "none"]
    BY <1>11 DEF ResumePending, durable
  <2>2. \A j \in Jobs : /\ job[j] \in Unfinished /\ ~expired[j] => pc'[j] = "queued"
                        /\ pc'[j] \in {"queued", "none"}
    BY <2>1 DEF Runnable, Unfinished
  <2>3. NoJobForgotten'
    BY <2>1, <2>2 DEF NoJobForgotten
  <2>4. TaskOK'
    BY <2>2 DEF TaskOK, Streaming
  <2> QED
    BY <2>3, <2>4
<1>12. CASE Publish \/ (\E j \in Jobs : RemoveArtifacts(j)) \/ UNCHANGED vars
  <2>1. UNCHANGED <<phase, job, expired, pc>>
    BY <1>12 DEF Publish, RemoveArtifacts, vars, durable
  <2> QED
    BY <2>1 DEF NoJobForgotten, TaskOK
<1> QED
  BY <1>2, <1>3, <1>4, <1>5, <1>6, <1>7, <1>9, <1>10, <1>11, <1>12 DEF Next, WorkerStep, StartupStep

(* No query job is forgotten: while the process is up, every job that is   *)
(* neither finished nor expired is queued or in the hands of a thread, at  *)
(* whatever step the last crash came.  With the executor's fairness this   *)
(* is what EveryJobSettles rests on: a row that no task works on would     *)
(* stay UploadComplete or InProgress until the next restart.               *)
THEOREM EveryJobHasTask == Spec => []NoJobForgotten
<1>1. Init => NoJobForgotten /\ TaskOK
  BY DEF Init, NoJobForgotten, TaskOK, Unfinished, Streaming, J!NoJob
<1>2. Inv /\ NoJobForgotten /\ TaskOK /\ [Next]_vars => NoJobForgotten' /\ TaskOK'
  BY TaskStep
<1> QED
  BY <1>1, <1>2, Invariance, PTL DEF Spec
=============================================================================
