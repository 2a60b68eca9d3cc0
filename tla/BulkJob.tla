------------------------------ MODULE BulkJob ------------------------------
(***************************************************************************)
(* What the Bulk API promises about the state of a job, whatever worker,   *)
(* request handler or startup sweep moves it: the lifecycle graph of       *)
(* fakeforce/bulk/jobs.py, and nothing else.  BulkQuery and BulkIngest are *)
(* shown to implement it.                                                  *)
(***************************************************************************)
CONSTANT Jobs

VARIABLE job        \* job[j]: the jobs row of j, or NoJob / Removed

NoJob   == "NoJob"    \* never created
Removed == "Removed"  \* deleted at the end of its retention; ids are random
                      \* tokens and are not reused

BulkJobState == {"Open", "UploadComplete", "InProgress",
                 "JobComplete", "Failed", "Aborted"}

JobStatus == BulkJobState \cup {NoJob, Removed}

AllowedTransitions ==
    [s \in BulkJobState |->
        CASE s = "Open"           -> {"UploadComplete", "Aborted"}
          [] s = "UploadComplete" -> {"InProgress", "Aborted"}
          [] s = "InProgress"     -> {"JobComplete", "Failed", "Aborted"}
          [] OTHER                -> {}]

(* validate_transition: the check every state change goes through.         *)
CanMove(from, to) == from \in BulkJobState /\ to \in AllowedTransitions[from]

Terminal == {s \in BulkJobState : AllowedTransitions[s] = {}}

Init == job = [j \in Jobs |-> NoJob]

(* A query job is created UploadComplete, an ingest job Open.              *)
Create(j) ==
    /\ job[j] = NoJob
    /\ \E s \in {"Open", "UploadComplete"} : job' = [job EXCEPT ![j] = s]

Transition(j) ==
    \E s \in BulkJobState :
        /\ CanMove(job[j], s)
        /\ job' = [job EXCEPT ![j] = s]

(* expire_jobs deletes all the expired jobs in one transaction.            *)
Expire ==
    \E S \in SUBSET {j \in Jobs : job[j] \in BulkJobState} :
        job' = [j \in Jobs |-> IF j \in S THEN Removed ELSE job[j]]

Next == Expire \/ \E j \in Jobs : Create(j) \/ Transition(j)

Spec == Init /\ [][Next]_job
=============================================================================
