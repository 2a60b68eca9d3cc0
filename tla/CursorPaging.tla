---------------------------- MODULE CursorPaging ----------------------------
(***************************************************************************)
(* Synchronous REST queries and their locators: the first page with its id *)
(* index on disk, the cursor row that pins the index to a snapshot of the  *)
(* data, query_more, the deadline that abandons a worker thread, process   *)
(* crashes and the clean-up at startup.                                    *)
(*                                                                         *)
(* Abstractions.  A query is its result: an order of the ids it matches,   *)
(* for every snapshot of the data; a record is the id and the snapshot its *)
(* fields were read from.  A connection reads one snapshot, the one its    *)
(* view was built on (see Compaction).  One client follows each locator.   *)
(***************************************************************************)
EXTENDS Integers, Sequences, FiniteSets, SequencesExt, Lists

CONSTANTS
    Locators,      \* locator ids, one per query a client starts
    Ids,           \* record ids
    LastSnapshot,  \* bound on publications of new data
    Results,       \* Results[v]: the orders a scan of snapshot v may have
    BatchSize,     \* page size of the request
    MaxRetries,    \* bound on deadlines that pass and on replies that are lost
    MaxCrashes     \* bound on process crashes

Snapshots == 0..LastSnapshot

ASSUME CursorAssumption ==
    /\ LastSnapshot \in Nat /\ MaxRetries \in Nat /\ MaxCrashes \in Nat
    /\ BatchSize \in Nat \ {0}
    /\ DOMAIN Results = Snapshots
    /\ \A v \in Snapshots : /\ Results[v] # {}
                            /\ \A o \in Results[v] : o \in Seq(Ids) /\ IsInjective(o)
                            /\ \A o, p \in Results[v] : ToSet(o) = ToSet(p)

VARIABLES
    \* durable
    snapshot,  \* CATALOG.snapshot_id
    cursor,    \* rows of the cursors table
    artifact,  \* <locator>.parquet: the indexed ids, or NoFile
    \* lost with the process
    phase,     \* "down", "expired", "sweep" (startup), "up"
    active,    \* result of active_cursor_artifacts
    zombie,    \* locators whose worker thread outlived its deadline
    \* client and history
    client,    \* the request in flight and the records received
    torn,      \* locators that had a request in flight when data was published
    retries, crashes

server == <<phase, active, zombie>>
vars == <<snapshot, cursor, artifact, server, client, torn, retries, crashes>>

NoFile == [ids |-> <<>>, exists |-> FALSE]
NoCursor == [open |-> FALSE, expired |-> FALSE, snapshot |-> 0, total |-> 0]
NewClient == [pc |-> "new", snapshot |-> 0, total |-> 0, next |-> 0, got |-> <<>>]

Record(v, i) == [id |-> i, snapshot |-> v]
Records(v, ids) == [k \in DOMAIN ids |-> Record(v, ids[k])]
Matching(v) == UNION {ToSet(o) : o \in Results[v]}

(* Mutant: the offset is taken for a page number.                          *)
PageOfNumber(seq, offset) ==
    LET end == (offset + 1) * BatchSize
    IN  SubSeq(seq, offset * BatchSize + 1, IF end < Len(seq) THEN end ELSE Len(seq))

(* LIMIT/OFFSET of the first page, sequence_number range of the others.    *)
PageOf(seq, offset) ==
    LET end == offset + BatchSize
    IN  SubSeq(seq, offset + 1, IF end < Len(seq) THEN end ELSE Len(seq))

(* get_cursor: the row, unless its two days are over.                      *)
Visible(l) == cursor[l].open /\ ~cursor[l].expired

Init ==
    /\ snapshot = 0
    /\ cursor = [l \in Locators |-> NoCursor]
    /\ artifact = [l \in Locators |-> NoFile]
    /\ phase = "down" /\ active = {} /\ zombie = {}
    /\ client = [l \in Locators |-> NewClient]
    /\ torn = {} /\ retries = 0 /\ crashes = 0

-----------------------------------------------------------------------------
(* The simulator publishes, or a compaction replaces files: snapshot_id    *)
(* moves.                                                                  *)
Publish ==
    /\ snapshot < LastSnapshot
    /\ snapshot' = snapshot + 1
    /\ torn' = torn \cup {l \in Locators : client[l].pc \in {"open", "indexed", "checked"}}
    /\ UNCHANGED <<cursor, artifact, server, client, retries, crashes>>

(* Two days pass.                                                          *)
Lapse(l) ==
    /\ Visible(l)
    /\ cursor' = [cursor EXCEPT ![l].expired = TRUE]
    /\ UNCHANGED <<snapshot, artifact, server, client, retries, crashes, torn>>

-----------------------------------------------------------------------------
(* _run_query: the worker thread opens its connection.                     *)
Open(l) ==
    /\ phase = "up" /\ client[l].pc = "new"
    /\ client' = [client EXCEPT ![l].pc = "open", ![l].snapshot = snapshot]
    /\ UNCHANGED <<snapshot, cursor, artifact, server, retries, crashes, torn>>

(* _execute_page_with_cursor_index: the count, the first page and, unless  *)
(* that is all, the index; each scans the result anew.                     *)
FirstPage(l) ==
    /\ client[l].pc = "open"
    /\ \E first, index \in Results[client[l].snapshot] :
        LET page == Records(client[l].snapshot, PageOf(first, 0))
            last == Len(page) >= Len(first)
        IN  /\ client' = [client EXCEPT ![l].pc = IF last THEN "done" ELSE "indexed",
                                        ![l].total = Len(first), ![l].got = page]
            /\ artifact' = IF last THEN artifact
                           ELSE [artifact EXCEPT ![l] = [ids |-> index, exists |-> TRUE]]
    /\ UNCHANGED <<snapshot, cursor, server, retries, crashes, torn>>

(* _page: the cursor is stored, pinned to the snapshot id of this moment,  *)
(* and the page goes out with nextRecordsUrl.                              *)
CreateCursor(l) ==
    /\ client[l].pc = "indexed"
    /\ cursor' = [cursor EXCEPT ![l] = [open |-> TRUE, expired |-> FALSE,
                                        snapshot |-> snapshot, total |-> client[l].total]]
    /\ client' = [client EXCEPT ![l].pc = "idle", ![l].next = Len(client[l].got)]
    /\ UNCHANGED <<snapshot, artifact, server, retries, crashes, torn>>

(* run_with_deadline gives up on the first query: 500 to the client, and a *)
(* thread that was asked to stop but may still be running.                 *)
FirstDeadline(l) ==
    /\ client[l].pc = "open" /\ retries < MaxRetries
    /\ client' = [client EXCEPT ![l].pc = "failed"]
    /\ zombie' = zombie \cup {l}
    /\ retries' = retries + 1
    /\ UNCHANGED <<snapshot, cursor, artifact, phase, active, crashes, torn>>

(* That thread was interrupted, or it had passed the last point where      *)
(* interrupt() could reach it and publishes its index.                     *)
ZombieEnds(l) ==
    /\ l \in zombie
    /\ zombie' = zombie \ {l}
    /\ \/ UNCHANGED artifact
       \/ \E index \in Results[client[l].snapshot] :
              artifact' = [artifact EXCEPT ![l] = [ids |-> index, exists |-> TRUE]]
    /\ UNCHANGED <<snapshot, cursor, phase, active, client, retries, crashes, torn>>

-----------------------------------------------------------------------------
(* Mutant: the snapshot is not compared.                                   *)
MoreAnySnapshot(l) ==
    /\ phase = "up" /\ client[l].pc = "idle"
    /\ LET valid == /\ Visible(l)
                    /\ artifact[l].exists
                    /\ client[l].next < cursor[l].total
       IN  client' = [client EXCEPT ![l].pc = IF valid THEN "checked" ELSE "failed"]
    /\ UNCHANGED <<snapshot, cursor, artifact, server, retries, crashes, torn>>

(* query_more up to the worker: the locator is known, pinned to the        *)
(* current snapshot, its index exists and the offset is inside, or the     *)
(* client gets INVALID_QUERY_LOCATOR.                                      *)
More(l) ==
    /\ phase = "up" /\ client[l].pc = "idle"
    /\ LET valid == /\ Visible(l)
                    /\ cursor[l].snapshot = snapshot
                    /\ artifact[l].exists
                    /\ client[l].next < cursor[l].total
       IN  client' = [client EXCEPT ![l].pc = IF valid THEN "checked" ELSE "failed"]
    /\ UNCHANGED <<snapshot, cursor, artifact, server, retries, crashes, torn>>

(* fetch_records_for_locator: the ids of the page from the index, and of   *)
(* these the records that the source has now, in the order of the index.   *)
PageNow(l) ==
    LET page == PageOf(artifact[l].ids, client[l].next)
        kept == {k \in DOMAIN page : page[k] \in Matching(snapshot)}
    IN  Records(snapshot, Kept(page, kept))

(* The page goes out, with nextRecordsUrl unless it is the last.           *)
MoreReply(l) ==
    /\ client[l].pc = "checked"
    /\ LET page == PageNow(l)
           last == client[l].next + Len(page) >= cursor[l].total
       IN  client' = [client EXCEPT ![l].pc = IF last THEN "done" ELSE "idle",
                                    ![l].next = @ + Len(page),
                                    ![l].got = @ \o page]
    /\ UNCHANGED <<snapshot, cursor, artifact, server, retries, crashes, torn>>

(* QUERY_TIMEOUT, or the reply is lost: a worker that reads changes        *)
(* nothing, and the client repeats the request.                            *)
MoreRepeated(l) ==
    /\ client[l].pc = "checked" /\ retries < MaxRetries
    /\ client' = [client EXCEPT ![l].pc = "idle"]
    /\ retries' = retries + 1
    /\ UNCHANGED <<snapshot, cursor, artifact, server, crashes, torn>>

-----------------------------------------------------------------------------
(* The process dies with its requests and threads.                         *)
Crash ==
    /\ phase # "down" /\ crashes < MaxCrashes
    /\ phase' = "down" /\ active' = {} /\ zombie' = {}
    /\ client' = [l \in Locators |->
           CASE client[l].pc \in {"open", "indexed"} -> [client[l] EXCEPT !.pc = "failed"]
             [] client[l].pc = "checked" -> [client[l] EXCEPT !.pc = "idle"]
             [] OTHER -> client[l]]
    /\ crashes' = crashes + 1
    /\ UNCHANGED <<snapshot, cursor, artifact, retries, torn>>

(* recover_cursor_artifacts: expire_cursors deletes the expired rows and   *)
(* returns their artifacts, which are no longer active either.             *)
ExpireCursors ==
    /\ phase = "down"
    /\ phase' = "expired"
    /\ cursor' = [l \in Locators |-> IF cursor[l].expired THEN NoCursor ELSE cursor[l]]
    /\ UNCHANGED <<snapshot, artifact, active, zombie, client, retries, crashes, torn>>

(* Mutant: only the rows that have expired are asked for.                  *)
ListExpired ==
    /\ phase = "expired"
    /\ phase' = "sweep"
    /\ active' = {l \in Locators : cursor[l].open /\ cursor[l].expired}
    /\ UNCHANGED <<snapshot, cursor, artifact, zombie, client, retries, crashes, torn>>

ListActive ==
    /\ phase = "expired"
    /\ phase' = "sweep"
    /\ active' = {l \in Locators : Visible(l)}
    /\ UNCHANGED <<snapshot, cursor, artifact, zombie, client, retries, crashes, torn>>

(* reconcile removes what no active cursor owns, one file after the other. *)
RemoveArtifact(l) ==
    /\ phase = "sweep" /\ artifact[l].exists /\ l \notin active
    /\ artifact' = [artifact EXCEPT ![l] = NoFile]
    /\ UNCHANGED <<snapshot, cursor, server, client, retries, crashes, torn>>

(* Mutant: the glob over the directory is left out.                        *)
FinishEarly ==
    /\ phase = "sweep"
    /\ phase' = "up" /\ active' = {}
    /\ UNCHANGED <<snapshot, cursor, artifact, zombie, client, retries, crashes, torn>>

FinishStartup ==
    /\ phase = "sweep" /\ \A l \in Locators : artifact[l].exists => l \in active
    /\ phase' = "up" /\ active' = {}
    /\ UNCHANGED <<snapshot, cursor, artifact, zombie, client, retries, crashes, torn>>

-----------------------------------------------------------------------------
(* The steps of the server that follow a request without a choice.         *)
Serve(l) == FirstPage(l) \/ CreateCursor(l) \/ MoreReply(l) \/ ZombieEnds(l)

Startup == \/ ExpireCursors \/ ListActive \/ FinishStartup
           \/ \E l \in Locators : RemoveArtifact(l)

Next ==
    \/ Publish \/ Crash \/ Startup
    \/ \E l \in Locators : \/ Lapse(l) \/ Open(l) \/ Serve(l) \/ FirstDeadline(l)
                           \/ More(l) \/ MoreRepeated(l)

Spec == Init /\ [][Next]_vars

(* The server is restarted when it is down, serves what it accepted, and   *)
(* the client keeps following nextRecordsUrl.                              *)
FairSpec ==
    /\ Spec
    /\ WF_vars(Startup)
    /\ \A l \in Locators : WF_vars(Serve(l)) /\ WF_vars(More(l))

-----------------------------------------------------------------------------
(* A client that has followed nextRecordsUrl to the end holds one result   *)
(* of one snapshot: every matching record once, in one order, all fields   *)
(* from the snapshot the query started on, although each page was read by  *)
(* another connection, after crashes, timeouts and repeated requests.  Not *)
(* so if data was published while one of its requests was in flight: the   *)
(* snapshot is pinned after the index is built and checked before a page   *)
(* is read.                                                                *)
ExtractExact ==
    \A l \in Locators \ torn : client[l].pc = "done" =>
        \E order \in Results[client[l].snapshot] :
            client[l].got = Records(client[l].snapshot, order)

(* The index of a cursor that a client may still follow is on disk, before *)
(* the row is visible and through every crash and clean-up.                *)
OpenCursorReadable == \A l \in Locators : Visible(l) => artifact[l].exists

(* Once startup is over, no index is left that no cursor owns, whatever    *)
(* deadline or crash orphaned it.                                          *)
StartupLeavesNoOrphan ==
    [][phase = "sweep" /\ phase' = "up" =>
           \A l \in Locators : artifact'[l].exists => cursor'[l].open]_vars

(* A client that follows nextRecordsUrl comes to the last page or to an    *)
(* error: it is never sent round on the same offset, unless its index was  *)
(* pinned to a snapshot it was not built on.                               *)
EveryExtractEnds ==
    \A l \in Locators : client[l].pc = "idle" ~> (client[l].pc \in {"done", "failed"} \/ l \in torn)
=============================================================================
