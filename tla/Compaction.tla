----------------------------- MODULE Compaction -----------------------------
(***************************************************************************)
(* The files of one CRM object and the three processes that share them     *)
(* without a lock: the simulator publishes one partition per business      *)
(* date, the compactor (a cron job) merges the partitions into             *)
(* compacted/base.parquet and unlinks them, and FakeForce resolves the     *)
(* files of a query through a cache and reads them.                        *)
(*                                                                         *)
(* Abstractions.  A file holds one row per id, a row is the set of         *)
(* publications it was built from (see Dataset) and its version is the     *)
(* last of them.  The modification time of a file or directory stands for  *)
(* the content it dates.  DuckDB opens the files of a query in one step; a *)
(* path that is gone by then is an error.  The simulator's other objects   *)
(* and its manifest are in DailyRun.                                       *)
(***************************************************************************)
EXTENDS Integers, FiniteSets, FiniteSetsExt

CONSTANTS
    Ids, SeedIds, LastDate, Changed,  \* see Dataset
    Sessions,           \* query connections of the FakeForce process
    FirstWhileListing   \* TRUE: the first base.parquet of the object may appear
                        \* while another process lists its files

Dates == 1..LastDate

ASSUME CompactionAssumption ==
    /\ SeedIds \subseteq Ids
    /\ LastDate \in Nat
    /\ Changed \in [Dates -> SUBSET Ids]
    /\ \A d \in Dates : Changed[d] # {}  \* a date without events leaves no partition
    /\ FirstWhileListing \in BOOLEAN

VARIABLES
    \* durable
    published,  \* last date the simulator published
    disk,       \* dates whose partition is on disk
    part,       \* rows of the partitions
    compacted,  \* base.parquet exists
    base,       \* its rows
    \* processes
    sim,        \* simulator: publication of the next date
    comp,       \* compactor
    cache,      \* _ResolutionCache of the object's DatasetSpec
    sess        \* locals of the sessions

files == <<published, disk, part, compacted, base>>
vars == <<files, sim, comp, cache, sess>>

NoRows == [i \in Ids |-> {}]
SeedFile == [i \in Ids |-> IF i \in SeedIds THEN {0} ELSE {}]

(* The rows of a base path: one of the configured sources or base.parquet. *)
BaseRows(path) == IF path = "seed" THEN SeedFile ELSE base

(* row_number() = 1 over the version field, descending, among the rows     *)
(* that some files hold for one id.                                        *)
Newest(rows) ==
    LET present == rows \ {{}}
    IN  IF present = {} THEN {}
        ELSE CHOOSE r \in present : \A q \in present : Max(q) <= Max(r)

(* The newest row per id of some base paths and partitions together.       *)
Ranked(paths, dates) ==
    [i \in Ids |-> Newest({BaseRows(p)[i] : p \in paths} \cup {part[d][i] : d \in dates})]

(* _latest_version_sql: the files outside base_paths are ranked among      *)
(* themselves, and the base contributes the ids none of them has.          *)
Overlay(paths, others, dates) ==
    LET delta == Ranked(others, dates)
    IN  [i \in Ids |-> IF delta[i] # {} THEN delta[i] ELSE Ranked(paths, {})[i]]

effective_base == IF compacted THEN {"compacted"} ELSE {"seed"}

(* The entries of the delta root, each with its modification time.  The    *)
(* content of a partition never changes.                                   *)
_directory_signature == [dates |-> disk, compacted |-> compacted, base |-> base]

(* Mutant: the partitions are not signed.                                  *)
fingerprint_of_base == [seed |-> SeedFile, delta |-> [_directory_signature EXCEPT !.dates = {}]]

structural_fingerprint == [seed |-> SeedFile, delta |-> _directory_signature]

(* What a query that meets no other process answers.                       *)
EngineRows == Overlay(effective_base, {}, disk)

(* What the simulator's readers see: the seed, and every *.parquet below   *)
(* the delta root as a delta, base.parquet included.                       *)
SimulatorRows ==
    Overlay({"seed"}, IF compacted THEN {"compacted"} ELSE {}, disk)

NoStamp == [seed |-> NoRows, delta |-> [dates |-> {}, compacted |-> FALSE, base |-> NoRows]]
IdleSim  == [pc |-> "idle", compacted |-> FALSE, dates |-> {}, rows |-> NoRows]
IdleComp == [pc |-> "idle", paths |-> {}, dates |-> {}, rows |-> NoRows]
IdleSess == [pc |-> "idle", start |-> 0, stamp |-> NoStamp,
             paths |-> {}, dates |-> {}, others |-> {},
             ok |-> FALSE, rows |-> NoRows]

Init ==
    /\ published = 0 /\ disk = {} /\ part = [d \in Dates |-> NoRows]
    /\ compacted = FALSE /\ base = NoRows
    /\ sim = IdleSim /\ comp = IdleComp
    /\ cache = [valid |-> FALSE, stamp |-> NoStamp, paths |-> {}, dates |-> {}]
    /\ sess = [s \in Sessions |-> IdleSess]

-----------------------------------------------------------------------------
(* The simulator: CrmDeltaPublisher.publish for one object.                *)

Date == published + 1

(* _current_rows lists the files below the object's delta directory ...    *)
SimList ==
    /\ sim.pc = "idle" /\ published < LastDate
    /\ sim' = [sim EXCEPT !.pc = "listed", !.compacted = compacted, !.dates = disk]
    /\ UNCHANGED <<files, comp, cache, sess>>

(* ... drops the paths that are gone by now, and ranks the rest with the   *)
(* seed.                                                                   *)
SimRead ==
    /\ sim.pc = "listed"
    /\ sim' = [sim EXCEPT
           !.pc = "read",
           !.rows = Ranked({"seed"} \cup (IF sim.compacted THEN {"compacted"} ELSE {}),
                           sim.dates \cap disk)]
    /\ UNCHANGED <<files, comp, cache, sess>>

(* The first event of a record that is not in the seed creates it.         *)
Creates(i, d) == i \notin SeedIds /\ \A e \in 1..(d - 1) : i \notin Changed[e]

(* _materialize refuses to create what exists and to update what does not. *)
Materializes ==
    \A i \in Changed[Date] : Creates(i, Date) <=> sim.rows[i] = {}

(* _materialize applies the events to the rows that were read, and         *)
(* os.replace publishes the partition.                                     *)
SimPublish ==
    /\ sim.pc = "read" /\ Materializes
    /\ part' = [part EXCEPT ![Date] = [i \in Ids |->
           IF i \in Changed[Date] THEN sim.rows[i] \cup {Date} ELSE {}]]
    /\ disk' = disk \cup {Date}
    /\ published' = Date
    /\ sim' = IdleSim
    /\ UNCHANGED <<compacted, base, comp, cache, sess>>

(* A crash, an error of the read, or CrmDeltaError: nothing is published,  *)
(* and a retry starts again.                                               *)
SimFail ==
    /\ sim.pc # "idle"
    /\ sim' = IdleSim
    /\ UNCHANGED <<files, comp, cache, sess>>

-----------------------------------------------------------------------------
(* The compactor: DeltaCompactor.compact for the object.                   *)

(* plan: the base and the partitions of this moment.  Without partitions   *)
(* there is nothing to do.                                                 *)
Plan ==
    /\ comp.pc = "idle" /\ disk # {}
    /\ comp' = [comp EXCEPT !.pc = "planned", !.paths = effective_base, !.dates = disk]
    /\ UNCHANGED <<files, sim, cache, sess>>

(* Mutant: the base is left out of the merge.                              *)
WriteMergedParts ==
    /\ comp.pc = "planned"
    /\ comp' = [comp EXCEPT !.pc = "written", !.rows = Ranked({}, comp.dates)]
    /\ UNCHANGED <<files, sim, cache, sess>>

(* _write_merged up to the finished temporary file.                        *)
WriteMerged ==
    /\ comp.pc = "planned"
    /\ comp' = [comp EXCEPT !.pc = "written", !.rows = Ranked(comp.paths, comp.dates)]
    /\ UNCHANGED <<files, sim, cache, sess>>

(* Nobody holds a listing of the object that is without base.parquet and   *)
(* not complete yet: a query between its two listings, or the simulator    *)
(* between its glob and the is_file filter.                                *)
NobodyLists ==
    /\ sim.pc # "listed"
    /\ \A s \in Sessions : sess[s].pc # "base"

(* os.replace of the temporary file.                                       *)
Replace ==
    /\ comp.pc = "written"
    /\ compacted \/ FirstWhileListing \/ NobodyLists
    /\ base' = comp.rows /\ compacted' = TRUE
    /\ comp' = [comp EXCEPT !.pc = "remove"]
    /\ UNCHANGED <<published, disk, part, sim, cache, sess>>

(* Mutant: the newest partition goes first.                                *)
RemoveNewest ==
    /\ comp.pc = "remove" /\ comp.dates # {}
    /\ disk' = disk \ {Max(comp.dates)}
    /\ comp' = [comp EXCEPT !.dates = @ \ {Max(comp.dates)}]
    /\ UNCHANGED <<published, part, compacted, base, sim, cache, sess>>

(* _remove unlinks the planned partitions in the order of their sorted     *)
(* paths, the oldest date first, each with its directory.                  *)
Remove ==
    /\ comp.pc = "remove" /\ comp.dates # {}
    /\ disk' = disk \ {Min(comp.dates)}
    /\ comp' = [comp EXCEPT !.dates = @ \ {Min(comp.dates)}]
    /\ UNCHANGED <<published, part, compacted, base, sim, cache, sess>>

Finish ==
    /\ comp.pc = "remove" /\ comp.dates = {}
    /\ comp' = IdleComp
    /\ UNCHANGED <<files, sim, cache, sess>>

(* A crash, a full disk, a failed copy.                                    *)
CompFail ==
    /\ comp.pc # "idle"
    /\ comp' = IdleComp
    /\ UNCHANGED <<files, sim, cache, sess>>

-----------------------------------------------------------------------------
(* A query of FakeForce: connection, view, execution.                      *)

Move(s, from, to) == sess[s].pc = from /\ to.pc # from /\ sess' = [sess EXCEPT ![s] = to]

(* Only one session at a time is inside _ResolutionCache.get.              *)
LockFree == \A s \in Sessions : sess[s].pc # "base"

(* current_sources takes the fingerprint before it asks the cache.         *)
Begin(s) ==
    /\ Move(s, "idle", [IdleSess EXCEPT !.pc = "stamped", !.start = published,
                                        !.stamp = structural_fingerprint])
    /\ UNCHANGED <<files, sim, comp, cache>>

CacheHit(s) ==
    /\ LockFree /\ cache.valid /\ cache.stamp = sess[s].stamp
    /\ Move(s, "stamped", [sess[s] EXCEPT !.pc = "sourced", !.paths = cache.paths,
                                          !.dates = cache.dates])
    /\ UNCHANGED <<files, sim, comp, cache>>

(* _resolve_sources: effective_base first ...                              *)
ResolveBase(s) ==
    /\ LockFree /\ ~(cache.valid /\ cache.stamp = sess[s].stamp)
    /\ Move(s, "stamped", [sess[s] EXCEPT !.pc = "base", !.paths = effective_base])
    /\ UNCHANGED <<files, sim, comp, cache>>

(* ... then published_deltas; the pair is stored under the fingerprint.    *)
ResolveDeltas(s) ==
    /\ Move(s, "base", [sess[s] EXCEPT !.pc = "sourced", !.dates = disk])
    /\ cache' = [valid |-> TRUE, stamp |-> sess[s].stamp,
                 paths |-> sess[s].paths, dates |-> disk]
    /\ UNCHANGED <<files, sim, comp>>

(* _latest_version_sql asks for the base again: what is not the base now   *)
(* is ranked with the deltas.                                              *)
CreateView(s) ==
    /\ Move(s, "sourced", [sess[s] EXCEPT !.pc = "viewed",
                                          !.paths = @ \cap effective_base,
                                          !.others = sess[s].paths \ effective_base])
    /\ UNCHANGED <<files, sim, comp, cache>>

(* The query runs, or fails with a path that is gone.                      *)
Execute(s) ==
    LET ok == sess[s].dates \subseteq disk
    IN  /\ Move(s, "viewed", [sess[s] EXCEPT
               !.pc = "answered", !.ok = ok,
               !.rows = IF ok THEN Overlay(sess[s].paths, sess[s].others, sess[s].dates)
                        ELSE NoRows])
        /\ UNCHANGED <<files, sim, comp, cache>>

Close(s) ==
    /\ Move(s, "answered", IdleSess)
    /\ UNCHANGED <<files, sim, comp, cache>>

-----------------------------------------------------------------------------
Simulate == SimList \/ SimRead \/ SimPublish \/ SimFail
Compact  == Plan \/ WriteMerged \/ Replace \/ Remove \/ Finish \/ CompFail
Query(s) == \/ Begin(s) \/ CacheHit(s) \/ ResolveBase(s) \/ ResolveDeltas(s)
            \/ CreateView(s) \/ Execute(s) \/ Close(s)

Next == Simulate \/ Compact \/ \E s \in Sessions : Query(s)

Spec == Init /\ [][Next]_vars

-----------------------------------------------------------------------------
D == INSTANCE Dataset WITH latest <- EngineRows

(* What a query resolves changes only when a date is published, and then   *)
(* by exactly that date's events: no step of a compaction, and no crash    *)
(* between its os.replace and its last unlink, changes the answer, and     *)
(* nothing the simulator materialized from a listing is lost.              *)
ImplementsDataset == D!Spec

(* A query that compactions, publications and other sessions overlap gives *)
(* every record as it was after some date between the query's start and    *)
(* its end, or fails: no row is lost, invented, or older than the query.   *)
RowsOfItsTime ==
    \A s \in Sessions : sess[s].pc = "answered" /\ sess[s].ok =>
        \A i \in Ids : \E n \in sess[s].start..published :
            sess[s].rows[i] = D!Current(n)[i]

(* A query mixes the records of different dates only when base.parquet was *)
(* replaced after its fingerprint; otherwise it answers with the object as *)
(* it was after one date, whatever was published or unlinked meanwhile.    *)
AnswersOneState ==
    [][\A s \in Sessions :
           /\ sess[s].pc = "viewed" /\ sess'[s].pc = "answered" /\ sess'[s].ok
           /\ base = sess[s].stamp.delta.base
           => \E n \in sess[s].start..published : sess'[s].rows = D!Current(n)]_vars

(* The claim without that exception: a query answers with the state after  *)
(* some date between its start and its end, or fails.                      *)
ReadsOneState ==
    \A s \in Sessions : sess[s].pc = "answered" /\ sess[s].ok =>
        \E n \in sess[s].start..published : sess[s].rows = D!Current(n)

(* The simulator's readers, which know nothing of the merged base and take *)
(* it for a partition, and FakeForce's engine, which puts it under the     *)
(* partitions, resolve every id to the same row at every step of a         *)
(* compaction.                                                             *)
SimulatorAgrees == SimulatorRows = EngineRows

(* A query fails only when the files moved after it took its fingerprint:  *)
(* the cache never hands out paths that were already gone.                 *)
FailsOnlyIfMoved ==
    [][\A s \in Sessions :
           sess[s].pc = "viewed" /\ sess'[s].pc = "answered" /\ ~sess'[s].ok
           => sess[s].stamp # structural_fingerprint]_vars
=============================================================================
