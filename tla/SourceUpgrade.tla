---------------------------- MODULE SourceUpgrade ----------------------------
(***************************************************************************)
(* One source database from its first schema to the current one: the       *)
(* checksummed migrations, the one-time seed load, the simulator's gate on *)
(* the baseline, the audit-timestamp backfill between migrations 003 and   *)
(* 004, and the inferred-history backfill after 005..008, with the         *)
(* simulator writing and runners crashing in between.                      *)
(*                                                                         *)
(* Abstractions.  The database has one business table, of one of the kinds *)
(* of HistoryInference; a row is its columns there and whether its audit   *)
(* timestamps are filled in (an order's: those of its lines, as the header *)
(* has had its own since 001).  A migration file is its checksum; what     *)
(* matters of each is named below.  Transactions that begin by taking an   *)
(* exclusive lock are one step.  A release's simulator writes what its     *)
(* migrations describe, audit fields from 002 on and history from 005..008,*)
(* and runs until the next release is up, while that one's migrations run. *)
(***************************************************************************)
EXTENDS HistoryInference, FiniteSets, SequencesExt

CONSTANTS
    RowKinds,        \* kinds of table to look at
    Checkouts,       \* releases in the order they are deployed: file checksums
    Seeds,           \* Seeds[kind]: seed files load.py may find
    SimDay,          \* the simulator's dates begin here, after the seed's
    MaxRows,         \* bound on rows
    BatchSize,       \* --batch-size
    AuditRunners,    \* audit_backfill processes
    HistoryRunners,  \* history_backfill processes
    MaxCrashes       \* bound on runners that die

Runners == AuditRunners \cup HistoryRunners
Targets == {"audit", "history"}
TargetOf(r) == IF r \in AuditRunners THEN "audit" ELSE "history"

(* The rows that the NOT NULL and CHECK constraints of migration 001 admit.*)
Stamps == [day: Nat, hour: 0..HoursPerDay - 1, whole: {FALSE}]
Dates  == [day: Nat, hour: {0}, whole: {TRUE}]
RowOf(k) ==
    CASE k = "order"    -> {r \in [status: {"PENDING", "SHIPPED", "INVOICED", "CANCELLED"}, created: Stamps,
                                   ship: Dates \cup {Null}, invoice: Stamps \cup {Null}, updated: Stamps] :
                               _is_not_before(r.updated, r.created)}
      [] k = "shipment" -> {r \in [ship: Dates, delivered: Dates \cup {Null}] :
                               r.delivered = Null \/ _is_not_before(r.delivered, r.ship)}
      [] k = "invoice"  -> [status: {"ISSUED", "VOID"}, created: Stamps, updated: Stamps \cup {Null}]
      [] k = "case"     -> {r \in [status: {"Open", "Resolved", "Closed"}, opened: Stamps,
                                   resolution_hours: Nat \cup {-1}, updated: Stamps \cup {Null}] :
                               r.status = "Open" => r.resolution_hours = -1}

(* A seed file has the columns of migration 002 for all its rows, or none. *)
Filled(k, r) == k \in {"invoice", "case"} => _is_date(r.updated)
HasColumns(k, seed) == k \in {"invoice", "case"} /\ \A i \in DOMAIN seed : Filled(k, seed[i])
LacksColumns(k, seed) == k \in {"invoice", "case"} => \A i \in DOMAIN seed : ~Filled(k, seed[i])

Free == "free"

ASSUME UpgradeAssumption ==
    /\ RowKinds \subseteq Kinds
    /\ Checkouts \in Seq(Seq(STRING)) /\ Checkouts # <<>>
    /\ \A i \in DOMAIN Checkouts : Checkouts[i] # <<>>
    /\ DOMAIN Seeds = RowKinds
    /\ \A k \in RowKinds : \A seed \in Seeds[k] :
           seed \in Seq(RowOf(k)) /\ (HasColumns(k, seed) \/ LacksColumns(k, seed))
    /\ SimDay \in Nat /\ MaxRows \in Nat /\ MaxCrashes \in Nat
    /\ BatchSize \in Nat \ {0}
    /\ AuditRunners \cap HistoryRunners = {} /\ Free \notin Runners

VARIABLES
    kind,      \* the table
    checkout,  \* the release that is deployed
    ledger,    \* simulation.schema_migrations: checksums of 1, 2, ...
    rows,      \* the business table: columns, audit timestamps filled in,
               \* whether the simulator inserted the row
    history,   \* the status history table
    progress,  \* simulation.audit_backfill_progress
    lock,      \* holder of the audit backfill's advisory lock
    runner,    \* backfill processes: step, keys read, events inferred
    image,     \* the release whose simulator is up, 0 before the first
    sim,       \* that simulator is "waiting" for the baseline, or "ready"
    late,      \* rows written by a simulator older than the schema (ghost)
    crashes

vars == <<kind, checkout, ledger, rows, history, progress, lock, runner, image, sim, late, crashes>>

Idle == [pc |-> "idle", keys |-> {}, events |-> {}]
NoProgress == [exists |-> FALSE, last |-> 0, scanned |-> 0, completed |-> FALSE]

(* What the migrations bring.                                              *)
HasAudit    == Len(ledger) >= 2
HasProgress == Len(ledger) >= 3
Enforced    == 4
HistoryVersion(k) == CASE k = "order" -> 5 [] k = "shipment" -> 6 [] k = "invoice" -> 7 [] OTHER -> 8
HasHistory  == Len(ledger) >= HistoryVersion(kind)

InTransaction(r) == runner[r].pc = "read"

-----------------------------------------------------------------------------
(* Rows.                                                                   *)

Keys == DOMAIN rows

(* The audit backfill's update, and the loader's expressions for a seed    *)
(* without the columns: what is there already is kept.                     *)
Fill(k, r) ==
    CASE k = "invoice" /\ ~_is_date(r.updated) -> [r EXCEPT !.updated = r.created]
      [] k = "case" /\ ~_is_date(r.updated) ->
             [r EXCEPT !.updated = IF r.resolution_hours < 0 THEN r.opened
                                   ELSE AddHours(r.opened, r.resolution_hours)]
      [] OTHER -> r

(* CHECK (updated_at >= created_at) of migration 004; NULL satisfies it.   *)
Ordered(k, r) ==
    /\ k = "invoice" => r.updated = Null \/ _is_not_before(r.updated, r.created)
    /\ k = "case"    => r.updated = Null \/ _is_not_before(r.updated, r.opened)

Status(k, r) ==
    IF k = "shipment" THEN IF r.delivered = Null THEN "SHIPPED" ELSE "DELIVERED" ELSE r.status

HistoryOf(key) == {e \in history : e.key = key}

Entry(key, from, to, at, source) ==
    [key |-> key, from |-> from, to |-> to, at |-> at, source |-> source]

Init ==
    /\ kind \in RowKinds
    /\ checkout = 1 /\ ledger = <<>>
    /\ rows = <<>> /\ history = {}
    /\ progress = [t \in Targets |-> NoProgress]
    /\ lock = Free
    /\ runner = [r \in Runners |-> Idle]
    /\ image = 0 /\ sim = "waiting" /\ late = {}
    /\ crashes = 0

-----------------------------------------------------------------------------
(* Migrations: one transaction for all pending files, under an advisory    *)
(* lock; the DDL waits for the transactions that use the table.            *)

Files == Checkouts[checkout]

(* _validate_applied: every applied file is still there, unchanged.        *)
Validated == IsPrefix(ledger, Files)

(* The files that are not in the ledger run without an error: 004 refuses  *)
(* rows without audit timestamps or with reversed ones.                    *)
PendingSucceed(table) ==
    Len(ledger) < Enforced /\ Enforced <= Len(Files) =>
        \A k \in DOMAIN table : table[k].audit /\ Ordered(kind, table[k].data)

(* A deployment runs its migrations, which may fail, before the next.      *)
Deploy ==
    /\ checkout < Len(Checkouts)
    /\ ledger = Files \/ ~Validated \/ ~PendingSucceed(rows)
    /\ checkout' = checkout + 1
    /\ UNCHANGED <<kind, ledger, rows, history, progress, lock, runner, image, sim, late, crashes>>

(* Mutant: the applied files are not looked at.                            *)
MigrateUnvalidated ==
    /\ Len(ledger) < Len(Files)
    /\ PendingSucceed(rows)
    /\ \A r \in Runners : ~InTransaction(r)
    /\ ledger' = ledger \o SubSeq(Files, Len(ledger) + 1, Len(Files))
    /\ UNCHANGED <<kind, checkout, rows, history, progress, lock, runner, image, sim, late, crashes>>

(* migrate.py; a failure rolls everything back, the ledger too.            *)
Migrate ==
    /\ Validated /\ Len(ledger) < Len(Files)
    /\ PendingSucceed(rows)
    /\ \A r \in Runners : ~InTransaction(r)
    /\ ledger' = ledger \o SubSeq(Files, Len(ledger) + 1, Len(Files))
    /\ UNCHANGED <<kind, checkout, rows, history, progress, lock, runner, image, sim, late, crashes>>

Loaded(seed) ==
    [k \in DOMAIN seed |-> IF Len(Files) >= 2 THEN [data |-> Fill(kind, seed[k]), audit |-> TRUE, own |-> FALSE]
                                              ELSE [data |-> seed[k], audit |-> FALSE, own |-> FALSE]]

(* COPY knows the seed's columns, and 004's constraints its rows.          *)
Loadable(seed) ==
    /\ Len(Files) < 2 => LacksColumns(kind, seed)
    /\ Len(Files) >= Enforced => \A k \in DOMAIN seed : Ordered(kind, seed[k])

(* load.py: the pending migrations and the COPY of the seed in one         *)
(* transaction; a primary key refuses a second load.  Only pending files   *)
(* make it wait for the transactions that use the table.                   *)
Load ==
    /\ Validated
    /\ rows = <<>>
    /\ ledger # Files => \A r \in Runners : ~InTransaction(r)
    /\ ledger' = Files
    /\ \E seed \in Seeds[kind] : Loadable(seed) /\ rows' = Loaded(seed)
    /\ UNCHANGED <<kind, checkout, history, progress, lock, runner, image, sim, late, crashes>>

-----------------------------------------------------------------------------
(* The simulator.                                                          *)

(* The deployment's docker compose up, after its migrations: the simulator *)
(* of the release takes the place of the one before.                       *)
Up ==
    /\ ledger = Files /\ image # checkout
    /\ image' = checkout /\ sim' = "waiting"
    /\ UNCHANGED <<kind, checkout, ledger, rows, history, progress, lock, runner, late, crashes>>

(* SourceBootstrapProbe.check: the table exists and, invoices excepted,    *)
(* is not empty.                                                           *)
Probe ==
    /\ image # 0 /\ sim = "waiting"
    /\ Len(ledger) >= 1
    /\ kind = "invoice" \/ rows # <<>>
    /\ sim' = "ready"
    /\ UNCHANGED <<kind, checkout, ledger, rows, history, progress, lock, runner, image, late, crashes>>

(* What the release of the running simulator writes, and whether the       *)
(* schema has left it behind.                                              *)
StampsRows     == Len(Checkouts[image]) >= 2
RecordsHistory == Len(Checkouts[image]) >= HistoryVersion(kind)
Outdated       == (HasAudit /\ ~StampsRows) \/ (HasHistory /\ ~RecordsHistory)
Late(key)      == late' = IF Outdated THEN late \cup {key} ELSE late

(* The row an applied event inserts, and what the next one makes of it.    *)
NewRow ==
    LET now == Timestamp(SimDay, 0)
        upd == IF StampsRows THEN now ELSE Null
    IN  CASE kind = "order"    -> [status |-> "PENDING", created |-> now, ship |-> Null,
                                   invoice |-> Null, updated |-> now]
          [] kind = "shipment" -> [ship |-> Date(SimDay), delivered |-> Null]
          [] kind = "invoice"  -> [status |-> "ISSUED", created |-> now, updated |-> upd]
          [] kind = "case"     -> [status |-> "Open", opened |-> now, resolution_hours |-> -1,
                                   updated |-> upd]

Moved(r) ==
    LET one == Timestamp(SimDay + 1, 0)
        two == Timestamp(SimDay + 2, 0)
        upd(t) == IF StampsRows THEN t ELSE r.updated
    IN  CASE kind = "order" /\ r.status = "PENDING" ->
                 [r EXCEPT !.status = "SHIPPED", !.ship = Date(one.day), !.updated = one]
          [] kind = "order" /\ r.status = "SHIPPED" ->
                 [r EXCEPT !.status = "INVOICED", !.invoice = two, !.updated = two]
          [] kind = "shipment" /\ r.delivered = Null -> [r EXCEPT !.delivered = Date(one.day)]
          [] kind = "case" /\ r.status = "Open" ->
                 [r EXCEPT !.status = "Resolved", !.updated = upd(one),
                           !.resolution_hours = (one.day - r.opened.day) * HoursPerDay - r.opened.hour]
          [] kind = "case" /\ r.status = "Resolved" -> [r EXCEPT !.status = "Closed", !.updated = upd(two)]
          [] OTHER -> r

Recorded(key, from, to, at) ==
    IF RecordsHistory THEN history \cup {Entry(key, from, to, at, "simulator")} ELSE history

(* From 004 on, NOT NULL refuses rows without timestamps.                  *)
Insert ==
    /\ sim = "ready"
    /\ Len(rows) < MaxRows
    /\ Len(ledger) >= Enforced => StampsRows
    /\ rows' = Append(rows, [data |-> NewRow, audit |-> StampsRows, own |-> TRUE])
    /\ history' = Recorded(Len(rows) + 1, "none", Status(kind, NewRow), Timestamp(SimDay, 0))
    /\ Late(Len(rows) + 1)
    /\ UNCHANGED <<kind, checkout, ledger, progress, lock, runner, image, sim, crashes>>

(* The planners follow up the events they recorded, so only rows of the    *)
(* simulator move; those of an earlier release have no history.            *)
Move(key) ==
    /\ sim = "ready" /\ rows[key].own
    /\ Moved(rows[key].data) # rows[key].data
    /\ rows' = [rows EXCEPT ![key].data = Moved(@)]
    /\ history' = Recorded(key, Status(kind, rows[key].data), Status(kind, Moved(rows[key].data)),
                           Timestamp(IF Status(kind, Moved(rows[key].data)) \in {"INVOICED", "Closed"}
                                     THEN SimDay + 2 ELSE SimDay + 1, 0))
    /\ Late(key)
    /\ UNCHANGED <<kind, checkout, ledger, progress, lock, runner, image, sim, crashes>>

-----------------------------------------------------------------------------
(* Both backfills: the keys after last_key, in order, at most a batch.     *)

FirstOf(keys) == {k \in keys : Cardinality({m \in keys : m <= k}) <= BatchSize}

(* The last key read, or what it was.                                      *)
LastOf(keys, last) == IF keys = {} THEN last ELSE CHOOSE k \in keys : \A m \in keys : m <= k

AuditKeys(last) == FirstOf({k \in Keys : k > last})

(* Mutant: rows that have a history are not left out.                      *)
AllCandidates(last) == FirstOf({k \in Keys : k > last})

(* _fetch_candidates: rows without any history.                            *)
Candidates(last) == FirstOf({k \in Keys : k > last /\ HistoryOf(k) = {}})

(* The progress row is inserted in the transaction of the first batch; a   *)
(* second insert waits for its end.                                        *)
ProgressFree(t) ==
    progress[t].exists \/ \A r \in Runners : TargetOf(r) = t => ~InTransaction(r)

(* Mutant: a batch without keys does not complete the target.              *)
CheckpointOpen(t, keys) ==
    progress' = [progress EXCEPT ![t] = [exists |-> TRUE, last |-> LastOf(keys, @.last),
                                         scanned |-> @.scanned + Cardinality(keys),
                                         completed |-> @.completed]]

(* The batch ends: no keys, and the target is completed for good; or the   *)
(* checkpoint moves to the last key, also if another runner completed it.  *)
Checkpoint(t, keys) ==
    progress' = [progress EXCEPT ![t] = [exists |-> TRUE, last |-> LastOf(keys, @.last),
                                         scanned |-> @.scanned + Cardinality(keys),
                                         completed |-> @.completed \/ keys = {}]]

(* Mutant: no advisory lock.                                               *)
AuditRunUnlocked(r) ==
    /\ runner[r].pc = "idle" /\ HasProgress
    /\ lock' = r
    /\ runner' = [runner EXCEPT ![r].pc = "locked"]
    /\ UNCHANGED <<kind, checkout, ledger, rows, history, progress, image, sim, late, crashes>>

(* AuditBackfill.run waits for the advisory lock ...                       *)
AuditRun(r) ==
    /\ runner[r].pc = "idle" /\ HasProgress
    /\ lock = Free
    /\ lock' = r
    /\ runner' = [runner EXCEPT ![r].pc = "locked"]
    /\ UNCHANGED <<kind, checkout, ledger, rows, history, progress, image, sim, late, crashes>>

(* ... and for every batch reads the checkpoint and the next keys ...      *)
AuditRead(r) ==
    /\ runner[r].pc \in {"locked", "ran"} /\ ProgressFree("audit")
    /\ runner[r].pc = "ran" => ~progress["audit"].completed
    /\ runner' = [runner EXCEPT ![r] =
           IF progress["audit"].completed THEN [Idle EXCEPT !.pc = "ran"]
           ELSE [Idle EXCEPT !.pc = "read", !.keys = AuditKeys(progress["audit"].last)]]
    /\ UNCHANGED <<kind, checkout, ledger, rows, history, progress, lock, image, sim, late, crashes>>

(* ... updates their rows and the checkpoint, and commits ...              *)
AuditWrite(r) ==
    /\ r \in AuditRunners /\ InTransaction(r)
    /\ rows' = [k \in Keys |-> IF k \in runner[r].keys
                               THEN [rows[k] EXCEPT !.data = Fill(kind, @), !.audit = TRUE] ELSE rows[k]]
    /\ Checkpoint("audit", runner[r].keys)
    /\ runner' = [runner EXCEPT ![r] = [Idle EXCEPT !.pc = "ran"]]
    /\ UNCHANGED <<kind, checkout, ledger, history, lock, image, sim, late, crashes>>

(* ... until max_batches is reached or the target is completed.            *)
AuditUnlock(r) ==
    /\ runner[r].pc = "ran"
    /\ lock' = Free
    /\ runner' = [runner EXCEPT ![r] = Idle]
    /\ UNCHANGED <<kind, checkout, ledger, rows, history, progress, image, sim, late, crashes>>

(* _build_batch.                                                           *)
Built(keys) ==
    UNION {LET events == _infer(kind, rows[k].data).events
           IN  {Entry(k, events[i].from, events[i].to, events[i].at, "inferred") : i \in DOMAIN events} :
           k \in keys}

(* Mutant: the checkpoint is committed before the events.                  *)
HistoryReadFirst(r) ==
    /\ runner[r].pc = "idle" /\ HasHistory /\ ProgressFree("history")
    /\ ~progress["history"].completed
    /\ LET keys == Candidates(progress["history"].last)
       IN  /\ runner' = [runner EXCEPT ![r] = [pc |-> "read", keys |-> keys, events |-> Built(keys)]]
           /\ Checkpoint("history", keys)
    /\ UNCHANGED <<kind, checkout, ledger, rows, history, lock, image, sim, late, crashes>>

(* HistoryBackfill.run, without a lock: the checkpoint and the candidates, *)
(* nothing once the target is completed; its two SELECTs are one step ...  *)
HistoryRead(r) ==
    /\ runner[r].pc = "idle" /\ HasHistory /\ ProgressFree("history")
    /\ ~progress["history"].completed
    /\ LET keys == Candidates(progress["history"].last)
       IN  runner' = [runner EXCEPT ![r] = [pc |-> "read", keys |-> keys, events |-> Built(keys)]]
    /\ UNCHANGED <<kind, checkout, ledger, rows, history, progress, lock, image, sim, late, crashes>>

(* ... then the inserts, ON CONFLICT (source_event_id) DO NOTHING, and the *)
(* checkpoint.                                                             *)
HistoryWrite(r) ==
    /\ r \in HistoryRunners /\ InTransaction(r)
    /\ \A e \in runner[r].events : <<e.from, e.to>> \in Transitions(kind)
    /\ history' = history \cup {e \in runner[r].events : \A f \in HistoryOf(e.key) :
                                    f.source = "inferred" => f.to # e.to}
    /\ Checkpoint("history", runner[r].keys)
    /\ runner' = [runner EXCEPT ![r] = Idle]
    /\ UNCHANGED <<kind, checkout, ledger, rows, lock, image, sim, late, crashes>>

(* A runner dies: its transaction is rolled back, its session's lock goes. *)
RunnerDies(r) ==
    /\ runner[r].pc # "idle" /\ crashes < MaxCrashes
    /\ runner' = [runner EXCEPT ![r] = Idle]
    /\ lock' = IF lock = r THEN Free ELSE lock
    /\ crashes' = crashes + 1
    /\ UNCHANGED <<kind, checkout, ledger, rows, history, progress, image, sim, late>>

-----------------------------------------------------------------------------
AuditStep(r)   == AuditRun(r) \/ AuditRead(r) \/ AuditWrite(r) \/ AuditUnlock(r)
HistoryStep(r) == HistoryRead(r) \/ HistoryWrite(r)

Next ==
    \/ Deploy \/ Migrate \/ Load \/ Up \/ Probe \/ Insert
    \/ \E k \in Keys : Move(k)
    \/ \E r \in AuditRunners : AuditStep(r)
    \/ \E r \in HistoryRunners : HistoryStep(r)
    \/ \E r \in Runners : RunnerDies(r)

Spec == Init /\ [][Next]_vars

(* Releases follow each other, each runs its migrations (again, after a    *)
(* failure), and the operator repeats the two backfills.                   *)
FairSpec ==
    /\ Spec
    /\ WF_vars(Deploy) /\ SF_vars(Migrate)
    /\ \A r \in AuditRunners : WF_vars(AuditStep(r))
    /\ \A r \in HistoryRunners : WF_vars(HistoryStep(r))
-----------------------------------------------------------------------------
(* The checkpoint of the audit backfill tells the truth, whatever crashed  *)
(* on the way, with two operators running it and rows inserted behind it:  *)
(* rows_scanned is the number of rows up to last_key, none counted twice   *)
(* or skipped, all of these have their timestamps, and "after every target *)
(* reports completed" no other row of the table is without them but one    *)
(* that a simulator older than the columns inserted.                       *)
AuditCheckpointTrue ==
    LET p == progress["audit"]
    IN  /\ p.scanned = p.last
        /\ \A k \in Keys : k <= p.last => rows[k].audit
        /\ \A k \in Keys \ late : p.completed => rows[k].audit

(* The row's dates and states lead from one to the other, as nothing in    *)
(* the schema demands of ended cases: what else the backfill reports under *)
(* invalid_source_rows.                                                    *)
Consistent(k, r) ==
    k = "case" /\ r.status # "Open" =>
        /\ r.resolution_hours >= 0
        /\ _is_date(r.updated) /\ _is_not_before(r.updated, AddHours(r.opened, r.resolution_hours))

(* "the complete valid predecessor chain": the history of a row enters no  *)
(* state twice, every event continues an earlier one (by business date),   *)
(* unless the simulator moved the row before it was a candidate, and the   *)
(* history has come to the current state if the row is consistent.  Two    *)
(* runners and the simulator may work on the same row.  Rows a simulator   *)
(* wrote that was older than the schema are left out.                      *)
HistoryLinked ==
    \A k \in Keys \ late : LET past == HistoryOf(k) IN
        /\ \A e, f \in past : e.to = f.to => e = f
        /\ \A e \in past : e.from # "none" =>
               \/ \E f \in past : f.to = e.from /\ f.at.day <= e.at.day
               \/ \A f \in past : f.source = "simulator"
        /\ past # {} /\ Consistent(kind, rows[k].data) =>
               \E e \in past : e.to = Status(kind, rows[k].data)

(* Once the inferred-history backfill reports its target completed, every  *)
(* row has a history, although concurrent runners may move the checkpoint  *)
(* backwards and die between reading candidates and writing them.  Not so  *)
(* if it was completed over the empty table, before the seed was loaded,   *)
(* nor for rows of a simulator older than the schema.                      *)
HistoryCompleteIsWhole ==
    progress["history"].completed /\ progress["history"].scanned > 0 =>
        \A k \in Keys \ late : HistoryOf(k) # {}

(* "an altered or missing already-applied migration fails loudly instead   *)
(* of guessing": what a migration run leaves is the schema of one checkout *)
(* and never a mixture of two.                                             *)
SchemaOfOneCheckout == [][ledger' # ledger => ledger' = Checkouts[checkout]]_vars

(* A database that goes through the releases comes to the last schema with *)
(* both backfills completed: the enforcing migration is refused until the  *)
(* audit backfill is through, and nothing waits for ever.  What refuses it *)
(* for good is a seed row with reversed timestamps, which the backfill     *)
(* keeps, or a row that a simulator older than the columns inserted after  *)
(* the backfill had completed: what "validation confirms" before 004.      *)
UpgradeCompletes ==
    <>(\/ /\ ledger = Checkouts[Len(Checkouts)]
          /\ progress["audit"].completed /\ progress["history"].completed
       \/ \E k \in Keys :
             \/ ~Ordered(kind, rows[k].data)
             \/ k \in late /\ ~rows[k].audit /\ progress["audit"].completed)
=============================================================================
