# TLA+ specifications of Northwind

Northwind simulates the data estate of a company: a Salesforce-like REST and
Bulk API (`fakeforce/`) over Parquet seed files and daily delta partitions, two
Postgres sources (Ops and ERP), and a daemon (`simulator/`) that adds one
business date after the other to all three. This directory models the parts in
which state outlives a request or a process and is changed by several actors:
the Bulk API, REST cursors, the request gateway, the delta files with their
compaction, the daily simulation, and the upgrade of a source database. It
holds the TLC configurations that check the models, and machine-checked proofs
about every one of them. `PROJECT.json` maps every definition to its lines and lists the
hazards with the properties that are about them.

## 1. Inventory

| Component | State it keeps | Operations | Correct means | Module |
|---|---|---|---|---|
| Bulk job lifecycle (`bulk/jobs.py`, `state.py`) | `jobs`, `job_checkpoints`, `job_row_results` in DuckDB | create, transition, checkpoint, expire | rows only move along the transition graph | `BulkJob` |
| Bulk query (`bulk/query.py`, `dispatcher.py`, `recovery.py`, handlers in `app.py`) | part files and `manifest.json` of each job; executor queue | create, abort, scan, write part, commit, resume, sweep | a completed result holds each row once; resume is always possible; every job settles | `BulkQuery` |
| Bulk ingest (`bulk/ingest.py`, same dispatcher and recovery) | `input.csv`, mutable DuckDB table, row results, checkpoint | create, upload, close, abort, apply a batch, resume | outcomes, counters and table agree; each outcome is justified; outcomes are final | `BulkIngest` |
| Bulk results (`bulk/results.py`) | none | page, row window | pages cover the result once | partly |
| Delta compaction (`compaction.py`) | `compacted/base.parquet`, partitions | plan, merge, replace, unlink | no answer changes | `Compaction` |
| Catalog and engine (`catalog.py`, `engine.py`) | resolution cache, fingerprints, snapshot id | resolve, build the view, read | a query reads one state | `Compaction`, partly |
| REST cursors (`app.py`, `query_service.py`, `cursor_artifacts.py`, `deadline.py`) | index artifact, cursor row | query, queryMore, time out, reconcile | an extract is one result of one snapshot; no index is lost or left behind | `CursorPaging` |
| Admission, rate limit, chaos (`runtime.py`, `app.py`) | slots, queues, request window, knobs | acquire, release, cancel, refuse, configure | slots do not leak; the window holds; Retry-After leads somewhere | `Gateway` |
| Control database (`simulator/state.py`) | watermark, runs, source runs, events | claim, record, acknowledge, complete | the watermark never passes unfinished work | `DailyRun` |
| Scheduler and daemon (`scheduler.py`, `daemon.py`) | none | run through today, retry | catches up with the calendar | `DailyRun`, partly |
| CRM run (`crm_run.py`, `crm_storage.py`, `crm_history.py`, `crm.py`) | delta partitions, history partitions, manifests | plan, record, publish | a date is published once and whole | `DailyRun`, `Compaction` |
| Ops run (`ops_run.py`, `ops.py`, `fulfillment.py`, `support.py`, `ops_apply.py`) | Ops tables, `applied_events`, status history | orders, shipments, invoices, deliveries, cases | each effect once | `DailyRun`, `SourceUpgrade`, partly |
| ERP run (`erp_run.py`, `erp.py`, `erp_apply.py`, `reconciliation.py`) | ERP tables, `applied_events` | post, reconcile, complete | each invoice posted once and in time; the date reconciles | `DailyRun` |
| Migrations (`generator/migrate.py`) | ledger with checksums | validate, apply | one schema of one checkout | `SourceUpgrade` |
| Backfills (`audit_backfill.py`, `history_backfill.py`) | checkpoint per target, advisory lock | read a batch, write it | complete means whole; a history is a chain | `SourceUpgrade`, `HistoryInference` |
| Loader, bootstrap (`load.py`, `bootstrap.py`) | seed rows | load, probe | load is all or nothing | `SourceUpgrade` |
| SOQL, generator, diagnostics, benchmark, status, OAuth | - | - | data transformation or reporting | - |

How they interact. The REST handlers and the executor threads of fakeforce
share the DuckDB state store and the result directories; nothing locks a job.
The simulator publishes Parquet files that the catalog of fakeforce discovers,
and a cron job compacts them; the three processes share a directory and no
lock. Ops and ERP are reached through one Postgres transaction per call. The
control database is DuckDB in autocommit mode: every statement is a commit of
its own. Migrations and backfills run beside the simulator on the same tables.

What is hard. A crash between a part file, its manifest and its checkpoint; a
scan that is re-executed on resume; an abort under a running worker; an upload
that is awaited between the check of the state and its publication; two ingest
jobs that insert the same id; files that are merged and unlinked under a
reader that has listed them; a page read from a snapshot that was checked a
moment ago; a request cancelled with a slot it has been granted but not taken;
an interruption between any two of some twenty durable statements per
simulated date, in three databases and a directory; two backfills and the
simulator on the same row.

## 2. Modules

| Module | Models | Used by |
|---|---|---|
| `BulkJob` | the abstract job lifecycle | `BulkQuery`, `BulkIngest` (as `J`) |
| `BulkQuery` | the query path | `MCBulkQuery`, `BulkQueryProofs` |
| `BulkIngest` | the ingest path | `MCBulkIngest`, `BulkIngestProofs` |
| `Dataset` | the abstract content of a CRM object | `Compaction` (as `D`) |
| `Compaction` | simulator, compactor and queries on the files of one object | `MCCompaction`, `CompactionProofs` |
| `Lists` | a Python list comprehension with a condition | `CursorPaging`, `Gateway` |
| `CursorPaging` | REST queries and their locators | `MCCursorPaging`, `CursorPagingProofs` |
| `Gateway` | admission and chaos middleware | `MCGateway`, `GatewayProofs` |
| `DailyRun` | daemon, control database, CRM, Ops and ERP runs | `MCDailyRun`, `DailyRunProofs` |
| `HistoryInference` | the status events inferred from a row | `SourceUpgrade` |
| `SourceUpgrade` | migrations, load, probe, backfills, the simulator's writes | `MCSourceUpgrade`, `SourceUpgradeProofs` |
| `NumberLemmas` | least and greatest numbers, ranks, intervals | the proof modules |
| `BulkQueryProofs`, `BulkIngestProofs`, `CompactionProofs`, `CursorPagingProofs`, `DailyRunProofs`, `GatewayProofs`, `SourceUpgradeProofs` | theorems about the module of the same name | - |

### BulkJob
`AllowedTransitions` is `_ALLOWED_TRANSITIONS` and `CanMove` is
`validate_transition`. `Create`, `Transition` and `Expire` are the only things
that may happen to a row. The two detailed modules are shown to implement it
(property `JobLifecycle`; the refinement mapping is the variable `job` itself).

### BulkQuery
Durable state: `job` (state column), `expired` (`expires_at` against the clock),
`manifest` and `files` (the result directory), `checkpoint`. Process state:
`phase`, `sweep` (ids that `expire_jobs` returned), `pc` and `work` (the
worker's position and locals). `data` is the version of the dataset a scan
opened now would see.

One action for each step between which a crash or another actor can come:
`CreateJob`, `Abort`, `Dispatch`, `Begin`, `Load`, `WritePart`,
`CommitManifest`, `AddCheckpoint`, `Finish`, `StreamFails`; `RetentionEnds`
(clock), `Publish` (new data), `Crash`; and the startup sequence `ExpireJobs`,
`RemoveArtifacts`, `ResumePending`. A part is the slice of a scan it
holds, which is what lets properties speak of rows without CSV text. A scan is
any order that the executed SQL permits: by the unique internal id if the query
has no `ORDER BY`, with ties in any order otherwise.

### BulkIngest
In addition: `file` (`input.csv`), `uploads` (requests whose body is still
streaming), `table`, `results`, `progress`. `StartUpload` checks the state and
`FinishUpload` replaces the file, because the handler awaits the body in
between. `CheckExisting` is the SELECT before the transaction, `CommitBatch`
the transaction of records, results and checkpoint, `RejectCommit` what the
unique index does when another job came first. A CSV row is its id, or one of
`Blank`, `Malformed`, `Wide`.

### Dataset and Compaction
`Dataset` is what the directory of an object promises: one current row per
record, changed by the publication of a date and by nothing else. A row is the
set of publications it was built from, which makes a lost or a resurrected
change visible.

`Compaction` has the files (`disk`, `part`, `compacted`, `base`) and three
processes. The simulator lists, reads (a path that is gone is dropped) and
publishes. The compactor plans, writes the merged file, replaces
`base.parquet` and unlinks the partitions one by one, oldest first. A session
takes a fingerprint, meets the resolution cache or resolves base and
partitions in two steps, builds its view (which asks for the base again) and
executes. `SimFail` and `CompFail` are a crash or an error at any step.
`Overlay` is the latest-version SQL. The refinement mapping is
`D == INSTANCE Dataset WITH latest <- EngineRows`: the rows an undisturbed
query would resolve.

`FirstWhileListing` says whether the first `base.parquet` of the object may
appear while another process is between its two listings. With TRUE a query
can answer with the bare seed (run `compaction_first`); FALSE is used to check
that everything else holds, later compactions included. FALSE also leaves out a
first compaction between the simulator's glob and its `is_file` filter
(`crm_storage.py`, lines 105 and 106).

### CursorPaging
`cursor` (rows), `artifact` (index files), `snapshot` (`CATALOG.snapshot_id`),
the startup `phase`, `zombie` (worker threads abandoned by `run_with_deadline`)
and one client per locator. `Open`, `FirstPage` and `CreateCursor` are apart
because data can be published between them; so are `More` (all checks) and
`MoreReply` (the read). `Lapse` is the end of the retention, `Crash` and the
four startup actions are `recover_cursor_artifacts`. A result is an order of
ids for each snapshot, a record is an id and the snapshot its fields come from.
`torn` is a history variable: locators with a request in flight at a
publication. The instance has one order per snapshot, which an `ORDER BY` on a
unique field gives; REST queries without one scan in any order, each of count,
page and index anew, and `ExtractExact` then fails (give `Results` two orders).

### Gateway
The two middlewares around every request. `value`, `waiters`, `active` and
`queued` are the semaphore and counters of each pool; `Arrive`, `Resume`,
`Leave` and `Cancel` are `AdmissionController.slot` on every way in and out.
The semaphore is asyncio's of Python 3.12, the version of the image
(`fakeforce/Dockerfile`). A slot that is released is granted to the first
waiter, whose task runs later and may be cancelled before it does. A request
that arrives in between joins the queue even if another slot is free, because
somebody is waiting; `Dequeue` is what then wakes it up: whoever leaves the
queue, with its slot or cancelled, hands out the slots that are free.

`Outage`, `Refuse`, `Admit`, `WakeUp`, `Handle` are `chaos_middleware`;
`SetLimit`, `StartOutage`, `Reset` the knobs, which are requests and need a
slot of their own pool. `reset_chaos` is a plain function that runs in a thread;
its three statements are one step here. `POST /_chaos` takes any limit: with 0 the minimum of an
empty list is asked for, and `RefuseFails` is the error this ends in. Time is
in ticks, `Second` to the second, so that truncating Retry-After to whole
seconds has an effect. `refused` and `admits` are history variables; `admits`
is what `RateLimited` counts, not the list the code keeps.

### DailyRun
`today` is the calendar. The control database is `watermark`, `run`, `src`,
`events`; the CRM directory `parts`, `history`, `manifest`; the Postgres
databases `applied`, `rows`. `pc` walks through `run_through`, `claim_run` (run
row, then one insert per source), plan, record (one event per step), publish
(one partition per step, history, manifest), apply, acknowledge, reconcile,
complete and advance. `group` says which of the five record/apply rounds of a
date is under way. `Raise` is every exception the guards lead to; `Interrupt` is
a crash or a failing call before the next statement; `interrupts` is a history
variable that counts them and keeps which multi-statement part was cut in two
(`claim_run`, `record_events`, a publication), so that a property can name the
cuts after which it does not hold. A cut `record_events` is one that has stored
some events of its group and not the others.

What the planners can emit is a table of items: kind, parent, delay. Left to
the data: which records the seeded generators draw, amounts, currencies,
accounts. Delays are fixed for each item, while the code derives them from a hash of
the event id, which is also fixed once the parent's event is recorded. The order of items
stands for the order in which the planners sort. Seed records that the events
refer to are assumed to exist, and orders with malformed account ids, which use
up a key without producing an event, are left out. The `claim_run` calls of
OpsRun and ErpRun find the row that CrmRun claimed and change nothing. The
planning of case resolutions and closures is not modelled.

### HistoryInference and SourceUpgrade
`HistoryInference` translates `_infer` and its helpers: from the columns of an
order, shipment, invoice or case to the chain of status events, with the
clamping of times that contradict each other. A time is a day and an hour, a
DATE has no hour, which is where comparisons differ.

`SourceUpgrade` is a database on its way through the releases: `ledger` (the
checksums applied), `rows`, `history`, `progress` (checkpoint of each
backfill), `lock` (advisory lock), `runner` (backfill processes), `image` (the
release whose simulator container is up), `sim`. `Migrate` is all pending files
in one transaction; 004 refuses rows without audit timestamps (NOT NULL) and
rows with reversed ones (`Ordered`, its CHECK). `Load` is the pending files and
the seed in one transaction; the seed's columns must be there, and from 004 on
its rows must satisfy the same constraints (`Loadable`). `Probe`, `Insert` and
`Move` are the simulator. The audit backfill holds the lock over its batches;
the history backfill takes none, so two of them interleave between reading
candidates and writing. `RunnerDies` rolls a transaction back, and its session's
lock goes with it.

A next release is deployed once the migrations of the last one have succeeded or
been refused, as the deployment workflow does (`.github/workflows/ci-deploy.yml`,
lines 114 to 116). Only then is the simulator replaced (`Up`): until it is, and
as long as the migrations are refused, the simulator of the previous release
writes on. It fills in no timestamps if it is older than 002 (`StampsRows`) and
no history if it is older than 005 to 008 (`RecordsHistory`). `late` is a history
variable: the rows that such a simulator wrote after the schema had the columns
or the table.

Simplified: the two SELECTs of the history backfill, each with a snapshot of its
own, are one step. `ops.orders` has had its timestamps since 001 and is no target of the audit
backfill; for a table of kind "order" the timestamps are those of its lines.
Timestamps that a seed supplies for shipments or order lines are assumed to be in order, and
`created_at` of a case to be `opened_at`, as the expressions of backfill and loader have it.

The loader's `updated_at` for an undelivered shipment of an older seed (17:00)
differs from the backfill's (08:00); the model of a shipment has no such column,
because nothing is derived from it.

## 3. Runs

Deadlock is not checked in any run: every one of these systems may stop, when
all jobs or requests have ended, the last date is complete or the last release
is in. Liveness is checked instead.

### Runs that pass

| Run | Checks | Instance |
|---|---|---|
| `query_resume` | `ExactlyOnce`, `JobLifecycle`, `EveryJobSettles` | two jobs, one thread, three rows in parts of two, one crash |
| `query_changing` | `TypeOK`, `ResumeNeverRefused`, `PartsTile`, `ResultsFrozen` | one job, two data versions, ties, two crashes |
| `ingest_race` | `OutcomesMatchTable`, `OutcomesJustified`, `CompleteIsWhole` | two jobs, two threads, the same five-row CSV, one crash |
| `ingest_files` | `TypeOK`, `OutcomesFrozen`, `JobLifecycle`, `EveryJobSettles` | one job, three CSVs (good, wide row, bad header), two crashes |
| `daily` | `TypeOK`, `WatermarkSound`, `ManifestMatches`, `EffectsOnce`, `CasesKept`, `PostedInTime`, `CompletedUnchanged`, `CatchesUp` | five dates, two deals, two interruptions before any statements |
| `compaction` | `RowsOfItsTime`, `SimulatorAgrees`, `ImplementsDataset`, `FailsOnlyIfMoved`, `AnswersOneState` | two records, three dates, one session |
| `cursors` | `ExtractExact`, `OpenCursorReadable`, `StartupLeavesNoOrphan`, `EveryExtractEnds` | two locators, three pages, one publication, two retries, two crashes |
| `gateway` | `SlotsConserved`, `RateLimited`, `RetryAfterConverges`, `QueuedGetsSlot` | three queries for two slots, one operator |
| `upgrade` | `AuditCheckpointTrue`, `HistoryLinked`, `HistoryCompleteIsWhole`, `SchemaOfOneCheckout`, `UpgradeCompletes` | all four kinds of table, up to two rows, four releases, one with an edited file, each beside the simulator of the one before, two runners of each backfill, one of which dies |

Why the bounds are enough.

- Bulk (`MaxCrashes`). Three rows in parts of two give a full and a partial
  part, so that a crash can fall before, between and after two commits; a second
  crash can hit the resumed run. A second job makes the executor's queue and the
  sweep of several directories real. Five CSV rows in batches of two give two
  full batches and a partial one, a malformed row, an id repeated in its batch
  and an id of an earlier batch; with two jobs every row can also meet the other
  job's.
- Daily (`LastDay`, `MaxInterrupts`). Five dates take two deals through the whole chain of order,
  shipment, invoice, delivery, case and posting, two on each date so that
  keys are handed out in pairs, shipments invoiced on the day itself and delivered a
  day later, and two adjacent breach dates, the second of which must release the
  postings that the first one held. Two interruptions reach the retry of a retry.
- Compaction (`LastDate`). Three dates allow a compaction of the first, one of the
  second over its result, and a third date that is still a partition: with two
  dates the rows of an answer cannot come from two different dates. One session
  meets its own cache when it queries again; `CompactionProofs` covers any number.
- Cursors (`LastSnapshot`, `MaxRetries`, `MaxCrashes`). Five records in pages of two
  give a first, a middle and a partial last page; the publication takes both records
  of the middle page away, so that a page of the wrong snapshot is empty.
- Gateway (`LastTick`). With half-second ticks a request let through at tick 0 leaves
  the window of two seconds at tick 4. Three requests for two slots put one in the
  queue, which can be cancelled while it is being granted a slot, and let another
  arrive while a slot is free that the queue has a claim to. The limit is
  lowered to one, or to none, and reset. Retries beyond the last tick are covered
  by `RetryConverges`.
- Upgrade (`MaxRows`, `MaxCrashes`). Batches of one over two rows make a checkpoint
  at every row, and after a seed of one row the simulator, current or outdated, inserts behind it.
  The first release is older than the timestamps and the second older than the histories, so
  that a simulator can be outdated in either way. The seeds contain the contradictory rows: invoiced before shipped,
  shipped before ordered, resolved without hours, an invoice with reversed timestamps.

Every property of these runs has a mutant in `PROJECT.json`: a definition that
contains a plausible bug (the tail of the scan dropped, the checkpoint before
the manifest, the newest partition unlinked first, a slot not given back on an
error, ...) under which TLC reports that property as violated.

### Runs that show a disagreement
The property states what a comment or the documentation says, and TLC finds a
behaviour of the code that contradicts it.

| Run | Property | What happens |
|---|---|---|
| `query_new_data` | `ExactlyOnce` | a row that arrives between crash and resume and sorts before the resume position shifts the skip count: one row twice, one missing |
| `daily_lost` | `NothingLost` | a retry takes the recorded prefix of a CRM plan for the whole plan |
| `compaction_first` | `ReadsOneState` | the first compaction lands between the two listings of a query, which answers with the seed and without every merged change |

### Exceptions that the properties name
Some properties hold only outside a window that the code leaves open. The
exception is written into the property, and in the instances above it is needed.

- `CatchesUp`: after an interruption between two files of a publication, or before
  its manifest, every retry of the date raises "CRM record already exists"; after
  one between the inserts of `claim_run`, source rows are missing for ever. In both cases the
  watermark stays where it is.
- `CasesKept`: after an interruption between two events of `record_events`, a case planned by the
  retry gets the key of one that is recorded and not applied, and its row is dropped silently.
  The same interruption delays postings (`PostedInTime`).
- `CompletedUnchanged`: the documentation says "completed days are never rerun".
  A cut between the two updates of `complete_run` does rerun one; the property shows
  that this has no effect.
- `AnswersOneState`: an answer is the state of one date, unless `base.parquet` was replaced
  after the query had taken its fingerprint. It can then take one record from
  the new base and another from the old partitions. `RowsOfItsTime` says what
  remains: every record is as it was after some date between the start of the query and its end.
- `ExtractExact`, `EveryExtractEnds`: not for a locator in `torn`.
  The cursor is pinned to the snapshot id read after the index was built, and a page is read
  after the id was compared. A page can then be short or empty, and a client that gets an
  empty page is sent to the same offset again.
- `HistoryCompleteIsWhole`: not if the history backfill ran over the table before the
  seed was loaded; `completed` is permanent. `HistoryLinked` names rows that the
  simulator moved before they were candidates.
- `AuditCheckpointTrue` (of the rows behind the checkpoint), `HistoryLinked`,
  `HistoryCompleteIsWhole`: not for rows in `late`. An outdated simulator inserts behind a
  backfill that is completed, and moves rows that have a history without recording it.
- `UpgradeCompletes`: 004 is refused for good by a row without timestamps that an outdated simulator inserted
  after the audit backfill was completed, and by a seed row with
  reversed timestamps, which the backfill keeps. The header of 004 asks for a validation
  that finds both; no code makes it. Also, the releases of the run include the one whose last migration is 003. A
  database that skips it has rows without timestamps and no table for the
  backfill's progress, and 004 is refused for ever.

Without a property: a query without rows completes without a manifest, so that
`/results` answers `INVALIDLOCATOR`; an upload that passed the state check
replaces the CSV of a job closed meanwhile (`OutcomesMatchTable` and
`OutcomesFrozen` hold all the same); resuming a query whose `ORDER BY` has ties
breaks `ExactlyOnce` like new data does (set `HasOrderBy = TRUE` in
`BulkQueryResume.cfg`); a crash between the deletion of expired job rows and of
their directories leaves the directories.

### Fairness
Nothing is assumed of clients (with one exception below), the clock, failures,
crashes or publications. Crashes, interruptions and retries are bounded in
number; without that no progress could be claimed.

- `BulkQuery`, `BulkIngest`: weak fairness of each job's worker step and of the startup
  steps. Threads of a `ThreadPoolExecutor` run, and Compose restarts the container
  (`restart: unless-stopped`).
- `DailyRun`: weak fairness of the simulator's steps. `run_forever` retries without end and
  its container restarts.
- `CursorPaging`: weak fairness of `Startup`, of `Serve` (the steps that follow an accepted
  request) and of `More`: `EveryExtractEnds` is about a client that does follow `nextRecordsUrl`.
- `Gateway`: weak fairness of `Run(r)`. The event loop runs every task that can run, sleeps are finite and
  handlers end, by their deadline if not before.
- `SourceUpgrade`: weak fairness of `Deploy` and of the steps of each backfill, which the operator repeats; strong
  fairness of `Migrate`, whose DDL waits in Postgres's lock queue, while the
  transactions it waits for come and go.
- `Compaction` states none: nothing needs a compaction to happen, and a failed publication is `DailyRun`'s matter.

## 4. Proofs

Every safety property of the passing runs is a theorem
for every value of the constants: any number of jobs, requests, records,
dates, crashes. The bounds that TLC needs (`MaxCrashes`, `LastTick`, ...) are
constants too, and the theorems hold for all their values.

| Module | Theorem | Says |
|---|---|---|
| `BulkQueryProofs` | `TypeCorrect`, `ResumeSafe`, `Tiling` | `[]TypeOK`, `[]ResumeNeverRefused`, `[]PartsTile` |
| | `FrozenResults` | `ResultsFrozen` |
| | `LifecycleRefined` | `JobLifecycle`: BulkQuery implements BulkJob |
| | `ResultExact` | `SingleScan => []ExactlyOnce` |
| | `EveryJobHasTask` | while the process is up, no unfinished job is without a task |
| `BulkIngestProofs` | `TypeCorrect`, `OutcomesAgree` | `[]TypeOK`, `[]OutcomesMatchTable` |
| | `FrozenOutcomes` | `OutcomesFrozen` |
| | `LifecycleRefined` | `JobLifecycle`: BulkIngest implements BulkJob |
| | `CompleteWhole` | `SameLength => []CompleteIsWhole` |
| | `JustifiedOutcomes` | `OneCsv => []OutcomesJustified` |
| | `EveryJobHasTask` | the same for ingest jobs |
| `CompactionProofs` (all under `~FirstWhileListing`) | `ReadersAgree`, `AnswersInTime` | `[]SimulatorAgrees`, `[]RowsOfItsTime` |
| | `FailuresExplained`, `OneStateAnswers` | `FailsOnlyIfMoved`, `AnswersOneState` |
| | `FilesImplementDataset` | `ImplementsDataset`: Compaction implements Dataset |
| `CursorPagingProofs` | `CursorsReadable`, `NoOrphanAfterStartup` | `[]OpenCursorReadable`, `StartupLeavesNoOrphan` |
| | `ExtractsExact` | `OneOrder => []ExtractExact` |
| `DailyRunProofs` | `TypeCorrect`, `WatermarkHolds`, `ManifestsHold` | `[]TypeOK`, `[]WatermarkSound`, `[]ManifestMatches` |
| | `EffectsHappenOnce`, `CompletedStays` | `[]EffectsOnce`, `CompletedUnchanged` |
| | `CasesAreKept`, `PostedOnTime` | `[]CasesKept`, `[]PostedInTime` |
| | `LostOnlyIfCut` | `NothingLost` as long as no `record_events` was cut off |
| | `RetryProceeds` | unless `claim_run` or a publication was cut off, no guard of an attempt refuses its next statement |
| `GatewayProofs` | `SlotsKept`, `LimitHolds`, `RetryConverges` | `[]SlotsConserved`, `[]RateLimited`, `[]RetryAfterConverges` |
| `SourceUpgradeProofs` | `AuditCheckpointHolds`, `HistoryIsWhole` | `[]AuditCheckpointTrue`, `[]HistoryCompleteIsWhole` |
| | `HistoryIsLinked` | `[]HistoryLinked` |
| | `OneCheckout` | `SchemaOfOneCheckout` |
| | `NeverStuck` | the lock has a live holder, no CHECK refuses a batch, and what refuses migration 004 after a completed backfill is a row of an outdated simulator or an untouched seed row with reversed timestamps |

### Assumptions and hypotheses
The assumptions on constants are named in the modules that declare them, and
TLC evaluates them in every run. Most give types. Those that say more:

- `CrmPlanAssumption`: the CRM plan of a date begins with a new account and a new
  opportunity, as the planner's minimum counts make it. A date without events
  would have neither manifest nor partition.
- `UpgradeAssumption`: seed rows satisfy the NOT NULL and CHECK constraints of
  migration 001 (`RowOf`), or the load would be refused, and a seed file has the columns of
  002 for all of its rows or for none.
- `GatewayAssumption`: finitely many requests, because slots and waiters are counted.
- Compaction: a published date changes something; a delta without rows is not written.

Some theorems have a hypothesis of their own. It is a condition of use that
the code relies on without enforcing it, it holds in the run that checks the same
property, and the conclusion can fail without it.

- `SingleScan`: every scan of a query is the same sequence ("it must see the same row
  order every run", `_stream`). `query_new_data` is an instance without it.
- `SameLength`, `OneCsv`: a client does not replace the CSV of a job by a shorter, or by
  another one, while the job is being closed. An upload in flight may do so
  between a crash and the resumption.
- `~FirstWhileListing`: see `compaction_first`.
- `OneOrder`: the sort order of a paged query is total; page and index are two scans.

### The arguments
None of the properties is inductive. Each module adds what is needed.

`BulkQueryProofs`. That a checkpoint does not run ahead of the manifest depends on
what the worker holds when it records one. `ManifestOK`: listed parts exist and
tile, and the checkpoint is at most the manifest's total. `WorkerOK`: how the
worker's locals relate to manifest and files at each of its steps; after a part is
written it is the one right behind the manifest's last. `ProcessOK`: tasks
exist only while the process is up and for rows that exist. `Inv` is required only
of jobs that still have their row, because the sweep removes rows before
files. `ResultExact` adds `Cover`: the manifest covers a prefix of the scan, and
all of it once the job is complete. `EveryJobHasTask` adds `TaskOK`: a task that is to
begin its job finds it not begun, one that streams finds it begun. A task that
returned early at the state check of its job would leave the row to nobody.

`BulkIngestProofs`. The same shape; `OutcomesOK` ties the row results to the
checkpoint and the table. For `JustifiedOutcomes` a checkpoint lies on a batch
boundary or at the end of the CSV (`Aligned`), so that a resumed worker cuts the
same batches, and the ids it finds in the table are its own of an earlier batch or
another job's.

`CompactionProofs`. Because the oldest partition is unlinked first, the
partitions on disk are always those of an interval `m+1..published`, and the base
holds the rows after a date `n` with `m <= n`. Versions of a record form a
chain, so the overlay finds the last one in any mixture that covers it. Only
`m`, `n` and `published` grow, so what a session or the cache resolved earlier
is wrong in a bounded way (`ResolvedAt`, `StampAt`).

`CursorPagingProofs`. `ServerOK`: a visible row has its index, and the clean-up's list of
active cursors has every visible row and no deleted one. `ExtractInv`: a client that no publication has torn
holds a prefix of the one result of its snapshot, and its cursor and index are
about that snapshot.

`DailyRunProofs`. Several invariants, one on top of the other. `Inv`: where the run is and what
it has published. `Replay`: which groups of the current date are settled. A retry
starts from the plan, and must not plan again what an earlier attempt has
recorded, nor under another key; `Evidence` is what an earlier attempt leaves to
show that it got past a group, `Settled` that no attempt adds to the group any
more, and `PendingOK` that an event still waiting for its transaction would be
planned again under the same key. `Uncut`: what holds as long as no
`record_events` was cut in two, namely that case numbers waiting to be applied are
above all that are used, and that held postings are released. `CrmWhole`: the CRM plan
of a date is recorded as a whole or not at all, which only a cut `record_events` breaks.
`Retry` is what `RetryProceeds` needs: a claimed date has all its source rows
(`ClaimWhole`), a source is at work only after those ahead of it (`AheadOK`),
partitions without a manifest belong to the publication at work (`PublicationOK`), and keys
that wait for their transaction are free (`KeysOK`).

`GatewayProofs`. `Pools` is nearly `SlotsConserved`; the work is in the queue (`RemoveFirst`
and `Append` keep every waiter once) and in counting who is woken up
(`HandedOver`). `Rates`: the list the middleware keeps is the end of the list of
all requests let through, and what was dropped from it has left the window for ever
(`Follows`). `Retries`: a client that is back has waited; the first refusal sends it
to within a second of the time the oldest request leaves the window, the second
one past it, which needs `(x \div s) * s <= x < (x \div s) * s + s`.

`SourceUpgradeProofs`. `AuditOK` needs the advisory lock: the keys a runner read are
those right behind the checkpoint when it writes. `HistoryOK` has no lock to rely
on: rows up to each key a runner read have a history or are among its keys,
which stays true when another runner moves the checkpoint back. For
`HistoryIsLinked`, `_infer` of every admissible row of each kind is a chain
(`OrderChain`, ...: dates do not decrease through the clamping, no state is entered twice,
the last one is the row's if the row is consistent). A runner reads rows without a lock and writes later:
`ReadOK` says that what it inferred, together with what the simulator has recorded
since, still is a history of the row as it is now (`Tracks`, `Follow`), and that all
runners that read a row inferred the same. The audit backfill must not change a row after
that: `Stamped`, once the history tables exist migration 004 has passed, rows have their timestamps in order, and `Fill` changes
no row any more. `SimOK`: the schema is never behind the simulator that runs, so that outside `late` timestamps
and histories are written exactly when the schema has them. `NeverStuck` adds that all these events are `Admitted` by the CHECK
of the history table, that the lock has a live holder (`LockHeld`), and, also part of `Stamped`,
that a row with reversed timestamps is as the seed file had it (`FromSeed`): neither `Fill`
(`FillOrdered`) nor the simulator (`OwnOrdered`) makes one.

`NumberLemmas` has what these proofs keep needing: every set of numbers has a
least element (from the well-foundedness of `<`), every finite one a greatest, which make
`Min`, `Max` and the next free key known; and what ranks select. `Nth` and `Kept`
define a list comprehension by ranks, where `SelectSeq` would need an induction.

### What the proofs found
- With three dates or more `ReadsOneState` is false even after the first compaction: a
  query can mix rows of two dates when the base is replaced under it. Two dates,
  the instance checked until then, are too few for that. `AnswersOneState`
  and `RowsOfItsTime` replaced it.
- The first model of the semaphore woke up nobody in `Resume`. With two slots
  a request could then wait for ever beside a free slot: the invariant that a free slot
  and a waiter imply a granted task is not inductive there. The run has had two
  slots since.
- A limit of 0 was excluded by an assumption that nothing in `set_chaos` justifies.
- `HistoryLinked` did not hold for all rows that the model admitted, only for the
  seeds of the run. `RowOf` lacked the CHECKs of migration 001 on dates (an order
  is not updated before it was created, a shipment not delivered before it was sent, an
  open case has no resolution time), and of an ended case nothing demands hours or
  an update after them (`Consistent`). An invoice voided before its creation date would never
  reach `VOID` in its inferred history, but the CHECK of 004 refuses it first. That events
  continue one another was claimed of consistent rows only, and holds of all.
- What `daily_lost` shows needs a `record_events` cut off between two events; no other interruption loses anything.

### Only model-checked
- `EveryJobSettles`, `CatchesUp`, `EveryExtractEnds`, `QueuedGetsSlot`, `UpgradeCompletes`:
  liveness under fairness is out of the prover's reach.
  Its safety halves are proved where there is one: a task for every
  unfinished job (`EveryJobHasTask`), no statement refused for ever (`RetryProceeds`), no forgotten slot
  (`SlotsKept`), a readable index behind every open cursor (`CursorsReadable`), nothing that blocks the upgrade (`NeverStuck`).

## 5. Not modelled, and why

- SOQL parsing and planning, CSV and JSON text, coercion: string transformation.
  The models keep its outcome (has an `ORDER BY`; row valid or not).
- Seed generation, profiles, metadata: one-shot, no state machine.
- Diagnostics, benchmark, status, configuration, the dry run of a backfill: read-only or
  measurement.
- OAuth tokens: one map, written by one handler and read by one guard.
- Creation of the analytics database by `migrate.py`: one idempotent statement outside the ledger.
- Back-off times and midnight arithmetic of the daemon: only that it retries.
- Disk reserve: its effect, an exception in the worker, the upload or the compactor, is
  `StreamFails`, `UploadFails` and `CompFail`.
- Two compactors at a time: nothing in the code prevents it, but the outcome depends on
  how DuckDB holds files that are unlinked under it.
- Locators of Bulk results, and when resolutions and closures of cases are planned: see the plan.

## 6. Plan

In this order:

1. `BulkResults`: part and row-window locators against the sequence of all rows.
2. Resolution and closure of cases in `DailyRun`.
