------------------------------ MODULE DailyRun ------------------------------
(***************************************************************************)
(* One simulated business date after the other: the daemon's retry loop,   *)
(* the control database (simulation.duckdb), the CRM delta publication,    *)
(* and the Ops and ERP runs with their retry ledgers, statement by         *)
(* statement, with an interruption possible between any two.               *)
(*                                                                         *)
(* Abstractions.  Everything the planners can ever emit is an item: its    *)
(* kind, the item it follows from and the delay after it.  Items are       *)
(* numbered in the order in which the planners sort them.  An event is an  *)
(* item planned for a date, with the primary key the planner chose from    *)
(* the maximum in the source database; date, item and key determine the    *)
(* event_id.  An interruption is a crash, a kill or an exception: the      *)
(* locals are lost and the run starts over from the control database.      *)
(***************************************************************************)
EXTENDS Integers, FiniteSets

CONSTANTS
    LastDay,       \* bound on the calendar; day 0 is the baseline
    Items,         \* what the planners may emit
    Kind,          \* Kind[i]: type of its event
    Parent, Delay, \* an item follows Delay[i] days after Parent[i]
    CrmDay,        \* the date a CRM item is planned on, 0 for the others
    Creates,       \* CRM items that create their record
    BreachDays,    \* weekly SLA breach dates: postings due today are held
    InterruptAt,   \* steps an interruption may come before
    MaxInterrupts  \* bound on interruptions

Days    == 1..LastDay
Sources == {"crm", "ops", "erp"}
Objects == {"accounts", "opportunities"}
FollowUps == {"shipment", "invoice", "delivery", "case"}
OpsKinds == {"order"} \cup FollowUps
Kinds   == Objects \cup OpsKinds \cup {"posting"}
Groups  == {"crm", "order", "fulfillment", "support", "posting"}

(* Kinds whose planner takes max(id) + 1, + 2, ... of the source table.    *)
Numbered == {"order", "shipment", "case", "posting"}

(* The kind of record each planner of Ops and ERP events starts from.      *)
ParentKind == [order |-> "opportunities", shipment |-> "order", invoice |-> "shipment",
               delivery |-> "shipment", case |-> "delivery", posting |-> "invoice"]

ASSUME CalendarAssumption ==
    LastDay \in Nat \ {0} /\ MaxInterrupts \in Nat /\ BreachDays \subseteq Days
ASSUME ItemsAssumption ==
    /\ Items \subseteq Nat \ {0} /\ IsFiniteSet(Items)
    /\ Kind \in [Items -> Kinds] /\ Delay \in [Items -> Nat] /\ Creates \subseteq Items
    /\ Parent \in [Items -> Items \cup {0}]
    /\ CrmDay \in [Items -> 0..LastDay]
    /\ \A i \in Items : CrmDay[i] # 0 <=> Kind[i] \in Objects
    /\ \A i \in Items : Kind[i] \notin Objects =>
          Parent[i] \in Items /\ Kind[Parent[i]] = ParentKind[Kind[i]]

(* Every date's CRM plan begins with at least one new account, followed by *)
(* at least one new opportunity.                                           *)
ASSUME CrmPlanAssumption ==
    \A d \in Days : \A o \in Objects : \E i \in Creates :
        /\ CrmDay[i] = d /\ Kind[i] = o
        /\ \A k \in Items : CrmDay[k] = d /\ k < i => k \in Creates

VARIABLES
    today,       \* the calendar
    \* simulation.duckdb
    watermark,   \* last_completed_date
    run,         \* simulation_runs.state
    src,         \* simulation_source_runs.state
    events,      \* simulation_events
    \* CRM delta directory
    parts,       \* partitions written: <<day, object>>
    history,     \* OpportunityHistory partition of each day
    manifest,    \* manifest of each day: the items it lists
    \* Ops and ERP databases
    applied,     \* simulation.applied_events
    rows,        \* business rows: kind, primary key, item
    \* the simulator process
    pc, day, through,
    group,       \* which record_events or mark_source_applied this is
    todo,        \* events to record
    files,       \* partitions to write
    stale,       \* the previous stages were read after a partition was written
    interrupts   \* history: how many, and which parts were cut off

control == <<watermark, run, src, events>>
crm     == <<parts, history, manifest>>
sourceDbs == <<applied, rows>>
locals  == <<day, through, group, todo, files, stale>>
vars    == <<today, control, crm, sourceDbs, pc, locals, interrupts>>

NoManifest == {0}

----------------------------------------------------------------------------
Recorded(d, kinds) == {e \in events : e.day = d /\ Kind[e.item] \in kinds}

ItemsOf(es) == {e.item : e \in es}

RowItems(kind) == {r.item : r \in {s \in rows : s.kind = kind}}

(* The date item i falls due is not after d.  The parent was recorded, or  *)
(* is a shipment planned in this call.                                     *)
Due(i, d, planned) ==
    \/ \E e \in events : e.item = Parent[i] /\ e.day <= d /\ e.day + Delay[i] <= d
    \/ Parent[i] \in planned /\ Delay[i] = 0

DueToday(i, d) == \E e \in events : e.item = Parent[i] /\ e.day + Delay[i] = d

NextId(kind) ==
    LET used == {r.id : r \in {s \in rows : s.kind = kind}}
    IN  IF used = {} THEN 1 ELSE 1 + CHOOSE n \in used : \A m \in used : m <= n

(* Mutant: the support planner does not number the cases of a plan on.     *)
PlannedAtOnce(d, is) ==
    {[day |-> d, item |-> i,
      id  |-> CASE Kind[i] = "case" -> NextId("case")
                [] Kind[i] \in Numbered \ {"case"} ->
                     NextId(Kind[i]) + Cardinality({k \in is : Kind[k] = Kind[i] /\ k < i})
                [] OTHER -> i] : i \in is}

(* The events for a set of items of the same plan.                         *)
Planned(d, is) ==
    {[day |-> d, item |-> i,
      id  |-> IF Kind[i] \in Numbered
              THEN NextId(Kind[i]) + Cardinality({k \in is : Kind[k] = Kind[i] /\ k < i})
              ELSE i] : i \in is}

(* CrmDailyPlanner.plan: seeded by the date, so it does not depend on the  *)
(* attempt.                                                                *)
PlanCrm(d) == {i \in Items : CrmDay[i] = d}

(* Mutant: opportunities that already have an order are not left out.      *)
PlanAllOrders(d) == {i \in Items : Kind[i] = "order" /\ Due(i, d, {})}

(* OpsDailyPlanner.plan.                                                   *)
PlanOrders(d) ==
    {i \in Items : Kind[i] = "order" /\ Due(i, d, {}) /\ i \notin RowItems("order")}

(* FulfillmentPlanner.plan: new shipments, and what follows from these and *)
(* from the recorded ones.                                                 *)
PlanFulfillment(d) ==
    LET ships == {i \in Items : /\ Kind[i] = "shipment" /\ Due(i, d, {})
                                /\ i \notin RowItems("shipment")}
    IN  ships \cup {i \in Items : \E k \in {"invoice", "delivery"} :
                        Kind[i] = k /\ Due(i, d, ships) /\ i \notin RowItems(k)}

(* SupportCasePlanner.plan goes by the recorded events, not by the rows.   *)
PlanSupport(d) ==
    {i \in Items : Kind[i] = "case" /\ Due(i, d, {}) /\ i \notin ItemsOf(events)}

(* Mutant: a breach date holds the backlog too.                            *)
PlanPostingsNoBacklog(d) ==
    {i \in Items : /\ Kind[i] = "posting" /\ Due(i, d, {})
                   /\ Parent[i] \in RowItems("invoice")
                   /\ i \notin RowItems("posting")
                   /\ d \notin BreachDays}

(* ErpDailyPlanner.plan.                                                   *)
PlanPostings(d) ==
    {i \in Items : /\ Kind[i] = "posting" /\ Due(i, d, {})
                   /\ Parent[i] \in RowItems("invoice")
                   /\ i \notin RowItems("posting")
                   /\ ~(d \in BreachDays /\ DueToday(i, d))}

(* What a run records for a group; a group with events from an earlier     *)
(* attempt is not planned again, except the follow-ups.                    *)
Plan(g, d) ==
    CASE g = "crm"     -> IF Recorded(d, Objects) # {} THEN {}
                          ELSE Planned(d, PlanCrm(d))
      [] g = "order"   -> IF Recorded(d, {"order"}) # {} THEN {} ELSE Planned(d, PlanOrders(d))
      [] g = "fulfillment" -> Planned(d, PlanFulfillment(d))
      [] g = "support" -> Planned(d, PlanSupport(d))
      [] g = "posting" -> IF Recorded(d, {"posting"}) # {} THEN {} ELSE Planned(d, PlanPostings(d))

SourceOf(g) == CASE g = "crm" -> "crm" [] g = "posting" -> "erp" [] OTHER -> "ops"

KindsOf(g) ==
    CASE g = "crm" -> Objects [] g = "order" -> {"order"} [] g = "fulfillment" -> FollowUps \ {"case"}
      [] g = "support" -> {"case"} [] g = "posting" -> {"posting"}

(* What follows the recording of a group.                                  *)
AfterRecord(g) ==
    CASE g = "crm" -> "publish" [] g = "order" -> "apply" [] g = "fulfillment" -> "plan"
      [] g = "support" -> "apply" [] g = "posting" -> "apply"

----------------------------------------------------------------------------
Init ==
    /\ today = 0
    /\ watermark = 0
    /\ run = [d \in Days |-> "none"]
    /\ src = [d \in Days |-> [s \in Sources |-> "none"]]
    /\ events = {}
    /\ parts = {}
    /\ history = [d \in Days |-> "none"]
    /\ manifest = [d \in Days |-> NoManifest]
    /\ applied = {} /\ rows = {}
    /\ pc = "idle" /\ day = 0 /\ through = 0
    /\ group = "crm" /\ todo = {} /\ files = {} /\ stale = FALSE
    /\ interrupts = [count |-> 0, cut |-> {}]

Tick ==
    /\ today < LastDay
    /\ today' = today + 1
    /\ UNCHANGED <<control, crm, sourceDbs, pc, locals, interrupts>>

(* The run is over, with an error or without: the daemon sleeps, then      *)
(* calls run_through again.                                                *)
Unwind ==
    /\ pc' = "idle"
    /\ day' = 0 /\ through' = 0
    /\ group' = "crm" /\ todo' = {} /\ files' = {} /\ stale' = FALSE

StartDay(d) ==
    /\ day' = d /\ pc' = "claim"
    /\ group' = "crm" /\ todo' = {} /\ files' = {} /\ stale' = FALSE

(* run_through with today's date; nothing is due otherwise.                *)
RunThrough ==
    /\ pc = "idle"
    /\ watermark < today
    /\ through' = today
    /\ StartDay(watermark + 1)
    /\ UNCHANGED <<today, control, crm, sourceDbs, interrupts>>

(* Mutant: a date that was not claimed is not run.                         *)
ClaimHonoured ==
    /\ pc = "claim"
    /\ run[day] # "completed"
    /\ run' = [run EXCEPT ![day] = "in_progress"]
    /\ pc' = IF run[day] = "none" THEN "claim_sources" ELSE "plan"
    /\ UNCHANGED <<today, watermark, src, events, crm, sourceDbs, locals, interrupts>>

(* claim_run: an existing row is taken over whatever its source rows are,  *)
(* and CrmRun ignores that a completed one was not claimed.                *)
Claim ==
    /\ pc = "claim"
    /\ run' = [run EXCEPT ![day] = IF @ = "completed" THEN @ ELSE "in_progress"]
    /\ pc' = IF run[day] = "none" THEN "claim_sources" ELSE "plan"
    /\ UNCHANGED <<today, watermark, src, events, crm, sourceDbs, locals, interrupts>>

(* ... one INSERT per source, each committed on its own.                   *)
ClaimSource ==
    /\ pc = "claim_sources"
    /\ LET s == CASE src[day]["crm"] = "none" -> "crm"
                  [] src[day]["ops"] = "none" /\ src[day]["crm"] # "none" -> "ops"
                  [] OTHER -> "erp"
       IN  /\ src' = [src EXCEPT ![day][s] = "pending"]
           /\ pc' = IF s = "erp" THEN "plan" ELSE "claim_sources"
    /\ UNCHANGED <<today, watermark, run, events, crm, sourceDbs, locals, interrupts>>

(* OpsRun and ErpRun refuse to plan before the source ahead of them.       *)
OutOfOrder ==
    \/ group = "order" /\ src[day]["crm"] # "applied"
    \/ group = "posting" /\ src[day]["ops"] # "applied"

PlanGroup ==
    /\ pc = "plan"
    /\ ~OutOfOrder
    /\ todo' = Plan(group, day)
    /\ pc' = "record"
    /\ UNCHANGED <<today, control, crm, sourceDbs, day, through, group, files, stale, interrupts>>

(* record_events: one INSERT per event, each committed on its own.         *)
RecordEvent ==
    /\ pc = "record"
    /\ todo # {}
    /\ src[day][SourceOf(group)] # "none"
    /\ \E e \in todo :
        /\ \A f \in todo : e.item <= f.item
        /\ events' = events \cup {e}
        /\ todo' = todo \ {e}
    /\ UNCHANGED <<today, watermark, run, src, crm, sourceDbs, pc, day, through, group, files, stale, interrupts>>

RecordingDone ==
    /\ pc = "record"
    /\ todo = {}
    /\ pc' = AfterRecord(group)
    /\ group' = IF group = "fulfillment" THEN "support" ELSE group
    /\ UNCHANGED <<today, control, crm, sourceDbs, day, through, todo, files, stale, interrupts>>

----------------------------------------------------------------------------
(* CrmDeltaPublisher.publish.                                              *)

(* _current_rows: seed files and every partition on disk, of this date too.*)
Exists(i) == \E d \in Days : <<d, Kind[i]>> \in parts /\ i \in ItemsOf(Recorded(d, Objects))

(* A manifest ends the publication; otherwise the previous stages are read *)
(* before anything is written.                                             *)
Publish ==
    /\ pc = "publish"
    /\ IF manifest[day] = NoManifest
       THEN /\ files' = {Kind[i] : i \in ItemsOf(Recorded(day, Objects))}
            /\ stale' = (<<day, "opportunities">> \in parts)
            /\ pc' = "write"
       ELSE /\ manifest[day] = ItemsOf(Recorded(day, Objects))
            /\ pc' = "mark"
            /\ UNCHANGED <<files, stale>>
    /\ UNCHANGED <<today, control, crm, sourceDbs, day, through, group, todo, interrupts>>

(* _materialize and _write_parquet for one object, in any order.           *)
WritePartition(o) ==
    /\ pc = "write"
    /\ o \in files
    /\ \A i \in ItemsOf(Recorded(day, {o})) : i \in Creates => ~Exists(i)
    /\ parts' = parts \cup {<<day, o>>}
    /\ files' = files \ {o}
    /\ UNCHANGED <<today, control, history, manifest, sourceDbs, pc, day, through, group, todo, stale, interrupts>>

WriteHistory ==
    /\ pc = "write"
    /\ files = {}
    /\ history' = [history EXCEPT ![day] =
                     IF Recorded(day, {"opportunities"}) = {} THEN @
                     ELSE IF stale THEN "stale" ELSE "good"]
    /\ pc' = "manifest"
    /\ UNCHANGED <<today, control, parts, manifest, sourceDbs, locals, interrupts>>

(* Mutant: the manifest lists what was planned, not what was recorded.     *)
WriteManifestOfPlan ==
    /\ pc = "manifest"
    /\ manifest' = [manifest EXCEPT ![day] = PlanCrm(day)]
    /\ pc' = "mark"
    /\ UNCHANGED <<today, control, parts, history, sourceDbs, locals, interrupts>>

WriteManifest ==
    /\ pc = "manifest"
    /\ manifest' = [manifest EXCEPT ![day] = ItemsOf(Recorded(day, Objects))]
    /\ pc' = "mark"
    /\ UNCHANGED <<today, control, parts, history, sourceDbs, locals, interrupts>>

----------------------------------------------------------------------------
(* Ops and ERP: one Postgres transaction per _apply.                       *)

Batch ==
    Recorded(day, CASE group = "order" -> {"order"} [] group = "support" -> FollowUps
                    [] OTHER -> {"posting"}) \ applied

Row(e) == [kind |-> Kind[e.item], id |-> e.id, item |-> e.item]

(* Another item has the primary key: an error, except for a support case,  *)
(* where the event is marked as applied without a row of its own.          *)
Taken(r, rs) == \E s \in rs : s.kind = r.kind /\ s.id = r.id /\ s.item # r.item

Collision ==
    \E e \in Batch : Kind[e.item] # "case" /\ Taken(Row(e), rows \cup {Row(f) : f \in Batch})

Apply ==
    /\ pc = "apply"
    /\ ~Collision
    /\ applied' = applied \cup Batch
    /\ \E new \in SUBSET {Row(e) : e \in Batch} :
        /\ \A r \in new : ~Taken(r, rows \cup new)
        /\ \A e \in Batch : Row(e) \in new \/ Taken(Row(e), rows \cup new)
        /\ rows' = rows \cup new
    /\ IF group = "order" THEN group' = "fulfillment" /\ pc' = "plan"
                          ELSE group' = group /\ pc' = "mark"
    /\ UNCHANGED <<today, control, crm, day, through, todo, files, stale, interrupts>>

(* mark_source_applied, then the next source.                              *)
MarkApplied ==
    /\ pc = "mark"
    /\ LET s == SourceOf(group)
       IN  /\ src[day][s] # "none"
           /\ s = "ops" => src[day]["crm"] = "applied"
           /\ s = "erp" => src[day]["crm"] = "applied" /\ src[day]["ops"] = "applied"
           /\ src' = [src EXCEPT ![day][s] = "applied"]
           /\ group' = CASE s = "crm" -> "order" [] OTHER -> "posting"
           /\ pc' = IF s = "erp" THEN "reconcile" ELSE "plan"
    /\ UNCHANGED <<today, watermark, run, events, crm, sourceDbs, day, through, todo, files, stale, interrupts>>

(* validate_opportunity_history_partition: a stale previous stage is found *)
(* by the opportunity that was created on the date.                        *)
HistoryReconciled(d) ==
    IF Recorded(d, {"opportunities"}) = {}
    THEN history[d] = "none"
    ELSE /\ manifest[d] # NoManifest
         /\ ItemsOf(Recorded(d, {"opportunities"})) \subseteq manifest[d]
         /\ history[d] = "good"

(* DailySourceReconciler: the history partition, and a marker and a row    *)
(* under the planned key for every Ops and ERP event of the date.          *)
Reconciled(d) ==
    /\ HistoryReconciled(d)
    /\ \A e \in Recorded(d, OpsKinds \cup {"posting"}) :
          /\ e \in applied
          /\ \E r \in rows : r.kind = Kind[e.item] /\ r.id = e.id

Reconcile ==
    /\ pc = "reconcile"
    /\ Reconciled(day)
    /\ pc' = "complete"
    /\ UNCHANGED <<today, control, crm, sourceDbs, locals, interrupts>>

(* Mutant: the date is completed before ERP has posted, and the sources    *)
(* still pending are not counted.                                          *)
CompleteUnchecked ==
    /\ pc = "complete" \/ (pc = "plan" /\ group = "posting")
    /\ day = watermark + 1
    /\ run' = [run EXCEPT ![day] = "completed"]
    /\ pc' = "advance"
    /\ UNCHANGED <<today, watermark, src, events, crm, sourceDbs, locals, interrupts>>

(* complete_run: the run's row first ...                                   *)
Complete ==
    /\ pc = "complete"
    /\ day = watermark + 1
    /\ \A s \in Sources : src[day][s] = "applied"
    /\ run' = [run EXCEPT ![day] = "completed"]
    /\ pc' = "advance"
    /\ UNCHANGED <<today, watermark, src, events, crm, sourceDbs, locals, interrupts>>

(* Mutant: due_dates goes one date too far.                                *)
AdvancePastToday ==
    /\ pc = "advance"
    /\ watermark' = day
    /\ IF day <= through THEN StartDay(day + 1) /\ UNCHANGED through ELSE Unwind
    /\ UNCHANGED <<today, run, src, events, crm, sourceDbs, interrupts>>

(* ... then the watermark, and on to the next due date.                    *)
Advance ==
    /\ pc = "advance"
    /\ watermark' = day
    /\ IF day < through THEN StartDay(day + 1) /\ UNCHANGED through ELSE Unwind
    /\ UNCHANGED <<today, run, src, events, crm, sourceDbs, interrupts>>

----------------------------------------------------------------------------
(* The code raises: an order that a guard above refuses.                   *)
Refused ==
    \/ pc = "plan" /\ OutOfOrder
    \/ pc = "record" /\ todo # {} /\ src[day][SourceOf(group)] = "none"
    \/ pc = "publish" /\ manifest[day] \notin {NoManifest, ItemsOf(Recorded(day, Objects))}
    \/ pc = "write" /\ \E o \in files : \E i \in ItemsOf(Recorded(day, {o})) : i \in Creates /\ Exists(i)
    \/ pc = "apply" /\ Collision
    \/ pc = "mark" /\ src[day][SourceOf(group)] = "none"
    \/ pc = "reconcile" /\ ~Reconciled(day)

Raise ==
    /\ Refused
    /\ Unwind
    /\ UNCHANGED <<today, control, crm, sourceDbs, interrupts>>

(* The parts that are neither one statement nor one transaction: the one   *)
(* that is cut off is left half done (record_events: with some events of   *)
(* its group and not with others).                                         *)
PartCut(step) ==
    CASE step = "claim_sources" -> {"claim"}
      [] step = "record" /\ todo # {} /\ Recorded(day, KindsOf(group)) # {} -> {"record"}
      [] step \in {"write", "manifest"} -> {"publication"}
      [] OTHER -> {}

(* The process dies, or a source call fails, before the next statement.    *)
Interrupt ==
    /\ pc \in InterruptAt
    /\ interrupts.count < MaxInterrupts
    /\ interrupts' = [count |-> interrupts.count + 1, cut |-> interrupts.cut \cup PartCut(pc)]
    /\ Unwind
    /\ UNCHANGED <<today, control, crm, sourceDbs>>

RunnerStep ==
    \/ RunThrough \/ Claim \/ ClaimSource \/ PlanGroup \/ RecordEvent \/ RecordingDone
    \/ Publish \/ WriteHistory \/ WriteManifest \/ \E o \in Objects : WritePartition(o)
    \/ Apply \/ MarkApplied \/ Reconcile \/ Complete \/ Advance \/ Raise

Next == Tick \/ RunnerStep \/ Interrupt

Spec == Init /\ [][Next]_vars

(* run_forever never gives up, and the container restarts                  *)
(* (unless-stopped).                                                       *)
FairSpec == Spec /\ WF_vars(RunnerStep)
----------------------------------------------------------------------------
Event == [day: Days, item: Items, id: Nat]

(* Type invariant: the control tables, the CRM directory, the source       *)
(* databases and the run's locals hold values of their types; the run      *)
(* never goes past the calendar.                                           *)
TypeOK ==
    /\ today \in 0..LastDay /\ watermark \in 0..LastDay
    /\ run \in [Days -> {"none", "in_progress", "completed"}]
    /\ src \in [Days -> [Sources -> {"none", "pending", "applied"}]]
    /\ events \subseteq Event /\ applied \subseteq Event
    /\ parts \subseteq Days \X Objects
    /\ history \in [Days -> {"none", "good", "stale"}]
    /\ manifest \in [Days -> SUBSET (Items \cup {0})]
    /\ \A r \in rows : r.kind \in Kinds /\ r.id \in Nat /\ r.item \in Items
    /\ pc \in {"idle", "claim", "claim_sources", "plan", "record", "publish", "write",
               "manifest", "apply", "mark", "reconcile", "complete", "advance"}
    /\ day \in 0..LastDay /\ through \in 0..LastDay
    /\ group \in Groups
    /\ todo \subseteq Event /\ files \subseteq Objects
    /\ stale \in BOOLEAN /\ interrupts.count \in 0..MaxInterrupts
    /\ interrupts.cut \subseteq {"claim", "record", "publication"}

(* "A date advances only after CRM, Ops, and ERP have all acknowledged     *)
(* their work": every date up to the watermark is completed, has all its   *)
(* sources applied and still reconciles, and no later date than the next   *)
(* has been touched.                                                       *)
WatermarkSound ==
    /\ \A d \in 1..watermark :
          /\ run[d] = "completed"
          /\ \A s \in Sources : src[d][s] = "applied"
          /\ Reconciled(d)
    /\ \A d \in Days : d > watermark + 1 => run[d] = "none" /\ Recorded(d, Kinds) = {}

(* A published manifest lists the CRM events that are recorded for its     *)
(* date, so publish never meets "a different CRM event set".               *)
ManifestMatches ==
    \A d \in Days : manifest[d] # NoManifest => manifest[d] = ItemsOf(Recorded(d, Objects))

(* However often a date is replayed, an item takes effect once: an         *)
(* opportunity is converted to one order, an order shipped and invoiced    *)
(* once, an invoice posted once, and no two items share a primary key.     *)
EffectsOnce ==
    \A r, s \in rows : r.kind = s.kind /\ (r.item = s.item \/ r.id = s.id) => r = s

(* "completed days are never rerun".  They are, when complete_run was cut  *)
(* off before the watermark, but the second run of a completed date plans, *)
(* publishes and applies nothing.                                          *)
CompletedUnchanged ==
    [][\A d \in Days : run[d] = "completed" =>
        /\ Recorded(d, Kinds)' = Recorded(d, Kinds)
        /\ {e \in applied' : e.day = d} = {e \in applied : e.day = d}
        /\ {p \in parts' : p[1] = d} = {p \in parts : p[1] = d}
        /\ history'[d] = history[d] /\ manifest'[d] = manifest[d]
        /\ src'[d] = src[d]]_vars

(* The watermark catches up with the calendar through every interruption,  *)
(* except one inside claim_run, between its inserts, and one between two   *)
(* files of a publication or before its manifest: after these, every retry *)
(* of the date is refused.                                                 *)
CatchesUp ==
    \A d \in Days : today >= d ~>
        (watermark >= d \/ interrupts.cut \cap {"claim", "publication"} # {})

(* Every support case that was opened is in the database under a number of *)
(* its own, unless record_events was cut off between two events.           *)
CasesKept ==
    "record" \in interrupts.cut \/
        \A e \in applied : Kind[e.item] = "case" => e.item \in RowItems("case")

(* "guaranteeing a one-day breach even when two consecutive weeks select   *)
(* adjacent dates": when its due date is completed an invoice is posted, a *)
(* breach date holds it for one date and no more, also when that date is a *)
(* breach date too.  Only a record_events that was cut off adds to this.   *)
PostedInTime ==
    "record" \in interrupts.cut \/
        \A i \in Items : \A e \in events :
            LET due == e.day + Delay[i]
            IN  (/\ Kind[i] = "posting" /\ e.item = Parent[i]
                 /\ due + (IF due \in BreachDays THEN 1 ELSE 0) <= watermark)
                => i \in RowItems("posting")

(* "lets a restart replay a partial day safely": a completed date has      *)
(* published all of its CRM plan.                                          *)
NothingLost ==
    \A d \in 1..watermark : PlanCrm(d) = ItemsOf(Recorded(d, Objects))
=============================================================================
