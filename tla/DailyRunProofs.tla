--------------------------- MODULE DailyRunProofs ---------------------------
(***************************************************************************)
(* Proofs about the daily run, for every calendar, every set of items and  *)
(* every number of interruptions.                                          *)
(*                                                                         *)
(* Inductive invariants, each one on top of those before: what the process *)
(* knows and has published (Inv), which groups of the current date are     *)
(* settled (Replay), what holds as long as no record_events was cut off    *)
(* (Uncut, CrmWhole), and what lets a retry proceed (Retry).               *)
(***************************************************************************)
EXTENDS DailyRun, NumberLemmas, FiniteSetTheorems, TLAPS

Fulfilling == {"shipment", "invoice", "delivery"}

(* The kinds of the events of the groups after one.                        *)
LaterKinds(g) ==
    CASE g = "crm" -> OpsKinds \cup {"posting"} [] g = "order" -> FollowUps \cup {"posting"}
      [] g = "fulfillment" -> {"case", "posting"} [] g = "support" -> {"posting"}
      [] g = "posting" -> {}

LaterGroups(g) ==
    CASE g = "crm" -> {"order", "fulfillment", "support", "posting"}
      [] g = "order" -> {"fulfillment", "support", "posting"}
      [] g = "fulfillment" -> {"support", "posting"} [] g = "support" -> {"posting"}
      [] g = "posting" -> {}

----------------------------------------------------------------------------
Shape ==
    /\ TypeOK
    /\ rows \subseteq [kind: Kinds, id: Nat, item: Items]
    /\ interrupts \in [count: 0..MaxInterrupts, cut: SUBSET {"claim", "record", "publication"}]
    /\ IsFiniteSet(events) /\ IsFiniteSet(rows) /\ IsFiniteSet(todo)

(* Where the run is, and what it is about to record.                       *)
ProcessOK ==
    /\ watermark <= today /\ through <= today
    /\ pc # "idle" => day = watermark + 1 /\ day <= through
    /\ pc # "record" => todo = {}
    /\ pc \in {"idle", "claim", "claim_sources", "publish", "write", "manifest"} => group = "crm"
    /\ pc = "apply" => group \in {"order", "support", "posting"}
    /\ pc = "mark" => group \in {"crm", "support", "posting"}
    /\ pc \in {"reconcile", "complete", "advance"} => group = "posting"
    /\ \A e \in todo : e.day = day /\ Kind[e.item] \in KindsOf(group)

(* The dates behind the watermark, and what the run knows of its own.      *)
ControlOK ==
    /\ WatermarkSound
    /\ \A d \in Days : d > watermark + 1 => \A s \in Sources : src[d][s] = "none"
    /\ pc = "complete" => Reconciled(day)
    /\ pc = "advance" => /\ Reconciled(day) /\ run[day] = "completed"
                         /\ \A s \in Sources : src[day][s] = "applied"

(* A manifest is written when the CRM events of its date are complete.     *)
ManifestOK ==
    /\ \A d \in Days : manifest[d] # NoManifest =>
          manifest[d] = ItemsOf(Recorded(d, Objects)) /\ Recorded(d, Objects) # {}
    /\ pc = "record" /\ group = "crm" =>
          IF todo = {} THEN Recorded(day, Objects) # {} ELSE manifest[day] = NoManifest
    /\ pc \in {"publish", "write", "manifest"} => Recorded(day, Objects) # {}

Inv == Shape /\ ProcessOK /\ ControlOK /\ ManifestOK

----------------------------------------------------------------------------
(* No attempt adds to a settled group of date d any more.                  *)
Settled(g, d) ==
    CASE g = "crm" -> Recorded(d, Objects) # {}
      [] g = "order" -> Recorded(d, {"order"}) # {} \/ PlanOrders(d) = {}
      [] g = "fulfillment" -> PlanFulfillment(d) \subseteq ItemsOf(Recorded(d, Fulfilling))
      [] g = "support" -> PlanSupport(d) = {}
      [] g = "posting" -> Recorded(d, {"posting"}) # {} \/ PlanPostings(d) = {}

(* What shows, in this attempt or after an earlier one, that date d got    *)
(* past group g.                                                           *)
Evidence(g, d) == Recorded(d, LaterKinds(g)) # {} \/ src[d][SourceOf(g)] = "applied"

Behind(g) ==
    /\ pc # "idle"
    /\ \/ group \in LaterGroups(g)
       \/ group = g /\ pc \notin {"claim", "claim_sources", "plan"} /\ todo = {}

SettledOK ==
    \A d \in Days : d = watermark + 1 =>
        \A g \in Groups : Evidence(g, d) \/ Behind(g) => Settled(g, d)

(* What is still to be recorded: nothing new once there is evidence of a   *)
(* later group, and all that the follow-up plans of the date ask for.      *)
TodoOK ==
    \A d \in Days : d = watermark + 1 =>
        /\ Evidence(group, d) => todo \subseteq events
        /\ pc = "record" /\ group = "fulfillment" =>
              /\ todo \subseteq Planned(d, PlanFulfillment(d))
              /\ PlanFulfillment(d) \subseteq ItemsOf(Recorded(d, Fulfilling)) \cup ItemsOf(todo)
        /\ pc = "record" /\ group = "support" => PlanSupport(d) \subseteq ItemsOf(todo)

(* A fulfilment event that waits for its transaction is one that every     *)
(* other attempt of the date would plan again, under the same key.         *)
PendingOK ==
    \A d \in Days : d = watermark + 1 =>
        \A e \in Recorded(d, Fulfilling) : e \notin applied => e \in Planned(d, PlanFulfillment(d))

(* An item is recorded once, as one event.                                 *)
EventsOK ==
    /\ \A e, f \in events \cup todo : e.item = f.item => e = f
    /\ \A e \in events \cup todo : Kind[e.item] \in Objects => e.day = CrmDay[e.item]

(* Rows come from applied events, under the key of the event.              *)
RowsOK ==
    /\ applied \subseteq events
    /\ \A r \in rows : \E e \in applied : r = Row(e)
    /\ \A e \in applied : Kind[e.item] # "case" => Row(e) \in rows
    /\ \A r, s \in rows : r.kind = s.kind /\ r.id = s.id => r = s

(* The sources of the current date are applied in order, each with all of  *)
(* its recorded events.                                                    *)
SourcesOK ==
    \A d \in Days : d = watermark + 1 =>
        /\ src[d]["ops"] = "applied" => src[d]["crm"] = "applied"
        /\ src[d]["erp"] = "applied" => src[d]["ops"] = "applied"
        /\ run[d] = "completed" => \A s \in Sources : src[d][s] = "applied"
        /\ pc = "claim_sources" => run[d] = "in_progress"
        /\ src[d]["crm"] = "applied" \/ (pc = "mark" /\ group = "crm") => manifest[d] # NoManifest
        /\ pc \in {"write", "manifest"} => manifest[d] = NoManifest
        /\ group \in {"fulfillment", "support"} => Recorded(d, {"order"}) \subseteq applied
        /\ src[d]["ops"] = "applied" \/ (pc = "mark" /\ group = "support") =>
              Recorded(d, OpsKinds) \subseteq applied
        /\ src[d]["erp"] = "applied" \/ (pc = "mark" /\ group = "posting") =>
              Recorded(d, {"posting"}) \subseteq applied
        /\ Recorded(d, {"posting"}) # {} \/ (pc # "plan" /\ group = "posting") => src[d]["ops"] = "applied"

Replay == SettledOK /\ TodoOK /\ PendingOK /\ EventsOK /\ RowsOK /\ SourcesOK

----------------------------------------------------------------------------
(* Before any record_events was cut off.                                   *)
WholeOK ==
    \A d \in Days : d = watermark + 1 =>
        /\ Recorded(d, {"case"}) # {} =>
              PlanSupport(d) \subseteq IF group = "support" THEN ItemsOf(todo) ELSE {}
        /\ Recorded(d, {"posting"}) # {} \/ (pc = "record" /\ group = "posting") =>
              PlanPostings(d) \subseteq ItemsOf(Recorded(d, {"posting"})) \cup
                                        IF group = "posting" THEN ItemsOf(todo) ELSE {}
        /\ src[d]["erp"] = "applied" => PlanPostings(d) = {}

(* The support cases that are not in the database yet.                     *)
WaitingCases ==
    {e \in events \cup todo : Kind[e.item] = "case" /\ e \notin applied}

CasesOK ==
    /\ \A e \in WaitingCases : e.id >= NextId("case")
    /\ \A e, f \in WaitingCases : e.id = f.id => e = f
    /\ \A e \in applied : Kind[e.item] = "case" => Row(e) \in rows

ClaimedOK ==
    \A e \in events : \A g \in Groups : Kind[e.item] \in KindsOf(g) => src[e.day][SourceOf(g)] # "none"

Uncut ==
    /\ ClaimedOK
    /\ "record" \notin interrupts.cut => WholeOK /\ CasesOK /\ PostedInTime

----------------------------------------------------------------------------
(* Lemmas about the operators of the model.                                *)

(* The next number of a table is a number above all that are in use.       *)
LEMMA NextIdFree ==
    ASSUME Shape, NEW k \in Kinds
    PROVE  NextId(k) \in Nat /\ \A r \in rows : r.kind = k => r.id < NextId(k)
<1> DEFINE S == {s \in rows : s.kind = k}
<1> DEFINE Ids == [r \in rows |-> r.id]
<1> DEFINE used == {r.id : r \in S}
<1>1. \A r \in rows : r.id \in Nat
  BY DEF Shape
<1>2. used \subseteq Nat
  BY <1>1
<1>3. IsFiniteSet(used)
  <2>1. IsFiniteSet(S)
    <3>1. IsFiniteSet(rows) /\ S \in SUBSET rows
      BY DEF Shape
    <3> QED
      BY <3>1, FS_Subset
  <2>2. used = {Ids[r] : r \in S}
    OBVIOUS
  <2> HIDE DEF S, Ids, used
  <2> QED
    BY <2>1, <2>2, FiniteImage
<1>4. \A r \in rows : r.kind = k => r.id \in used
  OBVIOUS
<1>5. NextId(k) = IF used = {} THEN 1 ELSE 1 + CHOOSE n \in used : \A m \in used : m <= n
  BY DEF NextId
<1> HIDE DEF used
<1>6. CASE used = {}
  BY <1>4, <1>5, <1>6
<1>7. CASE used # {}
  <2>1. PICK x \in used : \A y \in used : y <= x
    BY <1>2, <1>3, <1>7, GreatestOfFinite
  <2> DEFINE top == CHOOSE n \in used : \A m \in used : m <= n
  <2>2. top \in used /\ \A m \in used : m <= top
    BY <2>1
  <2>3. NextId(k) = 1 + top
    BY <1>5, <1>7
  <2> HIDE DEF top
  <2>4. top \in Nat /\ NextId(k) \in Nat
    BY <1>2, <2>2, <2>3
  <2>5. \A r \in rows : r.kind = k => r.id < NextId(k)
    BY <1>1, <1>4, <2>2, <2>3, <2>4
  <2> QED
    BY <2>4, <2>5
<1> QED
  BY <1>6, <1>7

(* A plan is a finite set of events, one for each of its items.            *)
LEMMA PlannedEvents ==
    ASSUME Shape, NEW d \in Days, NEW S \in SUBSET Items
    PROVE  /\ Planned(d, S) \subseteq Event /\ IsFiniteSet(Planned(d, S))
           /\ \A e \in Planned(d, S) : e.day = d /\ e.item \in S
           /\ \A e, f \in Planned(d, S) : e.item = f.item => e = f
           /\ ItemsOf(Planned(d, S)) = S
<1> DEFINE below(i) == {k \in S : Kind[k] = Kind[i] /\ k < i}
<1> DEFINE num(i) == IF Kind[i] \in Numbered THEN NextId(Kind[i]) + Cardinality(below(i)) ELSE i
<1> DEFINE ev == [i \in S |-> [day |-> d, item |-> i, id |-> num(i)]]
<1>1. \A i \in S : i \in Nat /\ Kind[i] \in Kinds
  BY ItemsAssumption
<1>2. \A i \in S : num(i) \in Nat
  <2>1. TAKE i \in S
  <2>2. NextId(Kind[i]) \in Nat
    BY <1>1, NextIdFree
  <2>3. Cardinality(below(i)) \in Nat
    <3>1. below(i) \in SUBSET Items
      OBVIOUS
    <3> HIDE DEF below
    <3> QED
      BY <3>1, ItemsAssumption, FS_Subset, FS_CardinalityType
  <2> HIDE DEF below
  <2> QED
    BY <1>1, <2>2, <2>3
<1>3. Planned(d, S) = {ev[i] : i \in S}
  BY DEF Planned
<1>4. IsFiniteSet(S)
  BY ItemsAssumption, FS_Subset
<1> HIDE DEF num
<1>5. \A i \in S : ev[i] = [day |-> d, item |-> i, id |-> num(i)]
  OBVIOUS
<1>6. \A i \in S : ev[i] \in Event /\ ev[i].day = d /\ ev[i].item = i
  BY <1>2, <1>5 DEF Event
<1> HIDE DEF ev
<1>7. IsFiniteSet(Planned(d, S))
  BY <1>3, <1>4, FiniteImage
<1> QED
  BY <1>3, <1>6, <1>7 DEF ItemsOf

(* Every plan of a group is empty or the events of a set of its items.     *)
LEMMA PlanIsPlanned ==
    ASSUME NEW g \in Groups, NEW d \in Days
    PROVE  \E S \in SUBSET Items :
               /\ \A i \in S : Kind[i] \in KindsOf(g)
               /\ Plan(g, d) = {} \/ Plan(g, d) = Planned(d, S)
<1>1. CASE g = "crm"
  <2>1. \A i \in PlanCrm(d) : Kind[i] \in Objects
    <3>1. d # 0
      BY DEF Days
    <3> QED
      BY <3>1, ItemsAssumption DEF PlanCrm
  <2>2. PlanCrm(d) \in SUBSET Items
    BY DEF PlanCrm
  <2>3. KindsOf(g) = Objects
    BY <1>1 DEF KindsOf
  <2>4. Plan(g, d) = {} \/ Plan(g, d) = Planned(d, PlanCrm(d))
    BY <1>1 DEF Plan
  <2> QED
    BY <2>1, <2>2, <2>3, <2>4
<1>2. CASE g = "order"
  <2>1. PlanOrders(d) \in SUBSET Items /\ \A i \in PlanOrders(d) : Kind[i] = "order"
    BY DEF PlanOrders
  <2>2. KindsOf(g) = {"order"}
    BY <1>2 DEF KindsOf
  <2>3. Plan(g, d) = {} \/ Plan(g, d) = Planned(d, PlanOrders(d))
    BY <1>2 DEF Plan
  <2> QED
    BY <2>1, <2>2, <2>3
<1>3. CASE g = "fulfillment"
  <2>1. PlanFulfillment(d) \in SUBSET Items
    BY DEF PlanFulfillment
  <2>2. \A i \in PlanFulfillment(d) : Kind[i] \in Fulfilling
    BY DEF PlanFulfillment, Fulfilling
  <2>3. KindsOf(g) = Fulfilling
    BY <1>3 DEF KindsOf, Fulfilling, FollowUps
  <2>4. Plan(g, d) = Planned(d, PlanFulfillment(d))
    BY <1>3 DEF Plan
  <2> QED
    BY <2>1, <2>2, <2>3, <2>4
<1>4. CASE g = "support"
  <2>1. PlanSupport(d) \in SUBSET Items /\ \A i \in PlanSupport(d) : Kind[i] = "case"
    BY DEF PlanSupport
  <2>2. KindsOf(g) = {"case"}
    BY <1>4 DEF KindsOf
  <2>3. Plan(g, d) = Planned(d, PlanSupport(d))
    BY <1>4 DEF Plan
  <2> QED
    BY <2>1, <2>2, <2>3
<1>5. CASE g = "posting"
  <2>1. PlanPostings(d) \in SUBSET Items /\ \A i \in PlanPostings(d) : Kind[i] = "posting"
    BY DEF PlanPostings
  <2>2. KindsOf(g) = {"posting"}
    BY <1>5 DEF KindsOf
  <2>3. Plan(g, d) = {} \/ Plan(g, d) = Planned(d, PlanPostings(d))
    BY <1>5 DEF Plan
  <2> QED
    BY <2>1, <2>2, <2>3
<1> QED
  BY <1>1, <1>2, <1>3, <1>4, <1>5 DEF Groups

LEMMA KindsFacts ==
    /\ KindsOf("crm") = Objects /\ KindsOf("order") = {"order"}
    /\ KindsOf("fulfillment") = Fulfilling
    /\ KindsOf("support") = {"case"} /\ KindsOf("posting") = {"posting"}
    /\ \A g \in Groups : g # "crm" => KindsOf(g) \cap Objects = {}
<1>1. /\ KindsOf("crm") = Objects /\ KindsOf("order") = {"order"}
      /\ KindsOf("fulfillment") = Fulfilling
      /\ KindsOf("support") = {"case"} /\ KindsOf("posting") = {"posting"}
  BY DEF KindsOf, Fulfilling, FollowUps
<1>2. /\ {"order"} \cap Objects = {} /\ Fulfilling \cap Objects = {}
      /\ {"case"} \cap Objects = {} /\ {"posting"} \cap Objects = {}
  BY DEF Objects, Fulfilling
<1> QED
  BY <1>1, <1>2 DEF Groups

(* The CRM plan of every date has an event.                                *)
LEMMA CrmPlanNotEmpty ==
    ASSUME Shape, NEW d \in Days
    PROVE  Planned(d, PlanCrm(d)) # {}
<1>1. PICK i \in Creates : CrmDay[i] = d /\ Kind[i] = "accounts"
  BY CrmPlanAssumption DEF Objects
<1>2. PlanCrm(d) # {} /\ PlanCrm(d) \in SUBSET Items
  BY <1>1, ItemsAssumption DEF PlanCrm
<1> QED
  BY <1>2, PlannedEvents DEF ItemsOf

----------------------------------------------------------------------------
(* The invariant of the process and of what it has published.              *)

LEMMA InitInv == Init => Inv
<1> SUFFICES ASSUME Init PROVE Inv
  OBVIOUS
<1>1. Shape
  <2>1. TypeOK
    <3>1. 0 \in 0..LastDay /\ 0 \in 0..MaxInterrupts
      BY CalendarAssumption
    <3>2. [d \in Days |-> NoManifest] \in [Days -> SUBSET (Items \cup {0})]
      BY DEF NoManifest
    <3> QED
      BY <3>1, <3>2 DEF Init, TypeOK, Groups
  <2>2. IsFiniteSet({})
    BY FS_EmptySet
  <2> QED
    BY <2>1, <2>2, CalendarAssumption DEF Init, Shape
<1>2. ProcessOK
  BY DEF Init, ProcessOK
<1>3. ControlOK
  <2>1. WatermarkSound
    BY DEF Init, WatermarkSound, Recorded
  <2> QED
    BY <2>1 DEF Init, ControlOK
<1>4. ManifestOK
  BY DEF Init, ManifestOK
<1> QED
  BY <1>1, <1>2, <1>3, <1>4 DEF Inv

(* A date stays reconciled as long as its events and its published files   *)
(* stay the same.                                                          *)
LEMMA ReconciledKept ==
    ASSUME NEW d, {e \in events' : e.day = d} = {e \in events : e.day = d},
           history'[d] = history[d], manifest'[d] = manifest[d],
           applied \subseteq applied', rows \subseteq rows',
           Reconciled(d)
    PROVE  Reconciled(d)'
<1>1. \A k : Recorded(d, k)' = Recorded(d, k)
  BY DEF Recorded
<1>2. HistoryReconciled(d)' 
  <2>1. HistoryReconciled(d)
    BY DEF Reconciled
  <2> QED
    BY <1>1, <2>1 DEF HistoryReconciled, ItemsOf
<1>3. \A e \in Recorded(d, OpsKinds \cup {"posting"}) :
         e \in applied /\ \E r \in rows : r.kind = Kind[e.item] /\ r.id = e.id
  BY DEF Reconciled
<1>4. \A e \in Recorded(d, OpsKinds \cup {"posting"})' :
         e \in applied' /\ \E r \in rows' : r.kind = Kind[e.item] /\ r.id = e.id
  BY <1>1, <1>3
<1> QED
  BY <1>2, <1>4 DEF Reconciled

(* A step that touches no other date than the current one keeps what the   *)
(* watermark stands for.                                                   *)
LEMMA OtherDatesKept ==
    ASSUME Inv, watermark' = watermark,
           \A d \in Days : d # watermark + 1 =>
               /\ run'[d] = run[d] /\ src'[d] = src[d]
               /\ history'[d] = history[d] /\ manifest'[d] = manifest[d]
               /\ {e \in events' : e.day = d} = {e \in events : e.day = d},
           applied \subseteq applied', rows \subseteq rows'
    PROVE  /\ WatermarkSound'
           /\ \A d \in Days : d > watermark' + 1 => \A s \in Sources : src'[d][s] = "none"
<1>1. watermark \in 0..LastDay /\ LastDay \in Nat
  BY CalendarAssumption DEF Inv, Shape, TypeOK
<1>2. \A d \in 1..watermark : d \in Days /\ d # watermark + 1
  BY <1>1 DEF Days
<1>3. \A d \in Days : d > watermark + 1 => d # watermark + 1
  BY <1>1 DEF Days
<1>4. WatermarkSound
  BY DEF Inv, ControlOK
<1>5. \A d \in 1..watermark : Reconciled(d)'
  BY <1>2, <1>4, ReconciledKept DEF WatermarkSound
<1>6. \A d \in 1..watermark : run'[d] = "completed" /\ \A s \in Sources : src'[d][s] = "applied"
  BY <1>2, <1>4 DEF WatermarkSound
<1>7. \A d \in Days : d > watermark + 1 => run'[d] = "none" /\ Recorded(d, Kinds)' = {}
  <2>1. \A d \in Days : d > watermark + 1 => run[d] = "none" /\ Recorded(d, Kinds) = {}
    BY <1>4 DEF WatermarkSound
  <2> QED
    BY <1>3, <2>1 DEF Recorded
<1>8. \A d \in Days : d > watermark + 1 => \A s \in Sources : src'[d][s] = "none"
  BY <1>3 DEF Inv, ControlOK
<1> QED
  BY <1>5, <1>6, <1>7, <1>8 DEF WatermarkSound

(* A step of the process alone leaves the stored state as it is.           *)
LEMMA StoredKept ==
    ASSUME Inv, UNCHANGED <<control, crm, sourceDbs>>
    PROVE  /\ WatermarkSound'
           /\ \A d \in Days : d > watermark' + 1 => \A s \in Sources : src'[d][s] = "none"
           /\ \A d : Reconciled(d) => Reconciled(d)'
           /\ \A d, k : Recorded(d, k)' = Recorded(d, k)
           /\ \A d \in Days : manifest'[d] # NoManifest =>
                 manifest'[d] = ItemsOf(Recorded(d, Objects))' /\ Recorded(d, Objects)' # {}
<1>1. /\ watermark' = watermark /\ run' = run /\ src' = src /\ events' = events
      /\ history' = history /\ manifest' = manifest /\ applied' = applied /\ rows' = rows
  BY DEF control, crm, sourceDbs
<1>2. \A d : Reconciled(d) => Reconciled(d)'
  BY <1>1, ReconciledKept
<1>3. \A d, k : Recorded(d, k)' = Recorded(d, k)
  BY <1>1 DEF Recorded
<1>4. /\ WatermarkSound'
      /\ \A d \in Days : d > watermark' + 1 => \A s \in Sources : src'[d][s] = "none"
  BY <1>1, OtherDatesKept
<1>5. \A d \in Days : manifest'[d] # NoManifest =>
          manifest'[d] = ItemsOf(Recorded(d, Objects))' /\ Recorded(d, Objects)' # {}
  BY <1>1, <1>3 DEF Inv, ManifestOK, ItemsOf
<1> QED
  BY <1>2, <1>3, <1>4, <1>5

LEMMA TickInv ==
    ASSUME Inv, Tick PROVE Inv'
<1> USE CalendarAssumption
<1>1. Shape'
  BY DEF Tick, Inv, Shape, TypeOK, control, crm, sourceDbs, locals
<1>2. ProcessOK'
  <2>1. today' = today + 1 /\ watermark' = watermark /\ through' = through
    BY DEF Tick, control, locals
  <2>2. today \in Nat /\ watermark \in Nat /\ through \in Nat
    BY DEF Inv, Shape, TypeOK
  <2>3. watermark' <= today' /\ through' <= today'
    BY <2>1, <2>2 DEF Inv, ProcessOK
  <2> QED
    BY <2>3 DEF Tick, Inv, ProcessOK, control, locals
<1>3. ControlOK'
  BY StoredKept DEF Tick, Inv, ControlOK, control, locals
<1>4. ManifestOK'
  BY StoredKept DEF Tick, Inv, ManifestOK, crm, locals
<1> QED
  BY <1>1, <1>2, <1>3, <1>4 DEF Inv

LEMMA UnwindInv ==
    ASSUME Inv, Unwind, UNCHANGED <<today, control, crm, sourceDbs>>,
           interrupts' \in [count: 0..MaxInterrupts, cut: SUBSET {"claim", "record", "publication"}]
    PROVE  Inv'
<1>1. Shape'
  <2>1. 0 \in 0..LastDay /\ IsFiniteSet({}) /\ {} \subseteq Event
    BY CalendarAssumption, FS_EmptySet
  <2> QED
    BY <2>1 DEF Unwind, Inv, Shape, TypeOK, control, crm, sourceDbs, Groups
<1>2. ProcessOK'
  <2>1. watermark' <= today' /\ through' <= today'
    BY DEF Unwind, Inv, ProcessOK, Shape, TypeOK, control
  <2> QED
    BY <2>1 DEF Unwind, ProcessOK
<1>3. ControlOK'
  BY StoredKept DEF Unwind, ControlOK
<1>4. ManifestOK'
  BY StoredKept DEF Unwind, ManifestOK
<1> QED
  BY <1>1, <1>2, <1>3, <1>4 DEF Inv

LEMMA RaiseInv ==
    ASSUME Inv, Raise PROVE Inv'
BY UnwindInv DEF Raise, Inv, Shape

LEMMA InterruptInv ==
    ASSUME Inv, Interrupt PROVE Inv'
<1>1. PartCut(pc) \subseteq {"claim", "record", "publication"}
  BY DEF PartCut
<1>2. interrupts' = [count |-> interrupts.count + 1, cut |-> interrupts.cut \cup PartCut(pc)]
  BY DEF Interrupt
<1>3. interrupts.count + 1 \in 0..MaxInterrupts
  BY CalendarAssumption DEF Interrupt, Inv, Shape
<1>4. interrupts.cut \subseteq {"claim", "record", "publication"}
  BY DEF Inv, Shape
<1>5. interrupts' \in [count: 0..MaxInterrupts, cut: SUBSET {"claim", "record", "publication"}]
  BY <1>1, <1>2, <1>3, <1>4
<1> QED
  BY <1>5, UnwindInv DEF Interrupt

(* A run works on the date after the watermark.                            *)
LEMMA RunningDay ==
    ASSUME Inv, pc # "idle"
    PROVE  day \in Days /\ day = watermark + 1 /\ day <= through /\ through <= today
<1>1. /\ watermark \in Nat /\ day \in 0..LastDay /\ day = watermark + 1 /\ day <= through
      /\ through <= today
  BY DEF Inv, Shape, TypeOK, ProcessOK
<1> QED
  BY <1>1, CalendarAssumption DEF Days

LEMMA RunThroughInv ==
    ASSUME Inv, RunThrough PROVE Inv'
<1>1. /\ today' = today /\ watermark' = watermark /\ through' = today /\ day' = watermark + 1
      /\ pc' = "claim" /\ group' = "crm" /\ todo' = {} /\ files' = {} /\ stale' = FALSE
  BY DEF RunThrough, StartDay, control
<1>2. today \in 0..LastDay /\ watermark \in 0..LastDay /\ watermark < today
  BY DEF RunThrough, Inv, Shape, TypeOK
<1>3. day' \in 0..LastDay /\ through' \in 0..LastDay /\ day' <= through' /\ watermark' <= today'
  BY <1>1, <1>2, CalendarAssumption
<1>4. Shape'
  BY <1>1, <1>3, FS_EmptySet DEF RunThrough, Inv, Shape, TypeOK, control, crm, sourceDbs, Groups
<1>5. ProcessOK'
  BY <1>1, <1>2, <1>3 DEF ProcessOK
<1>6. ControlOK'
  BY <1>1, StoredKept DEF RunThrough, ControlOK
<1>7. ManifestOK'
  BY <1>1, StoredKept DEF RunThrough, ManifestOK
<1> QED
  BY <1>4, <1>5, <1>6, <1>7 DEF Inv

LEMMA ClaimInv ==
    ASSUME Inv, Claim PROVE Inv'
<1>1. day \in Days /\ day = watermark + 1
  BY RunningDay DEF Claim
<1>2. run' \in [Days -> {"none", "in_progress", "completed"}] /\ pc' \in {"claim_sources", "plan"}
  BY DEF Claim, Inv, Shape, TypeOK
<1>3. \A d \in Days : d # watermark + 1 => run'[d] = run[d]
  BY <1>1 DEF Claim, Inv, Shape, TypeOK
<1>4. Shape'
  BY <1>2 DEF Claim, Inv, Shape, TypeOK, crm, sourceDbs, locals
<1>5. ProcessOK'
  BY <1>2 DEF Claim, Inv, ProcessOK, locals
<1>6. ControlOK'
  <2>1. /\ WatermarkSound'
        /\ \A d \in Days : d > watermark' + 1 => \A s \in Sources : src'[d][s] = "none"
    BY <1>3, OtherDatesKept DEF Claim, crm, sourceDbs
  <2> QED
    BY <1>2, <2>1 DEF ControlOK
<1>7. ManifestOK'
  <2>1. events' = events /\ manifest' = manifest
    BY DEF Claim, crm
  <2> QED
    BY <1>2, <2>1 DEF Inv, ManifestOK, ItemsOf, Recorded
<1> QED
  BY <1>4, <1>5, <1>6, <1>7 DEF Inv

LEMMA ClaimSourceInv ==
    ASSUME Inv, ClaimSource PROVE Inv'
<1>1. day \in Days /\ day = watermark + 1
  BY RunningDay DEF ClaimSource
<1>2. PICK s \in Sources : /\ src' = [src EXCEPT ![day][s] = "pending"]
                           /\ pc' = IF s = "erp" THEN "plan" ELSE "claim_sources"
  BY DEF ClaimSource, Sources
<1>3. src \in [Days -> [Sources -> {"none", "pending", "applied"}]]
  BY DEF Inv, Shape, TypeOK
<1>4. src' \in [Days -> [Sources -> {"none", "pending", "applied"}]] /\ pc' \in {"claim_sources", "plan"}
  BY <1>2, <1>3
<1>5. \A d \in Days : d # watermark + 1 => src'[d] = src[d]
  BY <1>1, <1>2, <1>3
<1>6. Shape'
  BY <1>4 DEF ClaimSource, Inv, Shape, TypeOK, crm, sourceDbs, locals
<1>7. ProcessOK'
  BY <1>4 DEF ClaimSource, Inv, ProcessOK, locals
<1>8. ControlOK'
  <2>1. /\ WatermarkSound'
        /\ \A d \in Days : d > watermark' + 1 => \A t \in Sources : src'[d][t] = "none"
    BY <1>5, OtherDatesKept DEF ClaimSource, crm, sourceDbs
  <2> QED
    BY <1>4, <2>1 DEF ControlOK
<1>9. ManifestOK'
  <2>1. events' = events /\ manifest' = manifest
    BY DEF ClaimSource, crm
  <2> QED
    BY <1>4, <2>1 DEF Inv, ManifestOK, ItemsOf, Recorded
<1> QED
  BY <1>6, <1>7, <1>8, <1>9 DEF Inv

LEMMA PlanGroupInv ==
    ASSUME Inv, PlanGroup PROVE Inv'
<1>1. day \in Days /\ group \in Groups /\ Shape
  BY RunningDay DEF PlanGroup, Inv, Shape, TypeOK
<1>2. todo' = Plan(group, day) /\ pc' = "record" /\ group' = group /\ day' = day
  BY DEF PlanGroup
<1>3. PICK S \in SUBSET Items :
          /\ \A i \in S : Kind[i] \in KindsOf(group)
          /\ todo' = {} \/ todo' = Planned(day, S)
  BY <1>1, <1>2, PlanIsPlanned
<1>4. todo' \subseteq Event /\ IsFiniteSet(todo')
  BY <1>1, <1>3, PlannedEvents, FS_EmptySet
<1>5. \A e \in todo' : e.day = day /\ Kind[e.item] \in KindsOf(group)
  BY <1>1, <1>3, PlannedEvents
<1>6. Shape'
  BY <1>2, <1>4 DEF PlanGroup, Inv, Shape, TypeOK, control, crm, sourceDbs
<1>7. ProcessOK'
  BY <1>2, <1>5 DEF PlanGroup, Inv, ProcessOK, control
<1>8. ControlOK'
  BY <1>2, StoredKept DEF PlanGroup, ControlOK
<1>9. ManifestOK'
  <2>1. ASSUME group = "crm"
        PROVE  IF todo' = {} THEN Recorded(day, Objects) # {} ELSE manifest[day] = NoManifest
    <3>1. todo' = IF Recorded(day, Objects) # {} THEN {} ELSE Planned(day, PlanCrm(day))
      BY <1>2, <2>1 DEF Plan
    <3>2. Planned(day, PlanCrm(day)) # {}
      BY <1>1, CrmPlanNotEmpty
    <3>3. Recorded(day, Objects) = {} => manifest[day] = NoManifest
      BY <1>1 DEF Inv, ManifestOK
    <3> QED
      BY <3>1, <3>2, <3>3
  <2>2. manifest' = manifest
    BY DEF PlanGroup, crm
  <2> QED
    BY <1>2, <2>1, <2>2, StoredKept DEF PlanGroup, ManifestOK
<1> QED
  BY <1>6, <1>7, <1>8, <1>9 DEF Inv

LEMMA RecordEventInv ==
    ASSUME Inv, RecordEvent PROVE Inv'
<1>1. day \in Days /\ day = watermark + 1 /\ group \in Groups /\ watermark \in Nat
  BY RunningDay DEF RecordEvent, Inv, Shape, TypeOK
<1>2. PICK e \in todo : events' = events \cup {e} /\ todo' = todo \ {e}
  BY DEF RecordEvent
<1>3. e \in Event /\ e.day = day /\ Kind[e.item] \in KindsOf(group) /\ e.item \in Items
  BY DEF Inv, Shape, TypeOK, ProcessOK, Event
<1>4. IsFiniteSet(events') /\ IsFiniteSet(todo')
  BY <1>2, FS_AddElement, FS_RemoveElement DEF Inv, Shape
<1>5. \A d \in Days : d # watermark + 1 => {f \in events' : f.day = d} = {f \in events : f.day = d}
  BY <1>1, <1>2, <1>3
<1>6. pc = "record" /\ pc' = pc /\ day' = day /\ group' = group /\ manifest' = manifest
  BY DEF RecordEvent, crm
<1>7. Shape'
  BY <1>2, <1>3, <1>4 DEF RecordEvent, Inv, Shape, TypeOK, crm, sourceDbs
<1>8. ProcessOK'
  BY <1>2 DEF RecordEvent, Inv, ProcessOK
<1>9. ControlOK'
  <2>1. /\ WatermarkSound'
        /\ \A d \in Days : d > watermark' + 1 => \A s \in Sources : src'[d][s] = "none"
    BY <1>5, OtherDatesKept DEF RecordEvent, crm, sourceDbs
  <2> QED
    BY <1>6, <2>1 DEF ControlOK
<1>10. ManifestOK'
  <2>1. \A d \in Days : manifest[d] # NoManifest =>
           manifest[d] = ItemsOf(Recorded(d, Objects)) /\ Recorded(d, Objects) # {}
    BY DEF Inv, ManifestOK
  <2>2. CASE group = "crm"
    <3>1. manifest[day] = NoManifest
      BY <1>2, <1>6, <2>2 DEF Inv, ManifestOK
    <3>2. Recorded(day, Objects)' # {}
      BY <1>2, <1>3, <1>6, <2>2, KindsFacts DEF Recorded
    <3>3. \A d \in Days : d # day => Recorded(d, Objects)' = Recorded(d, Objects)
      BY <1>2, <1>3 DEF Recorded
    <3> QED
      BY <1>6, <2>1, <3>1, <3>2, <3>3 DEF ManifestOK, ItemsOf
  <2>3. CASE group # "crm"
    <3>1. KindsOf(group) \cap Objects = {}
      BY <1>1, <2>3, KindsFacts
    <3>2. \A d \in Days : Recorded(d, Objects)' = Recorded(d, Objects)
      BY <1>2, <1>3, <3>1 DEF Recorded
    <3> QED
      BY <1>6, <2>1, <2>3, <3>2 DEF ManifestOK, ItemsOf
  <2> QED
    BY <2>2, <2>3
<1> QED
  BY <1>7, <1>8, <1>9, <1>10 DEF Inv

LEMMA RecordingDoneInv ==
    ASSUME Inv, RecordingDone PROVE Inv'
<1>1. /\ pc = "record" /\ todo = {} /\ pc' = AfterRecord(group)
      /\ group' = IF group = "fulfillment" THEN "support" ELSE group
      /\ day' = day /\ todo' = todo /\ manifest' = manifest
  BY DEF RecordingDone, crm
<1>2. group \in Groups /\ group' \in Groups
  BY <1>1 DEF Inv, Shape, TypeOK, Groups
<1>3. /\ pc' \in {"publish", "plan", "apply"}
      /\ pc' = "publish" => group = "crm" /\ group' = "crm"
      /\ pc' = "apply" => group' \in {"order", "support", "posting"}
  BY <1>1, <1>2 DEF AfterRecord, Groups
<1>4. Shape'
  BY <1>2, <1>3 DEF RecordingDone, Inv, Shape, TypeOK, control, crm, sourceDbs
<1>5. ProcessOK'
  <2>1. \A e \in todo' : FALSE
    BY <1>1
  <2> QED
    BY <1>1, <1>3, <2>1 DEF RecordingDone, Inv, ProcessOK, control
<1>6. ControlOK'
  BY <1>3, StoredKept DEF RecordingDone, ControlOK
<1>7. ManifestOK'
  BY <1>1, <1>3, StoredKept DEF RecordingDone, Inv, ManifestOK
<1> QED
  BY <1>4, <1>5, <1>6, <1>7 DEF Inv

LEMMA PublishInv ==
    ASSUME Inv, Publish PROVE Inv'
<1>1. pc = "publish" /\ pc' \in {"write", "mark"} /\ group' = group /\ day' = day
  BY DEF Publish
<1>2. files' \subseteq Objects /\ stale' \in BOOLEAN
  <2>1. \A e \in Recorded(day, Objects) : Kind[e.item] \in Objects
    BY DEF Recorded
  <2>2. {Kind[i] : i \in ItemsOf(Recorded(day, Objects))} \subseteq Objects
    BY <2>1 DEF ItemsOf
  <2>3. (<<day, "opportunities">> \in parts) \in BOOLEAN
    OBVIOUS
  <2>4. files \subseteq Objects /\ stale \in BOOLEAN
    BY DEF Inv, Shape, TypeOK
  <2>5. CASE manifest[day] = NoManifest
    BY <2>2, <2>3, <2>5 DEF Publish
  <2>6. CASE manifest[day] # NoManifest
    BY <2>4, <2>6 DEF Publish
  <2> QED
    BY <2>5, <2>6
<1>3. Shape'
  BY <1>1, <1>2 DEF Publish, Inv, Shape, TypeOK, control, crm, sourceDbs
<1>4. ProcessOK'
  BY <1>1 DEF Publish, Inv, ProcessOK, control
<1>5. ControlOK'
  BY <1>1, StoredKept DEF Publish, ControlOK
<1>6. ManifestOK'
  BY <1>1, StoredKept DEF Publish, Inv, ManifestOK
<1> QED
  BY <1>3, <1>4, <1>5, <1>6 DEF Inv

LEMMA WritePartitionInv ==
    ASSUME Inv, NEW o \in Objects, WritePartition(o) PROVE Inv'
<1>1. day \in Days /\ pc = "write"
  BY RunningDay DEF WritePartition
<1>2. /\ pc' = pc /\ day' = day /\ group' = group /\ todo' = todo
      /\ watermark' = watermark /\ run' = run /\ src' = src /\ events' = events
      /\ history' = history /\ manifest' = manifest /\ applied' = applied /\ rows' = rows
  BY DEF WritePartition, control, sourceDbs
<1>3. parts' \subseteq Days \X Objects /\ files' \subseteq Objects
  BY <1>1 DEF WritePartition, Inv, Shape, TypeOK
<1>4. Shape'
  BY <1>2, <1>3 DEF WritePartition, Inv, Shape, TypeOK
<1>5. ProcessOK'
  BY <1>2 DEF WritePartition, Inv, ProcessOK
<1>6. ControlOK'
  <2>1. /\ WatermarkSound'
        /\ \A d \in Days : d > watermark' + 1 => \A s \in Sources : src'[d][s] = "none"
    BY <1>2, OtherDatesKept
  <2> QED
    BY <1>1, <1>2, <2>1 DEF ControlOK
<1>7. ManifestOK'
  BY <1>2 DEF Inv, ManifestOK, ItemsOf, Recorded
<1> QED
  BY <1>4, <1>5, <1>6, <1>7 DEF Inv

LEMMA WriteHistoryInv ==
    ASSUME Inv, WriteHistory PROVE Inv'
<1>1. day \in Days /\ day = watermark + 1 /\ pc = "write" /\ pc' = "manifest"
  BY RunningDay DEF WriteHistory
<1>2. /\ day' = day /\ group' = group /\ todo' = todo
      /\ watermark' = watermark /\ run' = run /\ src' = src /\ events' = events
      /\ manifest' = manifest /\ applied' = applied /\ rows' = rows
  BY DEF WriteHistory, control, sourceDbs, locals
<1>3. history' \in [Days -> {"none", "good", "stale"}]
  <2>1. history \in [Days -> {"none", "good", "stale"}] /\ history[day] \in {"none", "good", "stale"}
    BY <1>1 DEF Inv, Shape, TypeOK
  <2> QED
    BY <2>1 DEF WriteHistory
<1>4. \A d \in Days : d # day => history'[d] = history[d]
  BY DEF WriteHistory, Inv, Shape, TypeOK
<1>5. Shape'
  BY <1>1, <1>2, <1>3 DEF WriteHistory, Inv, Shape, TypeOK, locals
<1>6. ProcessOK'
  BY <1>1, <1>2 DEF WriteHistory, Inv, ProcessOK, locals
<1>7. ControlOK'
  <2>1. /\ WatermarkSound'
        /\ \A d \in Days : d > watermark' + 1 => \A s \in Sources : src'[d][s] = "none"
    BY <1>1, <1>2, <1>4, OtherDatesKept
  <2> QED
    BY <1>1, <1>2, <2>1 DEF ControlOK
<1>8. ManifestOK'
  BY <1>1, <1>2 DEF Inv, ManifestOK, ItemsOf, Recorded
<1> QED
  BY <1>5, <1>6, <1>7, <1>8 DEF Inv

LEMMA WriteManifestInv ==
    ASSUME Inv, WriteManifest PROVE Inv'
<1>1. day \in Days /\ day = watermark + 1 /\ pc = "manifest" /\ pc' = "mark" /\ group = "crm"
  BY RunningDay DEF WriteManifest, Inv, ProcessOK
<1>2. /\ day' = day /\ group' = group /\ todo' = todo
      /\ watermark' = watermark /\ run' = run /\ src' = src /\ events' = events
      /\ history' = history /\ applied' = applied /\ rows' = rows
  BY DEF WriteManifest, control, sourceDbs, locals
<1>3. manifest' = [manifest EXCEPT ![day] = ItemsOf(Recorded(day, Objects))]
  BY DEF WriteManifest
<1>4. ItemsOf(Recorded(day, Objects)) \subseteq Items
  BY DEF Inv, Shape, TypeOK, ItemsOf, Recorded, Event
<1>5. manifest \in [Days -> SUBSET (Items \cup {0})]
  BY DEF Inv, Shape, TypeOK
<1>6. /\ manifest' \in [Days -> SUBSET (Items \cup {0})]
      /\ manifest'[day] = ItemsOf(Recorded(day, Objects))
      /\ \A d \in Days : d # day => manifest'[d] = manifest[d]
  BY <1>1, <1>3, <1>4, <1>5
<1>7. Shape'
  BY <1>1, <1>2, <1>6 DEF WriteManifest, Inv, Shape, TypeOK, locals
<1>8. ProcessOK'
  BY <1>1, <1>2 DEF WriteManifest, Inv, ProcessOK, locals
<1>9. ControlOK'
  <2>1. /\ WatermarkSound'
        /\ \A d \in Days : d > watermark' + 1 => \A s \in Sources : src'[d][s] = "none"
    BY <1>1, <1>2, <1>6, OtherDatesKept
  <2> QED
    BY <1>1, <1>2, <2>1 DEF ControlOK
<1>10. ManifestOK'
  <2>1. Recorded(day, Objects) # {}
    BY <1>1 DEF Inv, ManifestOK
  <2>2. \A d : Recorded(d, Objects)' = Recorded(d, Objects)
    BY <1>2 DEF Recorded
  <2>3. \A d : ItemsOf(Recorded(d, Objects))' = ItemsOf(Recorded(d, Objects))
    BY <2>2 DEF ItemsOf
  <2>4. \A d \in Days : manifest[d] # NoManifest =>
           manifest[d] = ItemsOf(Recorded(d, Objects)) /\ Recorded(d, Objects) # {}
    BY DEF Inv, ManifestOK
  <2>5. \A d \in Days : manifest'[d] # NoManifest =>
           manifest'[d] = ItemsOf(Recorded(d, Objects))' /\ Recorded(d, Objects)' # {}
    BY <1>6, <2>1, <2>2, <2>3, <2>4
  <2> QED
    BY <1>1, <2>5 DEF ManifestOK
<1> QED
  BY <1>7, <1>8, <1>9, <1>10 DEF Inv

LEMMA MarkAppliedInv ==
    ASSUME Inv, MarkApplied PROVE Inv'
<1>1. day \in Days /\ day = watermark + 1 /\ group \in {"crm", "support", "posting"}
  BY RunningDay DEF MarkApplied, Inv, ProcessOK
<1>2. PICK s \in Sources : /\ src' = [src EXCEPT ![day][s] = "applied"]
                           /\ group' = CASE s = "crm" -> "order" [] OTHER -> "posting"
                           /\ pc' = IF s = "erp" THEN "reconcile" ELSE "plan"
  BY DEF MarkApplied, Sources, SourceOf
<1>3. src \in [Days -> [Sources -> {"none", "pending", "applied"}]]
  BY DEF Inv, Shape, TypeOK
<1>4. /\ src' \in [Days -> [Sources -> {"none", "pending", "applied"}]]
      /\ \A d \in Days : d # day => src'[d] = src[d]
  BY <1>2, <1>3
<1>5. /\ group' \in Groups /\ pc' \in {"reconcile", "plan"}
      /\ pc' = "reconcile" => group' = "posting"
  BY <1>2 DEF Groups
<1>6. Shape'
  BY <1>4, <1>5 DEF MarkApplied, Inv, Shape, TypeOK, crm, sourceDbs
<1>7. ProcessOK'
  <2>1. todo = {} /\ todo' = todo
    BY DEF MarkApplied, Inv, ProcessOK
  <2> QED
    BY <1>5, <2>1 DEF MarkApplied, Inv, ProcessOK
<1>8. ControlOK'
  <2>1. /\ WatermarkSound'
        /\ \A d \in Days : d > watermark' + 1 => \A t \in Sources : src'[d][t] = "none"
    BY <1>1, <1>4, OtherDatesKept DEF MarkApplied, crm, sourceDbs
  <2> QED
    BY <1>5, <2>1 DEF ControlOK
<1>9. ManifestOK'
  <2>1. events' = events /\ manifest' = manifest
    BY DEF MarkApplied, crm
  <2> QED
    BY <1>5, <2>1 DEF Inv, ManifestOK, ItemsOf, Recorded
<1> QED
  BY <1>6, <1>7, <1>8, <1>9 DEF Inv

(* What Apply leaves behind: rows and markers are only added, the rows for *)
(* events of the batch.                                                    *)
LEMMA ApplyAdds ==
    ASSUME Inv, Apply
    PROVE  /\ Batch \subseteq events /\ applied' = applied \cup Batch
           /\ \E new \in SUBSET {Row(e) : e \in Batch} :
                  /\ \A r \in new : ~Taken(r, rows \cup new)
                  /\ \A e \in Batch : Row(e) \in new \/ Taken(Row(e), rows \cup new)
                  /\ rows' = rows \cup new
                  /\ new \subseteq [kind: Kinds, id: Nat, item: Items] /\ IsFiniteSet(new)
<1>1. Batch \subseteq events
  BY DEF Batch, Recorded
<1>2. PICK new \in SUBSET {Row(e) : e \in Batch} :
          /\ \A r \in new : ~Taken(r, rows \cup new)
          /\ \A e \in Batch : Row(e) \in new \/ Taken(Row(e), rows \cup new)
          /\ rows' = rows \cup new
  BY DEF Apply
<1>3. \A e \in events : Row(e) \in [kind: Kinds, id: Nat, item: Items]
  BY ItemsAssumption DEF Inv, Shape, TypeOK, Event, Row
<1>4. new \subseteq [kind: Kinds, id: Nat, item: Items]
  BY <1>1, <1>2, <1>3
<1>5. IsFiniteSet(new)
  <2> DEFINE f == [e \in Batch |-> Row(e)]
  <2>1. {Row(e) : e \in Batch} = {f[e] : e \in Batch}
    OBVIOUS
  <2>2. IsFiniteSet(Batch)
    BY <1>1, FS_Subset DEF Inv, Shape
  <2> HIDE DEF f
  <2>3. IsFiniteSet({Row(e) : e \in Batch})
    BY <2>1, <2>2, FiniteImage
  <2> QED
    BY <2>3, FS_Subset
<1>6. applied' = applied \cup Batch
  BY DEF Apply
<1> QED
  BY <1>1, <1>2, <1>4, <1>5, <1>6

LEMMA ApplyInv ==
    ASSUME Inv, Apply PROVE Inv'
<1>1. day \in Days /\ day = watermark + 1 /\ group \in {"order", "support", "posting"} /\ todo = {}
  BY RunningDay DEF Apply, Inv, ProcessOK
<1>2. /\ day' = day /\ todo' = todo /\ through' = through /\ today' = today
      /\ watermark' = watermark /\ run' = run /\ src' = src /\ events' = events
      /\ history' = history /\ manifest' = manifest /\ parts' = parts
      /\ files' = files /\ stale' = stale /\ interrupts' = interrupts
  BY DEF Apply, control, crm
<1>3. /\ pc' \in {"plan", "mark"} /\ group' \in {"fulfillment", "support", "posting"}
      /\ pc' = "mark" => group' \in {"support", "posting"}
  BY <1>1 DEF Apply
<1>4. /\ applied' \subseteq Event /\ applied \subseteq applied' /\ rows \subseteq rows'
      /\ rows' \subseteq [kind: Kinds, id: Nat, item: Items] /\ IsFiniteSet(rows')
  <2>1. PICK new : /\ rows' = rows \cup new
                   /\ new \subseteq [kind: Kinds, id: Nat, item: Items] /\ IsFiniteSet(new)
    BY ApplyAdds
  <2>2. /\ rows \subseteq [kind: Kinds, id: Nat, item: Items] /\ IsFiniteSet(rows)
        /\ events \subseteq Event /\ applied \subseteq Event
    BY DEF Inv, Shape, TypeOK
  <2>3. IsFiniteSet(rows')
    BY <2>1, <2>2, FS_Union
  <2> QED
    BY <2>1, <2>2, <2>3, ApplyAdds
<1>5. Shape'
  <2>1. \A r \in rows' : r.kind \in Kinds /\ r.id \in Nat /\ r.item \in Items
    BY <1>4
  <2>2. group' \in Groups
    BY <1>3 DEF Groups
  <2> QED
    BY <1>2, <1>3, <1>4, <2>1, <2>2 DEF Inv, Shape, TypeOK
<1>6. ProcessOK'
  BY <1>1, <1>2, <1>3 DEF Inv, ProcessOK, Apply
<1>7. ControlOK'
  <2>1. /\ WatermarkSound'
        /\ \A d \in Days : d > watermark' + 1 => \A s \in Sources : src'[d][s] = "none"
    BY <1>2, <1>4, OtherDatesKept
  <2> QED
    BY <1>3, <2>1 DEF ControlOK
<1>8. ManifestOK'
  BY <1>2, <1>3 DEF Inv, ManifestOK, ItemsOf, Recorded
<1> QED
  BY <1>5, <1>6, <1>7, <1>8 DEF Inv

LEMMA ReconcileInv ==
    ASSUME Inv, Reconcile PROVE Inv'
<1>1. pc = "reconcile" /\ pc' = "complete" /\ day' = day /\ group' = group /\ todo' = todo
  BY DEF Reconcile, locals
<1>2. Shape'
  BY <1>1 DEF Reconcile, Inv, Shape, TypeOK, control, crm, sourceDbs, locals
<1>3. ProcessOK'
  BY <1>1 DEF Reconcile, Inv, ProcessOK, control, locals
<1>4. ControlOK'
  BY <1>1, StoredKept DEF Reconcile, ControlOK
<1>5. ManifestOK'
  BY <1>1, StoredKept DEF Reconcile, Inv, ManifestOK
<1> QED
  BY <1>2, <1>3, <1>4, <1>5 DEF Inv

LEMMA CompleteInv ==
    ASSUME Inv, Complete PROVE Inv'
<1>1. day \in Days /\ day = watermark + 1 /\ pc = "complete" /\ pc' = "advance" /\ group = "posting"
  BY RunningDay DEF Complete, Inv, ProcessOK
<1>2. /\ day' = day /\ group' = group /\ todo' = todo
      /\ watermark' = watermark /\ src' = src /\ events' = events
      /\ history' = history /\ manifest' = manifest /\ applied' = applied /\ rows' = rows
  BY DEF Complete, crm, sourceDbs, locals
<1>3. /\ run' \in [Days -> {"none", "in_progress", "completed"}]
      /\ run'[day] = "completed" /\ \A d \in Days : d # day => run'[d] = run[d]
  BY <1>1 DEF Complete, Inv, Shape, TypeOK
<1>4. Shape'
  BY <1>1, <1>2, <1>3 DEF Complete, Inv, Shape, TypeOK, crm, locals
<1>5. ProcessOK'
  BY <1>1, <1>2 DEF Complete, Inv, ProcessOK, locals
<1>6. ControlOK'
  <2>1. /\ WatermarkSound'
        /\ \A d \in Days : d > watermark' + 1 => \A s \in Sources : src'[d][s] = "none"
    BY <1>1, <1>2, <1>3, OtherDatesKept
  <2>2. Reconciled(day)'
    <3>1. Reconciled(day)
      BY <1>1 DEF Inv, ControlOK
    <3> QED
      BY <1>2, <3>1, ReconciledKept
  <2>3. \A s \in Sources : src'[day][s] = "applied"
    BY <1>2 DEF Complete
  <2> QED
    BY <1>1, <1>2, <1>3, <2>1, <2>2, <2>3 DEF ControlOK
<1>7. ManifestOK'
  BY <1>1, <1>2 DEF Inv, ManifestOK, ItemsOf, Recorded
<1> QED
  BY <1>4, <1>5, <1>6, <1>7 DEF Inv

LEMMA AdvanceInv ==
    ASSUME Inv, Advance PROVE Inv'
<1>1. /\ day \in Days /\ day = watermark + 1 /\ day <= through /\ through <= today
      /\ pc = "advance" /\ watermark' = day
  BY RunningDay DEF Advance
<1>2. /\ today' = today /\ run' = run /\ src' = src /\ events' = events
      /\ history' = history /\ manifest' = manifest /\ applied' = applied /\ rows' = rows
  BY DEF Advance, crm, sourceDbs
<1>3. /\ today \in 0..LastDay /\ through \in 0..LastDay /\ day \in Nat /\ LastDay \in Nat
      /\ watermark \in Nat
  BY <1>1, CalendarAssumption DEF Inv, Shape, TypeOK
<1>4. /\ group' = "crm" /\ todo' = {} /\ files' = {} /\ stale' = FALSE
      /\ \/ pc' = "claim" /\ day' = day + 1 /\ day < through /\ through' = through
         \/ pc' = "idle" /\ day' = 0 /\ through' = 0
  BY DEF Advance, StartDay, Unwind
<1>5. /\ watermark' \in 0..LastDay /\ day' \in 0..LastDay /\ through' \in 0..LastDay
      /\ watermark' <= today' /\ through' <= today'
      /\ pc' # "idle" => day' = watermark' + 1 /\ day' <= through'
  BY <1>1, <1>2, <1>3, <1>4
<1>6. Shape'
  BY <1>2, <1>4, <1>5, FS_EmptySet DEF Advance, Inv, Shape, TypeOK, Groups, crm
<1>7. ProcessOK'
  BY <1>4, <1>5 DEF ProcessOK
<1>8. ControlOK'
  <2>1. WatermarkSound /\ Reconciled(day) /\ run[day] = "completed" /\ \A s \in Sources : src[day][s] = "applied"
    BY <1>1 DEF Inv, ControlOK
  <2>2. \A d \in 1..day : d = day \/ d \in 1..watermark
    BY <1>1, <1>3
  <2>3. \A d : Reconciled(d) => Reconciled(d)'
    BY <1>2, ReconciledKept
  <2>4. \A d \in 1..day : /\ run'[d] = "completed"
                          /\ \A s \in Sources : src'[d][s] = "applied"
                          /\ Reconciled(d)'
    BY <1>2, <2>1, <2>2, <2>3 DEF WatermarkSound
  <2>5. \A d \in Days : d > day + 1 => d > watermark + 1
    BY <1>1, <1>3 DEF Days
  <2>6. \A d \in Days : d > day + 1 => run'[d] = "none" /\ Recorded(d, Kinds)' = {}
    BY <1>2, <2>1, <2>5 DEF WatermarkSound, Recorded
  <2>7. \A d \in Days : d > day + 1 => \A s \in Sources : src'[d][s] = "none"
    BY <1>2, <2>5 DEF Inv, ControlOK
  <2>8. WatermarkSound'
    BY <1>1, <2>4, <2>6 DEF WatermarkSound
  <2> QED
    BY <1>1, <1>4, <2>7, <2>8 DEF ControlOK
<1>9. ManifestOK'
  BY <1>2, <1>4 DEF Inv, ManifestOK, ItemsOf, Recorded
<1> QED
  BY <1>6, <1>7, <1>8, <1>9 DEF Inv

LEMMA StepInv == Inv /\ [Next]_vars => Inv'
<1> SUFFICES ASSUME Inv, [Next]_vars PROVE Inv'
  OBVIOUS
<1>1. CASE Next
  BY <1>1, TickInv, InterruptInv, RaiseInv, RunThroughInv, ClaimInv, ClaimSourceInv, PlanGroupInv,
     RecordEventInv, RecordingDoneInv, PublishInv, WritePartitionInv, WriteHistoryInv,
     WriteManifestInv, ApplyInv, MarkAppliedInv, ReconcileInv, CompleteInv, AdvanceInv
     DEF Next, RunnerStep
<1>2. CASE UNCHANGED vars
  <2>1. UNCHANGED <<control, crm, sourceDbs, today, pc, locals, interrupts>>
    BY <1>2 DEF vars
  <2>2. Shape'
    BY <2>1 DEF Inv, Shape, TypeOK, control, crm, sourceDbs, locals
  <2>3. ProcessOK'
    BY <2>1 DEF Inv, ProcessOK, control, locals
  <2>4. ControlOK'
    BY <2>1, StoredKept DEF Inv, ControlOK, control, locals
  <2>5. ManifestOK'
    BY <2>1, StoredKept DEF Inv, ManifestOK, crm, locals
  <2> QED
    BY <2>2, <2>3, <2>4, <2>5 DEF Inv
<1> QED
  BY <1>1, <1>2

(* What the process knows of its own position, of the dates behind the     *)
(* watermark and of the manifests holds in every reachable state.          *)
THEOREM Invariance == Spec => []Inv
<1> QED
  BY InitInv, StepInv, PTL DEF Spec

(* The control tables, the delta directory, the source databases and the   *)
(* locals of the run are of their types.                                   *)
THEOREM TypeCorrect == Spec => []TypeOK
<1>1. Inv => TypeOK
  BY DEF Inv, Shape
<1> QED
  BY <1>1, Invariance, PTL

(* Every date up to the watermark is completed, all its sources applied,   *)
(* and reconciles for good; no later date than the next has been touched.  *)
THEOREM WatermarkHolds == Spec => []WatermarkSound
<1>1. Inv => WatermarkSound
  BY DEF Inv, ControlOK
<1> QED
  BY <1>1, Invariance, PTL

(* A manifest lists the CRM events recorded for its date, through every    *)
(* retry of the date.                                                      *)
THEOREM ManifestsHold == Spec => []ManifestMatches
<1>1. Inv => ManifestMatches
  BY DEF Inv, ManifestOK, ManifestMatches
<1> QED
  BY <1>1, Invariance, PTL

----------------------------------------------------------------------------
(* What a plan depends on.                                                 *)

(* The new shipments of PlanFulfillment.                                   *)
Ships(d) == {i \in Items : Kind[i] = "shipment" /\ Due(i, d, {}) /\ i \notin RowItems("shipment")}

LEMMA FulfillmentParts ==
    ASSUME NEW d
    PROVE  PlanFulfillment(d) =
               Ships(d) \cup {i \in Items : \E k \in {"invoice", "delivery"} :
                                  Kind[i] = k /\ Due(i, d, Ships(d)) /\ i \notin RowItems(k)}
BY DEF PlanFulfillment, Ships

(* Whether an item is due depends on the events of its parent's kind.      *)
LEMMA DueKept ==
    ASSUME NEW i \in Items, Kind[i] \notin Objects, events \subseteq events',
           \A e \in events' : e \in events \/ Kind[e.item] # ParentKind[Kind[i]]
    PROVE  /\ \A d, S : Due(i, d, S)' <=> Due(i, d, S)
           /\ \A d : DueToday(i, d)' <=> DueToday(i, d)
<1>1. Kind[Parent[i]] = ParentKind[Kind[i]]
  BY ItemsAssumption
<1>2. \A e \in events' : e.item = Parent[i] => e \in events
  BY <1>1
<1> QED
  BY <1>2 DEF Due, DueToday

LEMMA ParentKinds ==
    /\ ParentKind["order"] = "opportunities" /\ ParentKind["shipment"] = "order"
    /\ ParentKind["invoice"] = "shipment" /\ ParentKind["delivery"] = "shipment"
    /\ ParentKind["case"] = "delivery" /\ ParentKind["posting"] = "invoice"
BY DEF ParentKind

LEMMA RowItemsGrow ==
    ASSUME rows \subseteq rows' PROVE \A k : RowItems(k) \subseteq RowItems(k)'
BY DEF RowItems

LEMMA OrdersKept ==
    ASSUME events \subseteq events', rows \subseteq rows',
           \A e \in events' : e \in events \/ Kind[e.item] # "opportunities"
    PROVE  \A d : PlanOrders(d)' \subseteq PlanOrders(d)
<1>1. \A i \in Items : Kind[i] = "order" => \A d : Due(i, d, {})' <=> Due(i, d, {})
  BY DueKept, ParentKinds DEF Objects
<1> QED
  BY <1>1, RowItemsGrow DEF PlanOrders

LEMMA SupportKept ==
    ASSUME events \subseteq events',
           \A e \in events' : e \in events \/ Kind[e.item] # "delivery"
    PROVE  \A d : PlanSupport(d)' = PlanSupport(d) \ ItemsOf(events')
<1>1. \A i \in Items : Kind[i] = "case" => \A d : Due(i, d, {})' <=> Due(i, d, {})
  BY DueKept, ParentKinds DEF Objects
<1>2. ItemsOf(events) \subseteq ItemsOf(events') /\ ItemsOf(events)' = ItemsOf(events')
  BY DEF ItemsOf
<1> QED
  BY <1>1, <1>2 DEF PlanSupport

LEMMA PostingsKept ==
    ASSUME events \subseteq events', rows \subseteq rows',
           RowItems("invoice")' = RowItems("invoice"),
           \A e \in events' : e \in events \/ Kind[e.item] # "invoice"
    PROVE  \A d : PlanPostings(d)' \subseteq PlanPostings(d)
<1>1. \A i \in Items : Kind[i] = "posting" =>
          \A d : (Due(i, d, {})' <=> Due(i, d, {})) /\ (DueToday(i, d)' <=> DueToday(i, d))
  BY DueKept, ParentKinds DEF Objects
<1> QED
  BY <1>1, RowItemsGrow DEF PlanPostings

(* A new event of the fulfilment plan itself does not change the plan: its *)
(* shipment was already counted as planned in this call.                   *)
LEMMA FulfillmentKept ==
    ASSUME NEW d \in Days, events \subseteq events', events' \subseteq Event,
           \A e \in events' : \/ e \in events
                              \/ Kind[e.item] # "order" /\ Kind[e.item] # "shipment"
                              \/ Kind[e.item] = "shipment" /\ e.item \in Ships(d) /\ e.day = d,
           \A k \in Fulfilling : RowItems(k)' = RowItems(k)
    PROVE  PlanFulfillment(d)' = PlanFulfillment(d)
<1>1. \A e \in events' : e \in events \/ Kind[e.item] # "order"
  BY DEF Ships
<1>2. \A i \in Items : Kind[i] = "shipment" => (Due(i, d, {})' <=> Due(i, d, {}))
  BY <1>1, DueKept, ParentKinds DEF Objects
<1>3. Ships(d)' = Ships(d)
  BY <1>2 DEF Ships, Fulfilling
<1>4. ASSUME NEW i \in Items, Kind[i] \in {"invoice", "delivery"}
      PROVE  Due(i, d, Ships(d))' <=> Due(i, d, Ships(d))
  <2>1. Due(i, d, Ships(d)) => Due(i, d, Ships(d))'
    BY <1>3 DEF Due
  <2>2. ASSUME Due(i, d, Ships(d))' PROVE Due(i, d, Ships(d))
    <3>1. CASE Parent[i] \in Ships(d) /\ Delay[i] = 0
      BY <3>1 DEF Due
    <3>2. CASE \E e \in events' : e.item = Parent[i] /\ e.day <= d /\ e.day + Delay[i] <= d
      <4>1. PICK e \in events' : e.item = Parent[i] /\ e.day <= d /\ e.day + Delay[i] <= d
        BY <3>2
      <4>2. CASE e \in events
        BY <4>1, <4>2 DEF Due
      <4>3. CASE e \notin events
        <5>1. Kind[Parent[i]] = "shipment"
          BY <1>4, ItemsAssumption, ParentKinds DEF Objects
        <5>2. e.item \in Ships(d) /\ e.day = d
          BY <4>1, <4>3, <5>1
        <5>3. d \in Nat /\ Delay[i] \in Nat
          BY ItemsAssumption DEF Days
        <5>4. Delay[i] = 0
          BY <4>1, <5>2, <5>3
        <5> QED
          BY <4>1, <5>2, <5>4 DEF Due
      <4> QED
        BY <4>2, <4>3
    <3> QED
      BY <1>3, <2>2, <3>1, <3>2 DEF Due
  <2> QED
    BY <2>1, <2>2
<1>5. RowItems("invoice")' = RowItems("invoice") /\ RowItems("delivery")' = RowItems("delivery")
  BY DEF Fulfilling
<1>6. PlanFulfillment(d)' = 
         Ships(d)' \cup {i \in Items : \E k \in {"invoice", "delivery"} :
                            Kind[i] = k /\ Due(i, d, Ships(d))' /\ i \notin RowItems(k)'}
  BY DEF PlanFulfillment, Ships
<1> QED
  BY <1>3, <1>4, <1>5, <1>6, FulfillmentParts

(* More rows leave fewer follow-ups to plan.                               *)
LEMMA FulfillmentShrinks ==
    ASSUME NEW d, events' = events, rows \subseteq rows'
    PROVE  PlanFulfillment(d)' \subseteq PlanFulfillment(d)
<1>1. \A i, S : Due(i, d, S)' <=> Due(i, d, S)
  BY DEF Due
<1>2. Ships(d)' \subseteq Ships(d)
  BY <1>1, RowItemsGrow DEF Ships
<1>3. \A i : Due(i, d, Ships(d))' => Due(i, d, Ships(d))
  BY <1>2 DEF Due
<1>4. PlanFulfillment(d)' = 
         Ships(d)' \cup {i \in Items : \E k \in {"invoice", "delivery"} :
                            Kind[i] = k /\ Due(i, d, Ships(d))' /\ i \notin RowItems(k)'}
  BY DEF PlanFulfillment, Ships
<1> QED
  BY <1>2, <1>3, <1>4, FulfillmentParts, RowItemsGrow

(* The events of a plan keep their keys while the tables they go to stay   *)
(* the same.                                                               *)
LEMMA PlannedKept ==
    ASSUME NEW d, NEW S,
           \A i \in S : {r \in rows' : r.kind = Kind[i]} = {r \in rows : r.kind = Kind[i]}
    PROVE  Planned(d, S)' = Planned(d, S)
<1>1. ASSUME NEW i \in S PROVE NextId(Kind[i])' = NextId(Kind[i])
  <2>1. {r.id : r \in {s \in rows' : s.kind = Kind[i]}} = {r.id : r \in {s \in rows : s.kind = Kind[i]}}
    OBVIOUS
  <2> DEFINE top(used) == IF used = {} THEN 1 ELSE 1 + CHOOSE n \in used : \A m \in used : m <= n
  <2>2. /\ NextId(Kind[i])' = top({r.id : r \in {s \in rows' : s.kind = Kind[i]}})
        /\ NextId(Kind[i]) = top({r.id : r \in {s \in rows : s.kind = Kind[i]}})
    BY DEF NextId
  <2> HIDE DEF top
  <2> QED
    BY <2>1, <2>2
<1> QED
  BY <1>1 DEF Planned

----------------------------------------------------------------------------
(* Replaying a date.                                                       *)

LEMMA GroupFacts ==
    /\ SourceOf("crm") = "crm" /\ SourceOf("order") = "ops" /\ SourceOf("fulfillment") = "ops"
    /\ SourceOf("support") = "ops" /\ SourceOf("posting") = "erp"
    /\ LaterGroups("crm") = {"order", "fulfillment", "support", "posting"}
    /\ LaterGroups("order") = {"fulfillment", "support", "posting"}
    /\ LaterGroups("fulfillment") = {"support", "posting"}
    /\ LaterGroups("support") = {"posting"} /\ LaterGroups("posting") = {}
    /\ LaterKinds("crm") = OpsKinds \cup {"posting"}
    /\ LaterKinds("order") = FollowUps \cup {"posting"}
    /\ LaterKinds("fulfillment") = {"case", "posting"}
    /\ LaterKinds("support") = {"posting"} /\ LaterKinds("posting") = {}
BY DEF SourceOf, LaterGroups, LaterKinds

LEMMA InitReplay == Init => Replay
<1> SUFFICES ASSUME Init PROVE Replay
  OBVIOUS
<1>1. \A d \in Days : \A g \in Groups : ~Evidence(g, d) /\ ~Behind(g)
  <2>1. \A g \in Groups : SourceOf(g) \in Sources
    BY DEF SourceOf, Groups, Sources
  <2> QED
    BY <2>1 DEF Init, Evidence, Behind, Recorded
<1>2. SettledOK /\ TodoOK /\ PendingOK
  BY <1>1 DEF Init, SettledOK, TodoOK, PendingOK, Recorded
<1>3. EventsOK /\ RowsOK
  BY DEF Init, EventsOK, RowsOK
<1>4. SourcesOK
  BY DEF Init, SourcesOK, Recorded, Sources
<1> QED
  BY <1>2, <1>3, <1>4 DEF Replay

(* The plans are the same while events and rows are.                       *)
LEMMA PlansSame ==
    ASSUME UNCHANGED <<events, rows>>
    PROVE  /\ \A d, k : Recorded(d, k)' = Recorded(d, k)
           /\ \A d, k : ItemsOf(Recorded(d, k))' = ItemsOf(Recorded(d, k))
           /\ \A d : PlanOrders(d)' = PlanOrders(d) /\ PlanSupport(d)' = PlanSupport(d)
           /\ \A d : PlanFulfillment(d)' = PlanFulfillment(d) /\ PlanPostings(d)' = PlanPostings(d)
           /\ \A d, S : Planned(d, S)' = Planned(d, S)
           /\ \A g \in Groups : \A d : Settled(g, d)' <=> Settled(g, d)
<1>1. \A d, k : Recorded(d, k)' = Recorded(d, k)
  BY DEF Recorded
<1>2. \A d, k : ItemsOf(Recorded(d, k))' = ItemsOf(Recorded(d, k))
  BY <1>1 DEF ItemsOf
<1>3. \A i, d, S : (Due(i, d, S)' <=> Due(i, d, S)) /\ (DueToday(i, d)' <=> DueToday(i, d))
  BY DEF Due, DueToday
<1>4. \A k : RowItems(k)' = RowItems(k)
  BY DEF RowItems
<1>5. \A d : PlanOrders(d)' = PlanOrders(d) /\ PlanPostings(d)' = PlanPostings(d)
  BY <1>3, <1>4 DEF PlanOrders, PlanPostings
<1>6. \A d : PlanSupport(d)' = PlanSupport(d)
  BY <1>3 DEF PlanSupport, ItemsOf
<1>7. \A d : PlanFulfillment(d)' = PlanFulfillment(d)
  BY <1>3, <1>4 DEF PlanFulfillment
<1>8. \A d, S : Planned(d, S)' = Planned(d, S)
  BY PlannedKept
<1>9. \A g \in Groups : \A d : Settled(g, d)' <=> Settled(g, d)
  BY <1>1, <1>2, <1>5, <1>6, <1>7 DEF Settled, Groups
<1> QED
  BY <1>1, <1>2, <1>5, <1>6, <1>7, <1>8, <1>9

(* A step that records, applies and acknowledges nothing.                  *)
LEMMA QuietStep ==
    ASSUME Inv, Replay, UNCHANGED <<watermark, events, applied, rows>>,
           \A d \in Days : d = watermark + 1 =>
               \A s \in Sources : src'[d][s] = "applied" => src[d][s] = "applied",
           \A g \in Groups : Behind(g)' => Behind(g),
           \/ todo' = {} /\ pc' # "record"
           \/ todo' = todo /\ pc' = pc /\ group' = group
    PROVE  SettledOK' /\ TodoOK' /\ PendingOK' /\ EventsOK' /\ RowsOK'
<1>1. \A g \in Groups : SourceOf(g) \in Sources
  BY DEF SourceOf, Groups, Sources
<1>2. \A d \in Days : d = watermark + 1 => \A g \in Groups : Evidence(g, d)' => Evidence(g, d)
  BY <1>1, PlansSame DEF Evidence
<1>3. SettledOK'
  BY <1>2, PlansSame DEF Replay, SettledOK
<1>4. TodoOK'
  <2>1. CASE todo' = {} /\ pc' # "record"
    BY <2>1 DEF TodoOK
  <2>2. CASE todo' = todo /\ pc' = pc /\ group' = group
    <3>1. group \in Groups
      BY DEF Inv, Shape, TypeOK
    <3>2. ItemsOf(todo)' = ItemsOf(todo)
      BY <2>2 DEF ItemsOf
    <3> QED
      BY <1>2, <2>2, <3>1, <3>2, PlansSame DEF Replay, TodoOK
  <2> QED
    BY <2>1, <2>2
<1>5. PendingOK'
  BY PlansSame DEF Replay, PendingOK
<1>6. EventsOK'
  <2>1. events' \cup todo' \subseteq events \cup todo
    OBVIOUS
  <2> QED
    BY <2>1 DEF Replay, EventsOK
<1>7. RowsOK'
  BY DEF Replay, RowsOK, Row
<1> QED
  BY <1>3, <1>4, <1>5, <1>6, <1>7

LEMMA QuietSources ==
    ASSUME Replay, UNCHANGED <<watermark, src, events, applied>>,
           \A d \in Days : d = watermark + 1 =>
               /\ run'[d] = "completed" =>
                     run[d] = "completed" \/ \A s \in Sources : src[d][s] = "applied"
               /\ pc' = "claim_sources" => run'[d] = "in_progress"
               /\ manifest[d] # NoManifest => manifest'[d] # NoManifest
               /\ pc' = "mark" /\ group' = "crm" => manifest'[d] # NoManifest
               /\ pc' \in {"write", "manifest"} => manifest'[d] = NoManifest,
           group' \in {"fulfillment", "support"} => group \in {"fulfillment", "support"},
           pc' = "mark" /\ group' # "crm" => pc = "mark" /\ group' = group,
           pc' # "plan" /\ group' = "posting" => pc # "plan" /\ group = "posting"
    PROVE  SourcesOK'
<1>1. \A d, k : Recorded(d, k)' = Recorded(d, k)
  BY DEF Recorded
<1> SUFFICES ASSUME NEW d \in Days, d = watermark + 1
             PROVE  /\ src[d]["ops"] = "applied" => src[d]["crm"] = "applied"
                    /\ src[d]["erp"] = "applied" => src[d]["ops"] = "applied"
                    /\ run'[d] = "completed" => \A s \in Sources : src[d][s] = "applied"
                    /\ pc' = "claim_sources" => run'[d] = "in_progress"
                    /\ src[d]["crm"] = "applied" \/ (pc' = "mark" /\ group' = "crm") => manifest'[d] # NoManifest
                    /\ pc' \in {"write", "manifest"} => manifest'[d] = NoManifest
                    /\ group' \in {"fulfillment", "support"} => Recorded(d, {"order"}) \subseteq applied
                    /\ src[d]["ops"] = "applied" \/ (pc' = "mark" /\ group' = "support") =>
                          Recorded(d, OpsKinds) \subseteq applied
                    /\ src[d]["erp"] = "applied" \/ (pc' = "mark" /\ group' = "posting") =>
                          Recorded(d, {"posting"}) \subseteq applied
                    /\ Recorded(d, {"posting"}) # {} \/ (pc' # "plan" /\ group' = "posting") =>
                          src[d]["ops"] = "applied"
  BY <1>1 DEF SourcesOK
<1> QED
  BY DEF Replay, SourcesOK

LEMMA TickReplay ==
    ASSUME Inv, Replay, Tick PROVE Replay'
<1>1. /\ UNCHANGED <<watermark, run, src, events, applied, rows, manifest, pc, group, todo>>
  BY DEF Tick, control, crm, sourceDbs, locals
<1>2. SettledOK' /\ TodoOK' /\ PendingOK' /\ EventsOK' /\ RowsOK'
  BY <1>1, QuietStep DEF Behind
<1>3. SourcesOK'
  BY <1>1, QuietSources DEF Replay, SourcesOK
<1> QED
  BY <1>2, <1>3 DEF Replay

LEMMA UnwindReplay ==
    ASSUME Inv, Replay, Unwind, UNCHANGED <<control, crm, sourceDbs>> PROVE Replay'
<1>1. /\ UNCHANGED <<watermark, run, src, events, applied, rows, manifest>>
      /\ pc' = "idle" /\ group' = "crm" /\ todo' = {}
  BY DEF Unwind, control, crm, sourceDbs
<1>2. SettledOK' /\ TodoOK' /\ PendingOK' /\ EventsOK' /\ RowsOK'
  BY <1>1, QuietStep DEF Behind
<1>3. SourcesOK'
  BY <1>1, QuietSources
<1> QED
  BY <1>2, <1>3 DEF Replay

LEMMA RunThroughReplay ==
    ASSUME Inv, Replay, RunThrough PROVE Replay'
<1>1. /\ UNCHANGED <<watermark, run, src, events, applied, rows, manifest>>
      /\ pc' = "claim" /\ group' = "crm" /\ todo' = {}
  BY DEF RunThrough, StartDay, control, crm, sourceDbs
<1>2. \A g \in Groups : ~Behind(g)'
  BY <1>1, GroupFacts DEF Behind, Groups
<1>3. SettledOK' /\ TodoOK' /\ PendingOK' /\ EventsOK' /\ RowsOK'
  BY <1>1, <1>2, QuietStep
<1>4. SourcesOK'
  BY <1>1, QuietSources
<1> QED
  BY <1>3, <1>4 DEF Replay

LEMMA ClaimReplay ==
    ASSUME Inv, Replay, Claim PROVE Replay'
<1>1. /\ UNCHANGED <<watermark, src, events, applied, rows, manifest, group, todo>>
      /\ pc = "claim" /\ pc' \in {"claim_sources", "plan"} /\ group = "crm" /\ todo = {}
  BY DEF Claim, crm, sourceDbs, locals, Inv, ProcessOK
<1>2. day \in Days /\ day = watermark + 1 /\ run \in [Days -> {"none", "in_progress", "completed"}]
  BY <1>1, RunningDay DEF Inv, Shape, TypeOK
<1>3. \A g \in Groups : ~Behind(g)'
  BY <1>1, GroupFacts DEF Behind, Groups
<1>4. SettledOK' /\ TodoOK' /\ PendingOK' /\ EventsOK' /\ RowsOK'
  BY <1>1, <1>3, QuietStep
<1>5. /\ run'[day] = "completed" => run[day] = "completed"
      /\ pc' = "claim_sources" => run'[day] = "in_progress"
  BY <1>2 DEF Claim
<1>6. SourcesOK'
  BY <1>1, <1>2, <1>5, QuietSources
<1> QED
  BY <1>4, <1>6 DEF Replay

LEMMA ClaimSourceReplay ==
    ASSUME Inv, Replay, ClaimSource PROVE Replay'
<1>1. /\ UNCHANGED <<watermark, run, events, applied, rows, manifest, group, todo>>
      /\ pc = "claim_sources" /\ pc' \in {"claim_sources", "plan"} /\ group = "crm" /\ todo = {}
  BY DEF ClaimSource, crm, sourceDbs, locals, Inv, ProcessOK
<1>2. /\ day \in Days /\ day = watermark + 1
      /\ src \in [Days -> [Sources -> {"none", "pending", "applied"}]]
  BY <1>1, RunningDay DEF Inv, Shape, TypeOK
<1>3. \A g \in Groups : ~Behind(g)'
  BY <1>1, GroupFacts DEF Behind, Groups
<1>4. run[day] = "in_progress"
  BY <1>1, <1>2 DEF Replay, SourcesOK
<1>5. PICK s \in Sources : /\ src' = [src EXCEPT ![day][s] = "pending"]
                           /\ s = "crm" => src[day]["crm"] = "none"
                           /\ s = "ops" => src[day]["ops"] = "none"
  BY DEF ClaimSource, Sources
<1>6. \A t \in Sources : src'[day][t] = IF t = s THEN "pending" ELSE src[day][t]
  BY <1>2, <1>5
<1>7. \A t \in Sources : src'[day][t] = "applied" => src[day][t] = "applied"
  BY <1>6
<1>8. SettledOK' /\ TodoOK' /\ PendingOK' /\ EventsOK' /\ RowsOK'
  BY <1>1, <1>2, <1>3, <1>7, QuietStep
<1>9. /\ src'[day]["ops"] = "applied" => src'[day]["crm"] = "applied"
      /\ src'[day]["erp"] = "applied" => src'[day]["ops"] = "applied"
  <2>1. /\ src[day]["ops"] = "applied" => src[day]["crm"] = "applied"
        /\ src[day]["erp"] = "applied" => src[day]["ops"] = "applied"
    BY <1>2 DEF Replay, SourcesOK
  <2> QED
    BY <1>5, <1>6, <2>1 DEF Sources
<1>10. SourcesOK'
  <2>1. \A d, k : Recorded(d, k)' = Recorded(d, k)
    BY <1>1 DEF Recorded
  <2>2. "crm" \in Sources /\ "ops" \in Sources /\ "erp" \in Sources
    BY DEF Sources
  <2>3. /\ src'[day]["crm"] = "applied" => manifest[day] # NoManifest
        /\ src'[day]["ops"] = "applied" => Recorded(day, OpsKinds) \subseteq applied
        /\ src'[day]["erp"] = "applied" => Recorded(day, {"posting"}) \subseteq applied
    BY <1>2, <1>7, <2>2 DEF Replay, SourcesOK
  <2>4. Recorded(day, {"posting"}) # {} => src'[day]["ops"] = "applied"
    <3>1. Recorded(day, {"posting"}) # {} => src[day]["ops"] = "applied" /\ src[day]["crm"] = "applied"
      BY <1>2 DEF Replay, SourcesOK
    <3> QED
      BY <1>5, <1>6, <2>2, <3>1
  <2> QED
    BY <1>1, <1>2, <1>4, <1>9, <2>1, <2>3, <2>4 DEF SourcesOK
<1> QED
  BY <1>8, <1>10 DEF Replay

LEMMA RecordingDoneReplay ==
    ASSUME Inv, Replay, RecordingDone PROVE Replay'
<1>1. /\ UNCHANGED <<watermark, run, src, events, applied, rows, manifest>>
      /\ pc = "record" /\ todo = {} /\ todo' = {} /\ pc' = AfterRecord(group)
      /\ group' = IF group = "fulfillment" THEN "support" ELSE group
  BY DEF RecordingDone, control, crm, sourceDbs
<1>2. group \in Groups
  BY DEF Inv, Shape, TypeOK
<1>3. pc' \in {"publish", "plan", "apply"} /\ ((group' = "support" /\ pc' = "plan") \/ group' = group)
  BY <1>1, <1>2 DEF AfterRecord, Groups
<1>4. \A g \in Groups : Behind(g)' => Behind(g)
  <2>1. \A g \in Groups : group' \in LaterGroups(g) => group \in LaterGroups(g) \/ group = g
    BY <1>1, <1>2, GroupFacts DEF Groups
  <2>2. \A g \in Groups : group' = g /\ pc' # "plan" => group = g
    BY <1>1, <1>2, <1>3 DEF AfterRecord, Groups
  <2> QED
    BY <1>1, <2>1, <2>2 DEF Behind
<1>5. SettledOK' /\ TodoOK' /\ PendingOK' /\ EventsOK' /\ RowsOK'
  BY <1>1, <1>3, <1>4, QuietStep
<1>6. SourcesOK'
  BY <1>1, <1>3, QuietSources
<1> QED
  BY <1>5, <1>6 DEF Replay

LEMMA PublishReplay ==
    ASSUME Inv, Replay, Publish PROVE Replay'
<1>1. /\ UNCHANGED <<watermark, run, src, events, applied, rows, manifest, group, todo>>
      /\ pc = "publish" /\ pc' \in {"write", "mark"} /\ group = "crm" /\ todo = {}
  BY DEF Publish, control, crm, sourceDbs, Inv, ProcessOK
<1>2. pc' = "write" <=> manifest[day] = NoManifest
  BY DEF Publish
<1>3. day \in Days /\ day = watermark + 1
  BY <1>1, RunningDay
<1>4. \A g \in Groups : Behind(g)' => Behind(g)
  BY <1>1 DEF Behind
<1>5. SettledOK' /\ TodoOK' /\ PendingOK' /\ EventsOK' /\ RowsOK'
  BY <1>1, <1>4, QuietStep
<1>6. SourcesOK'
  BY <1>1, <1>2, <1>3, QuietSources
<1> QED
  BY <1>5, <1>6 DEF Replay

(* The steps between two statements of a publication, and the check before *)
(* complete_run.                                                           *)
LEMMA SameGroupReplay ==
    ASSUME Inv, Replay, UNCHANGED <<watermark, run, src, events, applied, rows, manifest, group, todo>>,
           \/ pc \in {"write", "manifest"} /\ pc' \in {"write", "manifest"}
           \/ pc = "reconcile" /\ pc' = "complete"
    PROVE  Replay'
<1>1. todo = {}
  BY DEF Inv, ProcessOK
<1>2. \A g \in Groups : Behind(g)' => Behind(g)
  BY DEF Behind
<1>3. SettledOK' /\ TodoOK' /\ PendingOK' /\ EventsOK' /\ RowsOK'
  BY <1>1, <1>2, QuietStep
<1>4. SourcesOK'
  BY QuietSources DEF Replay, SourcesOK
<1> QED
  BY <1>3, <1>4 DEF Replay

LEMMA WritePartitionReplay ==
    ASSUME Inv, Replay, NEW o \in Objects, WritePartition(o) PROVE Replay'
BY SameGroupReplay DEF WritePartition, control, sourceDbs

LEMMA WriteHistoryReplay ==
    ASSUME Inv, Replay, WriteHistory PROVE Replay'
BY SameGroupReplay DEF WriteHistory, control, sourceDbs, locals

LEMMA ReconcileReplay ==
    ASSUME Inv, Replay, Reconcile PROVE Replay'
BY SameGroupReplay DEF Reconcile, control, crm, sourceDbs, locals

LEMMA WriteManifestReplay ==
    ASSUME Inv, Replay, WriteManifest PROVE Replay'
<1>1. /\ UNCHANGED <<watermark, run, src, events, applied, rows, group, todo>>
      /\ pc = "manifest" /\ pc' = "mark" /\ group = "crm" /\ todo = {}
  BY DEF WriteManifest, control, sourceDbs, locals, Inv, ProcessOK
<1>2. day \in Days /\ day = watermark + 1
  BY <1>1, RunningDay
<1>3. manifest'[day] # NoManifest
  <2>1. manifest'[day] = ItemsOf(Recorded(day, Objects))
    BY <1>2 DEF WriteManifest, Inv, Shape, TypeOK
  <2>2. 0 \notin ItemsOf(Recorded(day, Objects))
    BY ItemsAssumption DEF ItemsOf, Recorded, Inv, Shape, TypeOK, Event
  <2> QED
    BY <2>1, <2>2 DEF NoManifest
<1>4. \A g \in Groups : Behind(g)' => Behind(g)
  BY <1>1 DEF Behind
<1>5. SettledOK' /\ TodoOK' /\ PendingOK' /\ EventsOK' /\ RowsOK'
  BY <1>1, <1>4, QuietStep
<1>6. SourcesOK'
  <2>1. \A d \in Days : d = watermark + 1 => run'[d] = run[d] /\ manifest'[d] # NoManifest
    BY <1>1, <1>2, <1>3
  <2> QED
    BY <1>1, <2>1, QuietSources
<1> QED
  BY <1>5, <1>6 DEF Replay

LEMMA CompleteReplay ==
    ASSUME Inv, Replay, Complete PROVE Replay'
<1>1. /\ UNCHANGED <<watermark, src, events, applied, rows, manifest, group, todo>>
      /\ pc = "complete" /\ pc' = "advance" /\ group = "posting" /\ todo = {}
      /\ \A s \in Sources : src[day][s] = "applied"
  BY DEF Complete, crm, sourceDbs, locals, Inv, ProcessOK
<1>2. day \in Days /\ day = watermark + 1
  BY <1>1, RunningDay
<1>3. \A g \in Groups : Behind(g)' => Behind(g)
  BY <1>1 DEF Behind
<1>4. SettledOK' /\ TodoOK' /\ PendingOK' /\ EventsOK' /\ RowsOK'
  BY <1>1, <1>3, QuietStep
<1>5. SourcesOK'
  BY <1>1, <1>2, QuietSources
<1> QED
  BY <1>4, <1>5 DEF Replay

LEMMA AdvanceReplay ==
    ASSUME Inv, Replay, Advance PROVE Replay'
<1>1. /\ UNCHANGED <<run, src, events, applied, rows, manifest>>
      /\ pc' \in {"claim", "idle"} /\ group' = "crm" /\ todo' = {} /\ watermark' = day
  BY DEF Advance, StartDay, Unwind, crm, sourceDbs
<1>2. day \in Days /\ day = watermark + 1 /\ watermark \in Nat
  BY RunningDay DEF Advance, Inv, Shape, TypeOK
<1>3. \A d \in Days : d = watermark' + 1 =>
          /\ run'[d] = "none" /\ \A s \in Sources : src'[d][s] = "none"
          /\ \A k : Recorded(d, k)' = {}
  <2>1. SUFFICES ASSUME NEW d \in Days, d = watermark' + 1
                 PROVE  /\ run[d] = "none" /\ \A s \in Sources : src[d][s] = "none"
                        /\ \A k : Recorded(d, k) = {}
    BY <1>1 DEF Recorded
  <2>2. d > watermark + 1
    BY <1>1, <1>2, <2>1
  <2>3. run[d] = "none" /\ Recorded(d, Kinds) = {} /\ \A s \in Sources : src[d][s] = "none"
    BY <2>2 DEF Inv, ControlOK, WatermarkSound
  <2>4. \A e \in events : Kind[e.item] \in Kinds
    BY ItemsAssumption DEF Inv, Shape, TypeOK, Event
  <2> QED
    BY <2>3, <2>4 DEF Recorded
<1>4. \A g \in Groups : SourceOf(g) \in Sources
  BY DEF SourceOf, Groups, Sources
<1>5. \A d \in Days : d = watermark' + 1 => \A g \in Groups : ~Evidence(g, d)' /\ ~Behind(g)'
  BY <1>1, <1>3, <1>4, GroupFacts DEF Evidence, Behind, Groups
<1>6. SettledOK'
  BY <1>5 DEF SettledOK
<1>7. TodoOK'
  BY <1>1 DEF TodoOK
<1>8. PendingOK'
  BY <1>3 DEF PendingOK
<1>9. EventsOK' /\ RowsOK'
  BY <1>1 DEF Replay, EventsOK, RowsOK, Row
<1>10. SourcesOK'
  <2>1. "crm" \in Sources /\ "ops" \in Sources /\ "erp" \in Sources
    BY DEF Sources
  <2> QED
    BY <1>1, <1>3, <2>1 DEF SourcesOK
<1> QED
  BY <1>6, <1>7, <1>8, <1>9, <1>10 DEF Replay

LEMMA MarkAppliedReplay ==
    ASSUME Inv, Replay, MarkApplied PROVE Replay'
<1>1. /\ UNCHANGED <<watermark, run, events, applied, rows, manifest, day, todo>>
      /\ pc = "mark" /\ todo = {} /\ group \in {"crm", "support", "posting"}
  BY DEF MarkApplied, crm, sourceDbs, Inv, ProcessOK
<1>2. /\ day \in Days /\ day = watermark + 1
      /\ src \in [Days -> [Sources -> {"none", "pending", "applied"}]]
  BY <1>1, RunningDay DEF Inv, Shape, TypeOK
<1> DEFINE s == SourceOf(group)
<1>3. /\ s \in Sources
      /\ s = "ops" => src[day]["crm"] = "applied"
      /\ s = "erp" => src[day]["crm"] = "applied" /\ src[day]["ops"] = "applied"
      /\ src' = [src EXCEPT ![day][s] = "applied"]
      /\ group' = CASE s = "crm" -> "order" [] OTHER -> "posting"
      /\ pc' = IF s = "erp" THEN "reconcile" ELSE "plan"
  BY <1>1 DEF MarkApplied, SourceOf, Sources
<1>4. \/ group = "crm" /\ s = "crm" /\ group' = "order" /\ pc' = "plan"
      \/ group = "support" /\ s = "ops" /\ group' = "posting" /\ pc' = "plan"
      \/ group = "posting" /\ s = "erp" /\ group' = "posting" /\ pc' = "reconcile"
  BY <1>1, <1>3, GroupFacts
<1> HIDE DEF s
<1>5. \A t \in Sources : src'[day][t] = IF t = s THEN "applied" ELSE src[day][t]
  BY <1>2, <1>3
<1>6. \A g \in Groups : Behind(g)' => Behind(g)
  BY <1>1, <1>4, GroupFacts DEF Behind, Groups
<1>7. \A g \in Groups : Evidence(g, day)' => Evidence(g, day) \/ Behind(g)
  <2>1. \A g \in Groups : SourceOf(g) \in Sources
    BY DEF SourceOf, Groups, Sources
  <2>2. \A g \in Groups : SourceOf(g) = s => Behind(g)
    BY <1>1, <1>4, GroupFacts DEF Behind, Groups
  <2> QED
    BY <1>1, <1>5, <2>1, <2>2 DEF Evidence, Recorded
<1>8. SettledOK'
  BY <1>1, <1>2, <1>6, <1>7, PlansSame DEF Replay, SettledOK
<1>9. TodoOK'
  BY <1>1, <1>4 DEF TodoOK
<1>10. PendingOK'
  BY <1>1, PlansSame DEF Replay, PendingOK
<1>11. EventsOK' /\ RowsOK'
  BY <1>1 DEF Replay, EventsOK, RowsOK, Row
<1>12. SourcesOK'
  <2>1. \A d, k : Recorded(d, k)' = Recorded(d, k)
    BY <1>1 DEF Recorded
  <2>2. "crm" \in Sources /\ "ops" \in Sources /\ "erp" \in Sources
    BY DEF Sources
  <2>3. /\ src'[day]["crm"] = "applied" => manifest[day] # NoManifest
        /\ src'[day]["ops"] = "applied" => Recorded(day, OpsKinds) \subseteq applied
        /\ src'[day]["erp"] = "applied" => Recorded(day, {"posting"}) \subseteq applied
    BY <1>1, <1>2, <1>4, <1>5, <2>2 DEF Replay, SourcesOK
  <2>4. /\ src'[day]["ops"] = "applied" => src'[day]["crm"] = "applied"
        /\ src'[day]["erp"] = "applied" => src'[day]["ops"] = "applied"
        /\ Recorded(day, {"posting"}) # {} => src'[day]["ops"] = "applied"
        /\ group' = "posting" => src'[day]["ops"] = "applied"
        /\ run[day] = "completed" => \A t \in Sources : src'[day][t] = "applied"
    BY <1>2, <1>3, <1>4, <1>5, <2>2 DEF Replay, SourcesOK
  <2> QED
    BY <1>1, <1>2, <1>4, <2>1, <2>3, <2>4 DEF SourcesOK
<1> QED
  BY <1>8, <1>9, <1>10, <1>11, <1>12 DEF Replay

(* Events of the dates behind the watermark are applied.                   *)
LEMMA EarlierApplied ==
    ASSUME Inv, NEW e \in events, Kind[e.item] \notin Objects, e.day # watermark + 1
    PROVE  e \in applied
<1>1. e.day \in Days /\ Kind[e.item] \in Kinds /\ watermark \in Nat
  <2>1. e \in Event /\ watermark \in Nat
    BY DEF Inv, Shape, TypeOK
  <2>2. e.day \in Days /\ e.item \in Items
    BY <2>1 DEF Event
  <2> QED
    BY <2>1, <2>2, ItemsAssumption
<1>2. ~(e.day > watermark + 1)
  BY <1>1 DEF Inv, ControlOK, WatermarkSound, Recorded
<1>3. e.day \in 1..watermark
  BY <1>1, <1>2 DEF Days
<1>4. Kind[e.item] \in OpsKinds \cup {"posting"}
  BY <1>1 DEF Kinds
<1> QED
  BY <1>3, <1>4 DEF Inv, ControlOK, WatermarkSound, Reconciled, Recorded

(* An applied event that is not a support case has its row.                *)
LEMMA AppliedHasRow ==
    ASSUME RowsOK, NEW e \in applied, Kind[e.item] # "case"
    PROVE  e.item \in RowItems(Kind[e.item])
<1>1. Row(e) \in rows /\ Row(e).kind = Kind[e.item] /\ Row(e).item = e.item
  BY DEF RowsOK, Row
<1> QED
  BY <1>1 DEF RowItems

LEMMA FulfillmentItems ==
    ASSUME NEW d, NEW i \in PlanFulfillment(d)
    PROVE  i \in Items /\ Kind[i] \in Fulfilling /\ i \notin RowItems(Kind[i])
BY DEF PlanFulfillment, Fulfilling

LEMMA PlanGroupReplay ==
    ASSUME Inv, Replay, PlanGroup PROVE Replay'
<1>1. /\ UNCHANGED <<watermark, run, src, events, applied, rows, manifest, group, day>>
      /\ pc = "plan" /\ pc' = "record" /\ todo = {} /\ todo' = Plan(group, day)
  BY DEF PlanGroup, control, crm, sourceDbs, Inv, ProcessOK
<1>2. /\ day \in Days /\ day = watermark + 1 /\ group \in Groups /\ Shape
      /\ \A d \in Days : d = watermark + 1 => d = day
  BY <1>1, RunningDay DEF Inv, Shape, TypeOK
<1>3. /\ PlanCrm(day) \in SUBSET Items /\ PlanOrders(day) \in SUBSET Items
      /\ PlanFulfillment(day) \in SUBSET Items /\ PlanSupport(day) \in SUBSET Items
      /\ PlanPostings(day) \in SUBSET Items
  BY DEF PlanCrm, PlanOrders, PlanFulfillment, PlanSupport, PlanPostings
<1>4. \A S \in SUBSET Items : Planned(day, S) = {} <=> S = {}
  BY <1>2, PlannedEvents DEF ItemsOf
<1>5. todo' = {} => Settled(group, day)
  <2>1. ASSUME todo' = {} PROVE Settled(group, day)
    <3>1. CASE group = "crm"
      BY <1>1, <1>2, <2>1, <3>1, CrmPlanNotEmpty DEF Plan, Settled
    <3>2. CASE group = "order"
      BY <1>1, <1>3, <1>4, <2>1, <3>2 DEF Plan, Settled
    <3>3. CASE group = "fulfillment"
      BY <1>1, <1>3, <1>4, <2>1, <3>3 DEF Plan, Settled
    <3>4. CASE group = "support"
      BY <1>1, <1>3, <1>4, <2>1, <3>4 DEF Plan, Settled
    <3>5. CASE group = "posting"
      BY <1>1, <1>3, <1>4, <2>1, <3>5 DEF Plan, Settled
    <3> QED
      BY <1>2, <3>1, <3>2, <3>3, <3>4, <3>5 DEF Groups
  <2> QED
    BY <2>1
<1>6. ASSUME NEW e \in Planned(day, PlanFulfillment(day)), NEW f \in events, f.item = e.item
      PROVE  e = f
  <2>1. /\ e.item \in PlanFulfillment(day)
        /\ \A h \in Planned(day, PlanFulfillment(day)) : h.item = e.item => h = e
    BY <1>2, <1>3, PlannedEvents
  <2>2. Kind[f.item] \in Fulfilling /\ f.item \notin RowItems(Kind[f.item])
    BY <1>6, <2>1, FulfillmentItems
  <2>3. Kind[f.item] # "case" /\ Kind[f.item] \notin Objects
    BY <2>2 DEF Fulfilling, Objects
  <2>4. f \notin applied
    BY <2>2, <2>3, AppliedHasRow DEF Replay
  <2>5. f.day = day
    BY <1>2, <2>3, <2>4, EarlierApplied
  <2>6. f \in Planned(day, PlanFulfillment(day))
    BY <1>2, <2>2, <2>4, <2>5 DEF Replay, PendingOK, Recorded
  <2> QED
    BY <1>6, <2>1, <2>6
<1>7. ASSUME Settled(group, day) PROVE todo' \subseteq events
  <2>1. CASE group = "crm"
    BY <1>1, <1>7, <2>1 DEF Plan, Settled
  <2>2. CASE group = "order"
    BY <1>1, <1>3, <1>4, <1>7, <2>2 DEF Plan, Settled
  <2>3. CASE group = "fulfillment"
    <3>1. todo' = Planned(day, PlanFulfillment(day))
      BY <1>1, <2>3 DEF Plan
    <3>2. \A e \in todo' : e.item \in PlanFulfillment(day)
      BY <1>2, <1>3, <3>1, PlannedEvents
    <3>3. \A i \in PlanFulfillment(day) : \E f \in events : f.item = i
      BY <1>7, <2>3 DEF Settled, ItemsOf, Recorded
    <3> QED
      BY <1>6, <3>1, <3>2, <3>3
  <2>4. CASE group = "support"
    BY <1>1, <1>3, <1>4, <1>7, <2>4 DEF Plan, Settled
  <2>5. CASE group = "posting"
    BY <1>1, <1>3, <1>4, <1>7, <2>5 DEF Plan, Settled
  <2> QED
    BY <1>2, <2>1, <2>2, <2>3, <2>4, <2>5 DEF Groups
<1>8. SettledOK'
  <2>1. \A g \in Groups : Behind(g)' => Behind(g) \/ (g = group /\ todo' = {})
    BY <1>1 DEF Behind
  <2>2. \A g \in Groups : \A d : Evidence(g, d)' => Evidence(g, d)
    BY <1>1 DEF Evidence, Recorded
  <2> QED
    BY <1>1, <1>2, <1>5, <2>1, <2>2, PlansSame DEF Replay, SettledOK
<1>9. TodoOK'
  <2>1. Evidence(group, day)' => todo' \subseteq events
    BY <1>1, <1>2, <1>7 DEF Replay, SettledOK, Evidence, Recorded
  <2>2. group = "fulfillment" => todo' = Planned(day, PlanFulfillment(day))
    BY <1>1 DEF Plan
  <2>3. group = "support" => todo' = Planned(day, PlanSupport(day))
    BY <1>1 DEF Plan
  <2>4. group = "fulfillment" => PlanFulfillment(day) \subseteq ItemsOf(todo')
    BY <1>2, <1>3, <2>2, PlannedEvents
  <2>5. group = "support" => PlanSupport(day) \subseteq ItemsOf(todo')
    BY <1>2, <1>3, <2>3, PlannedEvents
  <2>6. ItemsOf(todo)' = ItemsOf(todo')
    BY DEF ItemsOf
  <2> QED
    BY <1>1, <1>2, <2>1, <2>2, <2>4, <2>5, <2>6, PlansSame DEF TodoOK
<1>10. PendingOK'
  BY <1>1, PlansSame DEF Replay, PendingOK
<1>11. RowsOK'
  BY <1>1 DEF Replay, RowsOK, Row
<1>12. EventsOK'
  <2>1. PICK S \in SUBSET Items : todo' = {} \/ todo' = Planned(day, S)
    BY <1>1, <1>2, PlanIsPlanned
  <2>2. \A e, f \in todo' : e.item = f.item => e = f
    BY <1>2, <2>1, PlannedEvents
  <2>3. \A e \in todo' : /\ e.day = day /\ Kind[e.item] \in KindsOf(group)
                         /\ group = "crm" => e.item \in PlanCrm(day)
                         /\ group = "order" => e.item \in PlanOrders(day) /\ Recorded(day, {"order"}) = {}
                         /\ group = "support" => e.item \in PlanSupport(day)
                         /\ group = "posting" => e.item \in PlanPostings(day) /\ Recorded(day, {"posting"}) = {}
    <3>1. ASSUME NEW e \in todo' PROVE e.day = day /\ Kind[e.item] \in KindsOf(group)
      BY <1>1, <1>2, <3>1, PlanIsPlanned, PlannedEvents
    <3>2. ASSUME NEW e \in todo', group = "crm" PROVE e.item \in PlanCrm(day)
      BY <1>1, <1>2, <1>3, <3>2, PlannedEvents DEF Plan
    <3>3. ASSUME NEW e \in todo', group = "order"
          PROVE  e.item \in PlanOrders(day) /\ Recorded(day, {"order"}) = {}
      BY <1>1, <1>2, <1>3, <3>3, PlannedEvents DEF Plan
    <3>4. ASSUME NEW e \in todo', group = "support" PROVE e.item \in PlanSupport(day)
      BY <1>1, <1>2, <1>3, <3>4, PlannedEvents DEF Plan
    <3>5. ASSUME NEW e \in todo', group = "posting"
          PROVE  e.item \in PlanPostings(day) /\ Recorded(day, {"posting"}) = {}
      BY <1>1, <1>2, <1>3, <3>5, PlannedEvents DEF Plan
    <3> QED
      BY <3>1, <3>2, <3>3, <3>4, <3>5
  <2>4. \A e \in todo' : Kind[e.item] \in Objects => e.day = CrmDay[e.item]
    BY <1>2, <2>3, KindsFacts DEF PlanCrm
  <2>5. ASSUME NEW e \in todo', NEW f \in events, f.item = e.item PROVE e = f
    <3>1. CASE group = "crm"
      <4>1. Kind[f.item] \in Objects /\ CrmDay[f.item] = day /\ Recorded(day, Objects) = {}
        <5>1. todo' # {}
          BY <2>5
        <5>2. Recorded(day, Objects) = {}
          BY <1>1, <3>1, <5>1 DEF Plan
        <5> QED
          BY <2>3, <2>5, <3>1, <5>2, KindsFacts DEF PlanCrm
      <4>2. f.day = day
        BY <4>1 DEF Replay, EventsOK
      <4> QED
        BY <4>1, <4>2 DEF Recorded
    <3>2. CASE group = "order"
      <4>1. /\ Kind[f.item] = "order" /\ f.item \notin RowItems("order") /\ f.day # day
        BY <2>3, <2>5, <3>2 DEF PlanOrders, Recorded
      <4>2. f \in applied
        BY <1>2, <4>1, EarlierApplied DEF Objects
      <4> QED
        BY <4>1, <4>2, AppliedHasRow DEF Replay
    <3>3. CASE group = "fulfillment"
      <4>1. todo' = Planned(day, PlanFulfillment(day))
        BY <1>1, <3>3 DEF Plan
      <4> QED
        BY <1>6, <2>5, <4>1
    <3>4. CASE group = "support"
      BY <2>3, <2>5, <3>4 DEF PlanSupport, ItemsOf
    <3>5. CASE group = "posting"
      <4>1. /\ Kind[f.item] = "posting" /\ f.item \notin RowItems("posting") /\ f.day # day
        BY <2>3, <2>5, <3>5 DEF PlanPostings, Recorded
      <4>2. f \in applied
        BY <1>2, <4>1, EarlierApplied DEF Objects
      <4> QED
        BY <4>1, <4>2, AppliedHasRow DEF Replay
    <3> QED
      BY <1>2, <3>1, <3>2, <3>3, <3>4, <3>5 DEF Groups
  <2> QED
    BY <1>1, <2>2, <2>4, <2>5 DEF Replay, EventsOK
<1>13. SourcesOK'
  <2>1. \A d, k : Recorded(d, k)' = Recorded(d, k)
    BY <1>1 DEF Recorded
  <2>2. group = "posting" => src[day]["ops"] = "applied"
    BY DEF PlanGroup, OutOfOrder
  <2> QED
    BY <1>1, <1>2, <2>1, <2>2 DEF Replay, SourcesOK
<1> QED
  BY <1>8, <1>9, <1>10, <1>11, <1>12, <1>13 DEF Replay

LEMMA RecordEventReplay ==
    ASSUME Inv, Replay, RecordEvent PROVE Replay'
<1>1. /\ UNCHANGED <<watermark, run, src, applied, rows, manifest, pc, group, day>> /\ pc = "record"
  BY DEF RecordEvent, crm, sourceDbs
<1>2. /\ day \in Days /\ day = watermark + 1 /\ group \in Groups
      /\ \A d \in Days : d = watermark + 1 => d = day
  BY <1>1, RunningDay DEF Inv, Shape, TypeOK
<1>3. PICK e \in todo : events' = events \cup {e} /\ todo' = todo \ {e}
  BY DEF RecordEvent
<1>4. /\ e.day = day /\ Kind[e.item] \in KindsOf(group) /\ events \subseteq events'
      /\ events' \subseteq Event
  BY <1>3 DEF Inv, Shape, TypeOK, ProcessOK
<1>5. ASSUME NEW g \in Groups, Evidence(g, day)', g = group \/ g \in LaterGroups(group)
      PROVE  Evidence(g, day) /\ Evidence(group, day) /\ events' = events
  <2>1. KindsOf(group) \cap LaterKinds(g) = {}
    BY <1>2, <1>5, GroupFacts, KindsFacts DEF Groups, Objects, OpsKinds, FollowUps, Fulfilling
  <2>2. Evidence(g, day)
    BY <1>1, <1>3, <1>4, <1>5, <2>1 DEF Evidence, Recorded
  <2>3. Evidence(group, day)
    <3>1. LaterKinds(g) \subseteq LaterKinds(group)
      BY <1>2, <1>5, GroupFacts DEF Groups, OpsKinds, FollowUps
    <3>2. src[day][SourceOf(g)] = "applied" => src[day][SourceOf(group)] = "applied"
      BY <1>2, <1>5, GroupFacts DEF Groups, Replay, SourcesOK
    <3> QED
      BY <2>2, <3>1, <3>2 DEF Evidence, Recorded
  <2>4. todo \subseteq events
    BY <1>2, <2>3 DEF Replay, TodoOK
  <2> QED
    BY <1>3, <2>2, <2>3, <2>4
<1>6. \A k : RowItems(k)' = RowItems(k)
  BY <1>1 DEF RowItems
<1>7. \A d, k : Recorded(d, k) \subseteq Recorded(d, k)'
  BY <1>4 DEF Recorded
<1>8. \A d, S : Planned(d, S)' = Planned(d, S)
  BY <1>1, PlannedKept
<1>9. ItemsOf(todo)' = ItemsOf(todo')
  BY DEF ItemsOf
<1>10. group \in {"fulfillment", "support", "posting"} => PlanFulfillment(day)' = PlanFulfillment(day)
  <2>1. CASE group = "fulfillment"
    <3>1. e \in Planned(day, PlanFulfillment(day))
      BY <1>1, <1>2, <2>1 DEF Replay, TodoOK
    <3>2. e.item \in PlanFulfillment(day)
      <4>1. PlanFulfillment(day) \in SUBSET Items /\ Shape
        BY DEF PlanFulfillment, Inv
      <4> QED
        BY <1>2, <3>1, <4>1, PlannedEvents
    <3>3. Kind[e.item] = "shipment" => e.item \in Ships(day)
      BY <3>2, FulfillmentParts
    <3>4. Kind[e.item] # "order"
      BY <1>4, <2>1, KindsFacts DEF Fulfilling
    <3> QED
      BY <1>1, <1>2, <1>3, <1>4, <1>6, <3>3, <3>4, FulfillmentKept
  <2>2. CASE group \in {"support", "posting"}
    <3>1. Kind[e.item] # "order" /\ Kind[e.item] # "shipment"
      BY <1>4, <2>2, KindsFacts
    <3> QED
      BY <1>1, <1>2, <1>3, <1>4, <1>6, <3>1, FulfillmentKept
  <2> QED
    BY <2>1, <2>2
<1>11. group # "fulfillment" => PlanSupport(day)' = PlanSupport(day) \ ItemsOf(events')
  <2>1. group # "fulfillment" => Kind[e.item] # "delivery"
    BY <1>2, <1>4, KindsFacts DEF Groups, Objects
  <2> QED
    BY <1>1, <1>3, <1>4, <2>1, SupportKept
<1>12. TodoOK'
  <2>1. Evidence(group, day)' => todo' \subseteq events'
    <3>1. PICK g \in Groups : g = group
      BY <1>2
    <3>2. Evidence(group, day)' => Evidence(g, day)'
      BY <1>1, <3>1 DEF Evidence
    <3> QED
      BY <1>2, <1>3, <1>5, <3>1, <3>2 DEF Replay, TodoOK
  <2>2. ASSUME group = "fulfillment"
        PROVE  /\ todo' \subseteq Planned(day, PlanFulfillment(day))'
               /\ PlanFulfillment(day)' \subseteq ItemsOf(Recorded(day, Fulfilling))' \cup ItemsOf(todo')
    <3>1. /\ todo \subseteq Planned(day, PlanFulfillment(day))
          /\ PlanFulfillment(day) \subseteq ItemsOf(Recorded(day, Fulfilling)) \cup ItemsOf(todo)
      BY <1>1, <1>2, <2>2 DEF Replay, TodoOK
    <3>2. PlanFulfillment(day)' = PlanFulfillment(day)
      BY <1>10, <2>2
    <3>3. Planned(day, PlanFulfillment(day))' = Planned(day, PlanFulfillment(day))
      BY <1>1, <1>8, <3>2 
    <3>4. e \in Recorded(day, Fulfilling)'
      BY <1>1, <1>3, <1>4, <2>2, KindsFacts DEF Recorded
    <3>5. ItemsOf(Recorded(day, Fulfilling)) \subseteq ItemsOf(Recorded(day, Fulfilling))'
      BY <1>1, <1>7 DEF ItemsOf
    <3>6. ItemsOf(todo) \subseteq ItemsOf(Recorded(day, Fulfilling))' \cup ItemsOf(todo')
      BY <1>3, <3>4 DEF ItemsOf
    <3> QED
      BY <1>3, <3>1, <3>2, <3>3, <3>5, <3>6
  <2>3. ASSUME group = "support" PROVE PlanSupport(day)' \subseteq ItemsOf(todo')
    <3>1. PlanSupport(day) \subseteq ItemsOf(todo)
      BY <1>1, <1>2, <2>3 DEF Replay, TodoOK
    <3>2. PlanSupport(day)' = PlanSupport(day) \ ItemsOf(events')
      BY <1>11, <2>3
    <3> QED
      BY <1>3, <3>1, <3>2 DEF ItemsOf
  <2> QED
    BY <1>1, <1>2, <1>9, <2>1, <2>2, <2>3 DEF TodoOK
<1>13. SettledOK'
  <2>1. SUFFICES ASSUME NEW g \in Groups, Evidence(g, day)' \/ Behind(g)' PROVE Settled(g, day)'
    BY <1>1, <1>2 DEF SettledOK
  <2>2. CASE (g = group \/ g \in LaterGroups(group)) /\ Evidence(g, day)'
    <3>1. events' = events /\ Settled(g, day)
      BY <1>2, <1>5, <2>2 DEF Replay, SettledOK
    <3> QED
      BY <1>1, <3>1, PlansSame
  <2>3. CASE g = group /\ Behind(g)'
    <3>1. todo' = {} /\ ItemsOf(todo') = {}
      BY <1>1, <1>2, <2>3, GroupFacts DEF Behind, Groups, ItemsOf
    <3>2. e \in Recorded(day, KindsOf(group))'
      BY <1>1, <1>3, <1>4 DEF Recorded
    <3>3. CASE group \in {"crm", "order", "posting"}
      BY <1>1, <2>3, <3>2, <3>3, KindsFacts DEF Settled
    <3>4. CASE group = "fulfillment"
      <4>1. PlanFulfillment(day)' \subseteq ItemsOf(Recorded(day, Fulfilling))'
        BY <1>1, <1>2, <1>9, <1>12, <3>1, <3>4 DEF TodoOK
      <4> QED
        BY <1>1, <2>3, <3>4, <4>1 DEF Settled
    <3>5. CASE group = "support"
      <4>1. PlanSupport(day)' = {}
        BY <1>1, <1>2, <1>9, <1>12, <3>1, <3>5 DEF TodoOK
      <4> QED
        BY <1>1, <2>3, <3>5, <4>1 DEF Settled
    <3> QED
      BY <1>2, <3>3, <3>4, <3>5 DEF Groups
  <2>4. CASE g # group /\ g \notin LaterGroups(group)
    <3>1. group \in LaterGroups(g)
      BY <1>2, <2>4, GroupFacts DEF Groups
    <3>2. Settled(g, day)
      BY <1>1, <1>2, <3>1 DEF Behind, Replay, SettledOK
    <3>3. CASE g = "crm"
      BY <1>1, <1>7, <3>2, <3>3 DEF Settled
    <3>4. CASE g = "order"
      <4>1. Kind[e.item] # "opportunities"
        BY <1>4, <3>1, <3>4, GroupFacts, KindsFacts DEF Fulfilling
      <4>2. PlanOrders(day)' \subseteq PlanOrders(day)
        BY <1>1, <1>3, <1>4, <4>1, OrdersKept
      <4> QED
        BY <1>1, <1>7, <3>2, <3>4, <4>2 DEF Settled
    <3>5. CASE g = "fulfillment"
      <4>1. PlanFulfillment(day)' = PlanFulfillment(day)
        BY <1>10, <3>1, <3>5, GroupFacts
      <4>2. ItemsOf(Recorded(day, Fulfilling)) \subseteq ItemsOf(Recorded(day, Fulfilling))'
        BY <1>1, <1>7 DEF ItemsOf
      <4> QED
        BY <1>1, <3>2, <3>5, <4>1, <4>2 DEF Settled
    <3>6. CASE g = "support"
      BY <1>1, <1>11, <3>1, <3>2, <3>6, GroupFacts DEF Settled
    <3>7. CASE g = "posting"
      BY <3>1, <3>7, GroupFacts
    <3> QED
      BY <3>3, <3>4, <3>5, <3>6, <3>7 DEF Groups
  <2>5. CASE g \in LaterGroups(group) /\ Behind(g)'
    BY <1>1, <1>2, <2>5, GroupFacts DEF Behind, Groups
  <2> QED
    BY <2>1, <2>2, <2>3, <2>4, <2>5
<1>14. PendingOK'
  <2>1. SUFFICES ASSUME NEW f \in Recorded(day, Fulfilling)', f \notin applied
                 PROVE  f \in Planned(day, PlanFulfillment(day))'
    BY <1>1, <1>2 DEF PendingOK
  <2>2. f \in Recorded(day, Fulfilling) => f \in Planned(day, PlanFulfillment(day))
    BY <1>2, <2>1 DEF Replay, PendingOK
  <2>3. CASE group \in {"crm", "order"}
    <3>1. f # e
      BY <1>4, <2>1, <2>3, KindsFacts DEF Recorded, Fulfilling, Objects
    <3>2. f \in Recorded(day, Fulfilling)
      BY <1>1, <1>3, <2>1, <3>1 DEF Recorded
    <3>3. Fulfilling \subseteq LaterKinds(group)
      BY <2>3, GroupFacts DEF Fulfilling, OpsKinds, FollowUps
    <3>4. PICK g \in Groups : g = group
      BY <1>2
    <3>5. Evidence(g, day)'
      BY <1>1, <2>1, <3>3, <3>4 DEF Evidence, Recorded
    <3>6. events' = events
      BY <1>5, <3>4, <3>5
    <3> QED
      BY <1>1, <2>2, <3>2, <3>6, PlansSame
  <2>4. CASE group \in {"fulfillment", "support", "posting"}
    <3>1. Planned(day, PlanFulfillment(day))' = Planned(day, PlanFulfillment(day))
      BY <1>1, <1>8, <1>10, <2>4
    <3>2. f \in Recorded(day, Fulfilling) \/ (f = e /\ group = "fulfillment")
      BY <1>1, <1>3, <1>4, <2>1, <2>4, KindsFacts DEF Recorded, Fulfilling
    <3>3. group = "fulfillment" => e \in Planned(day, PlanFulfillment(day))
      BY <1>1, <1>2 DEF Replay, TodoOK
    <3> QED
      BY <2>2, <3>1, <3>2, <3>3
  <2> QED
    BY <1>2, <2>3, <2>4 DEF Groups
<1>15. EventsOK'
  <2>1. events' \cup todo' \subseteq events \cup todo
    BY <1>3
  <2> QED
    BY <2>1 DEF Replay, EventsOK
<1>16. RowsOK'
  BY <1>1, <1>4 DEF Replay, RowsOK, Row
<1>17. SourcesOK'
  <2>1. \A k : e \in events \/ KindsOf(group) \cap k = {} => Recorded(day, k)' = Recorded(day, k)
    BY <1>1, <1>3, <1>4 DEF Recorded
  <2>2. src[day][SourceOf(group)] = "applied" => e \in events
    BY <1>2 DEF Replay, TodoOK, Evidence
  <2>3. group \in {"fulfillment", "support"} => Recorded(day, {"order"})' \subseteq applied
    <3>1. group \in {"fulfillment", "support"} => KindsOf(group) \cap {"order"} = {}
      BY KindsFacts DEF Fulfilling
    <3> QED
      BY <1>2, <2>1, <3>1 DEF Replay, SourcesOK
  <2>4. src[day]["ops"] = "applied" => Recorded(day, OpsKinds)' \subseteq applied
    <3>1. SourceOf(group) = "ops" \/ KindsOf(group) \cap OpsKinds = {}
      BY <1>2, GroupFacts, KindsFacts DEF Groups, Objects, OpsKinds, FollowUps
    <3> QED
      BY <1>2, <2>1, <2>2, <3>1 DEF Replay, SourcesOK
  <2>5. src[day]["erp"] = "applied" => Recorded(day, {"posting"})' \subseteq applied
    <3>1. SourceOf(group) = "erp" \/ KindsOf(group) \cap {"posting"} = {}
      BY <1>2, GroupFacts, KindsFacts DEF Groups, Objects, Fulfilling
    <3> QED
      BY <1>2, <2>1, <2>2, <3>1 DEF Replay, SourcesOK
  <2>6. Recorded(day, {"posting"})' # {} => src[day]["ops"] = "applied"
    <3>1. group = "posting" \/ KindsOf(group) \cap {"posting"} = {}
      BY <1>2, KindsFacts DEF Groups, Objects, Fulfilling
    <3> QED
      BY <1>1, <1>2, <2>1, <3>1 DEF Replay, SourcesOK
  <2> QED
    BY <1>1, <1>2, <2>3, <2>4, <2>5, <2>6 DEF Replay, SourcesOK
<1> QED
  BY <1>12, <1>13, <1>14, <1>15, <1>16, <1>17 DEF Replay

(* One transaction: the rows it adds are of the kinds of its batch, and    *)
(* every event of the batch but a support case gets its row.               *)
LEMMA ApplyRows ==
    ASSUME Inv, Apply
    PROVE  /\ \A k : (\A e \in Batch : Kind[e.item] # k) =>
                  {r \in rows' : r.kind = k} = {r \in rows : r.kind = k}
           /\ \A e \in Batch : Kind[e.item] # "case" => Row(e) \in rows'
           /\ \A r \in rows' : r \in rows \/ \E e \in Batch : r = Row(e)
           /\ \A r \in rows' : r \notin rows => ~Taken(r, rows')
           /\ rows \subseteq rows'
<1>1. PICK new \in SUBSET {Row(e) : e \in Batch} :
          /\ \A r \in new : ~Taken(r, rows \cup new)
          /\ \A e \in Batch : Row(e) \in new \/ Taken(Row(e), rows \cup new)
          /\ rows' = rows \cup new
  BY ApplyAdds
<1>2. \A r \in new : \E e \in Batch : r = Row(e)
  BY <1>1
<1>3. \A e : Row(e).kind = Kind[e.item]
  BY DEF Row
<1>4. \A k : (\A e \in Batch : Kind[e.item] # k) =>
          {r \in rows' : r.kind = k} = {r \in rows : r.kind = k}
  BY <1>1, <1>2, <1>3
<1>5. ASSUME NEW e \in Batch, Kind[e.item] # "case" PROVE Row(e) \in rows'
  <2>1. ~Taken(Row(e), rows \cup {Row(f) : f \in Batch})
    BY <1>5 DEF Apply, Collision
  <2>2. ~Taken(Row(e), rows \cup new)
    BY <1>1, <2>1 DEF Taken
  <2> QED
    BY <1>1, <2>2
<1>6. \A r \in rows' : r \notin rows => ~Taken(r, rows')
  BY <1>1
<1> QED
  BY <1>1, <1>2, <1>4, <1>5, <1>6

LEMMA ApplyReplay ==
    ASSUME Inv, Replay, Apply PROVE Replay'
<1>1. /\ UNCHANGED <<watermark, run, src, events, manifest, day, todo>>
      /\ pc = "apply" /\ todo = {} /\ group \in {"order", "support", "posting"}
      /\ \/ group = "order" /\ group' = "fulfillment" /\ pc' = "plan"
         \/ group # "order" /\ group' = group /\ pc' = "mark"
  BY DEF Apply, control, crm, Inv, ProcessOK
<1>2. day \in Days /\ day = watermark + 1 /\ \A d \in Days : d = watermark + 1 => d = day
  BY <1>1, RunningDay
<1>3. Batch \subseteq events /\ applied' = applied \cup Batch /\ rows \subseteq rows'
  BY ApplyAdds, ApplyRows
<1>4. /\ group = "order" => Batch = Recorded(day, {"order"}) \ applied
      /\ group = "support" => Batch = Recorded(day, FollowUps) \ applied
      /\ group = "posting" => Batch = Recorded(day, {"posting"}) \ applied
  BY DEF Batch
<1>5. \A d, k : Recorded(d, k)' = Recorded(d, k)
  BY <1>1 DEF Recorded
<1>6. \A d, k : ItemsOf(Recorded(d, k))' = ItemsOf(Recorded(d, k))
  BY <1>5 DEF ItemsOf
<1>7. group # "support" => \A e \in Batch : Kind[e.item] \notin FollowUps
  BY <1>1, <1>4 DEF Recorded, FollowUps
<1>8. \A k \in FollowUps : group # "support" =>
          {r \in rows' : r.kind = k} = {r \in rows : r.kind = k} /\ RowItems(k)' = RowItems(k)
  <2>1. \A k \in FollowUps : group # "support" => {r \in rows' : r.kind = k} = {r \in rows : r.kind = k}
    BY <1>7, ApplyRows
  <2> QED
    BY <2>1 DEF RowItems
<1>9. SettledOK'
  <2>1. SUFFICES ASSUME NEW g \in Groups, Evidence(g, day)' \/ Behind(g)' PROVE Settled(g, day)'
    BY <1>1, <1>2 DEF SettledOK
  <2>2. Evidence(g, day) \/ Behind(g)
    <3>1. Evidence(g, day)' => Evidence(g, day)
      BY <1>1, <1>5 DEF Evidence
    <3>2. Behind(g)' => Behind(g)
      BY <1>1, GroupFacts DEF Behind, Groups
    <3> QED
      BY <2>1, <3>1, <3>2
  <2>3. Settled(g, day)
    BY <1>2, <2>2 DEF Replay, SettledOK
  <2>4. CASE g = "crm"
    BY <1>1, <1>5, <2>3, <2>4 DEF Settled
  <2>5. CASE g = "order"
    <3>1. PlanOrders(day)' \subseteq PlanOrders(day)
      BY <1>1, <1>3, OrdersKept
    <3> QED
      BY <1>1, <1>5, <2>3, <2>5, <3>1 DEF Settled
  <2>6. CASE g = "fulfillment"
    <3>1. PlanFulfillment(day)' \subseteq PlanFulfillment(day)
      BY <1>1, <1>3, FulfillmentShrinks
    <3> QED
      BY <1>1, <1>6, <2>3, <2>6, <3>1 DEF Settled
  <2>7. CASE g = "support"
    <3>1. PlanSupport(day)' = PlanSupport(day)
      BY <1>1 DEF PlanSupport, Due, ItemsOf
    <3> QED
      BY <1>1, <2>3, <2>7, <3>1 DEF Settled
  <2>8. CASE g = "posting"
    <3>1. RowItems("invoice")' = RowItems("invoice")
      <4>1. CASE group # "support"
        BY <1>8, <4>1 DEF FollowUps
      <4>2. CASE group = "support"
        <5>1. src[day]["erp"] = "applied"
          BY <2>2, <2>8, <4>2, GroupFacts DEF Evidence, Behind, Recorded
        <5>2. Recorded(day, OpsKinds) \subseteq applied
          BY <1>2, <5>1 DEF Replay, SourcesOK
        <5>3. Batch = {}
          BY <1>4, <4>2, <5>2 DEF Recorded, OpsKinds
        <5>4. rows' = rows
          BY <1>3, <5>3, ApplyRows
        <5> QED
          BY <5>4 DEF RowItems
      <4> QED
        BY <4>1, <4>2
    <3>2. PlanPostings(day)' \subseteq PlanPostings(day)
      BY <1>1, <1>3, <3>1, PostingsKept
    <3> QED
      BY <1>1, <1>5, <2>3, <2>8, <3>2 DEF Settled
  <2> QED
    BY <2>4, <2>5, <2>6, <2>7, <2>8 DEF Groups
<1>10. TodoOK'
  BY <1>1 DEF TodoOK
<1>11. PendingOK'
  <2>1. SUFFICES ASSUME NEW f \in Recorded(day, Fulfilling), f \notin applied'
                 PROVE  f \in Planned(day, PlanFulfillment(day))'
    BY <1>1, <1>2, <1>5 DEF PendingOK
  <2>2. f \in Planned(day, PlanFulfillment(day))
    BY <1>2, <1>3, <2>1 DEF Replay, PendingOK
  <2>3. CASE group = "support"
    BY <1>3, <1>4, <2>1, <2>3 DEF Recorded, Fulfilling, FollowUps
  <2>4. CASE group # "support"
    <3>1. Fulfilling \subseteq FollowUps
      BY DEF Fulfilling, FollowUps
    <3>2. PlanFulfillment(day)' = PlanFulfillment(day)
      <4>1. events' \subseteq Event
        BY <1>1 DEF Inv, Shape, TypeOK
      <4> QED
        BY <1>1, <1>2, <1>8, <2>4, <3>1, <4>1, FulfillmentKept
    <3>3. \A i \in PlanFulfillment(day) : Kind[i] \in FollowUps
      BY <3>1, FulfillmentItems
    <3>4. \A i \in PlanFulfillment(day) : {r \in rows' : r.kind = Kind[i]} = {r \in rows : r.kind = Kind[i]}
      BY <1>8, <2>4, <3>3
    <3>5. PICK S, d : S = PlanFulfillment(day) /\ d = day
      OBVIOUS
    <3>6. Planned(d, S)' = Planned(d, S)
      BY <3>4, <3>5, PlannedKept
    <3> QED
      BY <1>1, <2>2, <3>2, <3>5, <3>6
  <2> QED
    BY <2>3, <2>4
<1>12. EventsOK'
  BY <1>1 DEF Replay, EventsOK
<1>13. RowsOK'
  <2>1. applied' \subseteq events'
    BY <1>1, <1>3 DEF Replay, RowsOK
  <2>2. \A r \in rows' : \E e \in applied' : r = Row(e)
    BY <1>3, ApplyRows DEF Replay, RowsOK
  <2>3. \A e \in applied' : Kind[e.item] # "case" => Row(e) \in rows'
    BY <1>3, ApplyRows DEF Replay, RowsOK
  <2>4. ASSUME NEW r \in rows', NEW s \in rows', r.kind = s.kind, r.id = s.id PROVE r = s
    <3>1. CASE r \in rows /\ s \in rows
      BY <2>4, <3>1 DEF Replay, RowsOK
    <3>2. CASE r \notin rows \/ s \notin rows
      <4>1. r.item = s.item
        <5>1. CASE r \notin rows
          BY <2>4, <5>1, ApplyRows DEF Taken
        <5>2. CASE s \notin rows
          BY <2>4, <5>2, ApplyRows DEF Taken
        <5> QED
          BY <3>2, <5>1, <5>2
      <4>2. rows' \subseteq [kind: Kinds, id: Nat, item: Items]
        <5>1. Inv'
          BY ApplyInv
        <5> QED
          BY <5>1 DEF Inv, Shape
      <4> QED
        BY <2>4, <4>1, <4>2
    <3> QED
      BY <3>1, <3>2
  <2>5. \A e : Row(e)' = Row(e)
    BY DEF Row
  <2> QED
    BY <2>1, <2>2, <2>3, <2>4, <2>5 DEF RowsOK
<1>14. SourcesOK'
  <2>1. group' \in {"fulfillment", "support"} => Recorded(day, {"order"}) \subseteq applied'
    BY <1>1, <1>2, <1>3, <1>4 DEF Replay, SourcesOK
  <2>2. ASSUME group = "support" PROVE Recorded(day, OpsKinds) \subseteq applied'
    <3>1. Recorded(day, {"order"}) \subseteq applied'
      BY <1>1, <2>1, <2>2
    <3>2. Recorded(day, FollowUps) \subseteq applied'
      BY <1>3, <1>4, <2>2
    <3> QED
      BY <3>1, <3>2 DEF Recorded, OpsKinds
  <2>3. group = "posting" => Recorded(day, {"posting"}) \subseteq applied'
    BY <1>3, <1>4
  <2> QED
    BY <1>1, <1>2, <1>3, <1>5, <2>1, <2>2, <2>3 DEF Replay, SourcesOK
<1> QED
  BY <1>9, <1>10, <1>11, <1>12, <1>13, <1>14 DEF Replay

LEMMA StepReplay == Inv /\ Replay /\ [Next]_vars => Replay'
<1> SUFFICES ASSUME Inv, Replay, [Next]_vars PROVE Replay'
  OBVIOUS
<1>1. CASE Raise \/ Interrupt
  BY <1>1, UnwindReplay DEF Raise, Interrupt
<1>2. CASE Next /\ ~(Raise \/ Interrupt)
  BY <1>2, TickReplay, RunThroughReplay, ClaimReplay, ClaimSourceReplay, PlanGroupReplay,
     RecordEventReplay, RecordingDoneReplay, PublishReplay, WritePartitionReplay,
     WriteHistoryReplay, WriteManifestReplay, ApplyReplay, MarkAppliedReplay, ReconcileReplay,
     CompleteReplay, AdvanceReplay
     DEF Next, RunnerStep
<1>3. CASE UNCHANGED vars
  <2>1. UNCHANGED <<watermark, run, src, events, applied, rows, manifest, pc, group, todo>>
    BY <1>3 DEF vars, control, crm, sourceDbs, locals
  <2>2. SettledOK' /\ TodoOK' /\ PendingOK' /\ EventsOK' /\ RowsOK'
    BY <2>1, QuietStep DEF Behind
  <2>3. SourcesOK'
    BY <2>1, QuietSources DEF Replay, SourcesOK
  <2> QED
    BY <2>2, <2>3 DEF Replay
<1> QED
  BY <1>1, <1>2, <1>3

(* Settled groups stay settled, items are recorded once and rows follow    *)
(* the recorded keys, through every replay of a date.                      *)
THEOREM ReplayInvariance == Spec => [](Inv /\ Replay)
<1>1. Init => Inv /\ Replay
  BY InitInv, InitReplay
<1>2. (Inv /\ Replay) /\ [Next]_vars => (Inv /\ Replay)'
  BY StepInv, StepReplay
<1> QED
  BY <1>1, <1>2, PTL DEF Spec

(* However often a date is replayed, every item takes effect once and no   *)
(* two items share a primary key.                                          *)
THEOREM EffectsHappenOnce == Spec => []EffectsOnce
<1>1. ASSUME Inv, Replay PROVE EffectsOnce
  <2>1. SUFFICES ASSUME NEW r \in rows, NEW s \in rows, r.kind = s.kind,
                        r.item = s.item \/ r.id = s.id
                 PROVE  r = s
    BY DEF EffectsOnce
  <2>2. CASE r.id = s.id
    BY <1>1, <2>1, <2>2 DEF Replay, RowsOK
  <2>3. CASE r.item = s.item
    <3>1. PICK e \in applied, f \in applied : r = Row(e) /\ s = Row(f)
      BY <1>1 DEF Replay, RowsOK
    <3>2. e \in events /\ f \in events /\ e.item = f.item
      BY <1>1, <2>3, <3>1 DEF Replay, RowsOK, Row
    <3>3. e = f
      BY <1>1, <3>2 DEF Replay, EventsOK
    <3> QED
      BY <3>1, <3>3
  <2> QED
    BY <2>1, <2>2, <2>3
<1> QED
  BY <1>1, ReplayInvariance, PTL

(* Nothing of date d changes.                                              *)
DateSame(d) ==
    /\ {e \in events' : e.day = d} = {e \in events : e.day = d}
    /\ {e \in applied' : e.day = d} = {e \in applied : e.day = d}
    /\ {p \in parts' : p[1] = d} = {p \in parts : p[1] = d}
    /\ history'[d] = history[d] /\ manifest'[d] = manifest[d]
    /\ src'[d] = src[d]

LEMMA CompletedSame ==
    ASSUME Inv, Replay, Next, NEW d \in Days, run[d] = "completed"
    PROVE  DateSame(d)
<1>1. CASE UNCHANGED <<src, events, parts, history, manifest, applied>>
  BY <1>1 DEF DateSame
<1>2. ASSUME pc # "idle", d = day
      PROVE  /\ pc \notin {"claim_sources", "write", "manifest"}
             /\ \A s \in Sources : src[day][s] = "applied"
             /\ Recorded(day, OpsKinds) \subseteq applied /\ Recorded(day, {"posting"}) \subseteq applied
  <2>1. day \in Days /\ day = watermark + 1
    BY <1>2, RunningDay
  <2>2. \A s \in Sources : src[day][s] = "applied"
    BY <1>2, <2>1 DEF Replay, SourcesOK
  <2>3. src[day]["crm"] = "applied" /\ src[day]["ops"] = "applied" /\ src[day]["erp"] = "applied"
    BY <2>2 DEF Sources
  <2> QED
    BY <1>2, <2>1, <2>2, <2>3 DEF Replay, SourcesOK
<1>3. CASE ClaimSource
  <2>1. d # day
    BY <1>2, <1>3 DEF ClaimSource
  <2>2. src'[d] = src[d]
    BY <1>3, <2>1 DEF ClaimSource, Inv, Shape, TypeOK
  <2> QED
    BY <1>3, <2>2 DEF ClaimSource, DateSame, crm, sourceDbs
<1>4. CASE RecordEvent
  <2>1. /\ UNCHANGED <<src, parts, history, manifest, applied>> /\ pc = "record" /\ group \in Groups
    BY <1>4 DEF RecordEvent, crm, sourceDbs, Inv, Shape, TypeOK
  <2>2. PICK e \in todo : events' = events \cup {e}
    BY <1>4 DEF RecordEvent
  <2>3. e.day = day
    BY DEF Inv, ProcessOK
  <2>4. d = day => e \in events
    <3>1. ASSUME d = day PROVE e \in events
      <4>1. src[day][SourceOf(group)] = "applied"
        BY <1>2, <2>1, <3>1 DEF SourceOf, Sources
      <4>2. day = watermark + 1
        BY <2>1, RunningDay
      <4> QED
        BY <3>1, <4>1, <4>2 DEF Replay, TodoOK, Evidence
    <3> QED
      BY <3>1
  <2>5. {f \in events' : f.day = d} = {f \in events : f.day = d}
    BY <2>2, <2>3, <2>4
  <2> QED
    BY <2>1, <2>5 DEF DateSame
<1>5. ASSUME NEW o \in Objects, WritePartition(o) PROVE DateSame(d)
  <2>1. d # day /\ parts' = parts \cup {<<day, o>>}
    BY <1>2, <1>5 DEF WritePartition
  <2>2. {p \in parts' : p[1] = d} = {p \in parts : p[1] = d}
    BY <2>1
  <2> QED
    BY <1>5, <2>2 DEF WritePartition, DateSame, control, sourceDbs
<1>6. CASE WriteHistory
  <2>1. d # day
    BY <1>2, <1>6 DEF WriteHistory
  <2>2. history'[d] = history[d]
    BY <1>6, <2>1 DEF WriteHistory, Inv, Shape, TypeOK
  <2> QED
    BY <1>6, <2>2 DEF WriteHistory, DateSame, control, sourceDbs
<1>7. CASE WriteManifest
  <2>1. d # day
    BY <1>2, <1>7 DEF WriteManifest
  <2>2. manifest'[d] = manifest[d]
    BY <1>7, <2>1 DEF WriteManifest, Inv, Shape, TypeOK
  <2> QED
    BY <1>7, <2>2 DEF WriteManifest, DateSame, control, sourceDbs
<1>8. CASE Apply
  <2>1. UNCHANGED <<src, events, parts, history, manifest>> /\ pc = "apply"
    BY <1>8 DEF Apply, control, crm
  <2>2. applied' = applied \cup Batch /\ \A e \in Batch : e.day = day
    BY <1>8 DEF Apply, Batch, Recorded
  <2>3. d = day => Batch = {}
    <3>1. \A e \in Batch : e \in Recorded(day, OpsKinds) \/ e \in Recorded(day, {"posting"})
      BY DEF Batch, Recorded, OpsKinds
    <3> QED
      BY <1>2, <2>1, <3>1 DEF Batch
  <2>4. {e \in applied' : e.day = d} = {e \in applied : e.day = d}
    BY <2>2, <2>3
  <2> QED
    BY <2>1, <2>4 DEF DateSame
<1>9. CASE MarkApplied
  <2>1. UNCHANGED <<events, parts, history, manifest, applied>> /\ pc = "mark"
    BY <1>9 DEF MarkApplied, crm, sourceDbs
  <2>2. src \in [Days -> [Sources -> {"none", "pending", "applied"}]] /\ SourceOf(group) \in Sources
    BY DEF Inv, Shape, TypeOK, SourceOf, Sources
  <2>3. src' = [src EXCEPT ![day][SourceOf(group)] = "applied"]
    BY <1>9 DEF MarkApplied
  <2>4. src'[d] = src[d]
    BY <1>2, <2>1, <2>2, <2>3
  <2> QED
    BY <2>1, <2>4 DEF DateSame
<1> QED
  BY <1>1, <1>3, <1>4, <1>5, <1>6, <1>7, <1>8, <1>9
     DEF Next, RunnerStep, Tick, RunThrough, Claim, PlanGroup, RecordingDone, Publish, Reconcile,
         Complete, Advance, Raise, Interrupt, control, crm, sourceDbs

(* A completed date that is run once more, after complete_run was cut off  *)
(* before the watermark, plans, publishes and applies nothing.             *)
THEOREM CompletedStays == Spec => CompletedUnchanged
<1> DEFINE Unchanged ==
        \A d \in Days : run[d] = "completed" =>
            /\ Recorded(d, Kinds)' = Recorded(d, Kinds)
            /\ {e \in applied' : e.day = d} = {e \in applied : e.day = d}
            /\ {p \in parts' : p[1] = d} = {p \in parts : p[1] = d}
            /\ history'[d] = history[d] /\ manifest'[d] = manifest[d]
            /\ src'[d] = src[d]
<1>1. Inv /\ Replay /\ [Next]_vars => [Unchanged]_vars
  <2>1. ASSUME Inv, Replay, Next PROVE Unchanged
    <3>1. \A d \in Days : run[d] = "completed" => DateSame(d)
      BY <2>1, CompletedSame
    <3>2. \A d \in Days : DateSame(d) => Recorded(d, Kinds)' = Recorded(d, Kinds)
      BY DEF DateSame, Recorded
    <3> QED
      BY <3>1, <3>2 DEF DateSame
  <2> QED
    BY <2>1
<1> QED
  BY <1>1, ReplayInvariance, PTL DEF Spec, CompletedUnchanged

----------------------------------------------------------------------------
(* As long as no record_events was cut off.                                *)

NoCut == "record" \notin interrupts.cut

(* A plan numbers the rows it adds to one table on from the next free one. *)
LEMMA PlannedIds ==
    ASSUME Shape, NEW d \in Days, NEW S \in SUBSET Items, NEW k \in Numbered \cap Kinds
    PROVE  /\ \A e \in Planned(d, S) : Kind[e.item] = k => e.id >= NextId(k)
           /\ \A e, f \in Planned(d, S) :
                 Kind[e.item] = k /\ Kind[f.item] = k /\ e.id = f.id => e = f
<1> DEFINE below(i) == {j \in S : Kind[j] = Kind[i] /\ j < i}
<1>1. NextId(k) \in Nat
  BY NextIdFree
<1>2. \A i \in S : IsFiniteSet(below(i)) /\ Cardinality(below(i)) \in Nat
  <2>1. \A i \in S : below(i) \in SUBSET Items
    OBVIOUS
  <2> HIDE DEF below
  <2> QED
    BY <2>1, ItemsAssumption, FS_Subset, FS_CardinalityType
<1>3. \A e \in Planned(d, S) : /\ e.item \in S
                               /\ Kind[e.item] = k => e.id = NextId(k) + Cardinality(below(e.item))
  <2> DEFINE num(i) == IF Kind[i] \in Numbered THEN NextId(Kind[i]) + Cardinality(below(i)) ELSE i
  <2>1. Planned(d, S) = {[day |-> d, item |-> i, id |-> num(i)] : i \in S}
    BY DEF Planned
  <2>2. \A i \in S : Kind[i] = k => num(i) = NextId(k) + Cardinality(below(i))
    OBVIOUS
  <2> HIDE DEF num
  <2> QED
    BY <2>1, <2>2
<1>4. ASSUME NEW i \in S, NEW j \in S, Kind[i] = Kind[j], i < j
      PROVE  Cardinality(below(i)) < Cardinality(below(j))
  <2>1. i \in Nat /\ j \in Nat /\ \A m \in S : m \in Nat
    BY ItemsAssumption
  <2>2. below(i) \subseteq below(j) /\ i \in below(j) /\ i \notin below(i)
    <3>1. \A m \in S : m < i => m < j
      BY <1>4, <2>1
    <3>2. ~(i < i)
      BY <2>1
    <3> QED
      BY <1>4, <3>1, <3>2
  <2> HIDE DEF below
  <2>3. Cardinality(below(i)) <= Cardinality(below(j)) /\ Cardinality(below(i)) # Cardinality(below(j))
    BY <1>2, <2>2, FS_Subset
  <2> QED
    BY <1>2, <2>3
<1> HIDE DEF below
<1>5. \A e \in Planned(d, S) : Kind[e.item] = k => e.id >= NextId(k)
  BY <1>1, <1>2, <1>3
<1>6. ASSUME NEW e \in Planned(d, S), NEW f \in Planned(d, S),
             Kind[e.item] = k, Kind[f.item] = k, e.id = f.id
      PROVE  e = f
  <2>1. Cardinality(below(e.item)) = Cardinality(below(f.item))
    BY <1>1, <1>2, <1>3, <1>6
  <2>2. e.item \in Nat /\ f.item \in Nat /\ e.item \in S /\ f.item \in S
    BY <1>3, ItemsAssumption
  <2>3. ~(e.item < f.item)
    <3>1. ASSUME e.item < f.item PROVE FALSE
      <4>1. Cardinality(below(e.item)) < Cardinality(below(f.item))
        BY <1>4, <1>6, <2>2, <3>1
      <4> QED
        BY <1>2, <2>1, <2>2, <4>1
    <3> QED
      BY <3>1
  <2>4. ~(f.item < e.item)
    <3>1. ASSUME f.item < e.item PROVE FALSE
      <4>1. Cardinality(below(f.item)) < Cardinality(below(e.item))
        BY <1>4, <1>6, <2>2, <3>1
      <4> QED
        BY <1>2, <2>1, <2>2, <4>1
    <3> QED
      BY <3>1
  <2>5. e.item = f.item
    BY <2>2, <2>3, <2>4
  <2> QED
    BY <2>5, PlannedEvents
<1> QED
  BY <1>5, <1>6

LEMMA InitUncut == Init => Uncut
<1> SUFFICES ASSUME Init PROVE Uncut
  OBVIOUS
<1>1. ClaimedOK
  BY DEF Init, ClaimedOK
<1>2. WholeOK
  BY DEF Init, WholeOK, Recorded, Sources
<1>3. CasesOK
  BY DEF Init, CasesOK, WaitingCases
<1>4. PostedInTime
  BY DEF Init, PostedInTime
<1> QED
  BY <1>1, <1>2, <1>3, <1>4 DEF Uncut

(* The event is claimed for the source of its own group.                   *)
LEMMA GroupsDisjoint ==
    ASSUME NEW g \in Groups, NEW h \in Groups, NEW k \in KindsOf(g), k \in KindsOf(h)
    PROVE  g = h
BY KindsFacts DEF Groups, Objects, Fulfilling

LEMMA StepClaimed ==
    ASSUME Inv, Uncut, Next PROVE ClaimedOK'
<1>1. ClaimedOK /\ \A g \in Groups : SourceOf(g) \in Sources
  BY DEF Uncut, SourceOf, Sources, Groups
<1>2. src \in [Days -> [Sources -> {"none", "pending", "applied"}]] /\ events \subseteq Event
  BY DEF Inv, Shape, TypeOK
<1>3. CASE UNCHANGED <<src, events>>
  BY <1>1, <1>3 DEF ClaimedOK
<1>4. ASSUME NEW s, NEW v \in {"pending", "applied"}, src' = [src EXCEPT ![day][s] = v], events' = events
      PROVE  ClaimedOK'
  <2>1. \A d \in Days : \A t \in Sources : src'[d][t] = src[d][t] \/ src'[d][t] = v
    BY <1>2, <1>4
  <2>2. \A e \in events : e.day \in Days
    BY <1>2 DEF Event
  <2> QED
    BY <1>1, <1>4, <2>1, <2>2 DEF ClaimedOK
<1>5. CASE ClaimSource
  BY <1>4, <1>5 DEF ClaimSource
<1>6. CASE MarkApplied
  BY <1>4, <1>6 DEF MarkApplied
<1>7. CASE RecordEvent
  <2>1. PICK e \in todo : events' = events \cup {e}
    BY <1>7 DEF RecordEvent
  <2>2. src' = src /\ src[day][SourceOf(group)] # "none"
    BY <1>7 DEF RecordEvent
  <2>3. e.day = day /\ Kind[e.item] \in KindsOf(group) /\ group \in Groups
    BY DEF Inv, ProcessOK, Shape, TypeOK
  <2>4. \A g \in Groups : Kind[e.item] \in KindsOf(g) => src[e.day][SourceOf(g)] # "none"
    BY <2>2, <2>3, GroupsDisjoint
  <2> QED
    BY <1>1, <2>1, <2>2, <2>4 DEF ClaimedOK
<1> QED
  BY <1>3, <1>5, <1>6, <1>7
     DEF Next, RunnerStep, Tick, RunThrough, Claim, PlanGroup, RecordingDone, Publish, WritePartition,
         WriteHistory, WriteManifest, Apply, Reconcile, Complete, Advance, Raise, Interrupt,
         control, crm, sourceDbs

(* Every invoice that fell due in time is posted.                          *)
AllPosted ==
    \A i \in Items : \A e \in events :
        LET due == e.day + Delay[i]
        IN  (/\ Kind[i] = "posting" /\ e.item = Parent[i]
             /\ due + (IF due \in BreachDays THEN 1 ELSE 0) <= watermark)
            => i \in RowItems("posting")

LEMMA PostedMeansAll == NoCut => (PostedInTime <=> AllPosted)
BY DEF NoCut, PostedInTime, AllPosted

LEMMA AllPostedKept ==
    ASSUME AllPosted, UNCHANGED <<watermark, events>>, rows \subseteq rows'
    PROVE  AllPosted'
BY RowItemsGrow DEF AllPosted

LEMMA QuietUncut ==
    ASSUME Inv, WholeOK, CasesOK, UNCHANGED <<watermark, events, applied, rows>>,
           \A d \in Days : d = watermark + 1 /\ src'[d]["erp"] = "applied" => src[d]["erp"] = "applied",
           \/ todo = {} /\ todo' = {} /\ pc' # "record"
           \/ UNCHANGED <<todo, pc, group>>
    PROVE  WholeOK' /\ CasesOK'
<1>1. ItemsOf({}) = {} /\ ItemsOf(todo)' = ItemsOf(todo')
  BY DEF ItemsOf
<1>2. WholeOK'
  <2>1. CASE UNCHANGED <<todo, pc, group>>
    BY <1>1, <2>1, PlansSame DEF WholeOK
  <2>2. CASE todo = {} /\ todo' = {} /\ pc' # "record"
    <3>1. \A d \in Days : d = watermark + 1 =>
             /\ Recorded(d, {"case"}) # {} => PlanSupport(d) = {}
             /\ Recorded(d, {"posting"}) # {} => PlanPostings(d) \subseteq ItemsOf(Recorded(d, {"posting"}))
             /\ src[d]["erp"] = "applied" => PlanPostings(d) = {}
      BY <1>1, <2>2 DEF WholeOK
    <3> QED
      BY <1>1, <2>2, <3>1, PlansSame DEF WholeOK
  <2> QED
    BY <2>1, <2>2
<1>3. CasesOK'
  <2>1. WaitingCases' \subseteq WaitingCases
    BY DEF WaitingCases
  <2>2. NextId("case")' = NextId("case")
    BY DEF NextId
  <2> QED
    BY <2>1, <2>2 DEF CasesOK, Row
<1> QED
  BY <1>2, <1>3

(* A refused record_events has recorded nothing of its group.              *)
LEMMA UnwindUncut ==
    ASSUME Inv, WholeOK, CasesOK, UNCHANGED <<watermark, src, events, applied, rows>>, Unwind,
           todo # {} => Recorded(day, KindsOf(group)) = {}
    PROVE  WholeOK' /\ CasesOK'
<1>1. pc' = "idle" /\ todo' = {} /\ group' = "crm"
  BY DEF Unwind
<1>2. CASE todo = {}
  BY <1>1, <1>2, QuietUncut
<1>3. CASE todo # {}
  <2>1. pc = "record"
    BY <1>3 DEF Inv, ProcessOK
  <2>2. group \in Groups /\ Recorded(day, KindsOf(group)) = {}
    BY <1>3 DEF Inv, Shape, TypeOK
  <2>3. day = watermark + 1
    BY <2>1, RunningDay
  <2>4. ItemsOf(todo)' = {}
    BY <1>1 DEF ItemsOf
  <2>5. \A d \in Days : d = watermark + 1 =>
           /\ Recorded(d, {"case"}) # {} => PlanSupport(d) \subseteq {}
           /\ Recorded(d, {"posting"}) # {} => PlanPostings(d) \subseteq ItemsOf(Recorded(d, {"posting"}))
           /\ src[d]["erp"] = "applied" => PlanPostings(d) = {}
    BY <2>2, <2>3, KindsFacts DEF WholeOK
  <2>6. WholeOK'
    BY <1>1, <2>4, <2>5, PlansSame DEF WholeOK
  <2>7. CasesOK'
    <3>1. WaitingCases' \subseteq WaitingCases
      BY <1>1 DEF WaitingCases
    <3>2. NextId("case")' = NextId("case")
      BY <1>1 DEF NextId
    <3> QED
      BY <1>1, <3>1, <3>2 DEF CasesOK, Row
  <2> QED
    BY <2>6, <2>7
<1> QED
  BY <1>2, <1>3

LEMMA RaiseUncut ==
    ASSUME Inv, WholeOK, CasesOK, ClaimedOK, Raise
    PROVE  WholeOK' /\ CasesOK'
<1>1. UNCHANGED <<watermark, src, events, applied, rows>> /\ Refused /\ Unwind
  BY DEF Raise, control, sourceDbs
<1>2. todo # {} => pc = "record" /\ src[day][SourceOf(group)] = "none"
  BY <1>1 DEF Refused, Inv, ProcessOK
<1>3. todo # {} => Recorded(day, KindsOf(group)) = {}
  BY <1>2 DEF ClaimedOK, Recorded, Inv, Shape, TypeOK
<1> QED
  BY <1>1, <1>3, UnwindUncut

(* Cases that wait for their transaction are cases of the current date.    *)
LEMMA WaitingToday ==
    ASSUME Inv, NEW e \in events, Kind[e.item] = "case", e \notin applied
    PROVE  e \in Recorded(watermark + 1, {"case"})
<1>1. e.day = watermark + 1
  BY EarlierApplied DEF Objects
<1> QED
  BY <1>1 DEF Recorded

LEMMA PlanGroupUncut ==
    ASSUME Inv, WholeOK, CasesOK, PlanGroup
    PROVE  WholeOK' /\ CasesOK'
<1>1. /\ UNCHANGED <<watermark, src, events, applied, rows, group, day>>
      /\ pc = "plan" /\ pc' = "record" /\ todo = {} /\ todo' = Plan(group, day)
  BY DEF PlanGroup, control, sourceDbs, Inv, ProcessOK
<1>2. /\ day \in Days /\ day = watermark + 1 /\ group \in Groups /\ Shape
      /\ \A d \in Days : d = watermark + 1 => d = day
  BY <1>1, RunningDay DEF Inv, Shape, TypeOK
<1>3. /\ PlanSupport(day) \in SUBSET Items /\ PlanPostings(day) \in SUBSET Items
  BY DEF PlanSupport, PlanPostings
<1>4. ItemsOf(todo) = {} /\ ItemsOf(todo)' = ItemsOf(todo')
  BY <1>1 DEF ItemsOf
<1>5. /\ Recorded(day, {"case"}) # {} => PlanSupport(day) = {}
      /\ Recorded(day, {"posting"}) # {} => PlanPostings(day) \subseteq ItemsOf(Recorded(day, {"posting"}))
      /\ src[day]["erp"] = "applied" => PlanPostings(day) = {}
  BY <1>2, <1>4 DEF WholeOK
<1>6. WholeOK'
  <2>1. group = "posting" /\ Recorded(day, {"posting"}) = {} => PlanPostings(day) \subseteq ItemsOf(todo')
    <3>1. group = "posting" /\ Recorded(day, {"posting"}) = {} => todo' = Planned(day, PlanPostings(day))
      BY <1>1 DEF Plan
    <3> QED
      BY <1>2, <1>3, <3>1, PlannedEvents
  <2> QED
    BY <1>1, <1>2, <1>4, <1>5, <2>1, PlansSame DEF WholeOK
<1>7. CasesOK'
  <2>1. NextId("case")' = NextId("case")
    BY <1>1 DEF NextId
  <2>2. CASE \A e \in todo' : Kind[e.item] # "case"
    <3>1. WaitingCases' \subseteq WaitingCases
      BY <1>1, <2>2 DEF WaitingCases
    <3> QED
      BY <1>1, <2>1, <3>1 DEF CasesOK, Row
  <2>3. CASE \E e \in todo' : Kind[e.item] = "case"
    <3>1. PICK e \in todo' : Kind[e.item] = "case"
      BY <2>3
    <3>2. group = "support"
      <4>1. Kind[e.item] \in KindsOf(group)
        BY <1>1, <1>2, PlanIsPlanned, PlannedEvents
      <4> QED
        BY <1>2, <3>1, <4>1, KindsFacts DEF Groups, Objects, Fulfilling
    <3>3. todo' = Planned(day, PlanSupport(day))
      BY <1>1, <3>2 DEF Plan
    <3>4. PlanSupport(day) # {}
      BY <1>2, <1>3, <3>3, PlannedEvents
    <3>5. Recorded(day, {"case"}) = {}
      BY <1>5, <3>4
    <3>6. WaitingCases' \subseteq todo' /\ \A f \in WaitingCases' : Kind[f.item] = "case"
      BY <1>1, <1>2, <3>5, WaitingToday DEF WaitingCases
    <3>7. "case" \in Numbered \cap Kinds
      BY DEF Numbered, Kinds, OpsKinds, FollowUps
    <3>8. /\ \A f \in WaitingCases' : f.id >= NextId("case")
          /\ \A f, h \in WaitingCases' : f.id = h.id => f = h
      BY <1>2, <1>3, <3>3, <3>6, <3>7, PlannedIds
    <3> QED
      BY <1>1, <2>1, <3>8 DEF CasesOK, Row
  <2> QED
    BY <2>2, <2>3
<1> QED
  BY <1>6, <1>7

LEMMA RecordEventUncut ==
    ASSUME Inv, Replay, WholeOK, CasesOK, RecordEvent
    PROVE  WholeOK' /\ CasesOK'
<1>1. /\ UNCHANGED <<watermark, src, applied, rows, pc, group, day>> /\ pc = "record"
  BY DEF RecordEvent, crm, sourceDbs
<1>2. /\ day \in Days /\ day = watermark + 1 /\ group \in Groups
      /\ \A d \in Days : d = watermark + 1 => d = day
  BY <1>1, RunningDay DEF Inv, Shape, TypeOK
<1>3. PICK e \in todo : events' = events \cup {e} /\ todo' = todo \ {e}
  BY DEF RecordEvent
<1>4. e.day = day /\ Kind[e.item] \in KindsOf(group) /\ events \subseteq events'
  BY <1>3 DEF Inv, ProcessOK
<1>5. /\ \A k : RowItems(k)' = RowItems(k)
      /\ ItemsOf(todo)' = ItemsOf(todo') /\ ItemsOf(todo) \subseteq ItemsOf(todo') \cup {e.item}
  BY <1>1, <1>3 DEF RowItems, ItemsOf
<1>6. Evidence(group, day) => events' = events
  BY <1>2, <1>3 DEF Replay, TodoOK
<1>7. \A k : KindsOf(group) \cap k = {} => Recorded(day, k)' = Recorded(day, k)
  BY <1>1, <1>3, <1>4 DEF Recorded
<1>8. Recorded(day, {"case"})' # {} =>
          PlanSupport(day)' \subseteq IF group = "support" THEN ItemsOf(todo') ELSE {}
  <2>1. CASE group = "support"
    <3>1. TodoOK'
      BY RecordEventReplay DEF Replay
    <3> QED
      BY <1>1, <1>2, <1>5, <2>1, <3>1 DEF TodoOK
  <2>2. CASE group # "support"
    <3>1. KindsOf(group) \cap {"case"} = {}
      BY <1>2, <2>2, KindsFacts DEF Groups, Objects, Fulfilling
    <3>2. Recorded(day, {"case"})' # {} => Recorded(day, {"case"}) # {} /\ PlanSupport(day) = {}
      BY <1>2, <1>7, <2>2, <3>1 DEF WholeOK
    <3>3. CASE group # "fulfillment"
      <4>1. Kind[e.item] # "delivery"
        BY <1>2, <1>4, <3>3, KindsFacts DEF Groups, Objects
      <4>2. PlanSupport(day)' \subseteq PlanSupport(day)
        BY <1>1, <1>3, <1>4, <4>1, SupportKept
      <4> QED
        BY <3>2, <4>2
    <3>4. CASE group = "fulfillment"
      <4>1. Recorded(day, {"case"}) # {} => events' = events
        BY <1>6, <3>4, GroupFacts DEF Evidence, Recorded
      <4> QED
        BY <1>1, <3>2, <4>1, PlansSame
    <3> QED
      BY <3>3, <3>4
  <2> QED
    BY <2>1, <2>2
<1>9. /\ (Recorded(day, {"posting"})' # {} \/ group = "posting") =>
            PlanPostings(day)' \subseteq ItemsOf(Recorded(day, {"posting"}))' \cup
                                         IF group = "posting" THEN ItemsOf(todo') ELSE {}
      /\ src[day]["erp"] = "applied" => PlanPostings(day)' = {}
  <2>1. CASE group = "posting"
    <3>1. Kind[e.item] = "posting"
      BY <1>4, <2>1, KindsFacts
    <3>2. PlanPostings(day)' \subseteq PlanPostings(day)
      BY <1>1, <1>3, <1>4, <1>5, <3>1, PostingsKept
    <3>3. PlanPostings(day) \subseteq ItemsOf(Recorded(day, {"posting"})) \cup ItemsOf(todo)
      BY <1>1, <1>2, <2>1 DEF WholeOK
    <3>4. /\ ItemsOf(Recorded(day, {"posting"})) \subseteq ItemsOf(Recorded(day, {"posting"}))'
          /\ e.item \in ItemsOf(Recorded(day, {"posting"}))'
      BY <1>1, <1>3, <1>4, <3>1 DEF ItemsOf, Recorded
    <3>5. src[day]["erp"] = "applied" => PlanPostings(day) = {}
      BY <1>2 DEF WholeOK
    <3> QED
      BY <1>5, <2>1, <3>2, <3>3, <3>4, <3>5
  <2>2. CASE group # "posting"
    <3>1. KindsOf(group) \cap {"posting"} = {} /\ "posting" \in LaterKinds(group)
      BY <1>2, <2>2, KindsFacts, GroupFacts DEF Groups, Objects, Fulfilling
    <3>2. Recorded(day, {"posting"})' # {} => events' = events
      BY <1>6, <1>7, <3>1 DEF Evidence, Recorded
    <3>3. src[day]["erp"] = "applied" => events' = events
      <4>1. src[day]["erp"] = "applied" => src[day][SourceOf(group)] = "applied"
        BY <1>2, GroupFacts DEF Groups, Replay, SourcesOK
      <4> QED
        BY <1>6, <4>1 DEF Evidence
    <3>4. events' = events =>
            /\ Recorded(day, {"posting"}) # {} => PlanPostings(day) \subseteq ItemsOf(Recorded(day, {"posting"}))
            /\ src[day]["erp"] = "applied" => PlanPostings(day) = {}
      BY <1>2, <2>2 DEF WholeOK
    <3>5. events' = events => /\ PlanPostings(day)' = PlanPostings(day)
                              /\ Recorded(day, {"posting"})' = Recorded(day, {"posting"})
                              /\ ItemsOf(Recorded(day, {"posting"}))' = ItemsOf(Recorded(day, {"posting"}))
      BY <1>1, PlansSame DEF Recorded, ItemsOf
    <3> QED
      BY <2>2, <3>2, <3>3, <3>4, <3>5
  <2> QED
    BY <2>1, <2>2
<1>10. WholeOK'
  BY <1>1, <1>2, <1>5, <1>8, <1>9 DEF WholeOK
<1>11. CasesOK'
  <2>1. WaitingCases' \subseteq WaitingCases
    BY <1>1, <1>3 DEF WaitingCases
  <2>2. NextId("case")' = NextId("case")
    BY <1>1 DEF NextId
  <2> QED
    BY <1>1, <2>1, <2>2 DEF CasesOK, Row
<1> QED
  BY <1>10, <1>11

LEMMA RecordEventPosted ==
    ASSUME Inv, AllPosted, RecordEvent PROVE AllPosted'
<1>1. PICK e \in todo : events' = events \cup {e}
  BY DEF RecordEvent
<1>2. UNCHANGED <<watermark, rows>> /\ pc = "record"
  BY DEF RecordEvent, sourceDbs
<1>3. e.day = watermark + 1 /\ watermark \in Nat
  BY <1>2, RunningDay DEF Inv, ProcessOK, Shape, TypeOK
<1>4. \A i \in Items : \A h \in {0, 1} : ~(e.day + Delay[i] + h <= watermark)
  BY <1>3, ItemsAssumption
<1>5. \A i \in Items : ~(e.day + Delay[i] + (IF e.day + Delay[i] \in BreachDays THEN 1 ELSE 0) <= watermark)
  BY <1>4
<1>6. RowItems("posting")' = RowItems("posting")
  BY <1>2 DEF RowItems
<1> QED
  BY <1>1, <1>2, <1>5, <1>6 DEF AllPosted

(* The transaction of the follow-ups inserts every case that waits: the    *)
(* keys the plan chose are still free.                                     *)
LEMMA CasesInserted ==
    ASSUME Inv, CasesOK, Apply, NEW e \in Batch, Kind[e.item] = "case"
    PROVE  Row(e) \in rows'
<1>1. PICK new \in SUBSET {Row(f) : f \in Batch} :
          /\ \A f \in Batch : Row(f) \in new \/ Taken(Row(f), rows \cup new)
          /\ rows' = rows \cup new
  BY ApplyAdds
<1>2. \A f \in Batch : Kind[f.item] = "case" => f \in WaitingCases
  BY DEF Batch, Recorded, WaitingCases
<1>3. /\ NextId("case") \in Nat /\ \A r \in rows : r.kind = "case" => r.id < NextId("case")
      /\ e.id \in Nat /\ e.id >= NextId("case")
  <2>1. "case" \in Kinds /\ Shape
    BY DEF Kinds, OpsKinds, FollowUps, Inv
  <2>2. e.id \in Nat
    <3>1. e \in Event
      BY DEF Batch, Recorded, Inv, Shape, TypeOK
    <3> QED
      BY <3>1 DEF Event
  <2> QED
    BY <1>2, <2>1, <2>2, NextIdFree DEF CasesOK
<1>4. /\ Row(e).kind = "case" /\ Row(e).id = e.id /\ Row(e).item = e.item
      /\ \A f : Row(f).kind = Kind[f.item] /\ Row(f).id = f.id /\ Row(f).item = f.item
  BY DEF Row
<1>5. ASSUME NEW s \in rows \cup new, s.kind = "case", s.id = e.id, s.item # e.item PROVE FALSE
  <2>1. CASE s \in rows
    <3>1. s.id < NextId("case") /\ s.id \in Nat
      BY <1>3, <1>5, <2>1 DEF Inv, Shape
    <3> QED
      BY <1>3, <1>5, <3>1
  <2>2. CASE s \in new
    <3>1. PICK f \in Batch : s = Row(f)
      BY <1>1, <2>2
    <3>2. Kind[f.item] = "case" /\ f.id = e.id /\ f.item # e.item
      BY <1>4, <1>5, <3>1
    <3>3. f \in WaitingCases /\ e \in WaitingCases
      BY <1>2, <3>2
    <3> QED
      BY <3>2, <3>3 DEF CasesOK
  <2> QED
    BY <2>1, <2>2
<1>6. ~Taken(Row(e), rows \cup new)
  BY <1>4, <1>5 DEF Taken
<1> QED
  BY <1>1, <1>6

LEMMA ApplyUncut ==
    ASSUME Inv, Replay, WholeOK, CasesOK, Apply
    PROVE  WholeOK' /\ CasesOK'
<1>1. /\ UNCHANGED <<watermark, src, events, day, todo>> /\ pc = "apply" /\ todo = {}
      /\ group \in {"order", "support", "posting"} /\ pc' # "record"
      /\ (group = "order" /\ group' = "fulfillment") \/ (group # "order" /\ group' = group)
  BY DEF Apply, control, crm, Inv, ProcessOK
<1>2. day \in Days /\ day = watermark + 1 /\ \A d \in Days : d = watermark + 1 => d = day
  BY <1>1, RunningDay
<1>3. /\ Batch \subseteq events /\ applied' = applied \cup Batch /\ rows \subseteq rows'
      /\ group = "order" => Batch = Recorded(day, {"order"}) \ applied
      /\ group = "support" => Batch = Recorded(day, FollowUps) \ applied
      /\ group = "posting" => Batch = Recorded(day, {"posting"}) \ applied
  BY ApplyAdds, ApplyRows DEF Batch
<1>4. /\ ItemsOf(todo) = {} /\ ItemsOf(todo)' = {}
      /\ \A k : Recorded(day, k)' = Recorded(day, k)
      /\ \A k : ItemsOf(Recorded(day, k))' = ItemsOf(Recorded(day, k))
  BY <1>1 DEF ItemsOf, Recorded
<1>5. /\ Recorded(day, {"case"}) # {} => PlanSupport(day) = {}
      /\ Recorded(day, {"posting"}) # {} => PlanPostings(day) \subseteq ItemsOf(Recorded(day, {"posting"}))
      /\ src[day]["erp"] = "applied" => PlanPostings(day) = {}
  BY <1>2, <1>4 DEF WholeOK
<1>6. group # "support" => \A k \in FollowUps : {r \in rows' : r.kind = k} = {r \in rows : r.kind = k}
  <2>1. group # "support" => \A e \in Batch : Kind[e.item] \notin FollowUps
    BY <1>1, <1>3 DEF Recorded, FollowUps
  <2> QED
    BY <2>1, ApplyRows
<1>7. PlanSupport(day)' = PlanSupport(day)
  BY <1>1 DEF PlanSupport, Due, ItemsOf
<1>8. ASSUME Recorded(day, {"posting"}) # {} \/ src[day]["erp"] = "applied"
      PROVE  PlanPostings(day)' \subseteq PlanPostings(day)
  <2>1. RowItems("invoice")' = RowItems("invoice")
    <3>1. CASE group # "support"
      BY <1>6, <3>1 DEF RowItems, FollowUps
    <3>2. CASE group = "support"
      <4>1. Recorded(day, OpsKinds) \subseteq applied
        BY <1>2, <1>8 DEF Replay, SourcesOK
      <4>2. Batch = {}
        BY <1>3, <3>2, <4>1 DEF Recorded, OpsKinds
      <4>3. rows' = rows
        BY <1>3, <4>2, ApplyRows
      <4> QED
        BY <4>3 DEF RowItems
    <3> QED
      BY <3>1, <3>2
  <2> QED
    BY <1>1, <1>3, <2>1, PostingsKept
<1>9. WholeOK'
  BY <1>1, <1>2, <1>4, <1>5, <1>7, <1>8 DEF WholeOK
<1>10. \A e \in applied' : Kind[e.item] = "case" => Row(e) \in rows'
  BY <1>3, CasesInserted DEF CasesOK
<1>11. CASE group = "support"
  <2>1. WaitingCases' = {}
    <3>1. ASSUME NEW e \in WaitingCases' PROVE FALSE
      <4>1. e \in events /\ Kind[e.item] = "case" /\ e \notin applied /\ e \notin Batch
        BY <1>1, <1>3 DEF WaitingCases
      <4>2. e \in Recorded(day, {"case"})
        BY <1>2, <4>1, WaitingToday
      <4> QED
        BY <1>3, <1>11, <4>1, <4>2 DEF Recorded, FollowUps
    <3> QED
      BY <3>1
  <2> QED
    BY <1>9, <1>10, <2>1 DEF CasesOK, Row
<1>12. CASE group # "support"
  <2>1. WaitingCases' \subseteq WaitingCases
    BY <1>1, <1>3 DEF WaitingCases
  <2>2. NextId("case")' = NextId("case")
    <3>1. {r.id : r \in {s \in rows' : s.kind = "case"}} = {r.id : r \in {s \in rows : s.kind = "case"}}
      BY <1>6, <1>12 DEF FollowUps
    <3> DEFINE top(used) == IF used = {} THEN 1 ELSE 1 + CHOOSE n \in used : \A m \in used : m <= n
    <3>2. /\ NextId("case")' = top({r.id : r \in {s \in rows' : s.kind = "case"}})
          /\ NextId("case") = top({r.id : r \in {s \in rows : s.kind = "case"}})
      BY DEF NextId
    <3> HIDE DEF top
    <3> QED
      BY <3>1, <3>2
  <2> QED
    BY <1>9, <1>10, <2>1, <2>2 DEF CasesOK, Row
<1> QED
  BY <1>11, <1>12

LEMMA MarkAppliedUncut ==
    ASSUME Inv, Replay, WholeOK, CasesOK, MarkApplied
    PROVE  WholeOK' /\ CasesOK'
<1>1. /\ UNCHANGED <<watermark, events, applied, rows, day, todo>> /\ pc = "mark" /\ todo = {}
      /\ pc' # "record" /\ group \in {"crm", "support", "posting"}
      /\ src' = [src EXCEPT ![day][SourceOf(group)] = "applied"]
  BY DEF MarkApplied, sourceDbs, Inv, ProcessOK
<1>2. /\ day \in Days /\ day = watermark + 1
      /\ \A d \in Days : d = watermark + 1 => d = day
      /\ src \in [Days -> [Sources -> {"none", "pending", "applied"}]]
  BY <1>1, RunningDay DEF Inv, Shape, TypeOK
<1>3. CASE group # "posting"
  <2>1. SourceOf(group) # "erp" /\ SourceOf(group) \in Sources /\ "erp" \in Sources
    BY <1>1, <1>3, GroupFacts DEF Sources
  <2>2. src'[day]["erp"] = src[day]["erp"]
    BY <1>1, <1>2, <2>1
  <2> QED
    BY <1>1, <1>2, <2>2, QuietUncut
<1>4. CASE group = "posting"
  <2>1. PlanPostings(day) = {}
    <3>1. Recorded(day, {"posting"}) # {} \/ PlanPostings(day) = {}
      <4>1. Behind("posting") /\ "posting" \in Groups
        BY <1>1, <1>4 DEF Behind, Groups
      <4> QED
        BY <1>2, <4>1 DEF Replay, SettledOK, Settled
    <3>2. ASSUME NEW i \in PlanPostings(day), Recorded(day, {"posting"}) # {} PROVE FALSE
      <4>1. i \in ItemsOf(Recorded(day, {"posting"})) \cup ItemsOf(todo)
        BY <1>2, <3>2, <1>4 DEF WholeOK
      <4>2. PICK e \in Recorded(day, {"posting"}) : e.item = i
        BY <1>1, <4>1 DEF ItemsOf
      <4>3. e \in applied /\ Kind[e.item] = "posting"
        BY <1>1, <1>2, <1>4 DEF Replay, SourcesOK, Recorded
      <4>4. i \in RowItems("posting")
        BY <4>2, <4>3, AppliedHasRow DEF Replay
      <4> QED
        BY <3>2, <4>4 DEF PlanPostings
    <3> QED
      BY <3>1, <3>2
  <2>2. /\ Recorded(day, {"case"}) # {} => PlanSupport(day) = {}
    BY <1>1, <1>2, <1>4 DEF WholeOK
  <2>3. WholeOK'
    BY <1>1, <1>2, <2>1, <2>2, PlansSame DEF WholeOK
  <2>4. WaitingCases' \subseteq WaitingCases
    BY <1>1 DEF WaitingCases
  <2>5. NextId("case")' = NextId("case")
    BY <1>1 DEF NextId
  <2>6. CasesOK'
    BY <1>1, <2>4, <2>5 DEF CasesOK, Row
  <2> QED
    BY <2>3, <2>6
<1> QED
  BY <1>3, <1>4

LEMMA AdvanceUncut ==
    ASSUME Inv, Replay, WholeOK, CasesOK, AllPosted, Advance
    PROVE  WholeOK' /\ CasesOK' /\ AllPosted'
<1>1. /\ UNCHANGED <<src, events, applied, rows>> /\ pc = "advance" /\ todo = {} /\ todo' = {}
      /\ pc' \in {"claim", "idle"} /\ watermark' = day
  BY DEF Advance, StartDay, Unwind, sourceDbs, Inv, ProcessOK
<1>2. day \in Days /\ day = watermark + 1 /\ watermark \in Nat /\ day \in Nat
  BY <1>1, RunningDay DEF Inv, Shape, TypeOK, Days
<1>3. WholeOK'
  <2>1. ASSUME NEW d \in Days, d = watermark' + 1
        PROVE  src'[d]["erp"] # "applied" /\ \A k : Recorded(d, k)' = {}
    <3>1. d > watermark + 1
      BY <1>1, <1>2, <2>1
    <3>2. Recorded(d, Kinds) = {} /\ src[d]["erp"] = "none"
      BY <3>1 DEF Inv, ControlOK, WatermarkSound, Sources
    <3>3. \A e \in events : Kind[e.item] \in Kinds
      BY ItemsAssumption DEF Inv, Shape, TypeOK, Event
    <3> QED
      BY <1>1, <3>2, <3>3 DEF Recorded
  <2> QED
    BY <1>1, <2>1 DEF WholeOK
<1>4. CasesOK'
  <2>1. WaitingCases' \subseteq WaitingCases
    BY <1>1 DEF WaitingCases
  <2>2. NextId("case")' = NextId("case")
    BY <1>1 DEF NextId
  <2> QED
    BY <1>1, <2>1, <2>2 DEF CasesOK, Row
<1>5. PlanPostings(day) = {} /\ Recorded(day, OpsKinds) \subseteq applied
  <2>1. src[day]["erp"] = "applied" /\ src[day]["ops"] = "applied"
    BY <1>1 DEF Inv, ControlOK, Sources
  <2> QED
    BY <1>2, <2>1 DEF WholeOK, Replay, SourcesOK
<1>6. AllPosted'
  <2> DEFINE hold(n) == IF n \in BreachDays THEN 1 ELSE 0
  <2>1. SUFFICES ASSUME NEW i \in Items, NEW e \in events, Kind[i] = "posting", e.item = Parent[i],
                        e.day + Delay[i] + hold(e.day + Delay[i]) <= day,
                        i \notin RowItems("posting")
                 PROVE  FALSE
    <3>1. RowItems("posting")' = RowItems("posting")
      BY <1>1 DEF RowItems
    <3> QED
      BY <1>1, <3>1 DEF AllPosted
  <2>2. e.day \in Nat /\ Delay[i] \in Nat
    BY ItemsAssumption DEF Inv, Shape, TypeOK, Event, Days
  <2>3. hold(e.day + Delay[i]) \in {0, 1}
    OBVIOUS
  <2>4. Kind[e.item] = "invoice"
    BY <2>1, ItemsAssumption, ParentKinds DEF Objects
  <2>5. CASE e.day + Delay[i] + hold(e.day + Delay[i]) <= watermark
    BY <2>1, <2>5 DEF AllPosted
  <2>6. CASE ~(e.day + Delay[i] + hold(e.day + Delay[i]) <= watermark)
    <3>1. e.day + Delay[i] + hold(e.day + Delay[i]) = day
      <4> HIDE DEF hold
      <4> QED
        BY <1>2, <2>1, <2>2, <2>3, <2>6
    <3>2. e.day <= day /\ e.day + Delay[i] <= day
      <4> HIDE DEF hold
      <4> QED
        BY <1>2, <2>2, <2>3, <3>1
    <3>3. Due(i, day, {})
      BY <2>1, <3>2 DEF Due
    <3>4. e \in applied
      <4>1. CASE e.day = day
        BY <1>5, <2>4, <4>1 DEF Recorded, OpsKinds, FollowUps
      <4>2. CASE e.day # day
        BY <1>2, <2>4, <4>2, EarlierApplied DEF Objects
      <4> QED
        BY <4>1, <4>2
    <3>5. Parent[i] \in RowItems("invoice")
      BY <2>1, <2>4, <3>4, AppliedHasRow DEF Replay
    <3>6. ~(day \in BreachDays /\ DueToday(i, day))
      <4>1. SUFFICES ASSUME day \in BreachDays, DueToday(i, day) PROVE FALSE
        OBVIOUS
      <4>2. PICK f \in events : f.item = Parent[i] /\ f.day + Delay[i] = day
        BY <4>1 DEF DueToday
      <4>3. f = e
        BY <2>1, <4>2 DEF Replay, EventsOK
      <4>4. hold(e.day + Delay[i]) = 1
        BY <4>1, <4>2, <4>3
      <4> HIDE DEF hold
      <4> QED
        BY <1>2, <3>1, <4>2, <4>3, <4>4
    <3> QED
      BY <1>5, <2>1, <3>3, <3>5, <3>6 DEF PlanPostings
  <2> QED
    BY <2>5, <2>6
<1> QED
  BY <1>3, <1>4, <1>6

LEMMA OtherUncut ==
    ASSUME Inv, WholeOK, CasesOK, UNCHANGED <<watermark, events, applied, rows>>, todo = {}, todo' = {},
           pc' # "record",
           src' = src \/ (\E s : src' = [src EXCEPT ![day][s] = "pending"])
    PROVE  WholeOK' /\ CasesOK'
<1>1. src \in [Days -> [Sources -> {"none", "pending", "applied"}]] /\ "erp" \in Sources
  BY DEF Inv, Shape, TypeOK, Sources
<1>2. \A d \in Days : src'[d]["erp"] = src[d]["erp"] \/ src'[d]["erp"] = "pending"
  BY <1>1
<1> QED
  BY <1>2, QuietUncut

(* An interruption that does not count lost no event of a group of which   *)
(* others were recorded.                                                   *)
LEMMA InterruptUncut ==
    ASSUME Inv, Interrupt, NoCut' PROVE todo # {} => Recorded(day, KindsOf(group)) = {}
<1>1. todo # {} => pc = "record"
  BY DEF Inv, ProcessOK
<1>2. interrupts'.cut = interrupts.cut \cup PartCut(pc)
  BY DEF Interrupt
<1>3. "record" \notin PartCut(pc)
  BY <1>2 DEF NoCut
<1> QED
  BY <1>1, <1>3 DEF PartCut

LEMMA StepUncut == Inv /\ Replay /\ Uncut /\ [Next]_vars => Uncut'
<1> SUFFICES ASSUME Inv, Replay, Uncut, [Next]_vars PROVE Uncut'
  OBVIOUS
<1>1. NoCut' => NoCut
  <2>1. CASE UNCHANGED interrupts
    BY <2>1 DEF NoCut
  <2>2. CASE Interrupt
    BY <2>2 DEF Interrupt, NoCut
  <2> QED
    BY <2>1, <2>2
       DEF Next, RunnerStep, Tick, RunThrough, Claim, ClaimSource, PlanGroup, RecordEvent, RecordingDone,
           Publish, WritePartition, WriteHistory, WriteManifest, Apply, MarkApplied, Reconcile,
           Complete, Advance, Raise, vars
<1>2. ClaimedOK'
  <2>1. CASE Next
    BY <2>1, StepClaimed
  <2>2. CASE UNCHANGED vars
    BY <2>2 DEF vars, control, Uncut, ClaimedOK
  <2> QED
    BY <2>1, <2>2
<1>3. ASSUME NoCut' PROVE WholeOK' /\ CasesOK' /\ AllPosted'
  <2>1. WholeOK /\ CasesOK /\ AllPosted /\ ClaimedOK
    BY <1>1, <1>3, PostedMeansAll DEF Uncut, NoCut
  <2>2. CASE Raise
    <3>1. UNCHANGED <<watermark, events, rows>>
      BY <2>2 DEF Raise, control, sourceDbs
    <3> QED
      BY <2>1, <2>2, <3>1, RaiseUncut, AllPostedKept
  <2>3. CASE PlanGroup
    <3>1. UNCHANGED <<watermark, events, rows>>
      BY <2>3 DEF PlanGroup, control, sourceDbs
    <3> QED
      BY <2>1, <2>3, <3>1, PlanGroupUncut, AllPostedKept
  <2>4. CASE RecordEvent
    BY <2>1, <2>4, RecordEventUncut, RecordEventPosted
  <2>5. CASE Apply
    <3>1. UNCHANGED <<watermark, events>> /\ rows \subseteq rows'
      BY <2>5, ApplyRows DEF Apply, control
    <3> QED
      BY <2>1, <2>5, <3>1, ApplyUncut, AllPostedKept
  <2>6. CASE MarkApplied
    <3>1. UNCHANGED <<watermark, events, rows>>
      BY <2>6 DEF MarkApplied, sourceDbs
    <3> QED
      BY <2>1, <2>6, <3>1, MarkAppliedUncut, AllPostedKept
  <2>7. CASE Advance
    BY <2>1, <2>7, AdvanceUncut
  <2>8. CASE Tick \/ UNCHANGED vars
    <3>1. UNCHANGED <<watermark, src, events, applied, rows, todo, pc, group>>
      BY <2>8 DEF Tick, vars, control, sourceDbs, locals
    <3> QED
      BY <2>1, <3>1, QuietUncut, AllPostedKept
  <2>9. CASE ClaimSource
    <3>1. /\ UNCHANGED <<watermark, events, applied, rows, todo>> /\ pc = "claim_sources" /\ pc' # "record"
          /\ \E s : src' = [src EXCEPT ![day][s] = "pending"]
      BY <2>9 DEF ClaimSource, sourceDbs, locals
    <3>2. todo = {} /\ todo' = {}
      BY <3>1 DEF Inv, ProcessOK
    <3> QED
      BY <2>1, <3>1, <3>2, OtherUncut, AllPostedKept
  <2>10. CASE Interrupt
    <3>1. UNCHANGED <<watermark, src, events, applied, rows>> /\ Unwind
      BY <2>10 DEF Interrupt, control, sourceDbs
    <3>2. todo # {} => Recorded(day, KindsOf(group)) = {}
      BY <1>3, <2>10, InterruptUncut
    <3> QED
      BY <2>1, <3>1, <3>2, UnwindUncut, AllPostedKept
  <2>11. CASE RecordingDone
    <3>1. /\ UNCHANGED <<watermark, src, events, applied, rows, todo>> /\ todo = {}
          /\ pc' = AfterRecord(group) /\ group \in Groups
      BY <2>11 DEF RecordingDone, control, sourceDbs, Inv, Shape, TypeOK
    <3>2. pc' # "record"
      BY <3>1 DEF AfterRecord, Groups
    <3> QED
      BY <2>1, <3>1, <3>2, OtherUncut, AllPostedKept
  <2>12. CASE RunThrough \/ Claim \/ Publish \/ (\E o \in Objects : WritePartition(o)) \/ WriteHistory
              \/ WriteManifest \/ Reconcile \/ Complete
    <3>1. /\ UNCHANGED <<watermark, src, events, applied, rows>> /\ pc # "record" /\ pc' # "record"
          /\ todo' = todo \/ todo' = {}
      BY <2>12 DEF RunThrough, StartDay, Claim, Publish, WritePartition, WriteHistory, WriteManifest,
         Reconcile, Complete, control, sourceDbs, locals
    <3>2. todo = {} /\ todo' = {}
      BY <3>1 DEF Inv, ProcessOK
    <3> QED
      BY <2>1, <3>1, <3>2, OtherUncut, AllPostedKept
  <2> QED
    BY <2>2, <2>3, <2>4, <2>5, <2>6, <2>7, <2>8, <2>9, <2>10, <2>11, <2>12 DEF Next, RunnerStep
<1>4. NoCut' => PostedInTime'
  BY <1>3 DEF NoCut, PostedInTime, AllPosted
<1> QED
  BY <1>2, <1>3, <1>4 DEF Uncut, NoCut

(* Until a record_events is cut off, the groups of a date are planned and  *)
(* recorded as a whole.                                                    *)
THEOREM UncutInvariance == Spec => [](Inv /\ Replay /\ Uncut)
<1>1. Init => Inv /\ Replay /\ Uncut
  BY InitInv, InitReplay, InitUncut
<1>2. (Inv /\ Replay /\ Uncut) /\ [Next]_vars => (Inv /\ Replay /\ Uncut)'
  BY StepInv, StepReplay, StepUncut
<1> QED
  BY <1>1, <1>2, PTL DEF Spec

(* Every support case that was opened is in the database under a number of *)
(* its own, unless record_events was cut off between two events: the       *)
(* numbers a plan chose are still free when its transaction comes.         *)
THEOREM CasesAreKept == Spec => []CasesKept
<1>1. Inv /\ Replay /\ Uncut => CasesKept
  <2> SUFFICES ASSUME Uncut, "record" \notin interrupts.cut, NEW e \in applied, Kind[e.item] = "case"
               PROVE  e.item \in RowItems("case")
    BY DEF CasesKept
  <2>1. Row(e) \in rows /\ Row(e).kind = "case" /\ Row(e).item = e.item
    BY DEF Uncut, CasesOK, Row
  <2> QED
    BY <2>1 DEF RowItems
<1> QED
  BY <1>1, UncutInvariance, PTL

(* When its due date is completed an invoice is posted, and a breach date  *)
(* holds it for one date and no more, unless record_events was cut off.    *)
THEOREM PostedOnTime == Spec => []PostedInTime
<1>1. Inv /\ Replay /\ Uncut => PostedInTime
  BY DEF Uncut, PostedInTime
<1> QED
  BY <1>1, UncutInvariance, PTL

----------------------------------------------------------------------------
(* What a record_events that was cut off loses, and nothing else does.     *)

Recording(d) == pc = "record" /\ group = "crm" /\ d = day

(* The CRM plan of a date is recorded as a whole.                          *)
CrmWhole ==
    \A d \in Days : Recorded(d, Objects) # {} \/ Recording(d) =>
        PlanCrm(d) = ItemsOf(Recorded(d, Objects)) \cup IF Recording(d) THEN ItemsOf(todo) ELSE {}

Published == \A d \in 1..watermark : Recorded(d, Objects) # {}

(* A step that records nothing, and ends a recording only when it is done  *)
(* or has not begun.                                                       *)
LEMMA CrmWholeKept ==
    ASSUME CrmWhole, events' = events,
           \A d \in Days : Recording(d)' => Recording(d) /\ todo' = todo,
           \A d \in Days : Recording(d) /\ ~Recording(d)' => todo = {} \/ Recorded(d, Objects) = {}
    PROVE  CrmWhole'
<1> SUFFICES ASSUME NEW d \in Days, Recorded(d, Objects)' # {} \/ Recording(d)'
             PROVE  PlanCrm(d) = ItemsOf(Recorded(d, Objects))' \cup IF Recording(d)' THEN ItemsOf(todo)' ELSE {}
  BY DEF CrmWhole, PlanCrm
<1>1. /\ Recorded(d, Objects)' = Recorded(d, Objects)
      /\ ItemsOf(Recorded(d, Objects))' = ItemsOf(Recorded(d, Objects))
      /\ todo' = todo => ItemsOf(todo)' = ItemsOf(todo)
      /\ todo = {} => ItemsOf(todo) = {}
  BY DEF Recorded, ItemsOf
<1>2. CASE Recording(d)'
  BY <1>1, <1>2 DEF CrmWhole
<1>3. CASE ~Recording(d)'
  <2>1. Recorded(d, Objects) # {}
    BY <1>1, <1>3
  <2>2. Recording(d) => ItemsOf(todo) = {}
    BY <1>1, <1>3, <2>1
  <2>3. PlanCrm(d) = ItemsOf(Recorded(d, Objects)) \cup IF Recording(d) THEN ItemsOf(todo) ELSE {}
    BY <2>1 DEF CrmWhole
  <2> QED
    BY <1>1, <1>3, <2>2, <2>3
<1> QED
  BY <1>2, <1>3

LEMMA PlanGroupCrm ==
    ASSUME Inv, CrmWhole, PlanGroup PROVE CrmWhole'
<1>1. /\ UNCHANGED <<events, group, day>> /\ pc = "plan" /\ pc' = "record" /\ todo' = Plan(group, day)
  BY DEF PlanGroup, control
<1>2. day \in Days /\ Shape
  BY <1>1, RunningDay DEF Inv
<1>3. CASE group # "crm"
  <2>1. \A d \in Days : ~Recording(d) /\ ~Recording(d)'
    BY <1>1, <1>3 DEF Recording
  <2> QED
    BY <1>1, <2>1, CrmWholeKept
<1>4. CASE group = "crm"
  <2>1. \A d \in Days : ~Recording(d) /\ (Recording(d)' <=> d = day)
    BY <1>1, <1>4 DEF Recording
  <2>2. \A d : /\ Recorded(d, Objects)' = Recorded(d, Objects)
               /\ ItemsOf(Recorded(d, Objects))' = ItemsOf(Recorded(d, Objects))
    BY <1>1 DEF Recorded, ItemsOf
  <2>3. PlanCrm(day) = ItemsOf(Recorded(day, Objects)) \cup ItemsOf(todo')
    <3>1. CASE Recorded(day, Objects) # {}
      <4>1. todo' = {} /\ ItemsOf(todo') = {}
        BY <1>1, <1>4, <3>1 DEF Plan, ItemsOf
      <4> QED
        BY <1>2, <2>1, <3>1, <4>1 DEF CrmWhole
    <3>2. CASE Recorded(day, Objects) = {}
      <4>1. todo' = Planned(day, PlanCrm(day)) /\ ItemsOf(Recorded(day, Objects)) = {}
        BY <1>1, <1>4, <3>2 DEF Plan, ItemsOf
      <4>2. ItemsOf(todo') = PlanCrm(day)
        <5>1. PlanCrm(day) \in SUBSET Items
          BY DEF PlanCrm
        <5> QED
          BY <1>2, <4>1, <5>1, PlannedEvents
      <4> QED
        BY <4>1, <4>2
    <3> QED
      BY <3>1, <3>2
  <2>4. ItemsOf(todo)' = ItemsOf(todo')
    BY DEF ItemsOf
  <2>5. \A d \in Days : Recorded(d, Objects) # {} => PlanCrm(d) = ItemsOf(Recorded(d, Objects))
    BY <2>1 DEF CrmWhole
  <2>6. \A d \in Days : Recorded(d, Objects) # {} \/ d = day =>
            PlanCrm(d) = ItemsOf(Recorded(d, Objects)) \cup IF d = day THEN ItemsOf(todo') ELSE {}
    BY <2>3, <2>5
  <2> QED
    BY <2>1, <2>2, <2>4, <2>6 DEF CrmWhole, PlanCrm
<1> QED
  BY <1>3, <1>4

LEMMA RecordEventCrm ==
    ASSUME Inv, CrmWhole, RecordEvent PROVE CrmWhole'
<1>1. UNCHANGED <<pc, group, day>> /\ pc = "record"
  BY DEF RecordEvent
<1>2. PICK e \in todo : events' = events \cup {e} /\ todo' = todo \ {e}
  BY DEF RecordEvent
<1>3. e.day = day /\ Kind[e.item] \in KindsOf(group) /\ group \in Groups
  BY DEF Inv, ProcessOK, Shape, TypeOK
<1>4. \A d \in Days : Recording(d)' <=> Recording(d)
  BY <1>1 DEF Recording
<1>5. \A d \in Days : ~Recording(d) => Recorded(d, Objects)' = Recorded(d, Objects)
  <2>1. TAKE d \in Days
  <2>2. HAVE ~Recording(d)
  <2>3. d # e.day \/ Kind[e.item] \notin Objects
    BY <1>1, <1>3, <2>2, KindsFacts DEF Recording
  <2> QED
    BY <1>2, <2>3 DEF Recorded
<1>6. ASSUME NEW d \in Days, Recording(d)
      PROVE  ItemsOf(Recorded(d, Objects))' \cup ItemsOf(todo') = ItemsOf(Recorded(d, Objects)) \cup ItemsOf(todo)
  <2>1. d = e.day /\ Kind[e.item] \in Objects
    BY <1>3, <1>6, KindsFacts DEF Recording
  <2>2. Recorded(d, Objects)' = Recorded(d, Objects) \cup {e}
    BY <1>2, <2>1 DEF Recorded
  <2>3. ItemsOf(Recorded(d, Objects))' = ItemsOf(Recorded(d, Objects)) \cup {e.item}
    BY <2>2 DEF ItemsOf
  <2>4. ItemsOf(todo) = ItemsOf(todo') \cup {e.item}
    BY <1>2 DEF ItemsOf
  <2> QED
    BY <2>3, <2>4
<1>7. ItemsOf(todo)' = ItemsOf(todo') /\ \A d : ItemsOf(Recorded(d, Objects))' = ItemsOf(Recorded(d, Objects)')
  BY DEF ItemsOf
<1> SUFFICES ASSUME NEW d \in Days, Recorded(d, Objects)' # {} \/ Recording(d)'
             PROVE  PlanCrm(d) = ItemsOf(Recorded(d, Objects))' \cup IF Recording(d)' THEN ItemsOf(todo)' ELSE {}
  BY DEF CrmWhole, PlanCrm
<1>8. CASE Recording(d)
  BY <1>4, <1>6, <1>7, <1>8 DEF CrmWhole
<1>9. CASE ~Recording(d)
  <2>1. PlanCrm(d) = ItemsOf(Recorded(d, Objects))
    BY <1>4, <1>5, <1>9 DEF CrmWhole
  <2> QED
    BY <1>4, <1>5, <1>7, <1>9, <2>1
<1> QED
  BY <1>8, <1>9

(* A refused record_events has recorded nothing of the CRM plan.           *)
LEMMA RaiseCrm ==
    ASSUME Inv, CrmWhole, ClaimedOK, Raise PROVE CrmWhole'
<1>1. events' = events /\ Refused /\ pc' = "idle"
  BY DEF Raise, Unwind, control
<1>2. ASSUME NEW d \in Days, Recording(d) PROVE todo = {} \/ Recorded(d, Objects) = {}
  <2>1. todo # {} => src[d]["crm"] = "none"
    BY <1>1, <1>2, GroupFacts DEF Refused, Recording
  <2>2. \A e \in Recorded(d, Objects) : src[d]["crm"] # "none"
    BY KindsFacts, GroupFacts DEF Recorded, ClaimedOK, Groups
  <2> QED
    BY <2>1, <2>2
<1>3. \A d \in Days : ~Recording(d)'
  BY <1>1 DEF Recording
<1> QED
  BY <1>1, <1>2, <1>3, CrmWholeKept

LEMMA StepCrmWhole ==
    ASSUME Inv, CrmWhole, ClaimedOK, [Next]_vars, NoCut' PROVE CrmWhole'
<1>1. CASE Raise
  BY <1>1, RaiseCrm
<1>2. CASE PlanGroup
  BY <1>2, PlanGroupCrm
<1>3. CASE RecordEvent
  BY <1>3, RecordEventCrm
<1>4. CASE RecordingDone
  <2>1. events' = events /\ todo = {} /\ pc' = AfterRecord(group) /\ group \in Groups
    BY <1>4 DEF RecordingDone, control, Inv, Shape, TypeOK
  <2>2. \A d \in Days : ~Recording(d)'
    BY <2>1 DEF Recording, AfterRecord, Groups
  <2> QED
    BY <2>1, <2>2, CrmWholeKept
<1>5. CASE UNCHANGED <<events, pc, group, day, todo>>
  <2>1. \A d \in Days : Recording(d)' <=> Recording(d)
    BY <1>5 DEF Recording
  <2> QED
    BY <1>5, <2>1, CrmWholeKept
<1>6. CASE events' = events /\ pc # "record" /\ pc' # "record"
  <2>1. \A d \in Days : ~Recording(d)' /\ ~Recording(d)
    BY <1>6 DEF Recording
  <2> QED
    BY <1>6, <2>1, CrmWholeKept
<1>7. CASE Tick \/ UNCHANGED vars
  BY <1>5, <1>7 DEF Tick, vars, control, locals
<1>8. CASE Interrupt
  <2>1. events' = events /\ pc' = "idle"
    BY <1>8 DEF Interrupt, Unwind, control
  <2>2. todo # {} => Recorded(day, KindsOf(group)) = {}
    BY <1>8, InterruptUncut
  <2>3. \A d \in Days : ~Recording(d)' /\ (Recording(d) => todo = {} \/ Recorded(d, Objects) = {})
    BY <2>1, <2>2, KindsFacts DEF Recording
  <2> QED
    BY <2>1, <2>3, CrmWholeKept
<1>9. CASE RunThrough \/ Claim \/ ClaimSource \/ Publish \/ (\E o \in Objects : WritePartition(o)) \/ WriteHistory
           \/ WriteManifest \/ Apply \/ MarkApplied \/ Reconcile \/ Complete \/ Advance
  BY <1>6, <1>9 DEF RunThrough, StartDay, Unwind, Claim, ClaimSource, Publish, WritePartition, WriteHistory,
     WriteManifest, Apply, MarkApplied, Reconcile, Complete, Advance, control
<1> QED
  BY <1>1, <1>2, <1>3, <1>4, <1>7, <1>8, <1>9 DEF Next, RunnerStep

(* What is behind the watermark has been published, from its CRM events.   *)
LEMMA StepPublished ==
    ASSUME Inv, Replay, Published, [Next]_vars PROVE Published'
<1>1. events \subseteq events'
  BY DEF Next, RunnerStep, Tick, RunThrough, Claim, ClaimSource, PlanGroup, RecordEvent, RecordingDone,
         Publish, WritePartition, WriteHistory, WriteManifest, Apply, MarkApplied, Reconcile,
         Complete, Advance, Raise, Interrupt, control, vars
<1>2. \A d : Recorded(d, Objects) \subseteq Recorded(d, Objects)'
  BY <1>1 DEF Recorded
<1>3. CASE watermark' = watermark
  BY <1>2, <1>3 DEF Published
<1>4. CASE Advance
  <2>1. watermark' = day /\ pc = "advance"
    BY <1>4 DEF Advance
  <2>2. day \in Days /\ day = watermark + 1 /\ watermark \in Nat
    BY <2>1, RunningDay DEF Inv, Shape, TypeOK
  <2>3. src[day]["crm"] = "applied"
    BY <2>1 DEF Inv, ControlOK, Sources
  <2>4. Recorded(day, Objects) # {}
    BY <2>2, <2>3 DEF Replay, SourcesOK, Inv, ManifestOK
  <2>5. \A d \in 1..day : d \in 1..watermark \/ d = day
    BY <2>2
  <2> QED
    BY <1>2, <2>1, <2>4, <2>5 DEF Published
<1> QED
  BY <1>3, <1>4
     DEF Next, RunnerStep, Tick, RunThrough, Claim, ClaimSource, PlanGroup, RecordEvent, RecordingDone,
         Publish, WritePartition, WriteHistory, WriteManifest, Apply, MarkApplied, Reconcile,
         Complete, Raise, Interrupt, control, vars

(* The finding of daily_lost has one cause: as long as no record_events    *)
(* was cut off between two events, every completed date has published all  *)
(* of its CRM plan, wherever else the runs were interrupted.               *)
THEOREM LostOnlyIfCut == Spec => []("record" \in interrupts.cut \/ NothingLost)
<1> DEFINE CrmOK == Published /\ (NoCut => CrmWhole)
<1>1. Init => CrmOK
  <2>1. Init => Published
    BY DEF Init, Published
  <2>2. Init => CrmWhole
    BY DEF Init, CrmWhole, Recorded, Recording
  <2> QED
    BY <2>1, <2>2
<1>2. Inv /\ Replay /\ Uncut /\ CrmOK /\ [Next]_vars => CrmOK'
  <2> SUFFICES ASSUME Inv, Replay, Uncut, CrmOK, [Next]_vars PROVE CrmOK'
    OBVIOUS
  <2>1. Published'
    BY StepPublished
  <2>2. NoCut' => NoCut
    <3>1. CASE Interrupt
      BY <3>1 DEF Interrupt, NoCut
    <3> QED
      BY <3>1
         DEF NoCut, Next, RunnerStep, Tick, RunThrough, Claim, ClaimSource, PlanGroup, RecordEvent, RecordingDone,
             Publish, WritePartition, WriteHistory, WriteManifest, Apply, MarkApplied, Reconcile,
             Complete, Advance, Raise, vars
  <2>3. NoCut' => CrmWhole'
    BY <2>2, StepCrmWhole DEF Uncut
  <2> QED
    BY <2>1, <2>3
<1>3. Inv /\ CrmOK => "record" \in interrupts.cut \/ NothingLost
  <2> SUFFICES ASSUME Inv, Published, CrmWhole, NEW d \in 1..watermark
               PROVE  PlanCrm(d) = ItemsOf(Recorded(d, Objects))
    BY DEF NoCut, NothingLost
  <2>1. d \in Days /\ d # watermark + 1
    BY CalendarAssumption DEF Inv, Shape, TypeOK, Days
  <2>2. ~Recording(d)
    BY <2>1, RunningDay DEF Recording
  <2> QED
    BY <2>1, <2>2 DEF Published, CrmWhole
<1> HIDE DEF CrmOK
<1> QED
  BY <1>1, <1>2, <1>3, UncutInvariance, PTL DEF Spec

----------------------------------------------------------------------------
(* What makes a retry fail for good.                                       *)

(* A claimed date has all its source rows.                                 *)
ClaimWhole ==
    "claim" \notin interrupts.cut =>
        \A d \in Days : run[d] # "none" /\ ~(pc = "claim_sources" /\ d = day) =>
            \A s \in Sources : src[d][s] # "none"

(* A source is at work when those ahead of it are applied.                 *)
AheadOK ==
    /\ pc \notin {"idle", "claim"} => run[day] # "none"
    /\ pc # "idle" /\ group # "crm" => src[day]["crm"] = "applied"
    /\ pc # "idle" /\ group = "posting" => src[day]["ops"] = "applied"
    /\ pc \in {"reconcile", "complete"} => src[day]["erp"] = "applied"

(* Partitions without a manifest are those of the publication at work, and *)
(* the stages it compares with are those of the date before.               *)
PublicationWhole ==
    /\ stale = FALSE
    /\ \A d \in Days : d = watermark + 1 =>
          /\ \A o \in Objects : <<d, o>> \in parts =>
                manifest[d] # NoManifest \/ (pc \in {"write", "manifest"} /\ o \notin files)
          /\ Recorded(d, {"opportunities"}) # {} /\ (manifest[d] # NoManifest \/ pc = "manifest") =>
                history[d] = "good"

PublicationOK ==
    /\ \A p \in parts : p[1] <= watermark + 1
    /\ \A d \in Days : history[d] # "none" => Recorded(d, {"opportunities"}) # {}
    /\ "publication" \notin interrupts.cut => PublicationWhole

Waiting(k) == {e \in events \cup todo : Kind[e.item] = k /\ e \notin applied}

(* Keys that wait for their transaction are free, and what is applied has  *)
(* a row under its key.                                                    *)
KeysOK ==
    /\ \A e \in events \cup todo : Kind[e.item] \notin Numbered => e.id = e.item
    /\ \A k \in {"order", "posting"} :
          /\ \A e \in Waiting(k) : e.id >= NextId(k)
          /\ \A e, f \in Waiting(k) : e.id = f.id => e = f
    /\ \A e \in applied : \E r \in rows : r.kind = Kind[e.item] /\ r.id = e.id

Retry == ClaimWhole /\ AheadOK /\ PublicationOK /\ KeysOK

LEMMA InitRetry == Init => Retry
<1> SUFFICES ASSUME Init PROVE Retry
  OBVIOUS
<1>1. ClaimWhole /\ AheadOK
  BY DEF Init, ClaimWhole, AheadOK
<1>2. PublicationOK
  BY DEF Init, PublicationOK, PublicationWhole, Recorded
<1>3. KeysOK
  BY DEF Init, KeysOK, Waiting
<1> QED
  BY <1>1, <1>2, <1>3 DEF Retry

(* The claim of a date.                                                    *)

LEMMA ClaimWholeKept ==
    ASSUME ClaimWhole, UNCHANGED <<run, src>>, interrupts.cut \subseteq interrupts'.cut,
           UNCHANGED <<pc, day>> \/ pc # "claim_sources"
    PROVE  ClaimWhole'
BY DEF ClaimWhole

LEMMA CutsGrow ==
    ASSUME [Next]_vars PROVE interrupts.cut \subseteq interrupts'.cut
<1>1. CASE Interrupt
  BY <1>1 DEF Interrupt
<1> QED
  BY <1>1
     DEF Next, RunnerStep, Tick, RunThrough, Claim, ClaimSource, PlanGroup, RecordEvent, RecordingDone,
         Publish, WritePartition, WriteHistory, WriteManifest, Apply, MarkApplied, Reconcile,
         Complete, Advance, Raise, vars

LEMMA StepClaimWhole ==
    ASSUME Inv, ClaimWhole, AheadOK, [Next]_vars PROVE ClaimWhole'
<1>1. interrupts.cut \subseteq interrupts'.cut
  BY CutsGrow
<1>2. /\ run \in [Days -> {"none", "in_progress", "completed"}]
      /\ src \in [Days -> [Sources -> {"none", "pending", "applied"}]]
  BY DEF Inv, Shape, TypeOK
<1>3. CASE Claim
  <2>1. /\ pc = "claim" /\ UNCHANGED <<src, day, interrupts>>
        /\ run' = [run EXCEPT ![day] = IF @ = "completed" THEN @ ELSE "in_progress"]
        /\ pc' = IF run[day] = "none" THEN "claim_sources" ELSE "plan"
    BY <1>3 DEF Claim, locals
  <2>2. \A d \in Days : d # day => run'[d] = run[d]
    BY <1>2, <2>1
  <2> QED
    BY <2>1, <2>2 DEF ClaimWhole
<1>4. CASE ClaimSource
  <2>1. PICK s : /\ s = CASE src[day]["crm"] = "none" -> "crm"
                          [] src[day]["ops"] = "none" /\ src[day]["crm"] # "none" -> "ops"
                          [] OTHER -> "erp"
                 /\ src' = [src EXCEPT ![day][s] = "pending"]
                 /\ pc' = IF s = "erp" THEN "plan" ELSE "claim_sources"
    BY <1>4 DEF ClaimSource
  <2>2. pc = "claim_sources" /\ UNCHANGED <<run, day, interrupts>> /\ day \in Days
    BY <1>4, RunningDay DEF ClaimSource, locals
  <2>3. \A d \in Days : d # day => src'[d] = src[d]
    BY <1>2, <2>1
  <2>4. s = "erp" => src[day]["crm"] # "none" /\ src[day]["ops"] # "none"
    BY <2>1
  <2>5. s = "erp" => \A t \in Sources : src'[day][t] # "none"
    BY <1>2, <2>1, <2>2, <2>4 DEF Sources
  <2> QED
    BY <2>1, <2>2, <2>3, <2>5 DEF ClaimWhole
<1>5. CASE MarkApplied
  <2>1. PICK s : s = SourceOf(group) /\ src' = [src EXCEPT ![day][s] = "applied"]
    BY <1>5 DEF MarkApplied
  <2>2. pc = "mark" /\ pc' # "claim_sources" /\ UNCHANGED <<run, day, interrupts>>
    BY <1>5 DEF MarkApplied
  <2>3. \A d \in Days : \A t \in Sources : src'[d][t] = src[d][t] \/ src'[d][t] = "applied"
    BY <1>2, <2>1
  <2> QED
    BY <2>2, <2>3 DEF ClaimWhole
<1>6. CASE Complete
  <2>1. /\ pc = "complete" /\ pc' # "claim_sources" /\ UNCHANGED <<src, interrupts>>
        /\ run' = [run EXCEPT ![day] = "completed"]
    BY <1>6 DEF Complete
  <2>2. \A d \in Days : run'[d] # "none" => run[d] # "none"
    BY <1>2, <2>1 DEF AheadOK
  <2> QED
    BY <2>1, <2>2 DEF ClaimWhole
<1>7. CASE Interrupt
  <2>1. UNCHANGED <<run, src>> /\ interrupts'.cut = interrupts.cut \cup PartCut(pc)
    BY <1>7 DEF Interrupt, control
  <2>2. CASE pc = "claim_sources"
    BY <2>1, <2>2 DEF PartCut, ClaimWhole
  <2>3. CASE pc # "claim_sources"
    BY <1>1, <2>1, <2>3, ClaimWholeKept
  <2> QED
    BY <2>2, <2>3
<1>8. CASE Raise
  <2>1. UNCHANGED <<run, src>> /\ pc # "claim_sources"
    BY <1>8 DEF Raise, Refused, control
  <2> QED
    BY <1>1, <2>1, ClaimWholeKept
<1>9. CASE Tick \/ UNCHANGED vars
  <2>1. UNCHANGED <<run, src, pc, day>>
    BY <1>9 DEF Tick, vars, control, locals
  <2> QED
    BY <1>1, <2>1, ClaimWholeKept
<1>10. CASE RunThrough \/ PlanGroup \/ RecordEvent \/ RecordingDone \/ Publish \/ WriteHistory
            \/ WriteManifest \/ (\E o \in Objects : WritePartition(o)) \/ Apply \/ Reconcile \/ Advance
  <2>1. UNCHANGED <<run, src>> /\ pc # "claim_sources"
    BY <1>10 DEF RunThrough, PlanGroup, RecordEvent, RecordingDone, Publish, WriteHistory, WriteManifest,
                 WritePartition, Apply, Reconcile, Advance, control
  <2> QED
    BY <1>1, <2>1, ClaimWholeKept
<1> QED
  BY <1>3, <1>4, <1>5, <1>6, <1>7, <1>8, <1>9, <1>10 DEF Next, RunnerStep

LEMMA StepAhead ==
    ASSUME Inv, AheadOK, [Next]_vars PROVE AheadOK'
<1>1. /\ run \in [Days -> {"none", "in_progress", "completed"}]
      /\ src \in [Days -> [Sources -> {"none", "pending", "applied"}]]
  BY DEF Inv, Shape, TypeOK
<1>2. CASE pc' = "idle"
  BY <1>2 DEF AheadOK
<1>3. CASE RunThrough \/ Advance
  <2>1. pc' = "idle" \/ (pc' = "claim" /\ group' = "crm")
    BY <1>3 DEF RunThrough, Advance, StartDay, Unwind
  <2> QED
    BY <2>1 DEF AheadOK
<1>4. CASE Raise \/ Interrupt
  BY <1>2, <1>4 DEF Raise, Interrupt, Unwind
<1>5. CASE Claim
  <2>1. /\ pc = "claim" /\ UNCHANGED <<day, group>> /\ pc' \in {"claim_sources", "plan"}
        /\ run' = [run EXCEPT ![day] = IF @ = "completed" THEN @ ELSE "in_progress"]
    BY <1>5 DEF Claim, locals
  <2>2. group = "crm" /\ day \in Days
    BY <2>1, RunningDay DEF Inv, ProcessOK
  <2>3. run'[day] # "none"
    BY <1>1, <2>1, <2>2
  <2> QED
    BY <2>1, <2>2, <2>3 DEF AheadOK
<1>6. CASE ClaimSource
  <2>1. pc = "claim_sources" /\ UNCHANGED <<run, day, group>> /\ pc' \in {"claim_sources", "plan"}
    BY <1>6 DEF ClaimSource, locals
  <2>2. group = "crm"
    BY <2>1 DEF Inv, ProcessOK
  <2> QED
    BY <2>1, <2>2 DEF AheadOK
<1>7. CASE MarkApplied
  <2>1. PICK s : /\ s = SourceOf(group) /\ src' = [src EXCEPT ![day][s] = "applied"]
                 /\ s = "ops" => src[day]["crm"] = "applied"
                 /\ s = "erp" => src[day]["crm"] = "applied" /\ src[day]["ops"] = "applied"
                 /\ group' = CASE s = "crm" -> "order" [] OTHER -> "posting"
                 /\ pc' = IF s = "erp" THEN "reconcile" ELSE "plan"
    BY <1>7 DEF MarkApplied
  <2>2. pc = "mark" /\ UNCHANGED <<run, day>> /\ group \in {"crm", "support", "posting"} /\ day \in Days
    BY <1>7, RunningDay DEF MarkApplied, Inv, ProcessOK
  <2>3. s \in Sources /\ s \in {"crm", "ops", "erp"}
    BY <2>1, <2>2, GroupFacts DEF Sources
  <2>4. src'[day][s] = "applied" /\ \A t \in Sources : t # s => src'[day][t] = src[day][t]
    BY <1>1, <2>1, <2>2, <2>3
  <2>5. "crm" \in Sources /\ "ops" \in Sources /\ "erp" \in Sources
    BY DEF Sources
  <2>6. /\ src'[day]["crm"] = "applied"
        /\ s # "crm" => src'[day]["ops"] = "applied"
        /\ s = "erp" => src'[day]["erp"] = "applied"
    BY <2>1, <2>3, <2>4, <2>5
  <2>7. /\ s = "crm" => group' = "order" /\ pc' = "plan"
        /\ s # "crm" => group' = "posting"
        /\ s # "erp" => pc' = "plan"
    BY <2>1
  <2>8. run[day] # "none"
    BY <2>2 DEF AheadOK
  <2> QED
    BY <2>2, <2>3, <2>6, <2>7, <2>8 DEF AheadOK
<1>8. CASE Complete
  <2>1. pc = "complete" /\ pc' = "advance" /\ UNCHANGED <<src, day, group>> /\ run' = [run EXCEPT ![day] = "completed"]
    BY <1>8 DEF Complete, locals
  <2>2. day \in Days
    BY <2>1, RunningDay
  <2>3. run'[day] # "none"
    BY <1>1, <2>1, <2>2
  <2> QED
    BY <2>1, <2>3 DEF AheadOK
<1>9. ASSUME UNCHANGED <<run, src, day>>, pc \notin {"idle", "claim"} \/ pc' = pc,
             group' = group \/ (group \in {"order", "fulfillment"} /\ group' \in {"fulfillment", "support"}),
             pc' \in {"reconcile", "complete"} => pc' = pc \/ pc = "reconcile"
      PROVE  AheadOK'
  BY <1>9 DEF AheadOK
<1>10. CASE Tick \/ UNCHANGED vars
  <2>1. UNCHANGED <<run, src, day, pc, group>>
    BY <1>10 DEF Tick, vars, control, locals
  <2> QED
    BY <1>9, <2>1
<1>11. CASE PlanGroup \/ RecordEvent \/ Publish \/ WriteHistory \/ WriteManifest \/ Reconcile
            \/ (\E o \in Objects : WritePartition(o))
  <2>1. /\ UNCHANGED <<run, src, day, group>> /\ pc \notin {"idle", "claim"}
        /\ pc' \in {"reconcile", "complete"} => pc' = pc \/ pc = "reconcile"
    BY <1>11 DEF PlanGroup, RecordEvent, Publish, WriteHistory, WriteManifest, Reconcile, WritePartition,
                 control, locals
  <2> QED
    BY <1>9, <2>1
<1>12. CASE RecordingDone
  <2>1. /\ UNCHANGED <<run, src, day>> /\ pc = "record" /\ pc' = AfterRecord(group) /\ group \in Groups
        /\ group' = IF group = "fulfillment" THEN "support" ELSE group
    BY <1>12 DEF RecordingDone, control, Inv, Shape, TypeOK
  <2>2. pc' \notin {"reconcile", "complete"}
    BY <2>1 DEF AfterRecord, Groups
  <2> QED
    BY <1>9, <2>1, <2>2
<1>13. CASE Apply
  <2>1. /\ UNCHANGED <<run, src, day>> /\ pc = "apply" /\ pc' \in {"plan", "mark"}
        /\ group' = group \/ (group = "order" /\ group' = "fulfillment")
    BY <1>13 DEF Apply, control
  <2> QED
    BY <1>9, <2>1
<1> QED
  BY <1>3, <1>4, <1>5, <1>6, <1>7, <1>8, <1>10, <1>11, <1>12, <1>13 DEF Next, RunnerStep

(* The publication of a date.                                              *)

(* A record that an event of the date creates is not on disk yet.          *)
LEMMA NothingExists ==
    ASSUME Inv, Replay, PublicationWhole, pc = "write", NEW o \in files,
           NEW i \in ItemsOf(Recorded(day, {o}))
    PROVE  ~Exists(i)
<1>1. day \in Days /\ day = watermark + 1 /\ o \in Objects
  BY RunningDay DEF Inv, Shape, TypeOK
<1>2. manifest[day] = NoManifest
  BY <1>1 DEF Replay, SourcesOK
<1>3. <<day, o>> \notin parts
  BY <1>1, <1>2 DEF PublicationWhole
<1>4. PICK e \in events : e.item = i /\ e.day = day /\ Kind[i] = o
  BY DEF ItemsOf, Recorded
<1>5. \A d : i \in ItemsOf(Recorded(d, Objects)) => d = day
  BY <1>4 DEF ItemsOf, Recorded, Replay, EventsOK
<1> QED
  BY <1>3, <1>4, <1>5 DEF Exists

(* A step that leaves the CRM directory and the CRM events alone.          *)
LEMMA PublicationKept ==
    ASSUME PublicationOK, UNCHANGED <<watermark, parts, history, manifest>>,
           \A d \in Days : Recorded(d, {"opportunities"})' = Recorded(d, {"opportunities"}),
           interrupts.cut \subseteq interrupts'.cut,
           stale' = stale \/ stale' = FALSE,
           \/ UNCHANGED <<pc, files>>
           \/ pc' # "manifest" /\ (pc \notin {"write", "manifest"} \/ "publication" \in interrupts'.cut)
    PROVE  PublicationOK'
<1>1. CASE "publication" \in interrupts'.cut
  BY <1>1 DEF PublicationOK
<1>2. CASE "publication" \notin interrupts'.cut
  <2>1. PublicationWhole
    BY <1>2 DEF PublicationOK
  <2>2. PublicationWhole'
    BY <1>2, <2>1 DEF PublicationWhole
  <2> QED
    BY <2>2 DEF PublicationOK
<1> QED
  BY <1>1, <1>2

LEMMA RecordEventPublication ==
    ASSUME Inv, PublicationOK, RecordEvent PROVE PublicationOK'
<1>1. UNCHANGED <<watermark, parts, history, manifest, pc, group, day, stale, interrupts>> /\ pc = "record" /\ todo # {}
  BY DEF RecordEvent, crm
<1>2. PICK e \in todo : events' = events \cup {e}
  BY DEF RecordEvent
<1>3. e.day = day /\ Kind[e.item] \in KindsOf(group) /\ group \in Groups
  BY DEF Inv, ProcessOK, Shape, TypeOK
<1>4. day \in Days /\ day = watermark + 1
  BY <1>1, RunningDay
<1>5. \A d \in Days : Recorded(d, {"opportunities"}) \subseteq Recorded(d, {"opportunities"})'
  BY <1>2 DEF Recorded
<1>6. manifest[day] # NoManifest => Recorded(day, {"opportunities"})' = Recorded(day, {"opportunities"})
  <2> SUFFICES ASSUME manifest[day] # NoManifest
               PROVE  Recorded(day, {"opportunities"})' = Recorded(day, {"opportunities"})
    OBVIOUS
  <2>1. group # "crm"
    BY <1>1 DEF Inv, ManifestOK
  <2>2. Kind[e.item] # "opportunities"
    BY <1>3, <2>1, KindsFacts DEF Objects
  <2> QED
    BY <1>1, <1>2, <2>2 DEF Recorded
<1>7. \A p \in parts' : p[1] <= watermark' + 1
  BY <1>1 DEF PublicationOK
<1>8. \A d \in Days : history'[d] # "none" => Recorded(d, {"opportunities"})' # {}
  BY <1>1, <1>5 DEF PublicationOK
<1>9. PublicationWhole => PublicationWhole'
  BY <1>1, <1>4, <1>6 DEF PublicationWhole
<1> QED
  BY <1>1, <1>7, <1>8, <1>9 DEF PublicationOK

LEMMA PublishPublication ==
    ASSUME Inv, PublicationOK, Publish PROVE PublicationOK'
<1>1. UNCHANGED <<watermark, parts, history, manifest, events, day, interrupts>> /\ pc = "publish" /\ pc' \in {"write", "mark"}
  BY DEF Publish, control, crm
<1>2. day \in Days /\ day = watermark + 1
  BY <1>1, RunningDay
<1>3. \A d : Recorded(d, {"opportunities"})' = Recorded(d, {"opportunities"})
  BY <1>1 DEF Recorded
<1>4. PublicationWhole => stale' = FALSE
  <2>1. CASE manifest[day] = NoManifest
    <3>1. ASSUME <<day, "opportunities">> \notin parts PROVE stale' = FALSE
      <4>1. stale' = (<<day, "opportunities">> \in parts)
        BY <2>1 DEF Publish
      <4>2. (<<day, "opportunities">> \in parts) = FALSE
        BY <3>1
      <4> QED
        BY <4>1, <4>2, Zenon
    <3>2. PublicationWhole => <<day, "opportunities">> \notin parts
      BY <1>1, <1>2, <2>1 DEF PublicationWhole, Objects
    <3> QED
      BY <3>1, <3>2
  <2>2. CASE manifest[day] # NoManifest
    BY <2>2 DEF Publish, PublicationWhole
  <2> QED
    BY <2>1, <2>2
<1>5. PublicationWhole => PublicationWhole'
  BY <1>1, <1>3, <1>4 DEF PublicationWhole
<1> QED
  BY <1>1, <1>3, <1>5 DEF PublicationOK

LEMMA WritePartitionPublication ==
    ASSUME Inv, PublicationOK, NEW o \in Objects, WritePartition(o) PROVE PublicationOK'
<1>1. /\ UNCHANGED <<watermark, history, manifest, events, day, interrupts, pc, stale>> /\ pc = "write"
      /\ parts' = parts \cup {<<day, o>>} /\ files' = files \ {o}
  BY DEF WritePartition, control
<1>2. day \in Days /\ day = watermark + 1 /\ watermark \in Nat
  BY <1>1, RunningDay DEF Inv, Shape, TypeOK
<1>3. \A d : Recorded(d, {"opportunities"})' = Recorded(d, {"opportunities"})
  BY <1>1 DEF Recorded
<1>4. <<day, o>>[1] <= watermark + 1
  BY <1>2
<1>5. \A p \in parts' : p[1] <= watermark' + 1
  BY <1>1, <1>4 DEF PublicationOK
<1>6. PublicationWhole => PublicationWhole'
  <2>1. \A x \in Objects : <<day, x>> \in parts' => <<day, x>> \in parts \/ x = o
    BY <1>1
  <2> QED
    BY <1>1, <1>2, <1>3, <2>1 DEF PublicationWhole
<1> QED
  BY <1>1, <1>3, <1>5, <1>6 DEF PublicationOK

LEMMA WriteHistoryPublication ==
    ASSUME Inv, Replay, PublicationOK, WriteHistory PROVE PublicationOK'
<1>1. /\ UNCHANGED <<watermark, parts, manifest, events, day, interrupts, files, stale>>
      /\ pc = "write" /\ pc' = "manifest" /\ files = {}
      /\ history' = [history EXCEPT ![day] = IF Recorded(day, {"opportunities"}) = {} THEN @
                                             ELSE IF stale THEN "stale" ELSE "good"]
  BY DEF WriteHistory, control, locals
<1>2. day \in Days /\ day = watermark + 1 /\ history \in [Days -> {"none", "good", "stale"}]
  BY <1>1, RunningDay DEF Inv, Shape, TypeOK
<1>3. \A d : Recorded(d, {"opportunities"})' = Recorded(d, {"opportunities"})
  BY <1>1 DEF Recorded
<1>4. /\ \A d \in Days : d # day => history'[d] = history[d]
      /\ Recorded(day, {"opportunities"}) = {} => history'[day] = history[day]
      /\ Recorded(day, {"opportunities"}) # {} /\ stale = FALSE => history'[day] = "good"
  BY <1>1, <1>2
<1>5. \A d \in Days : history'[d] # "none" => Recorded(d, {"opportunities"})' # {}
  BY <1>3, <1>4 DEF PublicationOK
<1>6. PublicationWhole => PublicationWhole'
  BY <1>1, <1>2, <1>3, <1>4 DEF PublicationWhole
<1> QED
  BY <1>1, <1>5, <1>6 DEF PublicationOK

LEMMA WriteManifestPublication ==
    ASSUME Inv, PublicationOK, WriteManifest PROVE PublicationOK'
<1>1. /\ UNCHANGED <<watermark, parts, history, events, day, interrupts, files, stale>>
      /\ pc = "manifest" /\ pc' = "mark"
      /\ manifest' = [manifest EXCEPT ![day] = ItemsOf(Recorded(day, Objects))]
  BY DEF WriteManifest, control, locals
<1>2. day \in Days /\ day = watermark + 1 /\ DOMAIN manifest = Days
  BY <1>1, RunningDay DEF Inv, Shape, TypeOK
<1>3. \A d : Recorded(d, {"opportunities"})' = Recorded(d, {"opportunities"})
  BY <1>1 DEF Recorded
<1>4. manifest'[day] # NoManifest
  <2>1. PICK e \in Recorded(day, Objects) : TRUE
    BY <1>1 DEF Inv, ManifestOK
  <2>2. e.item \in Items /\ e.item # 0
    <3>1. e \in Event
      BY <2>1 DEF Recorded, Inv, Shape, TypeOK
    <3> QED
      BY <3>1, ItemsAssumption DEF Event
  <2>3. e.item \in manifest'[day]
    BY <1>1, <1>2, <2>1 DEF ItemsOf
  <2> QED
    BY <2>2, <2>3 DEF NoManifest
<1>5. PublicationWhole => PublicationWhole'
  BY <1>1, <1>2, <1>3, <1>4 DEF PublicationWhole
<1> QED
  BY <1>1, <1>3, <1>5 DEF PublicationOK

LEMMA AdvancePublication ==
    ASSUME Inv, PublicationOK, Advance PROVE PublicationOK'
<1>1. UNCHANGED <<parts, history, manifest, events, interrupts>> /\ pc = "advance" /\ watermark' = day /\ stale' = FALSE
  BY DEF Advance, StartDay, Unwind, crm
<1>2. day = watermark + 1 /\ watermark \in Nat
  BY <1>1, RunningDay DEF Inv, Shape, TypeOK
<1>3. \A d : Recorded(d, {"opportunities"})' = Recorded(d, {"opportunities"})
  BY <1>1 DEF Recorded
<1>4. \A p \in parts : p[1] \in Days /\ p[1] <= day /\ p[1] # day + 1
  <2>1. \A p \in parts : p[1] \in Days /\ p[1] <= watermark + 1
    BY DEF PublicationOK, Inv, Shape, TypeOK
  <2> QED
    BY <1>2, <2>1 DEF Days
<1>5. \A p \in parts' : p[1] <= watermark' + 1
  BY <1>1, <1>2, <1>4 DEF Days
<1>6. \A d \in Days : d = day + 1 => Recorded(d, {"opportunities"}) = {} /\ \A o \in Objects : <<d, o>> \notin parts
  <2>1. TAKE d \in Days
  <2>2. HAVE d = day + 1
  <2>3. d > watermark + 1
    BY <1>2, <2>2
  <2>4. Recorded(d, Kinds) = {}
    BY <2>3 DEF Inv, ControlOK, WatermarkSound
  <2>5. \A o \in Objects : <<d, o>> \in parts => <<d, o>>[1] # day + 1
    BY <1>4
  <2> QED
    BY <2>2, <2>4, <2>5 DEF Recorded, Kinds, Objects
<1>7. PublicationWhole'
  BY <1>1, <1>3, <1>6 DEF PublicationWhole
<1> QED
  BY <1>1, <1>3, <1>5, <1>7 DEF PublicationOK

LEMMA StepPublication ==
    ASSUME Inv, Replay, PublicationOK, [Next]_vars PROVE PublicationOK'
<1>1. interrupts.cut \subseteq interrupts'.cut
  BY CutsGrow
<1>2. ASSUME UNCHANGED <<watermark, parts, history, manifest, events>>,
             stale' = stale \/ stale' = FALSE,
             \/ UNCHANGED <<pc, files>>
             \/ pc' # "manifest" /\ (pc \notin {"write", "manifest"} \/ "publication" \in interrupts'.cut)
      PROVE  PublicationOK'
  <2>1. \A d \in Days : Recorded(d, {"opportunities"})' = Recorded(d, {"opportunities"})
    BY <1>2 DEF Recorded
  <2> QED
    BY <1>1, <1>2, <2>1, PublicationKept
<1>3. CASE Raise
  <2>1. UNCHANGED <<watermark, parts, history, manifest, events>> /\ stale' = FALSE /\ pc' = "idle" /\ Refused
    BY <1>3 DEF Raise, Unwind, control, crm
  <2>2. pc \notin {"write", "manifest"} \/ "publication" \in interrupts'.cut
    <3>1. CASE PublicationWhole
      <4>1. pc = "write" => ~\E o \in files : \E i \in ItemsOf(Recorded(day, {o})) : i \in Creates /\ Exists(i)
        BY <3>1, NothingExists
      <4> QED
        BY <2>1, <4>1 DEF Refused
    <3>2. CASE ~PublicationWhole
      BY <1>1, <3>2 DEF PublicationOK
    <3> QED
      BY <3>1, <3>2
  <2> QED
    BY <1>2, <2>1, <2>2
<1>4. CASE Interrupt
  <2>1. /\ UNCHANGED <<watermark, parts, history, manifest, events>> /\ stale' = FALSE /\ pc' = "idle"
        /\ interrupts'.cut = interrupts.cut \cup PartCut(pc)
    BY <1>4 DEF Interrupt, Unwind, control, crm
  <2>2. pc \in {"write", "manifest"} => "publication" \in interrupts'.cut
    BY <2>1 DEF PartCut
  <2> QED
    BY <1>2, <2>1, <2>2
<1>5. CASE Tick \/ UNCHANGED vars
  BY <1>2, <1>5 DEF Tick, vars, control, crm, locals
<1>6. CASE RecordingDone
  <2>1. /\ UNCHANGED <<watermark, parts, history, manifest, events, stale>> /\ pc = "record"
        /\ pc' = AfterRecord(group) /\ group \in Groups
    BY <1>6 DEF RecordingDone, control, crm, Inv, Shape, TypeOK
  <2>2. pc' # "manifest"
    BY <2>1 DEF AfterRecord, Groups
  <2> QED
    BY <1>2, <2>1, <2>2
<1>7. CASE RunThrough \/ Claim \/ ClaimSource \/ PlanGroup \/ Apply \/ MarkApplied \/ Reconcile \/ Complete
  <2>1. /\ UNCHANGED <<watermark, parts, history, manifest, events>> /\ pc' # "manifest"
        /\ stale' = stale \/ stale' = FALSE
        /\ pc \notin {"write", "manifest"}
    BY <1>7 DEF RunThrough, StartDay, Claim, ClaimSource, PlanGroup, Apply, MarkApplied, Reconcile, Complete,
                control, crm, locals
  <2> QED
    BY <1>2, <2>1
<1> QED
  BY <1>3, <1>4, <1>5, <1>6, <1>7, RecordEventPublication, PublishPublication, WritePartitionPublication,
     WriteHistoryPublication, WriteManifestPublication, AdvancePublication DEF Next, RunnerStep

(* The keys of the planned events.                                         *)

LEMMA PlannedOwnIds ==
    ASSUME NEW d, NEW S, NEW e \in Planned(d, S), Kind[e.item] \notin Numbered
    PROVE  e.id = e.item
<1> DEFINE num(i) == IF Kind[i] \in Numbered
                     THEN NextId(Kind[i]) + Cardinality({k \in S : Kind[k] = Kind[i] /\ k < i}) ELSE i
<1>1. \A i \in S : Kind[i] \notin Numbered => num(i) = i
  OBVIOUS
<1>2. Planned(d, S) = {[day |-> d, item |-> i, id |-> num(i)] : i \in S}
  BY DEF Planned
<1> HIDE DEF num
<1>3. PICK i \in S : e = [day |-> d, item |-> i, id |-> num(i)]
  BY <1>2
<1> QED
  BY <1>1, <1>3

LEMMA NextIdSame ==
    ASSUME NEW k, {s \in rows' : s.kind = k} = {s \in rows : s.kind = k}
    PROVE  NextId(k)' = NextId(k)
<1> DEFINE top(used) == IF used = {} THEN 1 ELSE 1 + CHOOSE n \in used : \A m \in used : m <= n
<1>1. {r.id : r \in {s \in rows' : s.kind = k}} = {r.id : r \in {s \in rows : s.kind = k}}
  OBVIOUS
<1>2. /\ NextId(k)' = top({r.id : r \in {s \in rows' : s.kind = k}})
      /\ NextId(k) = top({r.id : r \in {s \in rows : s.kind = k}})
  BY DEF NextId
<1> HIDE DEF top
<1> QED
  BY <1>1, <1>2

LEMMA KeysKept ==
    ASSUME KeysOK, UNCHANGED <<applied, rows>>, events' \cup todo' \subseteq events \cup todo
    PROVE  KeysOK'
<1>1. \A k : Waiting(k)' \subseteq Waiting(k) /\ NextId(k)' = NextId(k)
  <2>1. \A k : Waiting(k)' \subseteq Waiting(k)
    BY DEF Waiting
  <2>2. ASSUME NEW k PROVE NextId(k)' = NextId(k)
    BY NextIdSame
  <2> QED
    BY <2>1, <2>2
<1> QED
  BY <1>1 DEF KeysOK

LEMMA WaitsToday ==
    ASSUME Inv, NEW k \in {"order", "posting"}, NEW e \in events, Kind[e.item] = k, e \notin applied
    PROVE  e \in Recorded(watermark + 1, {k})
<1>1. e.day = watermark + 1
  BY EarlierApplied DEF Objects
<1> QED
  BY <1>1 DEF Recorded

LEMMA PlanGroupKeys ==
    ASSUME Inv, KeysOK, PlanGroup PROVE KeysOK'
<1>1. /\ UNCHANGED <<events, applied, rows, group, day>>
      /\ pc = "plan" /\ todo = {} /\ todo' = Plan(group, day)
  BY DEF PlanGroup, control, sourceDbs, Inv, ProcessOK
<1>2. day \in Days /\ day = watermark + 1 /\ group \in Groups /\ Shape
  BY <1>1, RunningDay DEF Inv, Shape, TypeOK
<1>3. PICK S \in SUBSET Items : /\ \A i \in S : Kind[i] \in KindsOf(group)
                                /\ todo' = {} \/ todo' = Planned(day, S)
  BY <1>1, <1>2, PlanIsPlanned
<1>4. \A e \in todo' : Kind[e.item] \notin Numbered => e.id = e.item
  BY <1>3, PlannedOwnIds
<1>5. \A e \in events' \cup todo' : Kind[e.item] \notin Numbered => e.id = e.item
  BY <1>1, <1>4 DEF KeysOK
<1>6. ASSUME NEW k \in {"order", "posting"}
      PROVE  /\ \A e \in Waiting(k)' : e.id >= NextId(k)
             /\ \A e, f \in Waiting(k)' : e.id = f.id => e = f
  <2>1. CASE \A e \in todo' : Kind[e.item] # k
    <3>1. Waiting(k)' \subseteq Waiting(k)
      BY <1>1, <2>1 DEF Waiting
    <3> QED
      BY <3>1 DEF KeysOK
  <2>2. CASE \E e \in todo' : Kind[e.item] = k
    <3>1. PICK e \in todo' : Kind[e.item] = k
      BY <2>2
    <3>2. todo' = Planned(day, S) /\ k \in KindsOf(group)
      BY <1>2, <1>3, <3>1, PlannedEvents
    <3>3. group = k
      BY <1>2, <1>6, <3>2, KindsFacts DEF Groups, Objects, Fulfilling
    <3>4. Recorded(day, {k}) = {}
      BY <1>1, <1>6, <3>1, <3>3 DEF Plan
    <3>5. Waiting(k)' \subseteq todo' /\ \A f \in Waiting(k)' : Kind[f.item] = k
      BY <1>1, <1>2, <3>4, WaitsToday DEF Waiting
    <3>6. k \in Numbered \cap Kinds
      BY <1>6 DEF Numbered, Kinds, OpsKinds
    <3> QED
      BY <1>2, <3>2, <3>5, <3>6, PlannedIds
  <2> QED
    BY <2>1, <2>2
<1>7. \A k : NextId(k)' = NextId(k)
  <2>1. ASSUME NEW k PROVE NextId(k)' = NextId(k)
    BY <1>1, NextIdSame
  <2> QED
    BY <2>1
<1>8. \A e \in applied' : \E r \in rows' : r.kind = Kind[e.item] /\ r.id = e.id
  BY <1>1 DEF KeysOK
<1> QED
  BY <1>5, <1>6, <1>7, <1>8 DEF KeysOK

LEMMA ApplyKeys ==
    ASSUME Inv, KeysOK, Apply PROVE KeysOK'
<1>1. /\ UNCHANGED <<events, todo, day>> /\ pc = "apply" /\ todo = {}
      /\ group \in {"order", "support", "posting"}
  BY DEF Apply, control, Inv, ProcessOK
<1>2. day \in Days /\ day = watermark + 1
  BY <1>1, RunningDay
<1>3. /\ Batch \subseteq events /\ applied' = applied \cup Batch /\ rows \subseteq rows'
      /\ group = "order" => Batch = Recorded(day, {"order"}) \ applied
      /\ group = "support" => Batch = Recorded(day, FollowUps) \ applied
      /\ group = "posting" => Batch = Recorded(day, {"posting"}) \ applied
  BY ApplyAdds, ApplyRows DEF Batch
<1>4. ASSUME NEW k \in {"order", "posting"}
      PROVE  /\ \A e \in Waiting(k)' : e.id >= NextId(k)'
             /\ \A e, f \in Waiting(k)' : e.id = f.id => e = f
  <2>1. CASE group = k
    <3>1. Batch = Recorded(day, {k}) \ applied
      BY <1>3, <1>4, <2>1
    <3>2. Waiting(k)' = {}
      BY <1>1, <1>2, <1>3, <3>1, WaitsToday DEF Waiting
    <3> QED
      BY <3>2
  <2>2. CASE group # k
    <3>1. \A e \in Batch : Kind[e.item] # k
      BY <1>1, <1>3, <1>4, <2>2 DEF Recorded, FollowUps
    <3>2. {r \in rows' : r.kind = k} = {r \in rows : r.kind = k}
      BY <3>1, ApplyRows
    <3>3. NextId(k)' = NextId(k)
      BY <3>2, NextIdSame
    <3>4. Waiting(k)' \subseteq Waiting(k)
      BY <1>1, <1>3 DEF Waiting
    <3> QED
      BY <3>3, <3>4 DEF KeysOK
  <2> QED
    BY <2>1, <2>2
<1>5. \A e \in applied' : \E r \in rows' : r.kind = Kind[e.item] /\ r.id = e.id
  <2>1. PICK new : /\ \A e \in Batch : Row(e) \in new \/ Taken(Row(e), rows \cup new)
                   /\ rows' = rows \cup new
    BY ApplyAdds
  <2>2. \A e : Row(e).kind = Kind[e.item] /\ Row(e).id = e.id
    BY DEF Row
  <2>3. ASSUME NEW e \in Batch PROVE \E r \in rows' : r.kind = Kind[e.item] /\ r.id = e.id
    <3>1. CASE Row(e) \in new
      BY <2>1, <2>2, <3>1
    <3>2. CASE Taken(Row(e), rows \cup new)
      BY <2>1, <2>2, <3>2 DEF Taken
    <3> QED
      BY <2>1, <3>1, <3>2
  <2> QED
    BY <1>3, <2>3 DEF KeysOK
<1>6. \A e \in events' \cup todo' : Kind[e.item] \notin Numbered => e.id = e.item
  BY <1>1 DEF KeysOK
<1> QED
  BY <1>4, <1>5, <1>6 DEF KeysOK

LEMMA StepKeys ==
    ASSUME Inv, KeysOK, [Next]_vars PROVE KeysOK'
<1>1. CASE Tick \/ UNCHANGED vars
  BY <1>1, KeysKept DEF Tick, vars, control, sourceDbs, locals
<1>2. CASE Raise \/ Interrupt \/ RunThrough \/ Advance
  <2>1. UNCHANGED <<applied, rows, events>> /\ todo' = {}
    BY <1>2 DEF Raise, Interrupt, RunThrough, Advance, StartDay, Unwind, control, sourceDbs
  <2> QED
    BY <2>1, KeysKept
<1>3. CASE RecordEvent
  <2>1. UNCHANGED <<applied, rows>> /\ \E e \in todo : events' = events \cup {e} /\ todo' = todo \ {e}
    BY <1>3 DEF RecordEvent, sourceDbs
  <2> QED
    BY <2>1, KeysKept
<1>4. CASE Claim \/ ClaimSource \/ RecordingDone \/ Publish \/ WriteHistory \/ WriteManifest
           \/ (\E o \in Objects : WritePartition(o)) \/ MarkApplied \/ Reconcile \/ Complete
  <2>1. UNCHANGED <<applied, rows, events, todo>>
    BY <1>4 DEF Claim, ClaimSource, RecordingDone, Publish, WriteHistory, WriteManifest, WritePartition,
                MarkApplied, Reconcile, Complete, control, sourceDbs, locals
  <2> QED
    BY <2>1, KeysKept
<1> QED
  BY <1>1, <1>2, <1>3, <1>4, PlanGroupKeys, ApplyKeys DEF Next, RunnerStep

LEMMA StepRetry == Inv /\ Replay /\ Retry /\ [Next]_vars => Retry'
BY StepClaimWhole, StepAhead, StepPublication, StepKeys DEF Retry

(* No transaction of a retry meets a primary key that is taken.            *)
LEMMA NoCollision ==
    ASSUME Inv, Replay, KeysOK, pc = "apply" PROVE ~Collision
<1>1. day \in Days /\ day = watermark + 1 /\ group \in {"order", "support", "posting"} /\ Shape
  BY RunningDay DEF Inv, ProcessOK
<1>2. /\ Batch \subseteq events
      /\ \A e \in Batch : e.day = day /\ e \notin applied /\ Kind[e.item] \in {"order", "posting"} \cup FollowUps
  BY <1>1 DEF Batch, Recorded
<1>3. \A e : Row(e).kind = Kind[e.item] /\ Row(e).id = e.id /\ Row(e).item = e.item
  BY DEF Row
<1>4. \A r \in rows : \E f \in events : r = Row(f)
  BY DEF Replay, RowsOK
<1>5. events \subseteq Event /\ \A e \in events : e.id \in Nat
  BY DEF Inv, Shape, TypeOK, Event
<1>6. ASSUME NEW k \in Kinds, NEW e \in Batch, Kind[e.item] = k,
             e.id >= NextId(k),
             \A f \in Batch : Kind[f.item] = k /\ e.id = f.id => e = f
      PROVE  ~Taken(Row(e), rows \cup {Row(f) : f \in Batch})
  <2>1. NextId(k) \in Nat /\ \A r \in rows : r.kind = k => r.id < NextId(k)
    BY <1>1, NextIdFree
  <2>2. e.id \in Nat /\ \A r \in rows : r.id \in Nat
    BY <1>2, <1>5 DEF Inv, Shape
  <2>3. \A r \in rows : r.kind = k => r.id # e.id
    BY <1>6, <2>1, <2>2
  <2>4. \A f \in Batch : Kind[f.item] = k /\ f.id = e.id => f.item = e.item
    BY <1>6
  <2> QED
    BY <1>3, <1>6, <2>3, <2>4 DEF Taken
<1>7. ASSUME NEW e \in Batch, Kind[e.item] \in {"order", "posting"}
      PROVE  ~Taken(Row(e), rows \cup {Row(f) : f \in Batch})
  <2>1. PICK k \in {"order", "posting"} : Kind[e.item] = k
    BY <1>7
  <2>2. \A f \in Batch : Kind[f.item] = k => f \in Waiting(k)
    BY <1>2 DEF Waiting
  <2>3. k \in Kinds
    BY <2>1 DEF Kinds, OpsKinds
  <2>4. e.id >= NextId(k) /\ \A f \in Batch : Kind[f.item] = k /\ e.id = f.id => e = f
    BY <1>7, <2>1, <2>2 DEF KeysOK
  <2> QED
    BY <1>6, <1>7, <2>1, <2>3, <2>4
<1>8. ASSUME NEW e \in Batch, Kind[e.item] = "shipment"
      PROVE  ~Taken(Row(e), rows \cup {Row(f) : f \in Batch})
  <2>1. PlanFulfillment(day) \in SUBSET Items /\ "shipment" \in Numbered \cap Kinds
    BY DEF PlanFulfillment, Numbered, Kinds, OpsKinds, FollowUps
  <2>2. \A f \in Batch : Kind[f.item] = "shipment" => f \in Planned(day, PlanFulfillment(day))
    BY <1>1, <1>2 DEF Replay, PendingOK, Recorded, Fulfilling
  <2>3. e.id >= NextId("shipment") /\ \A f \in Batch : Kind[f.item] = "shipment" /\ e.id = f.id => e = f
    BY <1>1, <1>8, <2>1, <2>2, PlannedIds
  <2> QED
    BY <1>6, <1>8, <2>1, <2>3
<1>9. ASSUME NEW e \in Batch, Kind[e.item] \in {"invoice", "delivery"}
      PROVE  ~Taken(Row(e), rows \cup {Row(f) : f \in Batch})
  <2>1. \A f \in events : Kind[f.item] = Kind[e.item] => f.id = f.item
    BY <1>9 DEF KeysOK, Numbered
  <2>2. \A r \in rows \cup {Row(f) : f \in Batch} : \E f \in events : r = Row(f)
    BY <1>2, <1>4
  <2> QED
    BY <1>2, <1>3, <2>1, <2>2 DEF Taken
<1> QED
  BY <1>2, <1>7, <1>8, <1>9 DEF Collision, FollowUps

(* A date whose sources are applied reconciles.                            *)
LEMMA ReconcilesNow ==
    ASSUME Inv, Replay, AheadOK, PublicationOK, KeysOK, PublicationWhole, pc = "reconcile"
    PROVE  Reconciled(day)
<1>1. day \in Days /\ day = watermark + 1 /\ group = "posting"
  BY RunningDay DEF Inv, ProcessOK
<1>2. src[day]["crm"] = "applied" /\ src[day]["ops"] = "applied" /\ src[day]["erp"] = "applied"
  BY <1>1 DEF AheadOK
<1>3. /\ manifest[day] # NoManifest
      /\ Recorded(day, OpsKinds) \subseteq applied /\ Recorded(day, {"posting"}) \subseteq applied
  BY <1>1, <1>2 DEF Replay, SourcesOK
<1>4. HistoryReconciled(day)
  <2>1. manifest[day] = ItemsOf(Recorded(day, Objects))
    BY <1>1, <1>3 DEF Inv, ManifestOK
  <2>2. ItemsOf(Recorded(day, {"opportunities"})) \subseteq ItemsOf(Recorded(day, Objects))
    BY DEF ItemsOf, Recorded, Objects
  <2>3. Recorded(day, {"opportunities"}) # {} => history[day] = "good"
    BY <1>1, <1>3 DEF PublicationWhole
  <2>4. Recorded(day, {"opportunities"}) = {} => history[day] = "none"
    BY <1>1 DEF PublicationOK
  <2> QED
    BY <1>3, <2>1, <2>2, <2>3, <2>4 DEF HistoryReconciled
<1>5. \A e \in Recorded(day, OpsKinds \cup {"posting"}) : e \in applied
  BY <1>3 DEF Recorded
<1>6. \A e \in applied : \E r \in rows : r.kind = Kind[e.item] /\ r.id = e.id
  BY DEF KeysOK
<1> QED
  BY <1>4, <1>5, <1>6 DEF Reconciled

Unharmed == interrupts.cut \cap {"claim", "publication"} = {}

LEMMA NotRefused ==
    ASSUME Inv, Replay, Retry, Unharmed PROVE ~Refused
<1>1. PublicationWhole
  BY DEF Unharmed, Retry, PublicationOK
<1>2. pc # "idle" => day \in Days /\ day = watermark + 1 /\ group \in Groups
  BY RunningDay DEF Inv, Shape, TypeOK
<1>3. pc \in {"record", "mark"} => src[day][SourceOf(group)] # "none"
  <2>1. group \in Groups => SourceOf(group) \in Sources
    BY DEF SourceOf, Groups, Sources
  <2> QED
    BY <1>2, <2>1 DEF Unharmed, Retry, ClaimWhole, AheadOK
<1>4. pc = "plan" => ~OutOfOrder
  BY DEF OutOfOrder, Retry, AheadOK
<1>5. pc = "publish" => manifest[day] \in {NoManifest, ItemsOf(Recorded(day, Objects))}
  BY <1>2 DEF Inv, ManifestOK
<1>6. pc = "write" => ~\E o \in files : \E i \in ItemsOf(Recorded(day, {o})) : i \in Creates /\ Exists(i)
  BY <1>1, NothingExists
<1>7. pc = "apply" => ~Collision
  BY NoCollision DEF Retry
<1>8. pc = "reconcile" => Reconciled(day)
  BY <1>1, ReconcilesNow DEF Retry
<1> QED
  BY <1>3, <1>4, <1>5, <1>6, <1>7, <1>8 DEF Refused

(* No guard of the run stops it: nothing raises, mark_source_applied finds *)
(* the sources ahead of this one applied, and complete_run the next date   *)
(* with all of its sources applied.                                        *)
Proceeds ==
    /\ ~Refused
    /\ pc = "mark" => /\ SourceOf(group) = "ops" => src[day]["crm"] = "applied"
                      /\ SourceOf(group) = "erp" => src[day]["crm"] = "applied" /\ src[day]["ops"] = "applied"
    /\ pc = "complete" => day = watermark + 1 /\ \A s \in Sources : src[day][s] = "applied"

(* Only two interruptions can make the daemon's retries fail: one between  *)
(* the inserts of claim_run, and one inside a publication.  As long as     *)
(* neither has happened, wherever else and however often the runs were cut *)
(* off, no guard of an attempt refuses its next statement: the keys that   *)
(* an earlier attempt recorded are still free, what it published is not    *)
(* created again, and the date reconciles.                                 *)
THEOREM RetryProceeds == Spec => [](interrupts.cut \cap {"claim", "publication"} = {} => Proceeds)
<1>1. Inv /\ Replay /\ Retry => (interrupts.cut \cap {"claim", "publication"} = {} => Proceeds)
  <2> SUFFICES ASSUME Inv, Replay, Retry, Unharmed PROVE Proceeds
    BY DEF Unharmed
  <2>1. ~Refused
    BY NotRefused
  <2>2. pc = "mark" => group \in {"crm", "support", "posting"}
    BY DEF Inv, ProcessOK
  <2>3. pc = "complete" => group = "posting" /\ day = watermark + 1
    BY RunningDay DEF Inv, ProcessOK
  <2>4. pc = "complete" => \A s \in Sources : src[day][s] = "applied"
    BY <2>3 DEF Retry, AheadOK, Sources
  <2>5. /\ SourceOf("crm") = "crm" /\ SourceOf("support") = "ops" /\ SourceOf("posting") = "erp"
    BY GroupFacts
  <2>6. pc = "mark" => /\ SourceOf(group) = "ops" => src[day]["crm"] = "applied"
                       /\ SourceOf(group) = "erp" => src[day]["crm"] = "applied" /\ src[day]["ops"] = "applied"
    BY <2>2, <2>5 DEF Retry, AheadOK
  <2> QED
    BY <2>1, <2>3, <2>4, <2>6 DEF Proceeds
<1> QED
  BY <1>1, InitRetry, StepRetry, ReplayInvariance, PTL DEF Spec
=============================================================================
