------------------------ MODULE SourceUpgradeProofs ------------------------
(***************************************************************************)
(* Proofs about SourceUpgrade, for any releases, seed files, runners and   *)
(* crashes, and any batch size.                                            *)
(***************************************************************************)
EXTENDS SourceUpgrade, NumberLemmas, SequenceTheorems, TLAPS

Rows(k) == [data: RowOf(k), audit: BOOLEAN, own: BOOLEAN]

(* What being inserted and moved by the simulator makes of a row: its      *)
(* dates are the simulator's.                                              *)
OwnRow(k, r) ==
    CASE k = "order"    -> r.created = Timestamp(SimDay, 0) /\ r.ship \in {Null, Date(SimDay + 1)}
      [] k = "shipment" -> r.ship = Date(SimDay)
      [] k = "invoice"  -> /\ r.status = "ISSUED" /\ r.created = Timestamp(SimDay, 0)
                           /\ r.updated \in {Null, Timestamp(SimDay, 0)}
      [] k = "case"     -> /\ r.opened = Timestamp(SimDay, 0)
                           /\ r.updated \in {Null, Timestamp(SimDay, 0), Timestamp(SimDay + 1, 0),
                                            Timestamp(SimDay + 2, 0)}
                           /\ r.status # "Open" => r.resolution_hours = HoursPerDay

(* What a simulator that stamps its rows makes of a case that is no longer *)
(* open.                                                                   *)
Timely(k, r) ==
    k = "case" /\ r.status # "Open" =>
        r.updated \in {Null, Timestamp(SimDay + 1, 0), Timestamp(SimDay + 2, 0)}

(* Every row satisfies the constraints of its table, whoever wrote it.     *)
Shape ==
    /\ kind \in RowKinds /\ checkout \in DOMAIN Checkouts
    /\ ledger \in Seq(STRING)
    /\ rows \in Seq(Rows(kind))
    /\ \A k \in Keys : rows[k].own => OwnRow(kind, rows[k].data)
    /\ progress \in [Targets -> [exists: BOOLEAN, last: Nat, scanned: Nat, completed: BOOLEAN]]
    /\ DOMAIN runner = Runners
    /\ \A r \in Runners : runner[r] = [pc |-> runner[r].pc, keys |-> runner[r].keys, events |-> runner[r].events]

(* The advisory lock makes the audit runner that reads the one that writes,*)
(* and what it read is what the checkpoint is followed by.                 *)
AuditOK ==
    LET p == progress["audit"]
    IN  /\ \A r \in AuditRunners : runner[r].pc # "idle" => lock = r
        /\ p.completed \/ (\E r \in AuditRunners : runner[r].pc # "idle") => HasProgress
        /\ p.last <= Len(rows)
        /\ AuditCheckpointTrue
        /\ \A r \in AuditRunners : InTransaction(r) =>
              \E m \in p.last..Len(rows) :
                  /\ runner[r].keys = p.last + 1..m
                  /\ m = p.last => \A k \in Keys \ late : rows[k].audit

HistoryAlone == \A q, r \in HistoryRunners : InTransaction(q) /\ InTransaction(r) => q = r

(* Without a lock: whatever a history runner read, the rows up to each of  *)
(* its keys have a history or are its keys too.  A load may overtake a     *)
(* runner that has read the empty table; it is then the only one.          *)
HistoryOK ==
    LET p == progress["history"]
    IN  /\ p.completed \/ (\E r \in HistoryRunners : InTransaction(r)) => HasHistory
        /\ p.last <= Len(rows)
        /\ \A k \in Keys : k <= p.last => HistoryOf(k) # {}
        /\ p.scanned > 0 => rows # <<>>
        /\ ~p.exists => p.scanned = 0 /\ ~p.completed /\ HistoryAlone
        /\ rows = <<>> /\ p.exists => p.completed /\ \A r \in HistoryRunners : ~InTransaction(r)
        /\ p.completed => \/ \A k \in Keys \ late : HistoryOf(k) # {}
                          \/ p.scanned = 0 /\ \A r \in HistoryRunners : ~InTransaction(r)
        /\ \A r \in HistoryRunners : InTransaction(r) =>
              /\ runner[r].keys \subseteq Keys
              /\ runner[r].keys = {} => (\A k \in Keys \ late : HistoryOf(k) # {}) \/ ~p.exists
              /\ \A k \in runner[r].keys : \A j \in 1..k : j \in runner[r].keys \/ HistoryOf(j) # {}
              /\ \A k \in runner[r].keys : \E e \in runner[r].events : e.key = k

Inv == Shape /\ AuditOK /\ HistoryOK

----------------------------------------------------------------------------
(* Lemmas about the operators of the model.                                *)

(* What is appended to an unchanged prefix makes it whole.                 *)
LEMMA PrefixCompleted ==
    ASSUME NEW s \in Seq(STRING), NEW t \in Seq(STRING), IsPrefix(s, t)
    PROVE  s \o SubSeq(t, Len(s) + 1, Len(t)) = t /\ Len(s) <= Len(t)
<1>1. Len(s) <= Len(t) /\ SubSeq(s, 1, Len(s)) = SubSeq(t, 1, Len(s))
  BY DEF IsPrefix
<1>2. Len(s) \in Nat /\ Len(t) \in Nat
  BY LenProperties
<1>3. SubSeq(s, 1, Len(s)) = s
  BY SubSeqFull
<1>4. s = SubSeq(t, 1, Len(s))
  BY <1>1, <1>3
<1>5. SubSeq(t, 1, Len(s)) \o SubSeq(t, Len(s) + 1, Len(t)) = SubSeq(t, 1, Len(t))
  <2>1. 1 \in 1..Len(t) + 1 /\ Len(s) \in 1 - 1..Len(t) /\ Len(t) \in Len(s)..Len(t)
    BY <1>1, <1>2
  <2> QED
    BY <2>1, ConcatAdjacentSubSeq
<1>6. SubSeq(t, 1, Len(t)) = t
  BY SubSeqFull
<1> QED
  BY <1>1, <1>4, <1>5, <1>6

(* Adding hours to a point in time gives one.                              *)
LEMMA AddHoursType ==
    ASSUME NEW t \in Stamps, NEW n \in Nat
    PROVE  AddHours(t, n) \in Stamps
<1>1. t.day \in Nat /\ t.hour \in Nat /\ HoursPerDay \in Nat /\ HoursPerDay > 0
  BY HoursAssumption DEF Stamps
<1>2. t.hour + n \in Nat
  BY <1>1
<1>3. (t.hour + n) % HoursPerDay \in 0..HoursPerDay - 1 /\ (t.hour + n) \div HoursPerDay \in Nat
  BY <1>1, <1>2
<1>4. t.day + (t.hour + n) \div HoursPerDay \in Nat
  BY <1>1, <1>3
<1> QED
  BY <1>3, <1>4 DEF AddHours, Timestamp, Stamps

LEMMA NotNull ==
    /\ Null \notin Stamps /\ Null \notin Dates
    /\ \A d \in Nat : Timestamp(d, 0) \in Stamps /\ Date(d) \in Dates
<1>1. Null = [day |-> -1, hour |-> 0, whole |-> TRUE]
  BY DEF Null, Date
<1>2. Null \notin Stamps /\ Null \notin Dates
  BY <1>1 DEF Stamps, Dates
<1>3. 0 \in 0..HoursPerDay - 1
  BY HoursAssumption
<1>4. \A d \in Nat : Timestamp(d, 0) \in Stamps
  BY <1>3 DEF Stamps, Timestamp
<1>5. \A d \in Nat : Date(d) \in Dates
  BY DEF Dates, Date
<1> QED
  BY <1>2, <1>4, <1>5

LEMMA StampDays ==
    ASSUME NEW t, t \in Stamps \/ t \in Dates
    PROVE  t # Null /\ _is_date(t) /\ t.day \in Int
<1>1. t.day \in Int
  <2>1. CASE t \in Stamps
    BY <2>1 DEF Stamps
  <2>2. CASE t \in Dates
    BY <2>2 DEF Dates
  <2> QED
    BY <2>1, <2>2
<1> QED
  BY <1>1, NotNull DEF _is_date

LEMMA RowKindsCases ==
    ASSUME NEW k \in RowKinds PROVE k \in {"order", "shipment", "invoice", "case"}
BY UpgradeAssumption DEF Kinds

(* A whole day later.                                                      *)
LEMMA AddADay ==
    AddHours(Timestamp(SimDay, 0), HoursPerDay) = Timestamp(SimDay + 1, 0)
<1>1. HoursPerDay \in Nat /\ HoursPerDay > 0 /\ SimDay \in Nat
  BY HoursAssumption, UpgradeAssumption
<1>2. (0 + HoursPerDay) \div HoursPerDay = 1 /\ (0 + HoursPerDay) % HoursPerDay = 0
  BY <1>1
<1>3. Timestamp(SimDay, 0).day = SimDay /\ Timestamp(SimDay, 0).hour = 0
  BY DEF Timestamp
<1> QED
  BY <1>2, <1>3 DEF AddHours

LEMMA OrderRow ==
    ASSUME NEW r
    PROVE  r \in RowOf("order") <=>
             /\ r \in [status: {"PENDING", "SHIPPED", "INVOICED", "CANCELLED"}, created: Stamps,
                       ship: Dates \cup {Null}, invoice: Stamps \cup {Null}, updated: Stamps]
             /\ _is_not_before(r.updated, r.created)
BY DEF RowOf

LEMMA ShipmentRow ==
    ASSUME NEW r
    PROVE  r \in RowOf("shipment") <=>
             /\ r \in [ship: Dates, delivered: Dates \cup {Null}]
             /\ r.delivered = Null \/ _is_not_before(r.delivered, r.ship)
BY DEF RowOf

LEMMA InvoiceRow ==
    ASSUME NEW r
    PROVE  r \in RowOf("invoice") <=>
             r \in [status: {"ISSUED", "VOID"}, created: Stamps, updated: Stamps \cup {Null}]
BY DEF RowOf

LEMMA CaseRow ==
    ASSUME NEW r
    PROVE  r \in RowOf("case") <=>
             /\ r \in [status: {"Open", "Resolved", "Closed"}, opened: Stamps,
                       resolution_hours: Nat \cup {-1}, updated: Stamps \cup {Null}]
             /\ r.status = "Open" => r.resolution_hours = -1
BY DEF RowOf

(* What the audit backfill writes keeps the constraints and the state, is  *)
(* what it has to write, and a second time it writes nothing.              *)
LEMMA FillType ==
    ASSUME NEW k \in RowKinds, NEW r \in RowOf(k)
    PROVE  /\ Fill(k, r) \in RowOf(k) /\ (OwnRow(k, r) => OwnRow(k, Fill(k, r)))
           /\ Filled(k, Fill(k, r)) /\ (Filled(k, r) => Fill(k, r) = r)
<1>1. CASE k \in {"order", "shipment"}
  BY <1>1 DEF Fill, Filled
<1>2. CASE k = "invoice"
  <2>1. r \in [status: {"ISSUED", "VOID"}, created: Stamps, updated: Stamps \cup {Null}]
    BY <1>2, InvoiceRow
  <2>2. PICK f : f = [r EXCEPT !.updated = r.created]
    OBVIOUS
  <2>3. /\ f \in [status: {"ISSUED", "VOID"}, created: Stamps, updated: Stamps \cup {Null}]
        /\ f.updated = r.created /\ f.status = r.status /\ f.created = r.created /\ r.created \in Stamps
    BY <2>1, <2>2
  <2>4. Fill(k, r) = IF _is_date(r.updated) THEN r ELSE f
    BY <1>2, <2>2 DEF Fill
  <2>5. _is_date(f.updated)
    BY <2>3, NotNull DEF _is_date
  <2>6. OwnRow(k, r) => OwnRow(k, f)
    BY <1>2, <2>3 DEF OwnRow
  <2> QED
    BY <1>2, <2>1, <2>3, <2>4, <2>5, <2>6, InvoiceRow DEF Filled
<1>3. CASE k = "case"
  <2> DEFINE T == [status: {"Open", "Resolved", "Closed"}, opened: Stamps,
                   resolution_hours: Nat \cup {-1}, updated: Stamps \cup {Null}]
  <2>1. r \in T /\ (r.status = "Open" => r.resolution_hours = -1)
    BY <1>3, CaseRow
  <2>2. r.opened \in Stamps /\ r.resolution_hours \in Nat \cup {-1}
    BY <2>1
  <2>3. PICK u : u = IF r.resolution_hours < 0 THEN r.opened ELSE AddHours(r.opened, r.resolution_hours)
    OBVIOUS
  <2>4. u \in Stamps
    <3>1. CASE r.resolution_hours < 0
      BY <2>2, <2>3, <3>1
    <3>2. CASE ~(r.resolution_hours < 0)
      <4>1. r.resolution_hours \in Nat
        BY <2>2, <3>2
      <4> QED
        BY <2>2, <2>3, <3>2, <4>1, AddHoursType
    <3> QED
      BY <3>1, <3>2
  <2>5. PICK f : f = [r EXCEPT !.updated = u]
    OBVIOUS
  <2>6. Fill(k, r) = IF _is_date(r.updated) THEN r ELSE f
    BY <1>3, <2>3, <2>5 DEF Fill
  <2>7. /\ f \in T /\ f.opened = r.opened /\ f.updated = u /\ f.status = r.status
        /\ f.resolution_hours = r.resolution_hours
    BY <2>1, <2>4, <2>5
  <2>8. f \in RowOf("case")
    BY <2>1, <2>7, CaseRow
  <2>9. _is_date(f.updated)
    BY <2>4, <2>7, NotNull DEF _is_date
  <2>10. ASSUME OwnRow(k, r) PROVE OwnRow(k, f)
    <3>1. /\ r.opened = Timestamp(SimDay, 0)
          /\ r.status # "Open" => r.resolution_hours = HoursPerDay
      BY <1>3, <2>10 DEF OwnRow
    <3>2. u \in {Timestamp(SimDay, 0), Timestamp(SimDay + 1, 0)}
      <4>1. CASE r.status = "Open"
        <5>1. r.resolution_hours < 0
          BY <2>1, <4>1
        <5> QED
          BY <2>3, <3>1, <5>1
      <4>2. CASE r.status # "Open"
        <5>1. ~(HoursPerDay < 0)
          BY HoursAssumption
        <5> QED
          BY <2>3, <3>1, <4>2, <5>1, AddADay
      <4> QED
        BY <4>1, <4>2
    <3> QED
      BY <1>3, <2>7, <3>1, <3>2 DEF OwnRow
  <2> HIDE DEF T
  <2> QED
    BY <1>3, <2>6, <2>8, <2>9, <2>10 DEF Filled
<1> QED
  BY <1>1, <1>2, <1>3, RowKindsCases

(* The row that the simulator inserts satisfies the constraints.           *)
LEMMA NewRowType ==
    ASSUME kind \in RowKinds
    PROVE  NewRow \in RowOf(kind) /\ OwnRow(kind, NewRow) /\ (StampsRows => Filled(kind, NewRow))
<1>1. PICK now : now = Timestamp(SimDay, 0)
  OBVIOUS
<1>2. PICK upd : upd = IF StampsRows THEN now ELSE Null
  OBVIOUS
<1>2a. upd \in {Null, Timestamp(SimDay, 0)}
  BY <1>1, <1>2
<1>3. /\ now \in Stamps /\ Date(SimDay) \in Dates /\ upd \in Stamps \cup {Null}
      /\ StampsRows => _is_date(upd)
  <2>1. now \in Stamps /\ Date(SimDay) \in Dates
    BY <1>1, NotNull, UpgradeAssumption
  <2> QED
    BY <1>2, <2>1, NotNull DEF _is_date
<1>4. CASE kind = "order"
  <2>1. NewRow = [status |-> "PENDING", created |-> now, ship |-> Null, invoice |-> Null, updated |-> now]
    BY <1>1, <1>4 DEF NewRow
  <2>2. _is_not_before(now, now)
    BY <1>3 DEF _is_not_before, Stamps
  <2>3. NewRow \in RowOf("order")
    BY <1>3, <2>1, <2>2, OrderRow
  <2>4. OwnRow("order", NewRow)
    BY <1>1, <2>1 DEF OwnRow
  <2> QED
    BY <1>4, <2>3, <2>4 DEF Filled
<1>5. CASE kind = "shipment"
  <2>1. NewRow = [ship |-> Date(SimDay), delivered |-> Null]
    BY <1>5 DEF NewRow
  <2>2. NewRow \in RowOf("shipment")
    BY <1>3, <2>1, ShipmentRow
  <2>3. OwnRow("shipment", NewRow)
    BY <2>1 DEF OwnRow
  <2> QED
    BY <1>5, <2>2, <2>3 DEF Filled
<1>6. CASE kind = "invoice"
  <2>1. NewRow = [status |-> "ISSUED", created |-> now, updated |-> upd]
    BY <1>1, <1>2, <1>6 DEF NewRow
  <2>2. NewRow \in RowOf("invoice") /\ NewRow.updated = upd
    BY <1>3, <2>1, InvoiceRow
  <2>3. OwnRow("invoice", NewRow)
    BY <1>1, <1>2a, <2>1 DEF OwnRow
  <2> QED
    BY <1>3, <1>6, <2>2, <2>3 DEF Filled
<1>7. CASE kind = "case"
  <2>1. NewRow = [status |-> "Open", opened |-> now, resolution_hours |-> -1, updated |-> upd]
    BY <1>1, <1>2, <1>7 DEF NewRow
  <2>2. NewRow \in RowOf("case") /\ NewRow.updated = upd
    BY <1>3, <2>1, CaseRow
  <2>3. OwnRow("case", NewRow)
    BY <1>1, <1>2a, <2>1 DEF OwnRow
  <2> QED
    BY <1>3, <1>7, <2>2, <2>3 DEF Filled
<1> QED
  BY <1>4, <1>5, <1>6, <1>7, RowKindsCases

(* What the simulator makes of its rows satisfies the constraints.         *)
LEMMA MovedType ==
    ASSUME kind \in RowKinds, NEW r \in RowOf(kind), OwnRow(kind, r)
    PROVE  /\ Moved(r) \in RowOf(kind) /\ OwnRow(kind, Moved(r))
           /\ Filled(kind, r) => Filled(kind, Moved(r))
<1>1. PICK one, two : one = Timestamp(SimDay + 1, 0) /\ two = Timestamp(SimDay + 2, 0)
  OBVIOUS
<1>2. PICK u1, u2 : /\ u1 = (IF StampsRows THEN one ELSE r.updated)
                    /\ u2 = (IF StampsRows THEN two ELSE r.updated)
  OBVIOUS
<1>3. one.day = SimDay + 1 /\ two.day = SimDay + 2 /\ SimDay \in Nat
  BY <1>1, UpgradeAssumption DEF Timestamp
<1>4. /\ one \in Stamps /\ two \in Stamps /\ Date(one.day) \in Dates
      /\ _is_date(one) /\ _is_date(two)
  <2>1. SimDay + 1 \in Nat /\ SimDay + 2 \in Nat
    BY UpgradeAssumption
  <2>2. one \in Stamps /\ two \in Stamps /\ Date(one.day) \in Dates
    BY <1>1, <1>3, <2>1, NotNull
  <2> QED
    BY <2>2, NotNull DEF _is_date
<1>5. CASE kind = "order"
  <2> DEFINE T == [status: {"PENDING", "SHIPPED", "INVOICED", "CANCELLED"}, created: Stamps,
                   ship: Dates \cup {Null}, invoice: Stamps \cup {Null}, updated: Stamps]
  <2>1. r \in T /\ r \in RowOf("order") /\ r.created = Timestamp(SimDay, 0) /\ r.ship \in {Null, Date(SimDay + 1)}
    BY <1>5, OrderRow DEF OwnRow
  <2>2. PICK a : a = [r EXCEPT !.status = "SHIPPED", !.ship = Date(one.day), !.updated = one]
    OBVIOUS
  <2>3. PICK b : b = [r EXCEPT !.status = "INVOICED", !.invoice = two, !.updated = two]
    OBVIOUS
  <2>4. Moved(r) \in {r, a, b}
    BY <1>1, <1>5, <2>2, <2>3 DEF Moved
  <2>5. a \in T /\ a.created = r.created /\ a.updated = one /\ a.ship = Date(SimDay + 1)
    BY <1>3, <1>4, <2>1, <2>2
  <2>6. b \in T /\ b.created = r.created /\ b.updated = two /\ b.ship = r.ship
    BY <1>4, <2>1, <2>3
  <2>7. _is_not_before(one, r.created) /\ _is_not_before(two, r.created)
    <3>1. r.created.day = SimDay
      BY <2>1 DEF Timestamp
    <3>2. one.day > r.created.day /\ two.day > r.created.day
      BY <1>3, <3>1
    <3> QED
      BY <3>2 DEF _is_not_before
  <2>8. a \in RowOf("order") /\ b \in RowOf("order")
    BY <2>5, <2>6, <2>7, OrderRow
  <2>9. OwnRow("order", a) /\ OwnRow("order", b) /\ OwnRow("order", r)
    BY <2>1, <2>5, <2>6 DEF OwnRow
  <2> QED
    BY <1>5, <2>1, <2>4, <2>8, <2>9 DEF Filled
<1>6. CASE kind = "shipment"
  <2>1. r \in [ship: Dates, delivered: Dates \cup {Null}] /\ r \in RowOf("shipment") /\ r.ship = Date(SimDay)
    BY <1>6, ShipmentRow DEF OwnRow
  <2>2. PICK a : a = [r EXCEPT !.delivered = Date(one.day)]
    OBVIOUS
  <2>3. Moved(r) \in {r, a}
    BY <1>1, <1>6, <2>2 DEF Moved
  <2>4. a \in [ship: Dates, delivered: Dates \cup {Null}] /\ a.ship = r.ship /\ a.delivered = Date(SimDay + 1)
    BY <1>3, <1>4, <2>1, <2>2
  <2>5. _is_not_before(a.delivered, a.ship)
    <3>1. a.delivered.day = SimDay + 1 /\ a.ship.day = SimDay
      BY <2>1, <2>4 DEF Date
    <3> QED
      BY <1>3, <3>1 DEF _is_not_before
  <2>6. a \in RowOf("shipment")
    BY <2>4, <2>5, ShipmentRow
  <2>7. OwnRow("shipment", a) /\ OwnRow("shipment", r)
    BY <2>1, <2>4 DEF OwnRow
  <2> QED
    BY <1>6, <2>1, <2>3, <2>6, <2>7 DEF Filled
<1>7. CASE kind = "invoice"
  BY <1>7 DEF Moved
<1>8. CASE kind = "case"
  <2> DEFINE T == [status: {"Open", "Resolved", "Closed"}, opened: Stamps,
                   resolution_hours: Nat \cup {-1}, updated: Stamps \cup {Null}]
  <2>1. /\ r \in T /\ r \in RowOf("case") /\ r.opened = Timestamp(SimDay, 0)
        /\ r.status # "Open" => r.resolution_hours = HoursPerDay
        /\ r.updated \in {Null, Timestamp(SimDay, 0), one, two}
    BY <1>1, <1>8, CaseRow DEF OwnRow
  <2>1a. /\ u1 \in Stamps \cup {Null} /\ u2 \in Stamps \cup {Null}
         /\ u1 \in {Null, Timestamp(SimDay, 0), one, two} /\ u2 \in {Null, Timestamp(SimDay, 0), one, two}
         /\ _is_date(r.updated) => _is_date(u1) /\ _is_date(u2)
    BY <1>2, <1>4, <2>1
  <2>2. (one.day - r.opened.day) * HoursPerDay - r.opened.hour = HoursPerDay
    <3>1. r.opened.day = SimDay /\ r.opened.hour = 0
      BY <2>1 DEF Timestamp
    <3>2. one.day - r.opened.day = 1
      BY <1>3, <3>1
    <3>3. 1 * HoursPerDay - 0 = HoursPerDay
      BY HoursAssumption
    <3> QED
      BY <3>1, <3>2, <3>3
  <2>3. PICK a : a = [r EXCEPT !.status = "Resolved", !.updated = u1, !.resolution_hours = HoursPerDay]
    OBVIOUS
  <2>4. PICK b : b = [r EXCEPT !.status = "Closed", !.updated = u2]
    OBVIOUS
  <2>5. \/ Moved(r) = r \/ Moved(r) = a
        \/ Moved(r) = b /\ r.status # "Open"
    BY <1>1, <1>2, <1>8, <2>2, <2>3, <2>4 DEF Moved
  <2>6. /\ a \in T /\ a.opened = r.opened /\ a.status = "Resolved" /\ a.updated = u1
        /\ a.resolution_hours = HoursPerDay
    BY <2>1, <2>1a, <2>3, HoursAssumption
  <2>7. /\ b \in T /\ b.opened = r.opened /\ b.status = "Closed" /\ b.updated = u2
        /\ b.resolution_hours = r.resolution_hours
    BY <2>1, <2>1a, <2>4
  <2>8. a \in RowOf("case") /\ b \in RowOf("case")
    BY <2>6, <2>7, CaseRow
  <2>9. OwnRow("case", a) /\ (r.status # "Open" => OwnRow("case", b))
    BY <1>1, <2>1, <2>1a, <2>6, <2>7 DEF OwnRow
  <2>10. Filled("case", r) => Filled("case", a) /\ Filled("case", b)
    BY <2>1a, <2>6, <2>7 DEF Filled
  <2> HIDE DEF T
  <2> QED
    BY <1>8, <2>1, <2>5, <2>8, <2>9, <2>10
<1> QED
  BY <1>5, <1>6, <1>7, <1>8, RowKindsCases

(* Every row has a state it began in, so something is inferred from it.    *)
LEMMA SomethingInferred ==
    ASSUME NEW k \in RowKinds, NEW r \in RowOf(k)
    PROVE  1 \in DOMAIN _infer(k, r).events
<1>1. CASE k = "order"
  <2>1. r.created # Null /\ _infer(k, r) = _infer_order(r)
    <3>1. r.created \in Stamps
      BY <1>1, OrderRow
    <3> QED
      BY <1>1, <3>1, NotNull DEF _infer
  <2>2. \E e, f, g : \/ _infer_order(r).events = <<e>> \/ _infer_order(r).events = Append(<<e>>, f)
                    \/ _infer_order(r).events = Append(<<e>>, g)
                    \/ _infer_order(r).events = Append(Append(<<e>>, f), g)
    BY <2>1, Zenon DEF _infer_order, _is_date, Inferred
  <2> QED
    BY <2>1, <2>2
<1>2. CASE k = "shipment"
  <2>1. r.ship # Null /\ _infer(k, r) = _infer_shipment(r)
    <3>1. r.ship \in Dates
      BY <1>2, ShipmentRow
    <3> QED
      BY <1>2, <3>1, NotNull DEF _infer
  <2>2. \E e, f : _infer_shipment(r).events \in {<<e>>, <<e, f>>}
    BY <2>1 DEF _infer_shipment, _is_date, Inferred
  <2> QED
    BY <2>1, <2>2
<1>3. CASE k = "invoice"
  <2>1. r.created # Null /\ _infer(k, r) = _infer_invoice(r)
    <3>1. r.created \in Stamps
      BY <1>3, InvoiceRow
    <3> QED
      BY <1>3, <3>1, NotNull DEF _infer
  <2>2. \E e, f : _infer_invoice(r).events \in {<<e>>, <<e, f>>}
    BY <2>1 DEF _infer_invoice, _is_date, Inferred
  <2> QED
    BY <2>1, <2>2
<1>4. CASE k = "case"
  <2>1. r.opened # Null /\ _infer(k, r) = _infer_support_case(r)
    <3>1. r.opened \in Stamps
      BY <1>4, CaseRow
    <3> QED
      BY <1>4, <3>1, NotNull DEF _infer
  <2>2. \E e, f, g : _infer_support_case(r).events \in {<<e>>, <<e, f>>, <<e, f, g>>}
    BY <2>1 DEF _infer_support_case, _is_date, Inferred
  <2> QED
    BY <2>1, <2>2
<1> QED
  BY <1>1, <1>2, <1>3, <1>4, RowKindsCases

(* A batch is an initial part of the keys, and empty only if there are no  *)
(* keys.                                                                   *)
LEMMA FirstOfKeys ==
    ASSUME NEW S, S \subseteq Nat, IsFiniteSet(S)
    PROVE  /\ FirstOf(S) \subseteq S /\ IsFiniteSet(FirstOf(S))
           /\ FirstOf(S) = {} => S = {}
           /\ \A k \in FirstOf(S) : \A j \in S : j <= k => j \in FirstOf(S)
<1> DEFINE upTo(k) == {m \in S : m <= k}
<1>1. \A k : upTo(k) \subseteq S /\ IsFiniteSet(upTo(k)) /\ Cardinality(upTo(k)) \in Nat
  <2>1. \A k : upTo(k) \in SUBSET S
    OBVIOUS
  <2> HIDE DEF upTo
  <2> QED
    BY <2>1, FS_Subset, FS_CardinalityType
<1>2. BatchSize \in Nat /\ BatchSize >= 1
  BY UpgradeAssumption
<1>3. FirstOf(S) = {k \in S : Cardinality(upTo(k)) <= BatchSize}
  BY DEF FirstOf
<1>4. FirstOf(S) \subseteq S /\ IsFiniteSet(FirstOf(S))
  <2>1. FirstOf(S) \in SUBSET S
    BY <1>3
  <2> QED
    BY <2>1, FS_Subset
<1>5. ASSUME S # {} PROVE FirstOf(S) # {}
  <2>1. PICK x \in S : \A y \in S : x <= y
    BY <1>5, LeastExists
  <2>2. upTo(x) = {x}
    <3>1. x \in Nat /\ \A y \in S : y \in Nat
      OBVIOUS
    <3>2. x <= x /\ \A y \in S : y <= x => y = x
      BY <2>1, <3>1
    <3> QED
      BY <3>2
  <2>3. Cardinality(upTo(x)) = 1
    BY <2>2, FS_Singleton
  <2> QED
    BY <1>2, <1>3, <2>3
<1>6. ASSUME NEW k \in FirstOf(S), NEW j \in S, j <= k PROVE j \in FirstOf(S)
  <2>1. upTo(j) \in SUBSET upTo(k)
    <3>1. j \in Nat /\ k \in Nat /\ \A m \in S : m \in Nat
      BY <1>4, <1>6
    <3>2. \A m \in S : m <= j => m <= k
      BY <1>6, <3>1
    <3> QED
      BY <3>2
  <2> HIDE DEF upTo
  <2>2. Cardinality(upTo(j)) <= Cardinality(upTo(k))
    BY <1>1, <2>1, FS_Subset
  <2>3. Cardinality(upTo(k)) <= BatchSize
    BY <1>3
  <2> QED
    BY <1>1, <1>2, <1>3, <2>2, <2>3
<1> QED
  BY <1>4, <1>5, <1>6

(* The audit backfill's batch is the interval after the checkpoint.        *)
LEMMA FirstOfInterval ==
    ASSUME NEW n \in Nat, NEW last \in Nat, last <= n
    PROVE  \E m \in last..n : /\ FirstOf({k \in 1..n : k > last}) = last + 1..m
                              /\ m = last => last = n
<1> DEFINE S == {k \in 1..n : k > last}
<1> DEFINE m == IF last + BatchSize <= n THEN last + BatchSize ELSE n
<1>1. BatchSize \in Nat /\ BatchSize >= 1
  BY UpgradeAssumption
<1>2. m \in last..n /\ (m = last => last = n)
  BY <1>1
<1>3. \A k \in S : Cardinality({j \in S : j <= k}) = k - last
  <2>1. TAKE k \in S
  <2>2. {j \in S : j <= k} = last + 1..k
    BY <2>1
  <2>3. last + 1 \in Int /\ k \in Int /\ last + 1 <= k
    BY <2>1
  <2>4. Cardinality(last + 1..k) = k - (last + 1) + 1
    BY <2>3, FS_Interval
  <2>5. k - (last + 1) + 1 = k - last
    BY <2>3
  <2> HIDE DEF S
  <2> QED
    BY <2>2, <2>4, <2>5, Zenon
<1>4. FirstOf(S) = {k \in S : k - last <= BatchSize}
  <2> DEFINE rank(k) == Cardinality({j \in S : j <= k})
  <2>1. FirstOf(S) = {k \in S : rank(k) <= BatchSize}
    BY DEF FirstOf
  <2>2. \A k \in S : rank(k) = k - last
    BY <1>3
  <2> HIDE DEF S, rank
  <2> QED
    BY <2>1, <2>2
<1>5. {k \in S : k - last <= BatchSize} = last + 1..m
  BY <1>1
<1> QED
  BY <1>2, <1>4, <1>5

(* The checkpoint moves to the last key of the batch.                      *)
LEMMA LastOfKeys ==
    ASSUME NEW S, S \subseteq Nat, IsFiniteSet(S), S # {}, NEW last
    PROVE  LastOf(S, last) \in S /\ \A k \in S : k <= LastOf(S, last)
<1>1. \E x \in S : \A y \in S : y <= x
  BY GreatestOfFinite
<1> QED
  BY <1>1 DEF LastOf

LEMMA KeysFacts ==
    ASSUME Shape
    PROVE  /\ Len(rows) \in Nat /\ Keys = 1..Len(rows) /\ IsFiniteSet(Keys)
           /\ \A k \in Keys : rows[k] \in Rows(kind)
<1>1. Len(rows) \in Nat /\ Keys = 1..Len(rows)
  BY LenProperties DEF Shape, Keys
<1>2. IsFiniteSet(Keys)
  BY <1>1, FS_Interval
<1>3. \A k \in Keys : rows[k] \in Rows(kind)
  BY <1>1, ElementOfSeq DEF Shape
<1> QED
  BY <1>1, <1>2, <1>3

(* The ledger only grows.                                                  *)
LEMMA LedgerFacts ==
    ASSUME Shape
    PROVE  /\ Files \in Seq(STRING) /\ Len(ledger) \in Nat /\ Len(Files) \in Nat
           /\ Validated => /\ ledger \o SubSeq(Files, Len(ledger) + 1, Len(Files)) = Files
                           /\ Len(ledger) <= Len(Files)
<1>1. Files \in Seq(STRING)
  <2>1. \A i \in 1..Len(Checkouts) : Checkouts[i] \in Seq(STRING)
    BY UpgradeAssumption, ElementOfSeq
  <2>2. checkout \in 1..Len(Checkouts)
    BY UpgradeAssumption, LenProperties DEF Shape
  <2> QED
    BY <2>1, <2>2 DEF Files
<1>2. ledger \in Seq(STRING)
  BY DEF Shape
<1> QED
  BY <1>1, <1>2, PrefixCompleted, LenProperties DEF Validated

LEMMA SchemaKept ==
    ASSUME Shape, Len(ledger') \in Nat, Len(ledger) <= Len(ledger'), kind' = kind
    PROVE  (HasProgress => HasProgress') /\ (HasHistory => HasHistory')
<1>1. Len(ledger) \in Nat /\ HistoryVersion(kind) \in Nat /\ HistoryVersion(kind)' = HistoryVersion(kind)
  BY LedgerFacts DEF HistoryVersion
<1> QED
  BY <1>1 DEF HasProgress, HasHistory

(* A step that leaves the audit runners and their checkpoint alone.        *)
LEMMA AuditFrame ==
    ASSUME Shape, AuditOK, HasProgress => HasProgress', UNCHANGED <<lock, kind>>, late \subseteq late',
           progress'["audit"] = progress["audit"], \A r \in AuditRunners : runner'[r] = runner[r],
           NEW n \in Nat, Keys' = 1..n, Len(rows') = n, Len(rows) <= n,
           \A k \in 1..n : \/ k \in Keys /\ (rows[k].audit => rows'[k].audit)
                           \/ k > Len(rows) /\ (HasProgress => rows'[k].audit \/ k \in late')
    PROVE  AuditOK'
<1> DEFINE p == progress["audit"]
<1>1. Len(rows) \in Nat /\ Keys = 1..Len(rows) /\ p.last \in Nat /\ p' = p
  BY KeysFacts DEF Shape, Targets
<1>2. \A r \in AuditRunners : InTransaction(r)' <=> InTransaction(r)
  BY DEF InTransaction
<1>3. p.completed => HasProgress
  BY DEF AuditOK
<1>4. AuditCheckpointTrue'
  <2>1. p.scanned = p.last /\ p.last <= Len(rows)
    BY DEF AuditOK, AuditCheckpointTrue
  <2>2. ASSUME NEW k \in Keys'
        PROVE  /\ k <= p.last => rows'[k].audit
               /\ p.completed => rows'[k].audit \/ k \in late'
    <3>1. CASE k \in Keys /\ (rows[k].audit => rows'[k].audit)
      BY <2>2, <3>1 DEF AuditOK, AuditCheckpointTrue
    <3>2. CASE k > Len(rows) /\ (HasProgress => rows'[k].audit \/ k \in late')
      <4>1. ~(k <= p.last)
        BY <1>1, <2>1, <2>2, <3>2
      <4> QED
        BY <1>3, <2>2, <3>2, <4>1
    <3> QED
      BY <2>2, <3>1, <3>2
  <2> QED
    BY <1>1, <2>1, <2>2 DEF AuditCheckpointTrue
<1>5. ASSUME NEW r \in AuditRunners, InTransaction(r)
      PROVE  \E m \in p.last..n : /\ runner[r].keys = p.last + 1..m
                                  /\ m = p.last => \A k \in Keys' \ late' : rows'[k].audit
  <2>1. PICK m \in p.last..Len(rows) : /\ runner[r].keys = p.last + 1..m
                                       /\ m = p.last => \A k \in Keys \ late : rows[k].audit
    BY <1>5 DEF AuditOK
  <2>2. HasProgress
    BY <1>5 DEF AuditOK, InTransaction
  <2>3. m \in p.last..n
    BY <1>1, <2>1
  <2>4. m = p.last => \A k \in Keys' \ late' : rows'[k].audit
    BY <2>1, <2>2
  <2> QED
    BY <2>1, <2>3, <2>4
<1>6. p.last <= n
  BY <1>1 DEF AuditOK
<1> QED
  BY <1>1, <1>2, <1>4, <1>5, <1>6 DEF AuditOK

(* A step that only adds to the histories, and has nothing to do with the  *)
(* history runners but that they may die.                                  *)
LEMMA HistoryFrame ==
    ASSUME Shape, HistoryOK, HasHistory => HasHistory', kind' = kind, history \subseteq history', late \subseteq late',
           progress'["history"] = progress["history"],
           \A r \in HistoryRunners : runner'[r] = runner[r] \/ ~InTransaction(r)',
           NEW n \in Nat, Keys' = 1..n, Len(rows') = n, Len(rows) <= n, rows' = <<>> => rows = <<>>,
           \A k \in 1..n : k \in Keys \/ (k > Len(rows) /\ (HasHistory => HistoryOf(k)' # {} \/ k \in late'))
    PROVE  HistoryOK'
<1> DEFINE p == progress["history"]
<1>1. Len(rows) \in Nat /\ Keys = 1..Len(rows) /\ p.last \in Nat /\ p' = p
  BY KeysFacts DEF Shape, Targets
<1>2. \A r \in HistoryRunners : InTransaction(r)' => InTransaction(r) /\ runner'[r] = runner[r]
  BY DEF InTransaction
<1>3. \A k : HistoryOf(k) # {} => HistoryOf(k)' # {}
  BY DEF HistoryOf
<1>4. HasHistory /\ (\A k \in Keys \ late : HistoryOf(k) # {}) => \A k \in Keys' \ late' : HistoryOf(k)' # {}
  BY <1>3
<1>5. p.last <= n /\ \A k \in Keys' : k <= p.last => HistoryOf(k)' # {}
  <2>1. p.last <= Len(rows) /\ \A k \in Keys : k <= p.last => HistoryOf(k) # {}
    BY DEF HistoryOK
  <2> QED
    BY <1>1, <1>3, <2>1
<1>6. p.completed \/ (\E r \in HistoryRunners : InTransaction(r)) => HasHistory
  BY DEF HistoryOK
<1>7. p.completed => \/ \A k \in Keys' \ late' : HistoryOf(k)' # {}
                     \/ p.scanned = 0 /\ \A r \in HistoryRunners : ~InTransaction(r)'
  BY <1>2, <1>4, <1>6 DEF HistoryOK
<1>8. ASSUME NEW r \in HistoryRunners, InTransaction(r)'
      PROVE  /\ runner'[r].keys \subseteq Keys'
             /\ runner'[r].keys = {} => (\A k \in Keys' \ late' : HistoryOf(k)' # {}) \/ ~p.exists
             /\ \A k \in runner'[r].keys : \A j \in 1..k : j \in runner'[r].keys \/ HistoryOf(j)' # {}
             /\ \A k \in runner'[r].keys : \E e \in runner'[r].events : e.key = k
  <2>1. InTransaction(r) /\ runner'[r] = runner[r]
    BY <1>2, <1>8
  <2>2. /\ runner[r].keys \subseteq Keys
        /\ runner[r].keys = {} => (\A k \in Keys \ late : HistoryOf(k) # {}) \/ ~p.exists
        /\ \A k \in runner[r].keys : \A j \in 1..k : j \in runner[r].keys \/ HistoryOf(j) # {}
        /\ \A k \in runner[r].keys : \E e \in runner[r].events : e.key = k
    BY <2>1 DEF HistoryOK
  <2>3. Keys \subseteq Keys'
    BY <1>1
  <2> QED
    BY <1>3, <1>4, <1>6, <2>1, <2>2, <2>3
<1>9. p.scanned > 0 => rows' # <<>>
  BY DEF HistoryOK
<1>10. p.completed \/ (\E r \in HistoryRunners : InTransaction(r)') => HasHistory'
  BY <1>2, <1>6
<1>11. /\ ~p.exists => p.scanned = 0 /\ ~p.completed /\ HistoryAlone'
       /\ rows' = <<>> /\ p.exists => p.completed /\ \A r \in HistoryRunners : ~InTransaction(r)'
  BY <1>2 DEF HistoryOK, HistoryAlone
<1> QED
  BY <1>1, <1>5, <1>7, <1>8, <1>9, <1>10, <1>11 DEF HistoryOK

----------------------------------------------------------------------------
(* The steps.                                                              *)

LEMMA InitInv == Init => Inv
<1> SUFFICES ASSUME Init PROVE Inv
  OBVIOUS
<1>1. rows = <<>> /\ Len(rows) = 0 /\ Keys = {}
  BY DEF Init, Keys
<1>2. \A t \in Targets : /\ progress[t] = NoProgress /\ progress[t].last = 0 /\ progress[t].scanned = 0
                         /\ progress[t].completed = FALSE
  BY DEF Init, NoProgress
<1>3. \A r \in Runners : runner[r] = Idle /\ runner[r].pc = "idle" /\ ~InTransaction(r)
  BY DEF Init, Idle, InTransaction
<1>4. "audit" \in Targets /\ "history" \in Targets /\ AuditRunners \subseteq Runners /\ HistoryRunners \subseteq Runners
  BY DEF Targets, Runners
<1>5. Shape
  <2>1. 1 \in DOMAIN Checkouts
    <3>1. Len(Checkouts) \in Nat /\ Len(Checkouts) # 0 /\ DOMAIN Checkouts = 1..Len(Checkouts)
      BY UpgradeAssumption, LenProperties, EmptySeq
    <3> QED
      BY <3>1
  <2>2. kind \in RowKinds /\ checkout \in DOMAIN Checkouts /\ ledger \in Seq(STRING) /\ rows \in Seq(Rows(kind))
    BY <2>1 DEF Init
  <2>3. progress \in [Targets -> [exists: BOOLEAN, last: Nat, scanned: Nat, completed: BOOLEAN]]
    BY DEF Init, NoProgress
  <2>4. DOMAIN runner = Runners
    BY DEF Init
  <2> QED
    BY <1>1, <1>3, <2>2, <2>3, <2>4 DEF Shape, Idle
<1>6. AuditOK
  BY <1>1, <1>2, <1>3, <1>4 DEF AuditOK, AuditCheckpointTrue
<1>7. HistoryOK
  BY <1>1, <1>2, <1>3, <1>4 DEF HistoryOK, HistoryAlone, NoProgress
<1> QED
  BY <1>5, <1>6, <1>7 DEF Inv

(* A step that changes nothing but the release or what the simulator       *)
(* knows.                                                                  *)
LEMMA QuietInv ==
    ASSUME Inv, UNCHANGED <<kind, ledger, rows, history, progress, lock, runner, late>>,
           checkout' \in DOMAIN Checkouts
    PROVE  Inv'
<1>1. Shape'
  BY DEF Inv, Shape, Keys, Rows
<1>2. HasProgress' <=> HasProgress
  BY DEF HasProgress
<1>3. HasHistory' <=> HasHistory
  BY DEF HasHistory
<1>4. Keys' = Keys
  BY DEF Keys
<1>5. (\A r : InTransaction(r)' <=> InTransaction(r)) /\ (\A k : HistoryOf(k)' = HistoryOf(k))
  BY DEF InTransaction, HistoryOf
<1>6. AuditOK'
  BY <1>2, <1>4, <1>5 DEF Inv, AuditOK, AuditCheckpointTrue
<1>7. HistoryOK'
  BY <1>3, <1>4, <1>5 DEF Inv, HistoryOK, HistoryAlone
<1> QED
  BY <1>1, <1>6, <1>7 DEF Inv

LEMMA DeployInv ==
    ASSUME Inv, Deploy PROVE Inv'
<1>1. checkout' \in DOMAIN Checkouts
  <2>1. Len(Checkouts) \in Nat /\ DOMAIN Checkouts = 1..Len(Checkouts)
    BY UpgradeAssumption, LenProperties
  <2>2. checkout \in 1..Len(Checkouts) /\ checkout < Len(Checkouts) /\ checkout' = checkout + 1
    BY <2>1 DEF Deploy, Inv, Shape
  <2> QED
    BY <2>1, <2>2
<1> QED
  BY <1>1, QuietInv DEF Deploy

LEMMA ProbeInv ==
    ASSUME Inv, Up \/ Probe PROVE Inv'
BY QuietInv DEF Up, Probe, Inv, Shape

LEMMA MigrateInv ==
    ASSUME Inv, Migrate PROVE Inv'
<1>1. /\ UNCHANGED <<kind, checkout, rows, history, progress, lock, runner, late>> /\ Validated
      /\ ledger' = ledger \o SubSeq(Files, Len(ledger) + 1, Len(Files))
  BY DEF Migrate
<1>2. Shape
  BY DEF Inv
<1>3. ledger' = Files /\ ledger' \in Seq(STRING) /\ Len(ledger') \in Nat /\ Len(ledger) <= Len(ledger')
  BY <1>1, <1>2, LedgerFacts
<1>4. (HasProgress => HasProgress') /\ (HasHistory => HasHistory')
  BY <1>1, <1>2, <1>3, SchemaKept
<1>5. Shape'
  BY <1>1, <1>2, <1>3 DEF Shape, Keys, Rows
<1>6. Len(rows) \in Nat /\ Keys = 1..Len(rows) /\ Keys' = Keys
  BY <1>1, <1>2, KeysFacts DEF Keys
<1>7. AuditOK'
  <2>1. \A k \in 1..Len(rows) : k \in Keys /\ (rows[k].audit => rows'[k].audit)
    BY <1>1, <1>6
  <2> QED
    BY <1>1, <1>2, <1>4, <1>6, <2>1, AuditFrame DEF Inv
<1>8. HistoryOK'
  BY <1>1, <1>2, <1>4, <1>6, HistoryFrame DEF Inv
<1> QED
  BY <1>5, <1>7, <1>8 DEF Inv

LEMMA LoadInv ==
    ASSUME Inv, Load PROVE Inv'
<1>1. /\ UNCHANGED <<kind, checkout, history, progress, lock, runner, late>> /\ Validated
      /\ rows = <<>> /\ ledger' = Files
  BY DEF Load
<1>2. PICK seed \in Seeds[kind] : rows' = Loaded(seed)
  BY DEF Load
<1>3. Shape /\ kind \in RowKinds
  BY DEF Inv, Shape
<1>4. ledger' \in Seq(STRING) /\ Len(ledger) \in Nat /\ Len(ledger') \in Nat /\ Len(ledger) <= Len(ledger')
  BY <1>1, <1>3, LedgerFacts
<1>5. (HasProgress => HasProgress') /\ (HasHistory => HasHistory')
  BY <1>1, <1>3, <1>4, SchemaKept
<1>6. Len(rows) = 0 /\ Keys = {}
  BY <1>1 DEF Keys
<1>7. seed \in Seq(RowOf(kind)) /\ Len(seed) \in Nat /\ DOMAIN seed = 1..Len(seed)
  BY <1>2, <1>3, UpgradeAssumption, LenProperties
<1>8. /\ rows' \in Seq(Rows(kind)) /\ Keys' = 1..Len(seed) /\ Len(rows') = Len(seed)
      /\ \A k \in 1..Len(seed) : rows'[k].own = FALSE /\ (Len(Files) >= 2 => rows'[k].audit)
  <2> DEFINE row(k) == IF Len(Files) >= 2 THEN [data |-> Fill(kind, seed[k]), audit |-> TRUE, own |-> FALSE]
                                          ELSE [data |-> seed[k], audit |-> FALSE, own |-> FALSE]
  <2>1. rows' = [k \in 1..Len(seed) |-> row(k)]
    BY <1>2, <1>7 DEF Loaded
  <2>2. \A k \in 1..Len(seed) : seed[k] \in RowOf(kind) /\ Fill(kind, seed[k]) \in RowOf(kind)
    BY <1>3, <1>7, ElementOfSeq, FillType
  <2>3. \A k \in 1..Len(seed) : row(k) \in Rows(kind) /\ row(k).own = FALSE /\ (Len(Files) >= 2 => row(k).audit)
    BY <2>2 DEF Rows
  <2> HIDE DEF row
  <2>4. rows' \in [1..Len(seed) -> Rows(kind)]
    BY <2>1, <2>3
  <2>5. rows' \in Seq(Rows(kind))
    BY <1>7, <2>4 DEF Seq
  <2>6. Len(rows') = Len(seed) /\ Keys' = 1..Len(seed)
    BY <1>7, <2>4, <2>5, LenProperties DEF Keys
  <2> QED
    BY <2>1, <2>3, <2>5, <2>6
<1>9. Shape'
  BY <1>1, <1>3, <1>4, <1>8 DEF Shape, Rows
<1>10. AuditOK'
  <2>1. HasProgress => Len(Files) >= 2
    BY <1>1, <1>4 DEF HasProgress
  <2>2. \A k \in 1..Len(seed) : k > Len(rows) /\ (HasProgress => rows'[k].audit)
    BY <1>6, <1>8, <2>1
  <2>3. Len(rows) <= Len(seed) /\ \A r \in AuditRunners : runner'[r] = runner[r]
    BY <1>1, <1>6, <1>7
  <2> QED
    BY <1>1, <1>3, <1>5, <1>7, <1>8, <2>2, <2>3, AuditFrame DEF Inv
<1>11. HistoryOK'
  <2> DEFINE p == progress["history"]
  <2>1. p.last = 0 /\ p.scanned = 0
    <3>1. p.last \in Nat /\ p.scanned \in Nat
      BY <1>3 DEF Shape, Targets
    <3>2. p.last <= 0 /\ ~(p.scanned > 0)
      BY <1>1, <1>6 DEF Inv, HistoryOK
    <3> QED
      BY <3>1, <3>2
  <2>2. \A r \in HistoryRunners : InTransaction(r)' <=> InTransaction(r)
    BY <1>1 DEF InTransaction
  <2>3. p' = p /\ (p.completed \/ (\E r \in HistoryRunners : InTransaction(r)) => HasHistory')
    BY <1>1, <1>5 DEF Inv, HistoryOK
  <2>4. /\ ~p.exists => ~p.completed /\ HistoryAlone
        /\ p.exists => p.completed /\ \A r \in HistoryRunners : ~InTransaction(r)
        /\ p.completed => \A r \in HistoryRunners : ~InTransaction(r)
        /\ \A r \in HistoryRunners : InTransaction(r) => runner[r].keys = {} /\ ~p.exists
    BY <1>1, <1>6 DEF Inv, HistoryOK
  <2>5. \A k \in Keys' : ~(k <= 0)
    BY <1>7, <1>8
  <2> HIDE DEF p
  <2>6. p'.last <= Len(rows') /\ ~(p'.scanned > 0)
    BY <1>7, <1>8, <2>1, <2>3
  <2>7. HistoryAlone => HistoryAlone'
    BY <2>2 DEF HistoryAlone
  <2>8. \A r \in HistoryRunners : runner'[r] = runner[r]
    BY <1>1
  <2>9. \A r \in HistoryRunners : InTransaction(r)' => runner'[r].keys = {} /\ ~p'.exists
    BY <2>2, <2>3, <2>4, <2>8
  <2> QED
    BY <2>1, <2>2, <2>3, <2>4, <2>5, <2>6, <2>7, <2>9 DEF HistoryOK, p
<1> QED
  BY <1>9, <1>10, <1>11 DEF Inv

LEMMA InsertInv ==
    ASSUME Inv, Insert PROVE Inv'
<1> DEFINE new == [data |-> NewRow, audit |-> StampsRows, own |-> TRUE]
<1>0. PICK n : n = Len(rows) + 1
  OBVIOUS
<1>1. /\ UNCHANGED <<kind, checkout, ledger, progress, lock, runner>>
      /\ rows' = Append(rows, new)
      /\ history' = Recorded(n, "none", Status(kind, NewRow), Timestamp(SimDay, 0))
      /\ late' = IF Outdated THEN late \cup {n} ELSE late
  BY <1>0 DEF Insert, Late
<1>1a. late \subseteq late' /\ (Outdated => n \in late')
  BY <1>1
<1>2. Shape /\ kind \in RowKinds
  BY DEF Inv, Shape
<1>3. Len(rows) \in Nat /\ Keys = 1..Len(rows) /\ n \in Nat
  BY <1>0, <1>2, KeysFacts
<1>4. new \in Rows(kind) /\ OwnRow(kind, new.data)
  <2>1. StampsRows \in BOOLEAN
    BY DEF StampsRows
  <2> QED
    BY <1>2, <2>1, NewRowType DEF Rows
<1>5. new.audit = StampsRows
  OBVIOUS
<1> HIDE DEF new
<1>6. /\ rows' \in Seq(Rows(kind)) /\ Len(rows') = n /\ Keys' = 1..n /\ rows' # <<>>
      /\ rows'[n] = new /\ \A k \in Keys : rows'[k] = rows[k]
  <2>1. rows \in Seq(Rows(kind))
    BY <1>2 DEF Shape
  <2>2. /\ rows' \in Seq(Rows(kind)) /\ Len(rows') = n /\ rows'[n] = new
        /\ \A k \in 1..Len(rows) : rows'[k] = rows[k]
    BY <1>0, <1>1, <1>4, <2>1, AppendProperties
  <2>3. Keys' = 1..n
    BY <2>2, LenProperties DEF Keys
  <2>4. rows' # <<>>
    BY <1>0, <1>3, <2>2
  <2> QED
    BY <1>3, <2>2, <2>3, <2>4
<1>7. \A k \in 1..n : k \in Keys \/ (k = n /\ k > Len(rows))
  BY <1>0, <1>3
<1>8. (HasProgress => HasProgress') /\ (HasHistory => HasHistory')
  BY <1>1 DEF HasProgress, HasHistory
<1>9. Shape'
  <2>1. \A k \in Keys' : rows'[k].own => OwnRow(kind, rows'[k].data)
    BY <1>2, <1>4, <1>6, <1>7 DEF Shape
  <2> QED
    BY <1>1, <1>2, <1>6, <2>1 DEF Shape, Rows
<1>10. AuditOK'
  <2>1. HasProgress => new.audit \/ n \in late'
    <3>1. Len(ledger) \in Nat
      BY <1>2, LedgerFacts
    <3>2. HasProgress => HasAudit
      BY <3>1 DEF HasProgress, HasAudit
    <3>3. HasAudit /\ ~StampsRows => Outdated
      BY DEF Outdated
    <3> QED
      BY <1>1a, <1>5, <3>2, <3>3
  <2>2. \A k \in 1..n : \/ k \in Keys /\ (rows[k].audit => rows'[k].audit)
                        \/ k > Len(rows) /\ (HasProgress => rows'[k].audit \/ k \in late')
    BY <1>6, <1>7, <2>1
  <2>3. Len(rows) <= n
    BY <1>0, <1>3
  <2> QED
    BY <1>1, <1>1a, <1>2, <1>3, <1>6, <1>8, <2>2, <2>3, AuditFrame DEF Inv
<1>11. HistoryOK'
  <2>1. HasHistory => HistoryOf(n)' # {} \/ n \in late'
    <3>1. RecordsHistory => Entry(n, "none", Status(kind, NewRow), Timestamp(SimDay, 0), "simulator") \in history'
      BY <1>1 DEF Recorded
    <3>2. Entry(n, "none", Status(kind, NewRow), Timestamp(SimDay, 0), "simulator").key = n
      BY DEF Entry
    <3>3. HasHistory /\ ~RecordsHistory => Outdated
      BY DEF Outdated
    <3> QED
      BY <1>1a, <3>1, <3>2, <3>3 DEF HistoryOf
  <2>2. history \subseteq history'
    BY <1>1 DEF Recorded
  <2>3. Len(rows) <= n
    BY <1>0, <1>3
  <2>4. \A k \in 1..n : k \in Keys \/ (k > Len(rows) /\ (HasHistory => HistoryOf(k)' # {} \/ k \in late'))
    BY <1>7, <2>1
  <2>5. \A r \in HistoryRunners : runner'[r] = runner[r]
    BY <1>1
  <2> QED
    BY <1>1, <1>2, <1>3, <1>6, <1>8, <1>1a, <2>2, <2>3, <2>4, <2>5, HistoryFrame DEF Inv
<1> QED
  BY <1>9, <1>10, <1>11 DEF Inv

LEMMA MoveInv ==
    ASSUME Inv, NEW key \in Keys, Move(key) PROVE Inv'
<1>1. /\ UNCHANGED <<kind, checkout, ledger, progress, lock, runner>> /\ rows[key].own
      /\ rows' = [rows EXCEPT ![key].data = Moved(rows[key].data)]
  BY DEF Move
<1>2. history \subseteq history' /\ late \subseteq late'
  BY DEF Move, Recorded, Late
<1>3. Shape /\ kind \in RowKinds /\ rows \in Seq(Rows(kind))
  BY DEF Inv, Shape
<1>4. PICK n : n = Len(rows)
  OBVIOUS
<1>5. n \in Nat /\ Keys = 1..n /\ \A k \in Keys : rows[k] \in Rows(kind)
  BY <1>3, <1>4, KeysFacts
<1>6. PICK new : new = [rows[key] EXCEPT !.data = Moved(rows[key].data)]
  OBVIOUS
<1>7. /\ new \in Rows(kind) /\ new.audit = rows[key].audit
      /\ OwnRow(kind, new.data)
  <2>1. rows[key] \in Rows(kind) /\ rows[key].data \in RowOf(kind)
    BY <1>5 DEF Rows
  <2>2. OwnRow(kind, rows[key].data)
    BY <1>1, <1>3 DEF Shape
  <2>3. Moved(rows[key].data) \in RowOf(kind) /\ OwnRow(kind, Moved(rows[key].data))
    BY <1>3, <2>1, <2>2, MovedType
  <2> QED
    BY <1>6, <2>1, <2>2, <2>3 DEF Rows
<1>8. rows' = [rows EXCEPT ![key] = new]
  BY <1>1, <1>6
<1>9. /\ rows' \in Seq(Rows(kind)) /\ Len(rows') = n /\ Keys' = 1..n /\ rows' # <<>>
      /\ rows'[key] = new /\ \A k \in Keys : k # key => rows'[k] = rows[k]
  <2>1. rows' \in Seq(Rows(kind)) /\ Len(rows') = n
    BY <1>3, <1>4, <1>5, <1>7, <1>8, ExceptSeq
  <2>2. rows'[key] = new /\ (\A k \in Keys : k # key => rows'[k] = rows[k]) /\ DOMAIN rows' = DOMAIN rows
    BY <1>8 DEF Keys
  <2>3. Keys' = 1..n /\ rows' # <<>>
    BY <1>5, <2>2 DEF Keys
  <2> QED
    BY <2>1, <2>2, <2>3
<1>10. (HasProgress => HasProgress') /\ (HasHistory => HasHistory')
  BY <1>1 DEF HasProgress, HasHistory
<1>11. Shape'
  <2>1. \A k \in Keys' : rows'[k].own => OwnRow(kind, rows'[k].data)
    BY <1>3, <1>5, <1>7, <1>9 DEF Shape
  <2> QED
    BY <1>1, <1>3, <1>9, <2>1 DEF Shape, Rows
<1>12. AuditOK'
  <2>1. \A k \in 1..n : k \in Keys /\ (rows[k].audit => rows'[k].audit)
    BY <1>5, <1>7, <1>9
  <2>2. Len(rows) <= n /\ \A r \in AuditRunners : runner'[r] = runner[r]
    BY <1>1, <1>4, <1>5
  <2> QED
    BY <1>1, <1>2, <1>3, <1>5, <1>9, <1>10, <2>1, <2>2, AuditFrame DEF Inv
<1>13. HistoryOK'
  <2>1. Len(rows) <= n /\ \A r \in HistoryRunners : runner'[r] = runner[r]
    BY <1>1, <1>4, <1>5
  <2> QED
    BY <1>1, <1>2, <1>3, <1>5, <1>9, <1>10, <2>1, HistoryFrame DEF Inv
<1> QED
  BY <1>11, <1>12, <1>13 DEF Inv

(* A step of an audit runner, or a death, that touches no table.           *)
LEMMA RunnerInv ==
    ASSUME Inv, UNCHANGED <<kind, checkout, ledger, rows, history, progress, late>>,
           NEW r \in Runners, NEW state, state = [pc |-> state.pc, keys |-> state.keys, events |-> state.events],
           runner' = [runner EXCEPT ![r] = state],
           r \in HistoryRunners => state.pc # "read",
           \A a \in AuditRunners : runner'[a].pc # "idle" => lock' = a,
           (\E a \in AuditRunners : runner'[a].pc # "idle") => HasProgress,
           r \in AuditRunners /\ state.pc = "read" =>
               \E m \in progress["audit"].last..Len(rows) :
                   /\ state.keys = progress["audit"].last + 1..m
                   /\ m = progress["audit"].last => \A k \in Keys \ late : rows[k].audit
    PROVE  Inv'
<1>1. Shape /\ DOMAIN runner = Runners
  BY DEF Inv, Shape
<1>2. runner'[r] = state /\ \A q \in Runners \ {r} : runner'[q] = runner[q]
  BY <1>1
<1>3. Shape'
  <2>1. DOMAIN runner' = Runners
    BY <1>1
  <2>2. \A q \in Runners : runner'[q] = [pc |-> runner'[q].pc, keys |-> runner'[q].keys, events |-> runner'[q].events]
    BY <1>1, <1>2 DEF Shape
  <2>3. Keys' = Keys
    BY DEF Keys
  <2> QED
    BY <1>1, <2>1, <2>2, <2>3 DEF Shape
<1>4. AuditOK'
  <2> DEFINE p == progress["audit"]
  <2>1. p' = p /\ Keys' = Keys /\ (HasProgress' <=> HasProgress)
    BY DEF Keys, HasProgress
  <2>2. p.last <= Len(rows) /\ AuditCheckpointTrue' /\ (p.completed => HasProgress)
    BY <2>1 DEF Inv, AuditOK, AuditCheckpointTrue
  <2>3. ASSUME NEW a \in AuditRunners, InTransaction(a)'
        PROVE  \E m \in p.last..Len(rows) : /\ runner'[a].keys = p.last + 1..m
                                            /\ m = p.last => \A k \in Keys \ late : rows[k].audit
    <3>1. CASE a = r
      BY <1>2, <2>3, <3>1 DEF InTransaction
    <3>2. CASE a # r
      <4>1. runner'[a] = runner[a]
        BY <1>2, <3>2 DEF Runners
      <4> QED
        BY <2>3, <4>1 DEF InTransaction, Inv, AuditOK
    <3> QED
      BY <3>1, <3>2
  <2> QED
    BY <2>1, <2>2, <2>3 DEF AuditOK
<1>5. HistoryOK'
  <2>1. \A q \in HistoryRunners : runner'[q] = runner[q] \/ ~InTransaction(q)'
    BY <1>2 DEF InTransaction, Runners
  <2>2. PICK n : n = Len(rows)
    OBVIOUS
  <2>3. n \in Nat /\ Keys = 1..n /\ Keys' = Keys /\ Len(rows) <= n
    BY <1>1, <2>2, KeysFacts DEF Keys
  <2>4. HasHistory => HasHistory'
    BY DEF HasHistory
  <2> QED
    BY <1>1, <2>1, <2>2, <2>3, <2>4, HistoryFrame DEF Inv
<1> QED
  BY <1>3, <1>4, <1>5 DEF Inv

(* An audit runner is no history runner.                                   *)
LEMMA Apart ==
    /\ \A r \in AuditRunners : r \in Runners /\ r \notin HistoryRunners /\ r # Free
    /\ \A r \in HistoryRunners : r \in Runners /\ r \notin AuditRunners
BY UpgradeAssumption DEF Runners

LEMMA AuditRunInv ==
    ASSUME Inv, NEW r \in AuditRunners, AuditRun(r) PROVE Inv'
<1>1. /\ UNCHANGED <<kind, checkout, ledger, rows, history, progress, late>> /\ HasProgress
      /\ lock = Free /\ lock' = r /\ runner' = [runner EXCEPT ![r].pc = "locked"]
  BY DEF AuditRun
<1>2. r \in Runners /\ DOMAIN runner = Runners
  BY Apart DEF Inv, Shape
<1>3. PICK state : state = [pc |-> "locked", keys |-> runner[r].keys, events |-> runner[r].events]
  OBVIOUS
<1>4. runner[r] = [pc |-> runner[r].pc, keys |-> runner[r].keys, events |-> runner[r].events]
  BY <1>2 DEF Inv, Shape
<1>5. [runner[r] EXCEPT !.pc = "locked"] = state
  BY <1>3, <1>4
<1>6. runner' = [runner EXCEPT ![r] = state]
  BY <1>1, <1>5
<1>7. \A a \in AuditRunners : runner'[a].pc # "idle" => lock' = a
  <2>1. \A a \in AuditRunners : runner[a].pc # "idle" => lock = a
    BY DEF Inv, AuditOK
  <2>2. \A a \in AuditRunners : a # r => runner'[a] = runner[a]
    BY <1>2, <1>6, Apart
  <2> QED
    BY <1>1, <2>1, <2>2, Apart
<1> QED
  BY <1>1, <1>2, <1>3, <1>6, <1>7, Apart, RunnerInv

LEMMA AuditReadInv ==
    ASSUME Inv, NEW r \in AuditRunners, AuditRead(r) PROVE Inv'
<1> DEFINE p == progress["audit"]
<1> DEFINE ran == [Idle EXCEPT !.pc = "ran"]
<1> DEFINE batch == [Idle EXCEPT !.pc = "read", !.keys = AuditKeys(p.last)]
<1>1. /\ UNCHANGED <<kind, checkout, ledger, rows, history, progress, late, lock>>
      /\ runner[r].pc # "idle" /\ runner' = [runner EXCEPT ![r] = IF p.completed THEN ran ELSE batch]
  BY DEF AuditRead
<1>2. r \in Runners /\ Shape /\ DOMAIN runner = Runners /\ p.last \in Nat
  BY Apart DEF Inv, Shape, Targets
<1>3. lock = r /\ HasProgress /\ p.last <= Len(rows)
  BY <1>1 DEF Inv, AuditOK
<1>4. /\ ran = [pc |-> "ran", keys |-> {}, events |-> {}]
      /\ batch = [pc |-> "read", keys |-> AuditKeys(p.last), events |-> {}]
  <2>1. ASSUME NEW K
        PROVE  [Idle EXCEPT !.pc = "read", !.keys = K] = [pc |-> "read", keys |-> K, events |-> {}]
    <3>1. PICK I : I = [Idle EXCEPT !.pc = "read"]
      OBVIOUS
    <3>2. I = [pc |-> "read", keys |-> {}, events |-> {}]
      BY <3>1 DEF Idle
    <3>3. [I EXCEPT !.keys = K] = [pc |-> "read", keys |-> K, events |-> {}]
      BY <3>2
    <3>4. [Idle EXCEPT !.pc = "read", !.keys = K] = [I EXCEPT !.keys = K]
      BY <3>1
    <3> QED
      BY <3>3, <3>4
  <2>2. ran = [pc |-> "ran", keys |-> {}, events |-> {}]
    BY DEF Idle
  <2> QED
    BY <2>1, <2>2
<1>5. \E m \in p.last..Len(rows) : /\ AuditKeys(p.last) = p.last + 1..m
                                   /\ m = p.last => \A k \in Keys \ late : rows[k].audit
  <2>1. Len(rows) \in Nat /\ Keys = 1..Len(rows)
    BY <1>2, KeysFacts
  <2>2. PICK m \in p.last..Len(rows) : /\ FirstOf({k \in 1..Len(rows) : k > p.last}) = p.last + 1..m
                                       /\ m = p.last => p.last = Len(rows)
    BY <1>2, <1>3, <2>1, FirstOfInterval
  <2>3. AuditKeys(p.last) = p.last + 1..m
    BY <2>1, <2>2 DEF AuditKeys
  <2>4. ASSUME m = p.last PROVE \A k \in Keys : rows[k].audit
    <3>1. \A k \in Keys : k <= p.last
      BY <2>1, <2>2, <2>4
    <3> QED
      BY <3>1 DEF Inv, AuditOK, AuditCheckpointTrue
  <2> QED
    BY <2>3, <2>4
<1>6. \A a \in AuditRunners : runner'[a].pc # "idle" => lock' = a
  <2>1. \A a \in AuditRunners : runner[a].pc # "idle" => lock = a
    BY DEF Inv, AuditOK
  <2>2. \A a \in AuditRunners : a # r => runner'[a] = runner[a]
    BY <1>1, <1>2, Apart
  <2> QED
    BY <1>1, <1>3, <2>1, <2>2
<1>7. PICK state : state = IF p.completed THEN ran ELSE batch
  OBVIOUS
<1>8. /\ state = [pc |-> state.pc, keys |-> state.keys, events |-> state.events]
      /\ state.pc = "read" => state.keys = AuditKeys(p.last)
  BY <1>4, <1>7
<1>9. runner' = [runner EXCEPT ![r] = state]
  BY <1>1, <1>7
<1> HIDE DEF ran, batch
<1> QED
  BY <1>1, <1>2, <1>3, <1>5, <1>6, <1>8, <1>9, Apart, RunnerInv

LEMMA IdleInv ==
    ASSUME Inv, NEW r \in Runners, UNCHANGED <<kind, checkout, ledger, rows, history, progress, late>>,
           runner' = [runner EXCEPT ![r] = Idle], lock = r \/ lock' = lock
    PROVE  Inv'
<1>1. DOMAIN runner = Runners
  BY DEF Inv, Shape
<1>2. Idle = [pc |-> Idle.pc, keys |-> Idle.keys, events |-> Idle.events] /\ Idle.pc = "idle"
  BY DEF Idle
<1>3. \A a \in AuditRunners : runner'[a].pc # "idle" => a # r /\ runner'[a] = runner[a]
  BY <1>1, <1>2, Apart
<1>4. \A a \in AuditRunners : runner'[a].pc # "idle" => lock' = a
  BY <1>3 DEF Inv, AuditOK
<1>5. (\E a \in AuditRunners : runner'[a].pc # "idle") => HasProgress
  BY <1>3 DEF Inv, AuditOK
<1> QED
  BY <1>2, <1>4, <1>5, RunnerInv

LEMMA AuditUnlockInv ==
    ASSUME Inv, NEW r \in AuditRunners, AuditUnlock(r) PROVE Inv'
<1>1. lock = r
  BY DEF Inv, AuditOK, AuditUnlock
<1> QED
  BY <1>1, Apart, IdleInv DEF AuditUnlock

LEMMA RunnerDiesInv ==
    ASSUME Inv, NEW r \in Runners, RunnerDies(r) PROVE Inv'
BY IdleInv DEF RunnerDies

(* What a batch makes of the checkpoint.                                   *)
LEMMA CheckpointType ==
    ASSUME Shape, NEW t \in Targets, NEW keys, keys \subseteq Keys, Checkpoint(t, keys)
    PROVE  /\ progress' \in [Targets -> [exists: BOOLEAN, last: Nat, scanned: Nat, completed: BOOLEAN]]
           /\ \A u \in Targets : u # t => progress'[u] = progress[u]
           /\ progress'[t].last = LastOf(keys, progress[t].last)
           /\ progress'[t].scanned = progress[t].scanned + Cardinality(keys)
           /\ progress'[t].completed <=> progress[t].completed \/ keys = {}
           /\ IsFiniteSet(keys) /\ Cardinality(keys) \in Nat
           /\ keys # {} => /\ LastOf(keys, progress[t].last) \in keys
                           /\ \A k \in keys : k <= LastOf(keys, progress[t].last)
                           /\ Cardinality(keys) > 0
<1> DEFINE last == LastOf(keys, progress[t].last)
<1> DEFINE P == [exists |-> TRUE, last |-> last, scanned |-> progress[t].scanned + Cardinality(keys),
                 completed |-> progress[t].completed \/ keys = {}]
<1>1. IsFiniteSet(keys) /\ keys \subseteq Nat
  <2>1. IsFiniteSet(Keys) /\ Keys \subseteq Nat
    BY KeysFacts
  <2>2. keys \in SUBSET Keys
    OBVIOUS
  <2> QED
    BY <2>1, <2>2, FS_Subset
<1>2. Cardinality(keys) \in Nat /\ (keys # {} => Cardinality(keys) # 0)
  BY <1>1, FS_CardinalityType, FS_EmptySet
<1>3. keys # {} => last \in keys /\ \A k \in keys : k <= last
  BY <1>1, LastOfKeys
<1>4. progress[t].last \in Nat /\ progress[t].scanned \in Nat /\ progress[t].completed \in BOOLEAN
  BY DEF Shape
<1>5. last \in Nat
  <2>1. CASE keys = {}
    BY <1>4, <2>1 DEF LastOf
  <2>2. CASE keys # {}
    BY <1>1, <1>3, <2>2
  <2> QED
    BY <2>1, <2>2
<1>6. progress' = [progress EXCEPT ![t] = P] /\ DOMAIN progress = Targets
  BY DEF Checkpoint, Shape
<1>7. progress'[t] = P /\ \A u \in Targets : u # t => progress'[u] = progress[u]
  BY <1>6
<1> HIDE DEF last
<1>8. P \in [exists: BOOLEAN, last: Nat, scanned: Nat, completed: BOOLEAN]
  BY <1>2, <1>4, <1>5
<1>9. /\ P.last = last /\ P.scanned = progress[t].scanned + Cardinality(keys)
      /\ P.completed <=> progress[t].completed \/ keys = {}
  OBVIOUS
<1> HIDE DEF P
<1>10. progress' \in [Targets -> [exists: BOOLEAN, last: Nat, scanned: Nat, completed: BOOLEAN]]
  BY <1>6, <1>8 DEF Shape
<1>11. keys # {} => Cardinality(keys) > 0
  BY <1>2
<1> QED
  BY <1>1, <1>2, <1>3, <1>7, <1>9, <1>10, <1>11 DEF last

LEMMA AuditWriteInv ==
    ASSUME Inv, NEW r \in AuditRunners, AuditWrite(r) PROVE Inv'
<1> DEFINE fill(k) == IF k \in runner[r].keys THEN [rows[k] EXCEPT !.data = Fill(kind, @), !.audit = TRUE]
                                              ELSE rows[k]
<1> DEFINE ran == [Idle EXCEPT !.pc = "ran"]
<1>1. /\ UNCHANGED <<kind, checkout, ledger, history, lock, late>> /\ InTransaction(r)
      /\ rows' = [k \in Keys |-> fill(k)] /\ Checkpoint("audit", runner[r].keys)
      /\ runner' = [runner EXCEPT ![r] = ran]
  BY DEF AuditWrite
<1>2. Shape /\ DOMAIN runner = Runners /\ kind \in RowKinds
  BY DEF Inv, Shape
<1>3. PICK n, last : n = Len(rows) /\ last = progress["audit"].last
  OBVIOUS
<1>4. n \in Nat /\ Keys = 1..n /\ (\A k \in Keys : rows[k] \in Rows(kind)) /\ last \in Nat /\ last <= n
  BY <1>2, <1>3, KeysFacts DEF Shape, Targets, Inv, AuditOK
<1>5. PICK m \in last..n : /\ runner[r].keys = last + 1..m
                           /\ m = last => \A k \in Keys \ late : rows[k].audit
  BY <1>1, <1>3 DEF Inv, AuditOK
<1>6. PICK keys : keys = runner[r].keys
  OBVIOUS
<1>7. keys = last + 1..m /\ keys \subseteq Keys /\ (keys = {} <=> m = last)
  BY <1>4, <1>5, <1>6
<1>8. /\ progress' \in [Targets -> [exists: BOOLEAN, last: Nat, scanned: Nat, completed: BOOLEAN]]
      /\ progress'["history"] = progress["history"]
      /\ progress'["audit"].last = LastOf(keys, last)
      /\ progress'["audit"].scanned = progress["audit"].scanned + Cardinality(keys)
      /\ progress'["audit"].completed <=> progress["audit"].completed \/ keys = {}
      /\ keys # {} => LastOf(keys, last) \in keys /\ \A k \in keys : k <= LastOf(keys, last)
  <2>1. Checkpoint("audit", keys) /\ "audit" \in Targets /\ "history" \in Targets
    BY <1>1, <1>6 DEF Targets
  <2> QED
    BY <1>2, <1>3, <1>7, <2>1, CheckpointType
<1>9. progress'["audit"].last = m /\ progress'["audit"].scanned = m
  <2>1. progress["audit"].scanned = last
    BY <1>3 DEF Inv, AuditOK, AuditCheckpointTrue
  <2>2. CASE keys = {}
    <3>1. LastOf(keys, last) = last /\ Cardinality(keys) = 0
      BY <2>2, FS_EmptySet DEF LastOf
    <3>2. last = m /\ last + 0 = last
      BY <1>4, <1>7, <2>2
    <3> QED
      BY <1>8, <2>1, <3>1, <3>2
  <2>3. CASE keys # {}
    <3>1. m > last /\ m \in Nat /\ m \in keys
      BY <1>4, <1>5, <1>7, <2>3
    <3>2. LastOf(keys, last) = m
      <4>1. LastOf(keys, last) \in last + 1..m /\ m <= LastOf(keys, last)
        BY <1>7, <1>8, <2>3, <3>1
      <4> QED
        BY <1>4, <3>1, <4>1
    <3>3. Cardinality(last + 1..m) = m - (last + 1) + 1
      BY <1>4, <3>1, FS_Interval
    <3>4. last + (m - (last + 1) + 1) = m
      BY <1>4, <3>1
    <3> QED
      BY <1>7, <1>8, <2>1, <3>2, <3>3, <3>4
  <2> QED
    BY <2>2, <2>3
<1>10. \A k \in Keys : /\ fill(k) \in Rows(kind) /\ fill(k).own = rows[k].own
                       /\ rows[k].audit \/ k \in keys => fill(k).audit
                       /\ OwnRow(kind, rows[k].data) => OwnRow(kind, fill(k).data)
  <2>1. TAKE k \in Keys
  <2>2. rows[k] \in [data: RowOf(kind), audit: BOOLEAN, own: BOOLEAN]
    BY <1>4 DEF Rows
  <2>3. Fill(kind, rows[k].data) \in RowOf(kind) /\ (OwnRow(kind, rows[k].data) => OwnRow(kind, Fill(kind, rows[k].data)))
    BY <1>2, <2>2, FillType
  <2>4. CASE k \notin keys
    BY <1>4, <1>6, <2>4
  <2>5. CASE k \in keys
    <3>1. PICK d : d = Fill(kind, rows[k].data)
      OBVIOUS
    <3>2. fill(k) = [rows[k] EXCEPT !.data = d, !.audit = TRUE]
      BY <1>6, <2>5, <3>1
    <3>3. fill(k) \in [data: RowOf(kind), audit: BOOLEAN, own: BOOLEAN]
      BY <2>2, <2>3, <3>1, <3>2
    <3>4. fill(k).own = rows[k].own /\ fill(k).audit = TRUE /\ fill(k).data = d
      BY <2>2, <3>2
    <3> HIDE DEF fill
    <3> QED
      BY <2>3, <3>1, <3>3, <3>4 DEF Rows
  <2> QED
    BY <2>4, <2>5
<1> HIDE DEF fill
<1>11. rows' \in Seq(Rows(kind)) /\ Len(rows') = n /\ Keys' = 1..n /\ \A k \in Keys : rows'[k] = fill(k)
  <2>1. rows' \in [1..n -> Rows(kind)] /\ \A k \in Keys : rows'[k] = fill(k)
    BY <1>1, <1>4, <1>10
  <2>2. rows' \in Seq(Rows(kind))
    BY <1>4, <2>1 DEF Seq
  <2> QED
    BY <1>4, <2>1, <2>2, LenProperties DEF Keys
<1>12. runner'[r] = ran /\ \A q \in Runners \ {r} : runner'[q] = runner[q]
  BY <1>1, <1>2, Apart
<1>13. ran = [pc |-> "ran", keys |-> {}, events |-> {}]
  BY DEF Idle
<1> HIDE DEF ran
<1>14. Shape'
  <2>1. \A k \in Keys' : rows'[k].own => OwnRow(kind, rows'[k].data)
    BY <1>2, <1>4, <1>10, <1>11 DEF Shape
  <2>2. \A q \in Runners : runner'[q] = [pc |-> runner'[q].pc, keys |-> runner'[q].keys, events |-> runner'[q].events]
    BY <1>2, <1>12, <1>13 DEF Shape
  <2>3. DOMAIN runner' = Runners
    BY <1>1, <1>2
  <2> QED
    BY <1>1, <1>2, <1>8, <1>11, <2>1, <2>2, <2>3 DEF Shape
<1>15. AuditOK'
  <2>1. HasProgress /\ HasProgress'
    BY <1>1 DEF Inv, AuditOK, InTransaction, HasProgress
  <2>2. \A a \in AuditRunners : runner[a].pc # "idle" => a = r /\ lock = r
    BY <1>1 DEF Inv, AuditOK, InTransaction
  <2>3. \A a \in AuditRunners : (runner'[a].pc # "idle" => lock' = a) /\ ~InTransaction(a)'
    BY <1>1, <1>12, <1>13, <2>2, Apart DEF InTransaction
  <2>4. ASSUME NEW k \in Keys', (progress'["audit"].completed /\ k \notin late) \/ k <= m PROVE rows'[k].audit
    <3>1. k \in Keys /\ k \in 1..n
      BY <1>4, <1>11
    <3>2. rows[k].audit \/ k \in keys
      <4>1. CASE progress["audit"].completed /\ k \notin late
        BY <3>1, <4>1 DEF Inv, AuditOK, AuditCheckpointTrue
      <4>2. CASE keys = {} /\ k \notin late
        BY <1>5, <1>7, <3>1, <4>2
      <4>3. CASE k <= m
        <5>1. k <= last \/ k \in keys
          BY <1>4, <1>7, <3>1, <4>3
        <5> QED
          BY <1>3, <3>1, <5>1 DEF Inv, AuditOK, AuditCheckpointTrue
      <4> QED
        BY <1>8, <2>4, <4>1, <4>2, <4>3
    <3> QED
      BY <1>10, <1>11, <3>1, <3>2
  <2>5. AuditCheckpointTrue'
    BY <1>1, <1>9, <2>4 DEF AuditCheckpointTrue
  <2>6. m <= n
    BY <1>4, <1>5
  <2> QED
    BY <1>9, <1>11, <2>1, <2>3, <2>5, <2>6 DEF AuditOK
<1>16. HistoryOK'
  <2>1. \A q \in HistoryRunners : runner'[q] = runner[q]
    BY <1>12, Apart
  <2>2. (HasHistory => HasHistory') /\ Len(rows) <= n
    BY <1>1, <1>3, <1>4 DEF HasHistory
  <2>3. rows' = <<>> => rows = <<>>
    BY <1>2, <1>3, <1>11, EmptySeq DEF Shape
  <2> QED
    BY <1>1, <1>2, <1>4, <1>8, <1>11, <2>1, <2>2, <2>3, HistoryFrame DEF Inv
<1> QED
  BY <1>14, <1>15, <1>16 DEF Inv

LEMMA HistoryReadInv ==
    ASSUME Inv, NEW r \in HistoryRunners, HistoryRead(r) PROVE Inv'
<1>1. PICK keys : keys = Candidates(progress["history"].last)
  OBVIOUS
<1>2. PICK events : events = Built(keys)
  OBVIOUS
<1>3. /\ UNCHANGED <<kind, checkout, ledger, rows, history, progress, lock, late>>
      /\ HasHistory /\ ~progress["history"].completed /\ ProgressFree("history")
      /\ runner' = [runner EXCEPT ![r] = [pc |-> "read", keys |-> keys, events |-> events]]
  BY <1>1, <1>2 DEF HistoryRead
<1>4. Shape /\ DOMAIN runner = Runners /\ kind \in RowKinds /\ r \in Runners
  BY Apart DEF Inv, Shape
<1>5. /\ runner'[r] = [pc |-> "read", keys |-> keys, events |-> events]
      /\ \A q \in Runners \ {r} : runner'[q] = runner[q]
  BY <1>3, <1>4
<1>6. /\ keys \subseteq Keys
      /\ keys = {} => \A k \in Keys : HistoryOf(k) # {}
      /\ \A k \in keys : \A j \in 1..k : j \in keys \/ HistoryOf(j) # {}
  <2>1. PICK last : last = progress["history"].last
    OBVIOUS
  <2>2. PICK S : S = {k \in Keys : k > last /\ HistoryOf(k) = {}}
    OBVIOUS
  <2>3. Len(rows) \in Nat /\ Keys = 1..Len(rows) /\ IsFiniteSet(Keys) /\ last \in Nat
    BY <1>4, <2>1, KeysFacts DEF Shape, Targets
  <2>4. S \subseteq Nat /\ IsFiniteSet(S)
    <3>1. S \in SUBSET Keys
      BY <2>2
    <3>2. IsFiniteSet(S)
      BY <2>3, <3>1, FS_Subset
    <3>3. Keys \subseteq Nat
      BY <2>3
    <3> QED
      BY <3>1, <3>2, <3>3
  <2>5. keys = FirstOf(S)
    BY <1>1, <2>1, <2>2 DEF Candidates
  <2>6. /\ keys \subseteq S /\ (keys = {} => S = {})
        /\ \A k \in keys : \A j \in S : j <= k => j \in keys
    BY <2>4, <2>5, FirstOfKeys
  <2>7. \A k \in Keys : k \in S \/ HistoryOf(k) # {}
    <3>1. \A k \in Keys : k <= last => HistoryOf(k) # {}
      BY <2>1 DEF Inv, HistoryOK
    <3>2. \A k \in Keys : k <= last \/ k > last
      BY <2>3
    <3> QED
      BY <2>2, <3>1, <3>2
  <2>8. \A k \in keys : \A j \in 1..k : j \in Keys /\ j <= k
    BY <2>2, <2>3, <2>6
  <2> QED
    BY <2>2, <2>6, <2>7, <2>8
<1>7. ASSUME NEW k \in keys PROVE \E e \in events : e.key = k
  <2> DEFINE ev == _infer(kind, rows[k].data).events
  <2> DEFINE en(i) == Entry(k, ev[i].from, ev[i].to, ev[i].at, "inferred")
  <2>1. rows[k].data \in RowOf(kind)
    BY <1>4, <1>6, KeysFacts DEF Rows
  <2>2. 1 \in DOMAIN ev
    BY <1>4, <2>1, SomethingInferred
  <2>3. en(1).key = k
    BY DEF Entry
  <2>4. en(1) \in {en(i) : i \in DOMAIN ev}
    BY <2>2
  <2>5. {en(i) : i \in DOMAIN ev} \subseteq events
    BY <1>2, Zenon DEF Built
  <2> HIDE DEF en, ev
  <2> QED
    BY <2>3, <2>4, <2>5
<1>8. Shape'
  <2>1. Keys' = Keys /\ DOMAIN runner' = Runners
    BY <1>3, <1>4 DEF Keys
  <2>2. \A q \in Runners : runner'[q] = [pc |-> runner'[q].pc, keys |-> runner'[q].keys, events |-> runner'[q].events]
    BY <1>4, <1>5 DEF Shape
  <2> QED
    BY <1>3, <1>4, <2>1, <2>2 DEF Shape
<1>9. AuditOK'
  <2>1. PICK n : n = Len(rows)
    OBVIOUS
  <2>2. n \in Nat /\ Keys = 1..n /\ Keys' = Keys /\ Len(rows) <= n
    BY <1>3, <1>4, <2>1, KeysFacts DEF Keys
  <2>3. (HasProgress => HasProgress') /\ \A a \in AuditRunners : runner'[a] = runner[a]
    BY <1>3, <1>5, Apart DEF HasProgress
  <2>4. \A k \in 1..n : k \in Keys /\ (rows[k].audit => rows'[k].audit)
    BY <1>3, <2>2
  <2> QED
    BY <1>3, <1>4, <2>1, <2>2, <2>3, <2>4, AuditFrame DEF Inv
<1>10. HistoryOK'
  <2> DEFINE p == progress["history"]
  <2>1. /\ p' = p /\ Keys' = Keys /\ HasHistory' /\ rows' = rows /\ ~p.completed
        /\ \A k : HistoryOf(k)' = HistoryOf(k)
    BY <1>3 DEF Keys, HistoryOf, HasHistory
  <2>2. p.last <= Len(rows) /\ (\A k \in Keys : k <= p.last => HistoryOf(k) # {}) /\ (p.scanned > 0 => rows # <<>>)
    BY DEF Inv, HistoryOK
  <2>3. ASSUME NEW q \in HistoryRunners, InTransaction(q)'
        PROVE  /\ runner'[q].keys \subseteq Keys
               /\ runner'[q].keys = {} => (\A k \in Keys \ late : HistoryOf(k) # {}) \/ ~p.exists
               /\ \A k \in runner'[q].keys : \A j \in 1..k : j \in runner'[q].keys \/ HistoryOf(j) # {}
               /\ \A k \in runner'[q].keys : \E e \in runner'[q].events : e.key = k
    <3>1. CASE q = r
      BY <1>5, <1>6, <1>7, <3>1
    <3>2. CASE q # r
      <4>1. runner'[q] = runner[q] /\ InTransaction(q)
        BY <1>5, <2>3, <3>2, Apart DEF InTransaction
      <4> QED
        BY <4>1 DEF Inv, HistoryOK
    <3> QED
      BY <3>1, <3>2
  <2>4. p.exists \/ \A q \in HistoryRunners : ~InTransaction(q)
    BY <1>3, Apart DEF ProgressFree, TargetOf
  <2>5. ~p.exists => HistoryAlone'
    <3>1. ~p.exists => \A q \in HistoryRunners : q # r => ~InTransaction(q)'
      BY <1>5, <2>4, Apart DEF InTransaction
    <3> QED
      BY <3>1 DEF HistoryAlone
  <2>6. (~p.exists => p.scanned = 0) /\ ~(rows = <<>> /\ p.exists) /\ late' = late
    BY <1>3, <2>1 DEF Inv, HistoryOK
  <2> QED
    BY <2>1, <2>2, <2>3, <2>5, <2>6 DEF HistoryOK
<1> QED
  BY <1>8, <1>9, <1>10 DEF Inv

LEMMA HistoryWriteInv ==
    ASSUME Inv, NEW r \in HistoryRunners, HistoryWrite(r) PROVE Inv'
<1> DEFINE p == progress["history"]
<1>1. PICK keys, events : keys = runner[r].keys /\ events = runner[r].events
  OBVIOUS
<1>2. /\ UNCHANGED <<kind, checkout, ledger, rows, lock, late>> /\ InTransaction(r)
      /\ history' = history \cup {e \in events : \A f \in HistoryOf(e.key) :
                                      f.source = "inferred" => f.to # e.to}
      /\ Checkpoint("history", keys)
      /\ runner' = [runner EXCEPT ![r] = Idle]
  BY <1>1 DEF HistoryWrite
<1>3. Shape /\ DOMAIN runner = Runners /\ r \in Runners
  BY Apart DEF Inv, Shape
<1>4. /\ keys \subseteq Keys /\ HasHistory
      /\ keys = {} => (\A k \in Keys \ late : HistoryOf(k) # {}) \/ ~p.exists
      /\ \A k \in keys : \A j \in 1..k : j \in keys \/ HistoryOf(j) # {}
      /\ \A k \in keys : \E e \in events : e.key = k
  BY <1>1, <1>2 DEF Inv, HistoryOK
<1>5. runner'[r] = Idle /\ \A q \in Runners \ {r} : runner'[q] = runner[q]
  BY <1>2, <1>3
<1>6. \A k : HistoryOf(k) # {} => HistoryOf(k)' # {}
  BY <1>2 DEF HistoryOf
<1>7. \A k \in keys : HistoryOf(k)' # {}
  <2>1. TAKE k \in keys
  <2>2. PICK e \in events : e.key = k
    BY <1>4
  <2>3. CASE e \in history'
    BY <2>2, <2>3 DEF HistoryOf
  <2>4. CASE e \notin history'
    <3>1. HistoryOf(e.key) # {}
      BY <1>2, <2>4
    <3> QED
      BY <1>6, <2>2, <3>1
  <2> QED
    BY <2>3, <2>4
<1>8. /\ progress' \in [Targets -> [exists: BOOLEAN, last: Nat, scanned: Nat, completed: BOOLEAN]]
      /\ progress'["audit"] = progress["audit"]
      /\ progress'["history"].last = LastOf(keys, p.last)
      /\ progress'["history"].scanned = p.scanned + Cardinality(keys)
      /\ progress'["history"].completed <=> p.completed \/ keys = {}
      /\ keys # {} => LastOf(keys, p.last) \in keys /\ Cardinality(keys) > 0
      /\ Cardinality(keys) \in Nat
  <2>1. "audit" \in Targets /\ "history" \in Targets
    BY DEF Targets
  <2> QED
    BY <1>2, <1>3, <1>4, <2>1, CheckpointType
<1>9. Keys' = Keys /\ HasHistory' /\ (HasProgress => HasProgress') /\ Len(rows) \in Nat /\ Keys = 1..Len(rows)
  BY <1>2, <1>3, <1>4, KeysFacts DEF Keys, HasHistory, HasProgress
<1>10. Shape'
  <2>1. DOMAIN runner' = Runners
    BY <1>2, <1>3
  <2>2. \A q \in Runners : runner'[q] = [pc |-> runner'[q].pc, keys |-> runner'[q].keys, events |-> runner'[q].events]
    BY <1>3, <1>5 DEF Shape, Idle
  <2> QED
    BY <1>2, <1>3, <1>8, <1>9, <2>1, <2>2 DEF Shape
<1>11. AuditOK'
  <2>1. PICK n : n = Len(rows)
    OBVIOUS
  <2>2. n \in Nat /\ Keys = 1..n /\ Len(rows) <= n
    BY <1>9, <2>1
  <2>3. \A a \in AuditRunners : runner'[a] = runner[a]
    BY <1>5, Apart
  <2>4. \A k \in 1..n : k \in Keys /\ (rows[k].audit => rows'[k].audit)
    BY <1>2, <2>2
  <2> QED
    BY <1>2, <1>3, <1>8, <1>9, <2>1, <2>2, <2>3, <2>4, AuditFrame DEF Inv
<1>12. ASSUME NEW q \in HistoryRunners, InTransaction(q)'
       PROVE  /\ InTransaction(q) /\ runner'[q] = runner[q]
              /\ runner[q].keys \subseteq Keys
              /\ runner[q].keys = {} => \A k \in Keys \ late : HistoryOf(k)' # {}
              /\ \A k \in runner[q].keys : \A j \in 1..k : j \in runner[q].keys \/ HistoryOf(j)' # {}
              /\ \A k \in runner[q].keys : \E e \in runner[q].events : e.key = k
  <2>1. q # r
    BY <1>5, <1>12 DEF InTransaction, Idle
  <2>2. runner'[q] = runner[q] /\ InTransaction(q)
    BY <1>5, <1>12, <2>1, Apart DEF InTransaction
  <2>3. /\ runner[q].keys \subseteq Keys
        /\ runner[q].keys = {} => (\A k \in Keys \ late : HistoryOf(k) # {}) \/ ~p.exists
        /\ \A k \in runner[q].keys : \A j \in 1..k : j \in runner[q].keys \/ HistoryOf(j) # {}
        /\ \A k \in runner[q].keys : \E e \in runner[q].events : e.key = k
    BY <2>2 DEF Inv, HistoryOK
  <2>4. p.exists
    BY <1>2, <2>1, <2>2 DEF Inv, HistoryOK, HistoryAlone
  <2> QED
    BY <1>6, <2>2, <2>3, <2>4
<1>13. HistoryOK'
  <2>1. p.last \in Nat /\ p.scanned \in Nat /\ p.last <= Len(rows) /\ (\A k \in Keys : k <= p.last => HistoryOf(k) # {})
    BY <1>3 DEF Shape, Targets, Inv, HistoryOK
  <2>2. p.completed => \A k \in Keys \ late : HistoryOf(k) # {}
    BY <1>2 DEF Inv, HistoryOK
  <2>2a. ~p.exists => p.scanned = 0 /\ \A q \in HistoryRunners : ~InTransaction(q)'
    <3>1. ~p.exists => p.scanned = 0 /\ \A q \in HistoryRunners : InTransaction(q) => q = r
      BY <1>2 DEF Inv, HistoryOK, HistoryAlone
    <3>2. ~InTransaction(r)' /\ \A q \in HistoryRunners : q # r => runner'[q] = runner[q]
      BY <1>5, Apart DEF InTransaction, Idle
    <3> QED
      BY <3>1, <3>2 DEF InTransaction
  <2>2b. ~p.exists /\ keys = {} => progress'["history"].scanned = 0
    <3>1. Cardinality({}) = 0 /\ 0 + 0 = 0
      BY FS_EmptySet
    <3> QED
      BY <1>8, <2>2a, <3>1
  <2>3. progress'["history"].completed =>
            \/ \A k \in Keys \ late : HistoryOf(k)' # {}
            \/ progress'["history"].scanned = 0 /\ \A q \in HistoryRunners : ~InTransaction(q)'
    BY <1>4, <1>6, <1>8, <2>2, <2>2a, <2>2b
  <2>3a. progress'["history"].exists = TRUE
    BY <1>2, <1>3 DEF Checkpoint, Shape, Targets
  <2>3b. rows = <<>> => progress'["history"].completed /\ \A q \in HistoryRunners : ~InTransaction(q)'
    <3>1. rows = <<>> => keys = {}
      BY <1>4 DEF Keys
    <3>2. rows = <<>> => ~p.exists
      BY <1>2 DEF Inv, HistoryOK
    <3> QED
      BY <1>8, <2>2a, <3>1, <3>2
  <2>4. /\ progress'["history"].last <= Len(rows)
        /\ \A k \in Keys : k <= progress'["history"].last => HistoryOf(k)' # {}
        /\ progress'["history"].scanned > 0 => rows # <<>>
    <3>1. CASE keys = {}
      <4>1. LastOf(keys, p.last) = p.last /\ Cardinality(keys) = 0
        BY <3>1, FS_EmptySet DEF LastOf
      <4>2. p.scanned + 0 = p.scanned
        BY <2>1
      <4>3. p.scanned > 0 => rows # <<>>
        BY DEF Inv, HistoryOK
      <4> QED
        BY <1>6, <1>8, <2>1, <4>1, <4>2, <4>3
    <3>2. CASE keys # {}
      <4>1. PICK k0 : k0 = LastOf(keys, p.last)
        OBVIOUS
      <4>2. k0 \in keys /\ k0 \in Keys /\ progress'["history"].last = k0
        BY <1>4, <1>8, <3>2, <4>1
      <4>3. k0 <= Len(rows) /\ \A k \in Keys : k <= k0 => k \in 1..k0
        BY <1>9, <4>2
      <4>4. \A k \in Keys : k <= k0 => HistoryOf(k)' # {}
        BY <1>4, <1>6, <1>7, <4>2, <4>3
      <4>5. rows # <<>>
        BY <4>2 DEF Keys
      <4> QED
        BY <4>2, <4>3, <4>4, <4>5
    <3> QED
      BY <3>1, <3>2
  <2> QED
    BY <1>2, <1>9, <1>12, <2>3, <2>3a, <2>3b, <2>4 DEF HistoryOK
<1> QED
  BY <1>10, <1>11, <1>13 DEF Inv

LEMMA StepInv ==
    ASSUME Inv, Next PROVE Inv'
<1>1. CASE Deploy \/ Migrate \/ Load \/ Up \/ Probe \/ Insert
  BY <1>1, DeployInv, MigrateInv, LoadInv, ProbeInv, InsertInv
<1>2. CASE \E k \in Keys : Move(k)
  BY <1>2, MoveInv
<1>3. CASE \E r \in AuditRunners : AuditStep(r)
  BY <1>3, AuditRunInv, AuditReadInv, AuditWriteInv, AuditUnlockInv DEF AuditStep
<1>4. CASE \E r \in HistoryRunners : HistoryStep(r)
  BY <1>4, HistoryReadInv, HistoryWriteInv DEF HistoryStep
<1>5. CASE \E r \in Runners : RunnerDies(r)
  BY <1>5, RunnerDiesInv
<1> QED
  BY <1>1, <1>2, <1>3, <1>4, <1>5 DEF Next

----------------------------------------------------------------------------
(* The theorems.                                                           *)

(* Every reachable state has the shape of the constraints, the audit       *)
(* backfill's lock protects its batch, and what the history backfill read  *)
(* without a lock is still enough when it writes.                          *)
THEOREM Invariance == Spec => []Inv
<1>1. Inv /\ UNCHANGED vars => Inv'
  BY QuietInv DEF vars, Inv, Shape
<1>2. Inv /\ [Next]_vars => Inv'
  BY <1>1, StepInv
<1> QED
  BY <1>2, InitInv, PTL DEF Spec

(* simulation.audit_backfill_progress never claims too much: rows_scanned  *)
(* is the number of rows up to last_key, all of them have timestamps, and  *)
(* all rows have once the target is completed, but those of a simulator    *)
(* older than the columns; for any number of runners and crashes.          *)
THEOREM AuditCheckpointHolds == Spec => []AuditCheckpointTrue
<1>1. Inv => AuditCheckpointTrue
  BY DEF Inv, AuditOK
<1> QED
  BY <1>1, Invariance, PTL

(* A completed history backfill that has scanned a row leaves no row       *)
(* without a history that no simulator older than the schema wrote,        *)
(* although its runners take no lock and the checkpoint may move backwards.*)
THEOREM HistoryIsWhole == Spec => []HistoryCompleteIsWhole
<1>1. Inv => HistoryCompleteIsWhole
  <2> SUFFICES ASSUME Inv, progress["history"].completed, progress["history"].scanned > 0
               PROVE  \A k \in Keys \ late : HistoryOf(k) # {}
    BY DEF HistoryCompleteIsWhole
  <2>1. ~(progress["history"].scanned = 0)
    OBVIOUS
  <2> QED
    BY <2>1 DEF Inv, HistoryOK
<1> QED
  BY <1>1, Invariance, PTL

(* migrate.py and load.py leave the schema of exactly one checkout, or the *)
(* one that was there.                                                     *)
THEOREM OneCheckout == Spec => SchemaOfOneCheckout
<1>1. Inv /\ [Next]_vars => [ledger' # ledger => ledger' = Checkouts[checkout]]_vars
  <2> SUFFICES ASSUME Inv, Next, ledger' # ledger PROVE ledger' = Checkouts[checkout]
    BY DEF vars
  <2>1. Shape
    BY DEF Inv
  <2>2. CASE Load
    BY <2>2 DEF Load, Files
  <2>3. CASE Migrate
    <3>1. Validated /\ ledger' = ledger \o SubSeq(Files, Len(ledger) + 1, Len(Files))
      BY <2>3 DEF Migrate
    <3> QED
      BY <2>1, <3>1, LedgerFacts DEF Files
  <2>4. CASE Deploy \/ Up \/ Probe \/ Insert
    BY <2>4 DEF Deploy, Up, Probe, Insert
  <2>5. CASE \E k \in Keys : Move(k)
    BY <2>5 DEF Move
  <2>6. CASE \E r \in AuditRunners : AuditStep(r)
    BY <2>6 DEF AuditStep, AuditRun, AuditRead, AuditWrite, AuditUnlock
  <2>7. CASE \E r \in HistoryRunners : HistoryStep(r)
    BY <2>7 DEF HistoryStep, HistoryRead, HistoryWrite
  <2>8. CASE \E r \in Runners : RunnerDies(r)
    BY <2>8 DEF RunnerDies
  <2> QED
    BY <2>2, <2>3, <2>4, <2>5, <2>6, <2>7, <2>8 DEF Next
<1> QED
  BY <1>1, Invariance, PTL DEF Spec, SchemaOfOneCheckout

----------------------------------------------------------------------------
(* The simulator and the schema.                                           *)

(* The schema is never behind the simulator that runs, so what a simulator *)
(* lacks the schema has; cases of simulators that were not left behind by  *)
(* it are dated as they should be.                                         *)
SimOK ==
    /\ sim = "ready" => image # 0
    /\ image # 0 => image \in DOMAIN Checkouts /\ Len(Checkouts[image]) <= Len(ledger)
    /\ \A k \in Keys : rows[k].own =>
          /\ k \notin late => Timely(kind, rows[k].data)
          /\ kind = "case" /\ ~HasAudit => rows[k].data.updated = Null

LEMMA SimFacts ==
    ASSUME Shape, SimOK, sim = "ready"
    PROVE  /\ StampsRows => HasAudit
           /\ RecordsHistory => HasHistory
           /\ ~Outdated => (StampsRows <=> HasAudit) /\ (RecordsHistory <=> HasHistory)
<1>1. PICK n : n = Len(Checkouts[image])
  OBVIOUS
<1>2. n \in Nat /\ n <= Len(ledger) /\ Len(ledger) \in Nat
  <2>1. image \in 1..Len(Checkouts)
    BY UpgradeAssumption, LenProperties DEF SimOK
  <2>2. Checkouts[image] \in Seq(STRING)
    BY <2>1, UpgradeAssumption, ElementOfSeq
  <2> QED
    BY <1>1, <2>2, LedgerFacts, LenProperties DEF SimOK
<1>3. PICK h : h = HistoryVersion(kind)
  OBVIOUS
<1>4. h \in Nat
  BY <1>3 DEF HistoryVersion
<1>5. (n >= 2 => Len(ledger) >= 2) /\ (n >= h => Len(ledger) >= h)
  BY <1>2, <1>4
<1>6. (StampsRows => HasAudit) /\ (RecordsHistory => HasHistory)
  BY <1>1, <1>3, <1>5 DEF StampsRows, HasAudit, RecordsHistory, HasHistory
<1> QED
  BY <1>6 DEF Outdated

(* The rows of the simulator that a step leaves alone, or that it makes    *)
(* as they should be.                                                      *)
LEMMA SimFrame ==
    ASSUME Shape, SimOK, kind' = kind, late \subseteq late', HasAudit => HasAudit',
           sim' = "ready" => image' # 0,
           image' # 0 => image' \in DOMAIN Checkouts /\ Len(Checkouts[image']) <= Len(ledger'),
           \A k \in Keys' : \/ k \in Keys /\ rows'[k] = rows[k]
                            \/ rows'[k].own => /\ k \notin late' => Timely(kind, rows'[k].data)
                                               /\ kind = "case" /\ ~HasAudit' => rows'[k].data.updated = Null
    PROVE  SimOK'
<1>1. ASSUME NEW k \in Keys', rows'[k].own
      PROVE  /\ k \notin late' => Timely(kind, rows'[k].data)
             /\ kind = "case" /\ ~HasAudit' => rows'[k].data.updated = Null
  <2>1. CASE k \in Keys /\ rows'[k] = rows[k]
    BY <1>1, <2>1 DEF SimOK
  <2> QED
    BY <1>1, <2>1
<1> QED
  BY <1>1 DEF SimOK, Timely

LEMMA InitSim == Init => SimOK
BY DEF Init, SimOK, Keys

LEMMA NewRowTimely ==
    ASSUME kind \in RowKinds
    PROVE  Timely(kind, NewRow) /\ (kind = "case" /\ ~StampsRows => NewRow.updated = Null)
<1>1. CASE kind = "case"
  <2>1. PICK upd : upd = IF StampsRows THEN Timestamp(SimDay, 0) ELSE Null
    OBVIOUS
  <2>2. NewRow = [status |-> "Open", opened |-> Timestamp(SimDay, 0), resolution_hours |-> -1, updated |-> upd]
    BY <1>1, <2>1 DEF NewRow
  <2> QED
    BY <2>1, <2>2 DEF Timely
<1>2. CASE kind # "case"
  BY <1>2 DEF Timely
<1> QED
  BY <1>1, <1>2

LEMMA MovedTimely ==
    ASSUME kind \in RowKinds, NEW r \in RowOf(kind)
    PROVE  /\ StampsRows /\ Moved(r) # r => Timely(kind, Moved(r))
           /\ ~StampsRows /\ kind = "case" => Moved(r).updated = r.updated
<1>1. CASE kind = "case"
  <2>1. r \in [status: {"Open", "Resolved", "Closed"}, opened: Stamps,
               resolution_hours: Nat \cup {-1}, updated: Stamps \cup {Null}]
    BY <1>1, CaseRow
  <2>2. PICK one, two : one = Timestamp(SimDay + 1, 0) /\ two = Timestamp(SimDay + 2, 0)
    OBVIOUS
  <2>3. PICK x, u, v : /\ u = (IF StampsRows THEN one ELSE r.updated) /\ v = (IF StampsRows THEN two ELSE r.updated)
                       /\ \/ Moved(r) = r
                          \/ Moved(r) = [r EXCEPT !.status = "Resolved", !.updated = u, !.resolution_hours = x]
                          \/ Moved(r) = [r EXCEPT !.status = "Closed", !.updated = v]
    BY <1>1, <2>2 DEF Moved
  <2>4. Moved(r) # r => Moved(r).updated \in {u, v}
    BY <2>1, <2>3
  <2>5. StampsRows /\ Moved(r) # r => Moved(r).updated \in {one, two}
    BY <2>3, <2>4
  <2>6. ~StampsRows => Moved(r).updated = r.updated
    BY <2>3, <2>4
  <2> QED
    BY <1>1, <2>2, <2>5, <2>6 DEF Timely
<1>2. CASE kind # "case"
  BY <1>2 DEF Timely
<1> QED
  BY <1>1, <1>2

LEMMA FillTimely ==
    ASSUME NEW k \in RowKinds, NEW r \in RowOf(k), OwnRow(k, r), Timely(k, r)
    PROVE  Timely(k, Fill(k, r))
<1>1. CASE k = "case" /\ ~_is_date(r.updated) /\ r.status # "Open"
  <2>1. r \in [status: {"Open", "Resolved", "Closed"}, opened: Stamps,
               resolution_hours: Nat \cup {-1}, updated: Stamps \cup {Null}]
    BY <1>1, CaseRow
  <2>2. r.opened = Timestamp(SimDay, 0) /\ r.resolution_hours = HoursPerDay /\ ~(r.resolution_hours < 0)
    BY <1>1, HoursAssumption DEF OwnRow
  <2>3. Fill(k, r) = [r EXCEPT !.updated = Timestamp(SimDay + 1, 0)]
    BY <1>1, <2>2, AddADay DEF Fill
  <2>4. Fill(k, r).updated = Timestamp(SimDay + 1, 0)
    BY <2>1, <2>3
  <2> QED
    BY <2>4 DEF Timely
<1>2. CASE k = "case" /\ _is_date(r.updated)
  BY <1>2 DEF Fill
<1>3. CASE k = "case" /\ ~_is_date(r.updated) /\ r.status = "Open"
  <2>1. r \in [status: {"Open", "Resolved", "Closed"}, opened: Stamps,
               resolution_hours: Nat \cup {-1}, updated: Stamps \cup {Null}]
    BY <1>3, CaseRow
  <2>2. PICK u : Fill(k, r) = [r EXCEPT !.updated = u]
    BY <1>3 DEF Fill
  <2>3. Fill(k, r).status = "Open"
    BY <1>3, <2>1, <2>2
  <2> QED
    BY <2>3 DEF Timely
<1>4. CASE k # "case"
  BY <1>4 DEF Timely
<1> QED
  BY <1>1, <1>2, <1>3, <1>4

LEMMA InsertSim ==
    ASSUME Inv, SimOK, Insert PROVE SimOK'
<1>1. PICK n, new : n = Len(rows) + 1 /\ new = [data |-> NewRow, audit |-> StampsRows, own |-> TRUE]
  OBVIOUS
<1>2. /\ UNCHANGED <<kind, ledger, image, sim>> /\ rows' = Append(rows, new) /\ sim = "ready"
      /\ late \subseteq late'
  BY <1>1 DEF Insert, Late
<1>3. Shape /\ kind \in RowKinds /\ rows \in Seq(Rows(kind))
  BY DEF Inv, Shape
<1>4. Len(rows) \in Nat /\ Keys = 1..Len(rows) /\ n \in Nat
  BY <1>1, <1>3, KeysFacts
<1>5. new \in Rows(kind) /\ new.data = NewRow
  <2>1. StampsRows \in BOOLEAN
    BY DEF StampsRows
  <2> QED
    BY <1>1, <1>3, <2>1, NewRowType DEF Rows
<1>6. Keys' = 1..n /\ rows'[n] = new /\ \A k \in Keys : rows'[k] = rows[k]
  <2>1. /\ rows' \in Seq(Rows(kind)) /\ Len(rows') = n /\ rows'[n] = new
        /\ \A k \in 1..Len(rows) : rows'[k] = rows[k]
    BY <1>1, <1>2, <1>3, <1>5, AppendProperties
  <2> QED
    BY <1>4, <2>1, LenProperties DEF Keys
<1>7. \A k \in 1..n : k \in Keys \/ k = n
  BY <1>1, <1>4
<1>8. Timely(kind, new.data) /\ (kind = "case" /\ ~HasAudit' => new.data.updated = Null)
  <2>1. HasAudit' <=> HasAudit
    BY <1>2 DEF HasAudit
  <2>2. ~HasAudit => ~StampsRows
    BY <1>2, <1>3, SimFacts
  <2> QED
    BY <1>3, <1>5, <2>1, <2>2, NewRowTimely
<1>9. \A k \in Keys' : \/ k \in Keys /\ rows'[k] = rows[k]
                       \/ rows'[k].own => /\ k \notin late' => Timely(kind, rows'[k].data)
                                          /\ kind = "case" /\ ~HasAudit' => rows'[k].data.updated = Null
  BY <1>6, <1>7, <1>8
<1>10. HasAudit => HasAudit'
  BY <1>2 DEF HasAudit
<1>11. /\ sim' = "ready" => image' # 0
       /\ image' # 0 => image' \in DOMAIN Checkouts /\ Len(Checkouts[image']) <= Len(ledger')
  BY <1>2 DEF SimOK
<1> QED
  BY <1>2, <1>3, <1>9, <1>10, <1>11, SimFrame

LEMMA MoveSim ==
    ASSUME Inv, SimOK, NEW key \in Keys, Move(key) PROVE SimOK'
<1>1. PICK row, moved : row = rows[key] /\ moved = [row EXCEPT !.data = Moved(row.data)]
  OBVIOUS
<1>2. /\ UNCHANGED <<kind, ledger, image, sim>> /\ sim = "ready" /\ row.own /\ Moved(row.data) # row.data
      /\ rows' = [rows EXCEPT ![key] = moved]
  BY <1>1 DEF Move
<1>3. late' = IF Outdated THEN late \cup {key} ELSE late
  BY DEF Move, Late
<1>4. Shape /\ kind \in RowKinds /\ row \in Rows(kind)
  <2>1. Shape /\ kind \in RowKinds
    BY DEF Inv, Shape
  <2> QED
    BY <1>1, <2>1, KeysFacts
<1>5. row.data \in RowOf(kind) /\ moved.data = Moved(row.data) /\ moved.own = row.own
  BY <1>1, <1>4 DEF Rows
<1>6. Keys' = Keys /\ rows'[key] = moved /\ \A k \in Keys : k # key => rows'[k] = rows[k]
  BY <1>2 DEF Keys
<1>7. (HasAudit' <=> HasAudit) /\ (~HasAudit => ~StampsRows)
  BY <1>2, <1>4, SimFacts DEF HasAudit
<1>8. kind = "case" /\ ~HasAudit' => moved.data.updated = Null
  <2>1. kind = "case" /\ ~HasAudit => row.data.updated = Null
    BY <1>1, <1>2 DEF SimOK
  <2> QED
    BY <1>4, <1>5, <1>7, <2>1, MovedTimely
<1>9. ASSUME key \notin late' PROVE Timely(kind, moved.data)
  <2>1. ~Outdated /\ key \notin late
    BY <1>3, <1>9
  <2>2. CASE StampsRows
    BY <1>2, <1>4, <1>5, <2>2, MovedTimely
  <2>3. CASE ~StampsRows
    <3>1. ~HasAudit
      BY <1>2, <1>4, <2>1, <2>3, SimFacts
    <3> QED
      BY <1>7, <1>8, <3>1 DEF Timely
  <2> QED
    BY <2>2, <2>3
<1>10. \A k \in Keys' : \/ k \in Keys /\ rows'[k] = rows[k]
                        \/ rows'[k].own => /\ k \notin late' => Timely(kind, rows'[k].data)
                                           /\ kind = "case" /\ ~HasAudit' => rows'[k].data.updated = Null
  BY <1>6, <1>8, <1>9
<1>11. /\ sim' = "ready" => image' # 0
       /\ image' # 0 => image' \in DOMAIN Checkouts /\ Len(Checkouts[image']) <= Len(ledger')
  BY <1>2 DEF SimOK
<1>12. late \subseteq late'
  BY <1>3
<1> QED
  BY <1>2, <1>4, <1>7, <1>10, <1>11, <1>12, SimFrame

LEMMA AuditWriteSim ==
    ASSUME Inv, SimOK, NEW r \in AuditRunners, AuditWrite(r) PROVE SimOK'
<1>1. /\ UNCHANGED <<kind, ledger, image, sim, late>> /\ InTransaction(r)
      /\ rows' = [k \in Keys |-> IF k \in runner[r].keys
                                 THEN [rows[k] EXCEPT !.data = Fill(kind, @), !.audit = TRUE] ELSE rows[k]]
  BY DEF AuditWrite
<1>2. Shape /\ kind \in RowKinds
  BY DEF Inv, Shape
<1>3. HasAudit /\ HasAudit'
  <2>1. HasProgress /\ Len(ledger) \in Nat
    BY <1>1, <1>2, LedgerFacts DEF Inv, AuditOK, InTransaction
  <2>2. ledger' = ledger
    BY <1>1
  <2> QED
    BY <2>1, <2>2 DEF HasProgress, HasAudit
<1>4. ASSUME NEW k \in Keys'
      PROVE  \/ k \in Keys /\ rows'[k] = rows[k]
             \/ rows'[k].own => (k \notin late' => Timely(kind, rows'[k].data))
  <2>1. k \in Keys
    BY <1>1 DEF Keys
  <2>2. CASE k \notin runner[r].keys
    BY <1>1, <2>1, <2>2
  <2>3. CASE k \in runner[r].keys
    <3>1. PICK row, d : row = rows[k] /\ d = Fill(kind, row.data)
      OBVIOUS
    <3>2. rows'[k] = [row EXCEPT !.data = d, !.audit = TRUE]
      BY <1>1, <2>1, <2>3, <3>1
    <3>3. row \in Rows(kind) /\ (row.own => OwnRow(kind, row.data))
      BY <1>2, <2>1, <3>1, KeysFacts DEF Shape
    <3>4. row.data \in RowOf(kind) /\ rows'[k].own = row.own /\ rows'[k].data = d
      BY <3>2, <3>3 DEF Rows
    <3>5. row.own /\ k \notin late => Timely(kind, row.data)
      BY <2>1, <3>1 DEF SimOK
    <3>6. row.own /\ k \notin late => Timely(kind, d)
      BY <1>2, <3>1, <3>3, <3>4, <3>5, FillTimely
    <3> QED
      BY <1>1, <3>4, <3>6
  <2> QED
    BY <2>2, <2>3
<1>5. /\ sim' = "ready" => image' # 0
      /\ image' # 0 => image' \in DOMAIN Checkouts /\ Len(Checkouts[image']) <= Len(ledger')
  BY <1>1 DEF SimOK
<1> QED
  BY <1>1, <1>2, <1>3, <1>4, <1>5, SimFrame

(* The steps that leave the rows alone.                                    *)
LEMMA QuietSim ==
    ASSUME Inv, SimOK, UNCHANGED <<kind, rows, late>>,
           UNCHANGED ledger \/ (Validated /\ ledger' = Files),
           \/ UNCHANGED <<image, sim>>
           \/ ledger = Files /\ UNCHANGED ledger /\ image' = checkout
           \/ image # 0 /\ UNCHANGED image
    PROVE  SimOK'
<1>1. Shape /\ checkout \in DOMAIN Checkouts
  BY DEF Inv, Shape
<1>2. Len(ledger) \in Nat /\ Len(ledger') \in Nat /\ Len(ledger) <= Len(ledger')
  BY <1>1, LedgerFacts
<1>3. HasAudit => HasAudit'
  BY <1>2 DEF HasAudit
<1>4. ASSUME UNCHANGED image
      PROVE  image' # 0 => image' \in DOMAIN Checkouts /\ Len(Checkouts[image']) <= Len(ledger')
  <2> SUFFICES ASSUME image # 0 PROVE image \in DOMAIN Checkouts /\ Len(Checkouts[image]) <= Len(ledger')
    BY <1>4
  <2>1. image \in DOMAIN Checkouts /\ Len(Checkouts[image]) <= Len(ledger)
    BY DEF SimOK
  <2>2. Len(Checkouts[image]) \in Nat
    <3>1. image \in 1..Len(Checkouts)
      BY <2>1, UpgradeAssumption, LenProperties
    <3> QED
      BY <3>1, UpgradeAssumption, ElementOfSeq, LenProperties
  <2> QED
    BY <1>2, <2>1, <2>2
<1>5. ASSUME ledger = Files, UNCHANGED ledger, image' = checkout
      PROVE  image' # 0 /\ image' \in DOMAIN Checkouts /\ Len(Checkouts[image']) <= Len(ledger')
  <2>1. checkout \in 1..Len(Checkouts) /\ Len(Checkouts) \in Nat
    BY <1>1, UpgradeAssumption, LenProperties
  <2>2. Len(Checkouts[image']) = Len(ledger)
    BY <1>5 DEF Files
  <2> QED
    BY <1>1, <1>2, <1>5, <2>1, <2>2
<1>6. image' # 0 => image' \in DOMAIN Checkouts /\ Len(Checkouts[image']) <= Len(ledger')
  BY <1>4, <1>5
<1>7. sim' = "ready" => image' # 0
  BY <1>5 DEF SimOK
<1>8. \A k \in Keys' : k \in Keys /\ rows'[k] = rows[k]
  BY DEF Keys
<1> QED
  BY <1>1, <1>3, <1>6, <1>7, <1>8, SimFrame

LEMMA LoadSim ==
    ASSUME Inv, SimOK, Load PROVE SimOK'
<1>1. UNCHANGED <<kind, image, sim, late>> /\ Validated /\ ledger' = Files
  BY DEF Load
<1>2. PICK seed \in Seeds[kind] : rows' = Loaded(seed)
  BY DEF Load
<1>3. Shape
  BY DEF Inv
<1>4. Len(ledger) \in Nat /\ Len(ledger') \in Nat /\ Len(ledger) <= Len(ledger')
  BY <1>1, <1>3, LedgerFacts
<1>5. HasAudit => HasAudit'
  BY <1>4 DEF HasAudit
<1>6. \A k \in Keys' : rows'[k].own = FALSE
  BY <1>2 DEF Keys, Loaded
<1>7. image' # 0 => image' \in DOMAIN Checkouts /\ Len(Checkouts[image']) <= Len(ledger')
  <2> SUFFICES ASSUME image # 0 PROVE image \in DOMAIN Checkouts /\ Len(Checkouts[image]) <= Len(ledger')
    BY <1>1
  <2>1. image \in DOMAIN Checkouts /\ Len(Checkouts[image]) <= Len(ledger)
    BY DEF SimOK
  <2>2. Len(Checkouts[image]) \in Nat
    <3>1. image \in 1..Len(Checkouts)
      BY <2>1, UpgradeAssumption, LenProperties
    <3> QED
      BY <3>1, UpgradeAssumption, ElementOfSeq, LenProperties
  <2> QED
    BY <1>4, <2>1, <2>2
<1>8. sim' = "ready" => image' # 0
  BY <1>1 DEF SimOK
<1> QED
  BY <1>1, <1>3, <1>5, <1>6, <1>7, <1>8, SimFrame

LEMMA StepSim ==
    ASSUME Inv, SimOK, [Next]_vars PROVE SimOK'
<1>1. CASE Deploy \/ UNCHANGED vars
  <2>1. UNCHANGED <<kind, ledger, rows, late, image, sim>>
    BY <1>1 DEF Deploy, vars
  <2> QED
    BY <2>1, QuietSim
<1>2. CASE Up
  <2>1. UNCHANGED <<kind, ledger, rows, late>> /\ ledger = Files /\ image' = checkout
    BY <1>2 DEF Up
  <2> QED
    BY <2>1, QuietSim
<1>3. CASE Probe
  <2>1. UNCHANGED <<kind, ledger, rows, late, image>> /\ image # 0
    BY <1>3 DEF Probe
  <2> QED
    BY <2>1, QuietSim
<1>4. CASE Migrate
  <2>1. /\ UNCHANGED <<kind, rows, late, image, sim>> /\ Validated
        /\ ledger' = ledger \o SubSeq(Files, Len(ledger) + 1, Len(Files))
    BY <1>4 DEF Migrate
  <2>2. ledger' = Files
    BY <2>1, LedgerFacts DEF Inv
  <2> QED
    BY <2>1, <2>2, QuietSim
<1>5. CASE Load \/ Insert
  BY <1>5, LoadSim, InsertSim
<1>6. CASE \E k \in Keys : Move(k)
  BY <1>6, MoveSim
<1>7. CASE \E r \in AuditRunners : AuditStep(r)
  <2>1. PICK r \in AuditRunners : AuditStep(r)
    BY <1>7
  <2>2. CASE AuditWrite(r)
    BY <2>2, AuditWriteSim
  <2>3. CASE AuditRun(r) \/ AuditRead(r) \/ AuditUnlock(r)
    <3>1. UNCHANGED <<kind, ledger, rows, late, image, sim>>
      BY <2>3 DEF AuditRun, AuditRead, AuditUnlock
    <3> QED
      BY <3>1, QuietSim
  <2> QED
    BY <2>1, <2>2, <2>3 DEF AuditStep
<1>8. CASE \E r \in HistoryRunners : HistoryStep(r)
  <2>1. UNCHANGED <<kind, ledger, rows, late, image, sim>>
    BY <1>8 DEF HistoryStep, HistoryRead, HistoryWrite
  <2> QED
    BY <2>1, QuietSim
<1>9. CASE \E r \in Runners : RunnerDies(r)
  <2>1. UNCHANGED <<kind, ledger, rows, late, image, sim>>
    BY <1>9 DEF RunnerDies
  <2> QED
    BY <2>1, QuietSim
<1> QED
  BY <1>1, <1>2, <1>3, <1>4, <1>5, <1>6, <1>7, <1>8, <1>9 DEF Next

(* A simulator never runs ahead of the schema, and what it writes while it *)
(* is not behind has its dates in order, whatever the deployments did.     *)
THEOREM SimInvariance == Spec => []SimOK
<1>1. Inv /\ SimOK /\ [Next]_vars => SimOK'
  BY StepSim
<1> QED
  BY <1>1, InitSim, Invariance, PTL DEF Spec

----------------------------------------------------------------------------
(* The history of each row: what HistoryLinked rests on.                   *)

(* The states, of any table, that come after one of them.                  *)
Later(s) ==
    CASE s = "PENDING"  -> {"SHIPPED", "INVOICED", "DELIVERED"}
      [] s = "SHIPPED"  -> {"INVOICED", "DELIVERED"}
      [] s = "Open"     -> {"Resolved", "Closed"}
      [] s = "Resolved" -> {"Closed"}
      [] OTHER          -> {}

(* Events that enter no state twice, come to the row's state and no        *)
(* further, and that the simulator's next event will not precede.          *)
Tracks(kd, X, row) ==
    /\ \A e, f \in X : e.to = f.to => e = f
    /\ Consistent(kd, row.data) => \E e \in X : e.to = Status(kd, row.data)
    /\ \A e \in X : e.at.day \in Int /\ e.to \notin Later(Status(kd, row.data))
    /\ row.own /\ Later(Status(kd, row.data)) # {} => \A e \in X : e.at.day <= SimDay + 1

Follow(X) == \A e \in X : e.from # "none" => \E f \in X : f.to = e.from /\ f.at.day <= e.at.day

By(source, k) == {e \in HistoryOf(k) : e.source = source}

InferredOf(kd, k, r) ==
    LET events == _infer(kd, r).events
    IN  {Entry(k, events[i].from, events[i].to, events[i].at, "inferred") : i \in DOMAIN events}

EventsOf(r, k) == {e \in runner[r].events : e.key = k}
Reads(r, k) == InTransaction(r) /\ k \in runner[r].keys

(* What a runner read of a row and what the simulator has recorded since   *)
(* make a history, whether or not another runner has written it; a runner  *)
(* that reads the row now would infer the same.                            *)
ReadOK(r, k) ==
    /\ \A e \in EventsOf(r, k) : e.source = "inferred"
    /\ By("inferred", k) \in {{}, EventsOf(r, k)}
    /\ HistoryOf(k) = {} => EventsOf(r, k) = InferredOf(kind, k, rows[k].data)
    /\ Tracks(kind, EventsOf(r, k) \cup By("simulator", k), rows[k])
    /\ Follow(EventsOf(r, k) \cup By("simulator", k))
    /\ \A q \in HistoryRunners : Reads(q, k) => EventsOf(q, k) = EventsOf(r, k)

KeyOK(k) ==
    /\ By("simulator", k) # {} => rows[k].own /\ Tracks(kind, By("simulator", k), rows[k])
    /\ By("inferred", k) # {} => Tracks(kind, HistoryOf(k), rows[k]) /\ Follow(HistoryOf(k))
    /\ \A r \in HistoryRunners : Reads(r, k) => ReadOK(r, k)

(* A row as it was in the seed file.                                       *)
FromSeed(kd, k, row) == ~row.own /\ \E seed \in Seeds[kd] : k \in DOMAIN seed /\ row.data = seed[k]

(* Migration 004 has seen to it that the audit backfill has nothing left   *)
(* to write when there are histories.  Nobody but the seed reverses        *)
(* timestamps.                                                             *)
Stamped ==
    /\ Len(ledger) >= Enforced => \A k \in Keys : rows[k].audit /\ Ordered(kind, rows[k].data)
    /\ \A k \in Keys : rows[k].audit => HasAudit /\ Filled(kind, rows[k].data)
    /\ \A k \in Keys : Ordered(kind, rows[k].data) \/ FromSeed(kind, k, rows[k])

LinkOK ==
    /\ Stamped
    /\ history # {} => HasHistory
    /\ \A e \in history : e.key \in Keys /\ e.source \in {"simulator", "inferred"}
    /\ \A r \in HistoryRunners : InTransaction(r) =>
           \A e \in runner[r].events : e.key \in runner[r].keys /\ e.source = "inferred"
    /\ \A k \in Keys \ late : KeyOK(k)

(* What one point in time not being before another says of their dates.    *)
LEMMA NotBeforeDays ==
    ASSUME NEW x, NEW y, x.day \in Int, y.day \in Int
    PROVE  /\ _is_not_before(x, y) => y.day <= x.day
           /\ ~_is_not_before(x, y) => x.day <= y.day
<1>1. _is_not_before(x, y) => x.day > y.day \/ x.day = y.day
  BY Zenon DEF _is_not_before
<1>2. x.day > y.day => _is_not_before(x, y)
  BY Zenon DEF _is_not_before
<1>3. x.day > y.day \/ x.day <= y.day
  OBVIOUS
<1>4. x.day > y.day \/ x.day = y.day => y.day <= x.day
  OBVIOUS
<1> QED
  BY <1>1, <1>2, <1>3, <1>4

LEMMA ClampedDays ==
    ASSUME NEW x, NEW y, NEW z, x.day \in Int, y.day \in Int, z.day \in Int
    PROVE  /\ _clamp_not_before(x, y, z).day \in Int
           /\ y.day <= _clamp_not_before(x, y, z).day
<1>1. PICK c : c = IF _is_not_before(x, y) THEN x ELSE y
  OBVIOUS
<1>2. c.day \in Int /\ y.day <= c.day
  BY <1>1, NotBeforeDays
<1>3. _clamp_not_before(x, y, z) = IF _is_not_before(c, z) THEN c ELSE z
  BY <1>1 DEF _clamp_not_before
<1>4. ~_is_not_before(c, z) => c.day <= z.day
  BY <1>2, NotBeforeDays
<1>5. c.day <= z.day => y.day <= z.day
  BY <1>2
<1> QED
  BY <1>2, <1>3, <1>4, <1>5

(* The CHECK of the history table lets the events in.                      *)
Admitted(kd, X) == \A e \in X : <<e.from, e.to>> \in Transitions(kd)

(* A chain of events, one after the other, that ends in the row's state.   *)
Chain(s, n, row) ==
    /\ n \in Nat /\ DOMAIN s = 1..n
    /\ \A i \in 1..n : /\ s[i].at.day \in Int
                       /\ <<s[i].from, s[i].to>> \in Transitions(kind)
                       /\ s[i].to \notin Later(Status(kind, row.data))
                       /\ \/ s[i].from = "none"
                          \/ \E j \in 1..n : s[j].to = s[i].from /\ s[j].at.day <= s[i].at.day
    /\ \A i, j \in 1..n : s[i].to = s[j].to => i = j
    /\ Consistent(kind, row.data) => \E i \in 1..n : s[i].to = Status(kind, row.data)
    /\ row.own /\ Later(Status(kind, row.data)) # {} => \A i \in 1..n : s[i].at.day <= SimDay + 1

LEMMA ChainTracks ==
    ASSUME NEW k, NEW row, NEW n, Chain(_infer(kind, row.data).events, n, row)
    PROVE  /\ Tracks(kind, InferredOf(kind, k, row.data), row) /\ Follow(InferredOf(kind, k, row.data))
           /\ Admitted(kind, InferredOf(kind, k, row.data))
<1>1. PICK s : s = _infer(kind, row.data).events
  OBVIOUS
<1> DEFINE en(i) == Entry(k, s[i].from, s[i].to, s[i].at, "inferred")
<1>2. PICK X : X = InferredOf(kind, k, row.data)
  OBVIOUS
<1>3. X = {en(i) : i \in 1..n}
  BY <1>1, <1>2 DEF InferredOf, Chain
<1>4. \A i \in 1..n : en(i) \in X /\ en(i).from = s[i].from /\ en(i).to = s[i].to /\ en(i).at = s[i].at
  BY <1>3 DEF Entry
<1>5. \A e \in X : \E i \in 1..n : e = en(i)
  BY <1>3
<1> HIDE DEF en
<1>6. Chain(s, n, row)
  BY <1>1
<1>7. \A e, f \in X : e.to = f.to => e = f
  BY <1>4, <1>5, <1>6 DEF Chain
<1>8. Consistent(kind, row.data) => \E e \in X : e.to = Status(kind, row.data)
  BY <1>4, <1>6 DEF Chain
<1>9. \A e \in X : e.at.day \in Int /\ e.to \notin Later(Status(kind, row.data))
  <2>1. \A i \in 1..n : s[i].at.day \in Int /\ s[i].to \notin Later(Status(kind, row.data))
    BY <1>6 DEF Chain
  <2> QED
    BY <1>4, <1>5, <2>1
<1>10. row.own /\ Later(Status(kind, row.data)) # {} => \A e \in X : e.at.day <= SimDay + 1
  BY <1>4, <1>5, <1>6 DEF Chain
<1>11. Follow(X)
  <2> SUFFICES ASSUME NEW e \in X, e.from # "none"
               PROVE  \E f \in X : f.to = e.from /\ f.at.day <= e.at.day
    BY DEF Follow
  <2>1. PICK i \in 1..n : e = en(i)
    BY <1>5
  <2>2. PICK j \in 1..n : s[j].to = s[i].from /\ s[j].at.day <= s[i].at.day
    BY <1>4, <1>6, <2>1 DEF Chain
  <2> QED
    BY <1>4, <2>1, <2>2
<1>12. Admitted(kind, X)
  BY <1>4, <1>5, <1>6 DEF Chain, Admitted
<1> QED
  BY <1>2, <1>7, <1>8, <1>9, <1>10, <1>11, <1>12 DEF Tracks

(* An event that the row's next one will follow.                           *)
Before(e, row) ==
    /\ e.at.day \in Int /\ e.to \notin Later(Status(kind, row.data))
    /\ <<e.from, e.to>> \in Transitions(kind)
    /\ row.own /\ Later(Status(kind, row.data)) # {} => e.at.day <= SimDay + 1

LEMMA ChainOfOne ==
    ASSUME NEW row, NEW a, Before(a, row), a.from = "none",
           Consistent(kind, row.data) => a.to = Status(kind, row.data)
    PROVE  Chain(<<a>>, 1, row)
<1>1. PICK s : s = <<a>>
  OBVIOUS
<1>2. DOMAIN s = 1..1 /\ s[1] = a /\ 1..1 = {1}
  BY <1>1
<1> QED
  BY <1>1, <1>2 DEF Chain, Before

LEMMA ChainOfTwo ==
    ASSUME NEW row, NEW a, NEW b, NEW s, s = Append(<<a>>, b),
           Before(a, row), Before(b, row), a.from = "none",
           b.from = a.to, a.at.day <= b.at.day, a.to # b.to,
           Consistent(kind, row.data) => b.to = Status(kind, row.data)
    PROVE  Chain(s, 2, row)
<1>1. DOMAIN s = 1..2 /\ s[1] = a /\ s[2] = b /\ 1..2 = {1, 2}
  OBVIOUS
<1>2. \A i, j \in 1..2 : s[i].to = s[j].to => i = j
  BY <1>1
<1> QED
  BY <1>1, <1>2 DEF Chain, Before

LEMMA ChainOfThree ==
    ASSUME NEW row, NEW a, NEW b, NEW c, NEW s, s = Append(Append(<<a>>, b), c),
           Before(a, row), Before(b, row), Before(c, row), a.from = "none",
           b.from = a.to, a.at.day <= b.at.day, c.from = b.to, b.at.day <= c.at.day,
           a.to # b.to, a.to # c.to, b.to # c.to,
           Consistent(kind, row.data) => c.to = Status(kind, row.data)
    PROVE  Chain(s, 3, row)
<1>1. DOMAIN s = 1..3 /\ s[1] = a /\ s[2] = b /\ s[3] = c /\ 1..3 = {1, 2, 3}
  OBVIOUS
<1>2. \A i, j \in 1..3 : s[i].to = s[j].to => i = j
  BY <1>1
<1> QED
  BY <1>1, <1>2 DEF Chain, Before

LEMMA ShipmentChain ==
    ASSUME kind = "shipment", NEW row, row.data \in RowOf(kind), row.own => OwnRow(kind, row.data)
    PROVE  \E n : Chain(_infer(kind, row.data).events, n, row)
<1>1. PICK r : r = row.data
  OBVIOUS
<1>2. r.ship \in Dates /\ r.delivered \in Dates \cup {Null} /\ (r.delivered = Null \/ _is_not_before(r.delivered, r.ship))
  BY <1>1, ShipmentRow
<1>3. r.ship # Null /\ r.ship.day \in Int /\ (row.own => r.ship.day = SimDay) /\ SimDay \in Nat
  <2>1. row.own => r.ship = Date(SimDay)
    BY <1>1 DEF OwnRow
  <2>2. Date(SimDay).day = SimDay
    BY DEF Date
  <2> QED
    BY <1>2, <2>1, <2>2, StampDays, UpgradeAssumption
<1>4. PICK a, b : a = Event("none", "SHIPPED", r.ship) /\ b = Event("SHIPPED", "DELIVERED", r.delivered)
  OBVIOUS
<1>5. /\ a.from = "none" /\ a.to = "SHIPPED" /\ a.at = r.ship
      /\ b.from = "SHIPPED" /\ b.to = "DELIVERED" /\ b.at = r.delivered
  BY <1>4 DEF Event
<1>5a. <<a.from, a.to>> \in Transitions(kind) /\ <<b.from, b.to>> \in Transitions(kind)
  BY <1>5 DEF Transitions
<1>6. CASE r.delivered = Null
  <2>1. _infer(kind, r).events = <<a>>
    BY <1>3, <1>4, <1>6 DEF _infer, _infer_shipment, _is_date, Inferred
  <2>2. Status(kind, r) = "SHIPPED" /\ "SHIPPED" \notin Later("SHIPPED")
    BY <1>6 DEF Status, Later
  <2>3. Before(a, row)
    BY <1>1, <1>3, <1>5, <1>5a, <2>2 DEF Before
  <2> QED
    BY <1>1, <1>5, <2>1, <2>2, <2>3, ChainOfOne
<1>7. CASE r.delivered # Null
  <2>1. _infer(kind, r).events = Append(<<a>>, b)
    <3>1. _is_date(r.ship) /\ _is_not_before(r.delivered, r.ship)
      BY <1>2, <1>7, StampDays
    <3>2. _infer_shipment(r) = Inferred(Append(<<Event("none", "SHIPPED", r.ship)>>,
                                               Event("SHIPPED", "DELIVERED", r.delivered)), FALSE)
      BY <1>7, <3>1, Zenon DEF _infer_shipment
    <3>3. _infer(kind, r) = _infer_shipment(r)
      BY DEF _infer
    <3> QED
      BY <1>4, <3>2, <3>3 DEF Inferred
  <2>2. Status(kind, r) = "DELIVERED" /\ Later("DELIVERED") = {}
    BY <1>7 DEF Status, Later
  <2>3. r.delivered.day \in Int
    BY <1>2, <1>7, StampDays
  <2>4. a.at.day <= b.at.day
    BY <1>2, <1>3, <1>5, <1>7, <2>3, NotBeforeDays
  <2>5. Before(a, row) /\ Before(b, row)
    BY <1>1, <1>3, <1>5, <1>5a, <2>2, <2>3 DEF Before
  <2> QED
    BY <1>1, <1>5, <2>1, <2>2, <2>4, <2>5, ChainOfTwo
<1> QED
  BY <1>6, <1>7

LEMMA InvoiceChain ==
    ASSUME kind = "invoice", NEW row, row.data \in RowOf(kind), Filled(kind, row.data), Ordered(kind, row.data)
    PROVE  \E n : Chain(_infer(kind, row.data).events, n, row)
<1>1. PICK r : r = row.data
  OBVIOUS
<1>2. r.status \in {"ISSUED", "VOID"} /\ r.created \in Stamps /\ r.updated \in Stamps \cup {Null}
  BY <1>1, InvoiceRow
<1>3. r.created # Null /\ r.created.day \in Int
  BY <1>2, StampDays
<1>4. PICK a, b : a = Event("none", "ISSUED", r.created) /\ b = Event("ISSUED", "VOID", r.updated)
  OBVIOUS
<1>5. /\ a.from = "none" /\ a.to = "ISSUED" /\ a.at = r.created
      /\ b.from = "ISSUED" /\ b.to = "VOID" /\ b.at = r.updated
  BY <1>4 DEF Event
<1>6. Status(kind, r) = r.status /\ Later(r.status) = {}
  BY <1>2 DEF Status, Later
<1>6a. <<a.from, a.to>> \in Transitions(kind) /\ <<b.from, b.to>> \in Transitions(kind)
  BY <1>5 DEF Transitions
<1>7. Before(a, row)
  BY <1>1, <1>3, <1>5, <1>6, <1>6a DEF Before
<1>8. CASE r.status = "VOID" /\ _is_date(r.updated) /\ _is_not_before(r.updated, r.created)
  <2>1. _infer(kind, r).events = Append(<<a>>, b)
    BY <1>3, <1>4, <1>8 DEF _infer, _infer_invoice, _is_date, Inferred
  <2>2. r.updated.day \in Int
    BY <1>2, <1>8, StampDays DEF _is_date
  <2>3. a.at.day <= b.at.day
    BY <1>3, <1>5, <1>8, <2>2, NotBeforeDays
  <2>4. Before(b, row)
    BY <1>1, <1>5, <1>6, <1>6a, <2>2 DEF Before
  <2> QED
    BY <1>1, <1>5, <1>6, <1>7, <1>8, <2>1, <2>3, <2>4, ChainOfTwo
<1>9. CASE ~(r.status = "VOID" /\ _is_date(r.updated) /\ _is_not_before(r.updated, r.created))
  <2>1. _infer(kind, r).events = <<a>>
    BY <1>3, <1>4, <1>9, Zenon DEF _infer, _infer_invoice, _is_date, Inferred
  <2>2. r.status = "ISSUED"
    BY <1>1, <1>2, <1>9 DEF Filled, Ordered, _is_date
  <2> QED
    BY <1>1, <1>5, <1>6, <1>7, <2>1, <2>2, ChainOfOne
<1> QED
  BY <1>8, <1>9

LEMMA CaseChain ==
    ASSUME kind = "case", NEW row, row.data \in RowOf(kind), row.own => OwnRow(kind, row.data)
    PROVE  \E n : Chain(_infer(kind, row.data).events, n, row)
<1>1. PICK r : r = row.data
  OBVIOUS
<1>2. /\ r.status \in {"Open", "Resolved", "Closed"} /\ r.opened \in Stamps
      /\ r.resolution_hours \in Nat \cup {-1} /\ r.updated \in Stamps \cup {Null}
  BY <1>1, CaseRow
<1>3. PICK h, resolved : h = r.resolution_hours /\ resolved = AddHours(r.opened, h)
  OBVIOUS
<1>4. PICK a, b, c : /\ a = Event("none", "Open", r.opened) /\ b = Event("Open", "Resolved", resolved)
                     /\ c = Event("Resolved", "Closed", r.updated)
  OBVIOUS
<1>5. /\ a.from = "none" /\ a.to = "Open" /\ a.at = r.opened
      /\ b.from = "Open" /\ b.to = "Resolved" /\ b.at = resolved
      /\ c.from = "Resolved" /\ c.to = "Closed" /\ c.at = r.updated
  BY <1>4 DEF Event
<1>6. Status(kind, r) = r.status /\ _infer(kind, r) = _infer_support_case(r)
  BY DEF Status, _infer
<1>7. /\ Later("Open") = {"Resolved", "Closed"} /\ Later("Resolved") = {"Closed"} /\ Later("Closed") = {}
  BY DEF Later
<1>8. _is_date(r.opened) /\ r.opened.day \in Int /\ SimDay \in Nat
  BY <1>2, StampDays, UpgradeAssumption
<1>9. row.own => r.opened.day = SimDay /\ (r.status # "Open" => resolved.day = SimDay + 1)
  <2>1. row.own => r.opened = Timestamp(SimDay, 0) /\ (r.status # "Open" => h = HoursPerDay)
    BY <1>1, <1>3 DEF OwnRow
  <2>2. Timestamp(SimDay, 0).day = SimDay /\ Timestamp(SimDay + 1, 0).day = SimDay + 1
    BY DEF Timestamp
  <2> QED
    BY <1>3, <2>1, <2>2, AddADay
<1>9a. /\ <<a.from, a.to>> \in Transitions(kind) /\ <<b.from, b.to>> \in Transitions(kind)
       /\ <<c.from, c.to>> \in Transitions(kind)
  BY <1>5 DEF Transitions
<1>10. Before(a, row)
  <2>1. a.to \notin Later(r.status)
    BY <1>2, <1>5, <1>7
  <2>2. row.own => a.at.day <= SimDay + 1
    BY <1>5, <1>8, <1>9
  <2> QED
    BY <1>1, <1>5, <1>6, <1>8, <1>9a, <2>1, <2>2 DEF Before
<1>11. CASE r.status = "Open"
  <2>1. _infer_support_case(r) = Inferred(<<a>>, FALSE)
    BY <1>4, <1>8, <1>11, Zenon DEF _infer_support_case
  <2> QED
    BY <1>1, <1>5, <1>6, <1>10, <1>11, <2>1, ChainOfOne DEF Inferred
<1>12. CASE r.status # "Open" /\ (h < 0 \/ (_is_date(r.updated) /\ ~_is_not_before(r.updated, resolved)))
  <2>1. _infer_support_case(r) = Inferred(<<a>>, TRUE)
    <3>1. \/ r.resolution_hours < 0
          \/ _is_date(r.updated) /\ ~_is_not_before(r.updated, AddHours(r.opened, r.resolution_hours))
      BY <1>3, <1>12
    <3>2. r.status # "Open"
      BY <1>12
    <3>3. _infer_support_case(r) = Inferred(<<Event("none", "Open", r.opened)>>, TRUE)
      <4>1. CASE r.resolution_hours < 0
        <5>1. ~(r.resolution_hours >= 0)
          BY <1>2, <4>1
        <5> QED
          BY <1>8, <3>2, <4>1, <5>1, Zenon DEF _infer_support_case
      <4>2. CASE _is_date(r.updated) /\ ~_is_not_before(r.updated, AddHours(r.opened, r.resolution_hours))
        BY <1>8, <3>2, <4>2, Zenon DEF _infer_support_case
      <4> QED
        BY <3>1, <4>1, <4>2
    <3> QED
      BY <1>4, <3>3
  <2>2. ~Consistent(kind, r)
    <3>1. ~(h >= 0 /\ h < 0)
      BY <1>2, <1>3
    <3> QED
      BY <1>3, <1>12, <3>1 DEF Consistent
  <2> QED
    BY <1>1, <1>5, <1>6, <1>10, <2>1, <2>2, ChainOfOne DEF Inferred
<1>13. CASE r.status # "Open" /\ ~(h < 0 \/ (_is_date(r.updated) /\ ~_is_not_before(r.updated, resolved)))
  <2>1. h \in Nat /\ h >= 0
    BY <1>2, <1>3, <1>13
  <2>2. resolved.day \in Int /\ r.opened.day <= resolved.day
    <3>1. resolved \in Stamps
      BY <1>2, <1>3, <2>1, AddHoursType
    <3>2. r.opened.hour \in Nat /\ HoursPerDay \in Nat /\ HoursPerDay > 0
      <4>1. r.opened \in Stamps
        BY <1>2
      <4>2. r.opened.hour \in 0..HoursPerDay - 1
        BY <4>1 DEF Stamps
      <4> QED
        BY <4>2, HoursAssumption
    <3>3. r.opened.hour + h \in Nat
      BY <2>1, <3>2
    <3>4. (r.opened.hour + h) \div HoursPerDay \in Nat
      BY <3>2, <3>3
    <3>5. resolved.day = r.opened.day + (r.opened.hour + h) \div HoursPerDay
      BY <1>3 DEF AddHours, Timestamp
    <3> QED
      BY <1>8, <3>1, <3>4, <3>5, StampDays
  <2>3. Before(b, row)
    <3>1. b.to \notin Later(r.status)
      BY <1>2, <1>5, <1>7, <1>13
    <3>2. row.own => b.at.day <= SimDay + 1
      BY <1>5, <1>8, <1>9, <1>13
    <3> QED
      BY <1>1, <1>5, <1>6, <1>9a, <2>2, <3>1, <3>2 DEF Before
  <2>4. CASE r.status = "Closed" /\ _is_date(r.updated)
    <3>1. _is_not_before(r.updated, resolved)
      BY <1>13, <2>4
    <3>2. _infer_support_case(r) = Inferred(Append(Append(<<a>>, b), c), FALSE)
      BY <1>3, <1>4, <1>8, <1>13, <2>4, Zenon DEF _infer_support_case
    <3>3. r.updated.day \in Int
      BY <1>2, <2>4, StampDays DEF _is_date
    <3>4. resolved.day <= r.updated.day
      BY <2>2, <3>1, <3>3, NotBeforeDays
    <3>5. Before(c, row)
      BY <1>1, <1>5, <1>6, <1>7, <1>9a, <2>4, <3>3 DEF Before
    <3>6. _infer(kind, r).events = Append(Append(<<a>>, b), c)
      BY <1>6, <3>2 DEF Inferred
    <3> QED
      BY <1>1, <1>5, <1>6, <1>10, <2>2, <2>3, <2>4, <3>4, <3>5, <3>6, ChainOfThree
  <2>5. CASE ~(r.status = "Closed" /\ _is_date(r.updated))
    <3>1. \E invalid : _infer_support_case(r) = Inferred(Append(<<a>>, b), invalid)
      BY <1>3, <1>4, <1>8, <1>13, <2>1, <2>5, Zenon DEF _infer_support_case
    <3>2. Consistent(kind, r) => r.status = "Resolved"
      BY <1>2, <1>13, <2>5 DEF Consistent
    <3>3. _infer(kind, r).events = Append(<<a>>, b)
      BY <1>6, <3>1 DEF Inferred
    <3> QED
      BY <1>1, <1>5, <1>6, <1>10, <2>2, <2>3, <3>2, <3>3, ChainOfTwo
  <2> QED
    BY <2>4, <2>5
<1> QED
  BY <1>11, <1>12, <1>13

LEMMA OrderChain ==
    ASSUME kind = "order", NEW row, row.data \in RowOf(kind), row.own => OwnRow(kind, row.data)
    PROVE  \E n : Chain(_infer(kind, row.data).events, n, row)
<1>1. PICK r : r = row.data
  OBVIOUS
<1>2. /\ r.status \in {"PENDING", "SHIPPED", "INVOICED", "CANCELLED"} /\ r.created \in Stamps
      /\ r.ship \in Dates \cup {Null} /\ r.invoice \in Stamps \cup {Null} /\ r.updated \in Stamps
  BY <1>1, OrderRow
<1>3. PICK sent : sent = IF _is_date(r.ship) /\ _is_not_before(r.ship, r.created) THEN r.ship ELSE r.created
  OBVIOUS
<1>4. PICK shipped : shipped = \/ r.status \in {"SHIPPED", "INVOICED"}
                               \/ r.status = "CANCELLED" /\ _is_date(r.ship)
  OBVIOUS
<1>5. PICK before : before = IF shipped THEN sent ELSE r.created
  OBVIOUS
<1>6. PICK terminal : terminal = IF /\ r.status = "INVOICED" /\ _is_date(r.invoice)
                                    /\ _is_not_before(r.invoice, sent)
                                 THEN r.invoice ELSE r.updated
  OBVIOUS
<1>7. PICK done : done = _clamp_not_before(terminal, before, r.created)
  OBVIOUS
<1>8. PICK a, b, c : /\ a = Event("none", "PENDING", r.created) /\ b = Event("PENDING", "SHIPPED", sent)
                     /\ c = Event(IF shipped THEN "SHIPPED" ELSE "PENDING", r.status, done)
  OBVIOUS
<1>9. /\ a.from = "none" /\ a.to = "PENDING" /\ a.at = r.created
      /\ b.from = "PENDING" /\ b.to = "SHIPPED" /\ b.at = sent
      /\ c.from = (IF shipped THEN "SHIPPED" ELSE "PENDING") /\ c.to = r.status /\ c.at = done
  BY <1>8 DEF Event
<1>10. Status(kind, r) = r.status /\ _infer(kind, r) = _infer_order(r)
  BY DEF Status, _infer
<1>11. /\ Later("PENDING") = {"SHIPPED", "INVOICED", "DELIVERED"} /\ Later("SHIPPED") = {"INVOICED", "DELIVERED"}
       /\ Later("INVOICED") = {} /\ Later("CANCELLED") = {}
  BY DEF Later
<1>12. _is_date(r.created) /\ r.created.day \in Int /\ SimDay \in Nat
  BY <1>2, StampDays, UpgradeAssumption
<1>13. sent.day \in Int /\ r.created.day <= sent.day
  <2>1. CASE _is_date(r.ship) /\ _is_not_before(r.ship, r.created)
    <3>1. r.ship.day \in Int /\ sent = r.ship
      BY <1>2, <1>3, <2>1, StampDays DEF _is_date
    <3> QED
      BY <1>12, <2>1, <3>1, NotBeforeDays
  <2>2. CASE ~(_is_date(r.ship) /\ _is_not_before(r.ship, r.created))
    BY <1>3, <1>12, <2>2
  <2> QED
    BY <2>1, <2>2
<1>14. row.own => r.created.day <= SimDay + 1 /\ sent.day <= SimDay + 1
  <2>1. row.own => r.created = Timestamp(SimDay, 0) /\ r.ship \in {Null, Date(SimDay + 1)}
    BY <1>1 DEF OwnRow
  <2>2. Timestamp(SimDay, 0).day = SimDay /\ Date(SimDay + 1).day = SimDay + 1
    BY DEF Timestamp, Date
  <2>3. SimDay <= SimDay + 1 /\ SimDay + 1 <= SimDay + 1
    BY <1>12
  <2>4. row.own => sent \in {Timestamp(SimDay, 0), Date(SimDay + 1)}
    BY <1>3, <2>1 DEF _is_date
  <2> QED
    BY <2>1, <2>2, <2>3, <2>4
<1>14a. <<a.from, a.to>> \in Transitions(kind) /\ <<b.from, b.to>> \in Transitions(kind)
  BY <1>9 DEF Transitions
<1>15. Before(a, row)
  <2>1. a.to \notin Later(r.status)
    BY <1>2, <1>9, <1>11
  <2> QED
    BY <1>1, <1>9, <1>10, <1>12, <1>14, <1>14a, <2>1 DEF Before
<1>16. CASE r.status = "PENDING"
  <2>1. _infer_order(r).events = <<a>>
    BY <1>8, <1>12, <1>16, Zenon DEF _infer_order, Inferred
  <2> QED
    BY <1>1, <1>9, <1>10, <1>15, <1>16, <2>1, ChainOfOne
<1>17. r.status # "PENDING" => Before(b, row)
  <2>1. r.status # "PENDING" => b.to \notin Later(r.status)
    BY <1>2, <1>9, <1>11
  <2> QED
    BY <1>1, <1>9, <1>10, <1>13, <1>14, <1>14a, <2>1 DEF Before
<1>18. CASE r.status = "SHIPPED"
  <2>1. _infer(kind, r).events = Append(<<a>>, b)
    <3>1. _infer_order(r) = Inferred(Append(<<a>>, b), FALSE)
      BY <1>3, <1>8, <1>12, <1>18, Zenon DEF _infer_order
    <3> QED
      BY <1>10, <3>1 DEF Inferred
  <2> QED
    BY <1>1, <1>9, <1>10, <1>13, <1>15, <1>17, <1>18, <2>1, ChainOfTwo
<1>19. CASE r.status \in {"INVOICED", "CANCELLED"}
  <2>1. before.day \in Int /\ terminal.day \in Int /\ _is_date(terminal)
    <3>1. before \in {sent, r.created} /\ terminal \in {r.invoice, r.updated}
      BY <1>5, <1>6
    <3>2. terminal = r.invoice => _is_date(r.invoice) \/ terminal = r.updated
      BY <1>6
    <3>3. terminal \in Stamps
      BY <1>2, <3>1, <3>2 DEF _is_date
    <3> QED
      BY <1>12, <1>13, <3>1, <3>3, StampDays
  <2>2. done.day \in Int /\ before.day <= done.day
    BY <1>7, <1>12, <2>1, ClampedDays
  <2>3. Before(c, row)
    <3>1. Later(r.status) = {}
      BY <1>11, <1>19
    <3>2. shipped \/ r.status = "CANCELLED"
      BY <1>4, <1>19
    <3>3. <<c.from, c.to>> \in Transitions(kind)
      BY <1>9, <1>19, <3>2 DEF Transitions
    <3> QED
      BY <1>1, <1>9, <1>10, <2>2, <3>1, <3>3 DEF Before
  <2>4. _infer_order(r) = Inferred(Append(IF shipped THEN Append(<<a>>, b) ELSE <<a>>, c), FALSE)
    <3>1. r.status \notin {"PENDING", "SHIPPED"}
      BY <1>19
    <3> QED
      BY <1>3, <1>4, <1>5, <1>6, <1>7, <1>8, <1>12, <2>1, <3>1, Zenon DEF _infer_order
  <2>5. CASE shipped
    <3>1. _infer(kind, r).events = Append(Append(<<a>>, b), c)
      BY <1>10, <2>4, <2>5 DEF Inferred
    <3>2. c.from = "SHIPPED" /\ before = sent /\ c.to = r.status
      BY <1>5, <1>9, <2>5
    <3>3. a.to # b.to /\ a.to # c.to /\ b.to # c.to
      BY <1>9, <1>19
    <3> QED
      BY <1>1, <1>9, <1>10, <1>13, <1>15, <1>17, <1>19, <2>2, <2>3, <3>1, <3>2, <3>3, ChainOfThree
  <2>6. CASE ~shipped
    <3>1. _infer(kind, r).events = Append(<<a>>, c)
      BY <1>10, <2>4, <2>6 DEF Inferred
    <3>2. c.from = "PENDING" /\ before = r.created /\ c.to = r.status
      BY <1>5, <1>9, <2>6
    <3>3. a.to # c.to
      BY <1>9, <1>19
    <3> QED
      BY <1>1, <1>9, <1>10, <1>15, <2>2, <2>3, <3>1, <3>2, <3>3, ChainOfTwo
  <2> QED
    BY <2>5, <2>6
<1> QED
  BY <1>2, <1>16, <1>18, <1>19

(* What is inferred from a row is a history of it.                         *)
LEMMA InferredTracks ==
    ASSUME kind \in RowKinds, NEW k, NEW row, row.data \in RowOf(kind), row.own => OwnRow(kind, row.data),
           Filled(kind, row.data), Ordered(kind, row.data)
    PROVE  /\ Tracks(kind, InferredOf(kind, k, row.data), row) /\ Follow(InferredOf(kind, k, row.data))
           /\ Admitted(kind, InferredOf(kind, k, row.data))
<1>1. \E n : Chain(_infer(kind, row.data).events, n, row)
  BY OrderChain, ShipmentChain, InvoiceChain, CaseChain, RowKindsCases
<1> QED
  BY <1>1, ChainTracks

(* A row that the simulator wrote with its audit fields is consistent.     *)
LEMMA OwnConsistent ==
    ASSUME kind \in RowKinds, NEW r \in RowOf(kind), OwnRow(kind, r), Filled(kind, r), Timely(kind, r)
    PROVE  Consistent(kind, r)
<1>1. CASE kind \in {"order", "shipment"}
  BY <1>1 DEF Consistent
<1>2. CASE kind = "invoice"
  BY <1>2 DEF Consistent
<1>3. CASE kind = "case"
  <2> SUFFICES ASSUME r.status # "Open"
               PROVE  /\ r.resolution_hours >= 0 /\ _is_date(r.updated)
                      /\ _is_not_before(r.updated, AddHours(r.opened, r.resolution_hours))
    BY <1>3 DEF Consistent
  <2>1. PICK one, two : one = Timestamp(SimDay + 1, 0) /\ two = Timestamp(SimDay + 2, 0)
    OBVIOUS
  <2>2. r.opened = Timestamp(SimDay, 0) /\ r.resolution_hours = HoursPerDay /\ r.updated \in {Null, one, two}
    BY <1>3, <2>1 DEF OwnRow, Timely
  <2>3. _is_date(r.updated) /\ r.updated \in {one, two}
    BY <1>3, <2>2 DEF Filled, _is_date
  <2>4. r.resolution_hours >= 0
    BY <2>2, HoursAssumption
  <2>5. AddHours(r.opened, r.resolution_hours) = one
    BY <2>1, <2>2, AddADay
  <2>6. /\ one.day = SimDay + 1 /\ one.hour = 0 /\ two.day = SimDay + 2 /\ SimDay \in Nat
    BY <2>1, UpgradeAssumption DEF Timestamp
  <2>7. one.day = one.day /\ one.hour >= one.hour /\ two.day > one.day
    BY <2>6
  <2>8. _is_not_before(one, one) /\ _is_not_before(two, one)
    BY <2>7, Zenon DEF _is_not_before
  <2> QED
    BY <2>3, <2>4, <2>5, <2>8
<1> QED
  BY <1>1, <1>2, <1>3, RowKindsCases

(* Hours later is not before.                                              *)
LEMMA AddHoursNotBefore ==
    ASSUME NEW t \in Stamps, NEW n \in Nat
    PROVE  _is_not_before(AddHours(t, n), t) /\ _is_not_before(t, t)
<1>1. PICK d, h, H : d = t.day /\ h = t.hour /\ H = HoursPerDay
  OBVIOUS
<1>2. d \in Nat /\ H \in Nat /\ H > 0 /\ h \in Nat /\ h < H
  BY <1>1, HoursAssumption DEF Stamps
<1>3. AddHours(t, n).day = d + (h + n) \div H /\ AddHours(t, n).hour = (h + n) % H
  BY <1>1 DEF AddHours, Timestamp
<1>4. h + n < H => (h + n) \div H = 0 /\ (h + n) % H = h + n
  BY <1>2
<1>5. ~(h + n < H) => (h + n) \div H > 0
  BY <1>2
<1>6. d + (h + n) \div H > d \/ (d + (h + n) \div H = d /\ (h + n) % H >= h)
  BY <1>2, <1>4, <1>5
<1>7. _is_not_before(AddHours(t, n), t)
  BY <1>1, <1>3, <1>6, Zenon DEF _is_not_before
<1>8. h >= h
  BY <1>2
<1> QED
  BY <1>1, <1>7, <1>8, Zenon DEF _is_not_before

(* The audit backfill derives ordered timestamps, and what it finds it     *)
(* keeps.                                                                  *)
LEMMA FillOrdered ==
    ASSUME NEW k \in RowKinds, NEW r \in RowOf(k), Ordered(k, r) \/ ~Filled(k, r)
    PROVE  Ordered(k, Fill(k, r))
<1>1. CASE Filled(k, r)
  BY <1>1, FillType
<1>2. CASE ~Filled(k, r) /\ k = "invoice"
  <2>1. r \in [status: {"ISSUED", "VOID"}, created: Stamps, updated: Stamps \cup {Null}]
    BY <1>2, InvoiceRow
  <2>2. Fill(k, r) = [r EXCEPT !.updated = r.created]
    BY <1>2 DEF Fill, Filled
  <2>3. Fill(k, r).updated = r.created /\ Fill(k, r).created = r.created /\ r.created \in Stamps
    BY <2>1, <2>2
  <2>4. _is_not_before(r.created, r.created)
    BY <2>3, AddHoursNotBefore
  <2> QED
    BY <1>2, <2>3, <2>4 DEF Ordered
<1>3. CASE ~Filled(k, r) /\ k = "case"
  <2>1. r \in [status: {"Open", "Resolved", "Closed"}, opened: Stamps,
               resolution_hours: Nat \cup {-1}, updated: Stamps \cup {Null}]
    BY <1>3, CaseRow
  <2>2. PICK u : u = IF r.resolution_hours < 0 THEN r.opened ELSE AddHours(r.opened, r.resolution_hours)
    OBVIOUS
  <2>3. Fill(k, r) = [r EXCEPT !.updated = u]
    BY <1>3, <2>2 DEF Fill, Filled
  <2>4. Fill(k, r).updated = u /\ Fill(k, r).opened = r.opened
    BY <2>1, <2>3
  <2>5. r.opened \in Stamps /\ (r.resolution_hours \in Nat \/ r.resolution_hours < 0)
    BY <2>1
  <2>6. _is_not_before(u, r.opened)
    BY <2>2, <2>5, AddHoursNotBefore
  <2> QED
    BY <1>3, <2>4, <2>6 DEF Ordered
<1>4. CASE k \in {"order", "shipment"}
  BY <1>4 DEF Ordered
<1> QED
  BY <1>1, <1>2, <1>3, <1>4, RowKindsCases

LEMMA OwnOrdered ==
    ASSUME NEW k \in RowKinds, NEW r \in RowOf(k), OwnRow(k, r)
    PROVE  Ordered(k, r)
<1>1. SimDay \in Nat
  BY UpgradeAssumption
<1>2. PICK zero, one, two : /\ zero = Timestamp(SimDay, 0) /\ one = Timestamp(SimDay + 1, 0)
                            /\ two = Timestamp(SimDay + 2, 0)
  OBVIOUS
<1>3. zero.day = SimDay /\ one.day = SimDay + 1 /\ two.day = SimDay + 2 /\ zero.hour = 0
  BY <1>2 DEF Timestamp
<1>4. one.day > zero.day /\ two.day > zero.day /\ zero.hour >= zero.hour
  BY <1>1, <1>3
<1>5. _is_not_before(zero, zero) /\ _is_not_before(one, zero) /\ _is_not_before(two, zero)
  BY <1>4, Zenon DEF _is_not_before
<1>6. CASE k = "invoice"
  <2>1. r.created = zero /\ r.updated \in {Null, zero}
    BY <1>2, <1>6 DEF OwnRow
  <2> QED
    BY <1>5, <1>6, <2>1 DEF Ordered
<1>7. CASE k = "case"
  <2>1. r.opened = zero /\ r.updated \in {Null, zero, one, two}
    BY <1>2, <1>7 DEF OwnRow
  <2> QED
    BY <1>5, <1>7, <2>1 DEF Ordered
<1>8. CASE k \in {"order", "shipment"}
  BY <1>8 DEF Ordered
<1> QED
  BY <1>6, <1>7, <1>8, RowKindsCases

(* A row of the simulator's moves on, and never back.                      *)
LEMMA MovedStatus ==
    ASSUME kind \in RowKinds, NEW r \in RowOf(kind), Moved(r) # r, NEW s, NEW t,
           s = Status(kind, r), t = Status(kind, Moved(r))
    PROVE  /\ t \in Later(s) /\ t \notin Later(t) /\ Later(t) \subseteq Later(s)
           /\ Later(t) # {} => t \notin {"INVOICED", "Closed"}
           /\ <<s, t>> \in Transitions(kind)
<1>1. /\ Later("PENDING") = {"SHIPPED", "INVOICED", "DELIVERED"} /\ Later("SHIPPED") = {"INVOICED", "DELIVERED"}
      /\ Later("INVOICED") = {} /\ Later("DELIVERED") = {}
      /\ Later("Open") = {"Resolved", "Closed"} /\ Later("Resolved") = {"Closed"} /\ Later("Closed") = {}
  BY DEF Later
<1>2. CASE kind = "order"
  <2>1. r \in [status: {"PENDING", "SHIPPED", "INVOICED", "CANCELLED"}, created: Stamps,
               ship: Dates \cup {Null}, invoice: Stamps \cup {Null}, updated: Stamps]
    BY <1>2, OrderRow
  <2>2. \/ s = "PENDING" /\ t = "SHIPPED"
        \/ s = "SHIPPED" /\ t = "INVOICED"
    <3>1. s = r.status /\ t = Moved(r).status
      BY <1>2 DEF Status
    <3>2. PICK x, u, v : \/ r.status = "PENDING" /\ Moved(r) = [r EXCEPT !.status = "SHIPPED", !.ship = x, !.updated = u]
                         \/ r.status = "SHIPPED" /\ Moved(r) = [r EXCEPT !.status = "INVOICED", !.invoice = v, !.updated = v]
      <4>1. r.status \in {"PENDING", "SHIPPED"}
        BY <1>2 DEF Moved
      <4> QED
        BY <1>2, <4>1 DEF Moved
    <3> QED
      BY <2>1, <3>1, <3>2
  <2> QED
    BY <1>1, <1>2, <2>2 DEF Transitions
<1>3. CASE kind = "shipment"
  <2>1. r \in [ship: Dates, delivered: Dates \cup {Null}]
    BY <1>3, ShipmentRow
  <2>2. PICK d : d = Date(Timestamp(SimDay + 1, 0).day)
    OBVIOUS
  <2>3. r.delivered = Null /\ Moved(r) = [r EXCEPT !.delivered = d]
    BY <1>3, <2>2 DEF Moved
  <2>4. d # Null
    <3>1. Timestamp(SimDay + 1, 0).day = SimDay + 1
      BY DEF Timestamp
    <3>2. SimDay + 1 \in Nat
      BY UpgradeAssumption
    <3>3. d \in Dates
      BY <2>2, <3>1, <3>2, NotNull
    <3> QED
      BY <3>3, NotNull
  <2>5. Moved(r).delivered = d
    BY <2>1, <2>3
  <2>6. s = "SHIPPED" /\ t = "DELIVERED"
    BY <1>3, <2>3, <2>4, <2>5 DEF Status
  <2> QED
    BY <1>1, <1>3, <2>6 DEF Transitions
<1>4. CASE kind = "invoice"
  BY <1>4 DEF Moved
<1>5. CASE kind = "case"
  <2>1. r \in [status: {"Open", "Resolved", "Closed"}, opened: Stamps,
               resolution_hours: Nat \cup {-1}, updated: Stamps \cup {Null}]
    BY <1>5, CaseRow
  <2>2. \/ s = "Open" /\ t = "Resolved"
        \/ s = "Resolved" /\ t = "Closed"
    <3>1. s = r.status /\ t = Moved(r).status
      BY <1>5 DEF Status
    <3>2. PICK x, u, v : \/ r.status = "Open" /\ Moved(r) = [r EXCEPT !.status = "Resolved", !.updated = u, !.resolution_hours = x]
                         \/ r.status = "Resolved" /\ Moved(r) = [r EXCEPT !.status = "Closed", !.updated = v]
      <4>1. r.status \in {"Open", "Resolved"}
        BY <1>5 DEF Moved
      <4> QED
        BY <1>5, <4>1 DEF Moved
    <3> QED
      BY <2>1, <3>1, <3>2
  <2> QED
    BY <1>1, <1>5, <2>2 DEF Transitions
<1> QED
  BY <1>2, <1>3, <1>4, <1>5, RowKindsCases

(* The simulator's event continues what tracks the row.                    *)
LEMMA MoveTracks ==
    ASSUME kind \in RowKinds, NEW row, row.data \in RowOf(kind), Moved(row.data) # row.data,
           Consistent(kind, row.data), row.own, NEW moved, moved.data = Moved(row.data),
           NEW e, e.from = Status(kind, row.data), e.to = Status(kind, moved.data),
           e.at = Timestamp(IF e.to \in {"INVOICED", "Closed"} THEN SimDay + 2 ELSE SimDay + 1, 0),
           NEW X, X = {} \/ Tracks(kind, X, row)
    PROVE  /\ Tracks(kind, X \cup {e}, moved)
           /\ X # {} /\ Follow(X) => Follow(X \cup {e})
<1>1. PICK s, t : s = Status(kind, row.data) /\ t = Status(kind, moved.data)
  OBVIOUS
<1>2. /\ t \in Later(s) /\ t \notin Later(t) /\ Later(t) \subseteq Later(s)
      /\ Later(t) # {} => t \notin {"INVOICED", "Closed"}
  <2>1. PICK r : r = row.data
    OBVIOUS
  <2>2. r \in RowOf(kind) /\ Moved(r) # r /\ s = Status(kind, r) /\ t = Status(kind, Moved(r))
    BY <1>1, <2>1
  <2> QED
    BY <2>2, MovedStatus, Zenon
<1>3. /\ \A f, g \in X : f.to = g.to => f = g
      /\ X # {} => \E f \in X : f.to = s
      /\ \A f \in X : f.at.day \in Int /\ f.to \notin Later(s)
      /\ \A f \in X : f.at.day <= SimDay + 1
  BY <1>1, <1>2 DEF Tracks
<1>4. SimDay \in Nat /\ e.at.day = IF t \in {"INVOICED", "Closed"} THEN SimDay + 2 ELSE SimDay + 1
  BY <1>1, UpgradeAssumption DEF Timestamp
<1>5. /\ e.at.day \in Int /\ SimDay + 1 <= e.at.day
      /\ Later(t) # {} => e.at.day <= SimDay + 1
  BY <1>2, <1>4
<1>6. \A f, g \in X \cup {e} : f.to = g.to => f = g
  BY <1>1, <1>2, <1>3
<1>7. \A f \in X \cup {e} : f.at.day \in Int /\ f.to \notin Later(t)
  BY <1>1, <1>2, <1>3, <1>5
<1>8. Later(t) # {} => \A f \in X \cup {e} : f.at.day <= SimDay + 1
  BY <1>3, <1>5
<1>9. \E f \in X \cup {e} : f.to = t
  BY <1>1
<1>10. Tracks(kind, X \cup {e}, moved)
  BY <1>1, <1>6, <1>7, <1>8, <1>9 DEF Tracks
<1>11. ASSUME X # {}, Follow(X) PROVE Follow(X \cup {e})
  <2>1. PICK f \in X : f.to = s
    BY <1>3, <1>11
  <2>2. f.at.day <= e.at.day
    <3>1. f.at.day \in Int /\ f.at.day <= SimDay + 1
      BY <1>3
    <3> QED
      BY <1>4, <1>5, <3>1
  <2> QED
    BY <1>1, <1>11, <2>1, <2>2 DEF Follow
<1> QED
  BY <1>10, <1>11

(* A step that leaves a row, its history and what was read of it alone.    *)
LEMMA KeyFrame ==
    ASSUME NEW k, KeyOK(k), kind' = kind, rows'[k] = rows[k], HistoryOf(k)' = HistoryOf(k),
           \A r \in HistoryRunners : Reads(r, k)' => Reads(r, k) /\ EventsOf(r, k)' = EventsOf(r, k)
    PROVE  KeyOK(k)'
<1>1. \A source : By(source, k)' = By(source, k)
  BY DEF By
<1>2. By("simulator", k)' # {} => rows'[k].own /\ Tracks(kind', By("simulator", k)', rows'[k])
  BY <1>1 DEF KeyOK
<1>3. By("inferred", k)' # {} => Tracks(kind', HistoryOf(k)', rows'[k]) /\ Follow(HistoryOf(k)')
  BY <1>1 DEF KeyOK
<1>4. ASSUME NEW r \in HistoryRunners, Reads(r, k)' PROVE ReadOK(r, k)'
  <2>1. Reads(r, k) /\ EventsOf(r, k)' = EventsOf(r, k)
    BY <1>4
  <2>2. ReadOK(r, k)
    BY <2>1 DEF KeyOK
  <2> QED
    BY <1>1, <2>1, <2>2 DEF ReadOK
<1> QED
  BY <1>2, <1>3, <1>4 DEF KeyOK

(* Nothing is asked of a row that has no history and that nobody reads.    *)
LEMMA KeyEmpty ==
    ASSUME NEW k, HistoryOf(k)' = {}, \A r \in HistoryRunners : ~Reads(r, k)'
    PROVE  KeyOK(k)'
<1>1. \A source : By(source, k)' = {}
  BY DEF By
<1> QED
  BY <1>1 DEF KeyOK

(* Where there may be a history, migration 004 is through.                 *)
LEMMA EnforcedFacts ==
    ASSUME Shape, Stamped, HasHistory
    PROVE  /\ Len(ledger) >= Enforced /\ HasAudit
           /\ \A k \in Keys : rows[k].audit /\ Filled(kind, rows[k].data) /\ Ordered(kind, rows[k].data)
<1>1. Len(ledger) \in Nat /\ HistoryVersion(kind) \in {5, 6, 7, 8} /\ Enforced = 4
  BY LedgerFacts DEF HistoryVersion, Enforced
<1>2. Len(ledger) >= Enforced /\ HasAudit
  BY <1>1 DEF HasHistory, HasAudit
<1> QED
  BY <1>2 DEF Stamped

LEMMA InitLink == Init => LinkOK
<1> SUFFICES ASSUME Init PROVE LinkOK
  OBVIOUS
<1>1. Keys = {} /\ history = {} /\ \A r \in HistoryRunners : ~InTransaction(r)
  BY DEF Init, Keys, InTransaction, Idle, Runners
<1> QED
  BY <1>1 DEF LinkOK, Stamped

(* A step after which the rows and their histories are the same, no        *)
(* history runner has read more, and the ledger has not become shorter.    *)
LEMMA LinkFrame ==
    ASSUME LinkOK, UNCHANGED <<kind, rows, history, late>>, Stamped', HasHistory => HasHistory',
           \A r \in HistoryRunners : InTransaction(r)' => InTransaction(r) /\ runner'[r] = runner[r]
    PROVE  LinkOK'
<1>1. Keys' = Keys /\ \A k : HistoryOf(k)' = HistoryOf(k)
  BY DEF Keys, HistoryOf
<1>2. ASSUME NEW k \in Keys \ late PROVE KeyOK(k)'
  <2>1. \A r \in HistoryRunners : Reads(r, k)' => Reads(r, k) /\ EventsOf(r, k)' = EventsOf(r, k)
    BY DEF Reads, EventsOf
  <2>2. KeyOK(k) /\ rows'[k] = rows[k]
    BY DEF LinkOK
  <2> QED
    BY <1>1, <2>1, <2>2, KeyFrame
<1>3. history' # {} => HasHistory'
  BY DEF LinkOK
<1>4. \A e \in history' : e.key \in Keys' /\ e.source \in {"simulator", "inferred"}
  BY <1>1 DEF LinkOK
<1>5. \A r \in HistoryRunners : InTransaction(r)' =>
          \A e \in runner'[r].events : e.key \in runner'[r].keys /\ e.source = "inferred"
  BY DEF LinkOK
<1> QED
  BY <1>1, <1>2, <1>3, <1>4, <1>5 DEF LinkOK

LEMMA StampedFrame ==
    ASSUME Stamped, UNCHANGED <<kind, rows, ledger>> PROVE Stamped'
BY DEF Stamped, Keys, HasAudit

LEMMA QuietLink ==
    ASSUME LinkOK, UNCHANGED <<kind, ledger, rows, history, late>>,
           \A r \in HistoryRunners : InTransaction(r)' => InTransaction(r) /\ runner'[r] = runner[r]
    PROVE  LinkOK'
<1>1. Stamped' /\ (HasHistory => HasHistory')
  BY StampedFrame DEF LinkOK, HasHistory
<1> QED
  BY <1>1, LinkFrame

(* Deploy, Up, Probe, and the steps of the audit runners but the write.    *)
LEMMA OthersLink ==
    ASSUME Inv, LinkOK,
           \/ Deploy \/ Up \/ Probe \/ UNCHANGED vars
           \/ \E r \in AuditRunners : AuditRun(r) \/ AuditRead(r) \/ AuditUnlock(r)
           \/ \E r \in Runners : RunnerDies(r)
    PROVE  LinkOK'
<1>1. UNCHANGED <<kind, ledger, rows, history, late>>
  BY DEF Deploy, Up, Probe, vars, AuditRun, AuditRead, AuditUnlock, RunnerDies
<1>2. ASSUME NEW q \in HistoryRunners, InTransaction(q)' PROVE InTransaction(q) /\ runner'[q] = runner[q]
  <2>1. DOMAIN runner = Runners /\ q \in Runners
    BY Apart DEF Inv, Shape
  <2>2. CASE Deploy \/ Up \/ Probe \/ UNCHANGED vars
    BY <1>2, <2>2 DEF Deploy, Up, Probe, vars, InTransaction
  <2>3. CASE \E r \in AuditRunners : AuditRun(r) \/ AuditRead(r) \/ AuditUnlock(r)
    <3>1. PICK r \in AuditRunners : AuditRun(r) \/ AuditRead(r) \/ AuditUnlock(r)
      BY <2>3
    <3>2. q # r
      BY Apart
    <3>3. \/ runner' = [runner EXCEPT ![r].pc = "locked"]
          \/ \E state : runner' = [runner EXCEPT ![r] = state]
      BY <3>1 DEF AuditRun, AuditRead, AuditUnlock
    <3>4. runner'[q] = runner[q]
      BY <2>1, <3>2, <3>3
    <3> QED
      BY <1>2, <3>4 DEF InTransaction
  <2>4. CASE \E r \in Runners : RunnerDies(r)
    <3>1. PICK r \in Runners : runner' = [runner EXCEPT ![r] = Idle]
      BY <2>4 DEF RunnerDies
    <3>2. q # r
      BY <1>2, <2>1, <3>1 DEF InTransaction, Idle
    <3>3. runner'[q] = runner[q]
      BY <2>1, <3>1, <3>2
    <3> QED
      BY <1>2, <3>3 DEF InTransaction
  <2> QED
    BY <2>2, <2>3, <2>4
<1> QED
  BY <1>1, <1>2, QuietLink

LEMMA MigrateLink ==
    ASSUME Inv, LinkOK, Migrate PROVE LinkOK'
<1>1. /\ UNCHANGED <<kind, rows, history, runner, late>> /\ Validated /\ PendingSucceed(rows)
      /\ ledger' = ledger \o SubSeq(Files, Len(ledger) + 1, Len(Files))
  BY DEF Migrate
<1>2. Shape
  BY DEF Inv
<1>3. ledger' = Files /\ Len(ledger) \in Nat /\ Len(ledger') \in Nat /\ Len(ledger) <= Len(ledger')
  BY <1>1, <1>2, LedgerFacts
<1>4. HasHistory => HasHistory'
  BY <1>1, <1>2, <1>3, SchemaKept
<1>5. Stamped'
  <2>1. Keys' = Keys
    BY <1>1 DEF Keys
  <2>2. ASSUME Len(ledger') >= Enforced PROVE \A k \in Keys : rows[k].audit /\ Ordered(kind, rows[k].data)
    <3>1. CASE Len(ledger) >= Enforced
      BY <3>1 DEF LinkOK, Stamped
    <3>2. CASE ~(Len(ledger) >= Enforced)
      <4>1. Len(ledger) < Enforced /\ Enforced <= Len(Files)
        BY <1>3, <2>2, <3>2 DEF Enforced
      <4> QED
        BY <1>1, <4>1 DEF PendingSucceed, Keys
    <3> QED
      BY <3>1, <3>2
  <2>3. HasAudit => HasAudit'
    BY <1>3 DEF HasAudit
  <2>4. \A k \in Keys : rows[k].audit => HasAudit' /\ Filled(kind, rows[k].data)
    BY <2>3 DEF LinkOK, Stamped
  <2>5. \A k \in Keys : Ordered(kind, rows[k].data) \/ FromSeed(kind, k, rows[k])
    BY DEF LinkOK, Stamped
  <2> QED
    BY <1>1, <2>1, <2>2, <2>4, <2>5 DEF Stamped
<1>6. \A r \in HistoryRunners : InTransaction(r)' => InTransaction(r) /\ runner'[r] = runner[r]
  BY <1>1 DEF InTransaction
<1> QED
  BY <1>1, <1>4, <1>5, <1>6, LinkFrame

LEMMA LoadLink ==
    ASSUME Inv, LinkOK, Load PROVE LinkOK'
<1>1. UNCHANGED <<kind, history, runner>> /\ Validated /\ rows = <<>> /\ ledger' = Files
  BY DEF Load
<1>2. PICK seed \in Seeds[kind] : rows' = Loaded(seed) /\ Loadable(seed)
  BY DEF Load
<1>3. Shape /\ kind \in RowKinds
  BY DEF Inv, Shape
<1>4. history' = {} /\ Keys = {}
  <2>1. Keys = {}
    BY <1>1 DEF Keys
  <2> QED
    BY <1>1, <2>1 DEF LinkOK
<1>5. \A r \in HistoryRunners : InTransaction(r)' => runner'[r].keys = {} /\ runner'[r].events = {}
  <2>1. \A r \in HistoryRunners : InTransaction(r) => runner[r].keys = {}
    BY <1>4 DEF Inv, HistoryOK
  <2>2. \A r \in HistoryRunners : InTransaction(r) => runner[r].events = {}
    BY <2>1 DEF LinkOK
  <2> QED
    BY <1>1, <2>1, <2>2 DEF InTransaction
<1>6. \A k \in Keys' : KeyOK(k)'
  <2>1. TAKE k \in Keys'
  <2>2. HistoryOf(k)' = {} /\ \A r \in HistoryRunners : ~Reads(r, k)'
    BY <1>4, <1>5 DEF HistoryOf, Reads
  <2> QED
    BY <2>2, KeyEmpty
<1>7. Stamped'
  <2>1. seed \in Seq(RowOf(kind)) /\ Len(seed) \in Nat /\ DOMAIN seed = 1..Len(seed)
    BY <1>2, <1>3, UpgradeAssumption, LenProperties
  <2>2. Keys' = 1..Len(seed)
    BY <1>2, <2>1 DEF Keys, Loaded
  <2>3. Len(Files) \in Nat
    BY <1>3, LedgerFacts
  <2>4. CASE Len(Files) >= 2
    <3>1. ASSUME NEW k \in 1..Len(seed)
          PROVE  /\ rows'[k].audit /\ Filled(kind, rows'[k].data)
                 /\ Len(Files) >= Enforced => Ordered(kind, rows'[k].data)
                 /\ Ordered(kind, rows'[k].data) \/ FromSeed(kind, k, rows'[k])
      <4>1. PICK row, d : row = rows'[k] /\ d = Fill(kind, seed[k])
        OBVIOUS
      <4>2. row = [data |-> d, audit |-> TRUE, own |-> FALSE]
        BY <1>2, <2>1, <2>4, <4>1 DEF Loaded
      <4>3. row.data = d /\ row.audit = TRUE /\ row.own = FALSE
        BY <4>2
      <4>4. seed[k] \in RowOf(kind)
        BY <2>1, ElementOfSeq
      <4>5. Filled(kind, d) /\ (Filled(kind, seed[k]) => d = seed[k])
        BY <1>3, <4>1, <4>4, FillType
      <4>6. Ordered(kind, seed[k]) \/ ~Filled(kind, seed[k]) => Ordered(kind, d)
        BY <1>3, <4>1, <4>4, FillOrdered
      <4>7. Len(Files) >= Enforced => Ordered(kind, seed[k])
        BY <1>2, <2>1 DEF Loadable
      <4>8. Filled(kind, seed[k]) => FromSeed(kind, k, row)
        BY <1>2, <2>1, <4>3, <4>5 DEF FromSeed
      <4> QED
        BY <4>1, <4>3, <4>5, <4>6, <4>7, <4>8
    <3>2. HasAudit'
      BY <1>1, <2>4 DEF HasAudit
    <3> QED
      BY <1>1, <2>2, <3>1, <3>2 DEF Stamped
  <2>5. CASE ~(Len(Files) >= 2)
    <3>1. \A k \in 1..Len(seed) : rows'[k] = [data |-> seed[k], audit |-> FALSE, own |-> FALSE]
      BY <1>2, <2>1, <2>5 DEF Loaded
    <3>2. ~(Len(ledger') >= Enforced)
      BY <1>1, <2>3, <2>5 DEF Enforced
    <3>3. ASSUME NEW k \in 1..Len(seed) PROVE rows'[k].audit = FALSE /\ FromSeed(kind, k, rows'[k])
      <4>1. PICK row, d : row = rows'[k] /\ d = seed[k]
        OBVIOUS
      <4>2. row = [data |-> d, audit |-> FALSE, own |-> FALSE]
        BY <3>1, <4>1
      <4>3. row.audit = FALSE /\ row.own = FALSE /\ row.data = d
        BY <4>2
      <4> QED
        BY <1>2, <2>1, <4>1, <4>3 DEF FromSeed
    <3> QED
      BY <1>1, <2>2, <3>2, <3>3 DEF Stamped
  <2> QED
    BY <2>4, <2>5
<1> QED
  BY <1>4, <1>5, <1>6, <1>7 DEF LinkOK

(* What an entry of the simulator adds to the history of its row.          *)
LEMMA RecordedHistory ==
    ASSUME NEW key, NEW from, NEW to, NEW at, NEW e, e = Entry(key, from, to, at, "simulator"),
           RecordsHistory, history' = Recorded(key, from, to, at)
    PROVE  /\ HistoryOf(key)' = HistoryOf(key) \cup {e}
           /\ By("simulator", key)' = By("simulator", key) \cup {e}
           /\ By("inferred", key)' = By("inferred", key)
           /\ \A k : k # key => HistoryOf(k)' = HistoryOf(k)
           /\ e.key = key /\ e.from = from /\ e.to = to /\ e.at = at /\ e.source = "simulator"
<1>1. history' = history \cup {e} /\ e.key = key /\ e.source = "simulator"
  BY DEF Recorded, Entry
<1>2. e.from = from /\ e.to = to /\ e.at = at
  BY DEF Entry
<1>3. HistoryOf(key)' = HistoryOf(key) \cup {e} /\ \A k : k # key => HistoryOf(k)' = HistoryOf(k)
  BY <1>1 DEF HistoryOf
<1>4. By("simulator", key)' = By("simulator", key) \cup {e} /\ By("inferred", key)' = By("inferred", key)
  BY <1>1, <1>3 DEF By
<1> QED
  BY <1>1, <1>2, <1>3, <1>4

LEMMA InsertLink ==
    ASSUME Inv, SimOK, LinkOK, Insert PROVE LinkOK'
<1> DEFINE new == [data |-> NewRow, audit |-> StampsRows, own |-> TRUE]
<1>0. PICK n, e : n = Len(rows) + 1 /\ e = Entry(n, "none", Status(kind, NewRow), Timestamp(SimDay, 0), "simulator")
  OBVIOUS
<1>1. /\ UNCHANGED <<kind, ledger, runner>> /\ rows' = Append(rows, new)
      /\ history' = Recorded(n, "none", Status(kind, NewRow), Timestamp(SimDay, 0))
      /\ sim = "ready" /\ (Len(ledger) >= Enforced => StampsRows)
  BY <1>0 DEF Insert
<1>1a. late \subseteq late'
  BY DEF Insert, Late
<1>1b. (StampsRows => HasAudit) /\ (RecordsHistory => HasHistory)
  <2>1. Shape
    BY DEF Inv
  <2> QED
    BY <1>1, <2>1, SimFacts
<1>2. Shape /\ kind \in RowKinds /\ rows \in Seq(Rows(kind))
  BY DEF Inv, Shape
<1>3. Len(rows) \in Nat /\ Keys = 1..Len(rows) /\ n \notin Keys
  BY <1>0, <1>2, KeysFacts
<1>4. NewRow \in RowOf(kind) /\ OwnRow(kind, NewRow) /\ (StampsRows => Filled(kind, NewRow))
  BY <1>2, NewRowType
<1>5. new.data = NewRow /\ new.audit = StampsRows /\ new.own = TRUE
  OBVIOUS
<1>6. new \in Rows(kind)
  <2>1. StampsRows \in BOOLEAN
    BY DEF StampsRows
  <2> QED
    BY <1>4, <2>1 DEF Rows
<1> HIDE DEF new
<1>7. Keys' = Keys \cup {n} /\ rows'[n] = new /\ \A k \in Keys : rows'[k] = rows[k]
  <2>1. /\ rows' \in Seq(Rows(kind)) /\ Len(rows') = n /\ rows'[n] = new
        /\ \A k \in 1..Len(rows) : rows'[k] = rows[k]
    BY <1>0, <1>1, <1>2, <1>6, AppendProperties
  <2>2. Keys' = 1..n
    BY <2>1, LenProperties DEF Keys
  <2> QED
    BY <1>0, <1>3, <2>1, <2>2
<1>8. HistoryOf(n) = {}
  BY <1>3 DEF LinkOK, HistoryOf
<1>9. \A k : k # n => HistoryOf(k)' = HistoryOf(k)
  BY <1>1, RecordedHistory DEF Recorded, HistoryOf
<1>10. ASSUME NEW k, NEW r \in HistoryRunners
       PROVE  /\ Reads(r, k)' <=> Reads(r, k)
              /\ EventsOf(r, k)' = EventsOf(r, k)
              /\ Reads(r, k) => k \in Keys
  <2>1. InTransaction(r) => runner[r].keys \subseteq Keys
    BY DEF Inv, HistoryOK
  <2> QED
    BY <1>1, <2>1 DEF Reads, EventsOf, InTransaction
<1>11. ASSUME NEW k \in Keys \ late PROVE KeyOK(k)'
  <2>1. k # n /\ KeyOK(k)
    BY <1>3 DEF LinkOK
  <2> QED
    BY <1>1, <1>7, <1>9, <1>10, <2>1, KeyFrame
<1>12. KeyOK(n)'
  <2>1. CASE ~RecordsHistory
    <3>1. HistoryOf(n)' = {}
      BY <1>1, <1>8, <2>1 DEF Recorded, HistoryOf
    <3> QED
      BY <1>3, <1>10, <3>1, KeyEmpty
  <2>2. CASE RecordsHistory
    <3>1. /\ By("simulator", n)' = By("simulator", n) \cup {e} /\ By("inferred", n)' = By("inferred", n)
          /\ e.to = Status(kind, NewRow) /\ e.at = Timestamp(SimDay, 0)
      BY <1>0, <1>1, <2>2, RecordedHistory
    <3>2. By("simulator", n)' = {e} /\ By("inferred", n)' = {}
      BY <1>8, <3>1 DEF By
    <3>3. Tracks(kind, {e}, new)
      <4>1. e.at.day = SimDay /\ SimDay \in Nat
        BY <3>1, UpgradeAssumption DEF Timestamp
      <4>2. Status(kind, NewRow) \in {"PENDING", "SHIPPED", "ISSUED", "Open"}
        BY <1>2, RowKindsCases DEF Status, NewRow
      <4>3. Status(kind, NewRow) \notin Later(Status(kind, NewRow))
        BY <4>2 DEF Later
      <4>4. e.at.day \in Int /\ e.at.day <= SimDay + 1
        BY <4>1
      <4> QED
        BY <1>5, <3>1, <4>3, <4>4 DEF Tracks
    <3>4. \A r \in HistoryRunners : ~Reads(r, n)'
      BY <1>3, <1>10
    <3> QED
      BY <1>1, <1>5, <1>7, <3>2, <3>3, <3>4 DEF KeyOK
  <2> QED
    BY <2>1, <2>2
<1>13. Stamped'
  <2>1. new.audit => HasAudit /\ Filled(kind, new.data)
    BY <1>1b, <1>4, <1>5
  <2>2. HasAudit' <=> HasAudit
    BY <1>1 DEF HasAudit
  <2>3. Ordered(kind, new.data)
    BY <1>2, <1>4, <1>5, OwnOrdered
  <2>4. Len(ledger') >= Enforced => \A k \in Keys' : rows'[k].audit /\ Ordered(kind', rows'[k].data)
    BY <1>1, <1>5, <1>7, <2>3 DEF LinkOK, Stamped
  <2>5. \A k \in Keys' : rows'[k].audit => HasAudit' /\ Filled(kind', rows'[k].data)
    BY <1>1, <1>7, <2>1, <2>2 DEF LinkOK, Stamped
  <2>6. \A k \in Keys' : Ordered(kind', rows'[k].data) \/ FromSeed(kind', k, rows'[k])
    BY <1>1, <1>7, <2>3 DEF LinkOK, Stamped
  <2> QED
    BY <2>4, <2>5, <2>6 DEF Stamped
<1>14. history' # {} => HasHistory'
  <2>1. HasHistory' <=> HasHistory
    BY <1>1 DEF HasHistory
  <2>2. history # {} => HasHistory
    BY DEF LinkOK
  <2>3. ~RecordsHistory => history' = history
    BY <1>1 DEF Recorded
  <2> QED
    BY <1>1b, <2>1, <2>2, <2>3
<1>15. \A f \in history' : f.key \in Keys' /\ f.source \in {"simulator", "inferred"}
  <2>1. e.key = n /\ e.source = "simulator" /\ history' \subseteq history \cup {e}
    BY <1>0, <1>1 DEF Recorded, Entry
  <2> QED
    BY <1>7, <2>1 DEF LinkOK
<1>16. \A r \in HistoryRunners : InTransaction(r)' =>
           \A f \in runner'[r].events : f.key \in runner'[r].keys /\ f.source = "inferred"
  BY <1>1 DEF LinkOK, InTransaction
<1>17. \A k \in Keys' \ late' : KeyOK(k)'
  BY <1>1a, <1>7, <1>11, <1>12
<1> QED
  BY <1>13, <1>14, <1>15, <1>16, <1>17 DEF LinkOK

LEMMA MoveLink ==
    ASSUME Inv, SimOK, LinkOK, NEW key \in Keys, Move(key) PROVE LinkOK'
<1>1. PICK row, moved : row = rows[key] /\ moved = [row EXCEPT !.data = Moved(row.data)]
  OBVIOUS
<1>2. PICK from, to, at, e : /\ from = Status(kind, row.data) /\ to = Status(kind, Moved(row.data))
                             /\ at = Timestamp(IF to \in {"INVOICED", "Closed"} THEN SimDay + 2 ELSE SimDay + 1, 0)
                             /\ e = Entry(key, from, to, at, "simulator")
  OBVIOUS
<1>3. /\ UNCHANGED <<kind, ledger, runner>> /\ row.own /\ Moved(row.data) # row.data
      /\ rows' = [rows EXCEPT ![key] = moved]
  BY <1>1 DEF Move
<1>4. history' = Recorded(key, from, to, at)
  BY <1>1, <1>2 DEF Move
<1>4a. late' = (IF Outdated THEN late \cup {key} ELSE late) /\ sim = "ready"
  BY DEF Move, Late
<1>4b. /\ RecordsHistory => HasHistory
       /\ ~Outdated => (RecordsHistory <=> HasHistory)
  BY <1>4a, SimFacts DEF Inv
<1>5. Shape /\ kind \in RowKinds /\ row \in Rows(kind) /\ OwnRow(kind, row.data)
  <2>1. Shape /\ kind \in RowKinds
    BY DEF Inv, Shape
  <2> QED
    BY <1>1, <1>3, <2>1, KeysFacts DEF Shape
<1>6. row.data \in RowOf(kind) /\ moved.data = Moved(row.data) /\ moved.own = row.own /\ moved.audit = row.audit
  BY <1>1, <1>5 DEF Rows
<1>7. Keys' = Keys /\ rows'[key] = moved /\ \A k \in Keys : k # key => rows'[k] = rows[k]
  BY <1>3 DEF Keys
<1>8. \A k : k # key => HistoryOf(k)' = HistoryOf(k)
  BY <1>2, <1>4, RecordedHistory DEF Recorded, HistoryOf
<1>9. ASSUME NEW k, NEW r \in HistoryRunners
      PROVE  (Reads(r, k)' <=> Reads(r, k)) /\ EventsOf(r, k)' = EventsOf(r, k)
  BY <1>3 DEF Reads, EventsOf, InTransaction
<1>10. ASSUME NEW k \in Keys \ late, k # key PROVE KeyOK(k)'
  <2>1. KeyOK(k)
    BY DEF LinkOK
  <2> QED
    BY <1>3, <1>7, <1>8, <1>9, <1>10, <2>1, KeyFrame
<1>11. ASSUME key \notin late' PROVE KeyOK(key)'
  <2>0. ~Outdated /\ key \notin late /\ (RecordsHistory <=> HasHistory)
    BY <1>4a, <1>4b, <1>11
  <2>1. CASE ~HasHistory
    <3>1. HistoryOf(key)' = {}
      BY <1>4, <2>0, <2>1 DEF LinkOK, Recorded, HistoryOf
    <3>2. \A r \in HistoryRunners : ~Reads(r, key)'
      BY <1>9, <2>1 DEF Inv, HistoryOK, Reads
    <3> QED
      BY <3>1, <3>2, KeyEmpty
  <2>2. CASE HasHistory
    <3>1. /\ HistoryOf(key)' = HistoryOf(key) \cup {e}
          /\ By("simulator", key)' = By("simulator", key) \cup {e}
          /\ By("inferred", key)' = By("inferred", key)
          /\ e.from = from /\ e.to = to /\ e.at = at
      BY <1>2, <1>4, <2>0, <2>2, RecordedHistory
    <3>2. Consistent(kind, row.data)
      <4>1. Filled(kind, row.data)
        BY <1>1, <1>5, <2>2, EnforcedFacts DEF LinkOK
      <4>2. Timely(kind, row.data)
        BY <1>1, <1>3, <2>0 DEF SimOK
      <4> QED
        BY <1>5, <1>6, <4>1, <4>2, OwnConsistent
    <3>3. ASSUME NEW X, X = {} \/ Tracks(kind, X, row)
          PROVE  Tracks(kind, X \cup {e}, moved) /\ (X # {} /\ Follow(X) => Follow(X \cup {e}))
      <4>1. /\ e.from = Status(kind, row.data) /\ e.to = Status(kind, moved.data)
            /\ e.at = Timestamp(IF e.to \in {"INVOICED", "Closed"} THEN SimDay + 2 ELSE SimDay + 1, 0)
        BY <1>2, <1>6, <3>1
      <4> QED
        BY <1>3, <1>5, <1>6, <3>2, <3>3, <4>1, MoveTracks
    <3>4. KeyOK(key)
      BY <2>0 DEF LinkOK
    <3>5. moved.own /\ Tracks(kind, By("simulator", key)', moved)
      BY <1>1, <1>3, <1>6, <3>1, <3>3, <3>4 DEF KeyOK
    <3>6. ASSUME By("inferred", key)' # {}
          PROVE  Tracks(kind, HistoryOf(key)', moved) /\ Follow(HistoryOf(key)')
      <4>1. Tracks(kind, HistoryOf(key), row) /\ Follow(HistoryOf(key)) /\ HistoryOf(key) # {}
        BY <1>1, <3>1, <3>4, <3>6 DEF KeyOK, By
      <4> QED
        BY <3>1, <3>3, <4>1
    <3>7. ASSUME NEW r \in HistoryRunners, Reads(r, key)' PROVE ReadOK(r, key)'
      <4>1. PICK E, X : E = EventsOf(r, key) /\ X = EventsOf(r, key) \cup By("simulator", key)
        OBVIOUS
      <4>2. ReadOK(r, key) /\ Reads(r, key) /\ EventsOf(r, key)' = E
        BY <1>9, <3>4, <3>7, <4>1 DEF KeyOK
      <4>3. E # {}
        <5>1. \E f \in runner[r].events : f.key = key
          BY <4>2 DEF Inv, HistoryOK, Reads
        <5> QED
          BY <4>1, <5>1 DEF EventsOf
      <4>4. Tracks(kind, X, row) /\ Follow(X) /\ X # {}
        BY <1>1, <4>1, <4>2, <4>3 DEF ReadOK
      <4>5. Tracks(kind, X \cup {e}, moved) /\ Follow(X \cup {e})
        BY <3>3, <4>4
      <4>6. EventsOf(r, key)' \cup By("simulator", key)' = X \cup {e}
        BY <3>1, <4>1, <4>2
      <4>7. HistoryOf(key)' # {}
        BY <3>1
      <4>8. \A q \in HistoryRunners : Reads(q, key)' => EventsOf(q, key)' = EventsOf(r, key)'
        BY <1>9, <4>2 DEF ReadOK
      <4>9. (\A f \in E : f.source = "inferred") /\ By("inferred", key)' \in {{}, E}
        BY <3>1, <4>1, <4>2 DEF ReadOK
      <4> QED
        BY <1>3, <1>7, <4>2, <4>5, <4>6, <4>7, <4>8, <4>9 DEF ReadOK
    <3> QED
      BY <1>3, <1>7, <3>5, <3>6, <3>7 DEF KeyOK
  <2> QED
    BY <2>1, <2>2
<1>12. Stamped'
  <2>1. HasAudit' <=> HasAudit
    BY <1>3 DEF HasAudit
  <2>2. /\ Filled(kind, row.data) => Filled(kind, moved.data)
        /\ Ordered(kind, moved.data)
    <3>1. moved.data \in RowOf(kind) /\ OwnRow(kind, moved.data)
      BY <1>5, <1>6, MovedType
    <3> QED
      BY <1>5, <1>6, <3>1, MovedType, OwnOrdered
  <2>3. \A k \in Keys : rows'[k].audit => rows[k].audit
    BY <1>1, <1>6, <1>7
  <2>4. \A k \in Keys : rows[k].audit => rows'[k].audit
    BY <1>1, <1>6, <1>7
  <2>5. ASSUME NEW k \in Keys, rows[k].audit PROVE HasAudit /\ Filled(kind, rows'[k].data)
    <3>1. HasAudit /\ Filled(kind, rows[k].data)
      BY <2>5 DEF LinkOK, Stamped
    <3> QED
      BY <1>1, <1>7, <2>2, <3>1
  <2>6. ASSUME NEW k \in Keys
        PROVE  /\ Ordered(kind, rows[k].data) => Ordered(kind, rows'[k].data)
               /\ FromSeed(kind, k, rows[k]) => FromSeed(kind, k, rows'[k]) \/ Ordered(kind, rows'[k].data)
    BY <1>7, <2>2
  <2>7. Len(ledger') >= Enforced => \A k \in Keys' : rows'[k].audit /\ Ordered(kind', rows'[k].data)
    BY <1>3, <1>7, <2>4, <2>6 DEF LinkOK, Stamped
  <2>8. \A k \in Keys' : rows'[k].audit => HasAudit' /\ Filled(kind', rows'[k].data)
    BY <1>3, <1>7, <2>1, <2>3, <2>5
  <2>9. \A k \in Keys' : Ordered(kind', rows'[k].data) \/ FromSeed(kind', k, rows'[k])
    BY <1>3, <1>7, <2>6 DEF LinkOK, Stamped
  <2> QED
    BY <2>7, <2>8, <2>9 DEF Stamped
<1>13. history' # {} => HasHistory'
  <2>1. HasHistory' <=> HasHistory
    BY <1>3 DEF HasHistory
  <2>2. history # {} => HasHistory
    BY DEF LinkOK
  <2>3. ~RecordsHistory => history' = history
    BY <1>4 DEF Recorded
  <2> QED
    BY <1>4b, <2>1, <2>2, <2>3
<1>14. \A f \in history' : f.key \in Keys' /\ f.source \in {"simulator", "inferred"}
  <2>1. e.key = key /\ e.source = "simulator" /\ history' \subseteq history \cup {e}
    BY <1>2, <1>4 DEF Recorded, Entry
  <2> QED
    BY <1>7, <2>1 DEF LinkOK
<1>15. \A r \in HistoryRunners : InTransaction(r)' =>
           \A f \in runner'[r].events : f.key \in runner'[r].keys /\ f.source = "inferred"
  BY <1>3 DEF LinkOK, InTransaction
<1>16. \A k \in Keys' \ late' : KeyOK(k)'
  BY <1>4a, <1>7, <1>10, <1>11
<1> QED
  BY <1>12, <1>13, <1>14, <1>15, <1>16 DEF LinkOK

(* The audit backfill writes nothing new where there are histories.        *)
LEMMA AuditWriteLink ==
    ASSUME Inv, LinkOK, NEW r \in AuditRunners, AuditWrite(r) PROVE LinkOK'
<1> DEFINE fill(k) == IF k \in runner[r].keys THEN [rows[k] EXCEPT !.data = Fill(kind, @), !.audit = TRUE]
                                              ELSE rows[k]
<1>1. /\ UNCHANGED <<kind, ledger, history, late>> /\ InTransaction(r)
      /\ rows' = [k \in Keys |-> fill(k)]
      /\ runner' = [runner EXCEPT ![r] = [Idle EXCEPT !.pc = "ran"]]
  BY DEF AuditWrite
<1>2. Shape /\ DOMAIN runner = Runners /\ kind \in RowKinds
  BY DEF Inv, Shape
<1>3. \A q \in HistoryRunners : runner'[q] = runner[q]
  BY <1>1, <1>2, Apart
<1>4. Keys' = Keys /\ \A k \in Keys : rows'[k] = fill(k)
  BY <1>1 DEF Keys
<1>5. HasAudit
  <2>1. HasProgress /\ Len(ledger) \in Nat
    BY <1>1, <1>2, LedgerFacts DEF Inv, AuditOK, InTransaction
  <2> QED
    BY <2>1 DEF HasProgress, HasAudit
<1>6. ASSUME NEW k \in Keys
      PROVE  /\ rows[k].audit /\ Filled(kind, rows[k].data) => fill(k) = rows[k]
             /\ fill(k).audit => Filled(kind, fill(k).data)
             /\ rows[k].audit => fill(k).audit
             /\ Ordered(kind, rows[k].data) => Ordered(kind, fill(k).data)
             /\ FromSeed(kind, k, rows[k]) => FromSeed(kind, k, fill(k)) \/ Ordered(kind, fill(k).data)
  <2>1. rows[k] \in [data: RowOf(kind), audit: BOOLEAN, own: BOOLEAN]
    BY <1>2, KeysFacts DEF Rows
  <2>2. rows[k].audit => Filled(kind, rows[k].data)
    BY DEF LinkOK, Stamped
  <2>3. CASE k \notin runner[r].keys
    BY <2>2, <2>3
  <2>4. CASE k \in runner[r].keys
    <3>1. PICK d : d = Fill(kind, rows[k].data)
      OBVIOUS
    <3>2. Filled(kind, d) /\ (Filled(kind, rows[k].data) => d = rows[k].data)
      BY <1>2, <2>1, <3>1, FillType
    <3>3. fill(k) = [rows[k] EXCEPT !.data = d, !.audit = TRUE]
      BY <2>4, <3>1
    <3>4. fill(k).audit = TRUE /\ fill(k).data = d /\ fill(k).own = rows[k].own
      BY <2>1, <3>3
    <3>5. ASSUME rows[k].audit, d = rows[k].data PROVE fill(k) = rows[k]
      <4>1. rows[k].audit = TRUE
        BY <2>1, <3>5
      <4> QED
        BY <2>1, <3>3, <3>5, <4>1
    <3>6. Ordered(kind, rows[k].data) \/ ~Filled(kind, rows[k].data) => Ordered(kind, d)
      BY <1>2, <2>1, <3>1, FillOrdered
    <3> HIDE DEF fill
    <3>7. Filled(kind, rows[k].data) /\ FromSeed(kind, k, rows[k]) => FromSeed(kind, k, fill(k))
      BY <3>2, <3>4 DEF FromSeed
    <3> QED
      BY <3>2, <3>4, <3>5, <3>6, <3>7
  <2> QED
    BY <2>3, <2>4
<1> HIDE DEF fill
<1>7. Stamped'
  <2>1. HasAudit'
    BY <1>1, <1>5 DEF HasAudit
  <2>2. Len(ledger') >= Enforced => \A k \in Keys' : rows'[k].audit /\ Ordered(kind', rows'[k].data)
    BY <1>1, <1>4, <1>6 DEF LinkOK, Stamped
  <2>3. \A k \in Keys' : rows'[k].audit => Filled(kind', rows'[k].data)
    BY <1>1, <1>4, <1>6
  <2>4. \A k \in Keys' : Ordered(kind', rows'[k].data) \/ FromSeed(kind', k, rows'[k])
    BY <1>1, <1>4, <1>6 DEF LinkOK, Stamped
  <2> QED
    BY <2>1, <2>2, <2>3, <2>4 DEF Stamped
<1>8. \A k : HistoryOf(k)' = HistoryOf(k)
  BY <1>1 DEF HistoryOf
<1>9. ASSUME NEW k, NEW q \in HistoryRunners
      PROVE  (Reads(q, k)' <=> Reads(q, k)) /\ EventsOf(q, k)' = EventsOf(q, k)
  BY <1>3 DEF Reads, EventsOf, InTransaction
<1>10. ASSUME NEW k \in Keys \ late PROVE KeyOK(k)'
  <2>1. CASE ~HasHistory
    <3>1. HistoryOf(k)' = {}
      BY <1>8, <2>1 DEF LinkOK, HistoryOf
    <3>2. \A q \in HistoryRunners : ~Reads(q, k)'
      BY <1>9, <2>1 DEF Inv, HistoryOK, Reads
    <3> QED
      BY <3>1, <3>2, KeyEmpty
  <2>2. CASE HasHistory
    <3>1. rows[k].audit /\ Filled(kind, rows[k].data)
      BY <1>2, <2>2, EnforcedFacts DEF LinkOK
    <3>2. rows'[k] = rows[k] /\ KeyOK(k)
      BY <1>4, <1>6, <3>1 DEF LinkOK
    <3> QED
      BY <1>1, <1>8, <1>9, <3>2, KeyFrame
  <2> QED
    BY <2>1, <2>2
<1>11. history' # {} => HasHistory'
  BY <1>1 DEF LinkOK, HasHistory
<1>12. \A f \in history' : f.key \in Keys' /\ f.source \in {"simulator", "inferred"}
  BY <1>1, <1>4 DEF LinkOK
<1>13. \A q \in HistoryRunners : InTransaction(q)' =>
           \A f \in runner'[q].events : f.key \in runner'[q].keys /\ f.source = "inferred"
  BY <1>3 DEF LinkOK, InTransaction
<1> QED
  BY <1>1, <1>4, <1>7, <1>10, <1>11, <1>12, <1>13 DEF LinkOK

(* A candidate has no history, so every runner that reads it infers the    *)
(* same from it.                                                           *)
LEMMA HistoryReadLink ==
    ASSUME Inv, LinkOK, NEW r \in HistoryRunners, HistoryRead(r) PROVE LinkOK'
<1>1. PICK keys : keys = Candidates(progress["history"].last)
  OBVIOUS
<1>2. PICK events : events = Built(keys)
  OBVIOUS
<1>3. /\ UNCHANGED <<kind, ledger, rows, history, late>>
      /\ runner' = [runner EXCEPT ![r] = [pc |-> "read", keys |-> keys, events |-> events]]
  BY <1>1, <1>2 DEF HistoryRead
<1>3a. HasHistory
  BY DEF HistoryRead
<1>4. Shape /\ DOMAIN runner = Runners /\ kind \in RowKinds /\ r \in Runners
  BY Apart DEF Inv, Shape
<1>5. /\ runner'[r].pc = "read" /\ runner'[r].keys = keys /\ runner'[r].events = events
      /\ \A q \in HistoryRunners : q # r => runner'[q] = runner[q]
  BY <1>3, <1>4, Apart
<1>6. keys \subseteq Keys /\ \A k \in keys : HistoryOf(k) = {}
  <2>1. PICK S : S = {k \in Keys : k > progress["history"].last /\ HistoryOf(k) = {}}
    OBVIOUS
  <2>2. keys \subseteq S
    BY <1>1, <2>1 DEF Candidates, FirstOf
  <2> QED
    BY <2>1, <2>2
<1>7. events = UNION {InferredOf(kind, k, rows[k].data) : k \in keys}
  BY <1>2, Zenon DEF Built, InferredOf
<1>8. \A k, data : \A e \in InferredOf(kind, k, data) : e.key = k /\ e.source = "inferred"
  BY DEF InferredOf, Entry
<1>9. /\ \A e \in events : e.key \in keys /\ e.source = "inferred"
      /\ \A k \in keys : {e \in events : e.key = k} = InferredOf(kind, k, rows[k].data)
  BY <1>7, <1>8
<1>10. Keys' = Keys /\ (\A k : HistoryOf(k)' = HistoryOf(k)) /\ \A source, k : By(source, k)' = By(source, k)
  BY <1>3 DEF Keys, HistoryOf, By
<1>11. ASSUME NEW k
       PROVE  /\ Reads(r, k)' <=> k \in keys
              /\ EventsOf(r, k)' = {e \in events : e.key = k}
              /\ \A q \in HistoryRunners : q # r =>
                     (Reads(q, k)' <=> Reads(q, k)) /\ EventsOf(q, k)' = EventsOf(q, k)
  BY <1>5 DEF Reads, EventsOf, InTransaction
<1>12. ASSUME NEW k \in Keys \ late, k \notin keys PROVE KeyOK(k)'
  <2>1. KeyOK(k) /\ rows'[k] = rows[k]
    BY <1>3 DEF LinkOK
  <2>2. \A q \in HistoryRunners : Reads(q, k)' => Reads(q, k) /\ EventsOf(q, k)' = EventsOf(q, k)
    BY <1>11, <1>12
  <2> QED
    BY <1>3, <1>10, <2>1, <2>2, KeyFrame
<1>13. ASSUME NEW k \in keys \ late PROVE KeyOK(k)'
  <2>1. PICK row, E : row = rows[k] /\ E = InferredOf(kind, k, rows[k].data)
    OBVIOUS
  <2>2. HistoryOf(k) = {} /\ (\A source : By(source, k) = {}) /\ KeyOK(k)
    BY <1>6, <1>13 DEF By, LinkOK
  <2>3. \A q \in HistoryRunners : Reads(q, k)' => EventsOf(q, k)' = E
    <3>1. EventsOf(r, k)' = E
      BY <1>9, <1>11, <2>1
    <3>2. \A q \in HistoryRunners : Reads(q, k) => EventsOf(q, k) = E
      BY <2>1, <2>2 DEF KeyOK, ReadOK
    <3> QED
      BY <1>11, <3>1, <3>2
  <2>4. Tracks(kind, E, row) /\ Follow(E)
    <3>1. row.data \in RowOf(kind) /\ (row.own => OwnRow(kind, row.data))
      BY <1>4, <1>6, <2>1, KeysFacts DEF Rows, Shape
    <3>2. Filled(kind, row.data) /\ Ordered(kind, row.data)
      BY <1>3a, <1>4, <1>6, <2>1, EnforcedFacts DEF LinkOK
    <3> QED
      BY <1>4, <2>1, <3>1, <3>2, InferredTracks
  <2>5. ASSUME NEW q \in HistoryRunners, Reads(q, k)' PROVE ReadOK(q, k)'
    <3>1. EventsOf(q, k)' = E /\ E \cup By("simulator", k)' = E
      BY <1>10, <2>2, <2>3, <2>5
    <3>2. (\A e \in E : e.source = "inferred") /\ By("inferred", k)' \in {{}, E}
      BY <1>8, <1>10, <2>1, <2>2
    <3>3. E = InferredOf(kind', k, rows'[k].data) /\ rows'[k] = row
      BY <1>3, <2>1
    <3> QED
      BY <1>3, <2>3, <2>4, <3>1, <3>2, <3>3 DEF ReadOK
  <2> QED
    BY <1>10, <2>2, <2>5 DEF KeyOK
<1>14. Stamped' /\ (history' # {} => HasHistory')
  BY <1>3, StampedFrame DEF LinkOK, HasHistory
<1>15. \A f \in history' : f.key \in Keys' /\ f.source \in {"simulator", "inferred"}
  BY <1>3, <1>10 DEF LinkOK
<1>16. \A q \in HistoryRunners : InTransaction(q)' =>
           \A f \in runner'[q].events : f.key \in runner'[q].keys /\ f.source = "inferred"
  BY <1>5, <1>9 DEF LinkOK, InTransaction
<1> QED
  BY <1>3, <1>10, <1>12, <1>13, <1>14, <1>15, <1>16 DEF LinkOK

(* Whoever writes first, the history of a row becomes what was inferred    *)
(* from it and what the simulator has recorded; who comes later adds       *)
(* nothing.                                                                *)
LEMMA HistoryWriteLink ==
    ASSUME Inv, LinkOK, NEW r \in HistoryRunners, HistoryWrite(r) PROVE LinkOK'
<1>1. PICK keys, events : keys = runner[r].keys /\ events = runner[r].events
  OBVIOUS
<1>2. PICK new : new = {e \in events : \A f \in HistoryOf(e.key) : f.source = "inferred" => f.to # e.to}
  OBVIOUS
<1>3. /\ UNCHANGED <<kind, ledger, rows, late>> /\ InTransaction(r)
      /\ history' = history \cup new
      /\ runner' = [runner EXCEPT ![r] = Idle]
  BY <1>1, <1>2 DEF HistoryWrite
<1>4. Shape /\ DOMAIN runner = Runners /\ r \in Runners
  BY Apart DEF Inv, Shape
<1>5. /\ HasHistory /\ keys \subseteq Keys
      /\ \A e \in events : e.key \in keys /\ e.source = "inferred"
      /\ \A k \in keys : \E e \in events : e.key = k
  BY <1>1, <1>3 DEF Inv, HistoryOK, LinkOK
<1>6. ASSUME NEW k, NEW q \in HistoryRunners
      PROVE  Reads(q, k)' => Reads(q, k) /\ EventsOf(q, k)' = EventsOf(q, k)
  <2> SUFFICES ASSUME Reads(q, k)' PROVE Reads(q, k) /\ EventsOf(q, k)' = EventsOf(q, k)
    OBVIOUS
  <2>1. q \in Runners /\ q # r
    BY <1>3, <1>4, Apart DEF Reads, InTransaction, Idle
  <2>2. runner'[q] = runner[q]
    BY <1>3, <1>4, <2>1
  <2> QED
    BY <2>2 DEF Reads, EventsOf, InTransaction
<1>7. Keys' = Keys /\ \A k : HistoryOf(k)' = HistoryOf(k) \cup {e \in new : e.key = k}
  BY <1>3 DEF Keys, HistoryOf
<1>8. ASSUME NEW k \in Keys \ late, k \notin keys PROVE KeyOK(k)'
  <2>1. HistoryOf(k)' = HistoryOf(k)
    BY <1>2, <1>5, <1>7, <1>8
  <2>2. KeyOK(k) /\ rows'[k] = rows[k]
    BY <1>3 DEF LinkOK
  <2> QED
    BY <1>3, <1>6, <2>1, <2>2, KeyFrame
<1>9. ASSUME NEW k \in keys \ late PROVE KeyOK(k)'
  <2>1. PICK E, row, past : E = EventsOf(r, k) /\ row = rows[k] /\ past = By("simulator", k)
    OBVIOUS
  <2>2. Reads(r, k) /\ KeyOK(k) /\ ReadOK(r, k)
    <3>1. Reads(r, k) /\ KeyOK(k)
      BY <1>1, <1>3, <1>5, <1>9 DEF Reads, LinkOK
    <3> QED
      BY <3>1 DEF KeyOK
  <2>3. /\ E = {e \in events : e.key = k} /\ E # {}
        /\ \A e \in E : e.source = "inferred"
        /\ By("inferred", k) = {} \/ By("inferred", k) = E
    <3>1. E = {e \in events : e.key = k}
      BY <1>1, <2>1 DEF EventsOf
    <3>2. E # {}
      BY <1>5, <3>1
    <3> QED
      BY <2>1, <2>2, <3>1, <3>2 DEF ReadOK
  <2>4. /\ Tracks(kind, E \cup past, row) /\ Follow(E \cup past)
        /\ \A q \in HistoryRunners : Reads(q, k) => EventsOf(q, k) = E
    BY <2>1, <2>2 DEF ReadOK
  <2>5. {e \in new : e.key = k} = IF By("inferred", k) = {} THEN E ELSE {}
    <3>1. {e \in new : e.key = k} = {e \in E : \A f \in By("inferred", k) : f.to # e.to}
      BY <1>2, <2>3 DEF By
    <3> QED
      BY <2>3, <3>1
  <2>6. HistoryOf(k) = By("inferred", k) \cup past
    BY <2>1 DEF By, LinkOK, HistoryOf
  <2>7. HistoryOf(k)' = E \cup past
    BY <1>7, <2>3, <2>5, <2>6
  <2>8. (\A e \in past : e.source = "simulator") /\ "inferred" # "simulator"
    BY <2>1 DEF By
  <2>9. By("inferred", k)' = E /\ By("simulator", k)' = past
    BY <2>3, <2>7, <2>8 DEF By
  <2>10. rows'[k] = row /\ kind' = kind
    BY <1>3, <2>1
  <2>11. past # {} => row.own /\ Tracks(kind, past, row)
    BY <2>1, <2>2 DEF KeyOK
  <2>12. ASSUME NEW q \in HistoryRunners, Reads(q, k)' PROVE ReadOK(q, k)'
    <3>1. EventsOf(q, k)' = E /\ HistoryOf(k)' # {}
      BY <1>6, <2>3, <2>4, <2>7, <2>12
    <3>2. \A p \in HistoryRunners : Reads(p, k)' => EventsOf(p, k)' = E
      BY <1>6, <2>4
    <3> QED
      BY <2>3, <2>4, <2>9, <2>10, <3>1, <3>2 DEF ReadOK
  <2> QED
    BY <2>4, <2>7, <2>9, <2>10, <2>11, <2>12 DEF KeyOK
<1>10. Stamped' /\ HasHistory'
  BY <1>3, <1>5, StampedFrame DEF LinkOK, HasHistory
<1>11. \A f \in history' : f.key \in Keys' /\ f.source \in {"simulator", "inferred"}
  BY <1>2, <1>3, <1>5, <1>7 DEF LinkOK
<1>12. \A q \in HistoryRunners : InTransaction(q)' =>
           \A f \in runner'[q].events : f.key \in runner'[q].keys /\ f.source = "inferred"
  <2>1. \A q \in HistoryRunners : InTransaction(q)' => InTransaction(q) /\ runner'[q] = runner[q]
    BY <1>3, <1>4, Apart DEF InTransaction, Idle
  <2> QED
    BY <2>1 DEF LinkOK
<1> QED
  BY <1>3, <1>7, <1>8, <1>9, <1>10, <1>11, <1>12 DEF LinkOK

LEMMA StepLink ==
    ASSUME Inv, SimOK, LinkOK, Next PROVE LinkOK'
<1>1. CASE Deploy \/ Up \/ Probe
  BY <1>1, OthersLink
<1>2. CASE Migrate \/ Load \/ Insert
  BY <1>2, MigrateLink, LoadLink, InsertLink
<1>3. CASE \E k \in Keys : Move(k)
  BY <1>3, MoveLink
<1>4. CASE \E r \in AuditRunners : AuditStep(r)
  BY <1>4, OthersLink, AuditWriteLink DEF AuditStep
<1>5. CASE \E r \in HistoryRunners : HistoryStep(r)
  BY <1>5, HistoryReadLink, HistoryWriteLink DEF HistoryStep
<1>6. CASE \E r \in Runners : RunnerDies(r)
  BY <1>6, OthersLink
<1> QED
  BY <1>1, <1>2, <1>3, <1>4, <1>5, <1>6 DEF Next

(* What a runner of the history backfill has read of a row, with what the  *)
(* simulator has recorded of it since, is a history of the row as it is    *)
(* now, in every reachable state: for any number of runners without a      *)
(* lock, and any number of crashes.                                        *)
THEOREM LinkInvariance == Spec => []LinkOK
<1>1. Inv /\ SimOK /\ LinkOK /\ [Next]_vars => LinkOK'
  BY StepLink, OthersLink
<1> QED
  BY <1>1, InitLink, Invariance, SimInvariance, PTL DEF Spec

(* Histories are whole: whatever the seed, the releases and the runners,   *)
(* the history of a row enters no state twice, every inferred event and    *)
(* every event after one continues an earlier one, and it ends in the      *)
(* row's current state if the row is consistent: for all rows that no      *)
(* simulator older than the schema wrote.                                  *)
THEOREM HistoryIsLinked == Spec => []HistoryLinked
<1>1. ASSUME Inv, LinkOK, NEW k \in Keys \ late
      PROVE  /\ \A e, f \in HistoryOf(k) : e.to = f.to => e = f
             /\ \A e \in HistoryOf(k) : e.from # "none" =>
                    \/ \E f \in HistoryOf(k) : f.to = e.from /\ f.at.day <= e.at.day
                    \/ \A f \in HistoryOf(k) : f.source = "simulator"
             /\ HistoryOf(k) # {} /\ Consistent(kind, rows[k].data) =>
                    \E e \in HistoryOf(k) : e.to = Status(kind, rows[k].data)
  <2>1. HistoryOf(k) = By("inferred", k) \cup By("simulator", k) /\ KeyOK(k)
    BY <1>1 DEF LinkOK, By, HistoryOf
  <2>2. CASE By("inferred", k) = {}
    <3>1. \A f \in HistoryOf(k) : f.source = "simulator"
      BY <2>1, <2>2 DEF By
    <3>2. HistoryOf(k) # {} => Tracks(kind, HistoryOf(k), rows[k])
      BY <2>1, <2>2 DEF KeyOK
    <3> QED
      BY <3>1, <3>2 DEF Tracks
  <2>3. CASE By("inferred", k) # {}
    <3>1. Tracks(kind, HistoryOf(k), rows[k]) /\ Follow(HistoryOf(k))
      BY <2>1, <2>3 DEF KeyOK
    <3> QED
      BY <3>1 DEF Tracks, Follow
  <2> QED
    BY <2>2, <2>3
<1>2. Inv /\ LinkOK => HistoryLinked
  BY <1>1 DEF HistoryLinked
<1> QED
  BY <1>2, Invariance, LinkInvariance, PTL

----------------------------------------------------------------------------
(* What the upgrade waits for comes, as far as states go: the lock has a   *)
(* holder that works, and no batch is refused.                             *)

LockHeld == lock # Free => lock \in AuditRunners /\ runner[lock].pc \in {"locked", "read", "ran"}

AdmittedOK ==
    /\ Admitted(kind, history)
    /\ \A r \in HistoryRunners : Admitted(kind, runner[r].events)

Unblocked ==
    /\ LockHeld
    /\ \A r \in HistoryRunners : InTransaction(r) =>
           \A e \in runner[r].events : <<e.from, e.to>> \in Transitions(kind)
    /\ progress["audit"].completed =>
           \/ PendingSucceed(rows)
           \/ \E k \in Keys : \/ k \in late /\ ~rows[k].audit
                              \/ ~Ordered(kind, rows[k].data) /\ FromSeed(kind, k, rows[k])

(* Audit runners stay out of the history table and its events.             *)
LEMMA AdmittedFrame ==
    ASSUME AdmittedOK, UNCHANGED <<kind, history>>,
           \A r \in HistoryRunners : runner'[r] = runner[r] \/ runner'[r].events = {}
    PROVE  AdmittedOK'
<1>1. \A r \in HistoryRunners : Admitted(kind, runner'[r].events)
  BY DEF AdmittedOK, Admitted
<1> QED
  BY <1>1 DEF AdmittedOK, Admitted

LEMMA RunnerUpdate ==
    ASSUME Inv, NEW r \in Runners, NEW v, runner' = [runner EXCEPT ![r] = v]
    PROVE  runner'[r] = v /\ \A q \in Runners : q # r => runner'[q] = runner[q]
BY DEF Inv, Shape

LEMMA RecordedAdmitted ==
    ASSUME Admitted(kind, history), NEW key, NEW from, NEW to, NEW at, <<from, to>> \in Transitions(kind)
    PROVE  Admitted(kind, Recorded(key, from, to, at))
<1>1. PICK e : e = Entry(key, from, to, at, "simulator")
  OBVIOUS
<1>2. e.from = from /\ e.to = to
  BY <1>1 DEF Entry
<1>3. Recorded(key, from, to, at) \in {history, history \cup {e}}
  BY <1>1 DEF Recorded
<1> QED
  BY <1>2, <1>3 DEF Admitted

LEMMA InsertAdmitted ==
    ASSUME Inv, AdmittedOK, Insert PROVE AdmittedOK'
<1>1. /\ UNCHANGED <<kind, runner>> /\ kind \in RowKinds
      /\ history' = Recorded(Len(rows) + 1, "none", Status(kind, NewRow), Timestamp(SimDay, 0))
  BY DEF Insert, Inv, Shape
<1>2. <<"none", Status(kind, NewRow)>> \in Transitions(kind)
  BY <1>1, RowKindsCases DEF NewRow, Status, Transitions
<1>3. Admitted(kind, history')
  BY <1>1, <1>2, RecordedAdmitted DEF AdmittedOK
<1> QED
  BY <1>1, <1>3 DEF AdmittedOK

LEMMA MoveAdmitted ==
    ASSUME Inv, AdmittedOK, NEW k \in Keys, Move(k) PROVE AdmittedOK'
<1>1. PICK r, s, t, at : /\ r = rows[k].data /\ s = Status(kind, r) /\ t = Status(kind, Moved(r))
                         /\ history' = Recorded(k, s, t, at)
  BY DEF Move
<1>2. UNCHANGED <<kind, runner>> /\ kind \in RowKinds /\ Moved(r) # r
  BY <1>1 DEF Move, Inv, Shape
<1>3. r \in RowOf(kind)
  BY <1>1, KeysFacts DEF Inv, Shape, Rows
<1>4. <<s, t>> \in Transitions(kind)
  BY <1>1, <1>2, <1>3, MovedStatus
<1>5. Admitted(kind, history')
  BY <1>1, <1>4, RecordedAdmitted DEF AdmittedOK
<1> QED
  BY <1>2, <1>5 DEF AdmittedOK

LEMMA HistoryReadAdmitted ==
    ASSUME Inv, LinkOK, AdmittedOK, NEW r \in HistoryRunners, HistoryRead(r) PROVE AdmittedOK'
<1>1. PICK keys, events : keys = Candidates(progress["history"].last) /\ events = Built(keys)
  OBVIOUS
<1>2. /\ UNCHANGED <<kind, history>> /\ kind \in RowKinds
      /\ runner' = [runner EXCEPT ![r] = [pc |-> "read", keys |-> keys, events |-> events]]
      /\ HasHistory
  BY <1>1 DEF HistoryRead, Inv, Shape
<1>3. keys \subseteq Keys
  <2>1. PICK S : S = {k \in Keys : k > progress["history"].last /\ HistoryOf(k) = {}}
    OBVIOUS
  <2>2. keys \subseteq S
    BY <1>1, <2>1 DEF Candidates, FirstOf
  <2> QED
    BY <2>1, <2>2
<1>4. events = UNION {InferredOf(kind, k, rows[k].data) : k \in keys}
  BY <1>1, Zenon DEF Built, InferredOf
<1>5. ASSUME NEW k \in keys PROVE Admitted(kind, InferredOf(kind, k, rows[k].data))
  <2>1. PICK row : row = rows[k]
    OBVIOUS
  <2>2. row.data \in RowOf(kind) /\ (row.own => OwnRow(kind, row.data))
    BY <1>3, <2>1, KeysFacts DEF Inv, Shape, Rows
  <2>3. Filled(kind, row.data) /\ Ordered(kind, row.data)
    BY <1>2, <1>3, <2>1, EnforcedFacts DEF Inv, LinkOK
  <2> QED
    BY <1>2, <2>1, <2>2, <2>3, InferredTracks
<1>6. Admitted(kind, events)
  BY <1>4, <1>5 DEF Admitted
<1>7. runner'[r].events = events /\ \A q \in HistoryRunners : q # r => runner'[q] = runner[q]
  <2>1. PICK v : v = [pc |-> "read", keys |-> keys, events |-> events]
    OBVIOUS
  <2>2. runner'[r] = v /\ \A q \in Runners : q # r => runner'[q] = runner[q]
    BY <1>2, <2>1, RunnerUpdate, Apart
  <2> QED
    BY <2>1, <2>2, Apart
<1>8. \A q \in HistoryRunners : Admitted(kind, runner'[q].events)
  BY <1>6, <1>7 DEF AdmittedOK
<1> QED
  BY <1>2, <1>8 DEF AdmittedOK

LEMMA HistoryWriteAdmitted ==
    ASSUME Inv, AdmittedOK, NEW r \in HistoryRunners, HistoryWrite(r) PROVE AdmittedOK'
<1>1. kind' = kind /\ history' \subseteq history \cup runner[r].events /\ runner' = [runner EXCEPT ![r] = Idle]
  BY DEF HistoryWrite
<1>2. Admitted(kind, history')
  BY <1>1 DEF AdmittedOK, Admitted
<1>3. runner'[r].events = {} /\ \A q \in HistoryRunners : q # r => runner'[q] = runner[q]
  <2>1. runner'[r] = Idle /\ \A q \in Runners : q # r => runner'[q] = runner[q]
    BY <1>1, RunnerUpdate, Apart
  <2> QED
    BY <2>1, Apart DEF Idle
<1>4. \A q \in HistoryRunners : Admitted(kind, runner'[q].events)
  BY <1>3 DEF AdmittedOK, Admitted
<1> QED
  BY <1>1, <1>2, <1>4 DEF AdmittedOK

LEMMA OthersAdmitted ==
    ASSUME Inv, AdmittedOK,
           \/ Deploy \/ Migrate \/ Load \/ Up \/ Probe
           \/ \E r \in AuditRunners : AuditStep(r)
           \/ \E r \in Runners : RunnerDies(r)
           \/ UNCHANGED vars
    PROVE  AdmittedOK'
<1>1. CASE Deploy \/ Migrate \/ Load \/ Up \/ Probe \/ UNCHANGED vars
  <2>1. UNCHANGED <<kind, history, runner>>
    BY <1>1 DEF Deploy, Migrate, Load, Up, Probe, vars
  <2> QED
    BY <2>1, AdmittedFrame
<1>2. CASE \E r \in AuditRunners : AuditStep(r)
  <2>1. PICK r \in AuditRunners : AuditStep(r)
    BY <1>2
  <2>2. UNCHANGED <<kind, history>> /\ \E v : runner' = [runner EXCEPT ![r] = v]
    <3>1. CASE AuditRun(r)
      BY <3>1 DEF AuditRun
    <3>2. CASE AuditRead(r)
      BY <3>2 DEF AuditRead
    <3>3. CASE AuditWrite(r)
      BY <3>3 DEF AuditWrite
    <3>4. CASE AuditUnlock(r)
      BY <3>4 DEF AuditUnlock
    <3> QED
      BY <2>1, <3>1, <3>2, <3>3, <3>4 DEF AuditStep
  <2>3. \A q \in HistoryRunners : runner'[q] = runner[q]
    BY <2>1, <2>2, RunnerUpdate, Apart
  <2> QED
    BY <2>2, <2>3, AdmittedFrame
<1>3. CASE \E r \in Runners : RunnerDies(r)
  <2>1. PICK r \in Runners : RunnerDies(r)
    BY <1>3
  <2>2. UNCHANGED <<kind, history>> /\ runner' = [runner EXCEPT ![r] = Idle]
    BY <2>1 DEF RunnerDies
  <2>3. \A q \in HistoryRunners : runner'[q] = runner[q] \/ runner'[q].events = {}
    BY <2>1, <2>2, RunnerUpdate, Apart DEF Idle
  <2> QED
    BY <2>2, <2>3, AdmittedFrame
<1> QED
  BY <1>1, <1>2, <1>3

LEMMA StepAdmitted ==
    ASSUME Inv, LinkOK, AdmittedOK, [Next]_vars PROVE AdmittedOK'
<1>1. CASE Deploy \/ Migrate \/ Load \/ Up \/ Probe \/ UNCHANGED vars
  BY <1>1, OthersAdmitted
<1>2. CASE Insert
  BY <1>2, InsertAdmitted
<1>3. CASE \E k \in Keys : Move(k)
  BY <1>3, MoveAdmitted
<1>4. CASE \E r \in AuditRunners : AuditStep(r)
  BY <1>4, OthersAdmitted
<1>5. CASE \E r \in HistoryRunners : HistoryStep(r)
  BY <1>5, HistoryReadAdmitted, HistoryWriteAdmitted DEF HistoryStep
<1>6. CASE \E r \in Runners : RunnerDies(r)
  BY <1>6, OthersAdmitted
<1> QED
  BY <1>1, <1>2, <1>3, <1>4, <1>5, <1>6 DEF Next

(* Whoever takes a step, the lock is taken by a runner that begins and     *)
(* given back by one that ends.                                            *)
LEMMA StepLock ==
    ASSUME Inv, LockHeld, [Next]_vars PROVE LockHeld'
<1>1. CASE Deploy \/ Migrate \/ Load \/ Up \/ Probe \/ Insert \/ UNCHANGED vars \/ \E k \in Keys : Move(k)
  <2>1. UNCHANGED <<lock, runner>>
    BY <1>1 DEF Deploy, Migrate, Load, Up, Probe, Insert, Move, vars
  <2> QED
    BY <2>1 DEF LockHeld
<1>2. CASE \E r \in AuditRunners : AuditStep(r)
  <2>1. PICK r \in AuditRunners : AuditStep(r)
    BY <1>2
  <2>2. r \in Runners /\ DOMAIN runner = Runners /\ (runner[r].pc # "idle" => lock = r)
    BY Apart DEF Inv, Shape, AuditOK
  <2>3. CASE AuditRun(r)
    <3>1. lock' = r /\ runner' = [runner EXCEPT ![r].pc = "locked"]
      BY <2>3 DEF AuditRun
    <3>2. runner'[r].pc = "locked"
      <4>1. runner[r] = [pc |-> runner[r].pc, keys |-> runner[r].keys, events |-> runner[r].events]
        BY <2>2 DEF Inv, Shape
      <4> QED
        BY <2>2, <3>1, <4>1
    <3> QED
      BY <3>1, <3>2 DEF LockHeld
  <2>4. CASE AuditRead(r)
    <3>1. lock' = lock /\ lock = r
      BY <2>2, <2>4 DEF AuditRead
    <3>2. runner'[r].pc \in {"ran", "read"}
      <4>1. PICK keys : keys = AuditKeys(progress["audit"].last)
        OBVIOUS
      <4>2. PICK v : v = IF progress["audit"].completed THEN [Idle EXCEPT !.pc = "ran"]
                         ELSE [Idle EXCEPT !.pc = "read", !.keys = keys]
        OBVIOUS
      <4>3. runner' = [runner EXCEPT ![r] = v]
        BY <2>4, <4>1, <4>2 DEF AuditRead
      <4>4. v = [Idle EXCEPT !.pc = "ran"] \/ v = [Idle EXCEPT !.pc = "read", !.keys = keys]
        BY <4>2
      <4>5. v.pc \in {"ran", "read"}
        BY <4>4 DEF Idle
      <4> QED
        BY <2>2, <4>3, <4>5
    <3> QED
      BY <3>1, <3>2 DEF LockHeld
  <2>5. CASE AuditWrite(r)
    <3>1. lock' = lock /\ lock = r /\ runner' = [runner EXCEPT ![r] = [Idle EXCEPT !.pc = "ran"]]
      BY <2>2, <2>5 DEF AuditWrite, InTransaction
    <3>2. runner'[r].pc = "ran"
      BY <2>2, <3>1 DEF Idle
    <3> QED
      BY <3>1, <3>2 DEF LockHeld
  <2>6. CASE AuditUnlock(r)
    BY <2>6 DEF AuditUnlock, LockHeld
  <2> QED
    BY <2>1, <2>3, <2>4, <2>5, <2>6 DEF AuditStep
<1>3. CASE \E r \in HistoryRunners : HistoryStep(r)
  <2>1. PICK r \in HistoryRunners : HistoryStep(r)
    BY <1>3
  <2>2. lock' = lock /\ \E v : runner' = [runner EXCEPT ![r] = v]
    BY <2>1 DEF HistoryStep, HistoryRead, HistoryWrite
  <2>3. \A q \in AuditRunners : runner'[q] = runner[q]
    BY <2>1, <2>2, RunnerUpdate, Apart
  <2> QED
    BY <2>2, <2>3 DEF LockHeld
<1>4. CASE \E r \in Runners : RunnerDies(r)
  <2>1. PICK r \in Runners : RunnerDies(r)
    BY <1>4
  <2>2. runner' = [runner EXCEPT ![r] = Idle] /\ lock' = IF lock = r THEN Free ELSE lock
    BY <2>1 DEF RunnerDies
  <2>3. \A q \in AuditRunners : q # r => runner'[q] = runner[q]
    BY <2>1, <2>2, RunnerUpdate, Apart
  <2> QED
    BY <2>2, <2>3 DEF LockHeld
<1> QED
  BY <1>1, <1>2, <1>3, <1>4 DEF Next

LEMMA InitUnblocked == Init => LockHeld /\ AdmittedOK
<1> SUFFICES ASSUME Init PROVE LockHeld /\ AdmittedOK
  OBVIOUS
<1>1. lock = Free /\ history = {} /\ runner = [r \in Runners |-> Idle]
  BY DEF Init
<1>2. \A r \in HistoryRunners : runner[r].events = {}
  BY <1>1, Apart DEF Idle
<1> QED
  BY <1>1, <1>2 DEF LockHeld, AdmittedOK, Admitted

(* The upgrade is stuck for no reason of its own: the advisory lock is     *)
(* free or held by a runner that has not returned; the CHECK constraints   *)
(* of the history tables refuse no batch that a runner has built from      *)
(* admissible rows; and if the enforcing migration is refused although the *)
(* audit backfill reports completion, then for a row that a simulator      *)
(* older than the timestamps inserted, or for one that still is what the   *)
(* seed file said, with its timestamps reversed: no step of the upgrade    *)
(* reverses any.  What is left to the fairness of UpgradeCompletes is that *)
(* the steps are taken.                                                    *)
THEOREM NeverStuck == Spec => []Unblocked
<1>1. Inv /\ LockHeld /\ [Next]_vars => LockHeld'
  BY StepLock
<1>2. Inv /\ LinkOK /\ AdmittedOK /\ [Next]_vars => AdmittedOK'
  BY StepAdmitted
<1>3. Inv /\ LinkOK /\ LockHeld /\ AdmittedOK => Unblocked
  <2> SUFFICES ASSUME Inv, LinkOK, LockHeld, AdmittedOK PROVE Unblocked
    OBVIOUS
  <2>1. ASSUME progress["audit"].completed, ~PendingSucceed(rows)
        PROVE  \E k \in Keys : \/ k \in late /\ ~rows[k].audit
                               \/ ~Ordered(kind, rows[k].data) /\ FromSeed(kind, k, rows[k])
    <3>1. PICK k \in Keys : ~rows[k].audit \/ ~Ordered(kind, rows[k].data)
      BY <2>1 DEF PendingSucceed, Keys
    <3>2. k \notin late => rows[k].audit
      BY <2>1 DEF Inv, AuditOK, AuditCheckpointTrue
    <3>3. Ordered(kind, rows[k].data) \/ FromSeed(kind, k, rows[k])
      BY DEF LinkOK, Stamped
    <3> QED
      BY <3>1, <3>2, <3>3
  <2> QED
    BY <2>1 DEF Unblocked, AdmittedOK, Admitted
<1> QED
  BY <1>1, <1>2, <1>3, InitUnblocked, Invariance, LinkInvariance, PTL DEF Spec
=============================================================================
