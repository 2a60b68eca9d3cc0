-------------------------- MODULE HistoryInference --------------------------
(***************************************************************************)
(* What the inferred-baseline backfill derives from one current-state row  *)
(* of an Ops table: the status events that must have led to it.            *)
(*                                                                         *)
(* Abstractions.  A point in time is a business date and an hour of it; a  *)
(* DATE column has no hour.  A row has the columns the candidate query     *)
(* selects, without the identifiers and the SLA due dates, which nothing   *)
(* but the SLA columns depend on.                                          *)
(***************************************************************************)
EXTENDS Integers, Sequences

CONSTANT HoursPerDay

ASSUME HoursAssumption == HoursPerDay \in Nat \ {0}

Kinds == {"order", "shipment", "invoice", "case"}

Timestamp(d, h) == [day |-> d, hour |-> h, whole |-> FALSE]
Date(d)         == [day |-> d, hour |-> 0, whole |-> TRUE]
Null            == Date(-1)

_is_date(value) == value # Null

(* To the hour if both have one, by business date otherwise.               *)
_is_not_before(later, earlier) ==
    \/ later.day > earlier.day
    \/ later.day = earlier.day /\ (later.whole \/ earlier.whole \/ later.hour >= earlier.hour)

(* The two floors one after the other.                                     *)
_clamp_not_before(value, first, second) ==
    LET once == IF _is_not_before(value, first) THEN value ELSE first
    IN  IF _is_not_before(once, second) THEN once ELSE second

AddHours(t, n) == Timestamp(t.day + (t.hour + n) \div HoursPerDay, (t.hour + n) % HoursPerDay)

Event(from, to, at) == [from |-> from, to |-> to, at |-> at]
Inferred(events, invalid) == [events |-> events, invalid |-> invalid]

-----------------------------------------------------------------------------
(* A current state of SHIPPED or INVOICED proves the shipment, also when   *)
(* its row is missing or dated before the order.                           *)
_infer_order(r) ==
    LET shipped  == \/ r.status \in {"SHIPPED", "INVOICED"}
                    \/ r.status = "CANCELLED" /\ _is_date(r.ship)
        shipped_at == IF _is_date(r.ship) /\ _is_not_before(r.ship, r.created)
                      THEN r.ship ELSE r.created
        start    == <<Event("none", "PENDING", r.created)>>
        onTheWay == IF shipped THEN Append(start, Event("PENDING", "SHIPPED", shipped_at)) ELSE start
        before   == IF shipped THEN shipped_at ELSE r.created
        terminal == IF /\ r.status = "INVOICED" /\ _is_date(r.invoice)
                       /\ _is_not_before(r.invoice, shipped_at)
                    THEN r.invoice ELSE r.updated
        last     == Event(IF shipped THEN "SHIPPED" ELSE "PENDING", r.status,
                          _clamp_not_before(terminal, before, r.created))
    IN  CASE ~_is_date(r.created) -> Inferred(<<>>, TRUE)
          [] _is_date(r.created) /\ r.status \in {"PENDING", "SHIPPED"} -> Inferred(onTheWay, FALSE)
          [] OTHER -> IF _is_date(terminal) THEN Inferred(Append(onTheWay, last), FALSE)
                                            ELSE Inferred(onTheWay, TRUE)

_infer_shipment(r) ==
    LET start == <<Event("none", "SHIPPED", r.ship)>>
    IN  CASE ~_is_date(r.ship) -> Inferred(<<>>, TRUE)
          [] _is_date(r.ship) /\ r.delivered = Null -> Inferred(start, FALSE)
          [] OTHER -> IF _is_not_before(r.delivered, r.ship)
                      THEN Inferred(Append(start, Event("SHIPPED", "DELIVERED", r.delivered)), FALSE)
                      ELSE Inferred(start, TRUE)

_infer_invoice(r) ==
    LET start == <<Event("none", "ISSUED", r.created)>>
    IN  CASE ~_is_date(r.created) -> Inferred(<<>>, TRUE)
          [] _is_date(r.created) /\ r.status # "VOID" -> Inferred(start, FALSE)
          [] OTHER -> IF _is_date(r.updated) /\ _is_not_before(r.updated, r.created)
                      THEN Inferred(Append(start, Event("ISSUED", "VOID", r.updated)), FALSE)
                      ELSE Inferred(start, TRUE)

(* resolution_hours is -1 where the column is NULL.  An update before the  *)
(* resolution makes the row invalid, no update only a closed one.          *)
_infer_support_case(r) ==
    LET start    == <<Event("none", "Open", r.opened)>>
        resolved == AddHours(r.opened, r.resolution_hours)
        ended    == Append(start, Event("Open", "Resolved", resolved))
    IN  CASE ~_is_date(r.opened) -> Inferred(<<>>, TRUE)
          [] _is_date(r.opened) /\ r.status = "Open" -> Inferred(start, FALSE)
          [] OTHER ->
               CASE \/ r.resolution_hours < 0
                    \/ _is_date(r.updated) /\ ~_is_not_before(r.updated, resolved)
                                         -> Inferred(start, TRUE)
                 [] r.resolution_hours >= 0 /\ ~_is_date(r.updated)
                                         -> Inferred(ended, r.status = "Closed")
                 [] OTHER -> Inferred(IF r.status = "Closed"
                                      THEN Append(ended, Event("Resolved", "Closed", r.updated))
                                      ELSE ended, FALSE)

_infer(kind, r) ==
    CASE kind = "order"    -> _infer_order(r)
      [] kind = "shipment" -> _infer_shipment(r)
      [] kind = "invoice"  -> _infer_invoice(r)
      [] kind = "case"     -> _infer_support_case(r)

(* The CHECK constraints of the history tables.                            *)
Transitions(kind) ==
    CASE kind = "order"    -> {<<"none", "PENDING">>, <<"PENDING", "SHIPPED">>, <<"PENDING", "CANCELLED">>,
                               <<"SHIPPED", "INVOICED">>, <<"SHIPPED", "CANCELLED">>}
      [] kind = "shipment" -> {<<"none", "SHIPPED">>, <<"SHIPPED", "DELIVERED">>}
      [] kind = "invoice"  -> {<<"none", "ISSUED">>, <<"ISSUED", "VOID">>}
      [] kind = "case"     -> {<<"none", "Open">>, <<"Open", "Resolved">>, <<"Resolved", "Closed">>}
=============================================================================
