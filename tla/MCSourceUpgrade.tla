--------------------------- MODULE MCSourceUpgrade ---------------------------
(* Instance of SourceUpgrade for TLC.                                      *)
EXTENDS SourceUpgrade

\* the first release, the one with the backfill, one with a file edited after
\* it was applied, and the current one
StagedCheckouts == <<
    <<"s1">>, <<"s1", "s2", "s3">>, <<"s1", "edited", "s3", "s4">>,
    <<"s1", "s2", "s3", "s4", "s5", "s6", "s7", "s8">>>>

Order(status, ship, invoice, updated) ==
    [status |-> status, created |-> Timestamp(1, 1), ship |-> ship, invoice |-> invoice,
     updated |-> updated]
Case(status, hours, updated) ==
    [status |-> status, opened |-> Timestamp(1, 1), resolution_hours |-> hours, updated |-> updated]
Invoice(status, updated) ==
    [status |-> status, created |-> Timestamp(1, 1), updated |-> updated]

\* shipped on the day of the order, before it, or without a shipment row;
\* invoiced before it was shipped; voided, also before it was issued;
\* resolved over midnight or with no hours, or updated before it was resolved
OrderSeeds == {
    <<Order("INVOICED", Date(1), Timestamp(1, 0), Timestamp(1, 1))>>,
    <<Order("CANCELLED", Date(2), Null, Timestamp(1, 1)),
      Order("INVOICED", Date(0), Timestamp(3, 0), Timestamp(2, 0))>>,
    <<Order("SHIPPED", Null, Null, Timestamp(2, 0)),
      Order("CANCELLED", Null, Null, Timestamp(2, 0))>>}
ShipmentSeeds == {<<[ship |-> Date(1), delivered |-> Date(1)]>>,
                  <<[ship |-> Date(1), delivered |-> Date(1)], [ship |-> Date(1), delivered |-> Null]>>}
InvoiceSeeds == {<<>>, <<Invoice("VOID", Null)>>, <<Invoice("VOID", Timestamp(1, 0))>>}
CaseSeeds == {<<Case("Closed", 2, Null), Case("Open", -1, Null)>>,
              <<Case("Resolved", -1, Null), Case("Resolved", 1, Null)>>,
              <<Case("Closed", 2, Timestamp(1, 1))>>}

StagedSeeds == [k \in RowKinds |-> CASE k = "order" -> OrderSeeds [] k = "shipment" -> ShipmentSeeds
                                  [] k = "invoice" -> InvoiceSeeds [] k = "case" -> CaseSeeds]
=============================================================================
