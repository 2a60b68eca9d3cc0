----------------------------- MODULE MCDailyRun -----------------------------
(* Instances of DailyRun for TLC.                                          *)
EXTENDS DailyRun, Sequences

Item(kind, parent, delay, d, create) ==
    [kind |-> kind, parent |-> parent, delay |-> delay, day |-> d, create |-> create]
New(kind, d) == Item(kind, 0, 0, d, TRUE)
Won(d)       == Item("opportunities", 0, 0, d, FALSE)
Then(kind, parent, delay) == Item(kind, parent, delay, 0, FALSE)

\* two deals won on day 1, on their way to an order, a shipment, an invoice,
\* a delivery, a support case and a ledger posting
ItemTable == <<
    New("accounts", 1), New("opportunities", 1), Won(1), Won(1),
    New("accounts", 2), New("opportunities", 2),
    New("accounts", 3), New("opportunities", 3),
    New("accounts", 4), New("opportunities", 4),
    New("accounts", 5), New("opportunities", 5),
    Then("order", 3, 1), Then("order", 4, 1),
    Then("shipment", 13, 1), Then("shipment", 14, 1),
    Then("invoice", 15, 0), Then("invoice", 16, 0),
    Then("delivery", 15, 1), Then("delivery", 16, 1),
    Then("case", 19, 1), Then("case", 20, 1),
    Then("posting", 17, 1), Then("posting", 18, 1)>>

MCItems   == DOMAIN ItemTable
MCKind    == [i \in MCItems |-> ItemTable[i].kind]
MCParent  == [i \in MCItems |-> ItemTable[i].parent]
MCDelay   == [i \in MCItems |-> ItemTable[i].delay]
MCCrmDay  == [i \in MCItems |-> ItemTable[i].day]
MCCreates == {i \in MCItems : ItemTable[i].create}

AllSteps == {"claim", "claim_sources", "plan", "record", "publish", "write",
             "manifest", "apply", "mark", "reconcile", "complete", "advance"}
=============================================================================
