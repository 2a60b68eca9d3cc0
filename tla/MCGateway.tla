----------------------------- MODULE MCGateway -----------------------------
EXTENDS Gateway

CONSTANTS q1, q2, q3, admin

(* Three queries that compete for two slots, and a request of the operator  *)
(* in the lightweight pool.                                                *)
MCKind == [r \in Requests |-> IF r = admin THEN "lightweight" ELSE "query"]
MCOp == [r \in Requests |-> IF r = admin THEN {"limit", "outage", "reset"} ELSE {"data"}]
MCWorkers == [kind \in Kinds |-> IF kind = "query" THEN 2 ELSE 1]
=============================================================================
