---------------------------- MODULE MCBulkQuery ----------------------------
(* Instances of BulkQuery for TLC.                                         *)
EXTENDS BulkQuery

StableData   == {{1, 2, 3}}
ChangingData == {{1, 2, 3}, {2, 3}}
GrowingData  == {{2, 3, 4}, {1, 2, 3, 4}}
TiedKeys     == [r \in Rows |-> 1]
=============================================================================
