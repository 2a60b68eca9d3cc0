------------------------------ MODULE Dataset ------------------------------
(***************************************************************************)
(* What the file layout of a CRM object promises, whatever partitions,     *)
(* merged files and compactions are behind it: one current row per record, *)
(* and the publication of a business date as the only thing that changes   *)
(* it.  Compaction is shown to implement this specification.               *)
(*                                                                         *)
(* A row is the set of publications that made it: 0 for the seed, then the *)
(* dates whose events were applied to it.  The empty set is no row.        *)
(***************************************************************************)
EXTENDS Integers

CONSTANTS
    Ids,        \* record ids of one object
    SeedIds,    \* those the generator wrote into the seed
    LastDate,   \* bound on the business dates that are published
    Changed     \* Changed[d]: the ids that have an event on date d

Dates == 1..LastDate

VARIABLES published,  \* the last date whose partition is visible
          latest      \* latest[i]: the current row of i

(* The rows after the first n dates.                                       *)
Current(n) == [i \in Ids |-> {d \in 1..n : i \in Changed[d]}
                                 \cup (IF i \in SeedIds THEN {0} ELSE {})]

Init == published = 0 /\ latest = Current(0)

Publish ==
    /\ published < LastDate
    /\ published' = published + 1
    /\ latest' = [i \in Ids |-> IF i \in Changed[published + 1]
                                THEN latest[i] \cup {published + 1}
                                ELSE latest[i]]

Next == Publish

Spec == Init /\ [][Next]_<<published, latest>>
=============================================================================
