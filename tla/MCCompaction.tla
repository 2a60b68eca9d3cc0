---------------------------- MODULE MCCompaction ----------------------------
(* A seeded record with a version in every partition, and one that the     *)
(* first partition creates, the second does not mention and the third      *)
(* changes: a base merged from three dates differs from what two           *)
(* partitions over an older base give.                                     *)
EXTENDS Compaction, TLC

CONSTANTS a, b

TwoDates == <<{a, b}, {a}>>
ThreeDates == <<{a, b}, {a}, {a, b}>>
=============================================================================
