------------------------------- MODULE Lists -------------------------------
(***************************************************************************)
(* A Python list comprehension with a condition, without recursion, so     *)
(* that its result can be reasoned about.                                  *)
(***************************************************************************)
EXTENDS Integers, FiniteSets

(* The n-th smallest of a set of numbers.                                  *)
Nth(S, n) == CHOOSE k \in S : Cardinality({m \in S : m <= k}) = n

(* [x for x in list if ...]: what is at the given positions, in order.     *)
Kept(list, positions) == [n \in 1..Cardinality(positions) |-> list[Nth(positions, n)]]
=============================================================================
