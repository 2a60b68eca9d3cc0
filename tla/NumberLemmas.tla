---------------------------- MODULE NumberLemmas ----------------------------
(***************************************************************************)
(* Facts about sets of natural numbers that the proofs of several          *)
(* components rest on: least and greatest elements exist, and what Min and *)
(* Max of FiniteSetsExt choose.                                            *)
(***************************************************************************)
EXTENDS Integers, FiniteSetsExt, Lists, FiniteSetTheorems, WellFoundedInduction, TLAPS

(* Every non-empty set of numbers has an element without a predecessor in  *)
(* a well-founded relation.                                                *)
LEMMA MinimalElement ==
    ASSUME NEW R, IsWellFoundedOn(R, Nat), NEW S, S \subseteq Nat, S # {}
    PROVE  \E x \in S : \A y \in S : ~(<<y, x>> \in R)
BY WFMin

(* Every non-empty set of natural numbers has a least element.             *)
LEMMA LeastExists ==
    ASSUME NEW S, S \subseteq Nat, S # {}
    PROVE  \E x \in S : \A y \in S : x <= y
<1>1. \E x \in S : \A y \in S : ~(<<y, x>> \in OpToRel(<, Nat))
  BY MinimalElement, NatLessThanWellFounded
<1>2. \A x, y \in Nat : x < y => <<x, y>> \in OpToRel(<, Nat)
  BY DEF OpToRel
<1>3. PICK x \in S : \A y \in S : ~(y < x)
  BY <1>1, <1>2
<1> QED
  BY <1>3

(* Every non-empty set of numbers up to n has a greatest element.          *)
LEMMA GreatestExists ==
    ASSUME NEW n \in Nat, NEW S, S \subseteq 0..n, S # {}
    PROVE  \E x \in S : \A y \in S : y <= x
<1> DEFINE M == {n - x : x \in S}
<1>1. M \subseteq Nat
  <2>1. \A x \in S : x \in 0..n
    OBVIOUS
  <2>2. \A x \in S : n - x \in Nat
    BY <2>1
  <2> QED
    BY <2>2
<1>2. M # {}
  OBVIOUS
<1>3. \A y \in S : n - y \in M
  OBVIOUS
<1>4. \A m \in M : \E x \in S : m = n - x
  OBVIOUS
<1> HIDE DEF M
<1>5. PICK m \in M : \A y \in M : m <= y
  BY <1>1, <1>2, LeastExists
<1>6. PICK x \in S : m = n - x
  BY <1>4
<1> QED
  BY <1>3, <1>5, <1>6

(* Every non-empty finite set of numbers has a greatest element: an        *)
(* enumeration of it is bounded up to every index.                         *)
LEMMA GreatestOfFinite ==
    ASSUME NEW S, S \subseteq Nat, S # {}, IsFiniteSet(S)
    PROVE  \E x \in S : \A y \in S : y <= x
<1>1. PICK n \in Nat : ExistsSurjection(1..n, S)
  BY FS_NatSurjection
<1>2. PICK f : f \in [1..n -> S] /\ \A t \in S : \E j \in 1..n : f[j] = t
  BY <1>1 DEF ExistsSurjection, Surjection
<1>3. \A j \in 1..n : f[j] \in Nat
  BY <1>2
<1> DEFINE Unbounded == {k \in 0..n : ~\E b \in Nat : \A j \in 1..k : f[j] <= b}
<1>4. Unbounded \subseteq 0..n /\ Unbounded \subseteq Nat
  OBVIOUS
<1>5. \A k \in 0..n : k \notin Unbounded => \E b \in Nat : \A j \in 1..k : f[j] <= b
  OBVIOUS
<1>6. \A k \in 0..n : (\E b \in Nat : \A j \in 1..k : f[j] <= b) => k \notin Unbounded
  OBVIOUS
<1> HIDE DEF Unbounded
<1>7. Unbounded = {}
  <2>1. SUFFICES ASSUME Unbounded # {} PROVE FALSE
    OBVIOUS
  <2>2. PICK k \in Unbounded : \A m \in Unbounded : k <= m
    BY <1>4, <2>1, LeastExists
  <2>3. 0 \notin Unbounded
    <3>1. \A j \in 1..0 : f[j] <= 0
      OBVIOUS
    <3> QED
      BY <1>6, <3>1
  <2>4. k \in 1..n /\ k - 1 \in 0..n
    BY <1>4, <2>3
  <2>5. k - 1 \notin Unbounded
    BY <2>2, <2>4
  <2>6. PICK b \in Nat : \A j \in 1..k - 1 : f[j] <= b
    BY <1>5, <2>4, <2>5
  <2>7. b + f[k] \in Nat /\ \A j \in 1..k : f[j] <= b + f[k]
    <3>1. \A j \in 1..k : j \in 1..n /\ (j = k \/ j \in 1..k - 1)
      BY <2>4
    <3> QED
      BY <1>3, <2>4, <2>6, <3>1
  <2> QED
    BY <1>6, <2>4, <2>7
<1>8. PICK b \in Nat : \A j \in 1..n : f[j] <= b
  <2>1. n \in 0..n /\ n \notin Unbounded
    BY <1>7
  <2> QED
    BY <1>5, <2>1
<1>9. \A t \in S : t \in 0..b
  BY <1>2, <1>8
<1> QED
  BY <1>9, GreatestExists

(* The values of a function on a finite set are finitely many.             *)
LEMMA FiniteImage ==
    ASSUME NEW S, IsFiniteSet(S), NEW f
    PROVE  IsFiniteSet({f[x] : x \in S}) /\ Cardinality({f[x] : x \in S}) <= Cardinality(S)
<1> DEFINE T == {f[x] : x \in S}
<1> DEFINE g == [x \in S |-> f[x]]
<1>1. g \in [S -> T] /\ \A t \in T : \E x \in S : g[x] = t
  OBVIOUS
<1>2. g \in Surjection(S, T)
  BY <1>1 DEF Surjection
<1> QED
  BY <1>2, FS_Surjection

(* Max is the greatest element of a non-empty set of numbers up to n.      *)
LEMMA MaxIsGreatest ==
    ASSUME NEW n \in Nat, NEW S, S \subseteq 0..n, S # {}
    PROVE  Max(S) \in S /\ \A y \in S : y <= Max(S)
<1>1. PICK x \in S : \A y \in S : y <= x
  BY GreatestExists
<1>2. x >= x /\ \A y \in S : x >= y
  BY <1>1
<1>3. Max(S) \in S /\ \A y \in S : Max(S) >= y
  BY <1>2 DEF Max
<1> QED
  BY <1>3

(* Min of a non-empty interval is its first number.                        *)
LEMMA MinOfInterval ==
    ASSUME NEW a \in Int, NEW b \in Int, a <= b
    PROVE  Min(a..b) = a
<1>1. a \in a..b /\ \A y \in a..b : a =< y
  OBVIOUS
<1>2. Min(a..b) \in a..b /\ \A y \in a..b : Min(a..b) =< y
  BY <1>1 DEF Min
<1> QED
  BY <1>1, <1>2

(* An interval that begins at a holds len numbers, the n-th is a + n - 1.  *)
LEMMA NthOfInterval ==
    ASSUME NEW a \in Nat, NEW len \in Nat
    PROVE  /\ Cardinality(a..a + len - 1) = len
           /\ \A n \in 1..len : Nth(a..a + len - 1, n) = a + n - 1
<1> DEFINE S == a..a + len - 1
<1>1. ASSUME NEW k \in S PROVE Cardinality({m \in S : m <= k}) = k - a + 1
  <2>1. {m \in S : m <= k} = a..k
    BY <1>1
  <2>2. a \in Int /\ k \in Int /\ ~(a > k)
    BY <1>1
  <2>3. Cardinality(a..k) = IF a > k THEN 0 ELSE k - a + 1
    BY <2>2, FS_Interval
  <2> HIDE DEF S
  <2> QED
    BY <2>1, <2>2, <2>3
<1>2. Cardinality(S) = len
  <2>1. a \in Int /\ a + len - 1 \in Int
    OBVIOUS
  <2>2. Cardinality(a..a + len - 1) = IF a > a + len - 1 THEN 0 ELSE (a + len - 1) - a + 1
    BY <2>1, FS_Interval
  <2> QED
    BY <2>2
<1>3. ASSUME NEW n \in 1..len PROVE Nth(S, n) = a + n - 1
  <2> DEFINE rank(k) == Cardinality({m \in S : m <= k})
  <2>1. \A k \in S : rank(k) = k - a + 1
    BY <1>1
  <2>2. a + n - 1 \in S /\ (a + n - 1) - a + 1 = n
    BY <1>3
  <2>3. \A k \in S : k - a + 1 = n => k = a + n - 1
    BY <1>3
  <2>4. Nth(S, n) = CHOOSE k \in S : rank(k) = n
    BY DEF Nth
  <2> HIDE DEF S, rank
  <2>5. Nth(S, n) \in S /\ rank(Nth(S, n)) = n
    BY <2>1, <2>2, <2>4
  <2> QED
    BY <2>1, <2>3, <2>5
<1> QED
  BY <1>2, <1>3

LEMMA KeptOfInterval ==
    ASSUME NEW list, NEW a \in Nat, NEW len \in Nat
    PROVE  Kept(list, a..a + len - 1) = [n \in 1..len |-> list[a + n - 1]]
BY NthOfInterval DEF Kept

(* The elements of rank up to n are at most n, and some if there are any.  *)
LEMMA FirstRanks ==
    ASSUME NEW S, S \subseteq Nat, IsFiniteSet(S), NEW n \in Nat,
           NEW F, F = {j \in S : Cardinality({m \in S : m <= j}) <= n}
    PROVE  /\ F \subseteq S /\ IsFiniteSet(F) /\ Cardinality(F) \in Nat /\ Cardinality(F) <= n
           /\ n >= 1 /\ S # {} => F # {}
<1> DEFINE upTo(j) == {m \in S : m <= j}
<1>1. F \in SUBSET S /\ \A j \in S : j \in Nat
  OBVIOUS
<1>2. IsFiniteSet(F) /\ Cardinality(F) \in Nat
  BY <1>1, FS_Subset, FS_CardinalityType
<1>3. F = {j \in S : Cardinality(upTo(j)) <= n}
  OBVIOUS
<1>4. Cardinality(F) <= n
  <2>1. CASE F = {}
    <3>1. Cardinality(F) = 0
      BY <2>1, FS_EmptySet
    <3> QED
      BY <3>1
  <2>2. CASE F # {}
    <3>1. PICK x \in F : \A y \in F : y <= x
      BY <1>1, <1>2, <2>2, GreatestOfFinite
    <3>2. F \in SUBSET upTo(x) /\ upTo(x) \in SUBSET S
      BY <1>1, <3>1
    <3>3. Cardinality(upTo(x)) <= n
      BY <1>3, <3>1
    <3> HIDE DEF upTo
    <3>4. IsFiniteSet(upTo(x)) /\ Cardinality(upTo(x)) \in Nat
      BY <3>2, FS_Subset, FS_CardinalityType
    <3>5. Cardinality(F) <= Cardinality(upTo(x))
      BY <3>2, <3>4, FS_Subset
    <3> QED
      BY <1>2, <3>3, <3>4, <3>5
  <2> QED
    BY <2>1, <2>2
<1>5. ASSUME n >= 1, S # {} PROVE F # {}
  <2>1. PICK x \in S : \A y \in S : x <= y
    BY <1>5, LeastExists
  <2>2. upTo(x) = {x}
    <3>1. x <= x /\ \A y \in S : y <= x => y = x
      BY <1>1, <2>1
    <3> QED
      BY <2>1, <3>1
  <2>3. Cardinality(upTo(x)) = 1
    BY <2>2, FS_Singleton
  <2>4. Cardinality(upTo(x)) <= n
    BY <1>5, <2>3
  <2> QED
    BY <1>3, <2>1, <2>4
<1> QED
  BY <1>1, <1>2, <1>4, <1>5
=============================================================================
