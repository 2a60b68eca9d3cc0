--------------------------- MODULE GatewayProofs ---------------------------
(***************************************************************************)
(* Proofs about Gateway, for any number of requests, pools and slots, any  *)
(* window and resolution of the clock, and any limits.                     *)
(***************************************************************************)
EXTENDS Gateway, NumberLemmas, SequenceTheorems, TLAPS

Held(k)    == {r \in InPool(k) : task[r] \in Holding}
Granted(k) == {r \in InPool(k) : task[r] = "granted"}
Waiting(k) == {r \in InPool(k) : task[r] = "queued"}

Shape ==
    /\ value \in [Kinds -> Nat]
    /\ waiters \in [Kinds -> Seq(Requests)]
    /\ active \in [Kinds -> Int] /\ queued \in [Kinds -> Int]
    /\ DOMAIN task = Requests

(* SlotsConserved of one pool.                                             *)
PoolOK(k) ==
    /\ value[k] + Cardinality(Held(k)) + Cardinality(Granted(k)) = Workers[k]
    /\ value[k] > 0 /\ Waiting(k) # {} => Granted(k) # {}
    /\ active[k] = Cardinality(Held(k))
    /\ IsInjective(waiters[k]) /\ queued[k] = Len(waiters[k])
    /\ ToSet(waiters[k]) = Granted(k) \cup Waiting(k)

Pools == Shape /\ \A k \in Kinds : PoolOK(k)

----------------------------------------------------------------------------
(* Lemmas about queues.                                                    *)

LEMMA ToSetOfSeq ==
    ASSUME NEW S, NEW s \in Seq(S)
    PROVE  /\ Len(s) \in Nat /\ DOMAIN s = 1..Len(s) /\ ToSet(s) \subseteq S
           /\ \A x : x \in ToSet(s) <=> \E i \in 1..Len(s) : s[i] = x
BY LenProperties, ElementOfSeq DEF ToSet

(* deque.remove: one waiter less, and the others once each as before.      *)
LEMMA RemoveFirstOnce ==
    ASSUME NEW S, NEW s \in Seq(S), IsInjective(s), NEW r \in ToSet(s)
    PROVE  /\ RemoveFirst(s, r) \in Seq(S) /\ Len(RemoveFirst(s, r)) = Len(s) - 1
           /\ IsInjective(RemoveFirst(s, r)) /\ ToSet(RemoveFirst(s, r)) = ToSet(s) \ {r}
<1>1. Len(s) \in Nat /\ DOMAIN s = 1..Len(s) /\ \A i \in 1..Len(s) : s[i] \in S
  BY LenProperties, ElementOfSeq
<1>2. PICK p \in 1..Len(s) : s[p] = r
  BY <1>1 DEF ToSet
<1>3. \A i \in 1..Len(s) : s[i] = r => i = p
  BY <1>1, <1>2 DEF IsInjective
<1>4. SelectInSeq(s, LAMBDA v : v = r) = p
  <2> DEFINE I == {i \in 1..Len(s) : s[i] = r}
  <2>1. I = {p}
    BY <1>2, <1>3
  <2>2. SelectInSeq(s, LAMBDA v : v = r) = IF I # {} THEN Min(I) ELSE 0
    BY DEF SelectInSeq
  <2>3. p \in Int /\ Min({p}) = p
    BY <1>1 DEF Min
  <2> HIDE DEF I
  <2> QED
    BY <2>1, <2>2, <2>3
<1>5. RemoveFirst(s, r) = SubSeq(s, 1, p - 1) \o SubSeq(s, p + 1, Len(s))
  BY <1>2, <1>4 DEF RemoveFirst, RemoveAt
<1> DEFINE a == SubSeq(s, 1, p - 1)
           b == SubSeq(s, p + 1, Len(s))
           t == a \o b
<1>6. a \in Seq(S) /\ Len(a) = p - 1 /\ \A i \in 1..p - 1 : a[i] = s[i]
  <2>1. 1 \in Int /\ p - 1 \in Int /\ \A i \in 1..p - 1 : s[i] \in S
    BY <1>1, <1>2
  <2>2. /\ a \in Seq(S) /\ Len(a) = (IF 1 <= p - 1 THEN (p - 1) - 1 + 1 ELSE 0)
        /\ \A i \in 1..(p - 1) - 1 + 1 : a[i] = s[1 + i - 1]
    BY <2>1, SubSeqProperties
  <2> HIDE DEF a
  <2>3. (IF 1 <= p - 1 THEN (p - 1) - 1 + 1 ELSE 0) = p - 1
    BY <1>1, <1>2
  <2>4. \A i \in 1..p - 1 : i \in 1..(p - 1) - 1 + 1 /\ 1 + i - 1 = i
    BY <1>1, <1>2
  <2> QED
    BY <2>2, <2>3, <2>4
<1>7. b \in Seq(S) /\ Len(b) = Len(s) - p /\ \A i \in 1..Len(s) - p : b[i] = s[p + i]
  <2>1. p + 1 \in Int /\ Len(s) \in Int /\ \A i \in p + 1..Len(s) : s[i] \in S
    BY <1>1, <1>2
  <2>2. /\ b \in Seq(S) /\ Len(b) = (IF p + 1 <= Len(s) THEN Len(s) - (p + 1) + 1 ELSE 0)
        /\ \A i \in 1..Len(s) - (p + 1) + 1 : b[i] = s[(p + 1) + i - 1]
    BY <2>1, SubSeqProperties
  <2> HIDE DEF b
  <2>3. (IF p + 1 <= Len(s) THEN Len(s) - (p + 1) + 1 ELSE 0) = Len(s) - p
    <3>1. PICK n \in Nat : n = Len(s)
      BY <1>1
    <3>2. p \in 1..n
      BY <1>2, <3>1
    <3>3. (IF p + 1 <= n THEN n - (p + 1) + 1 ELSE 0) = n - p
      BY <3>1, <3>2
    <3> QED
      BY <3>1, <3>3
  <2>4. \A i \in 1..Len(s) - p : i \in 1..Len(s) - (p + 1) + 1 /\ (p + 1) + i - 1 = p + i
    BY <1>1, <1>2
  <2> QED
    BY <2>2, <2>3, <2>4
<1> HIDE DEF a, b
<1>8. /\ t \in Seq(S) /\ Len(t) = Len(s) - 1
      /\ \A i \in 1..Len(s) - 1 : t[i] = IF i < p THEN s[i] ELSE s[i + 1]
  <2>1. /\ t \in Seq(S) /\ Len(t) = Len(a) + Len(b)
        /\ \A i \in 1..Len(a) + Len(b) : t[i] = IF i <= Len(a) THEN a[i] ELSE b[i - Len(a)]
    BY <1>6, <1>7, ConcatProperties
  <2>2. Len(a) + Len(b) = Len(s) - 1
    BY <1>1, <1>2, <1>6, <1>7
  <2> HIDE DEF t
  <2>3. ASSUME NEW i \in 1..Len(s) - 1 PROVE t[i] = IF i < p THEN s[i] ELSE s[i + 1]
    <3>1. CASE i < p
      <4>1. i \in 1..p - 1 /\ i <= Len(a)
        BY <1>1, <1>2, <1>6, <2>3, <3>1
      <4> QED
        BY <1>6, <2>1, <2>2, <2>3, <3>1, <4>1
    <3>2. CASE ~(i < p)
      <4>1. ~(i <= Len(a)) /\ i - Len(a) \in 1..Len(s) - p /\ p + (i - Len(a)) = i + 1
        BY <1>1, <1>2, <1>6, <2>3, <3>2
      <4> QED
        BY <1>7, <2>1, <2>2, <2>3, <3>2, <4>1
    <3> QED
      BY <3>1, <3>2
  <2> QED
    BY <2>1, <2>2, <2>3
<1> HIDE DEF t
<1>9. DOMAIN t = 1..Len(s) - 1
  BY <1>1, <1>8, LenProperties
<1> DEFINE at(i) == IF i < p THEN i ELSE i + 1
<1>10. \A i \in 1..Len(s) - 1 : at(i) \in 1..Len(s) /\ at(i) # p /\ t[i] = s[at(i)]
  BY <1>1, <1>2, <1>8
<1>11. \A i, j \in 1..Len(s) - 1 : at(i) = at(j) => i = j
  BY <1>1, <1>2
<1>12. \A i \in 1..Len(s) : i # p => \E j \in 1..Len(s) - 1 : at(j) = i
  <2>1. TAKE i \in 1..Len(s)
  <2>2. CASE i < p
    <3>1. i \in 1..Len(s) - 1
      BY <1>1, <1>2, <2>2
    <3> QED
      BY <2>2, <3>1
  <2>3. CASE i > p
    <3>1. i - 1 \in 1..Len(s) - 1 /\ ~(i - 1 < p) /\ (i - 1) + 1 = i
      BY <1>1, <1>2, <2>3
    <3> QED
      BY <3>1
  <2> QED
    BY <1>1, <1>2, <2>2, <2>3
<1> HIDE DEF at
<1>13. IsInjective(t)
  <2>1. \A i, j \in 1..Len(s) : s[i] = s[j] => i = j
    BY <1>1 DEF IsInjective
  <2> QED
    BY <1>9, <1>10, <1>11, <2>1 DEF IsInjective
<1>14. ToSet(t) = ToSet(s) \ {r}
  <2>1. \A x : x \in ToSet(t) <=> \E i \in 1..Len(s) - 1 : t[i] = x
    BY <1>9 DEF ToSet
  <2>2. \A x : x \in ToSet(s) <=> \E i \in 1..Len(s) : s[i] = x
    BY <1>1 DEF ToSet
  <2>3. \A x \in ToSet(t) : x \in ToSet(s) /\ x # r
    BY <1>3, <1>10, <2>1, <2>2
  <2>4. \A x \in ToSet(s) : x # r => x \in ToSet(t)
    <3>1. TAKE x \in ToSet(s)
    <3>2. HAVE x # r
    <3>3. PICK i \in 1..Len(s) : s[i] = x
      BY <2>2
    <3>4. i # p
      BY <1>2, <3>2, <3>3
    <3>5. PICK j \in 1..Len(s) - 1 : at(j) = i
      BY <1>12, <3>4
    <3> QED
      BY <1>10, <2>1, <3>3, <3>5
  <2> QED
    BY <2>3, <2>4
<1> QED
  <2>1. RemoveFirst(s, r) = t
    BY <1>5 DEF a, b, t
  <2> QED
    BY <1>8, <1>13, <1>14, <2>1

(* A new waiter at the end of the queue.                                   *)
LEMMA AppendOnce ==
    ASSUME NEW S, NEW s \in Seq(S), IsInjective(s), NEW r \in S, r \notin ToSet(s)
    PROVE  /\ Append(s, r) \in Seq(S) /\ Len(Append(s, r)) = Len(s) + 1
           /\ IsInjective(Append(s, r)) /\ ToSet(Append(s, r)) = ToSet(s) \cup {r}
<1> DEFINE t == Append(s, r)
<1>1. Len(s) \in Nat /\ DOMAIN s = 1..Len(s)
  BY LenProperties
<1>2. /\ t \in Seq(S) /\ Len(t) = Len(s) + 1 /\ (\A i \in 1..Len(s) : t[i] = s[i]) /\ t[Len(s) + 1] = r
  BY AppendProperties
<1> HIDE DEF t
<1>3. DOMAIN t = 1..Len(s) + 1
  BY <1>1, <1>2, LenProperties
<1>4. \A i \in 1..Len(s) + 1 : i \in 1..Len(s) \/ i = Len(s) + 1
  BY <1>1
<1>5. \A i \in 1..Len(s) : s[i] # r
  BY <1>1 DEF ToSet
<1>6. IsInjective(t)
  BY <1>1, <1>2, <1>3, <1>4, <1>5 DEF IsInjective
<1>7. ToSet(t) = ToSet(s) \cup {r}
  <2>1. \A x : x \in ToSet(t) <=> \E i \in 1..Len(s) + 1 : t[i] = x
    BY <1>3 DEF ToSet
  <2>2. \A x : x \in ToSet(s) <=> \E i \in 1..Len(s) : s[i] = x
    BY <1>1 DEF ToSet
  <2>3. \A x \in ToSet(t) : x \in ToSet(s) \cup {r}
    BY <1>2, <1>4, <2>1, <2>2
  <2>4. \A i \in 1..Len(s) : i \in 1..Len(s) + 1
    BY <1>1
  <2>5. Len(s) + 1 \in 1..Len(s) + 1
    BY <1>1
  <2>6. \A x \in ToSet(s) \cup {r} : x \in ToSet(t)
    BY <1>2, <2>1, <2>2, <2>4, <2>5
  <2> QED
    BY <2>3, <2>6
<1> QED
  BY <1>2, <1>6, <1>7 DEF t

----------------------------------------------------------------------------
(* Lemmas about the slots of a pool.                                       *)

LEMMA FinitePart ==
    ASSUME NEW S, S \subseteq Requests
    PROVE  IsFiniteSet(S) /\ Cardinality(S) \in Nat
BY GatewayAssumption, FS_Subset, FS_CardinalityType

LEMMA PoolSets ==
    ASSUME NEW k \in Kinds
    PROVE  /\ IsFiniteSet(Held(k)) /\ Cardinality(Held(k)) \in Nat
           /\ IsFiniteSet(Granted(k)) /\ Cardinality(Granted(k)) \in Nat
           /\ Held(k) \cap Granted(k) = {} /\ Held(k) \cap Waiting(k) = {} /\ Granted(k) \cap Waiting(k) = {}
           /\ Held(k) \subseteq InPool(k) /\ Granted(k) \subseteq InPool(k) /\ Waiting(k) \subseteq InPool(k)
<1>1. Held(k) \in SUBSET Requests /\ Granted(k) \in SUBSET Requests
  BY DEF Held, Granted, InPool
<1>2. IsFiniteSet(Held(k)) /\ IsFiniteSet(Granted(k))
  BY <1>1, GatewayAssumption, FS_Subset
<1>3. Cardinality(Held(k)) \in Nat /\ Cardinality(Granted(k)) \in Nat
  BY <1>2, FS_CardinalityType
<1>4. "granted" \notin Holding /\ "queued" \notin Holding
  BY DEF Holding
<1> QED
  BY <1>2, <1>3, <1>4 DEF Held, Granted, Waiting

(* Those who are woken up waited without a slot, and are no more than      *)
(* there are slots.                                                        *)
LEMMA Woken ==
    ASSUME Shape, NEW k \in Kinds, PoolOK(k), NEW r, NEW n \in Nat, NEW woken, woken = FirstWaiters(k, r, n)
    PROVE  /\ woken \subseteq Waiting(k) \ {r}
           /\ IsFiniteSet(woken) /\ Cardinality(woken) \in Nat /\ Cardinality(woken) <= n
           /\ n >= 1 /\ Waiting(k) \ {r} # {} => woken # {}
<1>1. PICK s \in Seq(Requests) : s = waiters[k]
  BY DEF Shape
<1>2. Len(s) \in Nat /\ DOMAIN s = 1..Len(s) /\ ToSet(s) = Granted(k) \cup Waiting(k)
  BY <1>1, LenProperties DEF PoolOK
<1>3. PICK U : U = {i \in DOMAIN s : s[i] # r /\ task[s[i]] = "queued"}
  OBVIOUS
<1>4. Ungranted(k, r) = U
  BY <1>1, <1>3 DEF Ungranted
<1>5. PICK F : F = {j \in U : Cardinality({m \in U : m <= j}) <= n}
  OBVIOUS
<1>6. woken = {s[i] : i \in F}
  BY <1>1, <1>4, <1>5 DEF FirstWaiters
<1>7. U \in SUBSET (1..Len(s)) /\ U \subseteq Nat
  BY <1>2, <1>3
<1>8. IsFiniteSet(U)
  <2>1. IsFiniteSet(1..Len(s))
    BY <1>2, FS_Interval
  <2> QED
    BY <1>7, <2>1, FS_Subset
<1>9. /\ F \subseteq U /\ IsFiniteSet(F) /\ Cardinality(F) \in Nat /\ Cardinality(F) <= n
      /\ n >= 1 /\ U # {} => F # {}
  BY <1>5, <1>7, <1>8, FirstRanks
<1>10. IsFiniteSet(woken) /\ Cardinality(woken) \in Nat /\ Cardinality(woken) <= n
  <2>1. IsFiniteSet(woken) /\ Cardinality(woken) <= Cardinality(F)
    BY <1>6, <1>9, FiniteImage
  <2>2. Cardinality(woken) \in Nat
    BY <2>1, FS_CardinalityType
  <2> QED
    BY <1>9, <2>1, <2>2
<1>11. woken \subseteq Waiting(k) \ {r}
  <2>1. SUFFICES ASSUME NEW i \in U PROVE s[i] \in Waiting(k) \ {r}
    BY <1>6, <1>9
  <2>2. s[i] \in Granted(k) \cup Waiting(k) /\ s[i] # r /\ task[s[i]] = "queued"
    BY <1>2, <1>3, <2>1 DEF ToSet
  <2> QED
    BY <2>2 DEF Granted, Waiting
<1>12. ASSUME n >= 1, Waiting(k) \ {r} # {} PROVE woken # {}
  <2>1. PICK q \in Waiting(k) : q # r
    BY <1>12
  <2>2. PICK i \in DOMAIN s : s[i] = q
    BY <1>2 DEF ToSet
  <2>3. i \in U
    BY <1>3, <2>1, <2>2 DEF Waiting
  <2> QED
    BY <1>6, <1>9, <1>12, <2>3
<1> QED
  BY <1>10, <1>11, <1>12

(* What _wake_up_next makes of the pool k of r, who is out of the queue    *)
(* then, and of the other pools.                                           *)
HandedOver(r, k, state, free) ==
    /\ DOMAIN task' = Requests /\ task'[r] = state
    /\ \A q \in Requests : q # r /\ task'[q] # task[q] => task[q] = "queued" /\ task'[q] = "granted"
    /\ value' \in [Kinds -> Nat]
    /\ Held(k)' = IF state \in Holding THEN Held(k) \cup {r} ELSE Held(k) \ {r}
    /\ Granted(k)' \cup Waiting(k)' = (Granted(k) \cup Waiting(k)) \ {r}
    /\ value'[k] + Cardinality(Granted(k)') = free + Cardinality(Granted(k) \ {r})
    /\ value'[k] > 0 /\ Waiting(k)' # {} => Granted(k)' # {}
    /\ \A j \in Kinds : j # k =>
          /\ value'[j] = value[j] /\ Held(j)' = Held(j)
          /\ Granted(j)' = Granted(j) /\ Waiting(j)' = Waiting(j)

LEMMA HandOver ==
    ASSUME Shape, NEW r \in Requests, NEW k, k = Kind[r], PoolOK(k),
           NEW state, state \notin {"queued", "granted"},
           NEW free \in Nat, NEW n \in Nat, n <= free, free > 0 => n >= 1,
           WakeUpNext(r, state, free, n)
    PROVE  HandedOver(r, k, state, free)
<1>1. k \in Kinds
  BY GatewayAssumption
<1>2. PICK woken : woken = FirstWaiters(k, r, n)
  OBVIOUS
<1>3. /\ woken \subseteq Waiting(k) \ {r}
      /\ IsFiniteSet(woken) /\ Cardinality(woken) \in Nat /\ Cardinality(woken) <= n
      /\ n >= 1 /\ Waiting(k) \ {r} # {} => woken # {}
  BY <1>1, <1>2, Woken
<1>4. /\ value' = [value EXCEPT ![k] = free - Cardinality(woken)]
      /\ task' = [q \in Requests |-> IF q = r THEN state ELSE IF q \in woken THEN "granted" ELSE task[q]]
  BY <1>2 DEF WakeUpNext
<1>5. /\ DOMAIN task' = Requests /\ task'[r] = state
      /\ \A q \in Requests : q # r => task'[q] = IF q \in woken THEN "granted" ELSE task[q]
  BY <1>4
<1>6. \A q \in woken : q \in Requests /\ Kind[q] = k /\ q # r /\ task[q] = "queued"
  BY <1>3 DEF Waiting, InPool
<1>7. free - Cardinality(woken) \in Nat
  BY <1>3
<1>8. value' \in [Kinds -> Nat] /\ value'[k] = free - Cardinality(woken) /\ \A j \in Kinds : j # k => value'[j] = value[j]
  BY <1>1, <1>4, <1>7 DEF Shape
<1>9. r \in InPool(k) /\ \A j \in Kinds : j # k => \A q \in InPool(j) : q \in Requests /\ q # r /\ q \notin woken
  BY <1>6 DEF InPool
<1>10. "granted" \notin Holding /\ "queued" \notin Holding
  BY DEF Holding
<1>11. Held(k)' = IF state \in Holding THEN Held(k) \cup {r} ELSE Held(k) \ {r}
  <2>1. \A q \in InPool(k) : q # r => (task'[q] \in Holding <=> task[q] \in Holding)
    BY <1>5, <1>6, <1>10 DEF InPool
  <2>2. Held(k)' = {q \in InPool(k) : task'[q] \in Holding}
    BY DEF Held, InPool
  <2> QED
    BY <1>5, <1>9, <2>1, <2>2 DEF Held
<1>12. Granted(k)' = (Granted(k) \ {r}) \cup woken
  <2>1. Granted(k)' = {q \in InPool(k) : task'[q] = "granted"}
    BY DEF Granted, InPool
  <2>2. \A q \in InPool(k) : q # r => (task'[q] = "granted" <=> task[q] = "granted" \/ q \in woken)
    BY <1>5 DEF InPool
  <2>3. woken \subseteq InPool(k) \ {r}
    BY <1>6 DEF InPool
  <2> QED
    BY <1>5, <2>1, <2>2, <2>3 DEF Granted
<1>13. Waiting(k)' = Waiting(k) \ ({r} \cup woken)
  <2>1. Waiting(k)' = {q \in InPool(k) : task'[q] = "queued"}
    BY DEF Waiting, InPool
  <2>2. \A q \in InPool(k) : q # r => (task'[q] = "queued" <=> task[q] = "queued" /\ q \notin woken)
    BY <1>5 DEF InPool
  <2> QED
    BY <1>5, <2>1, <2>2 DEF Waiting
<1>14. Cardinality(Granted(k)') = Cardinality(Granted(k) \ {r}) + Cardinality(woken)
  <2>1. IsFiniteSet(Granted(k)) /\ Granted(k) \cap Waiting(k) = {}
    BY <1>1, PoolSets
  <2>2. PICK G : G = Granted(k) \ {r}
    OBVIOUS
  <2>3. IsFiniteSet(G) /\ G \cap woken = {}
    BY <1>3, <2>1, <2>2, FS_RemoveElement
  <2>4. Cardinality(G) \in Nat
    BY <2>3, FS_CardinalityType
  <2>5. Cardinality(G \cup woken) = Cardinality(G) + Cardinality(woken) - 0
    BY <1>3, <2>3, FS_Union, FS_EmptySet
  <2>6. Cardinality(G) + Cardinality(woken) - 0 = Cardinality(G) + Cardinality(woken)
    BY <1>3, <2>4
  <2> QED
    BY <1>12, <2>2, <2>5, <2>6
<1>15. value'[k] + Cardinality(Granted(k)') = free + Cardinality(Granted(k) \ {r})
  <2>1. Cardinality(Granted(k) \ {r}) \in Nat
    <3>1. IsFiniteSet(Granted(k))
      BY <1>1, PoolSets
    <3> QED
      BY <3>1, FS_RemoveElement, FS_CardinalityType
  <2> QED
    BY <1>3, <1>8, <1>14, <2>1
<1>16. ASSUME value'[k] > 0, Waiting(k)' # {} PROVE Granted(k)' # {}
  <2>1. free > 0
    BY <1>3, <1>8, <1>16
  <2>2. Waiting(k) \ {r} # {}
    BY <1>13, <1>16
  <2> QED
    BY <1>3, <1>12, <2>1, <2>2
<1>17. \A j \in Kinds : j # k => Held(j)' = Held(j) /\ Granted(j)' = Granted(j) /\ Waiting(j)' = Waiting(j)
  <2>1. TAKE j \in Kinds
  <2>2. HAVE j # k
  <2>3. \A q \in InPool(j) : task'[q] = task[q]
    BY <1>5, <1>9, <2>2
  <2>4. InPool(j)' = InPool(j)
    BY DEF InPool
  <2> QED
    BY <2>3, <2>4 DEF Held, Granted, Waiting
<1>18. \A q \in Requests : q # r /\ task'[q] # task[q] => task[q] = "queued" /\ task'[q] = "granted"
  BY <1>5, <1>6
<1>19. Granted(k)' \cup Waiting(k)' = (Granted(k) \cup Waiting(k)) \ {r}
  BY <1>3, <1>12, <1>13
<1> QED
  BY <1>5, <1>8, <1>11, <1>15, <1>16, <1>17, <1>18, <1>19 DEF HandedOver

----------------------------------------------------------------------------
(* The steps of the slots.                                                 *)

(* A pool that a step leaves alone.                                        *)
LEMMA PoolFrame ==
    ASSUME NEW j, PoolOK(j), value'[j] = value[j], Held(j)' = Held(j), Granted(j)' = Granted(j),
           Waiting(j)' = Waiting(j), waiters'[j] = waiters[j], active'[j] = active[j], queued'[j] = queued[j]
    PROVE  PoolOK(j)'
BY DEF PoolOK

LEMMA LeavePools ==
    ASSUME Pools, NEW r \in Requests, task[r] \in Holding,
           NEW state, state \notin Holding \cup {"queued", "granted"}, Leave(r, state)
    PROVE  /\ Pools' /\ task'[r] = state
           /\ \A q \in Requests : q # r /\ task'[q] # task[q] => task[q] = "queued" /\ task'[q] = "granted"
<1>1. PICK k \in Kinds : k = Kind[r]
  BY GatewayAssumption
<1>2. Shape /\ PoolOK(k)
  BY <1>1 DEF Pools
<1>3. /\ active' = [active EXCEPT ![k] = @ - 1] /\ UNCHANGED <<waiters, queued>>
      /\ WakeUpNext(r, state, value[k] + 1, 1)
  BY <1>1 DEF Leave
<1>4. value[k] \in Nat /\ value[k] + 1 \in Nat /\ value[k] + 1 > 0 /\ 1 <= value[k] + 1
  BY <1>1, <1>2 DEF Shape
<1>5. PICK free \in Nat : free = value[k] + 1
  BY <1>4
<1>6. HandedOver(r, k, state, free)
  <2>1. WakeUpNext(r, state, free, 1) /\ 1 \in Nat /\ 1 <= free /\ (free > 0 => 1 >= 1)
    BY <1>3, <1>4, <1>5
  <2> QED
    BY <1>1, <1>2, <2>1, HandOver
<1>7. r \in Held(k) /\ r \notin Granted(k) /\ r \notin Waiting(k)
  BY <1>1 DEF Held, Granted, Waiting, InPool, Holding
<1>8. Cardinality(Held(k)') = Cardinality(Held(k)) - 1
  <2>1. IsFiniteSet(Held(k))
    BY PoolSets
  <2>2. Held(k)' = Held(k) \ {r}
    BY <1>6 DEF HandedOver
  <2> QED
    BY <1>7, <2>1, <2>2, FS_RemoveElement
<1>9. Granted(k) \ {r} = Granted(k) /\ (Granted(k) \cup Waiting(k)) \ {r} = Granted(k) \cup Waiting(k)
  BY <1>7
<1>10. value'[k] + Cardinality(Held(k)') + Cardinality(Granted(k)') = Workers[k]
  <2>1. PICK a, h, g, v : /\ a = Cardinality(Granted(k)') /\ h = Cardinality(Held(k))
                          /\ g = Cardinality(Granted(k)) /\ v = value'[k]
    OBVIOUS
  <2>2. h \in Nat /\ g \in Nat /\ v \in Nat /\ Workers[k] \in Nat
    BY <1>6, <2>1, PoolSets, GatewayAssumption DEF HandedOver
  <2>3. v + a = (value[k] + 1) + g /\ value[k] + h + g = Workers[k] /\ a \in Nat
    <3>1. a \in Nat
      <4>1. Granted(k)' \subseteq Requests
        BY DEF Granted, InPool
      <4> QED
        BY <2>1, <4>1, FinitePart
    <3> QED
      BY <1>2, <1>5, <1>6, <1>9, <2>1, <3>1 DEF PoolOK, HandedOver
  <2>4. v + (h - 1) + a = Workers[k]
    BY <1>4, <2>2, <2>3
  <2> QED
    BY <1>8, <2>1, <2>4
<1>11. active'[k] = Cardinality(Held(k)') /\ active' \in [Kinds -> Int] /\ \A j \in Kinds : j # k => active'[j] = active[j]
  <2>1. active[k] = Cardinality(Held(k)) /\ active[k] \in Int /\ active \in [Kinds -> Int]
    BY <1>2 DEF PoolOK, Shape
  <2> QED
    BY <1>3, <1>8, <2>1
<1>12. PoolOK(k)'
  BY <1>2, <1>3, <1>6, <1>9, <1>10, <1>11 DEF PoolOK, HandedOver
<1>13. \A j \in Kinds : j # k => PoolOK(j)'
  BY <1>3, <1>6, <1>11, PoolFrame DEF Pools, HandedOver
<1>14. Shape'
  BY <1>2, <1>3, <1>6, <1>11 DEF Shape, HandedOver
<1> QED
  BY <1>6, <1>12, <1>13, <1>14 DEF Pools, HandedOver

(* The waiter r leaves the queue, to hold its slot (extra = 1) or not.     *)
LEMMA DequeuePools ==
    ASSUME Pools, NEW r \in Requests, task[r] \in {"queued", "granted"},
           NEW state, state \in {"admitted", "cancelled"}, NEW extra \in {0, 1},
           extra = 1 <=> state = "admitted", state = "admitted" => task[r] = "granted",
           NEW free \in Nat, free = value[Kind[r]] + (IF task[r] = "granted" THEN 1 - extra ELSE 0),
           Dequeue(r, state, free), active' = [active EXCEPT ![Kind[r]] = @ + extra]
    PROVE  /\ Pools' /\ task'[r] = state
           /\ \A q \in Requests : q # r /\ task'[q] # task[q] => task[q] = "queued" /\ task'[q] = "granted"
<1>1. PICK k \in Kinds : k = Kind[r]
  BY GatewayAssumption
<1>2. Shape /\ PoolOK(k)
  BY <1>1 DEF Pools
<1>3. /\ waiters' = [waiters EXCEPT ![k] = RemoveFirst(waiters[k], r)]
      /\ queued' = [queued EXCEPT ![k] = @ - 1]
      /\ WakeUpNext(r, state, free, free)
      /\ active' = [active EXCEPT ![k] = @ + extra]
  BY <1>1 DEF Dequeue
<1>4. state \notin {"queued", "granted"} /\ (state \in Holding <=> extra = 1)
  BY DEF Holding
<1>5. HandedOver(r, k, state, free)
  <2>1. free <= free /\ (free > 0 => free >= 1)
    OBVIOUS
  <2> QED
    BY <1>1, <1>2, <1>3, <1>4, <2>1, HandOver
<1>6. r \notin Held(k) /\ r \in Granted(k) \cup Waiting(k) /\ (r \in Granted(k) <=> task[r] = "granted")
  BY <1>1 DEF Held, Granted, Waiting, InPool, Holding
<1>7. Cardinality(Held(k)') = Cardinality(Held(k)) + extra
  <2>1. IsFiniteSet(Held(k)) /\ Cardinality(Held(k)) \in Nat
    BY PoolSets
  <2>2. CASE extra = 1
    <3>1. Held(k)' = Held(k) \cup {r}
      BY <1>4, <1>5, <2>2 DEF HandedOver
    <3> QED
      BY <1>6, <2>1, <2>2, <3>1, FS_AddElement
  <2>3. CASE extra = 0
    <3>1. Held(k)' = Held(k)
      BY <1>4, <1>5, <1>6, <2>3 DEF HandedOver
    <3> QED
      BY <2>1, <2>3, <3>1
  <2> QED
    BY <2>2, <2>3
<1>8. Cardinality(Granted(k) \ {r}) = Cardinality(Granted(k)) - (IF task[r] = "granted" THEN 1 ELSE 0)
  <2>1. IsFiniteSet(Granted(k)) /\ Cardinality(Granted(k)) \in Nat
    BY PoolSets
  <2>2. Cardinality(Granted(k) \ {r}) = IF r \in Granted(k) THEN Cardinality(Granted(k)) - 1 ELSE Cardinality(Granted(k))
    BY <2>1, FS_RemoveElement
  <2>3. Cardinality(Granted(k)) - 0 = Cardinality(Granted(k))
    BY <2>1
  <2> QED
    BY <1>6, <2>2, <2>3
<1>9. value'[k] + Cardinality(Held(k)') + Cardinality(Granted(k)') = Workers[k]
  <2>1. PICK a, h, g, v, w : /\ a = Cardinality(Granted(k)') /\ h = Cardinality(Held(k))
                             /\ g = Cardinality(Granted(k)) /\ v = value'[k] /\ w = value[k]
    OBVIOUS
  <2>2. h \in Nat /\ g \in Nat /\ v \in Nat /\ w \in Nat /\ Workers[k] \in Nat /\ a \in Nat
    <3>1. Granted(k)' \subseteq Requests
      BY DEF Granted, InPool
    <3>2. a \in Nat
      BY <2>1, <3>1, FinitePart
    <3> QED
      BY <1>2, <1>5, <2>1, <3>2, PoolSets, GatewayAssumption DEF Shape, HandedOver
  <2>3. w + h + g = Workers[k]
    BY <1>2, <2>1 DEF PoolOK
  <2>4. CASE task[r] = "granted"
    <3>1. v + a = (w + (1 - extra)) + (g - 1)
      BY <1>1, <1>5, <1>8, <2>1, <2>4 DEF HandedOver
    <3>2. v + (h + extra) + a = Workers[k]
      BY <2>2, <2>3, <3>1
    <3> QED
      BY <1>7, <2>1, <3>2
  <2>5. CASE task[r] # "granted"
    <3>1. extra = 0
      BY <2>5
    <3>2. v + a = (w + 0) + (g - 0)
      BY <1>1, <1>5, <1>8, <2>1, <2>5 DEF HandedOver
    <3>3. v + (h + extra) + a = Workers[k]
      BY <2>2, <2>3, <3>1, <3>2
    <3> QED
      BY <1>7, <2>1, <3>3
  <2> QED
    BY <2>4, <2>5
<1>10. active'[k] = Cardinality(Held(k)') /\ active' \in [Kinds -> Int] /\ \A j \in Kinds : j # k => active'[j] = active[j]
  <2>1. active[k] = Cardinality(Held(k)) /\ active[k] \in Int /\ active \in [Kinds -> Int] /\ extra \in Int
    BY <1>2 DEF PoolOK, Shape
  <2>2. PICK n \in Int : n = active[k] + extra
    BY <2>1
  <2>3. active' = [active EXCEPT ![k] = n] /\ n = Cardinality(Held(k)')
    BY <1>3, <1>7, <2>1, <2>2
  <2> QED
    BY <2>1, <2>2, <2>3
<1>11. /\ waiters'[k] \in Seq(Requests) /\ IsInjective(waiters'[k]) /\ Len(waiters'[k]) = Len(waiters[k]) - 1
       /\ ToSet(waiters'[k]) = ToSet(waiters[k]) \ {r}
       /\ waiters' \in [Kinds -> Seq(Requests)] /\ \A j \in Kinds : j # k => waiters'[j] = waiters[j]
  <2>1. PICK s : s = waiters[k]
    OBVIOUS
  <2>2. s \in Seq(Requests) /\ IsInjective(s) /\ r \in ToSet(s)
    BY <1>2, <1>6, <2>1 DEF Shape, PoolOK
  <2>3. PICK t : t = RemoveFirst(s, r)
    OBVIOUS
  <2>4. t \in Seq(Requests) /\ Len(t) = Len(s) - 1 /\ IsInjective(t) /\ ToSet(t) = ToSet(s) \ {r}
    BY <2>2, <2>3, RemoveFirstOnce
  <2>5. waiters' = [waiters EXCEPT ![k] = t] /\ waiters \in [Kinds -> Seq(Requests)]
    BY <1>2, <1>3, <2>1, <2>3 DEF Shape
  <2>6. waiters'[k] = t /\ waiters' \in [Kinds -> Seq(Requests)] /\ \A j \in Kinds : j # k => waiters'[j] = waiters[j]
    BY <2>4, <2>5
  <2> QED
    BY <2>1, <2>4, <2>6
<1>12. queued'[k] = Len(waiters'[k]) /\ queued' \in [Kinds -> Int] /\ \A j \in Kinds : j # k => queued'[j] = queued[j]
  <2>1. queued \in [Kinds -> Int] /\ queued[k] = Len(waiters[k])
    BY <1>2 DEF Shape, PoolOK
  <2>2. queued[k] - 1 = Len(waiters'[k]) /\ queued[k] - 1 \in Int
    BY <1>11, <2>1
  <2> QED
    BY <1>3, <2>1, <2>2
<1>13. PoolOK(k)'
  BY <1>2, <1>5, <1>9, <1>10, <1>11, <1>12 DEF PoolOK, HandedOver
<1>14. \A j \in Kinds : j # k => PoolOK(j)'
  BY <1>5, <1>10, <1>11, <1>12, PoolFrame DEF Pools, HandedOver
<1>15. Shape'
  BY <1>5, <1>10, <1>11, <1>12 DEF Shape, HandedOver
<1> QED
  BY <1>5, <1>13, <1>14, <1>15 DEF Pools, HandedOver

(* A step of one task, of r in pool k, that ends in the given state.       *)
TaskStepped(r, k, state) ==
    /\ DOMAIN task' = Requests /\ task'[r] = state /\ \A q \in Requests : q # r => task'[q] = task[q]
    /\ Held(k)' = IF state \in Holding THEN Held(k) \cup {r} ELSE Held(k) \ {r}
    /\ Granted(k)' = IF state = "granted" THEN Granted(k) \cup {r} ELSE Granted(k) \ {r}
    /\ Waiting(k)' = IF state = "queued" THEN Waiting(k) \cup {r} ELSE Waiting(k) \ {r}
    /\ \A j \in Kinds : j # k =>
          Held(j)' = Held(j) /\ Granted(j)' = Granted(j) /\ Waiting(j)' = Waiting(j)

LEMMA TaskStep ==
    ASSUME DOMAIN task = Requests, NEW r \in Requests, NEW k, k = Kind[r], NEW state,
           task' = [task EXCEPT ![r] = state]
    PROVE  TaskStepped(r, k, state)
<1>1. DOMAIN task' = Requests /\ task'[r] = state /\ \A q \in Requests : q # r => task'[q] = task[q]
  OBVIOUS
<1>2. r \in InPool(k) /\ \A q \in InPool(k) : q # r => task'[q] = task[q]
  BY <1>1 DEF InPool
<1>3. \A j : j # k => \A q \in InPool(j) : task'[q] = task[q]
  BY <1>1 DEF InPool
<1>4. \A j : /\ InPool(j)' = InPool(j) /\ Held(j)' = {q \in InPool(j) : task'[q] \in Holding}
             /\ Granted(j)' = {q \in InPool(j) : task'[q] = "granted"}
             /\ Waiting(j)' = {q \in InPool(j) : task'[q] = "queued"}
  BY DEF InPool, Held, Granted, Waiting
<1>5. Held(k)' = IF state \in Holding THEN Held(k) \cup {r} ELSE Held(k) \ {r}
  BY <1>1, <1>2, <1>4 DEF Held
<1>6. Granted(k)' = IF state = "granted" THEN Granted(k) \cup {r} ELSE Granted(k) \ {r}
  BY <1>1, <1>2, <1>4 DEF Granted
<1>7. Waiting(k)' = IF state = "queued" THEN Waiting(k) \cup {r} ELSE Waiting(k) \ {r}
  BY <1>1, <1>2, <1>4 DEF Waiting
<1>8. \A j \in Kinds : j # k => Held(j)' = Held(j) /\ Granted(j)' = Granted(j) /\ Waiting(j)' = Waiting(j)
  BY <1>3, <1>4 DEF Held, Granted, Waiting
<1> QED
  BY <1>1, <1>5, <1>6, <1>7, <1>8 DEF TaskStepped

(* The task that holds a slot goes on holding it.                          *)
LEMMA HoldPools ==
    ASSUME Pools, NEW r \in Requests, task[r] \in Holding, NEW state \in Holding,
           task' = [task EXCEPT ![r] = state], UNCHANGED pool
    PROVE  Pools'
<1>1. PICK k \in Kinds : k = Kind[r]
  BY GatewayAssumption
<1>2. Shape /\ DOMAIN task = Requests /\ UNCHANGED <<value, waiters, active, queued>>
  BY DEF Pools, Shape, pool
<1>3. state # "granted" /\ state # "queued" /\ r \in Held(k) /\ r \notin Granted(k) /\ r \notin Waiting(k)
  BY <1>1 DEF Holding, Held, Granted, Waiting, InPool
<1>4. /\ DOMAIN task' = Requests
      /\ \A j \in Kinds : Held(j)' = Held(j) /\ Granted(j)' = Granted(j) /\ Waiting(j)' = Waiting(j)
  <2>1. TaskStepped(r, k, state)
    BY <1>1, <1>2, TaskStep
  <2> QED
    BY <1>3, <2>1 DEF TaskStepped
<1>5. \A j \in Kinds : PoolOK(j)'
  BY <1>2, <1>4, PoolFrame DEF Pools
<1> QED
  BY <1>2, <1>4, <1>5 DEF Pools, Shape

(* A request takes a slot that is free, or joins the queue.                *)
LEMMA ArrivePools ==
    ASSUME Pools, NEW r \in Requests, Arrive(r)
    PROVE  Pools'
<1>1. PICK k \in Kinds : k = Kind[r]
  BY GatewayAssumption
<1>2. Shape /\ PoolOK(k) /\ DOMAIN task = Requests
  BY <1>1 DEF Pools, Shape
<1>3. task[r] = "new" \/ task[r] = "refused"
  BY DEF Arrive
<1>4. r \notin Held(k) /\ r \notin Granted(k) /\ r \notin Waiting(k)
  BY <1>3 DEF Holding, Held, Granted, Waiting
<1>5. PICK v, a, n, h, g : /\ v = value[k] /\ a = active[k] /\ n = queued[k]
                           /\ h = Cardinality(Held(k)) /\ g = Cardinality(Granted(k))
  OBVIOUS
<1>6. v \in Nat /\ a \in Int /\ n \in Int /\ h \in Nat /\ g \in Nat /\ IsFiniteSet(Held(k))
  BY <1>1, <1>2, <1>5, PoolSets DEF Shape
<1>7. v + h + g = Workers[k] /\ a = h
  BY <1>2, <1>5 DEF PoolOK
<1>8. CASE value[k] > 0 /\ waiters[k] = <<>>
  <2>1. /\ value' = [value EXCEPT ![k] = v - 1] /\ active' = [active EXCEPT ![k] = a + 1]
        /\ task' = [task EXCEPT ![r] = "admitted"] /\ UNCHANGED <<waiters, queued>>
    BY <1>1, <1>5, <1>8 DEF Arrive
  <2>2. "admitted" \in Holding
    BY DEF Holding
  <2>3. /\ DOMAIN task' = Requests /\ Held(k)' = Held(k) \cup {r} /\ Granted(k)' = Granted(k) /\ Waiting(k)' = Waiting(k)
        /\ \A j \in Kinds : j # k => Held(j)' = Held(j) /\ Granted(j)' = Granted(j) /\ Waiting(j)' = Waiting(j)
    <3>1. TaskStepped(r, k, "admitted")
      BY <1>1, <1>2, <2>1, TaskStep
    <3> QED
      BY <1>4, <2>2, <3>1 DEF TaskStepped
  <2>4. Cardinality(Held(k)') = h + 1
    BY <1>4, <1>5, <1>6, <2>3, FS_AddElement
  <2>5. v - 1 \in Nat /\ a + 1 \in Int /\ (v - 1) + (h + 1) + g = Workers[k] /\ a + 1 = h + 1
    <3>1. v > 0
      BY <1>5, <1>8
    <3>2. v - 1 \in Nat /\ a + 1 \in Int /\ a + 1 = h + 1
      BY <1>6, <1>7, <3>1
    <3>3. (v - 1) + (h + 1) + g = v + h + g
      BY <1>6
    <3> QED
      BY <1>7, <3>2, <3>3
  <2>6. PICK w \in Nat, b \in Int : w = v - 1 /\ b = a + 1
    BY <2>5
  <2>7. /\ value' \in [Kinds -> Nat] /\ value'[k] = w /\ active' \in [Kinds -> Int] /\ active'[k] = b
        /\ \A j \in Kinds : j # k => value'[j] = value[j] /\ active'[j] = active[j]
    BY <1>1, <1>2, <2>1, <2>6 DEF Shape
  <2>8. Waiting(k) = {}
    <3>1. ToSet(waiters[k]) = {}
      BY <1>8 DEF ToSet
    <3> QED
      BY <1>2, <3>1 DEF PoolOK
  <2>9. PoolOK(k)'
    <3>1. value'[k] + Cardinality(Held(k)') + Cardinality(Granted(k)') = Workers[k]
      BY <1>5, <2>3, <2>4, <2>5, <2>6, <2>7
    <3>2. active'[k] = Cardinality(Held(k)')
      BY <2>4, <2>5, <2>6, <2>7
    <3> QED
      BY <1>2, <2>1, <2>3, <2>8, <3>1, <3>2 DEF PoolOK
  <2>10. \A j \in Kinds : j # k => PoolOK(j)'
    BY <2>1, <2>3, <2>7, PoolFrame DEF Pools
  <2>11. Shape'
    BY <1>2, <2>1, <2>3, <2>7 DEF Shape
  <2> QED
    BY <2>9, <2>10, <2>11 DEF Pools
<1>9. CASE ~(value[k] > 0 /\ waiters[k] = <<>>)
  <2>1. PICK s \in Seq(Requests) : s = waiters[k]
    BY <1>1, <1>2 DEF Shape
  <2>2. PICK t : t = Append(s, r)
    OBVIOUS
  <2>3. /\ waiters' = [waiters EXCEPT ![k] = t] /\ queued' = [queued EXCEPT ![k] = n + 1]
        /\ task' = [task EXCEPT ![r] = "queued"] /\ UNCHANGED <<value, active>>
    BY <1>1, <1>5, <1>9, <2>1, <2>2 DEF Arrive
  <2>4. "queued" \notin Holding
    BY DEF Holding
  <2>5. /\ DOMAIN task' = Requests /\ Held(k)' = Held(k) /\ Granted(k)' = Granted(k) /\ Waiting(k)' = Waiting(k) \cup {r}
        /\ \A j \in Kinds : j # k => Held(j)' = Held(j) /\ Granted(j)' = Granted(j) /\ Waiting(j)' = Waiting(j)
    <3>1. TaskStepped(r, k, "queued")
      BY <1>1, <1>2, <2>3, TaskStep
    <3> QED
      BY <1>4, <2>4, <3>1 DEF TaskStepped
  <2>6. IsInjective(s) /\ n = Len(s) /\ ToSet(s) = Granted(k) \cup Waiting(k) /\ Len(s) \in Nat
    BY <1>2, <1>5, <2>1, LenProperties DEF PoolOK
  <2>7. t \in Seq(Requests) /\ Len(t) = n + 1 /\ IsInjective(t) /\ ToSet(t) = ToSet(s) \cup {r}
    BY <1>4, <2>1, <2>2, <2>6, AppendOnce
  <2>8. PICK b \in Int : b = n + 1
    BY <1>6
  <2>9. /\ waiters' \in [Kinds -> Seq(Requests)] /\ waiters'[k] = t /\ queued' \in [Kinds -> Int] /\ queued'[k] = b
        /\ \A j \in Kinds : j # k => waiters'[j] = waiters[j] /\ queued'[j] = queued[j]
    BY <1>1, <1>2, <2>3, <2>7, <2>8 DEF Shape
  <2>10. value[k] > 0 => Granted(k) # {}
    <3>1. SUFFICES ASSUME value[k] > 0, Granted(k) = {} PROVE FALSE
      OBVIOUS
    <3>2. s # <<>>
      BY <1>9, <2>1, <3>1
    <3>3. ToSet(s) # {}
      <4>1. Len(s) # 0
        BY <2>1, <3>2, EmptySeq
      <4>2. 1 \in DOMAIN s
        BY <2>1, <2>6, <4>1, LenProperties
      <4> QED
        BY <4>2 DEF ToSet
    <3>4. Waiting(k) # {}
      BY <2>6, <3>1, <3>3
    <3> QED
      BY <1>2, <3>1, <3>4 DEF PoolOK
  <2>11. PoolOK(k)'
    <3>1. queued'[k] = Len(waiters'[k]) /\ IsInjective(waiters'[k]) /\ ToSet(waiters'[k]) = Granted(k)' \cup Waiting(k)'
      BY <2>5, <2>6, <2>7, <2>8, <2>9
    <3> QED
      BY <1>2, <2>3, <2>5, <2>10, <3>1 DEF PoolOK
  <2>12. \A j \in Kinds : j # k => PoolOK(j)'
    BY <2>3, <2>5, <2>9, PoolFrame DEF Pools
  <2>13. Shape'
    BY <1>2, <2>3, <2>5, <2>9 DEF Shape
  <2> QED
    BY <2>11, <2>12, <2>13 DEF Pools
<1> QED
  BY <1>8, <1>9

(* Nothing happens to the slots.                                           *)
LEMMA QuietPools ==
    ASSUME Pools, UNCHANGED <<pool, task>>
    PROVE  Pools'
<1>1. UNCHANGED <<value, waiters, active, queued, task>>
  BY DEF pool
<1>2. \A j \in Kinds : Held(j)' = Held(j) /\ Granted(j)' = Granted(j) /\ Waiting(j)' = Waiting(j)
  BY <1>1 DEF Held, Granted, Waiting, InPool
<1>3. \A j \in Kinds : PoolOK(j)'
  BY <1>1, <1>2, PoolFrame DEF Pools
<1> QED
  BY <1>1, <1>3 DEF Pools, Shape

(* A waiter is cancelled.                                                  *)
LEMMA CancelPools ==
    ASSUME Pools, NEW r \in Requests, Cancel(r)
    PROVE  Pools'
<1>1. PICK k \in Kinds : k = Kind[r]
  BY GatewayAssumption
<1>2. value[k] \in Nat /\ value[k] + 1 \in Nat /\ active \in [Kinds -> Int]
  BY <1>1 DEF Pools, Shape
<1>3. ASSUME UNCHANGED active PROVE active' = [active EXCEPT ![k] = @ + 0]
  <2>1. active[k] + 0 = active[k]
    BY <1>1, <1>2
  <2> QED
    BY <1>2, <1>3, <2>1
<1>4. PICK zero \in {0, 1} : zero = 0
  OBVIOUS
<1>5. CASE task[r] = "queued" /\ Dequeue(r, "cancelled", value[k]) /\ UNCHANGED active
  <2>1. PICK free \in Nat : free = value[k]
    BY <1>2
  <2>2. free = value[k] + (IF task[r] = "granted" THEN 1 - zero ELSE 0)
    BY <1>2, <1>5, <2>1
  <2>3. zero = 1 <=> "cancelled" = "admitted"
    BY <1>4
  <2>4. Dequeue(r, "cancelled", free) /\ active' = [active EXCEPT ![k] = @ + zero]
    BY <1>3, <1>4, <1>5, <2>1
  <2> QED
    BY <1>1, <1>5, <2>1, <2>2, <2>3, <2>4, DequeuePools
<1>6. CASE task[r] = "granted" /\ Dequeue(r, "cancelled", value[k] + 1) /\ UNCHANGED active
  <2>1. PICK free \in Nat : free = value[k] + 1
    BY <1>2
  <2>2. free = value[k] + (IF task[r] = "granted" THEN 1 - zero ELSE 0)
    BY <1>2, <1>4, <1>6, <2>1
  <2>3. zero = 1 <=> "cancelled" = "admitted"
    BY <1>4
  <2>4. Dequeue(r, "cancelled", free) /\ active' = [active EXCEPT ![k] = @ + zero]
    BY <1>3, <1>4, <1>6, <2>1
  <2> QED
    BY <1>1, <1>6, <2>1, <2>2, <2>3, <2>4, DequeuePools
<1>7. CASE task[r] \in Holding /\ Leave(r, "cancelled")
  <2>1. "cancelled" \notin Holding \cup {"queued", "granted"}
    BY DEF Holding
  <2> QED
    BY <1>7, <2>1, LeavePools
<1> QED
  BY <1>1, <1>5, <1>6, <1>7 DEF Cancel

(* A granted task goes on.                                                 *)
LEMMA ResumePools ==
    ASSUME Pools, NEW r \in Requests, Resume(r)
    PROVE  Pools'
<1>1. PICK k \in Kinds : k = Kind[r]
  BY GatewayAssumption
<1>2. value[k] \in Nat
  BY <1>1 DEF Pools, Shape
<1>3. PICK one \in {0, 1} : one = 1
  OBVIOUS
<1>4. PICK free \in Nat : free = value[k]
  BY <1>2
<1>5. task[r] = "granted" /\ Dequeue(r, "admitted", free) /\ active' = [active EXCEPT ![k] = @ + one]
  BY <1>1, <1>3, <1>4 DEF Resume
<1>6. free = value[k] + (IF task[r] = "granted" THEN 1 - one ELSE 0)
  BY <1>2, <1>3, <1>4, <1>5
<1>7. one = 1 <=> "admitted" = "admitted"
  BY <1>3
<1> QED
  BY <1>1, <1>5, <1>6, <1>7, DequeuePools

(* Every step of a request's task keeps the slots of its pool.             *)
LEMMA StepPools ==
    ASSUME Pools, [Next]_vars
    PROVE  Pools'
<1>1. /\ "answered" \notin Holding \cup {"queued", "granted"}
      /\ "refused" \notin Holding \cup {"queued", "granted"}
      /\ {"admitted", "sleeping", "handling"} = Holding
  BY DEF Holding
<1>2. CASE Tick \/ UNCHANGED vars
  BY <1>2, QuietPools DEF Tick, vars
<1>3. ASSUME NEW r \in Requests, Arrive(r) \/ Run(r) \/ Cancel(r) PROVE Pools'
  <2>1. CASE Arrive(r)
    BY <2>1, ArrivePools
  <2>2. CASE Cancel(r)
    BY <2>2, CancelPools
  <2>3. CASE Resume(r)
    BY <2>3, ResumePools
  <2>4. CASE Admit(r)
    <3>1. task[r] \in Holding /\ "sleeping" \in Holding
      BY <1>1, <2>4 DEF Admit, Data
    <3> QED
      BY <2>4, <3>1, HoldPools DEF Admit
  <2>5. CASE WakeUp(r)
    <3>1. task[r] \in Holding /\ "handling" \in Holding
      BY <1>1, <2>5 DEF WakeUp
    <3> QED
      BY <1>1, <2>5, <3>1, HoldPools, LeavePools DEF WakeUp
  <2>6. CASE Outage(r) \/ Refuse(r) \/ RefuseFails(r) \/ Handle(r) \/ SetLimit(r) \/ StartOutage(r) \/ Reset(r)
    <3>1. task[r] \in Holding /\ (Leave(r, "answered") \/ Leave(r, "refused"))
      BY <1>1, <2>6 DEF Outage, Refuse, RefuseFails, Handle, SetLimit, StartOutage, Reset, Data
    <3> QED
      BY <1>1, <3>1, LeavePools
  <2> QED
    BY <1>3, <2>1, <2>2, <2>3, <2>4, <2>5, <2>6 DEF Run
<1> QED
  BY <1>2, <1>3 DEF Next

LEMMA InitPools == Init => Pools
<1>1. HAVE Init
<1>2. DOMAIN task = Requests /\ \A r \in Requests : task[r] = "new"
  BY <1>1 DEF Init
<1>3. Shape
  <2>1. value \in [Kinds -> Nat]
    BY <1>1, GatewayAssumption DEF Init
  <2>2. waiters \in [Kinds -> Seq(Requests)] /\ active \in [Kinds -> Int] /\ queued \in [Kinds -> Int]
    BY <1>1 DEF Init
  <2> QED
    BY <1>2, <2>1, <2>2 DEF Shape
<1>4. ASSUME NEW k \in Kinds PROVE PoolOK(k)
  <2>1. Held(k) = {} /\ Granted(k) = {} /\ Waiting(k) = {}
    BY <1>2 DEF Held, Granted, Waiting, InPool, Holding
  <2>2. value[k] = Workers[k] /\ Workers[k] \in Nat /\ waiters[k] = <<>> /\ active[k] = 0 /\ queued[k] = 0
    BY <1>1, GatewayAssumption DEF Init
  <2>3. Cardinality({}) = 0
    BY FS_EmptySet
  <2>4. IsInjective(<<>>) /\ Len(<<>>) = 0 /\ ToSet(<<>>) = {}
    BY DEF IsInjective, ToSet
  <2> QED
    BY <2>1, <2>2, <2>3, <2>4 DEF PoolOK
<1> QED
  BY <1>3, <1>4 DEF Pools

(* Slots are neither lost nor handed out twice, whatever happens to the    *)
(* requests, in pools of any size.                                         *)
THEOREM SlotsKept == Spec => []SlotsConserved
<1>1. Pools => SlotsConserved
  BY DEF Pools, PoolOK, SlotsConserved, Held, Granted, Waiting
<1>2. Pools /\ [Next]_vars => Pools'
  BY StepPools
<1> QED
  BY InitPools, <1>1, <1>2, PTL DEF Spec

----------------------------------------------------------------------------
(* The rolling window.  `times` are the times of the requests let through  *)
(* after the first d, and those have left the window.                      *)
Follows(times, d) ==
    /\ Len(times) = Len(admits) - d
    /\ \A i \in 1..Len(times) : times[i] = admits[d + i].at
    /\ \A m \in 1..d : now - admits[m].at >= Window * Second

Rates ==
    /\ now \in Nat /\ limit \in Nat
    /\ request_times \in Seq(Nat) /\ admits \in Seq([at : Nat, limit : Nat])
    /\ \A i \in 1..Len(admits) : admits[i].at <= now
    /\ \A i, j \in 1..Len(admits) : i <= j => admits[i].at <= admits[j].at
    /\ \E d \in 0..Len(admits) : Follows(request_times, d)
    /\ RateLimited

LEMMA WindowType == Window * Second \in Nat /\ Window * Second >= Second /\ Second \in Nat \ {0}
<1>1. Window \in Nat \ {0} /\ Second \in Nat \ {0}
  BY GatewayAssumption
<1>2. Window * Second = Second + (Window - 1) * Second /\ (Window - 1) * Second \in Nat
  BY <1>1
<1> QED
  BY <1>1, <1>2

LEMMA AdmitTypes ==
    ASSUME Rates
    PROVE  /\ Len(admits) \in Nat /\ DOMAIN admits = 1..Len(admits)
           /\ \A i \in 1..Len(admits) : admits[i].at \in Nat /\ admits[i].limit \in Nat
<1>1. admits \in Seq([at : Nat, limit : Nat])
  BY DEF Rates
<1>2. \A i \in 1..Len(admits) : admits[i] \in [at : Nat, limit : Nat]
  BY <1>1, ElementOfSeq
<1> QED
  BY <1>1, <1>2, LenProperties

(* Of a list in order the entries inside the window w before t are its     *)
(* end.                                                                    *)
InOrder(times) == \A i, j \in 1..Len(times) : i <= j => times[i] <= times[j]

Inside(times, t, w) == {i \in DOMAIN times : t - times[i] < w}

LEMMA RecentEnd ==
    ASSUME NEW times \in Seq(Nat), InOrder(times), NEW t \in Nat, NEW w \in Nat
    PROVE  \E a \in 1..Len(times) + 1 : Inside(times, t, w) = a..Len(times)
<1> DEFINE P == Inside(times, t, w)
<1>1. Len(times) \in Nat /\ DOMAIN times = 1..Len(times) /\ \A i \in 1..Len(times) : times[i] \in Nat
  BY LenProperties, ElementOfSeq
<1>2. P = {i \in 1..Len(times) : t - times[i] < w}
  BY <1>1 DEF Inside
<1> HIDE DEF P
<1>3. CASE P = {}
  <2>1. Len(times) + 1 \in 1..Len(times) + 1 /\ Len(times) + 1..Len(times) = {}
    BY <1>1
  <2> QED
    BY <1>3, <2>1 DEF P
<1>4. CASE P # {}
  <2>1. P \subseteq Nat
    BY <1>1, <1>2
  <2>2. PICK a \in P : \A y \in P : a <= y
    BY <1>4, <2>1, LeastExists
  <2>3. a \in 1..Len(times) /\ t - times[a] < w
    BY <1>2, <2>2
  <2>4. \A i \in a..Len(times) : i \in P
    <3>1. TAKE i \in a..Len(times)
    <3>2. i \in 1..Len(times) /\ a <= i
      BY <1>1, <2>3
    <3>3. times[a] <= times[i] /\ times[a] \in Nat /\ times[i] \in Nat
      BY <1>1, <2>3, <3>2 DEF InOrder
    <3>4. t - times[i] < w
      BY <2>3, <3>3
    <3> QED
      BY <1>2, <3>2, <3>4
  <2>5. \A i \in P : i \in a..Len(times)
    BY <1>1, <1>2, <2>2, <2>3
  <2>6. P = a..Len(times)
    BY <2>4, <2>5
  <2>7. a \in 1..Len(times) + 1
    BY <1>1, <2>3
  <2> QED
    BY <2>6, <2>7 DEF P
<1> QED
  BY <1>3, <1>4

(* What the middleware keeps of _request_times are exactly the requests    *)
(* let through that are inside the window.                                 *)
LEMMA RecentFollows ==
    ASSUME Rates
    PROVE  /\ Recent \in Seq(Nat)
           /\ \E e \in 0..Len(admits) :
                 /\ Follows(Recent, e)
                 /\ \A m \in e + 1..Len(admits) : now - admits[m].at < Window * Second
<1>1. PICK d \in 0..Len(admits) : Follows(request_times, d)
  BY DEF Rates
<1>2. PICK n \in Nat : n = Len(admits)
  BY AdmitTypes
<1>3. PICK times \in Seq(Nat) : times = request_times
  BY DEF Rates
<1>4. PICK w \in Nat : w = Window * Second
  BY WindowType
<1>5. PICK L \in Nat : L = Len(times)
  BY <1>3, LenProperties
<1>6. /\ d \in 0..n /\ L = n - d /\ now \in Nat
      /\ \A i \in 1..L : times[i] = admits[d + i].at
      /\ \A m \in 1..d : now - admits[m].at >= w
  BY <1>1, <1>2, <1>3, <1>4, <1>5 DEF Follows, Rates
<1>7. \A i \in 1..n : admits[i].at \in Nat
  BY <1>2, AdmitTypes
<1>8. \A i, j \in 1..L : i <= j => times[i] <= times[j]
  <2>1. \A i, j \in 1..n : i <= j => admits[i].at <= admits[j].at
    BY <1>2 DEF Rates
  <2>2. \A i \in 1..L : d + i \in 1..n
    BY <1>6
  <2>3. \A i, j \in 1..L : i <= j => d + i <= d + j
    BY <1>6
  <2> QED
    BY <1>6, <2>1, <2>2, <2>3
<1>9. PICK P : P = {i \in DOMAIN times : now - times[i] < w}
  OBVIOUS
<1>10. PICK a \in 1..L + 1 : P = a..L
  <2>1. PICK t \in Nat : t = now
    BY <1>6
  <2>2. P = Inside(times, t, w)
    BY <1>9, <2>1 DEF Inside
  <2>3. InOrder(times)
    BY <1>5, <1>8 DEF InOrder
  <2>4. \E a \in 1..Len(times) + 1 : P = a..Len(times)
    BY <1>3, <1>4, <2>1, <2>2, <2>3, RecentEnd
  <2> QED
    BY <1>5, <2>4
<1>11. PICK len \in Nat : len = L - a + 1
  BY <1>5, <1>10
<1>12. a \in Nat /\ a..L = a..a + len - 1
  BY <1>5, <1>10, <1>11
<1>13. Recent = [i \in 1..len |-> times[a + i - 1]]
  <2>1. Recent = Kept(times, a..a + len - 1)
    BY <1>3, <1>4, <1>9, <1>10, <1>12 DEF Recent
  <2> QED
    BY <1>11, <1>12, <2>1, KeptOfInterval
<1>14. \A i \in 1..len : a + i - 1 \in 1..L /\ d + (a + i - 1) = (d + a - 1) + i
  BY <1>5, <1>6, <1>10, <1>11
<1>15. \A i \in 1..L : times[i] \in Nat
  BY <1>3, <1>5, ElementOfSeq
<1>16. Recent \in Seq(Nat) /\ Len(Recent) = len /\ \A i \in 1..len : Recent[i] = times[a + i - 1]
  <2>1. \A i \in 1..len : times[a + i - 1] \in Nat
    BY <1>14, <1>15
  <2>2. Recent \in Seq(Nat)
    BY <1>11, <1>13, <2>1, IsASeq
  <2>3. DOMAIN Recent = 1..len
    BY <1>13
  <2>4. Len(Recent) = len
    BY <1>11, <2>2, <2>3, LenProperties
  <2> QED
    BY <1>13, <2>2, <2>4
<1>17. PICK e \in 0..n : e = d + a - 1
  BY <1>5, <1>6, <1>10
<1>18. Len(Recent) = n - e
  BY <1>2, <1>5, <1>6, <1>10, <1>11, <1>16, <1>17
<1>19. \A i \in 1..Len(Recent) : Recent[i] = admits[e + i].at
  BY <1>6, <1>14, <1>16, <1>17
<1>20. \A i \in 1..L : now - times[i] < w <=> i >= a
  <2>1. DOMAIN times = 1..L
    BY <1>3, <1>5, LenProperties
  <2>2. \A i \in 1..L : i \in P <=> i >= a
    BY <1>5, <1>10
  <2> QED
    BY <1>9, <2>1, <2>2
<1>21. \A m \in 1..e : now - admits[m].at >= w
  <2>1. TAKE m \in 1..e
  <2>2. CASE m <= d
    <3>1. m \in 1..d
      BY <1>6, <1>17, <2>2
    <3> QED
      BY <1>6, <3>1
  <2>3. CASE m > d
    <3>1. PICK i \in 1..L : d + i = m /\ ~(i >= a)
      <4>1. m - d \in 1..L /\ d + (m - d) = m /\ ~(m - d >= a)
        BY <1>5, <1>6, <1>10, <1>17, <2>3
      <4> QED
        BY <4>1
    <3>2. ~(now - times[i] < w) /\ times[i] = admits[m].at
      BY <1>6, <1>20, <3>1
    <3> QED
      BY <1>4, <1>6, <1>15, <3>1, <3>2
  <2> QED
    BY <1>6, <1>17, <2>2, <2>3
<1>22. \A m \in e + 1..n : now - admits[m].at < w
  <2>1. TAKE m \in e + 1..n
  <2>2. PICK i \in 1..L : d + i = m /\ i >= a
    <3>1. m - d \in 1..L /\ d + (m - d) = m /\ m - d >= a
      BY <1>5, <1>6, <1>10, <1>17
    <3> QED
      BY <3>1
  <2> QED
    BY <1>6, <1>20, <2>2
<1>23. Follows(Recent, e)
  BY <1>2, <1>4, <1>18, <1>19, <1>21 DEF Follows
<1> QED
  <2>1. e \in 0..Len(admits) /\ \A m \in e + 1..Len(admits) : now - admits[m].at < Window * Second
    BY <1>2, <1>4, <1>17, <1>22
  <2> QED
    BY <1>16, <1>23, <2>1

(* The list is thrown away up to the window, or the clock goes on.         *)
LEMMA KeepRates ==
    ASSUME Rates, now' \in Nat, now' >= now, limit' \in Nat, UNCHANGED admits,
           \/ UNCHANGED request_times
           \/ now' = now /\ request_times' = Recent
    PROVE  Rates'
<1>1. PICK n \in Nat : n = Len(admits)
  BY AdmitTypes
<1>2. \A i \in 1..n : admits[i].at \in Nat
  BY <1>1, AdmitTypes
<1>3. now \in Nat /\ Window * Second \in Nat
  BY WindowType DEF Rates
<1>4. ASSUME NEW d \in 0..n, NEW times, Follows(times, d), times = request_times' PROVE Follows(request_times, d)'
  <2>1. Len(times) = Len(admits) - d /\ \A i \in 1..Len(times) : times[i] = admits[d + i].at
    BY <1>4 DEF Follows
  <2>2. \A m \in 1..d : now - admits[m].at >= Window * Second /\ m \in 1..n
    BY <1>1, <1>4 DEF Follows
  <2>3. \A m \in 1..d : now' - admits[m].at >= Window * Second
    BY <1>2, <1>3, <2>2
  <2> QED
    BY <1>4, <2>1, <2>3 DEF Follows
<1>5. request_times' \in Seq(Nat) /\ \E d \in 0..n : Follows(request_times, d)'
  <2>1. CASE UNCHANGED request_times
    BY <1>1, <1>4, <2>1 DEF Rates
  <2>2. CASE request_times' = Recent
    <3>1. Recent \in Seq(Nat) /\ \E e \in 0..n : Follows(Recent, e)
      BY <1>1, RecentFollows
    <3> QED
      BY <1>4, <2>2, <3>1
  <2> QED
    BY <2>1, <2>2
<1>6. \A i \in 1..n : admits[i].at <= now'
  BY <1>1, <1>2, <1>3 DEF Rates
<1>7. RateLimited'
  BY DEF Rates, RateLimited
<1>8. /\ admits' \in Seq([at : Nat, limit : Nat])
      /\ \A i, j \in 1..Len(admits') : i <= j => admits'[i].at <= admits'[j].at
  BY DEF Rates
<1> QED
  BY <1>1, <1>5, <1>6, <1>7, <1>8 DEF Rates

(* A request is let through.                                               *)
LEMMA AdmitRates ==
    ASSUME Rates, NEW r, Admit(r)
    PROVE  Rates'
<1>1. /\ Len(Recent) < limit /\ request_times' = Append(Recent, now) /\ UNCHANGED <<now, limit>>
      /\ admits' = Append(admits, [at |-> now, limit |-> limit])
  BY DEF Admit, knobs
<1>2. PICK n \in Nat : n = Len(admits)
  BY AdmitTypes
<1>3. PICK w \in Nat : w = Window * Second
  BY WindowType
<1>4. now \in Nat /\ limit \in Nat /\ admits \in Seq([at : Nat, limit : Nat])
  BY DEF Rates
<1>5. PICK times \in Seq(Nat), e \in 0..n : times = Recent /\ Follows(times, e)
  BY <1>2, RecentFollows
<1>6. PICK L \in Nat : L = Len(times)
  BY <1>5, LenProperties
<1>7. /\ L = n - e /\ \A i \in 1..L : times[i] = admits[e + i].at
      /\ \A m \in 1..e : now - admits[m].at >= w
  BY <1>2, <1>3, <1>5, <1>6 DEF Follows
<1>8. PICK new \in [at : Nat, limit : Nat] : new = [at |-> now, limit |-> limit]
  BY <1>4
<1>9. new.at = now /\ new.limit = limit
  BY <1>8
<1>10. /\ admits' \in Seq([at : Nat, limit : Nat]) /\ Len(admits') = n + 1
       /\ (\A i \in 1..n : admits'[i] = admits[i]) /\ admits'[n + 1] = new
  BY <1>1, <1>2, <1>4, <1>8, AppendProperties
<1>11. /\ request_times' \in Seq(Nat) /\ Len(request_times') = L + 1
       /\ (\A i \in 1..L : request_times'[i] = times[i]) /\ request_times'[L + 1] = now
  BY <1>1, <1>4, <1>5, <1>6, AppendProperties
<1>12. \A i \in 1..n : admits[i].at \in Nat /\ admits[i].at <= now
  BY <1>2, AdmitTypes DEF Rates
<1>13. \A i \in 1..n + 1 : i \in 1..n \/ i = n + 1
  BY <1>2
<1>14. \A i \in 1..n + 1 : admits'[i].at <= now
  <2>1. \A i \in 1..n : admits'[i].at <= now
    BY <1>10, <1>12
  <2>2. admits'[n + 1].at <= now
    BY <1>4, <1>9, <1>10
  <2> QED
    BY <1>13, <2>1, <2>2
<1>15. \A i, j \in 1..n + 1 : i <= j => admits'[i].at <= admits'[j].at
  <2>1. TAKE i, j \in 1..n + 1
  <2>2. HAVE i <= j
  <2>3. CASE j = n + 1
    BY <1>9, <1>10, <1>14, <2>3
  <2>4. CASE j \in 1..n
    <3>1. i \in 1..n
      BY <1>2, <2>2, <2>4
    <3>2. admits[i].at <= admits[j].at
      BY <1>2, <2>2, <2>4, <3>1 DEF Rates
    <3> QED
      BY <1>10, <2>4, <3>1, <3>2
  <2> QED
    BY <1>13, <2>3, <2>4
<1>16. Follows(request_times, e)'
  <2>1. Len(request_times') = Len(admits') - e
    BY <1>2, <1>5, <1>6, <1>7, <1>10, <1>11
  <2>2. \A i \in 1..L + 1 : request_times'[i] = admits'[e + i].at
    <3>1. TAKE i \in 1..L + 1
    <3>2. CASE i \in 1..L
      <4>1. e + i \in 1..n
        BY <1>5, <1>6, <1>7, <3>2
      <4> QED
        BY <1>7, <1>10, <1>11, <3>2, <4>1
    <3>3. CASE i = L + 1
      <4>1. e + i = n + 1
        BY <1>5, <1>6, <1>7, <3>3
      <4> QED
        BY <1>9, <1>10, <1>11, <3>3, <4>1
    <3> QED
      BY <1>6, <3>2, <3>3
  <2>3. \A m \in 1..e : m \in 1..n
    BY <1>5
  <2>4. \A m \in 1..e : now - admits'[m].at >= w
    BY <1>7, <1>10, <2>3
  <2> QED
    BY <1>1, <1>3, <1>11, <2>1, <2>2, <2>4 DEF Follows
<1>17. RateLimited'
  <2>1. SUFFICES ASSUME NEW p \in 1..n + 1
                 PROVE  Cardinality({m \in 1..p : admits'[p].at - admits'[m].at < w}) <= admits'[p].limit
    <3>1. DOMAIN admits' = 1..n + 1
      BY <1>10, LenProperties
    <3> QED
      BY <1>3, <3>1 DEF RateLimited
  <2>2. CASE p \in 1..n
    <3>1. \A m \in 1..p : m \in 1..n
      BY <2>2
    <3>2. {m \in 1..p : admits'[p].at - admits'[m].at < w} = {m \in 1..p : admits[p].at - admits[m].at < w}
      BY <1>10, <2>2, <3>1
    <3>3. p \in DOMAIN admits
      BY <1>2, <2>2, AdmitTypes
    <3>4. Cardinality({m \in 1..p : admits[p].at - admits[m].at < w}) <= admits[p].limit
      BY <1>3, <3>3 DEF Rates, RateLimited
    <3> QED
      BY <1>10, <2>2, <3>2, <3>4
  <2>3. CASE p = n + 1
    <3>1. PICK S : S = {m \in 1..p : admits'[p].at - admits'[m].at < w}
      OBVIOUS
    <3>2. S \subseteq e + 1..n + 1
      <4>1. SUFFICES ASSUME NEW m \in S, m \in 1..e PROVE FALSE
        BY <1>2, <1>5, <2>3, <3>1
      <4>2. m \in 1..n
        BY <1>5, <4>1
      <4>3. now - admits[m].at < w
        BY <1>9, <1>10, <2>3, <3>1, <4>1, <4>2
      <4>4. now - admits[m].at >= w /\ admits[m].at \in Nat
        BY <1>7, <1>12, <4>1, <4>2
      <4> QED
        BY <1>3, <1>4, <4>3, <4>4
    <3>3. IsFiniteSet(e + 1..n + 1) /\ Cardinality(e + 1..n + 1) = L + 1
      <4>1. e + 1 \in Int /\ n + 1 \in Int /\ ~(e + 1 > n + 1)
        BY <1>2, <1>5
      <4>2. Cardinality(e + 1..n + 1) = (n + 1) - (e + 1) + 1
        BY <4>1, FS_Interval
      <4>3. (n + 1) - (e + 1) + 1 = L + 1
        BY <1>2, <1>5, <1>6, <1>7
      <4> QED
        BY <4>1, <4>2, <4>3, FS_Interval
    <3>4. Cardinality(S) \in Nat /\ Cardinality(S) <= L + 1
      <4>1. IsFiniteSet(S) /\ Cardinality(S) <= Cardinality(e + 1..n + 1)
        BY <3>2, <3>3, FS_Subset
      <4>2. Cardinality(S) \in Nat
        BY <4>1, FS_CardinalityType
      <4> QED
        BY <3>3, <4>1, <4>2
    <3>5. L + 1 <= limit
      BY <1>1, <1>4, <1>5, <1>6
    <3>6. Cardinality(S) <= limit
      BY <1>4, <1>6, <3>4, <3>5
    <3> QED
      BY <1>9, <1>10, <2>3, <3>1, <3>6
  <2> QED
    BY <1>13, <2>1, <2>2, <2>3
<1>18. e \in 0..n + 1
  BY <1>2, <1>5
<1> QED
  BY <1>1, <1>4, <1>10, <1>11, <1>14, <1>15, <1>16, <1>17, <1>18 DEF Rates

LEMMA ResetRates ==
    ASSUME Rates, NEW r, Reset(r)
    PROVE  Rates'
<1>1. request_times' = <<>> /\ admits' = <<>> /\ limit' \in Nat /\ now' \in Nat
  BY GatewayAssumption DEF Reset, Rates
<1>2. Len(<<>>) = 0 /\ 1..0 = {} /\ DOMAIN <<>> = {} /\ 0 - 0 = 0 /\ 0 \in 0..0
  OBVIOUS
<1>3. Follows(request_times, 0)'
  BY <1>1, <1>2 DEF Follows
<1>4. RateLimited'
  BY <1>1, <1>2 DEF RateLimited
<1> QED
  BY <1>1, <1>2, <1>3, <1>4 DEF Rates

LEMMA StepRates ==
    ASSUME Rates, [Next]_vars
    PROVE  Rates'
<1>1. now \in Nat /\ limit \in Nat
  BY DEF Rates
<1>2. CASE UNCHANGED vars
  <2>1. UNCHANGED <<now, limit, admits, request_times>>
    BY <1>2 DEF vars, knobs
  <2> QED
    BY <1>1, <2>1, KeepRates
<1>3. CASE Tick
  <2>1. UNCHANGED <<limit, admits, request_times>> /\ now' = now + 1
    BY <1>3 DEF Tick, knobs
  <2> QED
    BY <1>1, <2>1, KeepRates
<1>4. ASSUME NEW r \in Requests, Arrive(r) \/ Run(r) \/ Cancel(r) PROVE Rates'
  <2>1. CASE Admit(r)
    BY <2>1, AdmitRates
  <2>2. CASE Reset(r)
    BY <2>2, ResetRates
  <2>3. CASE Refuse(r) \/ RefuseFails(r)
    <3>1. UNCHANGED <<now, limit, admits>> /\ request_times' = Recent
      BY <2>3 DEF Refuse, RefuseFails, knobs
    <3> QED
      BY <1>1, <3>1, KeepRates
  <2>4. CASE SetLimit(r)
    <3>1. UNCHANGED <<now, admits, request_times>> /\ limit' \in Nat
      BY <2>4, GatewayAssumption DEF SetLimit
    <3> QED
      BY <1>1, <3>1, KeepRates
  <2>5. CASE Arrive(r) \/ Cancel(r) \/ Resume(r) \/ Outage(r) \/ WakeUp(r) \/ Handle(r) \/ StartOutage(r)
    <3>1. UNCHANGED <<now, limit, admits, request_times>>
      BY <2>5 DEF Arrive, Cancel, Resume, Outage, WakeUp, Handle, StartOutage, knobs
    <3> QED
      BY <1>1, <3>1, KeepRates
  <2> QED
    BY <1>4, <2>1, <2>2, <2>3, <2>4, <2>5 DEF Run
<1> QED
  BY <1>2, <1>3, <1>4 DEF Next

LEMMA InitRates == Init => Rates
<1>1. HAVE Init
<1>2. now = 0 /\ request_times = <<>> /\ admits = <<>> /\ limit \in Nat
  BY <1>1, GatewayAssumption DEF Init
<1>3. Len(<<>>) = 0 /\ 1..0 = {} /\ DOMAIN <<>> = {} /\ 0 - 0 = 0 /\ 0 \in 0..0
  OBVIOUS
<1>4. Follows(request_times, 0)
  BY <1>2, <1>3 DEF Follows
<1>5. RateLimited
  BY <1>2, <1>3 DEF RateLimited
<1> QED
  BY <1>2, <1>3, <1>4, <1>5 DEF Rates

(* In no window of any length are more requests let through than the limit *)
(* in force at its last one, whatever limits operators set and whatever    *)
(* the requests meet in between.                                           *)
THEOREM LimitHolds == Spec => []RateLimited
<1>1. Rates => RateLimited
  BY DEF Rates
<1>2. Rates /\ [Next]_vars => Rates'
  BY StepRates
<1> QED
  BY InitRates, <1>1, <1>2, PTL DEF Spec

----------------------------------------------------------------------------
(* Retry-After.  Whoever is back has waited; the first refusal for an      *)
(* oldest request sends the client to within a second of the time this     *)
(* leaves the window, the second one past it.                              *)
Retries ==
    /\ refused \in [Requests -> [oldest : Nat, times : Nat]] /\ wake \in [Requests -> Nat]
    /\ \A r \in Requests :
          /\ task[r] # "refused" => now >= wake[r]
          /\ refused[r].times <= 2
          /\ refused[r].times >= 1 => wake[r] > refused[r].oldest + Window * Second - Second
          /\ refused[r].times >= 2 => wake[r] >= refused[r].oldest + Window * Second

LEMMA WholeSeconds ==
    ASSUME NEW s \in Nat \ {0}, NEW x \in Nat
    PROVE  /\ x \div s \in Nat /\ (x \div s) * s \in Nat
           /\ (x \div s) * s <= x /\ x < (x \div s) * s + s
<1>1. x \div s \in Int /\ x % s \in 0..s - 1 /\ x = s * (x \div s) + (x % s)
  OBVIOUS
<1>2. PICK q \in Int, m \in 0..s - 1 : q = x \div s /\ m = x % s
  BY <1>1
<1>3. x = s * q + m
  BY <1>1, <1>2
<1>4. q >= 0
  BY <1>2, <1>3
<1> QED
  BY <1>2, <1>3, <1>4

(* max(1, int(...)) seconds from now on: within a second of the time when  *)
(* oldest leaves the window, or past it when less than a second is left.   *)
LEMMA RetryAfter ==
    ASSUME now \in Nat, NEW oldest \in Nat, oldest <= now, now - oldest < Window * Second,
           NEW until, until = now + retry_after(oldest) * Second
    PROVE  /\ until \in Nat /\ until > oldest + Window * Second - Second
           /\ now > oldest + Window * Second - Second => until >= oldest + Window * Second
<1>1. PICK t \in Nat, w \in Nat, s \in Nat \ {0} : t = now /\ w = Window * Second /\ s = Second
  BY WindowType
<1>2. PICK x \in Nat : x = w - (t - oldest) /\ x > 0
  BY <1>1
<1>3. PICK q \in Nat : q = x \div s
  BY <1>1, <1>2, WholeSeconds
<1>4. q * s \in Nat /\ q * s <= x /\ x < q * s + s
  BY <1>1, <1>2, <1>3, WholeSeconds
<1>5. retry_after(oldest) = IF q < 1 THEN 1 ELSE q
  BY <1>1, <1>2, <1>3 DEF retry_after
<1>6. CASE q < 1
  <2>1. q = 0 /\ q * s = 0 /\ x < s
    BY <1>1, <1>4, <1>6
  <2>2. until = t + s
    BY <1>1, <1>5, <1>6
  <2> QED
    BY <1>1, <1>2, <2>1, <2>2
<1>7. CASE ~(q < 1)
  <2>1. until = t + q * s
    BY <1>1, <1>5, <1>7
  <2>2. q * s >= s
    <3>1. q * s = (q - 1) * s + s /\ q - 1 \in Nat
      BY <1>1, <1>3, <1>7
    <3>2. (q - 1) * s \in Nat
      BY <1>1, <3>1
    <3> QED
      BY <1>1, <3>1, <3>2
  <2>3. PICK y \in Nat : y = q * s
    BY <1>4
  <2> QED
    BY <1>1, <1>2, <1>4, <2>1, <2>2, <2>3
<1> QED
  BY <1>6, <1>7

(* The oldest request of a window that is not empty is inside the window.  *)
LEMMA OldestInside ==
    ASSUME Rates, Recent # <<>>, NEW oldest, oldest = Min(ToSet(Recent))
    PROVE  oldest \in Nat /\ oldest <= now /\ now - oldest < Window * Second
<1>1. PICK n \in Nat : n = Len(admits)
  BY AdmitTypes
<1>2. PICK times \in Seq(Nat), e \in 0..n :
         times = Recent /\ Follows(times, e) /\ \A m \in e + 1..n : now - admits[m].at < Window * Second
  BY <1>1, RecentFollows
<1>3. PICK L \in Nat : L = Len(times)
  BY <1>2, LenProperties
<1>4. L = n - e /\ \A i \in 1..L : times[i] = admits[e + i].at
  BY <1>1, <1>2, <1>3 DEF Follows
<1>5. L >= 1
  BY <1>2, <1>3, EmptySeq
<1>6. ToSet(times) \subseteq Nat /\ \A x : x \in ToSet(times) <=> \E i \in 1..L : times[i] = x
  BY <1>2, <1>3, ToSetOfSeq
<1>7. ToSet(times) # {}
  <2>1. 1 \in 1..L
    BY <1>3, <1>5
  <2> QED
    BY <1>6, <2>1
<1>8. PICK x \in ToSet(times) : \A y \in ToSet(times) : x <= y
  BY <1>6, <1>7, LeastExists
<1>9. oldest \in ToSet(times)
  BY <1>2, <1>8 DEF Min
<1>10. PICK i \in 1..L : times[i] = oldest
  BY <1>6, <1>9
<1>11. e + i \in e + 1..n /\ e + i \in 1..n
  BY <1>1, <1>2, <1>3, <1>4, <1>10
<1>12. admits[e + i].at <= now /\ admits[e + i].at \in Nat
  BY <1>1, <1>11, AdmitTypes DEF Rates
<1> QED
  BY <1>2, <1>4, <1>10, <1>11, <1>12

(* A client that was refused comes back only when its time has come.       *)
LEMMA WokenWaited ==
    ASSUME NEW r, NEW state, NEW free, NEW n, WakeUpNext(r, state, free, n), NEW q \in Requests, q # r, task[q] = "refused"
    PROVE  task'[q] = "refused"
<1>1. \A p \in FirstWaiters(Kind[r], r, n) : task[p] = "queued"
  BY DEF FirstWaiters, Ungranted
<1> QED
  BY <1>1 DEF WakeUpNext

LEMMA StaysRefused ==
    ASSUME [Next]_vars, DOMAIN task = Requests, NEW q \in Requests, task[q] = "refused", task'[q] # "refused"
    PROVE  now >= wake[q]
<1>1. CASE Tick \/ UNCHANGED vars
  BY <1>1 DEF Tick, vars
<1>2. ASSUME NEW r \in Requests, Arrive(r) \/ Run(r) \/ Cancel(r) PROVE now >= wake[q]
  <2>1. CASE Arrive(r)
    <3>1. task' = [task EXCEPT ![r] = "admitted"] \/ task' = [task EXCEPT ![r] = "queued"]
      BY <2>1 DEF Arrive
    <3>2. q = r
      BY <3>1
    <3> QED
      BY <2>1, <3>2 DEF Arrive
  <2>2. CASE Resume(r) \/ Cancel(r)
    <3>1. task[r] # "refused" /\ \E state, free, n : WakeUpNext(r, state, free, n)
      BY <2>2 DEF Resume, Cancel, Dequeue, Leave, Holding
    <3> QED
      BY <3>1, WokenWaited
  <2>3. CASE Admit(r)
    <3>1. task[r] # "refused" /\ task' = [task EXCEPT ![r] = "sleeping"]
      BY <2>3 DEF Admit, Data
    <3> QED
      BY <3>1
  <2>4. CASE WakeUp(r)
    <3>1. task[r] # "refused" /\ (Leave(r, "answered") \/ task' = [task EXCEPT ![r] = "handling"])
      BY <2>4 DEF WakeUp
    <3> QED
      BY <3>1, WokenWaited DEF Leave
  <2>5. CASE Outage(r) \/ Refuse(r) \/ RefuseFails(r) \/ Handle(r) \/ SetLimit(r) \/ StartOutage(r) \/ Reset(r)
    <3>1. task[r] # "refused" /\ (Leave(r, "answered") \/ Leave(r, "refused"))
      BY <2>5 DEF Outage, Refuse, RefuseFails, Handle, SetLimit, StartOutage, Reset, Data
    <3> QED
      BY <3>1, WokenWaited DEF Leave
  <2> QED
    BY <1>2, <2>1, <2>2, <2>3, <2>4, <2>5 DEF Run
<1> QED
  BY <1>1, <1>2 DEF Next

LEMMA RefuseRetries ==
    ASSUME Rates, Retries, DOMAIN task = Requests, [Next]_vars, NEW r \in Requests, Refuse(r)
    PROVE  Retries'
<1>1. PICK oldest : oldest = Min(ToSet(Recent))
  OBVIOUS
<1>2. PICK until : until = now + retry_after(oldest) * Second
  OBVIOUS
<1>3. PICK old : old = refused[r]
  OBVIOUS
<1>4. PICK new : new = [oldest |-> oldest, times |-> IF old.oldest = oldest THEN old.times + 1 ELSE 1]
  OBVIOUS
<1>5. /\ Data(r) /\ Recent # <<>> /\ Leave(r, "refused") /\ UNCHANGED now
      /\ wake' = [wake EXCEPT ![r] = until]
      /\ refused' = [refused EXCEPT ![r] = new]
  BY <1>1, <1>2, <1>3, <1>4 DEF Refuse
<1>6. now \in Nat /\ oldest \in Nat /\ oldest <= now /\ now - oldest < Window * Second
  BY <1>1, <1>5, OldestInside DEF Rates
<1>7. /\ until \in Nat /\ until > oldest + Window * Second - Second
      /\ now > oldest + Window * Second - Second => until >= oldest + Window * Second
  BY <1>2, <1>6, RetryAfter
<1>8. PICK t \in Nat, w \in Nat, s \in Nat : t = now /\ w = Window * Second /\ s = Second
  BY <1>6, WindowType
<1>9. PICK b \in Nat, o \in Nat, c \in Nat : b = wake[r] /\ o = old.oldest /\ c = old.times
  BY <1>3 DEF Retries
<1>10. t >= b /\ c <= 2 /\ (c >= 1 => b > o + w - s) /\ (c >= 2 => b >= o + w)
  <2>1. task[r] # "refused"
    BY <1>5 DEF Data
  <2> QED
    BY <1>3, <1>8, <1>9, <2>1 DEF Retries
<1>11. new.oldest = oldest /\ new.times = IF o = oldest THEN c + 1 ELSE 1
  BY <1>4, <1>9
<1>12. PICK n \in Nat : n = new.times
  BY <1>9, <1>11
<1>13. n <= 2 /\ until > oldest + w - s /\ (n >= 2 => until >= oldest + w)
  <2>1. until > oldest + w - s /\ (t > oldest + w - s => until >= oldest + w) /\ t - oldest < w
    BY <1>6, <1>7, <1>8
  <2>2. CASE o # oldest
    <3>1. n = 1
      BY <1>11, <1>12, <2>2
    <3> QED
      BY <2>1, <3>1
  <2>3. CASE o = oldest
    <3>1. n = c + 1
      BY <1>11, <1>12, <2>3
    <3>2. c < 2
      BY <1>6, <1>8, <1>9, <1>10, <2>1, <2>3
    <3>3. c >= 1 => t > oldest + w - s
      BY <1>6, <1>8, <1>9, <1>10, <2>3
    <3> QED
      BY <1>6, <1>8, <1>9, <2>1, <3>1, <3>2, <3>3
  <2> QED
    BY <2>2, <2>3
<1>14. new \in [oldest : Nat, times : Nat]
  BY <1>4, <1>6, <1>11, <1>12
<1>15. /\ refused' \in [Requests -> [oldest : Nat, times : Nat]] /\ wake' \in [Requests -> Nat]
       /\ refused'[r] = new /\ wake'[r] = until
       /\ \A q \in Requests : q # r => refused'[q] = refused[q] /\ wake'[q] = wake[q]
  BY <1>5, <1>7, <1>14 DEF Retries
<1>16. task'[r] = "refused"
  BY <1>5 DEF Leave, WakeUpNext
<1>17. \A q \in Requests : q # r /\ task'[q] # "refused" => now >= wake[q]
  BY StaysRefused DEF Retries
<1>18. ASSUME NEW q \in Requests
       PROVE  /\ task'[q] # "refused" => now' >= wake'[q]
              /\ refused'[q].times <= 2
              /\ refused'[q].times >= 1 => wake'[q] > refused'[q].oldest + Window * Second - Second
              /\ refused'[q].times >= 2 => wake'[q] >= refused'[q].oldest + Window * Second
  <2>1. CASE q = r
    BY <1>8, <1>11, <1>12, <1>13, <1>15, <1>16, <2>1
  <2>2. CASE q # r
    BY <1>5, <1>15, <1>17, <2>2 DEF Retries
  <2> QED
    BY <2>1, <2>2
<1> QED
  BY <1>15, <1>18 DEF Retries

LEMMA StepRetries ==
    ASSUME Rates, Retries, DOMAIN task = Requests, [Next]_vars
    PROVE  Retries'
<1>1. CASE \E r \in Requests : Refuse(r)
  BY <1>1, RefuseRetries
<1>2. CASE UNCHANGED <<wake, refused>> /\ now' \in Nat /\ now' >= now
  <2>1. now \in Nat /\ wake \in [Requests -> Nat]
    BY DEF Rates, Retries
  <2>2. \A q \in Requests : task'[q] # "refused" => now >= wake[q]
    BY StaysRefused DEF Retries
  <2>3. \A q \in Requests : task'[q] # "refused" => now' >= wake'[q]
    BY <1>2, <2>1, <2>2
  <2> QED
    BY <1>2, <2>3 DEF Retries
<1>3. (\E r \in Requests : Refuse(r)) \/ (UNCHANGED <<wake, refused>> /\ now' \in Nat /\ now' >= now)
  <2>1. now \in Nat
    BY DEF Rates
  <2>2. CASE Tick
    BY <2>1, <2>2 DEF Tick
  <2>3. CASE UNCHANGED vars
    BY <2>1, <2>3 DEF vars
  <2>4. ASSUME NEW r \in Requests, Arrive(r) \/ Run(r) \/ Cancel(r), ~Refuse(r)
        PROVE  UNCHANGED <<wake, refused>> /\ now' = now
    BY <2>4 DEF Run, Arrive, Cancel, Resume, Outage, RefuseFails, Admit, WakeUp, Handle,
                 SetLimit, StartOutage, Reset
  <2> QED
    BY <2>1, <2>2, <2>3, <2>4 DEF Next
<1> QED
  BY <1>1, <1>2, <1>3

LEMMA InitRetries == Init => Retries
<1>1. HAVE Init
<1>2. refused \in [Requests -> [oldest : Nat, times : Nat]] /\ wake \in [Requests -> Nat]
  BY <1>1 DEF Init
<1>3. now = 0 /\ \A r \in Requests : wake[r] = 0 /\ refused[r].times = 0
  BY <1>1 DEF Init
<1> QED
  BY <1>2, <1>3 DEF Retries

(* A client that waits for Retry-After is refused at most twice on account *)
(* of the same oldest request, for every window and resolution of the      *)
(* clock.                                                                  *)
THEOREM RetryConverges == Spec => []RetryAfterConverges
<1> DEFINE Inv == Pools /\ Rates /\ Retries
<1>1. Init => Inv
  BY InitPools, InitRates, InitRetries
<1>2. Inv /\ [Next]_vars => Inv'
  <2>1. Pools => DOMAIN task = Requests
    BY DEF Pools, Shape
  <2> QED
    BY <2>1, StepPools, StepRates, StepRetries
<1>3. Inv => RetryAfterConverges
  BY DEF Retries, RetryAfterConverges
<1> QED
  BY <1>1, <1>2, <1>3, PTL DEF Spec
=============================================================================
