-------------------------- MODULE CompactionProofs --------------------------
(***************************************************************************)
(* What holds of the files of a CRM object for every set of records, every *)
(* number of dates and sessions, and every interleaving of the simulator,  *)
(* the compactor and the queries.                                          *)
(*                                                                         *)
(* The argument.  The partitions on disk are always those of an interval   *)
(* m+1..published, because the compactor unlinks the oldest first, and the *)
(* base holds the rows after some date n with m <= n: a partition is gone  *)
(* only when its changes are in the base.  All rows of one id are members  *)
(* of one growing chain of sets, so ranking finds the last of them.  Only  *)
(* m, n and the last date ever grow, so a listing that is out of date is   *)
(* wrong in a bounded way.                                                 *)
(***************************************************************************)
EXTENDS Compaction, NumberLemmas, TLAPS

USE CompactionAssumption DEF Dates

(* The rows after the first n dates; a constant of the specification.      *)
Rows(n) == [i \in Ids |-> {d \in 1..n : i \in Changed[d]}
                              \cup (IF i \in SeedIds THEN {0} ELSE {})]

(* The rows of the partition of date d.                                    *)
Partition(d) == [i \in Ids |-> IF i \in Changed[d] THEN Rows(d)[i] ELSE {}]

-----------------------------------------------------------------------------
(* Dataset's rows are these rows.                                          *)
LEMMA CurrentIsRows == ASSUME NEW n PROVE D!Current(n) = Rows(n)
BY DEF D!Current, Rows

(* A row names the seed and dates it was built from, none after n.         *)
LEMMA RowsType ==
    ASSUME NEW n \in Nat, NEW i \in Ids
    PROVE  /\ Rows(n)[i] \subseteq 0..n
           /\ \A d \in 1..n : d \in Rows(n)[i] <=> i \in Changed[d]
           /\ 0 \in Rows(n)[i] <=> i \in SeedIds
BY DEF Rows

(* The rows of one id grow with the dates.                                 *)
LEMMA RowsGrow ==
    ASSUME NEW n \in Nat, NEW m \in 0..n, NEW i \in Ids
    PROVE  Rows(m)[i] \subseteq Rows(n)[i]
BY DEF Rows

(* Dates without an event for an id leave its row alone.                   *)
LEMMA RowsStay ==
    ASSUME NEW n \in Nat, NEW m \in 0..n, NEW i \in Ids,
           \A d \in (m + 1)..n : i \notin Changed[d]
    PROVE  Rows(m)[i] = Rows(n)[i]
<1>1. \A d \in 1..n : i \in Changed[d] => d \in 1..m
  OBVIOUS
<1>2. {d \in 1..n : i \in Changed[d]} = {d \in 1..m : i \in Changed[d]}
  BY <1>1
<1> QED
  BY <1>2 DEF Rows

(* The row of an id with events since date m was made by the last of them. *)
LEMMA LastChange ==
    ASSUME NEW n \in Nat, NEW m \in 0..n, NEW i \in Ids,
           \E d \in (m + 1)..n : i \in Changed[d]
    PROVE  \E d \in (m + 1)..n : i \in Changed[d] /\ Rows(d)[i] = Rows(n)[i]
<1> DEFINE S == {d \in (m + 1)..n : i \in Changed[d]}
<1>1. S \subseteq 0..n /\ S # {}
  OBVIOUS
<1>2. PICK d \in S : \A e \in S : e <= d
  <2> HIDE DEF S
  <2> QED
    BY <1>1, GreatestExists
<1>3. d \in 0..n /\ \A e \in (d + 1)..n : i \notin Changed[e]
  BY <1>2
<1> QED
  BY <1>2, <1>3, RowsStay

(* Ranking rows of one id finds the last of the chain, if it is there.     *)
LEMMA NewestIsLast ==
    ASSUME NEW p \in Nat, NEW i \in Ids, NEW R,
           \A r \in R : r = {} \/ \E k \in 0..p : r = Rows(k)[i],
           Rows(p)[i] \in R \/ Rows(p)[i] = {}
    PROVE  Newest(R) = Rows(p)[i]
<1> DEFINE present == R \ {{}}
           last == Rows(p)[i]
           r == CHOOSE x \in present : \A q \in present : Max(q) <= Max(x)
<1>1. \A q \in present : q \subseteq last /\ q \subseteq 0..p /\ q # {}
  BY RowsGrow, RowsType
<1>2. CASE last = {}
  BY <1>1, <1>2 DEF Newest
<1>3. CASE last # {}
  <2>1. last \in present
    BY <1>3
  <2>2. \A q \in present : Max(q) \in q /\ Max(q) \in last
    BY <1>1, MaxIsGreatest
  <2>3. Max(last) \in last /\ \A y \in last : y <= Max(last)
    BY <1>1, <2>1, MaxIsGreatest
  <2>4. r \in present /\ \A q \in present : Max(q) <= Max(r)
    BY <2>1, <2>2, <2>3
  <2>5. Newest(R) = r
    BY <2>1 DEF Newest
  <2> HIDE DEF r
  <2>6. Max(r) = Max(last)
    BY <1>1, <2>1, <2>2, <2>3, <2>4
  <2>7. PICK k \in 0..p : r = Rows(k)[i]
    BY <2>4
  <2>8. Max(last) \in Rows(k)[i] /\ Max(last) \in 0..k
    BY <2>2, <2>4, <2>6, <2>7, RowsType
  <2>9. \A d \in last : d \in Rows(k)[i]
    <3> TAKE d \in last
    <3>1. d \in 0..p /\ d <= Max(last) /\ Max(last) \in 0..k
      BY <2>3, <2>8, RowsType
    <3>2. CASE d = 0
      BY <3>2, RowsType
    <3>3. CASE d # 0
      BY <3>1, <3>3, RowsType
    <3> QED
      BY <3>2, <3>3
  <2>10. Rows(k)[i] \subseteq last
    BY RowsGrow
  <2> QED
    BY <2>5, <2>7, <2>9, <2>10
<1> QED
  BY <1>2, <1>3

-----------------------------------------------------------------------------
(* What a published partition holds never changes: its date's new rows.    *)
PartsOK == \A d \in 1..published : part[d] = Partition(d)

(* A partition holds a row of the chain, or none.                          *)
LEMMA PartitionRow ==
    ASSUME NEW d, NEW i \in Ids
    PROVE  Partition(d)[i] = IF i \in Changed[d] THEN Rows(d)[i] ELSE {}
BY DEF Partition

(* Ranking partitions together with a base that covers what is before them *)
(* gives the rows after the last of them; other files that hold earlier    *)
(* rows do no harm.                                                        *)
LEMMA RankedIsRows ==
    ASSUME published \in Nat, PartsOK,
           NEW p \in 0..published, NEW m \in 0..p, NEW n \in m..p, NEW paths,
           \E x \in paths : BaseRows(x) = Rows(n),
           \A x \in paths : \E k \in 0..p : BaseRows(x) = Rows(k)
    PROVE  Ranked(paths, (m + 1)..p) = Rows(p)
<1>1. ASSUME NEW i \in Ids
      PROVE  Newest({BaseRows(x)[i] : x \in paths} \cup {part[d][i] : d \in (m + 1)..p})
                 = Rows(p)[i]
  <2> DEFINE R == {BaseRows(x)[i] : x \in paths} \cup {part[d][i] : d \in (m + 1)..p}
  <2>1. \A d \in (m + 1)..p : part[d][i] = IF i \in Changed[d] THEN Rows(d)[i] ELSE {}
    BY PartitionRow DEF PartsOK
  <2>2. \A r \in R : r = {} \/ \E k \in 0..p : r = Rows(k)[i]
    <3>1. ASSUME NEW d \in (m + 1)..p
          PROVE  part[d][i] = {} \/ \E k \in 0..p : part[d][i] = Rows(k)[i]
      BY <2>1
    <3>2. ASSUME NEW x \in paths PROVE \E k \in 0..p : BaseRows(x)[i] = Rows(k)[i]
      OBVIOUS
    <3> QED
      BY <3>1, <3>2
  <2>3. Rows(n)[i] \in R
    OBVIOUS
  <2>4. \A d \in (m + 1)..p : part[d][i] \in R
    OBVIOUS
  <2> HIDE DEF R
  <2>5. Rows(p)[i] \in R
    <3>1. CASE \E d \in (m + 1)..p : i \in Changed[d]
      <4>1. p \in Nat
        OBVIOUS
      <4>2. PICK d \in (m + 1)..p : i \in Changed[d] /\ Rows(d)[i] = Rows(p)[i]
        BY <3>1, <4>1, LastChange
      <4> QED
        BY <2>1, <2>4, <4>2
    <3>2. CASE \A d \in (m + 1)..p : i \notin Changed[d]
      BY <2>3, <3>2, RowsStay
    <3> QED
      BY <3>1, <3>2
  <2>6. Newest(R) = Rows(p)[i]
    BY <2>2, <2>5, NewestIsLast
  <2> QED
    BY <2>6 DEF R
<1>2. Ranked(paths, (m + 1)..p) = [i \in Ids |-> Rows(p)[i]]
  BY <1>1 DEF Ranked
<1>3. Rows(p) = [i \in Ids |-> Rows(p)[i]]
  BY DEF Rows
<1> QED
  BY <1>2, <1>3

(* Partitions alone give the rows of the ids they mention, and no others.  *)
LEMMA RankedParts ==
    ASSUME published \in Nat, PartsOK,
           NEW p \in 0..published, NEW m \in 0..p, NEW i \in Ids
    PROVE  /\ (\E d \in (m + 1)..p : i \in Changed[d]) =>
                  Ranked({}, (m + 1)..p)[i] = Rows(p)[i] /\ Rows(p)[i] # {}
           /\ (\A d \in (m + 1)..p : i \notin Changed[d]) =>
                  Ranked({}, (m + 1)..p)[i] = {}
<1> DEFINE R == {part[d][i] : d \in (m + 1)..p}
<1>1. \A d \in (m + 1)..p : part[d][i] = IF i \in Changed[d] THEN Rows(d)[i] ELSE {}
  BY PartitionRow DEF PartsOK
<1>2. Ranked({}, (m + 1)..p)[i] = Newest(R)
  BY DEF Ranked
<1>3. ASSUME \E d \in (m + 1)..p : i \in Changed[d]
      PROVE  Newest(R) = Rows(p)[i] /\ Rows(p)[i] # {}
  <2>1. \A r \in R : r = {} \/ \E k \in 0..p : r = Rows(k)[i]
    BY <1>1
  <2>2. PICK d \in (m + 1)..p : i \in Changed[d] /\ Rows(d)[i] = Rows(p)[i]
    <3>1. p \in Nat
      OBVIOUS
    <3> QED
      BY <1>3, <3>1, LastChange
  <2>3. Rows(p)[i] \in R
    BY <1>1, <2>2
  <2>4. Newest(R) = Rows(p)[i]
    <3> HIDE DEF R
    <3> QED
      BY <2>1, <2>3, NewestIsLast
  <2>5. d \in Rows(p)[i]
    BY <2>2, RowsType
  <2> QED
    BY <2>4, <2>5
<1>4. ASSUME \A d \in (m + 1)..p : i \notin Changed[d]
      PROVE  Newest(R) = {}
  <2>1. \A r \in R : r = {}
    BY <1>1, <1>4
  <2> QED
    BY <2>1 DEF Newest
<1> QED
  BY <1>2, <1>3, <1>4

(* A base alone gives its rows.                                            *)
LEMMA RankedBase ==
    ASSUME NEW n \in Nat, NEW x, BaseRows(x) = Rows(n), NEW i \in Ids
    PROVE  Ranked({x}, {})[i] = Rows(n)[i]
<1>1. Ranked({x}, {})[i] = Newest({Rows(n)[i]})
  <2>1. {BaseRows(y)[i] : y \in {x}} \cup {part[d][i] : d \in {}} = {Rows(n)[i]}
    OBVIOUS
  <2> QED
    BY <2>1 DEF Ranked
<1>2. \A r \in {Rows(n)[i]} : r = {} \/ \E k \in 0..n : r = Rows(k)[i]
  OBVIOUS
<1> QED
  BY <1>1, <1>2, NewestIsLast

(* A view over a base and the partitions since date m: the ids that a      *)
(* partition mentions come from the partitions, the others from the base.  *)
LEMMA OverlayRow ==
    ASSUME published \in Nat, PartsOK,
           NEW p \in 0..published, NEW m \in 0..p, NEW n \in Nat,
           NEW x, BaseRows(x) = Rows(n), NEW i \in Ids
    PROVE  Overlay({x}, {}, (m + 1)..p)[i] =
               IF \E d \in (m + 1)..p : i \in Changed[d] THEN Rows(p)[i] ELSE Rows(n)[i]
<1>1. Overlay({x}, {}, (m + 1)..p)[i] =
          IF Ranked({}, (m + 1)..p)[i] # {} THEN Ranked({}, (m + 1)..p)[i]
          ELSE Ranked({x}, {})[i]
  BY DEF Overlay
<1> QED
  BY <1>1, RankedParts, RankedBase

(* If the base is no newer than the partitions and covers what is before   *)
(* them, the view is the rows after the last partition.                    *)
LEMMA OverlayIsRows ==
    ASSUME published \in Nat, PartsOK,
           NEW p \in 0..published, NEW m \in 0..p, NEW n \in m..p,
           NEW x, BaseRows(x) = Rows(n)
    PROVE  Overlay({x}, {}, (m + 1)..p) = Rows(p)
<1>1. ASSUME NEW i \in Ids PROVE Overlay({x}, {}, (m + 1)..p)[i] = Rows(p)[i]
  <2>1. CASE \E d \in (m + 1)..p : i \in Changed[d]
    BY <2>1, OverlayRow
  <2>2. CASE \A d \in (m + 1)..p : i \notin Changed[d]
    <3>1. Rows(n)[i] = Rows(p)[i]
      BY <2>2, RowsStay
    <3> QED
      BY <2>2, <3>1, OverlayRow
  <2> QED
    BY <2>1, <2>2
<1>2. Overlay({x}, {}, (m + 1)..p) = [i \in Ids |-> Overlay({x}, {}, (m + 1)..p)[i]]
  BY DEF Overlay
<1>3. Rows(p) = [i \in Ids |-> Rows(p)[i]]
  BY DEF Rows
<1> QED
  BY <1>1, <1>2, <1>3

(* A view in which the old base is ranked with the partitions, as one that *)
(* was resolved before the first compaction and created after it.          *)
LEMMA OverlayOfOthers ==
    ASSUME published \in Nat, NEW p \in Nat, NEW paths, NEW others, NEW dates,
           Ranked(others, dates) = Rows(p),
           \A i \in Ids : Ranked(paths, {})[i] \subseteq Rows(p)[i]
    PROVE  Overlay(paths, others, dates) = Rows(p)
<1>1. \A i \in Ids : Overlay(paths, others, dates)[i] = Rows(p)[i]
  BY DEF Overlay
<1>2. Overlay(paths, others, dates) = [i \in Ids |-> Overlay(paths, others, dates)[i]]
  BY DEF Overlay
<1>3. Rows(p) = [i \in Ids |-> Rows(p)[i]]
  BY DEF Rows
<1> QED
  BY <1>1, <1>2, <1>3

(* The seed is the rows before the first date.                             *)
LEMMA SeedIsRows == SeedFile = Rows(0)
BY DEF SeedFile, Rows

-----------------------------------------------------------------------------
FileRows == [Ids -> SUBSET Nat]
Paths    == {"seed", "compacted"}
Stamp    == [seed: FileRows, delta: [dates: SUBSET Nat, compacted: BOOLEAN, base: FileRows]]
Locals   == [pc: {"idle", "stamped", "base", "sourced", "viewed", "answered"},
             start: Nat, stamp: Stamp, paths: SUBSET Paths, dates: SUBSET Nat,
             others: SUBSET Paths, ok: BOOLEAN, rows: FileRows]

TypeOK ==
    /\ published \in 0..LastDate
    /\ disk \in SUBSET Nat
    /\ part \in [Dates -> FileRows]
    /\ compacted \in BOOLEAN
    /\ base \in FileRows
    /\ sim \in [pc: {"idle", "listed", "read"}, compacted: BOOLEAN,
               dates: SUBSET Nat, rows: FileRows]
    /\ comp \in [pc: {"idle", "planned", "written", "remove"}, paths: SUBSET Paths,
                dates: SUBSET Nat, rows: FileRows]
    /\ cache \in [valid: BOOLEAN, stamp: Stamp, paths: SUBSET Paths, dates: SUBSET Nat]
    /\ sess \in [Sessions -> Locals]

(* The files: the partitions after date m, over the rows after date n.     *)
Layout(m, n) ==
    /\ n \in 0..published /\ m \in 0..n
    /\ disk = (m + 1)..published
    /\ compacted => base = Rows(n)
    /\ ~compacted => base = NoRows /\ n = 0

(* The compactor has merged, or will, what it goes on to unlink.           *)
CompOK(m, n) ==
    /\ comp.pc \in {"planned", "written"} =>
          /\ comp.paths = effective_base
          /\ \E p \in n..published : /\ comp.dates = (m + 1)..p
                                     /\ comp.pc = "written" => comp.rows = Rows(p)
    /\ comp.pc = "remove" => compacted /\ comp.dates = (m + 1)..n

(* The simulator's listing lacks nothing that is not in the merged base it *)
(* will read, so the rows it works on are the current ones.                *)
SimOK(m) ==
    /\ sim.pc # "idle" => published < LastDate
    /\ sim.pc = "listed" =>
          IF sim.compacted THEN compacted /\ \E l \in 0..m : sim.dates = (l + 1)..published
                           ELSE ~compacted /\ sim.dates = disk
    /\ sim.pc = "read" => sim.rows = Rows(published)

(* A fingerprint taken when the files were those of dates ms, ns and p.    *)
StampAt(stamp, ms, ns, p) ==
    /\ p \in 0..LastDate /\ ns \in 0..p /\ ms \in 0..ns
    /\ stamp.seed = SeedFile
    /\ stamp.delta.dates = (ms + 1)..p
    /\ stamp.delta.compacted => stamp.delta.base = Rows(ns)
    /\ ~stamp.delta.compacted => stamp.delta.base = NoRows /\ ns = 0

(* Paths that were resolved when the partitions were those of m1+1..p1.    *)
ResolvedAt(paths, dates, m1, p1) ==
    /\ m1 \in 0..p1
    /\ dates = (m1 + 1)..p1
    /\ \/ paths = {"seed"} /\ m1 = 0
       \/ paths = {"compacted"} /\ compacted

(* What is cached was resolved no earlier than its fingerprint.            *)
CacheOK(m) ==
    cache.valid => \E ms \in 0..m, ns \in Nat, p \in 0..published :
        /\ StampAt(cache.stamp, ms, ns, p)
        /\ \E m1 \in ms..m, p1 \in p..published :
               ResolvedAt(cache.paths, cache.dates, m1, p1)

(* What a session has read, resolved and answered.                         *)
SessOK(s, m) ==
    /\ sess[s].pc \in {"stamped", "base", "sourced", "viewed"} =>
          /\ sess[s].start \in 0..published
          /\ \E ms \in 0..m, ns \in Nat :
                /\ StampAt(sess[s].stamp, ms, ns, sess[s].start)
                /\ sess[s].pc \in {"sourced", "viewed"} =>
                      \E m1 \in ms..m, p1 \in sess[s].start..published :
                          ResolvedAt(sess[s].paths \cup sess[s].others,
                                     sess[s].dates, m1, p1)
    /\ sess[s].pc = "base" => sess[s].paths = effective_base
    /\ sess[s].pc \in {"stamped", "base", "sourced"} => sess[s].others = {}
    /\ sess[s].pc = "viewed" =>
          sess[s].others = {} \/ (sess[s].others = {"seed"} /\ sess[s].paths = {})
    /\ sess[s].pc = "answered" /\ sess[s].ok =>
          \A i \in Ids : \E k \in sess[s].start..published :
              sess[s].rows[i] = Rows(k)[i]

InvAt(m, n) ==
    /\ Layout(m, n) /\ PartsOK
    /\ CompOK(m, n) /\ SimOK(m) /\ CacheOK(m)
    /\ \A s \in Sessions : SessOK(s, m)

Inv == TypeOK /\ \E m, n \in 0..LastDate : InvAt(m, n)

-----------------------------------------------------------------------------
(* Rows are files.                                                         *)
LEMMA RowsInFileRows ==
    ASSUME NEW n \in Nat
    PROVE  Rows(n) \in FileRows /\ Partition(n) \in FileRows
<1>1. Rows(n) \in FileRows
  BY DEF Rows, FileRows
<1>2. \A i \in Ids : Rows(n)[i] \in SUBSET Nat
  BY <1>1 DEF FileRows
<1> QED
  BY <1>1, <1>2 DEF Partition, FileRows

(* Every date has an event, so different dates leave different files.      *)
LEMMA RowsDiffer ==
    ASSUME NEW n \in 0..LastDate, NEW m \in 0..LastDate, Rows(m) = Rows(n)
    PROVE  m = n
<1>1. ASSUME NEW a \in 0..LastDate, NEW b \in 0..LastDate, a < b, Rows(a) = Rows(b)
      PROVE  FALSE
  <2>1. b \in Dates /\ b \in 1..b /\ b \notin 0..a
    BY <1>1
  <2>2. PICK i \in Ids : i \in Changed[b]
    BY <2>1
  <2>3. b \in Rows(b)[i]
    BY <2>1, <2>2, RowsType
  <2>4. b \notin Rows(a)[i]
    BY <2>1, RowsType
  <2> QED
    BY <1>1, <2>3, <2>4
<1> QED
  BY <1>1

(* Only the rows before the first date can be no rows at all.              *)
LEMMA NoRowsIsFirst ==
    ASSUME NEW n \in 0..LastDate, Rows(n) = NoRows
    PROVE  n = 0
<1> SUFFICES ASSUME n # 0 PROVE FALSE
  OBVIOUS
<1>1. n \in Dates /\ n \in 1..n
  OBVIOUS
<1>2. PICK i \in Ids : i \in Changed[n]
  BY <1>1
<1>3. n \in Rows(n)[i]
  BY <1>1, <1>2, RowsType
<1> QED
  BY <1>3 DEF NoRows

(* A fingerprint tells when it was taken: no two layouts of the files have *)
(* the same one.                                                           *)
LEMMA StampUnique ==
    ASSUME NEW st, NEW ms \in Nat, NEW ns \in Nat, NEW p \in Nat, StampAt(st, ms, ns, p),
           NEW mt \in Nat, NEW nt \in Nat, NEW q \in Nat, StampAt(st, mt, nt, q)
    PROVE  ms = mt /\ p = q
<1>1. /\ p \in 0..LastDate /\ ns \in 0..p /\ ms \in 0..ns
      /\ q \in 0..LastDate /\ nt \in 0..q /\ mt \in 0..nt
      /\ (ms + 1)..p = (mt + 1)..q
  BY DEF StampAt
<1>2. CASE ms < p
  <2>1. ms + 1 \in (mt + 1)..q /\ p \in (mt + 1)..q
    BY <1>1, <1>2
  <2>2. mt + 1 \in (ms + 1)..p /\ q \in (ms + 1)..p
    BY <1>1, <2>1
  <2> QED
    BY <1>1, <2>1, <2>2
<1>3. CASE ms = p
  <2>1. mt = q
    <3> SUFFICES ASSUME mt < q PROVE FALSE
      BY <1>1
    <3>1. q \in (mt + 1)..q
      BY <1>1
    <3> QED
      BY <1>1, <1>3, <3>1
  <2>2. ns = p /\ nt = q
    BY <1>1, <1>3, <2>1
  <2>3. CASE st.delta.compacted
    BY <1>1, <1>3, <2>1, <2>2, <2>3, RowsDiffer DEF StampAt
  <2>4. CASE ~st.delta.compacted
    BY <1>3, <2>1, <2>2, <2>4 DEF StampAt
  <2> QED
    BY <2>3, <2>4
<1> QED
  BY <1>1, <1>2, <1>3

(* What the base holds, whichever file it is.                              *)
LEMMA BaseAt ==
    ASSUME TypeOK, NEW m, NEW n, Layout(m, n)
    PROVE  \E x \in Paths : effective_base = {x} /\ BaseRows(x) = Rows(n)
BY SeedIsRows DEF TypeOK, Layout, effective_base, BaseRows, Paths

(* The fingerprint of this moment is one of this layout.                   *)
LEMMA StampNow ==
    ASSUME TypeOK, NEW m, NEW n, Layout(m, n)
    PROVE  /\ structural_fingerprint \in Stamp
           /\ StampAt(structural_fingerprint, m, n, published)
<1>1. SeedFile \in FileRows
  BY SeedIsRows, RowsInFileRows
<1>2. structural_fingerprint \in Stamp
  BY <1>1 DEF structural_fingerprint, _directory_signature, Stamp, TypeOK
<1>3. StampAt(structural_fingerprint, m, n, published)
  BY DEF structural_fingerprint, _directory_signature, StampAt, Layout, TypeOK
<1> QED
  BY <1>2, <1>3

(* The files of a layout answer a query with the current rows, and the     *)
(* simulator's readers too.                                                *)
LEMMA LayoutRows ==
    ASSUME TypeOK, NEW m, NEW n, Layout(m, n), PartsOK
    PROVE  EngineRows = Rows(published) /\ SimulatorRows = Rows(published)
<1>1. /\ published \in Nat /\ m \in 0..published /\ n \in m..published
      /\ published \in 0..published /\ disk = (m + 1)..published
  BY DEF TypeOK, Layout
<1>2. PICK x \in Paths : effective_base = {x} /\ BaseRows(x) = Rows(n)
  BY BaseAt
<1>3. EngineRows = Rows(published)
  BY <1>1, <1>2, OverlayIsRows DEF EngineRows
<1>4. BaseRows("seed") = Rows(0)
  BY SeedIsRows DEF BaseRows
<1>5. CASE compacted
  <2>1. SimulatorRows = Overlay({"seed"}, {"compacted"}, disk)
    BY <1>5 DEF SimulatorRows
  <2>2. BaseRows("compacted") = Rows(n)
    BY <1>5 DEF BaseRows, Layout
  <2>3. Ranked({"compacted"}, (m + 1)..published) = Rows(published)
    BY <1>1, <2>2, RankedIsRows
  <2>4. \A i \in Ids : Ranked({"seed"}, {})[i] \subseteq Rows(published)[i]
    <3> TAKE i \in Ids
    <3>1. Ranked({"seed"}, {})[i] = Rows(0)[i]
      BY <1>4, RankedBase
    <3> QED
      BY <1>1, <3>1, RowsGrow
  <2> QED
    BY <1>1, <1>3, <2>1, <2>3, <2>4, OverlayOfOthers
<1>6. CASE ~compacted
  BY <1>3, <1>6 DEF SimulatorRows, EngineRows, effective_base
<1> QED
  BY <1>3, <1>5, <1>6 DEF TypeOK

-----------------------------------------------------------------------------
(* Initially there is only the seed.                                       *)
LEMMA InitInv == Init => Inv
<1> SUFFICES ASSUME Init PROVE Inv
  OBVIOUS
<1>1. NoRows \in FileRows
  BY DEF NoRows, FileRows
<1>2. TypeOK
  <2>1. NoStamp \in Stamp
    BY <1>1 DEF NoStamp, Stamp
  <2>2. sess \in [Sessions -> Locals]
    BY <1>1, <2>1 DEF Init, IdleSess, Locals
  <2>3. published \in 0..LastDate /\ disk \in SUBSET Nat
    BY DEF Init
  <2>5. compacted \in BOOLEAN
    BY DEF Init
  <2>4. part \in [Dates -> FileRows] /\ base \in FileRows
    BY <1>1 DEF Init
  <2> QED
    BY <1>1, <2>1, <2>2, <2>3, <2>4, <2>5 DEF Init, TypeOK, IdleSim, IdleComp
<1>3. Layout(0, 0) /\ PartsOK
  <2>1. 1..0 = {} /\ 0 + 1 = 1
    OBVIOUS
  <2> QED
    BY <2>1 DEF Init, Layout, PartsOK
<1>4. CompOK(0, 0) /\ SimOK(0) /\ CacheOK(0)
  BY DEF Init, CompOK, SimOK, CacheOK, IdleSim, IdleComp
<1>5. \A s \in Sessions : SessOK(s, 0)
  BY DEF Init, SessOK, IdleSess
<1> QED
  BY <1>2, <1>3, <1>4, <1>5 DEF Inv, InvAt

(* A session keeps its invariant while the files go on under it, unless    *)
(* the first merged base appears while it lists.                           *)
LEMMA SessFrame ==
    ASSUME TypeOK, NEW m \in Nat, NEW s \in Sessions, SessOK(s, m),
           NEW k \in Nat, m <= k, sess'[s] = sess[s],
           published' \in Nat, published <= published',
           compacted => compacted',
           sess[s].pc = "base" => (compacted' <=> compacted)
    PROVE  SessOK(s, k)'
<1>1. published \in Nat
  BY DEF TypeOK
<1>2. sess[s].pc = "base" => effective_base' = effective_base
  BY DEF effective_base
<1>3. ASSUME sess[s].pc \in {"stamped", "base", "sourced", "viewed"}
      PROVE  /\ sess[s].start \in 0..published'
             /\ \E ms \in 0..k, ns \in Nat :
                   /\ StampAt(sess[s].stamp, ms, ns, sess[s].start)
                   /\ sess[s].pc \in {"sourced", "viewed"} =>
                         \E m1 \in ms..k, p1 \in sess[s].start..published' :
                             ResolvedAt(sess[s].paths \cup sess[s].others,
                                        sess[s].dates, m1, p1)'
  <2>1. PICK ms \in 0..m, ns \in Nat :
            /\ StampAt(sess[s].stamp, ms, ns, sess[s].start)
            /\ sess[s].pc \in {"sourced", "viewed"} =>
                  \E m1 \in ms..m, p1 \in sess[s].start..published :
                      ResolvedAt(sess[s].paths \cup sess[s].others,
                                 sess[s].dates, m1, p1)
    BY <1>3 DEF SessOK
  <2>2. sess[s].start \in 0..published /\ sess[s].start \in 0..published' /\ ms \in 0..k
    BY <1>1, <1>3 DEF SessOK
  <2>3. ASSUME sess[s].pc \in {"sourced", "viewed"}
        PROVE  \E m1 \in ms..k, p1 \in sess[s].start..published' :
                   ResolvedAt(sess[s].paths \cup sess[s].others, sess[s].dates, m1, p1)'
    <3>1. PICK m1 \in ms..m, p1 \in sess[s].start..published :
              ResolvedAt(sess[s].paths \cup sess[s].others, sess[s].dates, m1, p1)
      BY <2>1, <2>3
    <3>2. m1 \in ms..k /\ p1 \in sess[s].start..published'
      BY <1>1, <2>2, <3>1
    <3>3. ResolvedAt(sess[s].paths \cup sess[s].others, sess[s].dates, m1, p1)'
      BY <3>1 DEF ResolvedAt
    <3> QED
      BY <3>2, <3>3
  <2> QED
    BY <2>1, <2>2, <2>3
<1>4. ASSUME sess[s].pc = "answered", sess[s].ok
      PROVE  \A i \in Ids : \E j \in sess[s].start..published' :
                 sess[s].rows[i] = Rows(j)[i]
  <2>1. sess[s].start \in Nat
    BY DEF TypeOK, Locals
  <2> QED
    BY <1>1, <1>4, <2>1 DEF SessOK
<1>5. (sess[s].pc \in {"stamped", "base", "sourced", "viewed"} =>
          /\ sess[s].start \in 0..published
          /\ \E ms \in 0..k, ns \in Nat :
                /\ StampAt(sess[s].stamp, ms, ns, sess[s].start)
                /\ sess[s].pc \in {"sourced", "viewed"} =>
                      \E m1 \in ms..k, p1 \in sess[s].start..published :
                          ResolvedAt(sess[s].paths \cup sess[s].others,
                                     sess[s].dates, m1, p1))'
  BY <1>3 DEF StampAt, ResolvedAt
<1> QED
  BY <1>2, <1>4, <1>5 DEF SessOK

(* The same for what is cached.                                            *)
LEMMA CacheFrame ==
    ASSUME TypeOK, NEW m \in Nat, CacheOK(m), NEW k \in Nat, m <= k, cache' = cache,
           published' \in Nat, published <= published', compacted => compacted'
    PROVE  CacheOK(k)'
<1> SUFFICES ASSUME cache.valid
             PROVE  \E ms \in 0..k, ns \in Nat, p \in 0..published' :
                       /\ StampAt(cache.stamp, ms, ns, p)
                       /\ \E m1 \in ms..k, p1 \in p..published' :
                              ResolvedAt(cache.paths, cache.dates, m1, p1)'
  BY DEF CacheOK, StampAt, ResolvedAt
<1>1. published \in Nat
  BY DEF TypeOK
<1>2. PICK ms \in 0..m, ns \in Nat, p \in 0..published :
          /\ StampAt(cache.stamp, ms, ns, p)
          /\ \E m1 \in ms..m, p1 \in p..published :
                 ResolvedAt(cache.paths, cache.dates, m1, p1)
  BY DEF CacheOK
<1>3. PICK m1 \in ms..m, p1 \in p..published :
          ResolvedAt(cache.paths, cache.dates, m1, p1)
  BY <1>2
<1>4. ms \in 0..k /\ p \in 0..published' /\ m1 \in ms..k /\ p1 \in p..published'
  BY <1>1
<1>5. ResolvedAt(cache.paths, cache.dates, m1, p1)'
  BY <1>3 DEF ResolvedAt
<1> QED
  BY <1>2, <1>4, <1>5

-----------------------------------------------------------------------------
(* A step that leaves the files alone moves nothing but its process.       *)
LEMMA FilesStay ==
    ASSUME TypeOK, NEW m \in 0..LastDate, NEW n \in 0..LastDate, InvAt(m, n),
           UNCHANGED files
    PROVE  /\ Layout(m, n)' /\ PartsOK'
           /\ comp' = comp => CompOK(m, n)'
           /\ sim' = sim => SimOK(m)'
           /\ cache' = cache => CacheOK(m)'
           /\ \A s \in Sessions : sess'[s] = sess[s] => SessOK(s, m)'
<1>1. /\ published' = published /\ disk' = disk /\ part' = part
      /\ compacted' = compacted /\ base' = base /\ published \in Nat /\ m \in Nat
  BY DEF files, TypeOK
<1>2. Layout(m, n)' /\ PartsOK'
  BY <1>1 DEF InvAt, Layout, PartsOK
<1>3. comp' = comp => CompOK(m, n)'
  BY <1>1 DEF InvAt, CompOK, effective_base
<1>4. sim' = sim => SimOK(m)'
  BY <1>1 DEF InvAt, SimOK
<1>5. cache' = cache => CacheOK(m)'
  <2> SUFFICES ASSUME cache' = cache PROVE CacheOK(m)'
    OBVIOUS
  <2> QED
    BY <1>1, CacheFrame DEF InvAt
<1>6. \A s \in Sessions : sess'[s] = sess[s] => SessOK(s, m)'
  <2> SUFFICES ASSUME NEW s \in Sessions, sess'[s] = sess[s] PROVE SessOK(s, m)'
    OBVIOUS
  <2> QED
    BY <1>1, SessFrame DEF InvAt
<1> QED
  BY <1>2, <1>3, <1>4, <1>5, <1>6

(* The simulator's reads: the rows it works on are the current ones.       *)
LEMMA SimReads ==
    ASSUME TypeOK, NEW m \in 0..LastDate, NEW n \in 0..LastDate, InvAt(m, n),
           SimList \/ SimRead \/ SimFail
    PROVE  TypeOK' /\ InvAt(m, n)'
<1>0. /\ UNCHANGED <<files, comp, cache, sess>>
      /\ published \in 0..LastDate /\ n \in 0..published /\ m \in 0..n
      /\ disk = (m + 1)..published
  BY DEF SimList, SimRead, SimFail, InvAt, Layout, TypeOK
<1>1. CASE SimList
  <2>1. TypeOK'
    BY <1>0, <1>1 DEF SimList, TypeOK, files
  <2>2. sim'.pc = "listed" /\ sim'.compacted = compacted /\ sim'.dates = disk
        /\ published < LastDate
    BY <1>1 DEF SimList, TypeOK
  <2>3. SimOK(m)'
    BY <1>0, <2>2 DEF SimOK, files, TypeOK
  <2> QED
    BY <1>0, <2>1, <2>3, FilesStay DEF InvAt
<1>2. CASE SimRead
  <2> DEFINE paths == {"seed"} \cup (IF sim.compacted THEN {"compacted"} ELSE {})
             rows == Ranked(paths, sim.dates \cap disk)
  <2>1. sim' = [sim EXCEPT !.pc = "read", !.rows = rows]
    BY <1>2 DEF SimRead
  <2>2. BaseRows("seed") = Rows(0) /\ published \in Nat
    BY <1>0, SeedIsRows DEF BaseRows
  <2>3. rows = Rows(published)
    <3>1. CASE sim.compacted
      <4>1. compacted /\ \E l \in 0..m : sim.dates = (l + 1)..published
        BY <1>2, <3>1 DEF SimRead, InvAt, SimOK
      <4>2. sim.dates \cap disk = (m + 1)..published
        BY <1>0, <4>1
      <4>3. BaseRows("compacted") = Rows(n)
        BY <4>1 DEF InvAt, Layout, BaseRows
      <4>4. paths = {"seed", "compacted"}
        BY <3>1
      <4>5. Ranked({"seed", "compacted"}, (m + 1)..published) = Rows(published)
        BY <1>0, <2>2, <4>3, RankedIsRows DEF InvAt
      <4> QED
        BY <4>2, <4>4, <4>5
    <3>2. CASE ~sim.compacted
      <4>1. ~compacted /\ sim.dates = disk
        <5>1. sim.pc = "listed"
          BY <1>2 DEF SimRead
        <5> QED
          BY <3>2, <5>1 DEF InvAt, SimOK
      <4>2. m = 0 /\ n = 0 /\ sim.dates \cap disk = (m + 1)..published
        BY <1>0, <4>1 DEF InvAt, Layout
      <4>3. paths = {"seed"}
        BY <3>2
      <4>4. Ranked({"seed"}, (m + 1)..published) = Rows(published)
        <5>1. /\ published \in 0..published /\ m \in 0..published /\ n \in m..published
              /\ BaseRows("seed") = Rows(n) /\ n \in 0..published
          BY <1>0, <2>2, <4>2
        <5>2. PartsOK
          BY DEF InvAt
        <5> QED
          BY <2>2, <5>1, <5>2, RankedIsRows
      <4> QED
        BY <4>2, <4>3, <4>4
    <3> QED
      BY <3>1, <3>2
  <2> HIDE DEF rows
  <2>4. rows \in FileRows
    BY <2>2, <2>3, RowsInFileRows
  <2>5. TypeOK'
    BY <1>0, <2>1, <2>4 DEF TypeOK, files
  <2>6. sim'.pc = "read" /\ sim'.rows = rows /\ sim.pc = "listed"
    BY <1>2, <2>1 DEF SimRead, TypeOK
  <2>7. SimOK(m)'
    BY <1>0, <2>3, <2>6 DEF SimOK, InvAt, files
  <2> QED
    BY <1>0, <2>5, <2>7, FilesStay DEF InvAt
<1>3. CASE SimFail
  <2>1. sim' = IdleSim
    BY <1>3 DEF SimFail
  <2>2. NoRows \in FileRows
    BY DEF NoRows, FileRows
  <2>3. TypeOK'
    BY <1>0, <2>1, <2>2 DEF IdleSim, TypeOK, files
  <2>4. SimOK(m)'
    BY <2>1 DEF IdleSim, SimOK
  <2> QED
    BY <1>0, <2>3, <2>4, FilesStay DEF InvAt
<1> QED
  BY <1>1, <1>2, <1>3

(* A publication adds the next partition, made from the current rows.      *)
LEMMA SimPublishes ==
    ASSUME TypeOK, NEW m \in 0..LastDate, NEW n \in 0..LastDate, InvAt(m, n), SimPublish
    PROVE  TypeOK' /\ InvAt(m, n)'
<1>1. /\ published \in 0..LastDate /\ n \in 0..published /\ m \in 0..n
      /\ disk = (m + 1)..published
      /\ sim.pc = "read" /\ published < LastDate /\ sim.rows = Rows(published)
  BY DEF SimPublish, InvAt, Layout, SimOK, TypeOK
<1>2. /\ published' = published + 1 /\ disk' = disk \cup {published + 1}
      /\ compacted' = compacted /\ base' = base /\ comp' = comp
      /\ cache' = cache /\ sess' = sess /\ sim' = IdleSim
  BY DEF SimPublish, Date
<1>3. published + 1 \in Dates /\ published + 1 \in Nat /\ published \in Nat
      /\ published' \in Nat /\ published <= published' /\ m \in Nat
  BY <1>1, <1>2
<1> DEFINE new == [i \in Ids |-> IF i \in Changed[published + 1]
                                THEN sim.rows[i] \cup {published + 1} ELSE {}]
<1>4. part' = [part EXCEPT ![published + 1] = new]
  BY DEF SimPublish, Date
<1>5. new = Partition(published + 1)
  <2>1. ASSUME NEW i \in Ids, i \in Changed[published + 1]
        PROVE  Rows(published)[i] \cup {published + 1} = Rows(published + 1)[i]
    <3>1. 1..(published + 1) = (1..published) \cup {published + 1}
      BY <1>3
    <3>2. {d \in 1..(published + 1) : i \in Changed[d]}
              = {d \in 1..published : i \in Changed[d]} \cup {published + 1}
      BY <2>1, <3>1
    <3> QED
      BY <3>2 DEF Rows
  <2> QED
    BY <1>1, <2>1 DEF Partition
<1> HIDE DEF new
<1>6. part' \in [Dates -> FileRows] /\ PartsOK'
  <2>1. new \in FileRows
    BY <1>3, <1>5, RowsInFileRows
  <2>2. part' \in [Dates -> FileRows]
    BY <1>4, <2>1 DEF TypeOK
  <2>3. ASSUME NEW d \in 1..(published + 1) PROVE part'[d] = Partition(d)
    <3>1. d \in Dates
      BY <1>3
    <3>2. CASE d = published + 1
      BY <1>3, <1>4, <1>5, <3>2 DEF TypeOK
    <3>3. CASE d # published + 1
      <4>1. d \in 1..published
        BY <1>3, <3>3
      <4> QED
        BY <1>4, <3>1, <3>3, <4>1 DEF TypeOK, InvAt, PartsOK
    <3> QED
      BY <3>2, <3>3
  <2> QED
    BY <1>2, <2>2, <2>3 DEF PartsOK
<1>7. disk' = (m + 1)..published'
  BY <1>1, <1>2
<1>8. Layout(m, n)'
  BY <1>1, <1>2, <1>7 DEF Layout, InvAt
<1>9. CompOK(m, n)'
  <2>1. effective_base' = effective_base
    BY <1>2 DEF effective_base
  <2>2. n..published \subseteq n..published'
    BY <1>1, <1>2
  <2>3. CompOK(m, n)
    BY DEF InvAt
  <2> QED
    BY <1>2, <2>1, <2>2, <2>3 DEF CompOK
<1>10. SimOK(m)'
  BY <1>2 DEF SimOK, IdleSim
<1>11. CacheOK(m)'
  BY <1>2, <1>3, CacheFrame DEF InvAt
<1>12. ASSUME NEW s \in Sessions PROVE SessOK(s, m)'
  BY <1>2, <1>3, SessFrame DEF InvAt
<1>13. TypeOK'
  <2>1. NoRows \in FileRows
    BY DEF NoRows, FileRows
  <2>2. published' \in 0..LastDate /\ disk' \in SUBSET Nat
    BY <1>1, <1>2, <1>3 DEF TypeOK
  <2> QED
    BY <1>2, <1>6, <2>1, <2>2 DEF TypeOK, IdleSim
<1> QED
  BY <1>6, <1>8, <1>9, <1>10, <1>11, <1>12, <1>13 DEF InvAt

-----------------------------------------------------------------------------
(* The compactor's steps before os.replace and after the last unlink.      *)
LEMMA CompWorks ==
    ASSUME TypeOK, NEW m \in 0..LastDate, NEW n \in 0..LastDate, InvAt(m, n),
           Plan \/ WriteMerged \/ Finish \/ CompFail
    PROVE  TypeOK' /\ InvAt(m, n)'
<1>0. /\ UNCHANGED <<files, sim, cache, sess>>
      /\ published \in 0..LastDate /\ n \in 0..published /\ m \in 0..n
      /\ disk = (m + 1)..published
  BY DEF Plan, WriteMerged, Finish, CompFail, InvAt, Layout, TypeOK
<1>1. CASE Plan
  <2>1. /\ comp' = [comp EXCEPT !.pc = "planned", !.paths = effective_base, !.dates = disk]
        /\ effective_base \in SUBSET Paths
    BY <1>1 DEF Plan, effective_base, Paths
  <2>2. TypeOK'
    BY <1>0, <2>1 DEF TypeOK, files
  <2>3. comp'.pc = "planned" /\ comp'.paths = effective_base /\ comp'.dates = disk
        /\ effective_base' = effective_base /\ published' = published
    BY <1>0, <2>1 DEF TypeOK, effective_base, files
  <2>4. CompOK(m, n)'
    <3>1. published \in n..published
      BY <1>0
    <3> QED
      BY <1>0, <2>3, <3>1 DEF CompOK
  <2> QED
    BY <1>0, <2>2, <2>4, FilesStay DEF InvAt
<1>2. CASE WriteMerged
  <2>1. comp.pc = "planned" /\ comp.paths = effective_base
    BY <1>2 DEF WriteMerged, InvAt, CompOK
  <2>2. PICK p \in n..published : comp.dates = (m + 1)..p
    <3>1. CompOK(m, n)
      BY DEF InvAt
    <3> QED
      BY <2>1, <3>1 DEF CompOK
  <2>3. p \in 0..published /\ m \in 0..p /\ n \in m..p /\ published \in Nat /\ p \in Nat
        /\ n \in 0..p
    BY <1>0, <2>2
  <2>4. Ranked(effective_base, (m + 1)..p) = Rows(p)
    <3>1. PICK x \in Paths : effective_base = {x} /\ BaseRows(x) = Rows(n)
      BY BaseAt DEF InvAt
    <3> QED
      BY <2>3, <3>1, RankedIsRows DEF InvAt
  <2>5. comp' = [comp EXCEPT !.pc = "written", !.rows = Rows(p)]
    BY <1>2, <2>1, <2>2, <2>4 DEF WriteMerged
  <2>6. Rows(p) \in FileRows
    BY <2>3, RowsInFileRows
  <2>7. TypeOK'
    BY <1>0, <2>5, <2>6 DEF TypeOK, files
  <2>8. /\ comp'.pc = "written" /\ comp'.paths = comp.paths /\ comp'.dates = comp.dates
        /\ comp'.rows = Rows(p) /\ effective_base' = effective_base /\ published' = published
    BY <1>0, <2>5 DEF TypeOK, effective_base, files
  <2>9. CompOK(m, n)'
    <3>1. comp'.pc = "written" /\ comp'.pc # "remove" /\ comp'.paths = effective_base'
      BY <2>1, <2>8
    <3>2. \E q \in n..published' : comp'.dates = (m + 1)..q /\ comp'.rows = Rows(q)
      BY <2>2, <2>8
    <3> QED
      BY <3>1, <3>2 DEF CompOK
  <2> QED
    BY <1>0, <2>7, <2>9, FilesStay DEF InvAt
<1>3. CASE Finish \/ CompFail
  <2>1. comp' = IdleComp
    BY <1>3 DEF Finish, CompFail
  <2>2. NoRows \in FileRows
    BY DEF NoRows, FileRows
  <2>3. TypeOK'
    BY <1>0, <2>1, <2>2 DEF IdleComp, TypeOK, files
  <2>4. CompOK(m, n)'
    BY <2>1 DEF IdleComp, CompOK
  <2> QED
    BY <1>0, <2>3, <2>4, FilesStay DEF InvAt
<1> QED
  BY <1>1, <1>2, <1>3

(* os.replace: the base now holds the rows after the last planned date.    *)
LEMMA CompReplaces ==
    ASSUME ~FirstWhileListing,
           TypeOK, NEW m \in 0..LastDate, NEW n \in 0..LastDate, InvAt(m, n), Replace
    PROVE  TypeOK' /\ \E p \in 0..LastDate : InvAt(m, p)'
<1>1. /\ published \in 0..LastDate /\ n \in 0..published /\ m \in 0..n
      /\ disk = (m + 1)..published /\ comp.pc = "written"
      /\ m \in Nat /\ published \in Nat
  BY DEF Replace, InvAt, Layout, TypeOK
<1>2. PICK p \in n..published : comp.dates = (m + 1)..p /\ comp.rows = Rows(p)
  <2>1. CompOK(m, n)
    BY DEF InvAt
  <2> QED
    BY <1>1, <2>1 DEF CompOK
<1>3. /\ published' = published /\ disk' = disk /\ part' = part
      /\ sim' = sim /\ cache' = cache /\ sess' = sess
      /\ base' = Rows(p) /\ compacted' = TRUE
      /\ comp' = [comp EXCEPT !.pc = "remove"]
  BY <1>2 DEF Replace
<1>4. p \in 0..LastDate /\ p \in 0..published /\ m \in 0..p /\ p \in Nat
  BY <1>1
<1>5. TypeOK'
  <2>1. base' \in FileRows
    BY <1>3, <1>4, RowsInFileRows
  <2> QED
    BY <1>3, <2>1 DEF TypeOK
<1>6. compacted \/ (sim.pc # "listed" /\ \A s \in Sessions : sess[s].pc # "base")
  BY DEF Replace, NobodyLists
<1>7. Layout(m, p)' /\ PartsOK'
  BY <1>1, <1>3, <1>4 DEF InvAt, Layout, PartsOK
<1>8. CompOK(m, p)'
  <2>1. comp'.pc = "remove" /\ comp'.dates = (m + 1)..p
    BY <1>2, <1>3 DEF TypeOK
  <2> QED
    BY <1>3, <2>1 DEF CompOK
<1>9. SimOK(m)'
  <2>1. SimOK(m)
    BY DEF InvAt
  <2>2. CASE sim.pc = "listed"
    <3>1. compacted /\ sim.compacted
      BY <1>6, <2>1, <2>2 DEF SimOK
    <3> QED
      BY <1>3, <2>1, <2>2, <3>1 DEF SimOK
  <2>3. CASE sim.pc # "listed"
    BY <1>3, <2>1, <2>3 DEF SimOK
  <2> QED
    BY <2>2, <2>3
<1>10. CacheOK(m)'
  BY <1>1, <1>3, CacheFrame DEF InvAt
<1>11. ASSUME NEW s \in Sessions PROVE SessOK(s, m)'
  <2>1. sess[s].pc = "base" => (compacted' <=> compacted)
    BY <1>3, <1>6
  <2> QED
    BY <1>1, <1>3, <2>1, SessFrame DEF InvAt
<1> QED
  BY <1>4, <1>5, <1>7, <1>8, <1>9, <1>10, <1>11 DEF InvAt

(* The oldest planned partition is unlinked; the base covers it.           *)
LEMMA CompRemoves ==
    ASSUME TypeOK, NEW m \in 0..LastDate, NEW n \in 0..LastDate, InvAt(m, n), Remove
    PROVE  TypeOK' /\ InvAt(m + 1, n)' /\ m + 1 \in 0..LastDate
<1>1. /\ published \in 0..LastDate /\ n \in 0..published /\ m \in 0..n
      /\ disk = (m + 1)..published /\ comp.pc = "remove" /\ compacted
      /\ comp.dates = (m + 1)..n /\ comp.dates # {}
      /\ m \in Nat /\ published \in Nat
  BY DEF Remove, InvAt, Layout, CompOK, TypeOK
<1>2. m + 1 <= n
  BY <1>1
<1>3. Min(comp.dates) = m + 1
  BY <1>1, <1>2, MinOfInterval
<1>4. /\ disk' = disk \ {m + 1} /\ comp' = [comp EXCEPT !.dates = @ \ {m + 1}]
      /\ published' = published /\ part' = part /\ compacted' = compacted /\ base' = base
      /\ sim' = sim /\ cache' = cache /\ sess' = sess
  BY <1>3 DEF Remove
<1>5. disk' = ((m + 1) + 1)..published /\ comp.dates \ {m + 1} = ((m + 1) + 1)..n
  BY <1>1, <1>2, <1>4
<1>6. TypeOK'
  <2>1. disk' \in SUBSET Nat /\ comp.dates \ {m + 1} \in SUBSET Nat
    BY <1>4 DEF TypeOK
  <2> QED
    BY <1>4, <2>1 DEF TypeOK
<1>7. Layout(m + 1, n)' /\ PartsOK'
  <2>1. m + 1 \in 0..n
    BY <1>1, <1>2
  <2> QED
    BY <1>1, <1>4, <1>5, <2>1 DEF InvAt, Layout, PartsOK
<1>8. CompOK(m + 1, n)'
  <2>1. comp'.pc = "remove" /\ comp'.dates = ((m + 1) + 1)..n
    BY <1>1, <1>4, <1>5 DEF TypeOK
  <2> QED
    BY <1>1, <1>4, <2>1 DEF CompOK
<1>9. SimOK(m + 1)'
  <2>1. 0..m \subseteq 0..(m + 1)
    BY <1>1
  <2> QED
    BY <1>1, <1>4, <2>1 DEF InvAt, SimOK
<1>10. CacheOK(m + 1)'
  BY <1>1, <1>4, CacheFrame DEF InvAt
<1>11. ASSUME NEW s \in Sessions PROVE SessOK(s, m + 1)'
  BY <1>1, <1>4, SessFrame DEF InvAt
<1> QED
  BY <1>1, <1>2, <1>6, <1>7, <1>8, <1>9, <1>10, <1>11 DEF InvAt

-----------------------------------------------------------------------------
(* A step of one session leaves everything else as it was.                 *)
LEMMA SessionStep ==
    ASSUME TypeOK, NEW m \in 0..LastDate, NEW n \in 0..LastDate, InvAt(m, n),
           NEW s \in Sessions, NEW to, sess' = [sess EXCEPT ![s] = to],
           UNCHANGED <<files, sim, comp>>,
           CacheOK(m)', SessOK(s, m)'
    PROVE  InvAt(m, n)'
<1>1. \A t \in Sessions : t # s => sess'[t] = sess[t]
  BY DEF TypeOK
<1>2. \A t \in Sessions : SessOK(t, m)'
  BY <1>1, FilesStay
<1> QED
  BY <1>2, FilesStay DEF InvAt

(* A session takes its fingerprint, or ends.                               *)
LEMMA SessionBeginsOrEnds ==
    ASSUME TypeOK, NEW m \in 0..LastDate, NEW n \in 0..LastDate, InvAt(m, n),
           NEW s \in Sessions, Begin(s) \/ Close(s)
    PROVE  TypeOK' /\ InvAt(m, n)'
<1>0. /\ UNCHANGED <<files, sim, comp, cache>> /\ NoRows \in FileRows
      /\ published \in 0..LastDate /\ n \in 0..published /\ m \in 0..n
  BY DEF Begin, Close, NoRows, FileRows, InvAt, Layout, TypeOK
<1>1. CacheOK(m)'
  BY <1>0, FilesStay
<1>2. CASE Begin(s)
  <2> DEFINE to == [IdleSess EXCEPT !.pc = "stamped", !.start = published,
                                    !.stamp = structural_fingerprint]
  <2>1. sess' = [sess EXCEPT ![s] = to]
    BY <1>2 DEF Begin, Move
  <2>2. structural_fingerprint \in Stamp /\ StampAt(structural_fingerprint, m, n, published)
    BY StampNow DEF InvAt
  <2>3. NoStamp \in Stamp /\ published \in Nat
    BY <1>0 DEF NoStamp, Stamp
  <2>4. to \in Locals
    BY <1>0, <2>2, <2>3 DEF IdleSess, Locals
  <2>5. TypeOK'
    BY <1>0, <2>1, <2>4 DEF TypeOK, files
  <2>6. sess'[s] = to
    BY <2>1 DEF TypeOK
  <2>7. /\ to.pc = "stamped" /\ to.start = published /\ to.others = {}
        /\ to.stamp = structural_fingerprint
    BY DEF IdleSess
  <2> HIDE DEF to
  <2>8. /\ StampAt(to.stamp, m, n, to.start) /\ to.start \in 0..published'
        /\ m \in 0..m /\ n \in Nat
    <3>1. published' = published
      BY <1>0 DEF files
    <3>2. published \in 0..published /\ m \in 0..m /\ n \in Nat
      BY <1>0
    <3> QED
      BY <2>2, <2>7, <3>1, <3>2
  <2>9. SessOK(s, m)'
    <3> HIDE DEF StampAt
    <3>1. StampAt(sess[s].stamp, m, n, sess[s].start)'
      BY <2>6, <2>8 DEF StampAt
    <3> QED
      BY <2>6, <2>7, <2>8, <3>1 DEF SessOK
  <2> QED
    BY <1>0, <1>1, <2>1, <2>5, <2>9, SessionStep
<1>3. CASE Close(s)
  <2>1. sess' = [sess EXCEPT ![s] = IdleSess]
    BY <1>3 DEF Close, Move
  <2>2. NoStamp \in Stamp
    BY <1>0 DEF NoStamp, Stamp
  <2>3. IdleSess \in Locals
    BY <1>0, <2>2 DEF IdleSess, Locals
  <2>4. TypeOK'
    BY <1>0, <2>1, <2>3 DEF TypeOK, files
  <2>5. sess'[s].pc = "idle"
    BY <2>1 DEF TypeOK, IdleSess
  <2>6. SessOK(s, m)'
    BY <2>5 DEF SessOK
  <2> QED
    BY <1>0, <1>1, <2>1, <2>4, <2>6, SessionStep
<1> QED
  BY <1>2, <1>3

(* A session resolves its paths: from the cache, or by listing the base    *)
(* and then the partitions.                                                *)
LEMMA SessionResolves ==
    ASSUME TypeOK, NEW m \in 0..LastDate, NEW n \in 0..LastDate, InvAt(m, n),
           NEW s \in Sessions, CacheHit(s) \/ ResolveBase(s) \/ ResolveDeltas(s)
    PROVE  TypeOK' /\ InvAt(m, n)'
<1> DEFINE w == sess[s]
<1>0. /\ UNCHANGED <<files, sim, comp>>
      /\ published \in 0..LastDate /\ n \in 0..published /\ m \in 0..n
      /\ disk = (m + 1)..published /\ w \in Locals /\ disk \in SUBSET Nat
      /\ w.pc \in {"stamped", "base"}
  BY DEF CacheHit, ResolveBase, ResolveDeltas, Move, InvAt, Layout, TypeOK
<1>1. SessOK(s, m) /\ CacheOK(m) /\ Layout(m, n)
  BY DEF InvAt
<1>2. w.start \in 0..published /\ w.others = {}
  BY <1>0, <1>1 DEF SessOK
<1>3. PICK ms \in 0..m, ns \in Nat : StampAt(w.stamp, ms, ns, w.start)
  BY <1>0, <1>1 DEF SessOK
<1>4. UNCHANGED <<published, compacted>> /\ effective_base' = effective_base
      /\ effective_base \in SUBSET Paths
  BY <1>0 DEF files, effective_base, Paths
<1>5. CASE CacheHit(s)
  <2> DEFINE to == [w EXCEPT !.pc = "sourced", !.paths = cache.paths, !.dates = cache.dates]
  <2>1. /\ sess' = [sess EXCEPT ![s] = to] /\ cache' = cache
        /\ cache.valid /\ cache.stamp = w.stamp
    BY <1>5 DEF CacheHit, Move
  <2>2. to \in Locals
    BY <1>0 DEF Locals, TypeOK
  <2>3. /\ to.pc = "sourced" /\ to.paths = cache.paths /\ to.dates = cache.dates
        /\ to.start = w.start /\ to.stamp = w.stamp /\ to.others = {}
    BY <1>0, <1>2 DEF Locals
  <2> HIDE DEF to
  <2>4. TypeOK' /\ sess'[s] = to
    BY <1>0, <2>1, <2>2 DEF TypeOK, files
  <2>5. PICK mt \in 0..m, nt \in Nat, p \in 0..published :
            /\ StampAt(cache.stamp, mt, nt, p)
            /\ \E m1 \in mt..m, p1 \in p..published :
                   ResolvedAt(cache.paths, cache.dates, m1, p1)
    BY <1>1, <2>1 DEF CacheOK
  <2>6. mt = ms /\ p = w.start
    <3>1. mt \in Nat /\ ms \in Nat /\ p \in Nat /\ w.start \in Nat
      BY <1>0, <1>2
    <3> QED
      BY <1>3, <2>1, <2>5, <3>1, StampUnique
  <2>7. PICK m1 \in ms..m, p1 \in w.start..published :
            ResolvedAt(cache.paths, cache.dates, m1, p1)
    BY <2>5, <2>6
  <2>8. cache.paths \cup {} = cache.paths
    OBVIOUS
  <2>9. SessOK(s, m)'
    <3>1. StampAt(sess[s].stamp, ms, ns, sess[s].start)'
      BY <1>3, <2>3, <2>4 DEF StampAt
    <3>2. ResolvedAt(sess[s].paths \cup sess[s].others, sess[s].dates, m1, p1)'
      BY <1>4, <2>3, <2>4, <2>7, <2>8 DEF ResolvedAt
    <3>3. sess'[s].start \in 0..published' /\ p1 \in sess'[s].start..published'
      BY <1>2, <1>4, <2>3, <2>4
    <3> QED
      BY <2>3, <2>4, <3>1, <3>2, <3>3 DEF SessOK
  <2>10. CacheOK(m)'
    BY <1>0, <2>1, FilesStay
  <2> QED
    BY <1>0, <2>1, <2>4, <2>9, <2>10, SessionStep
<1>6. CASE ResolveBase(s)
  <2> DEFINE to == [w EXCEPT !.pc = "base", !.paths = effective_base]
  <2>1. sess' = [sess EXCEPT ![s] = to] /\ cache' = cache
    BY <1>6 DEF ResolveBase, Move
  <2>2. to \in Locals
    BY <1>0, <1>4 DEF Locals
  <2>3. /\ to.pc = "base" /\ to.paths = effective_base
        /\ to.start = w.start /\ to.stamp = w.stamp /\ to.others = {}
    BY <1>0, <1>2 DEF Locals
  <2> HIDE DEF to
  <2>4. TypeOK' /\ sess'[s] = to
    BY <1>0, <2>1, <2>2 DEF TypeOK, files
  <2>5. SessOK(s, m)'
    <3>1. StampAt(sess[s].stamp, ms, ns, sess[s].start)'
      BY <1>3, <2>3, <2>4 DEF StampAt
    <3> QED
      BY <1>2, <1>4, <2>3, <2>4, <3>1 DEF SessOK
  <2>6. CacheOK(m)'
    BY <1>0, <2>1, FilesStay
  <2> QED
    BY <1>0, <2>1, <2>4, <2>5, <2>6, SessionStep
<1>7. CASE ResolveDeltas(s)
  <2> DEFINE to == [w EXCEPT !.pc = "sourced", !.dates = disk]
             new == [valid |-> TRUE, stamp |-> w.stamp, paths |-> w.paths, dates |-> disk]
  <2>1. /\ sess' = [sess EXCEPT ![s] = to] /\ cache' = new /\ w.pc = "base"
    BY <1>7 DEF ResolveDeltas, Move
  <2>2. to \in Locals /\ w.stamp \in Stamp /\ w.paths \in SUBSET Paths
    BY <1>0 DEF Locals
  <2>3. /\ to.pc = "sourced" /\ to.paths = w.paths /\ to.dates = disk
        /\ to.start = w.start /\ to.stamp = w.stamp /\ to.others = {}
    BY <1>0, <1>2 DEF Locals
  <2>4. /\ new \in [valid: BOOLEAN, stamp: Stamp, paths: SUBSET Paths, dates: SUBSET Nat]
        /\ new.stamp = w.stamp /\ new.paths = w.paths /\ new.dates = disk
    BY <1>0, <2>2
  <2> HIDE DEF to, new
  <2>5. TypeOK' /\ sess'[s] = to
    BY <1>0, <2>1, <2>2, <2>4 DEF TypeOK, files
  <2>6. ResolvedAt(w.paths, disk, m, published)
    <3>1. w.paths = effective_base
      BY <1>1, <2>1 DEF SessOK
    <3>2. m \in 0..published
      BY <1>0
    <3>3. CASE compacted
      BY <1>0, <3>1, <3>2, <3>3 DEF ResolvedAt, effective_base
    <3>4. CASE ~compacted
      <4>1. n = 0
        BY <1>1, <3>4 DEF Layout
      <4>2. m = 0
        BY <1>0, <4>1
      <4> QED
        BY <1>0, <3>1, <3>2, <3>4, <4>2 DEF ResolvedAt, effective_base
    <3> QED
      BY <3>3, <3>4 DEF TypeOK
  <2>7. /\ m \in ms..m /\ published \in w.start..published /\ w.paths \cup {} = w.paths
    BY <1>0, <1>2
  <2>8. SessOK(s, m)'
    <3>1. StampAt(sess[s].stamp, ms, ns, sess[s].start)'
      BY <1>3, <2>3, <2>5 DEF StampAt
    <3>2. ResolvedAt(sess[s].paths \cup sess[s].others, sess[s].dates, m, published)'
      BY <1>4, <2>3, <2>5, <2>6, <2>7 DEF ResolvedAt
    <3>3. sess'[s].start \in 0..published' /\ published' \in sess'[s].start..published'
      BY <1>2, <1>4, <2>3, <2>5, <2>7
    <3> QED
      BY <2>3, <2>5, <2>7, <3>1, <3>2, <3>3 DEF SessOK
  <2>9. CacheOK(m)'
    <3>1. PICK p \in 0..published : p = w.start
      BY <1>2
    <3>2. PICK q \in p..published : q = published
      BY <2>7, <3>1
    <3>3. StampAt(cache.stamp, ms, ns, p)'
      BY <1>3, <2>1, <2>4, <3>1 DEF StampAt
    <3>4. ResolvedAt(cache.paths, cache.dates, m, q)'
      BY <1>4, <2>1, <2>4, <2>6, <3>2 DEF ResolvedAt
    <3>5. p \in 0..published' /\ q \in p..published'
      BY <1>4
    <3> QED
      BY <2>7, <3>3, <3>4, <3>5 DEF CacheOK
  <2> QED
    BY <1>0, <2>1, <2>5, <2>8, <2>9, SessionStep
<1> QED
  BY <1>5, <1>6, <1>7

(* The view asks for the base again; a seed that is no longer the base is  *)
(* ranked with the partitions.                                             *)
LEMMA SessionViews ==
    ASSUME TypeOK, NEW m \in 0..LastDate, NEW n \in 0..LastDate, InvAt(m, n),
           NEW s \in Sessions, CreateView(s)
    PROVE  TypeOK' /\ InvAt(m, n)'
<1> DEFINE w == sess[s]
           to == [w EXCEPT !.pc = "viewed", !.paths = @ \cap effective_base,
                           !.others = w.paths \ effective_base]
<1>0. /\ UNCHANGED <<files, sim, comp, cache>> /\ w.pc = "sourced"
      /\ sess' = [sess EXCEPT ![s] = to] /\ w \in Locals
  BY DEF CreateView, Move, TypeOK
<1>1. SessOK(s, m)
  BY DEF InvAt
<1>2. w.start \in 0..published /\ w.others = {}
  BY <1>0, <1>1 DEF SessOK
<1>3. PICK ms \in 0..m, ns \in Nat :
          /\ StampAt(w.stamp, ms, ns, w.start)
          /\ \E m1 \in ms..m, p1 \in w.start..published :
                 ResolvedAt(w.paths \cup w.others, w.dates, m1, p1)
  BY <1>0, <1>1 DEF SessOK
<1>4. PICK m1 \in ms..m, p1 \in w.start..published : ResolvedAt(w.paths, w.dates, m1, p1)
  <2>1. w.paths \cup w.others = w.paths
    BY <1>2
  <2> QED
    BY <1>3, <2>1
<1>5. to \in Locals
  BY <1>0 DEF Locals
<1>6. /\ to.pc = "viewed" /\ to.dates = w.dates /\ to.start = w.start /\ to.stamp = w.stamp
      /\ to.paths = w.paths \cap effective_base /\ to.others = w.paths \ effective_base
  BY <1>0 DEF Locals
<1> HIDE DEF to
<1>7. TypeOK' /\ sess'[s] = to
  BY <1>0, <1>5 DEF TypeOK, files
<1>8. UNCHANGED <<published, compacted>>
  BY <1>0 DEF files
<1>9. to.paths \cup to.others = w.paths
  BY <1>6
<1>10. to.others = {} \/ (to.others = {"seed"} /\ to.paths = {})
  BY <1>4, <1>6 DEF ResolvedAt, effective_base
<1>11. SessOK(s, m)'
  <2>1. StampAt(sess[s].stamp, ms, ns, sess[s].start)'
    BY <1>3, <1>6, <1>7 DEF StampAt
  <2>2. ResolvedAt(sess[s].paths \cup sess[s].others, sess[s].dates, m1, p1)'
    BY <1>4, <1>6, <1>7, <1>8, <1>9 DEF ResolvedAt
  <2>3. sess'[s].start \in 0..published' /\ p1 \in sess'[s].start..published'
    BY <1>2, <1>6, <1>7, <1>8
  <2> QED
    BY <1>6, <1>7, <1>10, <2>1, <2>2, <2>3 DEF SessOK
<1>12. CacheOK(m)'
  BY <1>0, FilesStay
<1> QED
  BY <1>0, <1>7, <1>11, <1>12, SessionStep

-----------------------------------------------------------------------------
(* What a query that finds its files answers: each record as it was after  *)
(* some date since the query began, and all as they were after one date if *)
(* the base is the one of the fingerprint.                                 *)
LEMMA AnswerRows ==
    ASSUME TypeOK, NEW m \in 0..LastDate, NEW n \in 0..LastDate, InvAt(m, n),
           NEW s \in Sessions, sess[s].pc = "viewed"
    PROVE  LET rows == Overlay(sess[s].paths, sess[s].others, sess[s].dates)
           IN  /\ rows = [i \in Ids |-> rows[i]]
               /\ \A i \in Ids : \E k \in sess[s].start..published : rows[i] = Rows(k)[i]
               /\ base = sess[s].stamp.delta.base =>
                     \E k \in sess[s].start..published : rows = Rows(k)
<1> DEFINE w == sess[s]
           rows == Overlay(w.paths, w.others, w.dates)
<1>0. /\ published \in Nat /\ published <= LastDate
      /\ n \in 0..published /\ m \in 0..n
      /\ PartsOK /\ Layout(m, n) /\ SessOK(s, m)
  BY DEF InvAt, Layout, TypeOK
<1>1. w.start \in 0..published
  BY <1>0 DEF SessOK
<1>2. PICK ms \in 0..m, ns \in Nat :
          /\ StampAt(w.stamp, ms, ns, w.start)
          /\ \E m1 \in ms..m, p1 \in w.start..published :
                 ResolvedAt(w.paths \cup w.others, w.dates, m1, p1)
  BY <1>0 DEF SessOK
<1>3. PICK m1 \in ms..m, p1 \in w.start..published :
          ResolvedAt(w.paths \cup w.others, w.dates, m1, p1)
  BY <1>2
<1>4. w.others = {} \/ (w.others = {"seed"} /\ w.paths = {})
  BY <1>0 DEF SessOK
<1>5. /\ p1 \in 0..published /\ p1 \in Nat /\ m1 \in Nat /\ m1 \in 0..p1 /\ m1 \in 0..m
      /\ w.dates = (m1 + 1)..p1
  BY <1>0, <1>1, <1>3 DEF ResolvedAt
<1>6. rows = [i \in Ids |-> rows[i]]
  BY DEF Overlay
<1>7. BaseRows("seed") = Rows(0)
  BY SeedIsRows DEF BaseRows
<1>8. CASE w.paths \cup w.others = {"seed"} /\ m1 = 0
  <2>1. rows = Rows(p1)
    <3>1. CASE w.others = {}
      <4>1. w.paths = {"seed"}
        BY <1>8, <3>1
      <4>2. 0 \in m1..p1
        BY <1>5, <1>8
      <4>3. Overlay({"seed"}, {}, (m1 + 1)..p1) = Rows(p1)
        BY <1>0, <1>5, <1>7, <4>2, OverlayIsRows
      <4> QED
        BY <1>5, <3>1, <4>1, <4>3
    <3>2. CASE w.others = {"seed"} /\ w.paths = {}
      <4>1. 0 \in m1..p1 /\ 0 \in 0..p1
        BY <1>5, <1>8
      <4>2. Ranked({"seed"}, (m1 + 1)..p1) = Rows(p1)
        BY <1>0, <1>5, <1>7, <4>1, RankedIsRows
      <4>3. \A i \in Ids : Ranked({}, {})[i] \subseteq Rows(p1)[i]
        BY DEF Ranked, Newest
      <4> QED
        BY <1>0, <1>5, <3>2, <4>2, <4>3, OverlayOfOthers
    <3> QED
      BY <1>4, <3>1, <3>2
  <2> HIDE DEF rows
  <2>2. \A i \in Ids : rows[i] = Rows(p1)[i]
    BY <2>1
  <2> QED
    BY <1>3, <1>6, <2>1, <2>2 DEF rows
<1>9. CASE w.paths \cup w.others = {"compacted"} /\ compacted
  <2>1. w.others = {} /\ w.paths = {"compacted"}
    BY <1>4, <1>9
  <2>2. BaseRows("compacted") = Rows(n) /\ base = Rows(n)
    BY <1>0, <1>9 DEF Layout, BaseRows
  <2>3. rows = Overlay({"compacted"}, {}, (m1 + 1)..p1)
    BY <1>5, <2>1
  <2>4. n <= p1 => rows = Rows(p1)
    <3>1. ASSUME n <= p1 PROVE n \in m1..p1
      BY <1>0, <1>5, <3>1
    <3> QED
      BY <1>0, <1>5, <2>2, <2>3, <3>1, OverlayIsRows
  <2>5. \A i \in Ids : rows[i] = Rows(p1)[i] \/ rows[i] = Rows(n)[i]
    <3>1. n \in Nat
      BY <1>0
    <3> QED
      BY <1>0, <1>5, <2>2, <2>3, <3>1, OverlayRow
  <2>6. base = w.stamp.delta.base => n <= p1
    <3> SUFFICES ASSUME base = w.stamp.delta.base PROVE n <= p1
      OBVIOUS
    <3>1. /\ ns \in 0..w.start /\ w.start \in 0..LastDate
          /\ (w.stamp.delta.base = Rows(ns) \/ w.stamp.delta.base = NoRows)
      BY <1>2 DEF StampAt
    <3>2. n \in 0..LastDate /\ ns \in 0..LastDate
      BY <1>0, <3>1
    <3>3. n = ns \/ n = 0
      BY <2>2, <3>1, <3>2, RowsDiffer, NoRowsIsFirst
    <3> QED
      BY <1>0, <1>1, <1>3, <3>1, <3>3
  <2> HIDE DEF rows
  <2>7. ASSUME NEW i \in Ids PROVE \E k \in w.start..published : rows[i] = Rows(k)[i]
    <3>1. CASE n <= p1
      BY <1>3, <2>4, <3>1
    <3>2. CASE ~(n <= p1)
      <4>1. n \in w.start..published
        BY <1>0, <1>1, <1>3, <3>2
      <4> QED
        BY <1>3, <2>5, <4>1
    <3> QED
      BY <3>1, <3>2
  <2> QED
    BY <1>3, <1>6, <2>4, <2>6, <2>7 DEF rows
<1> QED
  BY <1>3, <1>8, <1>9 DEF ResolvedAt

(* The query runs, or fails.                                               *)
LEMMA SessionExecutes ==
    ASSUME TypeOK, NEW m \in 0..LastDate, NEW n \in 0..LastDate, InvAt(m, n),
           NEW s \in Sessions, Execute(s)
    PROVE  TypeOK' /\ InvAt(m, n)'
<1> DEFINE w == sess[s]
           ok == w.dates \subseteq disk
           answer == Overlay(w.paths, w.others, w.dates)
           rows == IF ok THEN answer ELSE NoRows
           to == [w EXCEPT !.pc = "answered", !.ok = ok, !.rows = rows]
<1>0. /\ UNCHANGED <<files, sim, comp, cache>> /\ w.pc = "viewed"
      /\ sess' = [sess EXCEPT ![s] = to] /\ w \in Locals
  BY DEF Execute, Move, TypeOK
<1>1. /\ answer = [i \in Ids |-> answer[i]]
      /\ \A i \in Ids : \E k \in w.start..published : answer[i] = Rows(k)[i]
  BY <1>0, AnswerRows
<1>2. rows \in FileRows
  <2> HIDE DEF answer
  <2>1. ASSUME NEW i \in Ids PROVE answer[i] \in SUBSET Nat
    <3>1. PICK k \in w.start..published : answer[i] = Rows(k)[i]
      BY <1>1
    <3>2. w.start \in Nat /\ published \in Nat
      BY <1>0 DEF Locals, TypeOK
    <3>3. Rows(k) \in FileRows
      BY <3>2, RowsInFileRows
    <3> QED
      BY <3>1, <3>3 DEF FileRows
  <2>2. answer \in FileRows
    BY <1>1, <2>1 DEF FileRows
  <2>3. NoRows \in FileRows
    BY DEF NoRows, FileRows
  <2> QED
    BY <2>2, <2>3
<1> HIDE DEF answer
<1>3. ok \in BOOLEAN
  OBVIOUS
<1>4. ok => rows = answer
  OBVIOUS
<1> HIDE DEF rows, ok
<1>5. to \in Locals
  BY <1>0, <1>2, <1>3 DEF Locals
<1>6. /\ to.pc = "answered" /\ to.start = w.start /\ to.rows = rows /\ to.ok = ok
  BY <1>0 DEF Locals
<1> HIDE DEF to
<1>7. TypeOK' /\ sess'[s] = to
  BY <1>0, <1>5 DEF TypeOK, files
<1>8. published' = published
  BY <1>0 DEF files
<1>9. ASSUME ok
      PROVE  \A i \in Ids : \E k \in to.start..published : to.rows[i] = Rows(k)[i]
  BY <1>1, <1>4, <1>6, <1>9
<1>10. SessOK(s, m)'
  BY <1>6, <1>7, <1>8, <1>9 DEF SessOK
<1>11. CacheOK(m)'
  BY <1>0, FilesStay
<1> QED
  BY <1>0, <1>7, <1>10, <1>11, SessionStep

-----------------------------------------------------------------------------
(* Every step keeps the invariant, possibly at later dates m and n.        *)
LEMMA InvStep == ASSUME ~FirstWhileListing, Inv, [Next]_vars PROVE Inv'
<1>1. TypeOK
  BY DEF Inv
<1>2. PICK m \in 0..LastDate, n \in 0..LastDate : InvAt(m, n)
  BY DEF Inv
<1>3. CASE Simulate
  BY <1>1, <1>2, <1>3, SimReads, SimPublishes DEF Simulate, Inv
<1>4. CASE Compact
  <2>1. CASE Plan \/ WriteMerged \/ Finish \/ CompFail
    BY <1>1, <1>2, <2>1, CompWorks DEF Inv
  <2>2. CASE Replace
    BY <1>1, <1>2, <2>2, CompReplaces DEF Inv
  <2>3. CASE Remove
    BY <1>1, <1>2, <2>3, CompRemoves DEF Inv
  <2> QED
    BY <1>4, <2>1, <2>2, <2>3 DEF Compact
<1>5. ASSUME NEW s \in Sessions, Query(s) PROVE Inv'
  <2>1. CASE Begin(s) \/ Close(s)
    BY <1>1, <1>2, <2>1, SessionBeginsOrEnds DEF Inv
  <2>2. CASE CacheHit(s) \/ ResolveBase(s) \/ ResolveDeltas(s)
    BY <1>1, <1>2, <2>2, SessionResolves DEF Inv
  <2>3. CASE CreateView(s)
    BY <1>1, <1>2, <2>3, SessionViews DEF Inv
  <2>4. CASE Execute(s)
    BY <1>1, <1>2, <2>4, SessionExecutes DEF Inv
  <2> QED
    BY <1>5, <2>1, <2>2, <2>3, <2>4 DEF Query
<1>6. CASE UNCHANGED vars
  <2>1. UNCHANGED <<files, comp, sim, cache, sess>>
    BY <1>6 DEF vars
  <2>2. TypeOK'
    BY <1>1, <2>1 DEF TypeOK, files
  <2>3. InvAt(m, n)'
    BY <1>1, <1>2, <2>1, FilesStay DEF InvAt
  <2> QED
    BY <2>2, <2>3 DEF Inv
<1> QED
  BY <1>3, <1>4, <1>5, <1>6 DEF Next

(* Outside the first compaction of an object, its files are always a base  *)
(* and the partitions since, and every process's view of them lags behind  *)
(* in a bounded way.                                                       *)
THEOREM Invariance == ~FirstWhileListing => (Spec => []Inv)
<1> SUFFICES ASSUME ~FirstWhileListing PROVE Spec => []Inv
  OBVIOUS
<1>1. Init => Inv
  BY InitInv
<1>2. Inv /\ [Next]_vars => Inv'
  BY InvStep
<1> QED
  BY <1>1, <1>2, PTL DEF Spec

(* The engine and the simulator's readers resolve the same rows.           *)
THEOREM ReadersAgree == ~FirstWhileListing => (Spec => []SimulatorAgrees)
<1> SUFFICES ASSUME ~FirstWhileListing PROVE Spec => []SimulatorAgrees
  OBVIOUS
<1>1. Spec => []Inv
  BY Invariance
<1>2. Inv => SimulatorAgrees
  <2> SUFFICES ASSUME Inv PROVE SimulatorAgrees
    OBVIOUS
  <2>1. PICK m \in 0..LastDate, n \in 0..LastDate : InvAt(m, n)
    BY DEF Inv
  <2> QED
    BY <2>1, LayoutRows DEF Inv, InvAt, SimulatorAgrees
<1> QED
  BY <1>1, <1>2, PTL

(* Every answer gives each record as it was between the query's start and  *)
(* its end.                                                                *)
THEOREM AnswersInTime == ~FirstWhileListing => (Spec => []RowsOfItsTime)
<1> SUFFICES ASSUME ~FirstWhileListing PROVE Spec => []RowsOfItsTime
  OBVIOUS
<1>1. Spec => []Inv
  BY Invariance
<1>2. Inv => RowsOfItsTime
  <2> SUFFICES ASSUME Inv, NEW s \in Sessions, sess[s].pc = "answered", sess[s].ok,
                      NEW i \in Ids
               PROVE  \E k \in sess[s].start..published : sess[s].rows[i] = D!Current(k)[i]
    BY DEF RowsOfItsTime
  <2>1. PICK m \in 0..LastDate, n \in 0..LastDate : InvAt(m, n)
    BY DEF Inv
  <2>2. PICK k \in sess[s].start..published : sess[s].rows[i] = Rows(k)[i]
    BY <2>1 DEF InvAt, SessOK
  <2> QED
    BY <2>2, CurrentIsRows
<1> QED
  BY <1>1, <1>2, PTL

(* Only its execution answers a query.                                     *)
LEMMA AnswerIsExecute ==
    ASSUME TypeOK, [Next]_vars, NEW s \in Sessions,
           sess[s].pc = "viewed", sess'[s].pc = "answered"
    PROVE  Execute(s)
<1>1. sess'[s] # sess[s]
  OBVIOUS
<1>2. \A t \in Sessions : \A to : sess' = [sess EXCEPT ![t] = to] => t = s /\ to = sess'[s]
  BY <1>1 DEF TypeOK
<1>3. PICK t \in Sessions : Query(t)
  BY <1>1 DEF Next, vars, Simulate, SimList, SimRead, SimPublish, SimFail,
              Compact, Plan, WriteMerged, Replace, Remove, Finish, CompFail
<1>4. t = s
  BY <1>2, <1>3 DEF Query, Begin, CacheHit, ResolveBase, ResolveDeltas, CreateView,
                    Execute, Close, Move
<1> QED
  BY <1>3, <1>4 DEF Query, Begin, CacheHit, ResolveBase, ResolveDeltas, CreateView,
                    Close, Move

(* A query whose fingerprint still holds when it runs finds its files.     *)
THEOREM FailuresExplained == ~FirstWhileListing => (Spec => FailsOnlyIfMoved)
<1> SUFFICES ASSUME ~FirstWhileListing PROVE Spec => FailsOnlyIfMoved
  OBVIOUS
<1>1. Spec => []Inv
  BY Invariance
<1> DEFINE Fails == \A s \in Sessions :
                        sess[s].pc = "viewed" /\ sess'[s].pc = "answered" /\ ~sess'[s].ok
                        => sess[s].stamp # structural_fingerprint
<1>2. Inv /\ [Next]_vars => [Fails]_vars
  <2> SUFFICES ASSUME Inv, [Next]_vars, NEW s \in Sessions, sess[s].pc = "viewed",
                      sess'[s].pc = "answered", ~sess'[s].ok,
                      sess[s].stamp = structural_fingerprint
               PROVE  FALSE
    BY DEF Fails
  <2>1. PICK m \in 0..LastDate, n \in 0..LastDate : InvAt(m, n)
    BY DEF Inv
  <2>2. TypeOK /\ Layout(m, n) /\ SessOK(s, m)
    BY <2>1 DEF Inv, InvAt
  <2>3. /\ published \in 0..LastDate /\ n \in 0..published /\ m \in 0..n
        /\ disk = (m + 1)..published
    BY <2>2 DEF Layout, TypeOK
  <2>4. sess[s].start \in 0..published
    BY <2>2 DEF SessOK
  <2>5. PICK ms \in 0..m, ns \in Nat :
            /\ StampAt(sess[s].stamp, ms, ns, sess[s].start)
            /\ \E m1 \in ms..m, p1 \in sess[s].start..published :
                   ResolvedAt(sess[s].paths \cup sess[s].others, sess[s].dates, m1, p1)
    BY <2>2 DEF SessOK
  <2>6. StampAt(structural_fingerprint, m, n, published)
    BY <2>2, StampNow
  <2>7. ms = m /\ sess[s].start = published
    <3>1. ms \in Nat /\ m \in Nat /\ n \in Nat /\ published \in Nat /\ sess[s].start \in Nat
      BY <2>3, <2>4
    <3> QED
      BY <2>5, <2>6, <3>1, StampUnique
  <2>8. sess[s].dates = disk
    <3>1. PICK m1 \in ms..m, p1 \in sess[s].start..published :
              ResolvedAt(sess[s].paths \cup sess[s].others, sess[s].dates, m1, p1)
      BY <2>5
    <3>2. m1 = m /\ p1 = published
      BY <2>3, <2>7
    <3> QED
      BY <2>3, <3>1, <3>2 DEF ResolvedAt
  <2>9. Execute(s)
    BY <2>2, AnswerIsExecute
  <2>10. sess'[s].ok = (sess[s].dates \subseteq disk)
    BY <2>2, <2>9 DEF Execute, Move, TypeOK, Locals
  <2> QED
    BY <2>8, <2>10
<1> QED
  BY <1>1, <1>2, PTL DEF Spec, FailsOnlyIfMoved, Fails

(* A query mixes dates only over a base that was replaced under it.        *)
THEOREM OneStateAnswers == ~FirstWhileListing => (Spec => AnswersOneState)
<1> SUFFICES ASSUME ~FirstWhileListing PROVE Spec => AnswersOneState
  OBVIOUS
<1>1. Spec => []Inv
  BY Invariance
<1> DEFINE OneState == \A s \in Sessions :
               /\ sess[s].pc = "viewed" /\ sess'[s].pc = "answered" /\ sess'[s].ok
               /\ base = sess[s].stamp.delta.base
               => \E n \in sess[s].start..published : sess'[s].rows = D!Current(n)
<1>2. Inv /\ [Next]_vars => [OneState]_vars
  <2> SUFFICES ASSUME Inv, [Next]_vars, NEW s \in Sessions, sess[s].pc = "viewed",
                      sess'[s].pc = "answered", sess'[s].ok,
                      base = sess[s].stamp.delta.base
               PROVE  \E n \in sess[s].start..published : sess'[s].rows = D!Current(n)
    BY DEF OneState
  <2> DEFINE w == sess[s]
             ok == w.dates \subseteq disk
             answer == Overlay(w.paths, w.others, w.dates)
  <2>1. PICK m \in 0..LastDate, n \in 0..LastDate : InvAt(m, n)
    BY DEF Inv
  <2>2. TypeOK /\ Execute(s)
    BY AnswerIsExecute DEF Inv
  <2>3. PICK k \in w.start..published : answer = Rows(k)
    BY <2>1, <2>2, AnswerRows
  <2> HIDE DEF answer
  <2>4. sess' = [sess EXCEPT ![s] = [w EXCEPT !.pc = "answered", !.ok = ok,
                                               !.rows = IF ok THEN answer ELSE NoRows]]
    BY <2>2 DEF Execute, Move, answer
  <2>5. sess'[s].ok = ok /\ sess'[s].rows = IF ok THEN answer ELSE NoRows
    BY <2>2, <2>4 DEF TypeOK, Locals
  <2>6. sess'[s].rows = Rows(k)
    BY <2>3, <2>5
  <2> QED
    BY <2>6, CurrentIsRows
<1> QED
  BY <1>1, <1>2, PTL DEF Spec, AnswersOneState, OneState

(* No step but a publication changes what a query would answer, and a      *)
(* publication changes it by its date's events.                            *)
THEOREM FilesImplementDataset == ~FirstWhileListing => (Spec => ImplementsDataset)
<1> SUFFICES ASSUME ~FirstWhileListing PROVE Spec => ImplementsDataset
  OBVIOUS
<1>1. Spec => []Inv
  BY Invariance
<1> DEFINE Resolved == EngineRows = Rows(published) /\ published \in 0..LastDate
<1>2. Inv => Resolved
  <2> SUFFICES ASSUME Inv PROVE Resolved
    OBVIOUS
  <2>1. PICK m \in 0..LastDate, n \in 0..LastDate : InvAt(m, n)
    BY DEF Inv
  <2> QED
    BY <2>1, LayoutRows DEF Inv, InvAt, TypeOK
<1>3. Init => D!Init
  <2> SUFFICES ASSUME Init PROVE published = 0 /\ EngineRows = D!Current(0)
    BY DEF D!Init
  <2>1. Inv /\ published = 0
    BY InitInv DEF Init
  <2> QED
    BY <1>2, <2>1, CurrentIsRows
<1>4. Resolved /\ Resolved' /\ [Next]_vars => [D!Next]_<<published, EngineRows>>
  <2> SUFFICES ASSUME Resolved, Resolved', [Next]_vars
               PROVE  [D!Next]_<<published, EngineRows>>
    OBVIOUS
  <2>1. EngineRows = Rows(published) /\ EngineRows' = Rows(published')
    OBVIOUS
  <2>2. CASE published' = published
    BY <2>1, <2>2
  <2>3. CASE published' # published
    <3>1. SimPublish
      BY <2>3 DEF Next, vars, files, Simulate, SimList, SimRead, SimPublish, SimFail,
                  Compact, Plan, WriteMerged, Replace, Remove, Finish, CompFail,
                  Query, Begin, CacheHit, ResolveBase, ResolveDeltas, CreateView,
                  Execute, Close
    <3>2. published' = published + 1 /\ published \in 0..LastDate /\ published' \in 0..LastDate
      BY <3>1 DEF SimPublish, Date
    <3>3. Rows(published + 1) = [i \in Ids |-> IF i \in Changed[published + 1]
                                              THEN Rows(published)[i] \cup {published + 1}
                                              ELSE Rows(published)[i]]
      <4>1. 1..(published + 1) = (1..published) \cup {published + 1}
        BY <3>2
      <4>2. ASSUME NEW i \in Ids
            PROVE  {d \in 1..(published + 1) : i \in Changed[d]}
                     = {d \in 1..published : i \in Changed[d]}
                         \cup (IF i \in Changed[published + 1] THEN {published + 1} ELSE {})
        BY <4>1
      <4> QED
        BY <4>2 DEF Rows
    <3>4. D!Publish
      BY <2>1, <3>2, <3>3 DEF D!Publish
    <3> QED
      BY <3>4 DEF D!Next
  <2> QED
    BY <2>2, <2>3
<1> HIDE DEF Resolved
<1> QED
  BY <1>1, <1>2, <1>3, <1>4, PTL DEF Spec, ImplementsDataset, D!Spec
=============================================================================
