------------------------- MODULE CursorPagingProofs -------------------------
(***************************************************************************)
(* Proofs about CursorPaging, for any number of locators, records,         *)
(* snapshots, retries and crashes, and any page size.  What the clean-up   *)
(* promises needs no hypothesis; that an extract is one result of one      *)
(* snapshot needs a total order of the query's result.                     *)
(***************************************************************************)
EXTENDS CursorPaging, NumberLemmas, SequenceTheorems, TLAPS

USE CursorAssumption

(* The rows, the files and the clients are records of the right fields.    *)
Shape ==
    /\ snapshot \in Snapshots
    /\ DOMAIN cursor = Locators /\ DOMAIN artifact = Locators /\ DOMAIN client = Locators
    /\ \A l \in Locators : /\ DOMAIN cursor[l] = DOMAIN NoCursor
                           /\ DOMAIN client[l] = DOMAIN NewClient
                           /\ client[l].snapshot \in Snapshots

(* Requests and abandoned threads live in a process that is up; the row of *)
(* a cursor is never visible without its index, and the sweep knows every  *)
(* visible row and no deleted one.                                         *)
ServerOK(l) ==
    /\ client[l].pc \in {"open", "indexed", "checked"} => phase = "up"
    /\ l \in zombie => phase = "up" /\ client[l].pc = "failed"
    /\ client[l].pc = "indexed" => artifact[l].exists
    /\ Visible(l) => artifact[l].exists
    /\ phase = "sweep" => (Visible(l) => l \in active) /\ (l \in active => cursor[l].open)

Inv == Shape /\ \A l \in Locators : ServerOK(l)
----------------------------------------------------------------------------
(* What the next state has for every locator but the one a step is about.  *)
LEMMA ServerFrame ==
    ASSUME NEW k \in Locators, ServerOK(k),
           client'[k] = client[k], cursor'[k] = cursor[k], artifact'[k] = artifact[k],
           phase' = phase, active' = active, k \in zombie' => k \in zombie
    PROVE  ServerOK(k)'
BY DEF ServerOK, Visible

(* The server starts down, with nothing on disk.                           *)
LEMMA InitInv == Init => Inv
<1> SUFFICES ASSUME Init PROVE Inv
  OBVIOUS
<1>1. 0 \in Snapshots
  BY DEF Snapshots
<1>2. Shape
  BY <1>1 DEF Init, Shape, NewClient
<1>3. ASSUME NEW l \in Locators PROVE ServerOK(l)
  BY DEF Init, ServerOK, Visible, NewClient, NoCursor
<1> QED
  BY <1>2, <1>3 DEF Inv

(* What a later page changes of its client.                                *)
LEMMA MoreReplyFields ==
    ASSUME Shape, NEW l \in Locators, MoreReply(l)
    PROVE  /\ DOMAIN client'[l] = DOMAIN client[l]
           /\ client'[l].snapshot = client[l].snapshot
           /\ client'[l].total = client[l].total
           /\ client'[l].next = client[l].next + Len(PageNow(l))
           /\ client'[l].got = client[l].got \o PageNow(l)
           /\ client'[l].pc = IF client[l].next + Len(PageNow(l)) >= cursor[l].total
                              THEN "done" ELSE "idle"
<1> DEFINE page == PageNow(l)
           p == IF client[l].next + Len(page) >= cursor[l].total THEN "done" ELSE "idle"
<1>1. client' = [client EXCEPT ![l].pc = p, ![l].next = @ + Len(page), ![l].got = @ \o page]
  BY DEF MoreReply
<1>2. DOMAIN client = Locators /\ DOMAIN client[l] = {"pc", "snapshot", "total", "next", "got"}
  BY DEF Shape, NewClient
<1>3. client'[l] = [[[client[l] EXCEPT !.pc = p] EXCEPT !.next = @ + Len(page)] EXCEPT !.got = @ \o page]
  <2> HIDE DEF p, page
  <2> QED
    BY <1>1, <1>2
<1> HIDE DEF p, page
<1>4. /\ DOMAIN client'[l] = DOMAIN client[l] /\ client'[l].pc = p
      /\ client'[l].snapshot = client[l].snapshot /\ client'[l].total = client[l].total
      /\ client'[l].next = client[l].next + Len(page) /\ client'[l].got = client[l].got \o page
  BY <1>2, <1>3
<1> QED
  BY <1>4 DEF p, page

(* The steps of one request.                                               *)
LEMMA RequestInv ==
    ASSUME Inv, NEW l \in Locators,
           \/ Lapse(l) \/ Open(l) \/ FirstPage(l) \/ CreateCursor(l) \/ FirstDeadline(l)
           \/ ZombieEnds(l) \/ More(l) \/ MoreReply(l) \/ MoreRepeated(l)
    PROVE  Inv'
<1>0. Shape /\ \A k \in Locators : ServerOK(k)
  BY DEF Inv
<1>1. snapshot' = snapshot /\ phase' = phase /\ active' = active
  BY DEF Lapse, Open, FirstPage, CreateCursor, FirstDeadline, ZombieEnds, More, MoreReply,
         MoreRepeated, server
<1>2. /\ DOMAIN cursor' = Locators /\ DOMAIN artifact' = Locators /\ DOMAIN client' = Locators
      /\ \A k \in Locators : k # l => /\ client'[k] = client[k]
                                      /\ cursor'[k] = cursor[k]
                                      /\ artifact'[k] = artifact[k]
                                      /\ k \in zombie' => k \in zombie
  BY <1>0 DEF Shape, Lapse, Open, FirstPage, CreateCursor, FirstDeadline, ZombieEnds, More,
              MoreReply, MoreRepeated, server
<1>3. ASSUME DOMAIN cursor'[l] = DOMAIN NoCursor, DOMAIN client'[l] = DOMAIN NewClient,
             client'[l].snapshot \in Snapshots, ServerOK(l)'
      PROVE  Inv'
  <2>1. Shape'
    BY <1>0, <1>1, <1>2, <1>3 DEF Shape
  <2>2. ASSUME NEW k \in Locators, k # l PROVE ServerOK(k)'
    BY <1>0, <1>1, <1>2, <2>2, ServerFrame
  <2> QED
    BY <1>3, <2>1, <2>2 DEF Inv
<1>4. /\ DOMAIN cursor[l] = DOMAIN NoCursor /\ DOMAIN client[l] = DOMAIN NewClient
      /\ client[l].snapshot \in Snapshots /\ ServerOK(l)
  BY <1>0 DEF Shape
<1>5. CASE Lapse(l)
  <2>1. /\ cursor'[l] = [cursor[l] EXCEPT !.expired = TRUE]
        /\ UNCHANGED <<client, artifact, zombie>>
    BY <1>0, <1>5 DEF Lapse, Shape, server
  <2>2. cursor'[l].open = cursor[l].open /\ cursor'[l].expired /\ DOMAIN cursor'[l] = DOMAIN NoCursor
    BY <1>4, <2>1 DEF NoCursor
  <2> QED
    BY <1>1, <1>3, <1>4, <2>1, <2>2 DEF ServerOK, Visible
<1>6. ASSUME UNCHANGED <<cursor, artifact, zombie>>, client[l].pc # "failed",
             client'[l] = [client[l] EXCEPT !.pc = client'[l].pc],
             client'[l].pc \in {"idle", "failed"} \/ (client'[l].pc = "checked" /\ phase = "up")
      PROVE  Inv'
  <2>1. DOMAIN client'[l] = DOMAIN NewClient /\ client'[l].snapshot = client[l].snapshot
    BY <1>4, <1>6 DEF NewClient
  <2>2. ServerOK(l)'
    BY <1>1, <1>4, <1>6 DEF ServerOK, Visible
  <2> QED
    BY <1>3, <1>4, <1>6, <2>1, <2>2
<1>7. CASE More(l)
  <2>1. PICK p \in {"checked", "failed"} : client' = [client EXCEPT ![l].pc = p]
    BY <1>7 DEF More
  <2>2. client'[l] = [client[l] EXCEPT !.pc = p] /\ client'[l].pc = p
    BY <1>0, <1>4, <2>1 DEF Shape, NewClient
  <2> QED
    BY <1>6, <1>7, <2>2 DEF More, server
<1>8. CASE MoreRepeated(l)
  <2>1. client'[l] = [client[l] EXCEPT !.pc = "idle"] /\ client'[l].pc = "idle"
    BY <1>0, <1>4, <1>8 DEF MoreRepeated, Shape, NewClient
  <2> QED
    BY <1>6, <1>8, <2>1 DEF MoreRepeated, server
<1>9. CASE Open(l)
  <2>1. client'[l] = [client[l] EXCEPT !.pc = "open", !.snapshot = snapshot]
    BY <1>0, <1>9 DEF Open, Shape
  <2>2. /\ DOMAIN client'[l] = DOMAIN NewClient
        /\ client'[l].pc = "open" /\ client'[l].snapshot = snapshot
    BY <1>4, <2>1 DEF NewClient
  <2>3. /\ UNCHANGED <<cursor, artifact, zombie>>
        /\ phase = "up" /\ client[l].pc = "new"
    BY <1>9 DEF Open, server
  <2>4. ServerOK(l)'
    BY <1>1, <1>4, <2>2, <2>3 DEF ServerOK, Visible
  <2> QED
    BY <1>0, <1>3, <1>4, <2>2, <2>3, <2>4 DEF Shape
<1>10. CASE FirstPage(l)
  <2>0. PICK first, index \in Results[client[l].snapshot] :
            LET page == Records(client[l].snapshot, PageOf(first, 0))
                last == Len(page) >= Len(first)
            IN  /\ client' = [client EXCEPT ![l].pc = IF last THEN "done" ELSE "indexed",
                                            ![l].total = Len(first), ![l].got = page]
                /\ artifact' = IF last THEN artifact
                               ELSE [artifact EXCEPT ![l] = [ids |-> index, exists |-> TRUE]]
    BY <1>10 DEF FirstPage
  <2> DEFINE n == Len(first)
             page == Records(client[l].snapshot, PageOf(first, 0))
             p == IF Len(page) >= Len(first) THEN "done" ELSE "indexed"
  <2>1. /\ client' = [client EXCEPT ![l].pc = p, ![l].total = n, ![l].got = page]
        /\ artifact' = IF p = "done" THEN artifact
                       ELSE [artifact EXCEPT ![l] = [ids |-> index, exists |-> TRUE]]
        /\ p \in {"done", "indexed"}
    BY <2>0
  <2> HIDE DEF n, page, p
  <2>2. client'[l] = [client[l] EXCEPT !.pc = p, !.total = n, !.got = page]
    BY <1>0, <2>1 DEF Shape
  <2>3. /\ DOMAIN client'[l] = DOMAIN NewClient
        /\ client'[l].pc = p /\ client'[l].snapshot = client[l].snapshot
    BY <1>4, <2>2 DEF NewClient
  <2>4. \/ p = "done" /\ artifact'[l] = artifact[l]
        \/ p = "indexed" /\ artifact'[l].exists
    BY <1>0, <2>1 DEF Shape
  <2>5. UNCHANGED <<cursor, zombie>> /\ client[l].pc = "open"
    BY <1>10 DEF FirstPage, server
  <2>6. ServerOK(l)'
    BY <1>1, <1>4, <2>3, <2>4, <2>5 DEF ServerOK, Visible
  <2> QED
    BY <1>3, <1>4, <2>3, <2>5, <2>6
<1>11. CASE CreateCursor(l)
  <2>1. client'[l] = [client[l] EXCEPT !.pc = "idle", !.next = Len(client[l].got)]
    BY <1>0, <1>11 DEF CreateCursor, Shape
  <2>2. /\ DOMAIN client'[l] = DOMAIN NewClient
        /\ client'[l].pc = "idle" /\ client'[l].snapshot = client[l].snapshot
    BY <1>4, <2>1 DEF NewClient
  <2>3. DOMAIN cursor'[l] = DOMAIN NoCursor
    BY <1>0, <1>11 DEF CreateCursor, Shape, NoCursor
  <2>4. UNCHANGED <<artifact, zombie>> /\ client[l].pc = "indexed"
    BY <1>11 DEF CreateCursor, server
  <2>5. ServerOK(l)'
    BY <1>1, <1>4, <2>2, <2>4 DEF ServerOK, Visible
  <2> QED
    BY <1>3, <1>4, <2>2, <2>3, <2>5
<1>12. CASE FirstDeadline(l)
  <2>1. client'[l] = [client[l] EXCEPT !.pc = "failed"]
    BY <1>0, <1>12 DEF FirstDeadline, Shape
  <2>2. /\ DOMAIN client'[l] = DOMAIN NewClient
        /\ client'[l].pc = "failed" /\ client'[l].snapshot = client[l].snapshot
    BY <1>4, <2>1 DEF NewClient
  <2>3. UNCHANGED <<cursor, artifact>> /\ client[l].pc = "open"
    BY <1>12 DEF FirstDeadline
  <2>4. ServerOK(l)'
    BY <1>1, <1>4, <2>2, <2>3 DEF ServerOK, Visible
  <2> QED
    BY <1>3, <1>4, <2>2, <2>3, <2>4
<1>13. CASE ZombieEnds(l)
  <2>1. UNCHANGED <<cursor, client>> /\ l \notin zombie' /\ l \in zombie
    BY <1>13 DEF ZombieEnds
  <2>2. artifact'[l] = artifact[l] \/ artifact'[l].exists
    BY <1>0, <1>13 DEF ZombieEnds, Shape
  <2>3. ServerOK(l)'
    BY <1>1, <1>4, <2>1, <2>2 DEF ServerOK, Visible
  <2> QED
    BY <1>3, <1>4, <2>1, <2>3
<1>14. CASE MoreReply(l)
  <2>1. /\ DOMAIN client'[l] = DOMAIN client[l]
        /\ client'[l].snapshot = client[l].snapshot
        /\ client'[l].pc \in {"done", "idle"}
    BY <1>0, <1>14, MoreReplyFields
  <2>4. UNCHANGED <<cursor, artifact, zombie>> /\ client[l].pc = "checked"
    BY <1>14 DEF MoreReply, server
  <2>5. ServerOK(l)'
    BY <1>1, <1>4, <2>1, <2>4 DEF ServerOK, Visible
  <2> QED
    BY <1>3, <1>4, <2>1, <2>4, <2>5
<1> QED
  BY <1>5, <1>7, <1>8, <1>9, <1>10, <1>11, <1>12, <1>13, <1>14

(* Publications, the crash, and the steps of the startup.                  *)
LEMMA StartupInv ==
    ASSUME Inv, Publish \/ Crash \/ Startup
    PROVE  Inv'
<1>0. Shape /\ \A k \in Locators : ServerOK(k)
  BY DEF Inv
<1>1. CASE Publish
  <2>1. snapshot' \in Snapshots
    BY <1>0, <1>1 DEF Publish, Shape, Snapshots
  <2>2. UNCHANGED <<cursor, artifact, client, phase, active, zombie>>
    BY <1>1 DEF Publish, server
  <2>3. Shape'
    BY <1>0, <2>1, <2>2 DEF Shape
  <2>4. \A k \in Locators : ServerOK(k)'
    BY <1>0, <2>2, ServerFrame
  <2> QED
    BY <2>3, <2>4 DEF Inv
<1>2. CASE Crash
  <2>1. UNCHANGED <<snapshot, cursor, artifact>> /\ phase' = "down" /\ zombie' = {}
    BY <1>2 DEF Crash
  <2>2. ASSUME NEW k \in Locators
        PROVE  /\ DOMAIN client'[k] = DOMAIN NewClient
               /\ client'[k].snapshot = client[k].snapshot
               /\ client'[k].pc \notin {"open", "indexed", "checked"}
    <3>1. DOMAIN client[k] = DOMAIN NewClient
      BY <1>0 DEF Shape
    <3>2. client'[k] = CASE client[k].pc \in {"open", "indexed"} -> [client[k] EXCEPT !.pc = "failed"]
                         [] client[k].pc = "checked" -> [client[k] EXCEPT !.pc = "idle"]
                         [] OTHER -> client[k]
      BY <1>2 DEF Crash
    <3> QED
      BY <3>1, <3>2 DEF NewClient
  <2>3. DOMAIN client' = Locators
    BY <1>2 DEF Crash
  <2>4. Shape'
    BY <1>0, <2>1, <2>2, <2>3 DEF Shape
  <2>5. ASSUME NEW k \in Locators PROVE ServerOK(k)'
    BY <1>0, <2>1, <2>2 DEF ServerOK, Visible
  <2> QED
    BY <2>4, <2>5 DEF Inv
<1>3. CASE ExpireCursors
  <2>1. /\ phase = "down" /\ phase' = "expired" /\ UNCHANGED <<snapshot, artifact, zombie, client>>
        /\ cursor' = [k \in Locators |-> IF cursor[k].expired THEN NoCursor ELSE cursor[k]]
    BY <1>3 DEF ExpireCursors
  <2>2. \A k \in Locators : cursor'[k] \in {cursor[k], NoCursor}
    BY <2>1
  <2>3. Shape'
    BY <1>0, <2>1, <2>2 DEF Shape
  <2>4. ASSUME NEW k \in Locators PROVE ServerOK(k)'
    BY <1>0, <2>1, <2>2 DEF ServerOK, Visible, NoCursor
  <2> QED
    BY <2>3, <2>4 DEF Inv
<1>4. CASE ListActive
  <2>1. /\ phase = "expired" /\ UNCHANGED <<snapshot, cursor, artifact, zombie, client>>
        /\ phase' = "sweep" /\ active' = {l \in Locators : Visible(l)}
    BY <1>4 DEF ListActive
  <2>2. Shape'
    BY <1>0, <2>1 DEF Shape
  <2>3. ASSUME NEW k \in Locators PROVE ServerOK(k)'
    BY <1>0, <2>1 DEF ServerOK, Visible
  <2> QED
    BY <2>2, <2>3 DEF Inv
<1>5. ASSUME NEW l \in Locators, RemoveArtifact(l) PROVE Inv'
  <2>1. /\ phase = "sweep" /\ l \notin active
        /\ UNCHANGED <<snapshot, cursor, client, phase, active, zombie>>
        /\ artifact' = [artifact EXCEPT ![l] = NoFile]
    BY <1>5 DEF RemoveArtifact, server
  <2>2. Shape'
    BY <1>0, <2>1 DEF Shape
  <2>3. ASSUME NEW k \in Locators PROVE ServerOK(k)'
    <3>1. CASE k = l
      BY <1>0, <2>1, <3>1 DEF ServerOK, Visible
    <3>2. CASE k # l
      BY <1>0, <2>1, <3>2, ServerFrame DEF Shape
    <3> QED
      BY <3>1, <3>2
  <2> QED
    BY <2>2, <2>3 DEF Inv
<1>6. CASE FinishStartup
  <2>1. /\ phase = "sweep" /\ phase' = "up" /\ UNCHANGED <<snapshot, cursor, artifact, zombie, client>>
    BY <1>6 DEF FinishStartup
  <2>2. Shape'
    BY <1>0, <2>1 DEF Shape
  <2>3. ASSUME NEW k \in Locators PROVE ServerOK(k)'
    BY <1>0, <2>1 DEF ServerOK, Visible
  <2> QED
    BY <2>2, <2>3 DEF Inv
<1> QED
  BY <1>1, <1>2, <1>3, <1>4, <1>5, <1>6 DEF Startup

(* Every step keeps the invariant.                                         *)
LEMMA NextInv == Inv /\ [Next]_vars => Inv'
<1> SUFFICES ASSUME Inv, [Next]_vars PROVE Inv'
  OBVIOUS
<1>1. CASE Next
  BY <1>1, RequestInv, StartupInv DEF Next, Serve
<1>2. CASE UNCHANGED vars
  <2>1. UNCHANGED <<snapshot, cursor, artifact, phase, active, zombie, client>>
    BY <1>2 DEF vars, server
  <2>2. Shape'
    BY <2>1 DEF Inv, Shape
  <2>3. \A k \in Locators : ServerOK(k)'
    BY <2>1, ServerFrame DEF Inv
  <2> QED
    BY <2>2, <2>3 DEF Inv
<1> QED
  BY <1>1, <1>2

(* The invariant of the cursors and their files, through any crash,        *)
(* deadline and clean-up.                                                  *)
THEOREM Invariance == Spec => []Inv
<1> QED
  BY InitInv, NextInv, PTL DEF Spec

(* query_more never finds a valid locator without its index: the file is   *)
(* there before the row is, and the clean-up at startup removes it only    *)
(* when the row is gone or has expired.                                    *)
THEOREM CursorsReadable == Spec => []OpenCursorReadable
<1>1. Inv => OpenCursorReadable
  BY DEF Inv, ServerOK, OpenCursorReadable
<1> QED
  BY <1>1, Invariance, PTL

(* recover_cursor_artifacts leaves no index on disk without its row.       *)
THEOREM NoOrphanAfterStartup == Spec => StartupLeavesNoOrphan
<1> DEFINE Clean == phase = "sweep" /\ phase' = "up" =>
                       \A l \in Locators : artifact'[l].exists => cursor'[l].open
<1>1. ASSUME Inv, [Next]_vars, phase = "sweep", phase' = "up",
             NEW l \in Locators, artifact'[l].exists
      PROVE  cursor'[l].open
  <2>1. FinishStartup
    BY <1>1 DEF Next, Startup, Serve, Publish, Crash, ExpireCursors, ListActive, RemoveArtifact,
                Lapse, Open, FirstPage, CreateCursor, FirstDeadline, ZombieEnds, More, MoreReply,
                MoreRepeated, server, vars
  <2>2. l \in active /\ cursor' = cursor
    BY <1>1, <2>1 DEF FinishStartup
  <2> QED
    BY <1>1, <2>2 DEF Inv, ServerOK
<1>2. Inv /\ [Next]_vars => [Clean]_vars
  BY <1>1
<1> QED
  BY <1>2, Invariance, PTL DEF Spec, StartupLeavesNoOrphan
----------------------------------------------------------------------------
(* The hypothesis under which a page is the continuation of the one before *)
(* it: on one snapshot a query has one result, that is, its sort order is  *)
(* total.  FirstPage reads the page and the index in two scans.            *)
OneOrder == \A v \in Snapshots : \A o, p \in Results[v] : o = p

Order(v) == CHOOSE o \in Results[v] : TRUE

(* The first n records of that result.                                     *)
Prefix(v, n) == [k \in 1..n |-> Record(v, Order(v)[k])]

(* A client that no publication has torn holds a prefix of the result of   *)
(* its snapshot, and its cursor and its index are about that snapshot.     *)
ExtractOK(l) ==
    LET c == client[l]
        v == c.snapshot
        n == Len(Order(v))
    IN  /\ c.pc = "open" => v = snapshot
        /\ c.pc = "indexed" =>
              /\ v = snapshot
              /\ artifact[l].ids = Order(v)
              /\ c.total = n
              /\ \E len \in 0..n : c.got = Prefix(v, len)
        /\ c.pc \in {"idle", "checked"} =>
              /\ c.next \in 0..n
              /\ c.got = Prefix(v, c.next)
              /\ artifact[l].exists => artifact[l].ids = Order(v)
              /\ cursor[l].open => cursor[l].snapshot = v /\ cursor[l].total = n
        /\ c.pc = "checked" => v = snapshot /\ cursor[l].open /\ artifact[l].exists
        /\ c.pc = "done" => c.got = Prefix(v, n)

ExtractInv == \A l \in Locators : l \in torn \/ ExtractOK(l)

(* The result of a snapshot, and that it matches itself.                   *)
LEMMA OrderFacts ==
    ASSUME NEW v \in Snapshots
    PROVE  /\ Order(v) \in Results[v] /\ Order(v) \in Seq(Ids) /\ Len(Order(v)) \in Nat
           /\ \A k \in 1..Len(Order(v)) : Order(v)[k] \in Matching(v)
<1>1. Order(v) \in Results[v]
  BY DEF Order
<1>2. Order(v) \in Seq(Ids)
  BY <1>1
<1>3. Len(Order(v)) \in Nat /\ DOMAIN Order(v) = 1..Len(Order(v))
  BY <1>2, LenProperties
<1>4. ASSUME NEW k \in DOMAIN Order(v) PROVE Order(v)[k] \in Matching(v)
  BY <1>1 DEF Matching, ToSet
<1> QED
  BY <1>1, <1>2, <1>3, <1>4

(* A function on 1..n is a sequence of length n.                           *)
LEMMA FunctionIsSeq ==
    ASSUME NEW n \in Nat, NEW S, NEW f \in [1..n -> S]
    PROVE  f \in Seq(S) /\ Len(f) = n
OBVIOUS

(* A page is the next stretch of the sequence.                             *)
LEMMA PageFacts ==
    ASSUME NEW seq \in Seq(Ids), NEW offset \in 0..Len(seq)
    PROVE  \E len \in Nat : /\ offset + len <= Len(seq)
                            /\ PageOf(seq, offset) \in [1..len -> Ids]
                            /\ \A i \in 1..len : PageOf(seq, offset)[i] = seq[offset + i]
<1> DEFINE n == Len(seq)
           end == IF offset + BatchSize < n THEN offset + BatchSize ELSE n
           page == SubSeq(seq, offset + 1, end)
<1>1. n \in Nat /\ seq \in [1..n -> Ids]
  BY LenProperties
<1>2. PageOf(seq, offset) = page
  BY DEF PageOf
<1>3. offset \in Nat /\ offset <= n
  BY <1>1
<1>4. end \in Nat /\ offset <= end /\ end <= n
  BY <1>1, <1>3
<1> HIDE DEF n, end
<1>5. \A i \in offset + 1 .. end : seq[i] \in Ids
  <2>1. \A i \in offset + 1 .. end : i \in 1..n
    BY <1>1, <1>3, <1>4
  <2> QED
    BY <1>1, <2>1
<1>6. /\ page \in Seq(Ids)
      /\ Len(page) = IF offset + 1 <= end THEN end - (offset + 1) + 1 ELSE 0
      /\ \A i \in 1 .. end - (offset + 1) + 1 : page[i] = seq[offset + 1 + i - 1]
  <2>1. offset + 1 \in Int /\ end \in Int
    BY <1>3, <1>4
  <2> QED
    BY <1>5, <2>1, SubSeqProperties
<1> DEFINE len == end - offset
<1>7. len \in Nat /\ Len(page) = len /\ offset + len <= n
  BY <1>3, <1>4, <1>6
<1>8. page \in [1..len -> Ids]
  BY <1>6, <1>7, LenProperties
<1>9. ASSUME NEW i \in 1..len PROVE page[i] = seq[offset + i]
  <2>1. i \in 1 .. end - (offset + 1) + 1 /\ offset + 1 + i - 1 = offset + i
    BY <1>3, <1>4
  <2> QED
    BY <1>6, <2>1
<1> HIDE DEF len, page
<1> QED
  BY <1>2, <1>7, <1>8, <1>9 DEF n

(* Prefixes grow by the records that follow.                               *)
LEMMA PrefixConcat ==
    ASSUME NEW v, NEW n \in Nat, NEW len \in Nat
    PROVE  Prefix(v, n) \o [i \in 1..len |-> Record(v, Order(v)[n + i])] = Prefix(v, n + len)
<1> DEFINE rec(k) == Record(v, Order(v)[k])
           S == {rec(k) : k \in 1..n + len}
           p == [k \in 1..n |-> rec(k)]
           q == [i \in 1..len |-> rec(n + i)]
           t == [k \in 1..n + len |-> rec(k)]
<1>1. p \in [1..n -> S] /\ q \in [1..len -> S] /\ t \in [1..n + len -> S]
  <2>1. \A k \in 1..n : k \in 1..n + len
    OBVIOUS
  <2>2. \A i \in 1..len : n + i \in 1..n + len
    OBVIOUS
  <2> HIDE DEF rec
  <2> QED
    BY <2>1, <2>2
<1>2. n + len \in Nat
  OBVIOUS
<1>3. Prefix(v, n) = p /\ Prefix(v, n + len) = t
  BY DEF Prefix
<1>4. \A k \in 1..n : p[k] = rec(k)
  OBVIOUS
<1>5. \A i \in 1..len : q[i] = rec(n + i)
  OBVIOUS
<1>6. \A k \in 1..n + len : t[k] = rec(k)
  OBVIOUS
<1> HIDE DEF S, p, q, t, rec
<1>7. /\ p \in Seq(S) /\ q \in Seq(S) /\ t \in Seq(S)
      /\ Len(p) = n /\ Len(q) = len /\ Len(t) = n + len
  BY <1>1, <1>2, FunctionIsSeq
<1>8. /\ p \o q \in Seq(S) /\ Len(p \o q) = n + len
      /\ \A k \in 1..n + len : (p \o q)[k] = IF k <= n THEN p[k] ELSE q[k - n]
  BY <1>7, ConcatProperties
<1>9. ASSUME NEW k \in 1..n + len PROVE (p \o q)[k] = t[k]
  <2>1. CASE k <= n
    BY <1>4, <1>6, <1>8, <2>1
  <2>2. CASE ~(k <= n)
    <3>1. k - n \in 1..len /\ n + (k - n) = k
      BY <2>2
    <3> QED
      BY <1>5, <1>6, <1>8, <2>2, <3>1
  <2> QED
    BY <2>1, <2>2
<1>10. p \o q = t
  BY <1>7, <1>8, <1>9, SeqEqual
<1> QED
  BY <1>3, <1>10 DEF q, rec

(* A prefix is as long as it says, and the whole of it is the result.      *)
LEMMA PrefixFacts ==
    ASSUME NEW v \in Snapshots
    PROVE  /\ \A n \in Nat : Len(Prefix(v, n)) = n
           /\ Records(v, Order(v)) = Prefix(v, Len(Order(v)))
<1>1. ASSUME NEW n \in Nat PROVE Len(Prefix(v, n)) = n
  <2> DEFINE S == {Record(v, Order(v)[k]) : k \in 1..n}
  <2>1. Prefix(v, n) \in [1..n -> S]
    BY DEF Prefix
  <2> HIDE DEF S
  <2> QED
    BY <2>1, FunctionIsSeq
<1>2. DOMAIN Order(v) = 1..Len(Order(v))
  BY OrderFacts, LenProperties
<1> QED
  BY <1>1, <1>2 DEF Records, Prefix

(* The first page is a prefix of the result, and so is its continuation.   *)
LEMMA FirstPageIsPrefix ==
    ASSUME NEW v \in Snapshots
    PROVE  \E n \in 0..Len(Order(v)) : Records(v, PageOf(Order(v), 0)) = Prefix(v, n)
<1> DEFINE o == Order(v)
           page == PageOf(o, 0)
<1>1. o \in Seq(Ids) /\ Len(o) \in Nat
  BY OrderFacts
<1> HIDE DEF o
<1>2. PICK n \in Nat : /\ 0 + n <= Len(o)
                       /\ page \in [1..n -> Ids]
                       /\ \A i \in 1..n : page[i] = o[0 + i]
  <2>1. 0 \in 0..Len(o)
    BY <1>1
  <2> QED
    BY <1>1, <2>1, PageFacts
<1>3. DOMAIN page = 1..n /\ \A i \in 1..n : page[i] = o[i]
  BY <1>2
<1> HIDE DEF page
<1>4. Records(v, page) = Prefix(v, n)
  BY <1>3 DEF Records, Prefix, o
<1>5. n \in 0..Len(o)
  BY <1>1, <1>2
<1> QED
  BY <1>4, <1>5 DEF o, page

(* A later page, read on the snapshot of the index, is the stretch of the  *)
(* result that follows: no id is missing from the source.                  *)
LEMMA PageNowFollows ==
    ASSUME NEW l \in Locators, NEW v \in Snapshots, snapshot = v, artifact[l].ids = Order(v),
           NEW next \in 0..Len(Order(v)), client[l].next = next
    PROVE  \E len \in Nat : /\ next + len <= Len(Order(v))
                            /\ Len(PageNow(l)) = len
                            /\ PageNow(l) = [i \in 1..len |-> Record(v, Order(v)[next + i])]
<1> DEFINE o == Order(v)
           page == PageOf(o, next)
<1>1. o \in Seq(Ids) /\ Len(o) \in Nat /\ \A k \in 1..Len(o) : o[k] \in Matching(v)
  BY OrderFacts
<1>2. next \in 0..Len(o)
  OBVIOUS
<1>3. PageNow(l) = LET kept == {k \in DOMAIN page : page[k] \in Matching(v)}
                   IN  Records(v, Kept(page, kept))
  BY DEF PageNow
<1> HIDE DEF o
<1>4. PICK len \in Nat : /\ next + len <= Len(o)
                         /\ page \in [1..len -> Ids]
                         /\ \A i \in 1..len : page[i] = o[next + i]
  BY <1>1, <1>2, PageFacts
<1> HIDE DEF page
<1>5. \A i \in 1..len : page[i] \in Matching(v)
  <2>1. \A i \in 1..len : next + i \in 1..Len(o)
    BY <1>1, <1>2, <1>4
  <2> QED
    BY <1>1, <1>4, <2>1
<1>6. {k \in DOMAIN page : page[k] \in Matching(v)} = 1..len
  BY <1>4, <1>5
<1>7. Kept(page, 1..len) = [n \in 1..len |-> page[n]]
  <2>1. PICK a \in Nat : a = 1
    OBVIOUS
  <2>2. Kept(page, a..a + len - 1) = [n \in 1..len |-> page[a + n - 1]]
    BY <1>4, <2>1, KeptOfInterval
  <2>3. a..a + len - 1 = 1..len /\ \A n \in 1..len : a + n - 1 = n
    BY <2>1
  <2>4. [n \in 1..len |-> page[a + n - 1]] = [n \in 1..len |-> page[n]]
    BY <2>3
  <2> QED
    BY <2>2, <2>3, <2>4
<1>8. PageNow(l) = Records(v, [n \in 1..len |-> page[n]])
  BY <1>3, <1>6, <1>7
<1>9. [n \in 1..len |-> page[n]] = [n \in 1..len |-> o[next + n]]
  BY <1>4
<1>10. PageNow(l) = [i \in 1..len |-> Record(v, o[next + i])]
  BY <1>8, <1>9 DEF Records
<1> DEFINE S == {Record(v, o[next + i]) : i \in 1..len}
<1>11. PageNow(l) \in [1..len -> S]
  BY <1>10
<1> HIDE DEF S
<1>12. Len(PageNow(l)) = len
  BY <1>11, FunctionIsSeq
<1> QED
  BY <1>4, <1>10, <1>12 DEF o
----------------------------------------------------------------------------
(* A step that leaves a client, its cursor and its index alone.            *)
LEMMA ExtractFrame ==
    ASSUME NEW k \in Locators, ExtractOK(k), client'[k] = client[k], snapshot' = snapshot,
           artifact'[k] = artifact[k], cursor'[k] = cursor[k]
    PROVE  ExtractOK(k)'
BY DEF ExtractOK

(* The requests of a client.                                               *)
LEMMA RequestExtract ==
    ASSUME OneOrder, Inv, NEW l \in Locators, ExtractOK(l),
           \/ Lapse(l) \/ Open(l) \/ FirstPage(l) \/ CreateCursor(l) \/ FirstDeadline(l)
           \/ ZombieEnds(l) \/ More(l) \/ MoreReply(l) \/ MoreRepeated(l)
    PROVE  ExtractOK(l)'
<1>0. Shape /\ ServerOK(l) /\ client[l].snapshot \in Snapshots
  BY DEF Inv, Shape
<1>1. /\ DOMAIN client = Locators /\ DOMAIN cursor = Locators /\ DOMAIN artifact = Locators
      /\ DOMAIN client[l] = {"pc", "snapshot", "total", "next", "got"}
      /\ DOMAIN cursor[l] = {"open", "expired", "snapshot", "total"}
  BY <1>0 DEF Shape, NewClient, NoCursor
<1>2. PICK v \in Snapshots : v = client[l].snapshot
  BY <1>0
<1>3. Len(Order(v)) \in Nat
  BY OrderFacts
<1>4. CASE Lapse(l)
  <2>1. cursor'[l] = [cursor[l] EXCEPT !.expired = TRUE] /\ UNCHANGED <<client, artifact, snapshot>>
    BY <1>1, <1>4 DEF Lapse
  <2>2. /\ cursor'[l].open = cursor[l].open /\ cursor'[l].snapshot = cursor[l].snapshot
        /\ cursor'[l].total = cursor[l].total
    BY <1>1, <2>1
  <2> QED
    BY <2>1, <2>2 DEF ExtractOK
<1>5. CASE Open(l)
  <2>1. client'[l] = [client[l] EXCEPT !.pc = "open", !.snapshot = snapshot] /\ snapshot' = snapshot
    BY <1>1, <1>5 DEF Open
  <2>2. client'[l].pc = "open" /\ client'[l].snapshot = snapshot
    BY <1>1, <2>1
  <2> QED
    BY <2>1, <2>2 DEF ExtractOK
<1>6. CASE FirstPage(l)
  <2>1. PICK first, index \in Results[v] :
            LET page == Records(v, PageOf(first, 0))
                last == Len(page) >= Len(first)
            IN  /\ client' = [client EXCEPT ![l].pc = IF last THEN "done" ELSE "indexed",
                                            ![l].total = Len(first), ![l].got = page]
                /\ artifact' = IF last THEN artifact
                               ELSE [artifact EXCEPT ![l] = [ids |-> index, exists |-> TRUE]]
    BY <1>2, <1>6 DEF FirstPage
  <2>2. first = Order(v) /\ index = Order(v)
    BY <2>1, OrderFacts DEF OneOrder
  <2>3. PICK n \in 0..Len(Order(v)) : Records(v, PageOf(Order(v), 0)) = Prefix(v, n)
    BY FirstPageIsPrefix
  <2>4. n \in Nat /\ Len(Prefix(v, n)) = n
    BY <1>3, <2>3, PrefixFacts
  <2> DEFINE p == IF n >= Len(Order(v)) THEN "done" ELSE "indexed"
  <2>5. /\ client' = [client EXCEPT ![l].pc = p, ![l].total = Len(Order(v)), ![l].got = Prefix(v, n)]
        /\ p = "indexed" => artifact' = [artifact EXCEPT ![l] = [ids |-> Order(v), exists |-> TRUE]]
    BY <2>1, <2>2, <2>3, <2>4
  <2>6. /\ p \in {"done", "indexed"}
        /\ p = "done" => n = Len(Order(v))
    BY <1>3, <2>3, <2>4
  <2> HIDE DEF p
  <2>7. /\ client'[l].pc = p /\ client'[l].snapshot = v
        /\ client'[l].total = Len(Order(v)) /\ client'[l].got = Prefix(v, n)
    BY <1>1, <1>2, <2>5
  <2>8. p = "indexed" => artifact'[l].ids = Order(v)
    BY <1>1, <2>5
  <2>9. v = snapshot /\ snapshot' = snapshot
    BY <1>2, <1>6 DEF FirstPage, ExtractOK
  <2> QED
    BY <2>3, <2>6, <2>7, <2>8, <2>9 DEF ExtractOK
<1>7. CASE CreateCursor(l)
  <2>1. /\ v = snapshot /\ snapshot' = snapshot /\ artifact' = artifact
        /\ artifact[l].ids = Order(v) /\ client[l].total = Len(Order(v))
    BY <1>2, <1>7 DEF CreateCursor, ExtractOK
  <2>2. PICK n \in 0..Len(Order(v)) : client[l].got = Prefix(v, n)
    BY <1>2, <1>7 DEF CreateCursor, ExtractOK
  <2>3. Len(client[l].got) = n
    BY <1>3, <2>2, PrefixFacts
  <2>4. client'[l] = [client[l] EXCEPT !.pc = "idle", !.next = n]
    BY <1>1, <1>7, <2>3 DEF CreateCursor
  <2>5. /\ client'[l].pc = "idle" /\ client'[l].next = n /\ client'[l].snapshot = v
        /\ client'[l].got = Prefix(v, n)
    BY <1>1, <1>2, <2>2, <2>4
  <2>6. cursor'[l].snapshot = v /\ cursor'[l].total = Len(Order(v))
    BY <1>1, <1>7, <2>1 DEF CreateCursor
  <2> QED
    BY <2>1, <2>2, <2>5, <2>6 DEF ExtractOK
<1>8. CASE FirstDeadline(l)
  <2>1. client'[l].pc = "failed"
    BY <1>1, <1>8 DEF FirstDeadline
  <2> QED
    BY <2>1 DEF ExtractOK
<1>9. CASE ZombieEnds(l)
  <2>1. client' = client /\ client[l].pc = "failed"
    BY <1>0, <1>9 DEF ZombieEnds, ServerOK
  <2> QED
    BY <2>1 DEF ExtractOK
<1>10. CASE More(l)
  <2> DEFINE valid == /\ Visible(l)
                      /\ cursor[l].snapshot = snapshot
                      /\ artifact[l].exists
                      /\ client[l].next < cursor[l].total
             p == IF valid THEN "checked" ELSE "failed"
  <2>1. /\ client' = [client EXCEPT ![l].pc = p]
        /\ UNCHANGED <<snapshot, artifact, cursor>> /\ client[l].pc = "idle"
    BY <1>10 DEF More
  <2>2. p \in {"checked", "failed"}
    OBVIOUS
  <2>3. p = "checked" => Visible(l) /\ cursor[l].snapshot = snapshot /\ artifact[l].exists
    OBVIOUS
  <2> HIDE DEF valid, p
  <2>4. client'[l] = [client[l] EXCEPT !.pc = p]
    BY <1>1, <2>1
  <2>5. /\ client'[l].pc = p /\ client'[l].snapshot = client[l].snapshot
        /\ client'[l].next = client[l].next /\ client'[l].got = client[l].got
    BY <1>1, <2>4
  <2> QED
    BY <2>1, <2>2, <2>3, <2>5 DEF ExtractOK, Visible
<1>11. CASE MoreReply(l)
  <2>1. /\ client[l].pc = "checked" /\ UNCHANGED <<snapshot, artifact, cursor>>
    BY <1>11 DEF MoreReply
  <2>2. /\ v = snapshot /\ artifact[l].ids = Order(v) /\ cursor[l].snapshot = v
        /\ cursor[l].total = Len(Order(v))
        /\ client[l].next \in 0..Len(Order(v)) /\ client[l].got = Prefix(v, client[l].next)
    BY <1>2, <2>1 DEF ExtractOK
  <2>3. PICK next \in 0..Len(Order(v)) : next = client[l].next
    BY <2>2
  <2>4. PICK len \in Nat : /\ next + len <= Len(Order(v))
                           /\ Len(PageNow(l)) = len
                           /\ PageNow(l) = [i \in 1..len |-> Record(v, Order(v)[next + i])]
    BY <2>2, <2>3, PageNowFollows
  <2>5. client[l].got \o PageNow(l) = Prefix(v, next + len)
    <3>1. next \in Nat
      BY <1>3
    <3>2. client[l].got = Prefix(v, next)
      BY <2>2, <2>3
    <3>3. Prefix(v, next) \o [i \in 1..len |-> Record(v, Order(v)[next + i])] = Prefix(v, next + len)
      BY <3>1, PrefixConcat
    <3> QED
      BY <2>4, <3>2, <3>3
  <2>6. /\ client'[l].snapshot = v
        /\ client'[l].next = next + len
        /\ client'[l].got = Prefix(v, next + len)
        /\ client'[l].pc = IF next + len >= Len(Order(v)) THEN "done" ELSE "idle"
    BY <1>0, <1>2, <1>11, <2>2, <2>3, <2>4, <2>5, MoreReplyFields
  <2>7. /\ next + len \in 0..Len(Order(v))
        /\ next + len >= Len(Order(v)) => next + len = Len(Order(v))
    BY <1>3, <2>4
  <2>8. CASE next + len >= Len(Order(v))
    <3>1. client'[l].pc = "done" /\ client'[l].got = Prefix(v, Len(Order(v)))
      BY <2>6, <2>7, <2>8
    <3> QED
      BY <2>6, <3>1 DEF ExtractOK
  <2>9. CASE ~(next + len >= Len(Order(v)))
    <3>1. client'[l].pc = "idle"
      BY <2>6, <2>9
    <3> QED
      BY <2>1, <2>2, <2>6, <2>7, <3>1 DEF ExtractOK
  <2> QED
    BY <2>8, <2>9
<1>12. CASE MoreRepeated(l)
  <2>1. /\ client'[l] = [client[l] EXCEPT !.pc = "idle"] /\ client[l].pc = "checked"
        /\ UNCHANGED <<snapshot, artifact, cursor>>
    BY <1>1, <1>12 DEF MoreRepeated
  <2>2. /\ client'[l].pc = "idle" /\ client'[l].snapshot = client[l].snapshot
        /\ client'[l].next = client[l].next /\ client'[l].got = client[l].got
    BY <1>1, <2>1
  <2> QED
    BY <2>1, <2>2 DEF ExtractOK
<1> QED
  BY <1>4, <1>5, <1>6, <1>7, <1>8, <1>9, <1>10, <1>11, <1>12

(* ExtractInv is inductive, with Inv.                                      *)
LEMMA ExtractStep ==
    ASSUME OneOrder, Inv, [Next]_vars, ExtractInv
    PROVE  ExtractInv'
<1> SUFFICES ASSUME NEW k \in Locators PROVE k \in torn' \/ ExtractOK(k)'
  BY DEF ExtractInv
<1>0. Shape /\ ServerOK(k)
  BY DEF Inv
<1>1. torn \subseteq torn'
  BY DEF Next, Startup, Serve, Publish, Crash, ExpireCursors, ListActive, RemoveArtifact,
         FinishStartup, Lapse, Open, FirstPage, CreateCursor, FirstDeadline, ZombieEnds, More,
         MoreReply, MoreRepeated, vars
<1> SUFFICES ASSUME k \notin torn', ExtractOK(k) PROVE ExtractOK(k)'
  BY <1>1 DEF ExtractInv
<1>2. ASSUME NEW l \in Locators,
             \/ Lapse(l) \/ Open(l) \/ FirstPage(l) \/ CreateCursor(l) \/ FirstDeadline(l)
             \/ ZombieEnds(l) \/ More(l) \/ MoreReply(l) \/ MoreRepeated(l)
      PROVE  ExtractOK(k)'
  <2>1. CASE k = l
    BY <1>2, <2>1, RequestExtract
  <2>2. CASE k # l
    <3>1. snapshot' = snapshot
      BY <1>2 DEF Lapse, Open, FirstPage, CreateCursor, FirstDeadline, ZombieEnds, More,
                  MoreReply, MoreRepeated
    <3>2. client'[k] = client[k] /\ artifact'[k] = artifact[k] /\ cursor'[k] = cursor[k]
      <4>0. DOMAIN client = Locators /\ DOMAIN artifact = Locators /\ DOMAIN cursor = Locators
        BY <1>0 DEF Shape
      <4>1. CASE FirstPage(l) \/ ZombieEnds(l)
        BY <2>2, <4>0, <4>1 DEF FirstPage, ZombieEnds
      <4>2. CASE MoreReply(l)
        BY <2>2, <4>0, <4>2 DEF MoreReply
      <4>3. CASE Lapse(l) \/ Open(l) \/ CreateCursor(l) \/ FirstDeadline(l) \/ More(l) \/ MoreRepeated(l)
        BY <2>2, <4>0, <4>3 DEF Lapse, Open, CreateCursor, FirstDeadline, More, MoreRepeated
      <4> QED
        BY <1>2, <4>1, <4>2, <4>3
    <3> QED
      BY <3>1, <3>2, ExtractFrame
  <2> QED
    BY <2>1, <2>2
<1>3. CASE Publish
  <2>1. client[k].pc \notin {"open", "indexed", "checked"}
    BY <1>3 DEF Publish
  <2>2. UNCHANGED <<client, artifact, cursor>>
    BY <1>3 DEF Publish
  <2> QED
    BY <2>1, <2>2 DEF ExtractOK
<1>4. CASE Crash
  <2>1. DOMAIN client[k] = {"pc", "snapshot", "total", "next", "got"}
    BY <1>0 DEF Shape, NewClient
  <2>2. client'[k] = CASE client[k].pc \in {"open", "indexed"} -> [client[k] EXCEPT !.pc = "failed"]
                       [] client[k].pc = "checked" -> [client[k] EXCEPT !.pc = "idle"]
                       [] OTHER -> client[k]
    BY <1>4 DEF Crash
  <2>3. UNCHANGED <<snapshot, artifact, cursor>>
    BY <1>4 DEF Crash
  <2>4. CASE client[k].pc \in {"open", "indexed"}
    <3>1. client'[k].pc = "failed"
      BY <2>1, <2>2, <2>4
    <3> QED
      BY <3>1 DEF ExtractOK
  <2>5. CASE client[k].pc = "checked"
    <3>1. /\ client'[k].pc = "idle" /\ client'[k].snapshot = client[k].snapshot
          /\ client'[k].next = client[k].next /\ client'[k].got = client[k].got
      BY <2>1, <2>2, <2>5
    <3> QED
      BY <2>3, <2>5, <3>1 DEF ExtractOK
  <2>6. CASE client[k].pc \notin {"open", "indexed", "checked"}
    <3>1. client'[k] = client[k]
      BY <2>2, <2>6
    <3> QED
      BY <2>3, <3>1, ExtractFrame
  <2> QED
    BY <2>4, <2>5, <2>6
<1>5. CASE ExpireCursors
  <2>1. phase = "down" /\ UNCHANGED <<snapshot, artifact, client>>
    BY <1>5 DEF ExpireCursors
  <2>2. client[k].pc \notin {"open", "indexed", "checked"}
    BY <1>0, <2>1 DEF ServerOK
  <2>3. cursor'[k] = cursor[k] \/ ~cursor'[k].open
    BY <1>5 DEF ExpireCursors, NoCursor
  <2> QED
    BY <2>1, <2>2, <2>3 DEF ExtractOK
<1>6. CASE ListActive \/ FinishStartup
  BY <1>6, ExtractFrame DEF ListActive, FinishStartup
<1>7. ASSUME NEW l \in Locators, RemoveArtifact(l) PROVE ExtractOK(k)'
  <2>1. /\ phase = "sweep" /\ UNCHANGED <<snapshot, cursor, client>>
        /\ artifact' = [artifact EXCEPT ![l] = NoFile]
    BY <1>7 DEF RemoveArtifact
  <2>2. client[k].pc \notin {"open", "indexed", "checked"}
    BY <1>0, <2>1 DEF ServerOK
  <2>3. artifact'[k] = artifact[k] \/ ~artifact'[k].exists
    BY <1>0, <2>1 DEF Shape, NoFile
  <2> QED
    BY <2>1, <2>2, <2>3 DEF ExtractOK
<1>8. CASE UNCHANGED vars
  BY <1>8, ExtractFrame DEF vars
<1> QED
  BY <1>2, <1>3, <1>4, <1>5, <1>6, <1>7, <1>8 DEF Next, Startup, Serve

(* An extract that has reached its last page is one result of one snapshot *)
(* whatever crashed, timed out, was lost or repeated on the way, unless    *)
(* data was published while one of its requests was in flight.             *)
THEOREM ExtractsExact == OneOrder => (Spec => []ExtractExact)
<1> SUFFICES ASSUME OneOrder PROVE Spec => []ExtractExact
  OBVIOUS
<1>1. Init => ExtractInv
  BY DEF Init, ExtractInv, ExtractOK, NewClient
<1>2. Inv /\ ExtractInv /\ [Next]_vars => ExtractInv'
  BY ExtractStep
<1>3. Inv /\ ExtractInv => ExtractExact
  <2> SUFFICES ASSUME Inv, ExtractInv, NEW l \in Locators \ torn, client[l].pc = "done"
               PROVE  \E order \in Results[client[l].snapshot] :
                          client[l].got = Records(client[l].snapshot, order)
    BY DEF ExtractExact
  <2>1. PICK v \in Snapshots : v = client[l].snapshot
    BY DEF Inv, Shape
  <2>2. client[l].got = Prefix(v, Len(Order(v)))
    BY <2>1 DEF ExtractInv, ExtractOK
  <2>3. client[l].got = Records(v, Order(v)) /\ Order(v) \in Results[v]
    BY <2>2, PrefixFacts, OrderFacts
  <2> QED
    BY <2>1, <2>3
<1> QED
  BY <1>1, <1>2, <1>3, Invariance, PTL DEF Spec
=============================================================================
