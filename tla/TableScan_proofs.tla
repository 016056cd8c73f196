--------------------------- MODULE TableScan_proofs ---------------------------
(***************************************************************************)
(* Proofs about a table, its cursors and its statements for every number   *)
(* of scans, blocks and slots and every set of values and predicates.      *)
(* ScanInv is inductive: beside the invariants the runs check it says      *)
(* where a scan may stand (ScanOK) and that a statement in progress is the *)
(* one that has the Update scan open (StmtOK).                             *)
(***************************************************************************)
EXTENDS TableScan, SequenceLemmas

(* The scans that stand in a block, and pins that count them. *)
OpenIn(f, b) == {s \in Scans : f[s].status # "closed" /\ f[s].blk = b}
Counts(q, f) == /\ q \in [Blocks -> 0..Cardinality(Scans)]
                /\ \A b \in Blocks : q[b] = Cardinality(OpenIn(f, b))

Fine(c, n) == /\ c.status = "closed" => c = Closed
              /\ c.status # "closed" => c.blk <= n
              /\ c.status = "open" /\ c.slot = 0 => c.blk = 1
              /\ c.mark # NoRID => c.mark[1] <= n

ScanOK == \A s \in Scans : Fine(scan[s], Len(pages))

StmtOK == IF stmt = NoStmt THEN scan[Update].status = "closed"
                           ELSE scan[Update].status = "open"

ScanInv == TypeOK /\ PinsMatchScans /\ ScanOK /\ StmtOK

Page   == [Slots -> Slot]
Cursors == [blk : Blocks, slot : 0..SlotsPerBlock,
            status : {"closed", "open", "end"}, mark : RID \cup {NoRID}]

----------------------------------------------------------------------------
(* Rows are met in the order of their identifiers. *)
LEMMA LeastIs ==
  ASSUME NEW S \in SUBSET (Nat \X Nat), S # {}
  PROVE  /\ Least(S) \in S
         /\ \A r \in S : r = Least(S) \/ Before(Least(S), r)
<1>. DEFINE B == {r[1] : r \in S}
<1>1. B \in SUBSET Nat /\ B # {}
  OBVIOUS
<1>2. PICK b \in B : \A c \in B : b <= c
  BY <1>1, LeastNat
<1>. DEFINE K == {r[2] : r \in {q \in S : q[1] = b}}
<1>3. K \in SUBSET Nat /\ K # {}
  BY <1>2
<1>4. PICK k \in K : \A l \in K : k <= l
  BY <1>3, LeastNat
<1>5. PICK m \in S : m[1] = b /\ m[2] = k
  BY <1>4
<1>6. ASSUME NEW r \in S PROVE m = r \/ Before(m, r)
  <2>1. /\ m = <<b, k>> /\ r = <<r[1], r[2]>> /\ r[1] \in B /\ r[1] \in Nat /\ r[2] \in Nat
        /\ b \in Nat /\ k \in Nat
    BY <1>1, <1>3, <1>5
  <2>2. b <= r[1]
    BY <1>2, <2>1
  <2>3. CASE r[1] = b
    <3>1. k <= r[2]
      BY <1>4, <2>3
    <3>. QED
      BY <2>1, <2>3, <3>1 DEF Before
  <2>4. CASE r[1] # b
    BY <2>1, <2>2, <2>4 DEF Before
  <2>. QED
    BY <2>3, <2>4
<1>7. \E r \in S : \A s \in S : r = s \/ Before(r, s)
  BY <1>6
<1>. QED
  BY <1>7 DEF Least

LEMMA TableTypes ==
  /\ Blocks \subseteq Nat /\ Slots \subseteq Nat /\ 1 \in Blocks /\ 1 \in Slots /\ Update \in Scans
  /\ Blocks = 1..MaxBlocks /\ Slots = 1..SlotsPerBlock
  /\ SlotsPerBlock \in Nat /\ MaxBlocks \in Nat
  /\ IsFiniteSet(Scans) /\ Cardinality(Scans) \in Nat
  /\ Blank \in Record /\ ZeroPage \in Page /\ Formatted \in Page
  /\ Closed \in Cursors /\ Closed.status = "closed" /\ Closed.mark = NoRID
<1>1. /\ Blocks \subseteq Nat /\ Slots \subseteq Nat /\ 1 \in Blocks /\ 1 \in Slots
      /\ Blocks = 1..MaxBlocks /\ Slots = 1..SlotsPerBlock
      /\ SlotsPerBlock \in Nat /\ MaxBlocks \in Nat
  BY TableAssumption DEF Blocks, Slots
<1>2. IsFiniteSet(Scans) /\ Cardinality(Scans) \in Nat
  BY TableAssumption, FS_AddElement, FS_CardinalityType DEF Scans
<1>3. Blank \in Record /\ ZeroPage \in Page /\ Formatted \in Page
  BY TableAssumption DEF Blank, Record, ZeroPage, Formatted, Page, Slot, EMPTY, USED
<1>4. Closed \in Cursors /\ Closed.status = "closed" /\ Closed.mark = NoRID
  BY <1>1 DEF Closed, Cursors
<1>. QED
  BY <1>1, <1>2, <1>3, <1>4 DEF Scans

LEMMA RIDsIs ==
  ASSUME TypeOK
  PROVE  /\ pages \in Seq(Page) /\ Len(pages) \in Nat /\ Len(pages) <= MaxBlocks
         /\ RIDs \subseteq RID /\ RIDs \in SUBSET (Nat \X Nat)
         /\ \A r \in RIDs : /\ r = <<r[1], r[2]>> /\ r[1] \in 1..Len(pages) /\ r[1] \in Blocks
                            /\ r[2] \in Slots /\ At(r) \in Slot /\ pages[r[1]] \in Page
<1>1. pages \in Seq(Page) /\ Len(pages) \in Nat /\ Len(pages) <= MaxBlocks
  BY LenProperties DEF TypeOK, Page
<1>2. 1..Len(pages) \subseteq Blocks /\ Slots \subseteq Nat /\ Blocks \subseteq Nat
  BY <1>1, TableTypes
<1>3. ASSUME NEW r \in RIDs
      PROVE  /\ r = <<r[1], r[2]>> /\ r[1] \in 1..Len(pages) /\ r[1] \in Blocks
             /\ r[2] \in Slots /\ At(r) \in Slot /\ pages[r[1]] \in Page
  <2>1. r = <<r[1], r[2]>> /\ r[1] \in 1..Len(pages) /\ r[2] \in Slots
    BY DEF RIDs
  <2>2. pages[r[1]] \in Page
    BY <1>1, <2>1, ElementOfSeq
  <2>. QED
    BY <1>2, <2>1, <2>2 DEF At, Page
<1>4. RIDs \subseteq RID /\ RIDs \in SUBSET (Nat \X Nat)
  BY <1>2 DEF RIDs, RID
<1>. QED
  BY <1>1, <1>3, <1>4

(* Where a search leads: the first slot ahead that matches, or the end.    *)
LEMMA SearchIs ==
  ASSUME TypeOK, NEW c \in Cursors, NEW S, NEW to, to = SearchAfter(c, S)
  PROVE  \/ /\ to \in RIDs /\ to \in S /\ Before(<<c.blk, c.slot>>, to)
            /\ \A r \in RIDs : r \in S /\ Before(<<c.blk, c.slot>>, r) => r = to \/ Before(to, r)
         \/ /\ to = <<Len(pages), 0>>
            /\ \A r \in RIDs : r \in S => ~ Before(<<c.blk, c.slot>>, r)
<1>. DEFINE ahead == After(c) \cap S
<1>1. ahead \in SUBSET (Nat \X Nat)
  BY RIDsIs DEF After
<1>2. \A r : r \in ahead <=> r \in RIDs /\ r \in S /\ Before(<<c.blk, c.slot>>, r)
  BY DEF After
<1>3. to = IF ahead = {} THEN <<Len(pages), 0>> ELSE Least(ahead)
  BY DEF SearchAfter
<1>. HIDE DEF ahead
<1>4. CASE ahead = {}
  BY <1>2, <1>3, <1>4
<1>5. CASE ahead # {}
  <2>1. to \in ahead /\ \A r \in ahead : r = to \/ Before(to, r)
    BY <1>1, <1>3, <1>5, LeastIs
  <2>. QED
    BY <1>2, <2>1
<1>. QED
  BY <1>4, <1>5


----------------------------------------------------------------------------
(* A scan that opens, moves or closes takes its pin with it. *)
LEMMA CountsIs ==
  ASSUME NEW f \in [Scans -> Cursors], NEW q, q = [b \in Blocks |-> q[b]],
         \A b \in Blocks : q[b] = Cardinality(OpenIn(f, b))
  PROVE  Counts(q, f)
<1>1. ASSUME NEW b \in Blocks PROVE q[b] \in 0..Cardinality(Scans)
  <2>1. OpenIn(f, b) \in SUBSET Scans
    BY DEF OpenIn
  <2>2. IsFiniteSet(OpenIn(f, b)) /\ Cardinality(OpenIn(f, b)) \in Nat
         /\ Cardinality(OpenIn(f, b)) <= Cardinality(Scans)
    BY <2>1, TableTypes, FS_Subset, FS_CardinalityType
  <2>. QED
    BY <2>2, TableTypes
<1>. QED
  BY <1>1 DEF Counts

LEMMA OpenFinite ==
  ASSUME NEW f, NEW b
  PROVE  IsFiniteSet(OpenIn(f, b)) /\ Cardinality(OpenIn(f, b)) \in Nat
BY TableTypes, FS_Subset, FS_CardinalityType DEF OpenIn

LEMMA Opens ==
  ASSUME NEW f \in [Scans -> Cursors], NEW q, Counts(q, f),
         NEW s \in Scans, f[s].status = "closed",
         NEW c \in Cursors, c.status # "closed", NEW b \in Blocks, c.blk = b
  PROVE  Counts([q EXCEPT ![b] = @ + 1], [f EXCEPT ![s] = c])
<1>. DEFINE g == [f EXCEPT ![s] = c]
            p == [q EXCEPT ![b] = @ + 1]
<1>1. g \in [Scans -> Cursors] /\ g[s] = c /\ \A t \in Scans : t # s => g[t] = f[t]
  OBVIOUS
<1>2. q \in [Blocks -> 0..Cardinality(Scans)] /\ \A a \in Blocks : q[a] = Cardinality(OpenIn(f, a))
  BY DEF Counts
<1>3. p = [a \in Blocks |-> p[a]] /\ p[b] = q[b] + 1 /\ \A a \in Blocks : a # b => p[a] = q[a]
  BY <1>2
<1>. HIDE DEF g, p
<1>4. OpenIn(g, b) = OpenIn(f, b) \cup {s} /\ s \notin OpenIn(f, b)
  BY <1>1 DEF OpenIn
<1>5. \A a \in Blocks : a # b => OpenIn(g, a) = OpenIn(f, a)
  BY <1>1 DEF OpenIn
<1>6. Cardinality(OpenIn(g, b)) = Cardinality(OpenIn(f, b)) + 1
  BY <1>4, OpenFinite, FS_AddElement
<1>7. \A a \in Blocks : p[a] = Cardinality(OpenIn(g, a))
  BY <1>2, <1>3, <1>5, <1>6
<1>. QED
  BY <1>1, <1>3, <1>7, CountsIs DEF g, p

LEMMA Closes ==
  ASSUME NEW f \in [Scans -> Cursors], NEW q, Counts(q, f),
         NEW s \in Scans, f[s].status # "closed", NEW b, f[s].blk = b
  PROVE  Counts([q EXCEPT ![b] = @ - 1], [f EXCEPT ![s] = Closed])
<1>. DEFINE g == [f EXCEPT ![s] = Closed]
            p == [q EXCEPT ![b] = @ - 1]
<1>1. /\ g \in [Scans -> Cursors] /\ g[s].status = "closed" /\ b \in Blocks
      /\ \A t \in Scans : t # s => g[t] = f[t]
  BY TableTypes DEF Cursors
<1>2. q \in [Blocks -> 0..Cardinality(Scans)] /\ \A a \in Blocks : q[a] = Cardinality(OpenIn(f, a))
  BY DEF Counts
<1>3. p = [a \in Blocks |-> p[a]] /\ p[b] = q[b] - 1 /\ \A a \in Blocks : a # b => p[a] = q[a]
  BY <1>1, <1>2
<1>. HIDE DEF g, p
<1>4. OpenIn(f, b) = OpenIn(g, b) \cup {s} /\ s \notin OpenIn(g, b)
  BY <1>1 DEF OpenIn
<1>5. \A a \in Blocks : a # b => OpenIn(g, a) = OpenIn(f, a)
  BY <1>1 DEF OpenIn
<1>6. Cardinality(OpenIn(g, b)) = Cardinality(OpenIn(f, b)) - 1
  <2>1. Cardinality(OpenIn(f, b)) = Cardinality(OpenIn(g, b)) + 1
    BY <1>4, OpenFinite, FS_AddElement
  <2>. QED
    BY <2>1, OpenFinite
<1>7. \A a \in Blocks : p[a] = Cardinality(OpenIn(g, a))
  BY <1>2, <1>3, <1>5, <1>6
<1>. QED
  BY <1>1, <1>3, <1>7, CountsIs DEF g, p

----------------------------------------------------------------------------
(* The scans of a state, and the parts of every step that change them. *)
ScansGood == /\ scan \in [Scans -> Cursors] /\ Counts(pins, scan) /\ ScanOK

LEMMA InvIs == ScanInv <=> /\ ScansGood /\ StmtOK
                           /\ pages \in Seq(Page) /\ Len(pages) <= MaxBlocks
                           /\ saved \in Seq(Page) /\ Len(saved) <= Len(pages)
                           /\ stmt \in Stmts \cup {NoStmt} /\ result \in Nat
BY DEF ScanInv, ScansGood, TypeOK, PinsMatchScans, Counts, OpenIn, Cursors, Page

LEMMA PositionIs ==
  ASSUME ScansGood, NEW s \in Scans, NEW b \in Blocks, NEW k \in 0..SlotsPerBlock,
         NEW st \in {"open", "end"},
         NEW c, c = [blk |-> b, slot |-> k, status |-> st, mark |-> scan[s].mark]
  PROVE  c \in Cursors /\ Position(s, <<b, k>>, st) = [scan EXCEPT ![s] = c]
<1>1. scan \in [Scans -> Cursors] /\ scan[s] \in Cursors
  BY DEF ScansGood
<1>2. c \in Cursors
  BY <1>1 DEF Cursors
<1>3. /\ Position(s, <<b, k>>, st) \in [Scans -> Cursors] /\ Position(s, <<b, k>>, st)[s] = c
      /\ \A t \in Scans : t # s => Position(s, <<b, k>>, st)[t] = scan[t]
  BY <1>1 DEF Position, Cursors
<1>4. Position(s, <<b, k>>, st) = [scan EXCEPT ![s] = c]
  BY <1>1, <1>3
<1>. QED
  BY <1>2, <1>4

LEMMA OneScan ==
  ASSUME ScansGood, Len(pages) \in Nat, Len(pages') \in Nat, Len(pages) <= Len(pages'),
         NEW s \in Scans, NEW c \in Cursors, scan' = [scan EXCEPT ![s] = c],
         Counts(pins', scan'), Fine(c, Len(pages'))
  PROVE  ScansGood'
<1>1. scan \in [Scans -> Cursors] /\ scan' \in [Scans -> Cursors]
  BY DEF ScansGood
<1>2. ASSUME NEW t \in Scans PROVE Fine(scan'[t], Len(pages'))
  <2>1. CASE t = s
    BY <1>1, <2>1
  <2>2. CASE t # s
    <3>1. scan'[t] = scan[t] /\ Fine(scan[t], Len(pages)) /\ scan[t] \in Cursors
      BY <1>1, <2>2 DEF ScansGood, ScanOK
    <3>2. scan[t].blk \in Nat /\ (scan[t].mark # NoRID => scan[t].mark[1] \in Nat)
      BY <3>1, TableTypes DEF Cursors, RID
    <3>. QED
      BY <3>1, <3>2 DEF Fine
  <2>. QED
    BY <2>1, <2>2
<1>. QED
  BY <1>1, <1>2 DEF ScansGood, ScanOK

LEMMA OpenStep ==
  ASSUME ScanInv, NEW s \in Scans, Open(s)
  PROVE  /\ ScansGood' /\ scan[s].status = "closed"
         /\ scan' = [scan EXCEPT ![s] = [blk |-> 1, slot |-> 0, status |-> "open", mark |-> NoRID]]
         /\ pages' \in Seq(Page) /\ Len(pages') \in Nat /\ Len(pages') <= MaxBlocks
         /\ Len(pages) <= Len(pages')
         /\ pages' = IF pages = << >> THEN <<Formatted>> ELSE pages
<1>. DEFINE c == [blk |-> 1, slot |-> 0, status |-> "open", mark |-> NoRID]
<1>1. /\ ScansGood /\ pages \in Seq(Page) /\ Len(pages) \in Nat /\ Len(pages) <= MaxBlocks
      /\ MaxBlocks >= 1
  BY InvIs, LenProperties, TableAssumption
<1>2. c = [Closed EXCEPT !.status = "open"] /\ c \in Cursors
  BY TableTypes DEF Closed, Cursors
<1>3. /\ scan[s].status = "closed" /\ scan' = [scan EXCEPT ![s] = c]
      /\ pins' = [pins EXCEPT ![1] = @ + 1]
      /\ pages' = IF pages = << >> THEN <<Formatted>> ELSE pages
  BY <1>2 DEF Open
<1>4. /\ pages' \in Seq(Page) /\ Len(pages') \in Nat /\ Len(pages') <= MaxBlocks
      /\ Len(pages) <= Len(pages') /\ 1 <= Len(pages')
  <2>1. CASE pages = <<>>
    <3>1. Formatted \in Page
      BY TableTypes
    <3>2. pages' \in Seq(Page) /\ Len(pages') = 1 /\ Len(pages) = 0
      BY <1>3, <2>1, <3>1
    <3>. QED
      BY <1>1, <3>2
  <2>2. CASE pages # <<>>
    <3>1. Len(pages) # 0
      BY <1>1, <2>2, EmptySeq
    <3>. QED
      BY <1>1, <1>3, <2>2, <3>1
  <2>. QED
    BY <2>1, <2>2
<1>5. c.status # "closed" /\ c.blk = 1 /\ Fine(c, Len(pages'))
  BY <1>4 DEF Fine
<1>. HIDE DEF c
<1>6. Counts(pins', scan')
  BY <1>1, <1>2, <1>3, <1>5, Opens, TableTypes DEF ScansGood
<1>7. ScansGood'
  BY <1>1, <1>2, <1>3, <1>4, <1>5, <1>6, OneScan
<1>. QED
  BY <1>3, <1>4, <1>7 DEF c

(* Closing a scan, and losing it because a pin failed.                     *)
LEMMA LostStep ==
  ASSUME ScansGood, NEW s \in Scans, scan[s].status # "closed", Lost(s),
         Len(pages) \in Nat, Len(pages') \in Nat, Len(pages) <= Len(pages')
  PROVE  ScansGood' /\ scan' = [scan EXCEPT ![s] = Closed]
<1>1. scan \in [Scans -> Cursors] /\ Counts(pins, scan)
  BY DEF ScansGood
<1>2. scan' = [scan EXCEPT ![s] = Closed] /\ pins' = [pins EXCEPT ![scan[s].blk] = @ - 1]
  BY DEF Lost
<1>3. Counts(pins', scan')
  BY <1>1, <1>2, Closes
<1>4. Closed \in Cursors /\ Fine(Closed, Len(pages'))
  BY TableTypes DEF Fine
<1>. QED
  BY <1>2, <1>3, <1>4, OneScan

LEMMA MoveStep ==
  ASSUME ScansGood, NEW s \in Scans, scan[s].status # "closed",
         NEW r \in Blocks \X (0..SlotsPerBlock), NEW st \in {"open", "end"},
         r[1] <= Len(pages'), st = "open" /\ r[2] = 0 => r[1] = 1,
         pins' = Moved(scan[s].blk, r[1]), scan' = Position(s, r, st),
         Len(pages) \in Nat, Len(pages') \in Nat, Len(pages) <= Len(pages')
  PROVE  /\ ScansGood'
         /\ \E c \in Cursors : /\ scan' = [scan EXCEPT ![s] = c] /\ c.blk = r[1] /\ c.slot = r[2]
                               /\ c.status = st /\ c.mark = scan[s].mark
<1>. DEFINE b == r[1]
            k == r[2]
<1>a. b \in Blocks /\ k \in 0..SlotsPerBlock /\ r = <<b, k>>
  OBVIOUS
<1>b. /\ b <= Len(pages') /\ (st = "open" /\ k = 0 => b = 1)
      /\ pins' = Moved(scan[s].blk, b) /\ scan' = Position(s, <<b, k>>, st)
  BY <1>a
<1>. HIDE DEF b, k
<1>1. scan \in [Scans -> Cursors] /\ Counts(pins, scan) /\ scan[s] \in Cursors
  BY DEF ScansGood
<1>0. PICK c : c = [blk |-> b, slot |-> k, status |-> st, mark |-> scan[s].mark]
  OBVIOUS
<1>2. c \in Cursors /\ scan' = [scan EXCEPT ![s] = c]
  <2>1. c \in Cursors /\ Position(s, <<b, k>>, st) = [scan EXCEPT ![s] = c]
    BY <1>a, <1>0, PositionIs
  <2>. QED
    BY <1>b, <2>1
<1>3. pins' = [[pins EXCEPT ![scan[s].blk] = @ - 1] EXCEPT ![b] = @ + 1]
  BY <1>b DEF Moved
<1>4. c.status # "closed" /\ c.blk = b
  BY <1>0
<1>5. Counts(pins', scan')
  <2>1. PICK left : left = [pins EXCEPT ![scan[s].blk] = @ - 1]
    OBVIOUS
  <2>2. PICK g : g = [scan EXCEPT ![s] = Closed]
    OBVIOUS
  <2>3. Counts(left, g)
    BY <1>1, <2>1, <2>2, Closes
  <2>4. g \in [Scans -> Cursors] /\ g[s].status = "closed"
    BY <1>1, <2>2, TableTypes
  <2>5. Counts([left EXCEPT ![b] = @ + 1], [g EXCEPT ![s] = c])
    BY <1>a, <1>2, <1>4, <2>3, <2>4, Opens
  <2>6. [g EXCEPT ![s] = c] = scan'
    BY <1>1, <1>2, <2>2
  <2>. QED
    BY <1>3, <2>1, <2>5, <2>6
<1>6. Fine(c, Len(pages'))
  <2>1. Fine(scan[s], Len(pages)) /\ (scan[s].mark # NoRID => scan[s].mark[1] \in Nat)
    BY <1>1, TableTypes DEF ScansGood, ScanOK, Cursors, RID
  <2>. QED
    BY <1>0, <1>a, <1>b, <2>1 DEF Fine
<1>7. ScansGood'
  BY <1>2, <1>5, <1>6, OneScan
<1>8. c.blk = b /\ c.slot = k /\ c.status = st /\ c.mark = scan[s].mark
  BY <1>0
<1>. QED
  BY <1>2, <1>7, <1>8 DEF b, k

LEMMA EndStep ==
  ASSUME EndTx
  PROVE  ScansGood' /\ scan' = [s \in Scans |-> Closed]
<1>1. scan' = [s \in Scans |-> Closed] /\ pins' = [b \in Blocks |-> 0]
  BY DEF EndTx
<1>2. scan' \in [Scans -> Cursors] /\ \A s \in Scans : scan'[s].status = "closed"
  BY <1>1, TableTypes
<1>3. \A b \in Blocks : OpenIn(scan', b) = {}
  BY <1>2 DEF OpenIn
<1>4. \A b \in Blocks : pins'[b] = Cardinality(OpenIn(scan', b))
  BY <1>1, <1>3, FS_EmptySet
<1>5. Counts(pins', scan')
  BY <1>1, <1>2, <1>4, CountsIs
<1>6. \A s \in Scans : Fine(scan'[s], Len(pages'))
  BY <1>1, TableTypes DEF Fine
<1>. QED
  BY <1>1, <1>2, <1>5, <1>6 DEF ScansGood, ScanOK

----------------------------------------------------------------------------
(* A write to one slot. *)
SetSlot(pgs, r, v) == [pgs EXCEPT ![r[1]] = [pgs[r[1]] EXCEPT ![r[2]] = v]]

LEMMA SetSlotIs ==
  ASSUME NEW pgs \in Seq(Page), NEW r \in (1..Len(pgs)) \X Slots, NEW v \in Slot
  PROVE  /\ SetSlot(pgs, r, v) \in Seq(Page) /\ Len(SetSlot(pgs, r, v)) = Len(pgs)
         /\ SetSlot(pgs, r, v)[r[1]][r[2]] = v
         /\ \A q \in (1..Len(pgs)) \X Slots : q # r =>
              SetSlot(pgs, r, v)[q[1]][q[2]] = pgs[q[1]][q[2]]
<1>. DEFINE i == r[1]
            k == r[2]
<1>a. i \in 1..Len(pgs) /\ k \in Slots
  OBVIOUS
<1>b. PICK p : p = SetSlot(pgs, r, v)
  OBVIOUS
<1>0. PICK g : g = [pgs[i] EXCEPT ![k] = v]
  OBVIOUS
<1>1. pgs[i] \in Page
  BY <1>a, ElementOfSeq
<1>2. g \in Page /\ g[k] = v /\ \A l \in Slots : l # k => g[l] = pgs[i][l]
  BY <1>0, <1>1 DEF Page
<1>c. p = [pgs EXCEPT ![i] = g]
  BY <1>0, <1>b DEF SetSlot
<1>. HIDE DEF i, k
<1>3. p \in Seq(Page) /\ Len(p) = Len(pgs) /\ \A j \in 1..Len(pgs) : p[j] = IF j = i THEN g ELSE pgs[j]
  BY <1>a, <1>c, <1>2, ExceptSeq
<1>4. p[i][k] = v
  BY <1>a, <1>2, <1>3
<1>5. ASSUME NEW q \in (1..Len(pgs)) \X Slots, q # r
      PROVE  p[q[1]][q[2]] = pgs[q[1]][q[2]]
  <2>1. q[1] \in 1..Len(pgs) /\ q[2] \in Slots /\ (q[1] # i \/ q[2] # k)
    BY <1>5 DEF i, k
  <2>2. CASE q[1] = i
    <3>1. p[q[1]] = g /\ g[q[2]] = pgs[i][q[2]]
      BY <1>2, <1>3, <2>1, <2>2
    <3>. QED
      BY <2>2, <3>1
  <2>3. CASE q[1] # i
    BY <1>3, <2>1, <2>3
  <2>. QED
    BY <2>2, <2>3
<1>. QED
  BY <1>b, <1>3, <1>4, <1>5 DEF i, k

(* What a delete or a modify writes, and what an insert writes.            *)
Written(r) == IF stmt.op = "delete" THEN [flag |-> EMPTY, rec |-> At(r).rec]
              ELSE [flag |-> At(r).flag,
                    rec |-> [At(r).rec EXCEPT ![stmt.fld] = Eval(At(r).rec, stmt.expr)]]

LEMMA ApplyIs ==
  ASSUME TypeOK, NEW r \in RIDs, stmt.op \in {"delete", "modify"}, stmt \in Stmts
  PROVE  /\ Written(r) \in Slot
         /\ Apply(r) = SetSlot(pages, r, Written(r)) /\ r \in (1..Len(pages)) \X Slots
<1>1. /\ pages \in Seq(Page) /\ r[1] \in 1..Len(pages) /\ r[2] \in Slots /\ pages[r[1]] \in Page
      /\ At(r) \in Slot /\ At(r) = pages[r[1]][r[2]]
  BY RIDsIs DEF At
<1>2. DOMAIN pages = 1..Len(pages)
  BY <1>1
<1>0. r \in (1..Len(pages)) \X Slots
  BY DEF RIDs
<1>3. CASE stmt.op = "delete"
  <2>1. Written(r) \in Slot
    BY <1>1, <1>3 DEF Written, Slot, EMPTY
  <2>2. Apply(r) = [pages EXCEPT ![r[1]] = [pages[r[1]] EXCEPT ![r[2]] = [At(r) EXCEPT !.flag = EMPTY]]]
    BY <1>1, <1>3, Zenon DEF Apply
  <2>3. [At(r) EXCEPT !.flag = EMPTY] = Written(r)
    BY <1>1, <1>3 DEF Written, Slot
  <2>. QED
    BY <1>0, <2>1, <2>2, <2>3 DEF SetSlot
<1>4. CASE stmt.op = "modify"
  <2>0. stmt.fld \in Field /\ stmt.expr \in Expr
    BY <1>4 DEF Stmts
  <2>. DEFINE x == Eval(At(r).rec, stmt.expr)
  <2>1. x \in Value /\ At(r).rec \in Record
    BY <1>1, <2>0, TableAssumption DEF Eval, Slot, Record
  <2>2. PICK w : w = [At(r).rec EXCEPT ![stmt.fld] = x]
    OBVIOUS
  <2>3. w \in Record
    BY <2>0, <2>1, <2>2 DEF Record
  <2>4. Written(r) = [flag |-> At(r).flag, rec |-> w]
    BY <1>4, <2>2 DEF Written
  <2>5. Written(r) \in Slot
    BY <1>1, <2>3, <2>4 DEF Slot
  <2>6. Apply(r) = [pages EXCEPT ![r[1]] = [pages[r[1]] EXCEPT ![r[2]] =
                      [At(r) EXCEPT !.rec = [At(r).rec EXCEPT ![stmt.fld] = x]]]]
    BY <1>1, <1>4, Zenon DEF Apply
  <2>7. [At(r) EXCEPT !.rec = [At(r).rec EXCEPT ![stmt.fld] = x]] = Written(r)
    <3>1. [At(r) EXCEPT !.rec = w] = [flag |-> At(r).flag, rec |-> w]
      BY <1>1 DEF Slot
    <3>. QED
      BY <2>2, <2>4, <3>1
  <2>. QED
    BY <1>0, <2>5, <2>6, <2>7 DEF SetSlot
<1>. QED
  BY <1>3, <1>4

Inserted(x) == [flag |-> USED,
                rec |-> [f \in Field |-> IF f \in DOMAIN stmt.vals THEN stmt.vals[f] ELSE x.rec[f]]]

LEMMA FilledIs ==
  ASSUME NEW pgs \in Seq(Page), NEW r \in (1..Len(pgs)) \X Slots, stmt \in Stmts, stmt.op = "insert"
  PROVE  /\ Inserted(pgs[r[1]][r[2]]) \in Slot
         /\ Filled(r, pgs) = SetSlot(pgs, r, Inserted(pgs[r[1]][r[2]]))
<1>1. pgs[r[1]] \in Page /\ pgs[r[1]][r[2]] \in Slot /\ r[1] \in 1..Len(pgs) /\ r[2] \in Slots
  BY ElementOfSeq DEF Page
<1>2. stmt.vals \in Assignment
  BY TableAssumption DEF Stmts
<1>3. \A f \in DOMAIN stmt.vals : stmt.vals[f] \in Value
  BY <1>2 DEF Assignment
<1>4. Inserted(pgs[r[1]][r[2]]) \in Slot
  BY <1>1, <1>3 DEF Slot, Record, USED, Inserted
<1>5. Filled(r, pgs) = SetSlot(pgs, r, Inserted(pgs[r[1]][r[2]]))
  BY <1>1 DEF Filled, Page, Inserted, SetSlot
<1>. QED
  BY <1>4, <1>5

----------------------------------------------------------------------------
(* The inductive invariant, action by action. *)
LEMMA InvNext ==
  ASSUME ScansGood', StmtOK', pages' \in Seq(Page), Len(pages') <= MaxBlocks,
         saved' \in Seq(Page), Len(saved') <= Len(pages'),
         stmt' \in Stmts \cup {NoStmt}, result' \in Nat
  PROVE  ScanInv'
BY DEF ScanInv, ScansGood, TypeOK, PinsMatchScans, Counts, OpenIn, Cursors, Page

LEMMA InvTypes ==
  ASSUME ScanInv
  PROVE  /\ ScansGood /\ StmtOK /\ TypeOK /\ scan \in [Scans -> Cursors] /\ ScanOK
         /\ pages \in Seq(Page) /\ Len(pages) \in Nat /\ Len(pages) <= MaxBlocks
         /\ saved \in Seq(Page) /\ Len(saved) \in Nat /\ Len(saved) <= Len(pages)
         /\ stmt \in Stmts \cup {NoStmt} /\ result \in Nat
BY InvIs, LenProperties DEF ScanInv, ScansGood

(* A statement in progress has the Update scan open, and no other has.     *)
LEMMA ReaderMoves ==
  ASSUME ScanInv, NEW r \in Reader, NEW c \in Cursors, scan' = [scan EXCEPT ![r] = c], ScansGood',
         pages' \in Seq(Page), Len(pages') <= MaxBlocks, Len(pages) <= Len(pages'),
         UNCHANGED <<saved, stmt, result>>
  PROVE  ScanInv'
<1>1. r # Update /\ r \in Scans
  BY TableAssumption DEF Scans
<1>2. scan'[Update] = scan[Update]
  BY <1>1, InvTypes, TableTypes
<1>3. StmtOK'
  BY <1>2, InvTypes DEF StmtOK
<1>4. Len(pages') \in Nat
  BY LenProperties
<1>. QED
  BY <1>3, <1>4, InvTypes, InvNext

LEMMA InUse ==
  ASSUME ScanInv, NEW s \in Scans
  PROVE  /\ scan[s] \in Cursors /\ scan[s].blk \in Blocks /\ Len(pages) \in Nat
         /\ Fine(scan[s], Len(pages))
         /\ scan[s].status # "closed" => 1 <= Len(pages) /\ scan[s].blk \in 1..Len(pages)
<1>1. scan[s] \in Cursors /\ scan[s].blk \in Blocks /\ Fine(scan[s], Len(pages)) /\ Len(pages) \in Nat
  BY InvTypes DEF Cursors, ScanOK
<1>. QED
  BY <1>1, TableTypes DEF Fine

LEMMA SearchEnds ==
  ASSUME ScanInv, NEW s \in Scans, scan[s].status # "closed", NEW S, NEW to,
         to = SearchAfter(scan[s], S)
  PROVE  /\ to = <<to[1], to[2]>> /\ to[1] \in Blocks /\ to[1] <= Len(pages)
         /\ to[2] \in 0..SlotsPerBlock
         /\ to[2] # 0 => to \in RIDs /\ to \in S
         /\ to[2] = 0 => to[1] = Len(pages)
<1>1. /\ scan[s] \in Cursors /\ 1 <= Len(pages) /\ Len(pages) \in Nat /\ TypeOK /\ Len(pages) <= MaxBlocks
  BY InUse, InvTypes
<1>2. Len(pages) \in Blocks
  BY <1>1, TableTypes
<1>3. \/ to \in RIDs /\ to \in S
      \/ to = <<Len(pages), 0>>
  <2>1. PICK c \in Cursors : c = scan[s]
    BY <1>1
  <2>2. to = SearchAfter(c, S)
    BY <2>1
  <2>. QED
    BY <1>1, <2>2, SearchIs
<1>4. CASE to \in RIDs /\ to \in S
  <2>1. to = <<to[1], to[2]>> /\ to[1] \in 1..Len(pages) /\ to[1] \in Blocks /\ to[2] \in Slots
    BY <1>1, <1>4, RIDsIs
  <2>2. to[2] \in 1..SlotsPerBlock /\ to[1] <= Len(pages)
    BY <1>1, <2>1, TableTypes
  <2>. QED
    BY <1>4, <2>1, <2>2, TableTypes
<1>5. CASE to = <<Len(pages), 0>>
  BY <1>1, <1>2, <1>5, TableTypes
<1>. QED
  BY <1>3, <1>4, <1>5

LEMMA OpenFailsInv ==
  ASSUME ScanInv, NEW s \in Scans, OpenFails(s)
  PROVE  ScanInv'
<1>1. /\ pages' = IF pages = << >> THEN <<ZeroPage>> ELSE pages
      /\ UNCHANGED <<saved, scan, pins, stmt, result, before, begun>>
  BY DEF OpenFails
<1>2. pages' \in Seq(Page) /\ Len(pages') \in Nat /\ Len(pages') <= MaxBlocks /\ Len(pages) <= Len(pages')
  <2>1. CASE pages = <<>>
    BY <1>1, <2>1, TableTypes, TableAssumption
  <2>2. CASE pages # <<>>
    BY <1>1, <2>2, InvTypes
  <2>. QED
    BY <2>1, <2>2
<1>3. ASSUME NEW t \in Scans PROVE Fine(scan'[t], Len(pages'))
  <2>1. scan'[t] = scan[t] /\ Fine(scan[t], Len(pages)) /\ scan[t] \in Cursors /\ Len(pages) \in Nat
    BY <1>1, InUse
  <2>2. scan[t].blk \in Nat /\ (scan[t].mark # NoRID => scan[t].mark[1] \in Nat)
    BY <2>1, TableTypes DEF Cursors, RID
  <2>. QED
    BY <1>2, <2>1, <2>2 DEF Fine
<1>4. ScansGood'
  BY <1>1, <1>3, InvTypes DEF ScansGood, ScanOK
<1>5. StmtOK'
  BY <1>1, InvTypes DEF StmtOK
<1>. QED
  BY <1>1, <1>2, <1>4, <1>5, InvTypes, InvNext

LEMMA ReadInv ==
  ASSUME ScanInv, NEW r \in Reader, Read(r)
  PROVE  ScanInv'
<1>0. r \in Scans /\ r # Update
  BY TableAssumption DEF Scans
<1>1. CASE OpenScan(r)
  <2>1. Open(r) /\ UNCHANGED <<saved, stmt, result>>
    BY <1>1 DEF OpenScan
  <2>2. PICK c : c = [blk |-> 1, slot |-> 0, status |-> "open", mark |-> NoRID]
    OBVIOUS
  <2>3. c \in Cursors
    BY <2>2, TableTypes DEF Cursors
  <2>4. /\ ScansGood' /\ scan' = [scan EXCEPT ![r] = c] /\ pages' \in Seq(Page)
        /\ Len(pages') <= MaxBlocks /\ Len(pages) <= Len(pages')
    BY <1>0, <2>1, <2>2, OpenStep
  <2>. QED
    BY <2>1, <2>3, <2>4, ReaderMoves
<1>2. CASE Idle /\ OpenFails(r)
  BY <1>0, <1>2, OpenFailsInv
<1>3. ASSUME UNCHANGED <<pages, saved, stmt, result>>, scan[r].status # "closed",
             NEW to \in Blocks \X (0..SlotsPerBlock), NEW st \in {"open", "end"},
             to[1] <= Len(pages), st = "open" /\ to[2] = 0 => to[1] = 1,
             pins' = Moved(scan[r].blk, to[1]), scan' = Position(r, to, st)
      PROVE  ScanInv'
  <2>3. /\ Len(pages) \in Nat /\ Len(pages') \in Nat /\ Len(pages) <= Len(pages') /\ ScansGood
        /\ to[1] <= Len(pages') /\ pages' \in Seq(Page) /\ Len(pages') <= MaxBlocks
        /\ UNCHANGED <<saved, stmt, result>>
    BY <1>3, InvTypes
  <2>4. ScansGood' /\ \E c \in Cursors : scan' = [scan EXCEPT ![r] = c]
    BY <1>0, <1>3, <2>3, MoveStep
  <2>. QED
    BY <2>3, <2>4, ReaderMoves
<1>4. ASSUME UNCHANGED <<pages, saved, stmt, result>>, scan[r].status # "closed", Lost(r)
      PROVE  ScanInv'
  <2>1. /\ Len(pages) \in Nat /\ Len(pages') \in Nat /\ Len(pages) <= Len(pages') /\ ScansGood
        /\ pages' \in Seq(Page) /\ Len(pages') <= MaxBlocks
        /\ UNCHANGED <<saved, stmt, result>>
    BY <1>4, InvTypes
  <2>2. ScansGood' /\ scan' = [scan EXCEPT ![r] = Closed]
    BY <1>0, <1>4, <2>1, LostStep
  <2>3. Closed \in Cursors
    BY TableTypes
  <2>. QED
    BY <2>1, <2>2, <2>3, ReaderMoves
<1>5. CASE BeforeFirst(r)
  <2>1. scan[r].status # "closed" /\ UNCHANGED <<pages, saved, stmt, result>>
    BY <1>5 DEF BeforeFirst
  <2>2. CASE pins' = Moved(scan[r].blk, 1) /\ scan' = Position(r, <<1, 0>>, "open")
    <3>1. 1 <= Len(pages) /\ 1 \in Blocks /\ 0 \in 0..SlotsPerBlock
      BY <1>0, <2>1, InUse, TableTypes
    <3>2. PICK to \in Blocks \X (0..SlotsPerBlock) : to = <<1, 0>>
      BY <3>1
    <3>. QED
      BY <1>3, <2>1, <2>2, <3>1, <3>2
  <2>. QED
    BY <1>4, <1>5, <2>1, <2>2 DEF BeforeFirst
<1>6. CASE \E p \in Pred : NextMatch(r, p)
  <2>1. PICK p \in Pred : NextMatch(r, p)
    BY <1>6
  <2>. DEFINE S == {q \in Live : Sat(At(q).rec, p)}
  <2>2. PICK to : to = NextAfter(scan[r], p)
    OBVIOUS
  <2>3. /\ scan[r].status = "open" /\ UNCHANGED <<pages, saved, stmt, result>>
        /\ \/ /\ pins' = Moved(scan[r].blk, to[1])
              /\ scan' = Position(r, to, IF to[2] = 0 THEN "end" ELSE "open")
           \/ Lost(r)
    BY <2>1, <2>2 DEF NextMatch
  <2>4. to = SearchAfter(scan[r], S)
    BY <2>2 DEF NextAfter
  <2>. HIDE DEF S
  <2>5. to = <<to[1], to[2]>> /\ to[1] \in Blocks /\ to[1] <= Len(pages) /\ to[2] \in 0..SlotsPerBlock
    BY <1>0, <2>3, <2>4, SearchEnds
  <2>6. PICK st \in {"open", "end"} : st = IF to[2] = 0 THEN "end" ELSE "open"
    OBVIOUS
  <2>7. CASE pins' = Moved(scan[r].blk, to[1]) /\ scan' = Position(r, to, st)
    BY <1>3, <2>3, <2>5, <2>6, <2>7
  <2>. QED
    BY <1>4, <2>3, <2>6, <2>7
<1>7. CASE GetRID(r)
  <2>1. /\ UNCHANGED <<pages, saved, pins, stmt, result>> /\ scan[r].status = "open" /\ scan[r].slot # 0
        /\ scan' = [scan EXCEPT ![r].mark = <<scan[r].blk, scan[r].slot>>]
    BY <1>7 DEF GetRID
  <2>2. /\ scan \in [Scans -> Cursors] /\ scan[r] \in Cursors /\ scan[r].blk \in 1..Len(pages) 
        /\ scan[r].blk \in Blocks /\ Len(pages) \in Nat /\ ScansGood /\ Fine(scan[r], Len(pages))
    BY <1>0, <2>1, InUse, InvTypes
  <2>3. PICK m : m = <<scan[r].blk, scan[r].slot>>
    OBVIOUS
  <2>4. PICK c : c = [blk |-> scan[r].blk, slot |-> scan[r].slot, status |-> "open", mark |-> m]
    OBVIOUS
  <2>5. m \in RID /\ m[1] <= Len(pages)
    BY <2>1, <2>2, <2>3, TableTypes DEF RID, Cursors
  <2>6. c \in Cursors /\ c.status # "closed" /\ c.blk = scan[r].blk
    BY <2>2, <2>4, <2>5 DEF Cursors
  <2>7. scan' = [scan EXCEPT ![r] = c]
    <3>1. [scan[r] EXCEPT !.mark = m] = c
      BY <2>1, <2>2, <2>4 DEF Cursors
    <3>2. scan' = [scan EXCEPT ![r] = [scan[r] EXCEPT !.mark = m]]
      BY <1>0, <2>1, <2>2, <2>3
    <3>. QED
      BY <3>1, <3>2
  <2>8. \A b \in Blocks : OpenIn(scan', b) = OpenIn(scan, b)
    BY <1>0, <2>1, <2>2, <2>6, <2>7 DEF OpenIn
  <2>9. Counts(pins', scan')
    BY <2>1, <2>2, <2>8 DEF Counts, ScansGood
  <2>10. Fine(c, Len(pages'))
    BY <2>1, <2>2, <2>4, <2>5 DEF Fine
  <2>11. Len(pages') = Len(pages) /\ Len(pages) <= Len(pages')
    BY <2>1, <2>2
  <2>12. ScansGood'
    BY <1>0, <2>2, <2>6, <2>7, <2>9, <2>10, <2>11, OneScan
  <2>. QED
    BY <2>1, <2>6, <2>7, <2>11, <2>12, InvTypes, ReaderMoves
<1>8. CASE MoveToRID(r)
  <2>1. /\ scan[r].status # "closed" /\ scan[r].mark # NoRID
        /\ UNCHANGED <<pages, saved, stmt, result>>
        /\ \/ pins' = Moved(scan[r].blk, scan[r].mark[1]) /\ scan' = Position(r, scan[r].mark, "open")
           \/ Lost(r)
    BY <1>8 DEF MoveToRID
  <2>2. PICK to : to = scan[r].mark
    OBVIOUS
  <2>3. to \in RID /\ to[1] <= Len(pages)
    BY <1>0, <2>1, <2>2, InUse DEF Cursors, Fine
  <2>4. to \in Blocks \X (0..SlotsPerBlock) /\ to[2] # 0
    BY <2>3, TableTypes DEF RID
  <2>5. CASE pins' = Moved(scan[r].blk, to[1]) /\ scan' = Position(r, to, "open")
    BY <1>3, <2>1, <2>3, <2>4, <2>5
  <2>. QED
    BY <1>4, <2>1, <2>2, <2>5
<1>9. CASE CloseScan(r)
  BY <1>4, <1>9 DEF CloseScan, Lost
<1>. QED
  BY <1>1, <1>2, <1>5, <1>6, <1>7, <1>8, <1>9 DEF Read

LEMMA StmtTypes ==
  /\ NoStmt \notin Stmts /\ \A st \in Stmts : st # NoStmt
  /\ \A st \in Stmts : st.op \in {"delete", "modify", "insert"}
  /\ \A st \in Stmts : st.op \in {"delete", "modify"} => st.count \in Nat
  /\ NoStmt.op = "none"
BY DEF Stmts, NoStmt

LEMMA BeginInv ==
  ASSUME ScanInv, NEW st \in Stmts, Begin(st)
  PROVE  ScanInv'
<1>0. Update \in Scans
  BY TableTypes
<1>1. CASE OpenFails(Update)
  BY <1>0, <1>1, OpenFailsInv
<1>2. CASE Open(Update) /\ stmt' = st /\ UNCHANGED <<saved, result>>
  <2>1. /\ ScansGood' /\ pages' \in Seq(Page) /\ Len(pages') \in Nat /\ Len(pages') <= MaxBlocks
        /\ Len(pages) <= Len(pages')
        /\ scan' = [scan EXCEPT ![Update] = [blk |-> 1, slot |-> 0, status |-> "open", mark |-> NoRID]]
    BY <1>0, <1>2, OpenStep
  <2>2. scan'[Update].status = "open"
    BY <1>0, <2>1, InvTypes
  <2>3. StmtOK'
    BY <1>2, <2>2, StmtTypes DEF StmtOK
  <2>4. Len(saved') <= Len(pages') /\ saved' \in Seq(Page) /\ result' \in Nat
    BY <1>2, <2>1, InvTypes
  <2>. QED
    BY <1>2, <2>1, <2>3, <2>4, InvNext
<1>. QED
  BY <1>1, <1>2 DEF Begin

(* A statement that returns, and one that is broken off.                   *)
LEMMA ClosesInv ==
  ASSUME ScanInv, stmt # NoStmt, Lost(Update), stmt' = NoStmt, result' \in Nat,
         pages' \in Seq(Page), Len(pages') <= MaxBlocks, Len(pages) <= Len(pages'), saved' = saved
  PROVE  ScanInv' /\ scan' = [scan EXCEPT ![Update] = Closed]
<1>0. Update \in Scans /\ Len(pages) \in Nat /\ Len(pages') \in Nat /\ ScansGood
  BY TableTypes, InvTypes, LenProperties
<1>1. scan[Update].status # "closed"
  BY InvTypes DEF StmtOK
<1>2. ScansGood' /\ scan' = [scan EXCEPT ![Update] = Closed]
  BY <1>0, <1>1, LostStep
<1>3. scan'[Update].status = "closed"
  BY <1>0, <1>2, InvTypes, TableTypes
<1>4. StmtOK'
  BY <1>3 DEF StmtOK
<1>. QED
  BY <1>0, <1>2, <1>4, InvTypes, InvNext

LEMMA UpdateIs ==
  ASSUME ScanInv, UpdateNext
  PROVE  /\ stmt \in Stmts /\ stmt # NoStmt /\ stmt.op \in {"delete", "modify"} /\ stmt.count \in Nat
         /\ stmt.pred \in Pred
         /\ scan[Update].status = "open" /\ scan[Update] \in Cursors /\ Update \in Scans
<1>1. stmt \in Stmts \cup {NoStmt} /\ stmt.op \in {"delete", "modify"} /\ StmtOK
  BY InvTypes DEF UpdateNext
<1>2. stmt \in Stmts /\ stmt # NoStmt
  BY <1>1, StmtTypes
<1>3. stmt.pred \in Pred
  BY <1>1, <1>2 DEF Stmts
<1>. QED
  BY <1>1, <1>2, <1>3, StmtTypes, InUse, TableTypes DEF StmtOK

LEMMA UpdateInv ==
  ASSUME ScanInv, UpdateNext
  PROVE  ScanInv'
<1>0. /\ stmt \in Stmts /\ stmt # NoStmt /\ stmt.op \in {"delete", "modify"} /\ stmt.count \in Nat
      /\ scan[Update].status = "open" /\ scan[Update] \in Cursors /\ Update \in Scans
      /\ ScansGood /\ pages \in Seq(Page) /\ Len(pages) \in Nat /\ Len(pages) <= MaxBlocks
  BY UpdateIs, InvTypes
<1>. DEFINE S == {q \in Live : Sat(At(q).rec, stmt.pred)}
<1>1. PICK to : to = NextAfter(scan[Update], stmt.pred)
  OBVIOUS
<1>2. to = SearchAfter(scan[Update], S)
  BY <1>1 DEF NextAfter
<1>. HIDE DEF S
<1>3. /\ to \in Blocks \X (0..SlotsPerBlock) /\ to[1] <= Len(pages) /\ (to[2] # 0 => to \in RIDs)
  <2>1. scan[Update].status # "closed"
    BY <1>0
  <2>2. /\ to = <<to[1], to[2]>> /\ to[1] \in Blocks /\ to[1] <= Len(pages)
        /\ to[2] \in 0..SlotsPerBlock /\ (to[2] # 0 => to \in RIDs)
    BY <1>0, <1>2, <2>1, SearchEnds
  <2>. QED
    BY <2>2
<1>4. CASE /\ to[2] # 0 /\ pages' = Apply(to) /\ pins' = Moved(scan[Update].blk, to[1])
           /\ scan' = Position(Update, to, "open") /\ stmt' = [stmt EXCEPT !.count = @ + 1]
           /\ UNCHANGED <<saved, result>>
  <2>1. /\ Written(to) \in Slot /\ to \in (1..Len(pages)) \X Slots
        /\ pages' = SetSlot(pages, to, Written(to))
    BY <1>0, <1>3, <1>4, ApplyIs, InvTypes
  <2>2. pages' \in Seq(Page) /\ Len(pages') = Len(pages)
    BY <1>0, <2>1, SetSlotIs
  <2>3. Len(pages') \in Nat /\ Len(pages) <= Len(pages') /\ to[1] <= Len(pages') /\ Len(pages') <= MaxBlocks
    BY <1>0, <1>3, <2>2
  <2>4. ScansGood' /\ \E c \in Cursors : scan' = [scan EXCEPT ![Update] = c] /\ c.status = "open"
    BY <1>0, <1>3, <1>4, <2>3, MoveStep
  <2>5. scan'[Update].status = "open"
    BY <1>0, <2>4, InvTypes
  <2>6. stmt' \in Stmts
    BY <1>0, <1>4 DEF Stmts
  <2>7. StmtOK'
    BY <2>5, <2>6, StmtTypes DEF StmtOK
  <2>8. saved' \in Seq(Page) /\ Len(saved') <= Len(pages') /\ result' \in Nat
    BY <1>4, <2>2, InvTypes
  <2>. QED
    BY <2>2, <2>3, <2>4, <2>6, <2>7, <2>8, InvNext
<1>5. CASE /\ pins' = [pins EXCEPT ![scan[Update].blk] = @ - 1]
           /\ scan' = [scan EXCEPT ![Update] = Closed] /\ Finish(stmt.count)
           /\ UNCHANGED <<pages, saved>>
  BY <1>0, <1>5, ClosesInv DEF Lost, Finish
<1>6. CASE Abandon /\ UNCHANGED <<pages, saved>>
  BY <1>0, <1>6, ClosesInv, InvTypes DEF Abandon
<1>. QED
  BY <1>1, <1>4, <1>5, <1>6 DEF UpdateNext

LEMMA InsertIs ==
  ASSUME ScanInv, InsertNext
  PROVE  /\ stmt \in Stmts /\ stmt # NoStmt /\ stmt.op = "insert" /\ stmt.vals \in NewRow
         /\ scan[Update].status # "closed" /\ scan[Update] \in Cursors /\ Update \in Scans
<1>1. stmt \in Stmts \cup {NoStmt} /\ stmt.op = "insert" /\ StmtOK
  BY InvTypes DEF InsertNext
<1>2. stmt \in Stmts /\ stmt # NoStmt
  BY <1>1, StmtTypes
<1>3. stmt.vals \in NewRow
  BY <1>1, <1>2 DEF Stmts
<1>. QED
  BY <1>1, <1>2, <1>3, InUse, TableTypes DEF StmtOK

(* The pages after an insert: one slot of the old ones, or of a new block. *)
LEMMA FillInv ==
  ASSUME ScanInv, InsertNext, NEW pgs \in Seq(Page), NEW r \in (1..Len(pgs)) \X Slots
  PROVE  Filled(r, pgs) \in Seq(Page) /\ Len(Filled(r, pgs)) = Len(pgs)
<1>0. stmt \in Stmts /\ stmt.op = "insert"
  BY InsertIs
<1>. QED
  BY <1>0, FilledIs, SetSlotIs

LEMMA InsertInv ==
  ASSUME ScanInv, InsertNext
  PROVE  ScanInv'
<1>0. /\ stmt # NoStmt /\ scan[Update].status # "closed" /\ Update \in Scans
      /\ pages \in Seq(Page) /\ Len(pages) \in Nat /\ Len(pages) <= MaxBlocks /\ result \in Nat
      /\ saved' = saved /\ TypeOK
  BY InsertIs, InvTypes DEF InsertNext
<1>. DEFINE S == {r \in RIDs : At(r).flag = EMPTY}
            new == Len(pages) + 1
<1>1. PICK to : to = EmptyAfter(scan[Update])
  OBVIOUS
<1>2. to = SearchAfter(scan[Update], S)
  BY <1>1 DEF EmptyAfter
<1>. HIDE DEF S
<1>3. to[2] # 0 => to \in RIDs
  BY <1>0, <1>2, SearchEnds
<1>4. ASSUME new \in Blocks, NEW x \in Page, NEW p, p = Append(pages, x)
      PROVE  /\ p \in Seq(Page) /\ Len(p) = new /\ Len(p) <= MaxBlocks /\ Len(pages) <= Len(p)
             /\ new \in 1..Len(p)
  <2>1. new <= MaxBlocks
    BY <1>4, TableTypes
  <2>. QED
    BY <1>0, <1>4, <2>1
<1>5. ASSUME pages' \in Seq(Page), Len(pages') <= MaxBlocks, Len(pages) <= Len(pages')
      PROVE  /\ Lost(Update) /\ Finish(1) => ScanInv'
             /\ Abandon => ScanInv'
  BY <1>0, <1>5, ClosesInv DEF Finish, Abandon
<1>6. CASE to[2] # 0 /\ pages' = Filled(to, pages) /\ Lost(Update) /\ Finish(1)
  <2>1. to \in (1..Len(pages)) \X Slots
    BY <1>3, <1>6 DEF RIDs
  <2>2. pages' \in Seq(Page) /\ Len(pages') = Len(pages)
    BY <1>0, <1>6, <2>1, FillInv
  <2>. QED
    BY <1>0, <1>5, <1>6, <2>2
<1>7. CASE /\ new \in Blocks /\ pages' = Filled(<<new, 1>>, Append(pages, Formatted))
           /\ Lost(Update) /\ Finish(1)
  <2>1. PICK p : p = Append(pages, Formatted)
    OBVIOUS
  <2>2. p \in Seq(Page) /\ Len(p) <= MaxBlocks /\ Len(pages) <= Len(p) /\ new \in 1..Len(p)
    BY <1>4, <1>7, <2>1, TableTypes
  <2>3. PICK r \in (1..Len(p)) \X Slots : r = <<new, 1>>
    BY <2>2, TableTypes
  <2>4. pages' = Filled(r, p)
    BY <1>7, <2>1, <2>3
  <2>5. pages' \in Seq(Page) /\ Len(pages') = Len(p)
    BY <2>2, <2>4, FillInv
  <2>. QED
    BY <1>5, <1>7, <2>2, <2>5
<1>8. CASE Abandon /\ UNCHANGED pages
  BY <1>0, <1>5, <1>8
<1>9. CASE new \in Blocks /\ pages' = Append(pages, ZeroPage) /\ Abandon
  BY <1>4, <1>5, <1>9, TableTypes
<1>. QED
  BY <1>1, <1>6, <1>7, <1>8, <1>9 DEF InsertNext, Lost

(* The transaction ends. *)
LEMMA EndInv ==
  ASSUME ScanInv, EndTx, pages' \in Seq(Page), Len(pages') = Len(pages),
         saved' \in Seq(Page), Len(saved') <= Len(pages)
  PROVE  ScanInv'
<1>1. ScansGood' /\ scan' = [s \in Scans |-> Closed]
  BY EndStep
<1>2. stmt' = NoStmt /\ result' = result
  BY DEF EndTx
<1>3. StmtOK'
  BY <1>1, <1>2, TableTypes DEF StmtOK
<1>. QED
  BY <1>1, <1>2, <1>3, InvTypes, InvNext

(* What is on disk at a crash, or after a rollback: the pages of the       *)
(* latest commit, and empty ones.                                          *)
LEMMA UndoneIs ==
  ASSUME ScanInv, NEW p, NEW Z,
         p = [b \in 1..Len(pages) |-> IF b <= Len(saved) THEN saved[b]
                                       ELSE IF b \in Z THEN ZeroPage ELSE Formatted]
  PROVE  p \in Seq(Page) /\ Len(p) = Len(pages)
<1>1. /\ Len(pages) \in Nat /\ saved \in Seq(Page) /\ Len(saved) \in Nat /\ Len(saved) <= Len(pages)
  BY InvTypes
<1>2. ASSUME NEW b \in 1..Len(pages) PROVE p[b] \in Page
  <2>1. CASE b <= Len(saved)
    <3>1. saved[b] \in Page
      BY <1>1, <2>1, ElementOfSeq
    <3>. QED
      BY <2>1, <3>1
  <2>2. CASE ~ b <= Len(saved)
    BY <2>2, TableTypes
  <2>. QED
    BY <2>1, <2>2
<1>3. p \in [1..Len(pages) -> Page]
  BY <1>2
<1>. QED
  BY <1>1, <1>3

LEMMA EndsInv ==
  ASSUME ScanInv, Commit \/ Rollback \/ Crash
  PROVE  ScanInv'
<1>1. CASE Commit
  <2>1. EndTx /\ saved' = pages /\ pages' = pages
    BY <1>1 DEF Commit
  <2>2. Len(pages) <= Len(pages)
    BY InvTypes
  <2>. QED
    BY <2>1, <2>2, InvTypes, EndInv
<1>2. CASE Rollback
  <2>1. /\ EndTx /\ saved' = saved
        /\ pages' = [b \in 1..Len(pages) |-> IF b <= Len(saved) THEN saved[b] ELSE Formatted]
    BY <1>2 DEF Rollback
  <2>2. PICK Z : Z = {}
    OBVIOUS
  <2>3. pages' = [b \in 1..Len(pages) |-> IF b <= Len(saved) THEN saved[b]
                                       ELSE IF b \in Z THEN ZeroPage ELSE Formatted]
    BY <2>1, <2>2
  <2>4. pages' \in Seq(Page) /\ Len(pages') = Len(pages)
    BY <2>3, UndoneIs
  <2>. QED
    BY <2>1, <2>4, InvTypes, EndInv
<1>3. CASE Crash
  <2>1. EndTx /\ saved' = saved
    BY <1>3 DEF Crash
  <2>2. PICK Z : pages' = [b \in 1..Len(pages) |-> IF b <= Len(saved) THEN saved[b]
                                       ELSE IF b \in Z THEN ZeroPage ELSE Formatted]
    BY <1>3 DEF Crash
  <2>3. pages' \in Seq(Page) /\ Len(pages') = Len(pages)
    BY <2>2, UndoneIs
  <2>. QED
    BY <2>1, <2>3, InvTypes, EndInv
<1>. QED
  BY <1>1, <1>2, <1>3

LEMMA ScanInvInductive ==
  /\ Init => ScanInv
  /\ ScanInv /\ [Next]_vars => ScanInv'
<1>1. ASSUME Init PROVE ScanInv
  <2>1. pages = <<>> /\ saved = <<>> /\ stmt = NoStmt /\ result = 0
        /\ scan = [s \in Scans |-> Closed] /\ pins = [b \in Blocks |-> 0]
    BY <1>1 DEF Init
  <2>2. scan \in [Scans -> Cursors] /\ \A s \in Scans : scan[s].status = "closed"
    BY <2>1, TableTypes
  <2>3. \A b \in Blocks : OpenIn(scan, b) = {}
    BY <2>2 DEF OpenIn
  <2>4. \A b \in Blocks : pins[b] = Cardinality(OpenIn(scan, b))
    BY <2>1, <2>3, FS_EmptySet
  <2>5. Counts(pins, scan)
    BY <2>1, <2>2, <2>4, CountsIs
  <2>6. ScanOK
    BY <2>1, TableTypes DEF ScanOK, Fine
  <2>7. StmtOK
    BY <2>1, <2>2, TableTypes DEF StmtOK
  <2>8. /\ pages \in Seq(Page) /\ Len(pages) <= MaxBlocks
        /\ saved \in Seq(Page) /\ Len(saved) <= Len(pages)
    BY <2>1, TableTypes
  <2>. QED
    BY <2>1, <2>2, <2>5, <2>6, <2>7, <2>8, InvIs DEF ScansGood
<1>2. ASSUME ScanInv, Next PROVE ScanInv'
  <2>1. CASE Statement
    <3>1. PICK st : /\ Begin(st)
                    /\ \/ \E p \in Pred : st = [op |-> "delete", pred |-> p, count |-> 0]
                       \/ \E p \in Pred, f \in Field, e \in Expr :
                            st = [op |-> "modify", pred |-> p, fld |-> f, expr |-> e, count |-> 0]
                       \/ \E v \in NewRow : st = [op |-> "insert", vals |-> v]
      BY <2>1 DEF Statement
    <3>2. st \in Stmts
      BY <3>1 DEF Stmts
    <3>. QED
      BY <1>2, <3>1, <3>2, BeginInv
  <2>. QED
    BY <1>2, <2>1, UpdateInv, InsertInv, ReadInv, EndsInv DEF Next
<1>3. ASSUME ScanInv, UNCHANGED vars PROVE ScanInv'
  BY <1>3 DEF vars, ScanInv, TypeOK, PinsMatchScans, ScanOK, StmtOK
<1>. QED
  BY <1>1, <1>2, <1>3

LEMMA ScanInvariant == Spec => []ScanInv
BY ScanInvInductive, PTL DEF Spec

(* The types of a table: cursors and identifiers stay in the file's blocks *)
(* and slots, and committed blocks are never lost (TableScan, RecordPage). *)
THEOREM TableKeepsTypes == Spec => []TypeOK
<1>1. ScanInv => TypeOK
  BY DEF ScanInv
<1>. QED
  BY <1>1, ScanInvariant, PTL

(* Every pin of the transaction on the table is the position of one scan   *)
(* in use, through opens, moves, failed moves, abandoned statements and    *)
(* the end of the transaction, for any number of scans and blocks.         *)
THEOREM PinsFollowScans == Spec => []PinsMatchScans
<1>1. ScanInv => PinsMatchScans
  BY DEF ScanInv
<1>. QED
  BY <1>1, ScanInvariant, PTL

----------------------------------------------------------------------------
(* The rows in a sequence of pages, and what a write makes of them. *)
LiveIn(pgs) == {r \in (1..Len(pgs)) \X Slots : pgs[r[1]][r[2]].flag = USED}
RowsIn(pgs) == [r \in LiveIn(pgs) |-> pgs[r[1]][r[2]].rec]

LEMMA RowsAre ==
  /\ Rows = RowsIn(pages) /\ SavedRows = RowsIn(saved) /\ Live = LiveIn(pages)
  /\ Rows' = RowsIn(pages') /\ SavedRows' = RowsIn(saved')
BY DEF Rows, SavedRows, RowsIn, LiveIn, Live, RIDs, At

LEMMA RowsType ==
  ASSUME NEW pgs \in Seq(Page), NEW r \in LiveIn(pgs)
  PROVE  RowsIn(pgs)[r] = pgs[r[1]][r[2]].rec /\ RowsIn(pgs)[r] \in Record
<1>1. r[1] \in 1..Len(pgs) /\ r[2] \in Slots
  BY DEF LiveIn
<1>2. pgs[r[1]] \in Page
  BY <1>1, ElementOfSeq
<1>. QED
  BY <1>1, <1>2 DEF RowsIn, Page, Slot

LEMMA NoRows == RowsIn(<< >>) = << >> /\ LiveIn(<< >>) = {}
<1>1. LiveIn(<< >>) = {}
  BY DEF LiveIn
<1>. QED
  BY <1>1 DEF RowsIn

(* A page that came from append or format holds no row.                    *)
LEMMA NewPageEmpty ==
  ASSUME NEW pgs \in Seq(Page), NEW x \in {ZeroPage, Formatted}
  PROVE  RowsIn(Append(pgs, x)) = RowsIn(pgs)
<1>1. PICK p : p = Append(pgs, x)
  OBVIOUS
<1>2. x \in Page /\ \A k \in Slots : x[k].flag # USED
  BY TableTypes DEF ZeroPage, Formatted, EMPTY, USED
<1>3. /\ Len(pgs) \in Nat /\ Len(p) = Len(pgs) + 1 /\ p[Len(pgs) + 1] = x
      /\ \A i \in 1..Len(pgs) : p[i] = pgs[i]
  BY <1>1, <1>2
<1>4. LiveIn(p) = LiveIn(pgs)
  BY <1>2, <1>3 DEF LiveIn
<1>5. \A r \in LiveIn(pgs) : p[r[1]] = pgs[r[1]]
  BY <1>3 DEF LiveIn
<1>6. RowsIn(p) = RowsIn(pgs)
  BY <1>4, <1>5 DEF RowsIn
<1>. QED
  BY <1>1, <1>6

(* The rows after a write to one slot.                                     *)
RowsWithout(rows, r)   == [q \in DOMAIN rows \ {r} |-> rows[q]]
RowsWith(rows, r, rec) == [q \in DOMAIN rows \cup {r} |-> IF q = r THEN rec ELSE rows[q]]

LEMMA SetSlotRows ==
  ASSUME NEW pgs \in Seq(Page), NEW r \in (1..Len(pgs)) \X Slots, NEW v \in Slot
  PROVE  RowsIn(SetSlot(pgs, r, v)) = IF v.flag = USED THEN RowsWith(RowsIn(pgs), r, v.rec)
                                                       ELSE RowsWithout(RowsIn(pgs), r)
<1>0. PICK p : p = SetSlot(pgs, r, v)
  OBVIOUS
<1>. DEFINE R == (1..Len(pgs)) \X Slots
<1>1. /\ \A q \in R : q # r => p[q[1]][q[2]] = pgs[q[1]][q[2]]
      /\ p[r[1]][r[2]] = v /\ Len(p) = Len(pgs)
  BY <1>0, SetSlotIs
<1>2. LiveIn(p) = {q \in R : p[q[1]][q[2]].flag = USED} /\ LiveIn(pgs) = {q \in R : pgs[q[1]][q[2]].flag = USED}
  BY <1>1 DEF LiveIn
<1>3. r \in R
  OBVIOUS
<1>4. DOMAIN RowsIn(pgs) = LiveIn(pgs)
  BY DEF RowsIn
<1>. HIDE DEF R
<1>5. ASSUME v.flag # USED PROVE RowsIn(p) = RowsWithout(RowsIn(pgs), r)
  <2>1. LiveIn(p) = LiveIn(pgs) \ {r}
    BY <1>1, <1>2, <1>3, <1>5
  <2>2. \A q \in LiveIn(p) : p[q[1]][q[2]].rec = RowsIn(pgs)[q]
    BY <1>1, <1>2, <2>1 DEF RowsIn
  <2>. QED
    BY <1>4, <2>1, <2>2 DEF RowsIn, RowsWithout
<1>6. ASSUME v.flag = USED PROVE RowsIn(p) = RowsWith(RowsIn(pgs), r, v.rec)
  <2>1. LiveIn(p) = LiveIn(pgs) \cup {r}
    BY <1>1, <1>2, <1>3, <1>6
  <2>2. \A q \in LiveIn(p) : q # r => p[q[1]][q[2]].rec = RowsIn(pgs)[q]
    BY <1>1, <1>2, <2>1 DEF RowsIn
  <2>. QED
    BY <1>1, <1>4, <2>1, <2>2 DEF RowsIn, RowsWith
<1>. QED
  BY <1>0, <1>5, <1>6

(* Undo brings the rows of the latest commit back.                         *)
LEMMA UndoneRows ==
  ASSUME ScanInv, NEW p, NEW Z,
         p = [b \in 1..Len(pages) |-> IF b <= Len(saved) THEN saved[b]
                                       ELSE IF b \in Z THEN ZeroPage ELSE Formatted]
  PROVE  RowsIn(p) = RowsIn(saved)
<1>1. /\ Len(pages) \in Nat /\ saved \in Seq(Page) /\ Len(saved) \in Nat /\ Len(saved) <= Len(pages)
      /\ Len(p) = Len(pages)
  BY InvTypes, UndoneIs
<1>2. \A k \in Slots : ZeroPage[k].flag # USED /\ Formatted[k].flag # USED
  BY DEF ZeroPage, Formatted, EMPTY, USED
<1>3. \A b \in 1..Len(saved) : p[b] = saved[b]
  BY <1>1
<1>4. \A b \in 1..Len(pages) : b \notin 1..Len(saved) => p[b] \in {ZeroPage, Formatted}
  BY <1>1
<1>5. LiveIn(p) = LiveIn(saved)
  BY <1>1, <1>2, <1>3, <1>4 DEF LiveIn
<1>6. \A r \in LiveIn(saved) : p[r[1]] = saved[r[1]]
  BY <1>3 DEF LiveIn
<1>. QED
  BY <1>5, <1>6 DEF RowsIn

----------------------------------------------------------------------------
(* How far a statement has come: the rows behind its cursor that match are *)
(* gone or changed, the others are as they were when it began.             *)
Passed(bf, p, at)  == {r \in DOMAIN bf : Sat(bf[r], p) /\ ~ Before(at, r)}
Without(bf, S)     == [r \in DOMAIN bf \ S |-> bf[r]]
Changed(rec, f, e) == [rec EXCEPT ![f] = Eval(rec, e)]
Updated(bf, S, f, e) == [r \in DOMAIN bf |-> IF r \in S THEN Changed(bf[r], f, e) ELSE bf[r]]

Halfway(st, bf, at, rows) ==
    /\ st.op \in {"delete", "modify"} => st.count = Cardinality(Passed(bf, st.pred, at))
    /\ st.op = "delete" => rows = Without(bf, Passed(bf, st.pred, at))
    /\ st.op = "modify" => rows = Updated(bf, Passed(bf, st.pred, at), st.fld, st.expr)
    /\ st.op = "insert" => rows = bf

Place(c) == <<c.blk, c.slot>>

Progress == stmt # NoStmt => /\ DOMAIN before \subseteq RIDs
                             /\ before \in [DOMAIN before -> Record]
                             /\ Halfway(stmt, before, Place(scan[Update]), Rows)

LEMMA PassedGrows ==
  ASSUME NEW bf, DOMAIN bf \in SUBSET (Nat \X Nat), NEW p, NEW at \in Nat \X Nat,
         NEW to \in DOMAIN bf, Before(at, to), Sat(bf[to], p),
         \A r \in DOMAIN bf : Sat(bf[r], p) /\ Before(at, r) => r = to \/ Before(to, r)
  PROVE  Passed(bf, p, to) = Passed(bf, p, at) \cup {to} /\ to \notin Passed(bf, p, at)
<1>1. ~ Before(to, to)
  BY DEF Before
<1>2. ASSUME NEW r \in DOMAIN bf, Before(to, r) PROVE Before(at, r)
  <2>1. /\ r[1] \in Nat /\ r[2] \in Nat /\ to[1] \in Nat /\ to[2] \in Nat /\ at[1] \in Nat /\ at[2] \in Nat
    OBVIOUS
  <2>. QED
    BY <1>2, <2>1 DEF Before
<1>. QED
  BY <1>1, <1>2 DEF Passed

LEMMA RIDsFinite ==
  ASSUME TypeOK, NEW S \in SUBSET RIDs
  PROVE  IsFiniteSet(S) /\ Cardinality(S) \in Nat
<1>1. Len(pages) \in Nat /\ SlotsPerBlock \in Nat
  BY RIDsIs, TableTypes
<1>2. IsFiniteSet(1..Len(pages)) /\ IsFiniteSet(Slots)
  BY <1>1, FS_Interval DEF Slots
<1>3. IsFiniteSet(RIDs)
  BY <1>2, FS_Product DEF RIDs
<1>. QED
  BY <1>3, FS_Subset, FS_CardinalityType

(* The rows ahead of the statement's cursor are the ones it began with.    *)
LEMMA AheadSame ==
  ASSUME ScanInv, Progress, stmt \in Stmts, stmt.op \in {"delete", "modify"}
  PROVE  /\ Live \subseteq DOMAIN before /\ DOMAIN before \subseteq RIDs
         /\ before \in [DOMAIN before -> Record]
         /\ \A r \in DOMAIN before : Before(Place(scan[Update]), r) =>
              r \in Live /\ Rows[r] = before[r] /\ At(r).rec = before[r]
<1>. DEFINE at == Place(scan[Update])
            P == Passed(before, stmt.pred, at)
<1>1. /\ DOMAIN before \subseteq RIDs /\ before \in [DOMAIN before -> Record]
      /\ stmt.op = "delete" => Rows = Without(before, P)
      /\ stmt.op = "modify" => Rows = Updated(before, P, stmt.fld, stmt.expr)
  BY StmtTypes DEF Progress, Halfway
<1>2. DOMAIN Rows = Live /\ \A r \in Live : Rows[r] = At(r).rec
  BY DEF Rows
<1>3. \A r \in P : ~ Before(at, r)
  BY DEF Passed
<1>. HIDE DEF P, at
<1>4. CASE stmt.op = "delete"
  BY <1>1, <1>2, <1>3, <1>4 DEF Without, at
<1>5. CASE stmt.op = "modify"
  BY <1>1, <1>2, <1>3, <1>5 DEF Updated, at
<1>. QED
  BY <1>4, <1>5

(* Where the statement's search leads among the rows it began with.        *)
LEMMA SearchBefore ==
  ASSUME ScanInv, Progress, UpdateNext, NEW to, to = NextAfter(scan[Update], stmt.pred)
  PROVE  /\ to[2] # 0 =>
              /\ to \in Live /\ to \in DOMAIN before /\ before[to] = At(to).rec
              /\ to \notin Passed(before, stmt.pred, Place(scan[Update]))
              /\ Passed(before, stmt.pred, to)
                   = Passed(before, stmt.pred, Place(scan[Update])) \cup {to}
         /\ to[2] = 0 => Passed(before, stmt.pred, Place(scan[Update]))
                           = {r \in DOMAIN before : Sat(before[r], stmt.pred)}
<1>0. /\ stmt \in Stmts /\ stmt.op \in {"delete", "modify"} /\ scan[Update].status # "closed"
      /\ scan[Update] \in Cursors /\ Update \in Scans /\ TypeOK
  BY UpdateIs, InvTypes
<1>. DEFINE S == {q \in Live : Sat(At(q).rec, stmt.pred)}
            at == Place(scan[Update])
<1>1. to = SearchAfter(scan[Update], S)
  BY DEF NextAfter
<1>2. /\ Live \subseteq DOMAIN before /\ DOMAIN before \in SUBSET (Nat \X Nat) /\ DOMAIN before \subseteq RIDs
      /\ \A r \in DOMAIN before : Before(at, r) => r \in Live /\ At(r).rec = before[r]
  BY <1>0, AheadSame, RIDsIs
<1>3. \A r : r \in S <=> r \in Live /\ Sat(At(r).rec, stmt.pred)
  OBVIOUS
<1>4. at \in Nat \X Nat /\ at = <<scan[Update].blk, scan[Update].slot>>
  BY <1>0, TableTypes DEF Place, Cursors
<1>. HIDE DEF S
<1>5. \/ /\ to \in RIDs /\ to \in S /\ Before(at, to)
         /\ \A r \in RIDs : r \in S /\ Before(at, r) => r = to \/ Before(to, r)
      \/ /\ to = <<Len(pages), 0>>
         /\ \A r \in RIDs : r \in S => ~ Before(at, r)
  <2>1. PICK c \in Cursors : c = scan[Update]
    BY <1>0
  <2>2. to = SearchAfter(c, S)
    BY <1>1, <2>1
  <2>3. \/ /\ to \in RIDs /\ to \in S /\ Before(<<c.blk, c.slot>>, to)
           /\ \A r \in RIDs : r \in S /\ Before(<<c.blk, c.slot>>, r) => r = to \/ Before(to, r)
        \/ /\ to = <<Len(pages), 0>>
           /\ \A r \in RIDs : r \in S => ~ Before(<<c.blk, c.slot>>, r)
    BY <1>0, <2>2, SearchIs
  <2>. QED
    BY <1>4, <2>1, <2>3
<1>. HIDE DEF at
<1>6. CASE /\ to \in RIDs /\ to \in S /\ Before(at, to)
           /\ \A r \in RIDs : r \in S /\ Before(at, r) => r = to \/ Before(to, r)
  <2>1. to[2] # 0
    BY <1>0, <1>6, RIDsIs, TableTypes
  <2>2. to \in Live /\ to \in DOMAIN before /\ before[to] = At(to).rec /\ Sat(before[to], stmt.pred)
    BY <1>2, <1>3, <1>6
  <2>3. \A r \in DOMAIN before : Sat(before[r], stmt.pred) /\ Before(at, r) => r = to \/ Before(to, r)
    BY <1>2, <1>3, <1>6
  <2>4. /\ Passed(before, stmt.pred, to) = Passed(before, stmt.pred, at) \cup {to}
        /\ to \notin Passed(before, stmt.pred, at)
    BY <1>2, <1>4, <1>6, <2>2, <2>3, PassedGrows
  <2>. QED
    BY <2>1, <2>2, <2>4 DEF at
<1>7. CASE to = <<Len(pages), 0>> /\ \A r \in RIDs : r \in S => ~ Before(at, r)
  <2>1. \A r \in DOMAIN before : Sat(before[r], stmt.pred) => ~ Before(at, r)
    BY <1>2, <1>3, <1>7
  <2>2. Passed(before, stmt.pred, at) = {r \in DOMAIN before : Sat(before[r], stmt.pred)}
    BY <2>1 DEF Passed
  <2>. QED
    BY <1>7, <2>2 DEF at
<1>. QED
  BY <1>5, <1>6, <1>7

(* One more row deleted or changed. *)
LEMMA RowDone ==
  ASSUME ScanInv, Progress, UpdateNext, NEW to, to = NextAfter(scan[Update], stmt.pred), to[2] # 0,
         pages' = Apply(to), scan' = Position(Update, to, "open"),
         stmt' = [stmt EXCEPT !.count = @ + 1], before' = before
  PROVE  Progress' /\ \A s \in Scans : s # Update => scan'[s] = scan[s]
<1>. DEFINE at == Place(scan[Update])
            P == Passed(before, stmt.pred, at)
            v == Written(to)
<1>0. /\ stmt \in Stmts /\ stmt.op \in {"delete", "modify"} /\ stmt.count \in Nat /\ Update \in Scans
      /\ TypeOK /\ pages \in Seq(Page) /\ Len(pages) \in Nat /\ scan \in [Scans -> Cursors]
  BY UpdateIs, InvTypes
<1>1. to \in Live /\ to \in DOMAIN before /\ before[to] = At(to).rec /\ to \notin P
  BY SearchBefore
<1>2. Passed(before, stmt.pred, to) = P \cup {to}
  BY SearchBefore
<1>3. to \in RIDs /\ At(to).flag = USED /\ Live = LiveIn(pages)
  BY <1>1, RowsAre DEF Live
<1>4. /\ to = <<to[1], to[2]>> /\ v \in Slot /\ pages' = SetSlot(pages, to, v)
      /\ to \in (1..Len(pages)) \X Slots
  BY <1>0, <1>3, ApplyIs, RIDsIs
<1>. HIDE DEF v
<1>5. Len(pages') = Len(pages)
  BY <1>0, <1>4, SetSlotIs
<1>7. /\ v.flag # USED => Rows' = RowsWithout(Rows, to)
      /\ v.flag = USED => Rows' = RowsWith(Rows, to, v.rec)
  BY <1>0, <1>4, SetSlotRows, RowsAre
<1>8. scan'[Update].blk = to[1] /\ scan'[Update].slot = to[2] /\ Place(scan[Update])' = to
  BY <1>0, <1>4 DEF Position, Place, Cursors
<1>9. \A s \in Scans : s # Update => scan'[s] = scan[s]
  BY <1>0 DEF Position
<1>10. /\ stmt'.op = stmt.op /\ stmt'.pred = stmt.pred /\ stmt'.count = stmt.count + 1
       /\ stmt.op = "modify" => stmt'.fld = stmt.fld /\ stmt'.expr = stmt.expr
  BY <1>0 DEF Stmts
<1>11. /\ Halfway(stmt, before, at, Rows) /\ DOMAIN before \subseteq RIDs
       /\ before \in [DOMAIN before -> Record]
  BY <1>0, StmtTypes DEF Progress
<1>12. Cardinality(P \cup {to}) = Cardinality(P) + 1
  <2>1. P \in SUBSET RIDs
    BY <1>11 DEF Passed
  <2>2. IsFiniteSet(P)
    BY <1>0, <2>1, RIDsFinite
  <2>. HIDE DEF P
  <2>. QED
    BY <1>1, <2>2, FS_AddElement
<1>13. stmt.count = Cardinality(P)
  BY <1>0, <1>11 DEF Halfway
<1>14. stmt.op = "delete" => Rows' = Without(before, P \cup {to})
  <2>. SUFFICES ASSUME stmt.op = "delete" PROVE Rows' = Without(before, P \cup {to})
    OBVIOUS
  <2>1. v.flag # USED
    BY DEF v, Written, EMPTY, USED
  <2>2. Rows = Without(before, P) /\ DOMAIN Rows = Live
    BY <1>11 DEF Halfway, Rows
  <2>. HIDE DEF P
  <2>3. Live = DOMAIN before \ P
    BY <2>2 DEF Without
  <2>4. \A q \in Live : Rows[q] = before[q]
    BY <2>2, <2>3 DEF Without
  <2>. QED
    BY <1>7, <2>1, <2>2, <2>3, <2>4 DEF Without, RowsWithout
<1>15. stmt.op = "modify" => Rows' = Updated(before, P \cup {to}, stmt.fld, stmt.expr)
  <2>. SUFFICES ASSUME stmt.op = "modify" PROVE Rows' = Updated(before, P \cup {to}, stmt.fld, stmt.expr)
    OBVIOUS
  <2>1. v.flag = USED /\ v.rec = Changed(before[to], stmt.fld, stmt.expr)
    BY <1>1, <1>3 DEF v, Written, Changed
  <2>2. Rows = Updated(before, P, stmt.fld, stmt.expr) /\ DOMAIN Rows = Live
    BY <1>11 DEF Halfway, Rows
  <2>. HIDE DEF P
  <2>3. Live = DOMAIN before
    BY <2>2 DEF Updated
  <2>4. \A q \in Live : Rows[q] = IF q \in P THEN Changed(before[q], stmt.fld, stmt.expr) ELSE before[q]
    BY <2>2, <2>3 DEF Updated
  <2>5. Rows' = [q \in DOMAIN before |-> IF q = to THEN Changed(before[to], stmt.fld, stmt.expr) ELSE Rows[q]]
    BY <1>1, <1>7, <2>1, <2>2, <2>3 DEF RowsWith
  <2>6. \A q \in DOMAIN before : (IF q = to THEN Changed(before[to], stmt.fld, stmt.expr) ELSE Rows[q])
                                 = IF q \in P \cup {to} THEN Changed(before[q], stmt.fld, stmt.expr) ELSE before[q]
    BY <2>3, <2>4
  <2>. QED
    BY <2>5, <2>6 DEF Updated
<1>16. Halfway(stmt', before, to, Rows')
  <2>1. Passed(before, stmt'.pred, to) = P \cup {to} /\ stmt'.count = Cardinality(P \cup {to})
    BY <1>2, <1>10, <1>12, <1>13
  <2>. HIDE DEF P
  <2>. QED
    BY <1>0, <1>10, <1>14, <1>15, <2>1 DEF Halfway
<1>17. RIDs' = RIDs
  BY <1>5 DEF RIDs
<1>. QED
  BY <1>8, <1>9, <1>11, <1>16, <1>17 DEF Progress

(* Opening the table leaves its rows alone, new block or not.              *)
LEMMA OpenRows ==
  ASSUME ScanInv, NEW x \in {ZeroPage, Formatted},
         pages' = IF pages = << >> THEN <<x>> ELSE pages
  PROVE  Rows' = Rows /\ RIDs \subseteq RIDs'
<1>1. CASE pages = << >>
  <2>1. << >> \in Seq(Page) /\ Append(<< >>, x) = <<x>>
    OBVIOUS
  <2>2. RowsIn(<<x>>) = RowsIn(<< >>)
    BY <2>1, NewPageEmpty
  <2>. QED
    BY <1>1, <2>2, RowsAre DEF RIDs
<1>2. CASE pages # << >>
  BY <1>2, RowsAre DEF RIDs
<1>. QED
  BY <1>1, <1>2

LEMMA RowsKind ==
  ASSUME ScanInv
  PROVE  /\ DOMAIN Rows \subseteq RIDs /\ DOMAIN Rows = Live /\ Rows \in [DOMAIN Rows -> Record]
         /\ \A r \in RIDs : Before(<<1, 0>>, r) /\ Before(<<0, 0>>, r)
<1>1. DOMAIN Rows \subseteq RIDs /\ DOMAIN Rows = Live
  BY DEF Rows, Live
<1>2. \A r \in Live : Rows[r] \in Record
  BY InvTypes, RowsAre, RowsType
<1>3. ASSUME NEW r \in RIDs PROVE Before(<<1, 0>>, r) /\ Before(<<0, 0>>, r)
  <2>1. r[1] \in 1..Len(pages) /\ r[2] \in Slots /\ Len(pages) \in Nat
    BY InvTypes, RIDsIs
  <2>2. r[1] \in Nat /\ r[1] >= 1 /\ r[2] \in Nat /\ r[2] >= 1
    BY <2>1, TableTypes
  <2>. QED
    BY <2>2 DEF Before
<1>. QED
  BY <1>1, <1>2, <1>3 DEF Rows

LEMMA BeginProgress ==
  ASSUME ScanInv, NEW st \in Stmts, Open(Update), stmt' = st, before' = Rows,
         st.op \in {"delete", "modify"} => st.count = 0
  PROVE  Progress'
<1>0. Update \in Scans
  BY TableTypes
<1>1. pages' = IF pages = << >> THEN <<Formatted>> ELSE pages
  BY DEF Open
<1>2. Rows' = Rows /\ RIDs \subseteq RIDs'
  <2>1. PICK x \in {ZeroPage, Formatted} : x = Formatted
    OBVIOUS
  <2>. QED
    BY <1>1, <2>1, OpenRows
<1>3. scan' = [scan EXCEPT ![Update] = [blk |-> 1, slot |-> 0, status |-> "open", mark |-> NoRID]]
  BY <1>0, OpenStep
<1>4. Place(scan[Update])' = <<1, 0>>
  BY <1>0, <1>3, InvTypes DEF Place
<1>5. \A p : Passed(Rows, p, <<1, 0>>) = {}
  BY RowsKind DEF Passed
<1>6. Without(Rows, {}) = Rows /\ \A f, e : Updated(Rows, {}, f, e) = Rows
  BY RowsKind DEF Without, Updated
<1>7. Halfway(st, Rows, <<1, 0>>, Rows)
  <2>1. PICK R : R = Rows
    OBVIOUS
  <2>2. PICK at : at = <<1, 0>>
    OBVIOUS
  <2>3. /\ \A p : Passed(R, p, at) = {}
        /\ Without(R, {}) = R /\ \A f, e : Updated(R, {}, f, e) = R
    BY <1>5, <1>6, <2>1, <2>2
  <2>4. Cardinality({}) = 0
    BY FS_EmptySet
  <2>5. Halfway(st, R, at, R)
    BY <2>3, <2>4, StmtTypes DEF Halfway
  <2>. QED
    BY <2>1, <2>2, <2>5
<1>. QED
  BY <1>2, <1>4, <1>7, RowsKind DEF Progress

LEMMA IdleProgress ==
  ASSUME stmt' = NoStmt
  PROVE  Progress'
BY DEF Progress

LEMMA BeginShape ==
  ASSUME Statement
  PROVE  \E st \in Stmts : Begin(st) /\ (st.op \in {"delete", "modify"} => st.count = 0)
<1>1. PICK st : /\ Begin(st)
                /\ \/ \E p \in Pred : st = [op |-> "delete", pred |-> p, count |-> 0]
                   \/ \E p \in Pred, f \in Field, e \in Expr :
                        st = [op |-> "modify", pred |-> p, fld |-> f, expr |-> e, count |-> 0]
                   \/ \E v \in NewRow : st = [op |-> "insert", vals |-> v]
  BY DEF Statement
<1>2. st \in Stmts /\ (st.op \in {"delete", "modify"} => st.count = 0)
  BY <1>1 DEF Stmts
<1>. QED
  BY <1>1, <1>2

LEMMA ProgressStep ==
  ASSUME ScanInv, Progress, [Next]_vars
  PROVE  Progress'
<1>1. CASE Statement
  <2>1. PICK st \in Stmts : Begin(st) /\ (st.op \in {"delete", "modify"} => st.count = 0)
    BY <1>1, BeginShape
  <2>2. CASE Open(Update) /\ stmt' = st /\ before' = Rows
    BY <2>1, <2>2, BeginProgress
  <2>3. CASE OpenFails(Update)
    BY <2>1, <2>3, IdleProgress DEF Begin, Idle, OpenFails
  <2>. QED
    BY <2>1, <2>2, <2>3 DEF Begin
<1>2. CASE UpdateNext
  <2>1. PICK to : to = NextAfter(scan[Update], stmt.pred)
    OBVIOUS
  <2>2. CASE /\ to[2] # 0 /\ pages' = Apply(to) /\ scan' = Position(Update, to, "open")
             /\ stmt' = [stmt EXCEPT !.count = @ + 1] /\ before' = before
    BY <1>2, <2>1, <2>2, RowDone
  <2>3. CASE stmt' = NoStmt
    BY <2>3, IdleProgress
  <2>. QED
    BY <1>2, <2>1, <2>2, <2>3 DEF UpdateNext, Finish, Abandon
<1>3. CASE InsertNext
  BY <1>3, IdleProgress DEF InsertNext, Finish, Abandon
<1>4. ASSUME NEW r \in Reader, Read(r) PROVE Progress'
  <2>1. Idle /\ stmt' = stmt
    BY <1>4 DEF Read, OpenScan, OpenFails, BeforeFirst, CloseScan, GetRID, MoveToRID, NextMatch
  <2>. QED
    BY <2>1, IdleProgress DEF Idle
<1>5. CASE Commit \/ Rollback \/ Crash
  BY <1>5, IdleProgress DEF Commit, Rollback, Crash, EndTx
<1>6. CASE UNCHANGED vars
  BY <1>6 DEF vars, Progress, RIDs, Rows, Live, At, Place
<1>. QED
  BY <1>1, <1>2, <1>3, <1>4, <1>5, <1>6 DEF Next

LEMMA ProgressInvariant == Spec => [](ScanInv /\ Progress)
<1>1. Init => Progress
  BY IdleProgress DEF Init, Progress
<1>. QED
  BY <1>1, ScanInvInductive, ProgressStep, PTL DEF Spec

----------------------------------------------------------------------------
(* The refinement: what a reader's cursor and a statement show outside. *)
Shown(c) == [status |-> c.status, mark |-> c.mark,
             at |-> IF c.status = "open" /\ c.slot # 0 THEN <<c.blk, c.slot>> ELSE NoRID]
ShownCursors == [r \in Reader |-> Cursor(r)]
ShownRows    == IF stmt = NoStmt THEN Rows ELSE before

LEMMA ShownIs ==
  /\ \A r \in Reader : Cursor(r) = Shown(scan[r])
  /\ Shown(Closed) = Table!Closed
  /\ Table!Start = NoRID
BY DEF Cursor, Shown, Closed, Table!Closed, Table!Start, NoRID

(* A step of one reader changes its cursor and nothing else.               *)
LEMMA ReaderPut ==
  ASSUME ScanInv, NEW r \in Reader, Idle, scan' \in [Scans -> Cursors],
         \A s \in Scans : s # r => scan'[s] = scan[s],
         Rows' = Rows, UNCHANGED <<saved, stmt, result>>,
         NEW c, c = Shown(scan'[r])
  PROVE  Table!Put(r, c)
<1>1. Reader \subseteq Scans
  BY DEF Scans
<1>2. ShownCursors' = [ShownCursors EXCEPT ![r] = c]
  BY <1>1 DEF ShownCursors, Cursor, Shown
<1>3. ShownRows' = ShownRows /\ SavedRows' = SavedRows /\ result' = result
  BY RowsAre DEF ShownRows, Idle
<1>. QED
  BY <1>2, <1>3 DEF Table!Put, ShownCursors, ShownRows

LEMMA OpenAbstract ==
  ASSUME ScanInv, NEW r \in Reader, OpenScan(r)
  PROVE  Table!Open(r)
<1>0. r \in Scans /\ Idle /\ Open(r) /\ UNCHANGED <<saved, stmt, result>>
  BY DEF OpenScan, Scans
<1>1. /\ scan' = [scan EXCEPT ![r] = [blk |-> 1, slot |-> 0, status |-> "open", mark |-> NoRID]]
      /\ scan[r].status = "closed" /\ pages' = IF pages = << >> THEN <<Formatted>> ELSE pages
  BY <1>0, OpenStep
<1>2. Rows' = Rows
  <2>1. PICK x \in {ZeroPage, Formatted} : x = Formatted
    OBVIOUS
  <2>. QED
    BY <1>1, <2>1, OpenRows
<1>3. scan \in [Scans -> Cursors] /\ scan[r] = Closed
  BY <1>0, <1>1, InUse, InvTypes DEF Fine
<1>4. /\ scan'[r] = [blk |-> 1, slot |-> 0, status |-> "open", mark |-> NoRID]
      /\ \A s \in Scans : s # r => scan'[s] = scan[s]
  BY <1>0, <1>1, <1>3
<1>5. PICK c : c = [status |-> "open", at |-> NoRID, mark |-> NoRID]
  OBVIOUS
<1>6. c = Shown(scan'[r])
  BY <1>4, <1>5 DEF Shown
<1>7. scan' \in [Scans -> Cursors]
  <2>1. ScansGood'
    BY <1>0, OpenStep
  <2>. QED
    BY <2>1 DEF ScansGood
<1>8. Table!Put(r, c)
  BY <1>0, <1>2, <1>4, <1>6, <1>7, ReaderPut
<1>9. ShownCursors[r].mark = NoRID
  BY <1>3, TableTypes DEF ShownCursors, Cursor
<1>. QED
  BY <1>5, <1>8, <1>9, ShownIs DEF Table!Open, ShownCursors

LEMMA CloseAbstract ==
  ASSUME ScanInv, NEW r \in Reader, Idle, Lost(r), UNCHANGED <<pages, saved, stmt, result>>
  PROVE  Table!Close(r)
<1>1. r \in Scans /\ scan \in [Scans -> Cursors] /\ Closed \in Cursors
  BY InvTypes, TableTypes DEF Scans
<1>2. scan' = [scan EXCEPT ![r] = Closed] /\ Rows' = Rows
  BY RowsAre DEF Lost
<1>3. PICK c : c = Shown(Closed)
  OBVIOUS
<1>4. /\ scan' \in [Scans -> Cursors] /\ scan'[r] = Closed
      /\ \A s \in Scans : s # r => scan'[s] = scan[s]
  BY <1>1, <1>2
<1>5. Table!Put(r, c)
  BY <1>2, <1>3, <1>4, ReaderPut
<1>. QED
  BY <1>3, <1>5, ShownIs DEF Table!Close

LEMMA PositionPut ==
  ASSUME ScansGood, NEW s \in Scans, NEW to \in Blocks \X (0..SlotsPerBlock), NEW st \in {"open", "end"}
  PROVE  \E c \in Cursors : /\ c.blk = to[1] /\ c.slot = to[2] /\ c.status = st /\ c.mark = scan[s].mark
                             /\ Position(s, to, st) = [scan EXCEPT ![s] = c]
<1>. DEFINE b == to[1]
            k == to[2]
<1>1. b \in Blocks /\ k \in 0..SlotsPerBlock /\ to = <<b, k>>
  OBVIOUS
<1>2. PICK c : c = [blk |-> b, slot |-> k, status |-> st, mark |-> scan[s].mark]
  OBVIOUS
<1>. HIDE DEF b, k
<1>3. c \in Cursors /\ Position(s, <<b, k>>, st) = [scan EXCEPT ![s] = c]
  BY <1>1, <1>2, PositionIs
<1>4. c.blk = b /\ c.slot = k /\ c.status = st /\ c.mark = scan[s].mark
  BY <1>2
<1>5. Position(s, to, st) = [scan EXCEPT ![s] = c]
  BY <1>1, <1>3
<1>. QED
  BY <1>3, <1>4, <1>5 DEF b, k

(* A reader that moves keeps its mark.                                     *)
LEMMA MoveAbstract ==
  ASSUME ScanInv, NEW r \in Reader, Idle, UNCHANGED <<pages, saved, stmt, result>>,
         NEW to \in Blocks \X (0..SlotsPerBlock), NEW st \in {"open", "end"},
         scan' = Position(r, to, st),
         NEW c, c = [status |-> st, mark |-> scan[r].mark,
                     at |-> IF st = "open" /\ to[2] # 0 THEN to ELSE NoRID]
  PROVE  Table!Put(r, c)
<1>1. r \in Scans /\ scan \in [Scans -> Cursors] /\ ScansGood
  BY InvTypes DEF Scans
<1>6. PICK d \in Cursors : /\ d.blk = to[1] /\ d.slot = to[2] /\ d.status = st /\ d.mark = scan[r].mark
                            /\ Position(r, to, st) = [scan EXCEPT ![r] = d]
  BY <1>1, PositionPut
<1>2. to = <<to[1], to[2]>>
  OBVIOUS
<1>7. /\ scan' \in [Scans -> Cursors] /\ scan'[r] = d
      /\ \A s \in Scans : s # r => scan'[s] = scan[s]
  BY <1>1, <1>6
<1>8. c = Shown(scan'[r])
  BY <1>2, <1>6, <1>7 DEF Shown
<1>9. Rows' = Rows
  BY RowsAre
<1>. QED
  BY <1>7, <1>8, <1>9, ReaderPut

LEMMA SameOperators ==
  /\ \A rec, p : Table!Sat(rec, p) = Sat(rec, p)
  /\ \A r, s : Table!Before(r, s) = Before(r, s)
  /\ \A S : Table!Least(S) = Least(S)
  /\ \A rec, e : Table!Eval(rec, e) = Eval(rec, e)
BY DEF Table!Sat, Sat, Table!Before, Before, Table!Least, Least, Table!Eval, Eval

LEMMA SameCardinality == \A S : Table!Cardinality(S) = Cardinality(S)
BY Zenon DEF Table!Cardinality, Cardinality

(* The rows ahead of an open cursor are the same on both sides.            *)
LEMMA NextAbstract ==
  ASSUME ScanInv, NEW r \in Reader, NEW p \in Pred, NextMatch(r, p)
  PROVE  Table!Advance(r, p) \/ Table!Close(r)
<1>. DEFINE S == {q \in Live : Sat(At(q).rec, p)}
            ahead == After(scan[r]) \cap S
<1>1. PICK to : to = NextAfter(scan[r], p)
  OBVIOUS
<1>2. /\ Idle /\ scan[r].status = "open" /\ UNCHANGED <<pages, saved, stmt, result>>
      /\ \/ scan' = Position(r, to, IF to[2] = 0 THEN "end" ELSE "open")
         \/ Lost(r)
  BY <1>1 DEF NextMatch
<1>3. CASE Lost(r)
  BY <1>2, <1>3, CloseAbstract
<1>4. CASE scan' = Position(r, to, IF to[2] = 0 THEN "end" ELSE "open")
  <2>1. r \in Scans /\ scan[r] \in Cursors /\ scan[r].status # "closed" /\ Fine(scan[r], Len(pages))
    BY <1>2, InUse DEF Scans
  <2>2. to = SearchAfter(scan[r], S)
    BY <1>1 DEF NextAfter
  <2>3. to = IF ahead = {} THEN <<Len(pages), 0>> ELSE Least(ahead)
    BY <2>2 DEF SearchAfter
  <2>4. to \in Blocks \X (0..SlotsPerBlock) /\ (to[2] # 0 => to \in RIDs)
    <3>. HIDE DEF S, ahead
    <3>1. /\ to = <<to[1], to[2]>> /\ to[1] \in Blocks /\ to[2] \in 0..SlotsPerBlock
          /\ (to[2] # 0 => to \in RIDs)
      BY <2>1, <2>2, SearchEnds
    <3>. QED
      BY <3>1
  <2>5. ahead # {} => to[2] # 0
    <3>. SUFFICES ASSUME ahead # {} PROVE to[2] # 0
      OBVIOUS
    <3>1. ahead \in SUBSET RIDs
      BY DEF After
    <3>2. ahead \in SUBSET (Nat \X Nat)
      BY <3>1, InvTypes, RIDsIs
    <3>. HIDE DEF ahead
    <3>3. to \in RIDs
      BY <2>3, <3>1, <3>2, LeastIs
    <3>. QED
      BY <3>3, InvTypes, RIDsIs, TableTypes
  <2>6. ahead = {} => to[2] = 0
    BY <2>3
  <2>7. PICK st \in {"open", "end"} : st = IF to[2] = 0 THEN "end" ELSE "open"
    OBVIOUS
  <2>8. PICK c : c = [status |-> st, mark |-> scan[r].mark,
                      at |-> IF st = "open" /\ to[2] # 0 THEN to ELSE NoRID]
    OBVIOUS
  <2>9. Table!Put(r, c)
    BY <1>2, <1>4, <2>4, <2>7, <2>8, MoveAbstract
  <2>. DEFINE cur == ShownCursors[r]
  <2>10. /\ cur.status = "open" /\ cur.mark = scan[r].mark
         /\ cur = [status |-> cur.status, mark |-> cur.mark, at |-> cur.at]
         /\ cur.at = IF scan[r].slot # 0 THEN <<scan[r].blk, scan[r].slot>> ELSE <<0, 0>>
    BY <1>2 DEF ShownCursors, Cursor, NoRID
  <2>11. \A q \in RIDs : Before(cur.at, q) <=> Before(<<scan[r].blk, scan[r].slot>>, q)
    <3>1. CASE scan[r].slot # 0
      BY <2>10, <3>1
    <3>2. CASE scan[r].slot = 0
      <4>1. scan[r].blk = 1
        BY <1>2, <2>1, <3>2 DEF Fine
      <4>. QED
        BY <2>10, <3>2, <4>1, RowsKind
    <3>. QED
      BY <3>1, <3>2
  <2>. HIDE DEF cur
  <2>12. ahead = {q \in RIDs : Before(cur.at, q) /\ q \in S}
    BY <2>11 DEF After
  <2>13. ShownRows = Rows
    BY <1>2 DEF ShownRows, Idle
  <2>14. Table!Matching(p) = S
    <3>1. DOMAIN Rows = Live /\ \A q \in Live : Rows[q] = At(q).rec
      BY DEF Rows
    <3>2. Table!Matching(p) = {q \in DOMAIN ShownRows : Sat(ShownRows[q], p)}
      BY SameOperators DEF Table!Matching, ShownRows
    <3>. QED
      BY <2>13, <3>1, <3>2
  <2>15. S \subseteq RIDs
    BY DEF Live
  <2>. HIDE DEF S, ahead
  <2>16. {q \in Table!Matching(p) : Table!Before(cur.at, q)} = ahead
    BY <2>12, <2>14, <2>15, SameOperators
  <2>17. c = IF ahead = {} THEN [cur EXCEPT !.status = "end", !.at = NoRID]
                           ELSE [cur EXCEPT !.at = Least(ahead)]
    <3>1. CASE ahead = {}
      BY <2>6, <2>7, <2>8, <2>10, <3>1
    <3>2. CASE ahead # {}
      BY <2>3, <2>5, <2>7, <2>8, <2>10, <3>2
    <3>. QED
      BY <3>1, <3>2
  <2>18. Table!Advance(r, p)
    BY <2>9, <2>10, <2>16, <2>17, SameOperators, ShownIs DEF Table!Advance, ShownCursors, cur
  <2>. QED
    BY <2>18
<1>. QED
  BY <1>2, <1>3, <1>4

LEMMA ReadAbstract ==
  ASSUME ScanInv, NEW r \in Reader, Read(r)
  PROVE  \/ Table!Open(r) \/ Table!Close(r) \/ Table!Mark(r) \/ Table!Return(r)
         \/ \E p \in Pred : Table!Advance(r, p)
         \/ UNCHANGED <<ShownRows, SavedRows, ShownCursors, result>>
<1>0. r \in Scans /\ scan \in [Scans -> Cursors] /\ scan[r] \in Cursors /\ Fine(scan[r], Len(pages))
  BY InUse, InvTypes DEF Scans
<1>1. CASE OpenScan(r)
  BY <1>1, OpenAbstract
<1>2. CASE Idle /\ OpenFails(r)
  <2>1. /\ UNCHANGED <<saved, scan, stmt, result, before>>
        /\ pages' = IF pages = << >> THEN <<ZeroPage>> ELSE pages
    BY <1>2 DEF OpenFails
  <2>2. PICK x \in {ZeroPage, Formatted} : x = ZeroPage
    OBVIOUS
  <2>3. Rows' = Rows
    BY <2>1, <2>2, OpenRows
  <2>4. SavedRows' = SavedRows /\ ShownRows' = ShownRows /\ ShownCursors' = ShownCursors
    BY <2>1, <2>3, RowsAre DEF ShownRows, ShownCursors, Cursor
  <2>. QED
    BY <2>1, <2>4
<1>3. CASE BeforeFirst(r)
  <2>1. /\ Idle /\ UNCHANGED <<pages, saved, stmt, result>>
        /\ \/ scan' = Position(r, <<1, 0>>, "open")
           \/ Lost(r)
    BY <1>3 DEF BeforeFirst
  <2>2. CASE Lost(r)
    BY <2>1, <2>2, CloseAbstract
  <2>3. CASE scan' = Position(r, <<1, 0>>, "open")
    <3>0. 0 \in 0..SlotsPerBlock /\ 1 \in Blocks
      BY TableTypes
    <3>1. PICK to \in Blocks \X (0..SlotsPerBlock) : to = <<1, 0>>
      BY <3>0
    <3>2. PICK st \in {"open", "end"} : st = "open"
      OBVIOUS
    <3>3. PICK c : c = [status |-> st, mark |-> scan[r].mark,
                        at |-> IF st = "open" /\ to[2] # 0 THEN to ELSE NoRID]
      OBVIOUS
    <3>4. scan' = Position(r, to, st)
      BY <2>3, <3>1, <3>2
    <3>5. Table!Put(r, c)
      BY <2>1, <3>3, <3>4, MoveAbstract
    <3>6. c = [status |-> "open", at |-> Table!Start, mark |-> ShownCursors[r].mark]
      BY <3>1, <3>2, <3>3, ShownIs DEF ShownCursors, Cursor
    <3>. QED
      BY <3>5, <3>6 DEF Table!Open, ShownCursors
  <2>. QED
    BY <2>1, <2>2, <2>3
<1>4. CASE CloseScan(r)
  BY <1>4, CloseAbstract DEF CloseScan, Lost
<1>5. CASE GetRID(r)
  <2>1. /\ Idle /\ UNCHANGED <<pages, saved, stmt, result>>
        /\ scan[r].status = "open" /\ scan[r].slot # 0
        /\ scan' = [scan EXCEPT ![r].mark = <<scan[r].blk, scan[r].slot>>]
    BY <1>5 DEF GetRID
  <2>2. PICK m : m = <<scan[r].blk, scan[r].slot>>
    OBVIOUS
  <2>3. m \in RID /\ m # NoRID
    BY <1>0, <2>1, <2>2, TableTypes DEF RID, Cursors, NoRID
  <2>4. PICK d : d = [blk |-> scan[r].blk, slot |-> scan[r].slot, status |-> "open", mark |-> m]
    OBVIOUS
  <2>5. d \in Cursors /\ [scan[r] EXCEPT !.mark = m] = d
    BY <1>0, <2>1, <2>3, <2>4 DEF Cursors
  <2>6. scan' = [scan EXCEPT ![r] = d]
    <3>1. scan' = [scan EXCEPT ![r] = [scan[r] EXCEPT !.mark = m]]
      BY <1>0, <2>1, <2>2
    <3>. QED
      BY <2>5, <3>1
  <2>7. scan' \in [Scans -> Cursors] /\ scan'[r] = d /\ \A s \in Scans : s # r => scan'[s] = scan[s]
    BY <1>0, <2>5, <2>6
  <2>8. PICK c : c = Shown(scan'[r])
    OBVIOUS
  <2>9. Table!Put(r, c)
    BY <2>1, <2>7, <2>8, RowsAre, ReaderPut
  <2>10. c = [status |-> "open", mark |-> m, at |-> m]
    BY <2>1, <2>2, <2>4, <2>7, <2>8 DEF Shown
  <2>11. ShownCursors[r] = [status |-> "open", mark |-> scan[r].mark, at |-> m]
    BY <2>1, <2>2 DEF ShownCursors, Cursor
  <2>12. c = [ShownCursors[r] EXCEPT !.mark = ShownCursors[r].at] /\ ShownCursors[r].at # Table!Start
    BY <2>3, <2>10, <2>11, ShownIs
  <2>13. Table!Mark(r)
    BY <2>9, <2>12 DEF Table!Mark, ShownCursors
  <2>. QED
    BY <2>13
<1>6. CASE MoveToRID(r)
  <2>1. /\ Idle /\ UNCHANGED <<pages, saved, stmt, result>>
        /\ scan[r].mark # NoRID
        /\ \/ scan' = Position(r, scan[r].mark, "open")
           \/ Lost(r)
    BY <1>6 DEF MoveToRID
  <2>2. CASE Lost(r)
    BY <2>1, <2>2, CloseAbstract
  <2>3. CASE scan' = Position(r, scan[r].mark, "open")
    <3>0. scan[r].mark \in RID
      BY <1>0, <2>1 DEF Cursors
    <3>1. PICK to \in Blocks \X (0..SlotsPerBlock) : to = scan[r].mark /\ to[2] # 0
      BY <3>0, TableTypes DEF RID
    <3>2. PICK st \in {"open", "end"} : st = "open"
      OBVIOUS
    <3>3. PICK c : c = [status |-> st, mark |-> scan[r].mark,
                        at |-> IF st = "open" /\ to[2] # 0 THEN to ELSE NoRID]
      OBVIOUS
    <3>4. scan' = Position(r, to, st)
      BY <2>3, <3>1, <3>2
    <3>5. Table!Put(r, c)
      BY <2>1, <3>3, <3>4, MoveAbstract
    <3>. DEFINE cur == ShownCursors[r]
    <3>6. PICK x, z : cur = [status |-> x, mark |-> to, at |-> z]
      BY <3>1 DEF ShownCursors, Cursor
    <3>. HIDE DEF cur
    <3>7. c = [cur EXCEPT !.status = "open", !.at = cur.mark]
      <4>1. c = [status |-> "open", mark |-> to, at |-> to]
        BY <3>1, <3>2, <3>3
      <4>2. cur.mark = to
        BY <3>6
      <4>3. PICK d : d = [cur EXCEPT !.status = "open"]
        OBVIOUS
      <4>4. d = [status |-> "open", mark |-> to, at |-> z]
        BY <3>6, <4>3
      <4>5. [d EXCEPT !.at = to] = [status |-> "open", mark |-> to, at |-> to]
        BY <4>4
      <4>. QED
        BY <4>1, <4>2, <4>3, <4>5
    <3>8. cur.mark # Table!Start
      BY <2>1, <3>1, <3>6, ShownIs
    <3>9. Table!Return(r)
      BY <3>5, <3>7, <3>8 DEF Table!Return, ShownCursors, cur
    <3>. QED
      BY <3>9
  <2>. QED
    BY <2>1, <2>2, <2>3
<1>7. CASE \E p \in Pred : NextMatch(r, p)
  BY <1>7, NextAbstract
<1>. QED
  BY <1>1, <1>2, <1>3, <1>4, <1>5, <1>6, <1>7 DEF Read

(* A statement does not touch the readers' cursors.                        *)
LEMMA StatementCursors ==
  ASSUME ScanInv, \A s \in Scans : s # Update => scan'[s] = scan[s]
  PROVE  ShownCursors' = ShownCursors
<1>1. Reader \subseteq Scans /\ Update \notin Reader
  BY TableAssumption DEF Scans
<1>. QED
  BY <1>1 DEF ShownCursors, Cursor

LEMMA UpdateAbstract ==
  ASSUME ScanInv, Progress, UpdateNext
  PROVE  \/ Table!DeleteRows(stmt.pred)
         \/ stmt.op = "modify" /\ Table!ModifyRows(stmt.pred, stmt.fld, stmt.expr)
         \/ Table!BrokenOff
         \/ UNCHANGED <<ShownRows, SavedRows, ShownCursors, result>>
<1>0. /\ stmt \in Stmts /\ stmt # NoStmt /\ stmt.op \in {"delete", "modify"} /\ stmt.pred \in Pred
      /\ Update \in Scans /\ TypeOK /\ scan \in [Scans -> Cursors]
      /\ UNCHANGED <<saved, begun>> /\ SavedRows' = SavedRows
  BY UpdateIs, InvTypes, RowsAre DEF UpdateNext
<1>. DEFINE at == Place(scan[Update])
            P == Passed(before, stmt.pred, at)
            M == {r \in DOMAIN before : Sat(before[r], stmt.pred)}
<1>1. /\ ShownRows = before
      /\ DOMAIN before \subseteq RIDs /\ before \in [DOMAIN before -> Record]
      /\ stmt.count = Cardinality(P)
      /\ stmt.op = "delete" => Rows = Without(before, P)
      /\ stmt.op = "modify" => Rows = Updated(before, P, stmt.fld, stmt.expr)
  BY <1>0 DEF Progress, Halfway, ShownRows
<1>2. PICK to : to = NextAfter(scan[Update], stmt.pred)
  OBVIOUS
<1>3. CASE /\ to[2] # 0 /\ pages' = Apply(to) /\ scan' = Position(Update, to, "open")
           /\ stmt' = [stmt EXCEPT !.count = @ + 1] /\ UNCHANGED <<result, before>>
  <2>1. \A s \in Scans : s # Update => scan'[s] = scan[s]
    BY <1>2, <1>3, RowDone
  <2>2. stmt' \in Stmts
    <3>1. stmt.count \in Nat
      BY <1>0, StmtTypes
    <3>. QED
      BY <1>0, <1>3, <3>1 DEF Stmts
  <2>3. ShownRows' = ShownRows
    BY <1>0, <1>3, <2>2, StmtTypes DEF ShownRows
  <2>. QED
    BY <1>0, <1>3, <2>1, <2>3, StatementCursors
<1>4. ASSUME scan' = [scan EXCEPT ![Update] = Closed], stmt' = NoStmt, pages' = pages
      PROVE  ShownCursors' = ShownCursors /\ ShownRows' = Rows
  <2>1. \A s \in Scans : s # Update => scan'[s] = scan[s]
    BY <1>0, <1>4
  <2>2. ShownRows' = Rows
    BY <1>4, RowsAre DEF ShownRows
  <2>. QED
    BY <2>1, <2>2, StatementCursors
<1>5. CASE to[2] = 0 /\ scan' = [scan EXCEPT ![Update] = Closed] /\ Finish(stmt.count) /\ UNCHANGED pages
  <2>1. P = M
    BY <1>2, <1>5, SearchBefore
  <2>2. Table!Matching(stmt.pred) = M
    BY <1>1, SameOperators DEF Table!Matching, ShownRows
  <2>3. ShownCursors' = ShownCursors /\ ShownRows' = Rows /\ result' = Cardinality(M)
    BY <1>1, <1>4, <1>5, <2>1 DEF Finish
  <2>4. Rows = Without(before, M) \/ (stmt.op = "modify" /\ Rows = Updated(before, M, stmt.fld, stmt.expr))
    BY <1>0, <1>1, <2>1
  <2>. HIDE DEF P, M
  <2>5. CASE Rows = Without(before, M)
    <3>1. Table!Without(M) = Without(before, M)
      BY <1>1 DEF Table!Without, Without, ShownRows
    <3>2. Table!DeleteRows(stmt.pred)
      BY <1>0, <2>2, <2>3, <2>5, <3>1, SameCardinality DEF Table!DeleteRows, ShownRows, ShownCursors
    <3>. QED
      BY <3>2
  <2>6. CASE stmt.op = "modify" /\ Rows = Updated(before, M, stmt.fld, stmt.expr)
    <3>1. Table!Updated(M, stmt.fld, stmt.expr) = Updated(before, M, stmt.fld, stmt.expr)
      BY <1>1, SameOperators DEF Table!Updated, Updated, Changed, ShownRows
    <3>2. Table!ModifyRows(stmt.pred, stmt.fld, stmt.expr)
      BY <1>0, <2>2, <2>3, <2>6, <3>1, SameCardinality DEF Table!ModifyRows, ShownRows, ShownCursors
    <3>. QED
      BY <2>6, <3>2
  <2>. QED
    BY <2>4, <2>5, <2>6
<1>6. CASE Abandon /\ UNCHANGED pages
  <2>1. ShownCursors' = ShownCursors /\ ShownRows' = Rows /\ result' = result
    BY <1>4, <1>6 DEF Abandon, Lost
  <2>2. P \in SUBSET DOMAIN before /\ P \subseteq M
    BY DEF Passed
  <2>3. Table!Matching(stmt.pred) = M
    BY <1>1, SameOperators DEF Table!Matching, ShownRows
  <2>. HIDE DEF P, M
  <2>4. /\ Table!Without(P) = Without(before, P)
        /\ Table!Updated(P, stmt.fld, stmt.expr) = Updated(before, P, stmt.fld, stmt.expr)
    BY <1>1, SameOperators DEF Table!Without, Without, Table!Updated, Updated, Changed, ShownRows
  <2>5. stmt.op = "modify" => stmt.fld \in Field /\ stmt.expr \in Expr
    BY <1>0 DEF Stmts
  <2>6. ShownRows' = Table!Without(P)
        \/ \E f \in Field, e \in Expr : ShownRows' = Table!Updated(P, f, e)
    BY <1>0, <1>1, <2>1, <2>4, <2>5
  <2>7. Table!BrokenOff
    BY <1>0, <1>1, <2>1, <2>2, <2>3, <2>6 DEF Table!BrokenOff, ShownRows, ShownCursors
  <2>. QED
    BY <2>7
<1>. QED
  BY <1>2, <1>3, <1>5, <1>6 DEF UpdateNext

(* An insert has changed no row before its last step.                      *)
LEMMA InsertShown ==
  ASSUME ScanInv, Progress, InsertNext
  PROVE  /\ ShownRows = Rows /\ SavedRows' = SavedRows /\ stmt' = NoStmt
         /\ ShownCursors' = ShownCursors /\ ShownRows' = RowsIn(pages')
<1>1. stmt \in Stmts /\ stmt # NoStmt /\ stmt.op = "insert" /\ Update \in Scans
  BY InsertIs
<1>2. ShownRows = Rows
  BY <1>1 DEF Progress, Halfway, ShownRows
<1>3. stmt' = NoStmt /\ saved' = saved /\ scan' = [scan EXCEPT ![Update] = Closed]
  BY DEF InsertNext, Finish, Abandon, Lost
<1>4. \A s \in Scans : s # Update => scan'[s] = scan[s]
  BY <1>1, <1>3, InvTypes
<1>5. ShownRows' = RowsIn(pages')
  BY <1>3, RowsAre DEF ShownRows
<1>. QED
  BY <1>2, <1>3, <1>4, <1>5, StatementCursors, RowsAre

LEMMA FillAbstract ==
  ASSUME ScanInv, Progress, InsertNext, NEW pgs \in Seq(Page), RowsIn(pgs) = Rows,
         NEW r \in (1..Len(pgs)) \X Slots, r \in RID, r \notin DOMAIN Rows,
         pages' = Filled(r, pgs), result' = 1
  PROVE  Table!InsertRow(stmt.vals)
<1>1. stmt \in Stmts /\ stmt.op = "insert" /\ stmt.vals \in NewRow
  BY InsertIs
<1>. DEFINE v == Inserted(pgs[r[1]][r[2]])
<1>2. v \in Slot /\ pages' = SetSlot(pgs, r, v)
  BY <1>1, FilledIs
<1>3. v.flag = USED /\ v.rec \in [Field -> Value]
  BY <1>2 DEF Inserted, Slot, Record
<1>4. \A f \in DOMAIN stmt.vals : v.rec[f] = stmt.vals[f]
  <2>1. stmt.vals \in Assignment
    BY <1>1, TableAssumption
  <2>2. DOMAIN stmt.vals \subseteq Field
    BY <2>1 DEF Assignment
  <2>. QED
    BY <2>2 DEF Inserted
<1>. HIDE DEF v
<1>5. RowsIn(pages') = RowsWith(Rows, r, v.rec)
  BY <1>2, <1>3, SetSlotRows
<1>6. /\ ShownRows = Rows /\ SavedRows' = SavedRows /\ ShownCursors' = ShownCursors
      /\ ShownRows' = [q \in DOMAIN Rows \cup {r} |-> IF q = r THEN v.rec ELSE Rows[q]]
  BY <1>5, InsertShown DEF RowsWith
<1>7. /\ r \in RID \ DOMAIN ShownRows /\ v.rec \in [Field -> Value]
      /\ \A f \in DOMAIN stmt.vals : v.rec[f] = stmt.vals[f]
      /\ ShownRows' = [q \in DOMAIN ShownRows \cup {r} |-> IF q = r THEN v.rec ELSE ShownRows[q]]
  BY <1>3, <1>4, <1>6
<1>. QED
  BY <1>6, <1>7 DEF Table!InsertRow, ShownRows, ShownCursors

LEMMA InsertAbstract ==
  ASSUME ScanInv, Progress, InsertNext
  PROVE  \/ Table!InsertRow(stmt.vals)
         \/ UNCHANGED <<ShownRows, SavedRows, ShownCursors, result>>
<1>0. /\ scan[Update] \in Cursors /\ scan[Update].status # "closed" /\ Update \in Scans
      /\ pages \in Seq(Page) /\ Len(pages) \in Nat /\ TypeOK
      /\ Rows = RowsIn(pages)
  BY InsertIs, InvTypes, RowsAre
<1>. DEFINE S == {r \in RIDs : At(r).flag = EMPTY}
            new == Len(pages) + 1
<1>1. PICK to : to = EmptyAfter(scan[Update])
  OBVIOUS
<1>2. to = SearchAfter(scan[Update], S)
  BY <1>1 DEF EmptyAfter
<1>3. to[2] # 0 => to \in RIDs /\ to \in S
  <2>. HIDE DEF S
  <2>. QED
    BY <1>0, <1>2, SearchEnds
<1>4. CASE to[2] # 0 /\ pages' = Filled(to, pages) /\ Finish(1)
  <2>1. to \in (1..Len(pages)) \X Slots /\ to \in RID
    BY <1>0, <1>3, <1>4, RIDsIs DEF RIDs
  <2>2. to \notin DOMAIN Rows
    BY <1>3, <1>4 DEF Rows, Live, EMPTY, USED
  <2>3. Table!InsertRow(stmt.vals)
    BY <1>0, <1>4, <2>1, <2>2, FillAbstract DEF Finish
  <2>. QED
    BY <2>3
<1>5. CASE new \in Blocks /\ pages' = Filled(<<new, 1>>, Append(pages, Formatted)) /\ Finish(1)
  <2>1. PICK p : p = Append(pages, Formatted)
    OBVIOUS
  <2>2. PICK x \in {ZeroPage, Formatted} : x = Formatted
    OBVIOUS
  <2>3. RowsIn(p) = Rows
    BY <1>0, <2>1, <2>2, NewPageEmpty
  <2>4. p \in Seq(Page) /\ Len(p) = new
    BY <1>0, <2>1, TableTypes
  <2>5. PICK r : r = <<new, 1>>
    OBVIOUS
  <2>6. r \in (1..Len(p)) \X Slots /\ r \in RID /\ r \notin RIDs
    BY <1>0, <1>5, <2>4, <2>5, TableTypes DEF RID, RIDs
  <2>7. r \notin DOMAIN Rows
    BY <2>6, RowsKind
  <2>8. pages' = Filled(r, p)
    BY <1>5, <2>1, <2>5
  <2>9. Table!InsertRow(stmt.vals)
    BY <1>5, <2>3, <2>4, <2>6, <2>7, <2>8, FillAbstract DEF Finish
  <2>. QED
    BY <2>9
<1>6. CASE Abandon /\ UNCHANGED pages
  BY <1>0, <1>6, InsertShown DEF Abandon
<1>7. CASE pages' = Append(pages, ZeroPage) /\ Abandon
  <2>1. PICK x \in {ZeroPage, Formatted} : x = ZeroPage
    OBVIOUS
  <2>2. RowsIn(pages') = Rows
    BY <1>0, <1>7, <2>1, NewPageEmpty
  <2>. QED
    BY <1>7, <2>2, InsertShown DEF Abandon
<1>. QED
  BY <1>1, <1>4, <1>5, <1>6, <1>7 DEF InsertNext

LEMMA EndAbstract ==
  ASSUME ScanInv, Commit \/ Rollback \/ Crash
  PROVE  Table!KeepRows \/ Table!ForgetRows
<1>1. EndTx
  BY DEF Commit, Rollback, Crash
<1>2. /\ scan' = [s \in Scans |-> Closed] /\ stmt' = NoStmt /\ result' = result
      /\ ShownRows' = RowsIn(pages')
  BY <1>1, RowsAre DEF EndTx, ShownRows
<1>3. ShownCursors' = [r \in Reader |-> Table!Closed]
  <2>1. Reader \subseteq Scans
    BY DEF Scans
  <2>2. \A r \in Reader : scan'[r] = Closed
    BY <1>2, <2>1
  <2>3. \A r \in Reader : Cursor(r)' = Shown(Closed)
    BY <2>2 DEF Cursor, Shown
  <2>. QED
    BY <2>3, ShownIs DEF ShownCursors
<1>4. CASE Commit
  <2>1. saved' = pages /\ pages' = pages /\ stmt = NoStmt
    BY <1>4 DEF Commit, Idle
  <2>2. ShownRows = Rows /\ ShownRows' = ShownRows /\ SavedRows' = ShownRows
    BY <1>2, <2>1, RowsAre DEF ShownRows
  <2>3. Table!KeepRows
    BY <1>2, <1>3, <2>2 DEF Table!KeepRows, ShownRows, ShownCursors
  <2>. QED
    BY <2>3
<1>5. ASSUME saved' = saved, RowsIn(pages') = RowsIn(saved) PROVE Table!ForgetRows
  <2>1. ShownRows' = SavedRows /\ SavedRows' = SavedRows
    BY <1>2, <1>5, RowsAre
  <2>. QED
    BY <1>2, <1>3, <2>1 DEF Table!ForgetRows, ShownRows, ShownCursors
<1>6. CASE Rollback
  <2>1. PICK Z : Z = {}
    OBVIOUS
  <2>2. /\ saved' = saved
        /\ pages' = [b \in 1..Len(pages) |-> IF b <= Len(saved) THEN saved[b] ELSE Formatted]
    BY <1>6 DEF Rollback
  <2>3. pages' = [b \in 1..Len(pages) |-> IF b <= Len(saved) THEN saved[b]
                                          ELSE IF b \in Z THEN ZeroPage ELSE Formatted]
    BY <2>1, <2>2
  <2>4. RowsIn(pages') = RowsIn(saved)
    BY <2>3, UndoneRows
  <2>. QED
    BY <1>5, <2>2, <2>4
<1>7. CASE Crash
  <2>1. PICK Z : pages' = [b \in 1..Len(pages) |-> IF b <= Len(saved) THEN saved[b]
                                          ELSE IF b \in Z THEN ZeroPage ELSE Formatted]
    BY <1>7 DEF Crash
  <2>2. RowsIn(pages') = RowsIn(saved) /\ saved' = saved
    BY <1>7, <2>1, UndoneRows DEF Crash
  <2>. QED
    BY <1>5, <2>2
<1>. QED
  BY <1>4, <1>6, <1>7

(* A table in pages, with cursors that pin blocks and statements that go   *)
(* through it slot by slot, is a relation: a statement that finishes has   *)
(* changed exactly the rows it names and returns their number, a reader    *)
(* goes from row to row in order, and a rollback or a crash brings the     *)
(* rows of the latest commit back, whatever the numbers of blocks, slots,  *)
(* readers and values.                                                     *)
THEOREM PagesAreARelation == Spec => ImplementsRelation
<1>1. Init => Table!RelationInit
  <2>. SUFFICES ASSUME Init
                PROVE  /\ ShownRows = << >> /\ SavedRows = << >> /\ result = 0
                       /\ ShownCursors = [r \in Reader |-> Table!Closed]
    BY DEF Table!RelationInit, ShownRows, ShownCursors
  <2>1. pages = << >> /\ saved = << >> /\ scan = [s \in Scans |-> Closed] /\ stmt = NoStmt /\ result = 0
    BY DEF Init
  <2>2. ShownRows = << >> /\ SavedRows = << >>
    BY <2>1, NoRows, RowsAre DEF ShownRows
  <2>3. \A r \in Reader : scan[r] = Closed
    BY <2>1 DEF Scans
  <2>4. \A r \in Reader : Cursor(r) = Table!Closed
    BY <2>3, ShownIs
  <2>. QED
    BY <2>1, <2>2, <2>4 DEF ShownCursors
<1>2. ScanInv /\ Progress /\ [Next]_vars => [Table!RelationNext]_(Table!relationVars)
  <2>. SUFFICES ASSUME ScanInv, Progress, [Next]_vars
                PROVE  \/ Table!RelationNext
                       \/ UNCHANGED <<ShownRows, SavedRows, ShownCursors, result>>
    BY DEF Table!relationVars, ShownRows, ShownCursors
  <2>1. CASE Statement
    <3>1. PICK st \in Stmts : Begin(st)
      BY <2>1, BeginShape
    <3>2. Idle /\ ShownRows = Rows
      BY <3>1 DEF Begin, ShownRows, Idle
    <3>3. CASE Open(Update) /\ stmt' = st /\ before' = Rows /\ UNCHANGED <<saved, result>>
      <4>1. \A s \in Scans : s # Update => scan'[s] = scan[s]
        BY <3>3, InvTypes DEF Open
      <4>2. ShownRows' = Rows
        BY <3>3, StmtTypes DEF ShownRows
      <4>. QED
        BY <3>2, <3>3, <4>1, <4>2, StatementCursors, RowsAre
    <3>4. CASE OpenFails(Update)
      <4>1. /\ UNCHANGED <<saved, scan, stmt, result>>
            /\ pages' = IF pages = << >> THEN <<ZeroPage>> ELSE pages
        BY <3>4 DEF OpenFails
      <4>2. PICK x \in {ZeroPage, Formatted} : x = ZeroPage
        OBVIOUS
      <4>3. Rows' = Rows
        BY <4>1, <4>2, OpenRows
      <4>4. ShownRows' = ShownRows
        BY <3>2, <4>1, <4>3 DEF ShownRows, Idle
      <4>. QED
        BY <4>1, <4>4, StatementCursors, RowsAre
    <3>. QED
      BY <3>1, <3>3, <3>4 DEF Begin
  <2>2. CASE UpdateNext
    <3>1. stmt.pred \in Pred /\ stmt \in Stmts
      BY <2>2, UpdateIs
    <3>2. stmt.op = "modify" => stmt.fld \in Field /\ stmt.expr \in Expr
      BY <3>1 DEF Stmts
    <3>. QED
      BY <2>2, <3>1, <3>2, UpdateAbstract DEF Table!RelationNext
  <2>3. CASE InsertNext
    <3>1. stmt.vals \in NewRow
      BY <2>3, InsertIs
    <3>. QED
      BY <2>3, <3>1, InsertAbstract DEF Table!RelationNext
  <2>4. ASSUME NEW r \in Reader, Read(r)
        PROVE  \/ Table!RelationNext
               \/ UNCHANGED <<ShownRows, SavedRows, ShownCursors, result>>
    BY <2>4, ReadAbstract DEF Table!RelationNext
  <2>5. CASE Commit \/ Rollback \/ Crash
    BY <2>5, EndAbstract DEF Table!RelationNext
  <2>6. CASE UNCHANGED vars
    BY <2>6, RowsAre DEF vars, ShownRows, ShownCursors, Cursor
  <2>. QED
    BY <2>1, <2>2, <2>3, <2>4, <2>5, <2>6 DEF Next
<1>. QED
  BY <1>1, <1>2, ProgressInvariant, PTL DEF Spec, ImplementsRelation, Table!RelationSpec
=============================================================================
