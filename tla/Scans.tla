------------------------------- MODULE Scans -------------------------------
(***************************************************************************)
(* The scans queries are answered with, as a recursive algebra of cursors: *)
(* table, select, project and product scans (src/query) and the sort,      *)
(* merge join and group scans over temporary tables (src/materialize).     *)
(*                                                                         *)
(* A scan is a record; Advance is next(), which returns whether there is a *)
(* row and the scan afterwards; Row is what get_val reads for each field.  *)
(* A table does not change while a scan is open, and is its sequence of    *)
(* rows.  Reading a field of a scan without a current row throws: such a   *)
(* field is missing from Row, and a scan that threw is Failed for ever.    *)
(***************************************************************************)
EXTENDS Integers, Sequences, SequencesExt

CONSTANT RowsPerBlock     \* rows of a block of a table

RECURSIVE BeforeFirst(_), Advance(_), Row(_), HasFailed(_)

NoRow  == << >>
Failed == [kind |-> "failed"]
NoScan == [kind |-> "none"]        \* a null pointer

Step(more, s) == [more |-> more, scan |-> s]

(* A predicate is a set of terms <<field, expression>>. *)
Fld(f)        == [field |-> f]
Const(v)      == [const |-> v]
IsField(e)    == DOMAIN e = {"field"}
Fields(pred)  == {t[1] : t \in pred} \cup {t[2].field : t \in {u \in pred : IsField(u[2])}}
Value(row, e) == IF IsField(e) THEN row[e.field] ELSE e.const
Satisfied(row, pred) == \A t \in pred : row[t[1]] = Value(row, t[2])

(* RecordComparator::compare(r, s) < 0 by the fields in turn. *)
Precedes(r, s, fields) ==
    \E k \in DOMAIN fields :
        /\ r[fields[k]] < s[fields[k]]
        /\ \A j \in 1..k-1 : r[fields[j]] = s[fields[j]]

----------------------------------------------------------------------------
(* TableScan.  After the end it stands before the first slot of the last   *)
(* block, where another next() would go on.                                *)
TableOf(rows) == [kind |-> "table", rows |-> rows, at |-> 0, on |-> FALSE]

LastBlock(rows) == IF rows = << >> THEN 0
                   ELSE ((Len(rows) - 1) \div RowsPerBlock) * RowsPerBlock

TableNext(s) ==
    IF s.at < Len(s.rows)
    THEN Step(TRUE, [s EXCEPT !.at = @ + 1, !.on = TRUE])
    ELSE Step(FALSE, [s EXCEPT !.at = LastBlock(s.rows), !.on = FALSE])

(* get_rid and move_to_rid. *)
RID(s)          == IF s.kind = "table" /\ s.on THEN s.at ELSE 0
MoveToRID(s, k) == IF k = 0 THEN s ELSE [s EXCEPT !.at = k, !.on = TRUE]

----------------------------------------------------------------------------
SelectOf(s, pred) == [kind |-> "select", sub |-> s, pred |-> pred]

RECURSIVE SelectNext(_)
SelectNext(s) ==
    LET n == Advance(s.sub)
        t == [s EXCEPT !.sub = n.scan]
    IN  IF ~n.more THEN Step(FALSE, t)
        ELSE IF ~(Fields(s.pred) \subseteq DOMAIN Row(n.scan)) THEN Step(FALSE, Failed)
        ELSE IF Satisfied(Row(n.scan), s.pred) THEN Step(TRUE, t)
        ELSE SelectNext(t)

ProjectOf(s, fields) == [kind |-> "project", sub |-> s, fields |-> fields]

ProjectNext(s) == LET n == Advance(s.sub)
                  IN  Step(n.more, [s EXCEPT !.sub = n.scan])

----------------------------------------------------------------------------
(* Mutant: the first scan is not advanced to its first row. *)
ProductFirstIdle(s) == [s EXCEPT !.s1 = BeforeFirst(s.s1), !.s2 = BeforeFirst(s.s2)]

(* ProductScan: the constructor runs before_first, which ignores whether   *)
(* the first scan has a row.                                               *)
ProductFirst(s) == [s EXCEPT !.s1 = Advance(BeforeFirst(s.s1)).scan,
                             !.s2 = BeforeFirst(s.s2)]

ProductOf(s1, s2) == ProductFirst([kind |-> "product", s1 |-> s1, s2 |-> s2])

ProductNext(s) ==
    LET n2 == Advance(s.s2)
    IN  IF n2.more THEN Step(TRUE, [s EXCEPT !.s2 = n2.scan])
        ELSE LET again == Advance(BeforeFirst(n2.scan))
                 n1 == Advance(s.s1)
             IN  IF again.more THEN Step(n1.more, [s EXCEPT !.s1 = n1.scan, !.s2 = again.scan])
                               ELSE Step(FALSE, [s EXCEPT !.s2 = again.scan])

----------------------------------------------------------------------------
(* Mutant: the current run is not forgotten. *)
SortFirstSame(s) ==
    LET n1 == Advance(BeforeFirst(s.s1))
        n2 == Advance(BeforeFirst(s.s2))
    IN  [s EXCEPT !.s1 = n1.scan, !.more1 = n1.more, !.s2 = n2.scan, !.more2 = n2.more]

(* SortScan: at most two runs, each already advanced to its next row; idx  *)
(* says which of them has the current row.                                 *)
SortFirst(s) ==
    LET n1 == Advance(BeforeFirst(s.s1))
        n2 == Advance(BeforeFirst(s.s2))
    IN  [s EXCEPT !.idx = 0, !.s1 = n1.scan, !.more1 = n1.more,
                             !.s2 = n2.scan, !.more2 = n2.more]

SortOf(runs, fields) ==
    LET run(k) == IF k <= Len(runs) THEN TableOf(runs[k]) ELSE NoScan
    IN  SortFirst([kind |-> "sort", fields |-> fields, s1 |-> run(1), s2 |-> run(2),
                   more1 |-> FALSE, more2 |-> FALSE, idx |-> 0, saved |-> <<0, 0>>])

SortNext(s) ==
    LET n1 == IF s.idx = 1 THEN Advance(s.s1) ELSE Step(s.more1, s.s1)
        n2 == IF s.idx = 2 THEN Advance(s.s2) ELSE Step(s.more2, s.s2)
        pick == IF n1.more /\ n2.more
                THEN IF Precedes(Row(n1.scan), Row(n2.scan), s.fields) THEN 1 ELSE 2
                ELSE IF n1.more THEN 1 ELSE IF n2.more THEN 2 ELSE s.idx
    IN  Step(n1.more \/ n2.more,
             [s EXCEPT !.s1 = n1.scan, !.more1 = n1.more,
                       !.s2 = n2.scan, !.more2 = n2.more, !.idx = pick])

SavePosition(s) == [s EXCEPT !.saved = <<RID(s.s1), RID(s.s2)>>]

(* The rows move back; idx and the two flags stay as they are. *)
RestorePosition(s) == [s EXCEPT !.s1 = MoveToRID(@, s.saved[1]),
                                !.s2 = MoveToRID(@, s.saved[2])]

----------------------------------------------------------------------------
(* MergeJoinScan of a sorted scan and a SortScan.  joinval is <<>> or <<v>>. *)
JoinOf(s1, s2, f1, f2) ==
    [kind |-> "join", s1 |-> s1, s2 |-> s2, f1 |-> f1, f2 |-> f2, joinval |-> << >>]

(* The loop that looks for the next pair of equal values. *)
RECURSIVE JoinSearch(_, _, _)
JoinSearch(s, n1, n2) ==
    LET v1 == Row(n1.scan)[s.f1]
        v2 == Row(n2.scan)[s.f2]
    IN  IF ~(n1.more /\ n2.more) THEN Step(FALSE, [s EXCEPT !.s1 = n1.scan, !.s2 = n2.scan])
        ELSE IF v1 < v2 THEN JoinSearch(s, Advance(n1.scan), n2)
        ELSE IF v1 > v2 THEN JoinSearch(s, n1, Advance(n2.scan))
        ELSE Step(TRUE, [s EXCEPT !.s1 = n1.scan, !.s2 = SavePosition(n2.scan),
                                  !.joinval = <<v2>>])

JoinNext(s) ==
    LET n2 == Advance(s.s2)
        n1 == Advance(s.s1)
        matches(n, f) == n.more /\ s.joinval = <<Row(n.scan)[f]>>
    IN  IF matches(n2, s.f2) THEN Step(TRUE, [s EXCEPT !.s2 = n2.scan])
        ELSE IF matches(n1, s.f1)
             THEN Step(TRUE, [s EXCEPT !.s1 = n1.scan, !.s2 = RestorePosition(n2.scan)])
        ELSE JoinSearch(s, n1, n2)

----------------------------------------------------------------------------
(* GroupByScan over a sorted scan, with CountFn and MaxFn of one field.    *)
GroupFirst(s) == LET n == Advance(BeforeFirst(s.sub))
                 IN  [s EXCEPT !.sub = n.scan, !.more = n.more]

GroupOf(sub, fields, maxfield) ==
    GroupFirst([kind |-> "group", sub |-> sub, fields |-> fields, maxfield |-> maxfield,
                more |-> FALSE, val |-> NoRow, count |-> 0, max |-> 0])

GroupValue(row, fields) == [f \in ToSet(fields) |-> row[f]]

RECURSIVE GroupLoop(_)
GroupLoop(s) ==
    LET n == Advance(s.sub)
        t == [s EXCEPT !.sub = n.scan]
    IN  IF ~n.more THEN [t EXCEPT !.more = FALSE]
        ELSE IF GroupValue(Row(n.scan), s.fields) # s.val THEN [t EXCEPT !.more = TRUE]
        ELSE GroupLoop([t EXCEPT !.count = @ + 1,
                                 !.max = IF Row(n.scan)[s.maxfield] > @
                                         THEN Row(n.scan)[s.maxfield] ELSE @])

GroupNext(s) ==
    IF ~s.more THEN Step(FALSE, s)
    ELSE LET row == Row(s.sub)
         IN  Step(TRUE, GroupLoop([s EXCEPT !.val = GroupValue(row, s.fields),
                                            !.count = 1, !.max = row[s.maxfield]]))

----------------------------------------------------------------------------
BeforeFirst(s) ==
    CASE s.kind = "table"   -> TableOf(s.rows)
      [] s.kind = "product" -> ProductFirst(s)
      [] s.kind = "sort"    -> IF s.s1 = NoScan THEN Failed ELSE SortFirst(s)
      [] s.kind = "join"    -> [s EXCEPT !.s1 = BeforeFirst(@), !.s2 = BeforeFirst(@)]
      [] s.kind = "group"   -> GroupFirst(s)
      [] s.kind \in {"select", "project"} -> [s EXCEPT !.sub = BeforeFirst(@)]
      [] OTHER              -> s

Advance(s) ==
    CASE s.kind = "table"   -> TableNext(s)
      [] s.kind = "select"  -> SelectNext(s)
      [] s.kind = "project" -> ProjectNext(s)
      [] s.kind = "product" -> ProductNext(s)
      [] s.kind = "sort"    -> SortNext(s)
      [] s.kind = "join"    -> JoinNext(s)
      [] s.kind = "group"   -> GroupNext(s)
      [] OTHER              -> Step(FALSE, s)

(* Fields of both scans read from the first one. *)
Both(r1, r2) == [f \in DOMAIN r1 \cup DOMAIN r2 |-> IF f \in DOMAIN r1 THEN r1[f] ELSE r2[f]]

Row(s) ==
    CASE s.kind = "table"   -> IF s.on THEN s.rows[s.at] ELSE NoRow
      [] s.kind = "select"  -> Row(s.sub)
      [] s.kind = "project" -> LET row == Row(s.sub)
                               IN  [f \in ToSet(s.fields) \cap DOMAIN row |-> row[f]]
      [] s.kind = "sort"    -> IF s.idx = 0 THEN NoRow ELSE Row(IF s.idx = 1 THEN s.s1 ELSE s.s2)
      [] s.kind = "group"   -> Both(s.val, [count |-> s.count, max |-> s.max])
      [] s.kind \in {"product", "join"} -> Both(Row(s.s1), Row(s.s2))
      [] OTHER              -> NoRow

Children(s) == CASE s.kind \in {"select", "project", "group"} -> {s.sub}
                 [] s.kind \in {"product", "join"} -> {s.s1, s.s2}
                 [] OTHER -> {}

HasFailed(s) == s = Failed \/ \E c \in Children(s) : HasFailed(c)

(* close() of a sort scan without runs goes through a null pointer. *)
RECURSIVE CloseFails(_)
CloseFails(s) == \/ s.kind = "sort" /\ s.s1 = NoScan
                 \/ \E c \in Children(s) : CloseFails(c)
============================================================================
