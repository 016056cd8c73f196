------------------------------ MODULE Queries ------------------------------
(***************************************************************************)
(* A query from its plan to its last row.  The plan of an SQL query is     *)
(* made by BasicQueryPlanner or by HeuristicQueryPlanner (tables only, one *)
(* at a time, in whatever order its estimates suggest: they come from      *)
(* cached statistics and may be any number); callers build other plans.    *)
(* The client then opens it, fetches row after row until next() returns    *)
(* false, may go back to the beginning once at any moment, and closes it.  *)
(***************************************************************************)
EXTENDS Scans, FiniteSets

CONSTANTS Contents,   \* what the tables may contain: functions name -> rows
          Schema,     \* the fields of every table
          View,       \* the query that defines each view
          Sql,        \* queries [tables, pred, fields]
          Algebra     \* plans built by callers

VARIABLES tables,    \* the rows of every table
          query,     \* an SQL query, or no query when the caller has a plan
          left,      \* tableplanners_: the tables with no place in the plan yet
          plan, scan,
          phase,
          out,       \* rows fetched
          earlier    \* rows fetched before the client went back, in a 1-tuple

vars == <<tables, query, left, plan, scan, phase, out, earlier>>

NoQuery == [tables |-> << >>, pred |-> {}, fields |-> << >>]
NoPlan  == [op |-> "none"]

TablePlan(name)       == [op |-> "table", name |-> name]
SelectPlan(p, pred)   == [op |-> "select", sub |-> p, pred |-> pred]
ProjectPlan(p, flds)  == [op |-> "project", sub |-> p, fields |-> flds]
ProductPlan(p1, p2)   == [op |-> "product", p1 |-> p1, p2 |-> p2]
MaterializePlan(p)    == [op |-> "materialize", sub |-> p]
SortPlan(p, flds)     == [op |-> "sort", sub |-> p, fields |-> flds]
GroupByPlan(p, flds, max) == [op |-> "group", sub |-> SortPlan(p, flds), fields |-> flds, max |-> max]
MergeJoinPlan(p1, p2, f1, f2) ==
    [op |-> "join", p1 |-> SortPlan(p1, <<f1>>), p2 |-> SortPlan(p2, <<f2>>), f1 |-> f1, f2 |-> f2]

RECURSIVE PlanSchema(_)
PlanSchema(p) ==
    CASE p.op = "table"   -> Schema[p.name]
      [] p.op = "project" -> ToSet(p.fields)
      [] p.op = "group"   -> ToSet(p.fields) \cup {"count", "max"}
      [] p.op \in {"product", "join"} -> PlanSchema(p.p1) \cup PlanSchema(p.p2)
      [] OTHER -> PlanSchema(p.sub)

----------------------------------------------------------------------------
(* Planning.  BasicQueryPlanner expands views, multiplies from left to     *)
(* right, selects and projects.                                            *)
RECURSIVE BasicPlan(_)
BasicPlan(q) ==
    LET input(name) == IF name \in DOMAIN View THEN BasicPlan(View[name]) ELSE TablePlan(name)
        product == FoldLeft(LAMBDA p, name : ProductPlan(p, input(name)),
                            input(Head(q.tables)), Tail(q.tables))
    IN  ProjectPlan(SelectPlan(product, q.pred), q.fields)

(* TablePlanner: the terms one table decides, and the terms that only two  *)
(* inputs together decide.                                                 *)
AppliesTo(t, sch) == Fields({t}) \subseteq sch
SelectPred(pred, sch) == {t \in pred : AppliesTo(t, sch)}
(* Mutant: a term of one of the inputs does for a term of both. *)
JoinPredLoose(pred, sch1, sch2) ==
    {t \in pred : AppliesTo(t, sch1 \cup sch2) /\ AppliesTo(t, sch2)}

JoinPred(pred, sch1, sch2) ==
    {t \in pred : /\ ~AppliesTo(t, sch1) /\ ~AppliesTo(t, sch2)
                  /\ AppliesTo(t, sch1 \cup sch2)}

WithPred(p, pred) == IF pred = {} THEN p ELSE SelectPlan(p, pred)

MakeSelectPlan(name) == WithPred(TablePlan(name), SelectPred(query.pred, Schema[name]))
Joinable(name) == JoinPred(query.pred, Schema[name], PlanSchema(plan)) # {}

CreatePlan ==
    /\ phase = "new"
    /\ plan' = BasicPlan(query)
    /\ phase' = "planned"
    /\ UNCHANGED <<tables, query, left, scan, out, earlier>>

(* HeuristicQueryPlanner never asks for a view: it makes a TablePlanner of *)
(* every name, each time it is named, which throws for what is no table.   *)
AllTables == ToSet(query.tables) \subseteq DOMAIN Schema

TablePlannerThrows ==
    /\ phase = "new" /\ ~AllTables
    /\ phase' = "threw"
    /\ UNCHANGED <<tables, query, left, plan, scan, out, earlier>>

LowestSelectPlan(i) ==
    /\ phase = "new" /\ AllTables
    /\ plan' = MakeSelectPlan(query.tables[i])
    /\ left' = RemoveAt(query.tables, i)
    /\ phase' = "joining"
    /\ UNCHANGED <<tables, query, scan, out, earlier>>

LowestJoinPlan(i) ==
    /\ phase = "joining" /\ Joinable(left[i])
    /\ plan' = WithPred(ProductPlan(plan, MakeSelectPlan(left[i])),
                        JoinPred(query.pred, PlanSchema(plan), Schema[left[i]]))
    /\ left' = RemoveAt(left, i)
    /\ UNCHANGED <<tables, query, scan, phase, out, earlier>>

LowestProductPlan(i) ==
    /\ phase = "joining" /\ ~\E j \in DOMAIN left : Joinable(left[j])
    /\ plan' = ProductPlan(plan, MakeSelectPlan(left[i]))
    /\ left' = RemoveAt(left, i)
    /\ UNCHANGED <<tables, query, scan, phase, out, earlier>>

ProjectLast ==
    /\ phase = "joining" /\ left = << >>
    /\ plan' = ProjectPlan(plan, query.fields)
    /\ phase' = "planned"
    /\ UNCHANGED <<tables, query, left, scan, out, earlier>>

----------------------------------------------------------------------------
(* Mutant: never a new run. *)
OneRun(rows, fields) == IF rows = << >> THEN << >> ELSE <<rows>>

(* SortPlan::open: split_into_runs, then merge iterations while there are  *)
(* more than two runs.                                                     *)
SplitIntoRuns(rows, fields) ==
    FoldLeft(LAMBDA runs, row :
                IF runs = << >> \/ Precedes(row, Last(Last(runs)), fields)
                THEN Append(runs, <<row>>)
                ELSE [runs EXCEPT ![Len(runs)] = Append(@, row)],
             << >>, rows)

MergeTwoRuns(r1, r2, fields) ==
    LET rest[i \in 1..Len(r1) + 1, j \in 1..Len(r2) + 1] ==
            IF i > Len(r1) THEN SubSeq(r2, j, Len(r2))
            ELSE IF j > Len(r2) THEN SubSeq(r1, i, Len(r1))
            ELSE IF Precedes(r1[i], r2[j], fields) THEN <<r1[i]>> \o rest[i + 1, j]
                                                   ELSE <<r2[j]>> \o rest[i, j + 1]
    IN  rest[1, 1]

(* Mutant: the last run of an odd number is left out. *)
MergeIterationEven(runs, fields) ==
    [k \in 1..Len(runs) \div 2 |-> MergeTwoRuns(runs[2 * k - 1], runs[2 * k], fields)]

MergeIteration(runs, fields) ==
    [k \in 1..(Len(runs) + 1) \div 2 |->
        IF 2 * k <= Len(runs) THEN MergeTwoRuns(runs[2 * k - 1], runs[2 * k], fields)
                              ELSE runs[2 * k - 1]]

RECURSIVE AtMostTwo(_, _)
AtMostTwo(runs, fields) ==
    IF Len(runs) > 2 THEN AtMostTwo(MergeIteration(runs, fields), fields) ELSE runs

(* All rows a scan still has, copied field by field, and the scan after    *)
(* the last one.                                                           *)
RECURSIVE Drain(_, _, _)
Drain(s, rows, fields) ==
    LET n == Advance(s)
    IN  IF n.more /\ DOMAIN Row(n.scan) # fields THEN [rows |-> rows, scan |-> Failed]
        ELSE IF n.more THEN Drain(n.scan, Append(rows, Row(n.scan)), fields)
        ELSE [rows |-> rows, scan |-> n.scan]

RECURSIVE OpenScan(_)
OpenScan(p) ==
    CASE p.op = "table"   -> TableOf(tables[p.name])
      [] p.op = "select"  -> SelectOf(OpenScan(p.sub), p.pred)
      [] p.op = "project" -> ProjectOf(OpenScan(p.sub), p.fields)
      [] p.op = "product" -> ProductOf(OpenScan(p.p1), OpenScan(p.p2))
      [] p.op = "group"   -> GroupOf(OpenScan(p.sub), p.fields, p.max)
      [] p.op = "join"    -> JoinOf(OpenScan(p.p1), OpenScan(p.p2), p.f1, p.f2)
      [] p.op = "materialize" ->
            LET src == Drain(OpenScan(p.sub), << >>, PlanSchema(p))
            IN  IF HasFailed(src.scan) THEN Failed ELSE TableOf(src.rows)
      [] p.op = "sort" ->
            LET src == Drain(BeforeFirst(OpenScan(p.sub)), << >>, PlanSchema(p))
            IN  IF HasFailed(src.scan) THEN Failed
                ELSE SortOf(AtMostTwo(SplitIntoRuns(src.rows, p.fields), p.fields), p.fields)

----------------------------------------------------------------------------
(* The client. *)
Init == /\ tables \in Contents
        /\ \/ query \in Sql /\ plan = NoPlan /\ phase = "new"
           \/ query = NoQuery /\ plan \in Algebra /\ phase = "planned"
        /\ left = << >> /\ scan = NoScan /\ out = << >> /\ earlier = << >>

Open == /\ phase = "planned"
        /\ scan' = OpenScan(plan)
        /\ phase' = IF HasFailed(scan') THEN "threw" ELSE "open"
        /\ UNCHANGED <<tables, query, left, plan, out, earlier>>

Fetch ==
    /\ phase = "open"
    /\ LET n == Advance(scan)
       IN  /\ scan' = n.scan
           /\ \/ /\ HasFailed(n.scan) \/ (n.more /\ DOMAIN Row(n.scan) # PlanSchema(plan))
                 /\ phase' = "threw"
                 /\ UNCHANGED out
              \/ /\ ~HasFailed(n.scan) /\ n.more /\ DOMAIN Row(n.scan) = PlanSchema(plan)
                 /\ out' = Append(out, Row(n.scan))
                 /\ UNCHANGED phase
              \/ /\ ~HasFailed(n.scan) /\ ~n.more
                 /\ phase' = "end"
                 /\ UNCHANGED out
    /\ UNCHANGED <<tables, query, left, plan, earlier>>

Again == /\ phase \in {"open", "end"} /\ earlier = << >>
         /\ scan' = BeforeFirst(scan)
         /\ phase' = IF HasFailed(scan') THEN "threw" ELSE "open"
         /\ earlier' = <<out>>
         /\ out' = << >>
         /\ UNCHANGED <<tables, query, left, plan>>

Close == /\ phase \in {"open", "end"}
         /\ phase' = IF CloseFails(scan) THEN "threw" ELSE "closed"
         /\ UNCHANGED <<tables, query, left, plan, scan, out, earlier>>

Next == \/ CreatePlan \/ TablePlannerThrows \/ ProjectLast
        \/ \E i \in DOMAIN query.tables : LowestSelectPlan(i)
        \/ \E i \in DOMAIN left : LowestJoinPlan(i) \/ LowestProductPlan(i)
        \/ Open \/ Fetch \/ Again \/ Close

Spec == Init /\ [][Next]_vars

----------------------------------------------------------------------------
(* What plans and queries mean: relational algebra over the tables' rows.  *)
Times(R, S) == FlattenSeq([i \in DOMAIN R |-> [j \in DOMAIN S |-> Both(R[i], S[j])]])
Where(R, pred) == SelectSeq(R, LAMBDA row : Satisfied(row, pred))
Onto(R, flds) == [i \in DOMAIN R |-> [f \in ToSet(flds) |-> R[i][f]]]

Groups(R, flds, f) ==
    LET members(g) == {i \in DOMAIN R : GroupValue(R[i], flds) = g}
        largest(I) == CHOOSE m \in {R[i][f] : i \in I} : \A i \in I : R[i][f] <= m
    IN  {Both(g, [count |-> Cardinality(members(g)), max |-> largest(members(g))]) :
            g \in {GroupValue(R[i], flds) : i \in DOMAIN R}}

RECURSIVE Meaning(_)
Meaning(p) ==
    CASE p.op = "table"   -> tables[p.name]
      [] p.op = "select"  -> Where(Meaning(p.sub), p.pred)
      [] p.op = "project" -> Onto(Meaning(p.sub), p.fields)
      [] p.op = "product" -> Times(Meaning(p.p1), Meaning(p.p2))
      [] p.op = "join"    -> Where(Times(Meaning(p.p1), Meaning(p.p2)), {<<p.f1, Fld(p.f2)>>})
      [] p.op = "group"   -> SetToSeq(Groups(Meaning(p.sub), p.fields, p.max))
      [] OTHER            -> Meaning(p.sub)

RECURSIVE QueryMeaning(_)
QueryMeaning(q) ==
    LET input(name) == IF name \in DOMAIN View THEN QueryMeaning(View[name]) ELSE tables[name]
        all[n \in Nat] == IF n = 1 THEN input(q.tables[1])
                          ELSE Times(all[n - 1], input(q.tables[n]))
    IN  Onto(Where(all[Len(q.tables)], q.pred), q.fields)

Count(row, R) == Cardinality({i \in DOMAIN R : R[i] = row})
SameRows(R, S) == Len(R) = Len(S) /\ \A i \in DOMAIN R : Count(R[i], R) = Count(R[i], S)

(* Inputs the scans do not handle: a product whose first input has no row, *)
(* a sort of nothing, and a merge join that goes back over two runs of     *)
(* equal values or starts over.                                            *)
RECURSIVE EmptyFirst(_), EmptySort(_), GoesBack(_)
Subplans(p) == CASE p.op \in {"product", "join"} -> {p.p1, p.p2}
                 [] p.op \in {"table", "none"} -> {}
                 [] OTHER -> {p.sub}
EmptyFirst(p) == \/ p.op = "product" /\ Meaning(p.p1) = << >>
                 \/ \E q \in Subplans(p) : EmptyFirst(q)
EmptySort(p)  == \/ p.op = "sort" /\ Meaning(p.sub) = << >>
                 \/ \E q \in Subplans(p) : EmptySort(q)
GoesBack(p)   == \/ /\ p.op = "join"
                    /\ \/ earlier # << >>
                       \/ /\ Len(SplitIntoRuns(Meaning(p.p2), <<p.f2>>)) > 1
                          /\ \E i, j \in DOMAIN Meaning(p.p1) :
                               i # j /\ Meaning(p.p1)[i][p.f1] = Meaning(p.p1)[j][p.f1]
                 \/ \E q \in Subplans(p) : GoesBack(q)

Handled == ~(EmptyFirst(plan) \/ EmptySort(plan) \/ GoesBack(plan))

(* Every plan that a planner finishes means what the query says, whatever  *)
(* order the heuristic chose: no term of the predicate is lost or applied  *)
(* too early, and BasicQueryPlanner expands views.  Not of a query that    *)
(* names a table twice, so that no row has a field for each: a term is     *)
(* then one of the first (basic), or of both (heuristic).                  *)
NamesOnce(q) == \A i, j \in DOMAIN q.tables : q.tables[i] = q.tables[j] => i = j

PlanMeansQuery ==
    phase \notin {"new", "joining"} /\ plan # NoPlan /\ query # NoQuery /\ NamesOnce(query)
        => SameRows(Meaning(plan), QueryMeaning(query))

(* A fetch to the end returns exactly the rows the plan means, each as     *)
(* often as it should, for inputs that are handled.                        *)
AnswersExact == phase = "end" /\ Handled => SameRows(out, Meaning(plan))

(* Sorted plans come out in order, at every moment of the fetch, although  *)
(* the scan merges the last two runs while it is read.                     *)
OutputSorted ==
    plan.op = "sort" => \A i \in 1..Len(out) - 1 : ~Precedes(out[i + 1], out[i], plan.fields)

(* Going back gives the same rows in the same order, wherever the client   *)
(* stopped the first time.                                                 *)
SecondPassSame ==
    earlier # << >> /\ Handled
        => \A i \in DOMAIN out \cap DOMAIN earlier[1] : out[i] = earlier[1][i]

(* No query that has a plan, and is handled, reads a scan without a row or *)
(* a field that its row does not have.                                     *)
NothingThrown == phase = "threw" /\ plan # NoPlan => ~Handled

(* Every planned SQL query is answered exactly.  productscan.hpp:8 says    *)
(* that a ProductScan "computes the Cartesian product of two scans"; it    *)
(* returns rows when the first of them has none.                           *)
ProductsExact == phase \in {"end", "threw"} /\ query # NoQuery /\ plan # NoPlan
                     => phase = "end" /\ SameRows(out, Meaning(plan))
============================================================================
