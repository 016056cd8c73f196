----------------------------- MODULE MCQueries -----------------------------
(* Two tables with a key each and a row number that tells equal keys       *)
(* apart, and a third one for three-way joins.  One query names a table    *)
(* twice, and one a view.                                                  *)
EXTENDS Queries

CONSTANTS MaxRows    \* of the table that is sorted and grouped

Keyed(key, id, n, keys) ==
    UNION {{[i \in 1..k |-> [f \in {key, id} |-> IF f = key THEN s[i] ELSE i]] :
               s \in [1..k -> keys]} : k \in 0..n}

MCContents ==
    {[T |-> t, U |-> <<[b |-> 1, y |-> 1], [b |-> 2, y |-> 2]>>, V |-> << >>] :
        t \in Keyed("a", "x", MaxRows, 1..3)}
    \cup {[T |-> t, U |-> u, V |-> v] :
        t \in Keyed("a", "x", 3, 1..2), u \in Keyed("b", "y", 2, 1..2),
        v \in {<< >>, <<[c |-> 1], [c |-> 2]>>}}
MCSchema == [T |-> {"a", "x"}, U |-> {"b", "y"}, V |-> {"c"}]
MCView   == [W |-> [tables |-> <<"U">>, pred |-> {<<"b", Const(1)>>}, fields |-> <<"y">>]]
MCSql ==
    {[tables |-> <<"T">>, pred |-> {<<"a", Const(1)>>}, fields |-> <<"x">>],
     [tables |-> <<"T", "U">>, pred |-> {<<"a", Fld("b")>>}, fields |-> <<"x", "y">>],
     [tables |-> <<"T", "U", "V">>,
      pred |-> {<<"a", Fld("b")>>, <<"x", Fld("c")>>, <<"c", Const(1)>>}, fields |-> <<"a", "y">>],
     [tables |-> <<"T", "T">>, pred |-> {<<"a", Const(1)>>}, fields |-> <<"x">>],
     [tables |-> <<"V", "T", "U">>, pred |-> {<<"a", Fld("b")>>}, fields |-> <<"c", "x", "y">>],
     [tables |-> <<"T", "W">>, pred |-> {}, fields |-> <<"x", "y">>]}
MCAlgebra ==
    LET T == TablePlan("T")
        U == TablePlan("U")
    IN  {SortPlan(T, <<"a">>), SortPlan(T, <<"a", "x">>), GroupByPlan(T, <<"a">>, "x"),
         MergeJoinPlan(U, T, "b", "a"), MaterializePlan(SelectPlan(T, {<<"a", Const(1)>>})),
         GroupByPlan(ProductPlan(U, T), <<"b">>, "x")}
============================================================================
