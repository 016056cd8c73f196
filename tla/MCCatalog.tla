----------------------------- MODULE MCCatalog -----------------------------
(* A table, a table whose name begins with "temp" and whose schema names a *)
(* field twice, a view of one table and a view of both, with a string      *)
(* constant in it, and one statement of every other kind.                  *)
EXTENDS Catalog

Jo == Str(<<106, 111>>, <<Id("jo")>>)
X == Str(<<120>>, <<Id("x")>>)
TwoWords == Str(<<120, 32, 49>>, <<Id("x"), Num(1)>>)
Eq(lhs, rhs) == [lhs |-> lhs, rhs |-> rhs]

MCStatements ==
    <<Statement("create_table", <<"t", <<Number("a"), Field("b", "VARCHAR", 3)>>>>),
      Statement("create_table", <<"temps", <<Number("c"), Field("d", "VARCHAR", 1),
                                             Field("c", "VARCHAR", 2)>>>>),
      Statement("create_view", <<"v", <<"a", "b">>, <<"t">>,
                                 <<Eq(Id("a"), Num(1)), Eq(Id("b"), Id("a"))>>>>),
      Statement("create_view", <<"w", <<"a">>, <<"v", "temps">>, <<Eq(Id("c"), TwoWords)>>>>),
      Statement("insert", <<"temps", <<"c", "d">>, <<Jo, X>>>>),
      Statement("delete", <<"t", <<Eq(Id("b"), Jo)>>>>),
      Statement("modify", <<"t", "a", Num(3), <<>>>>),
      Statement("create_index", <<"i", "t", "a">>),
      Statement("query", <<<<"a">>, <<"w", "v">>, <<Eq(Num(1), Id("a"))>>>>)>>
============================================================================
