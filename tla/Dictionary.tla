----------------------------- MODULE Dictionary -----------------------------
(***************************************************************************)
(* What the catalogs promise: a table has the layout its CREATE TABLE      *)
(* asked for, a view is the query of its CREATE VIEW, and both last as     *)
(* long as the transaction that created them has not been undone.          *)
(***************************************************************************)
EXTENDS Parser, Layout

CONSTANT SystemSchema   \* the catalogs' own tables

VARIABLES request,   \* the statement executed by the last step, if any
          tables,    \* name -> layout
          views,     \* name -> query
          kept       \* both, as of the last commit

dictVars == <<request, tables, views, kept>>

Dict(t, v) == [tables |-> t, views |-> v]
Nothing == [n \in {} |-> n]

DictInit == /\ request = NoStatement
            /\ tables = Nothing /\ views = Nothing /\ kept = Dict(Nothing, Nothing)

With(f, name, val) == [n \in DOMAIN f \cup {name} |-> IF n = name THEN val ELSE f[n]]

DictSystemTable(name) == /\ tables' = With(tables, name, LayoutOf[SystemSchema[name]])
                         /\ UNCHANGED <<request, views, kept>>

DictCreateTable(s) == /\ s.kind = "create_table"
                      /\ tables' = With(tables, s.parts[1], LayoutOf[Schema[s.parts[2]]])
                      /\ UNCHANGED <<views, kept>>

(* A view's string constants lose their quotes: it is then some query.     *)
DictCreateView(s) ==
    LET q == Statement("query", Tail(s.parts))
    IN  /\ s.kind = "create_view"
        /\ IF HasString(q)
           THEN /\ DOMAIN views' = DOMAIN views \cup {s.parts[1]}
                /\ \A v \in DOMAIN views \ {s.parts[1]} : views'[v] = views[v]
           ELSE views' = With(views, s.parts[1], q)
        /\ UNCHANGED <<tables, kept>>

DictOther(s) == /\ s.kind \notin {"create_table", "create_view"}
                /\ UNCHANGED <<tables, views, kept>>

DictCommit == kept' = Dict(tables, views) /\ UNCHANGED <<request, tables, views>>
DictUndo   == /\ tables' = kept.tables /\ views' = kept.views
              /\ request' = NoStatement
              /\ UNCHANGED kept

DictNext == \/ DictOther(request') \/ DictCreateTable(request') \/ DictCreateView(request')
            \/ DictCommit \/ DictUndo
            \/ \E name \in DOMAIN SystemSchema : DictSystemTable(name)

DictSpec == DictInit /\ [][DictNext]_dictVars
=============================================================================
