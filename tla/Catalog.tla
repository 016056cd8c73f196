------------------------------ MODULE Catalog ------------------------------
(***************************************************************************)
(* From the text of a statement to the catalogs: the startup of SimpleDB   *)
(* (simpledb.cpp), Planner::execute_update and create_query_plan           *)
(* (planner.cpp), the statements that go to the catalogs                   *)
(* (basicupdateplanner.cpp), the expansion of views                        *)
(* (basicqueryplanner.cpp), and TableMgr and ViewMgr (tablemgr.cpp,        *)
(* viewmgr.cpp).                                                           *)
(*                                                                         *)
(* The catalogs are the rows of tblcat, fldcat and viewcat in the order a  *)
(* scan meets them.  One transaction at a time changes them; what a stop   *)
(* of the process makes of its changes is what Transaction shows:          *)
(* recovery brings back the last commit.  Statistics are left out but for  *)
(* the refresh at startup, which can throw.                                *)
(***************************************************************************)
EXTENDS RecordPage

CONSTANTS Statements,   \* what the client may ask for, a sequence
          TempNames,    \* table names that begin with "temp"
          FreshNames,   \* do clients use each name once, and only created ones?
          MaxStarts     \* bound: processes

ASSUME CatalogAssumption == MaxStarts \in Nat /\ FreshNames \in BOOLEAN

(* A statement as a client means it: its parts are what its sentence asks  *)
(* for.  The length of an int is 0, other lengths are not negative.        *)
IsConstant(tok) == tok = Token(tok.type, tok.val) /\ tok.type \in {"Int", "String"}
IsExpression(tok) == IsConstant(tok) \/ (tok = Id(tok.val) /\ tok.val \in STRING)
IsTerm(t) == t = [lhs |-> t.lhs, rhs |-> t.rhs] /\ IsExpression(t.lhs) /\ IsExpression(t.rhs)

IsPart(name, val) ==
    CASE name = "id"         -> val \in STRING
      [] name = "ids"        -> val \in Seq(STRING) /\ val # <<>>
      [] name = "constants"  -> /\ val \in Seq(ToSet(val)) /\ val # <<>>
                                /\ \A c \in ToSet(val) : IsConstant(c)
      [] name = "expression" -> IsExpression(val)
      [] name = "fields"     -> /\ val \in Declarations /\ val # <<>>
                                /\ \A f \in ToSet(val) : f.type = "INTEGER" => f.length = 0
      [] name = "where"      -> /\ val \in Seq(ToSet(val))
                                /\ \A t \in ToSet(val) : IsTerm(t)

IsStatement(s) ==
    /\ s = Statement(s.kind, s.parts) /\ s.kind \in DOMAIN Form
    /\ LET form == Form[s.kind]
       IN  /\ s.parts = [j \in 1..PartsUpTo(form, Len(form)) |-> s.parts[j]]
           /\ \A k \in DOMAIN form : form[k].type = "Part" =>
                 IsPart(form[k].val, s.parts[PartsUpTo(form, k)])

ASSUME StatementsAssumption == \A k \in DOMAIN Statements : IsStatement(Statements[k])

VARIABLES dir,       \* does the database directory exist?
          cat,       \* the catalogs as the process sees them
          saved,     \* the catalogs of the last commit
          opened,    \* history: has the constructor of SimpleDB ever returned?
          proc,      \* where the process stands
          sent,      \* the text of the statement being executed
          stmt,      \* what the parser made of it
          todo,      \* names of the query being planned, in planning order
          usedTemp,  \* has the transaction written to a file "temp..."?
          tempLeft,  \* does the log hold such writes, unfinished?
          torn,      \* has the log a page of zeros?
          starts

sqlVars == <<sent, stmt, todo>>
diskVars == <<dir, saved, opened, tempLeft, torn, starts>>
vars == <<diskVars, cat, proc, sqlVars, usedTemp>>

NoRows == [tblcat |-> <<>>, fldcat |-> <<>>, viewcat |-> <<>>]
NoText == [statement |-> 0, tokens |-> 0]

Field(name, type, length) == [name |-> name, type |-> type, length |-> length]
Name(field) == Field(field, "VARCHAR", 16)    \* TableMgr::MAX_NAME
Number(field) == Field(field, "INTEGER", 0)

(* The schemas TableMgr and ViewMgr build for the catalogs themselves. *)
SystemSchema ==
    [tblcat  |-> <<Name("tblname"), Number("slotsize")>>,
     fldcat  |-> <<Name("tblname"), Name("fldname"), Number("type"), Number("length"),
                   Number("offset")>>,
     viewcat |-> <<Name("viewname"), Field("viewdef", "VARCHAR", 100)>>]

(* The names of the catalogs and of their fields are strings, which TLC    *)
(* evaluates; the provers have no rule about a string literal.             *)
ASSUME NamesAssumption ==
    {"tblcat", "fldcat", "viewcat", "tblname", "slotsize", "fldname", "type", "length",
     "offset", "viewname", "viewdef"} \subseteq STRING

FieldRows == [table : STRING, field : Declaration, offset : Nat]

Init == /\ dir = FALSE /\ cat = NoRows /\ saved = NoRows /\ opened = FALSE
        /\ proc = "down" /\ sent = NoText /\ stmt = NoStatement /\ todo = <<>>
        /\ usedTemp = FALSE /\ tempLeft = FALSE /\ torn = FALSE /\ starts = 0

----------------------------------------------------------------------------
(* Mutant: only the fields are entered. *)
CreateFields(c, name, sch) ==
    LET offset == LayoutOf[sch].offset
    IN  [c EXCEPT !.fldcat = @ \o [i \in DOMAIN sch |->
                [table |-> name, field |-> sch[i], offset |-> offset[sch[i].name]]]]

(* TableMgr::create_table: a row for the table, one for each field.  It    *)
(* does not look for a table of that name.                                 *)
CreateTable(c, name, sch) ==
    LET layout == LayoutOf[sch]
        row(f) == [table |-> name, field |-> f, offset |-> layout.offset[f.name]]
    IN  [c EXCEPT !.tblcat = Append(@, [table |-> name, slotsize |-> layout.slotsize]),
                  !.fldcat = @ \o [i \in DOMAIN sch |-> row(sch[i])]]

(* Mutant: the fields of all tables. *)
FieldsOfAny(c, name) == c.fldcat

(* The rows a scan finds with a name in a column. *)
RowsWith(rows, column, name) ==
    FlattenSeq([i \in DOMAIN rows |-> IF rows[i][column] = name THEN <<rows[i]>> ELSE <<>>])

FieldsOf(c, name) == RowsWith(c.fldcat, "table", name)
TableRows(c, name) == RowsWith(c.tblcat, "table", name)
HasTable(c, name) == \E r \in ToSet(c.tblcat) : r.table = name

(* TableMgr::get_layout, of a table that has a row in tblcat: the slot     *)
(* size of the first such row, and every row of fldcat with its name.      *)
ReadLayout[rows \in Seq(FieldRows)] ==
    LET sch == Schema[[i \in DOMAIN rows |-> rows[i].field]]
    IN  [slotsize \in Nat |->
            [schema |-> sch,
             offset |-> [f \in Names(sch) |-> rows[LastOf(sch, f)].offset],
             slotsize |-> slotsize]]

GetLayout(c, name) == ReadLayout[FieldsOf(c, name)][Head(TableRows(c, name)).slotsize]

(* ViewMgr: the definition is kept as text, the first of a name counts. *)
CreateView(c, name, q) ==
    [c EXCEPT !.viewcat = Append(@, [view |-> name, def |-> QueryText(q)])]

ViewRows(c, name) == RowsWith(c.viewcat, "view", name)
HasView(c, name) == \E r \in ToSet(c.viewcat) : r.view = name
GetViewDef(c, name) == Head(ViewRows(c, name)).def

----------------------------------------------------------------------------
(* SimpleDB(dirname): FileMgr tells a new database by its directory; an    *)
(* existing one is recovered, which throws when it has to undo a write to  *)
(* a file that FileMgr has just deleted, or reads a page of zeros in the   *)
(* log; a new one gets its catalogs; the statistics read the layout of     *)
(* tblcat; the constructor commits.                                        *)
Start == /\ proc = "down" /\ starts < MaxStarts
         /\ dir' = TRUE /\ starts' = starts + 1
         /\ proc' = IF dir THEN "recover" ELSE "tblcat"
         /\ UNCHANGED <<cat, saved, opened, sqlVars, usedTemp, tempLeft, torn>>

At(step, next) == /\ proc = step
                  /\ proc' = next
                  /\ UNCHANGED <<sqlVars, usedTemp>>

Recover == /\ At("recover", IF tempLeft \/ torn THEN "threw" ELSE "refresh")
           /\ UNCHANGED <<diskVars, cat>>

CreateSystemTable(name, next) == /\ At(name, next)
                                 /\ cat' = CreateTable(cat, name, SystemSchema[name])
                                 /\ UNCHANGED diskVars

Refresh == /\ At("refresh", IF HasTable(cat, "tblcat") THEN "commit" ELSE "threw")
           /\ UNCHANGED <<diskVars, cat>>

(* Mutant: the constructor returns without a commit. *)
OpenUncommitted == /\ At("commit", "open")
                   /\ opened' = TRUE
                   /\ UNCHANGED <<dir, cat, saved, tempLeft, torn, starts>>

Open == /\ At("commit", "open")
        /\ saved' = cat /\ opened' = TRUE
        /\ UNCHANGED <<dir, cat, tempLeft, torn, starts>>

Startup == \/ Recover \/ Refresh \/ Open
           \/ CreateSystemTable("tblcat", "fldcat")
           \/ CreateSystemTable("fldcat", "viewcat")
           \/ CreateSystemTable("viewcat", "refresh")

(* The process stops, after an exception of the constructor or at any      *)
(* moment; some or all of its log may have reached the disk.  Between the  *)
(* two writes of append_new_block it leaves a page of zeros there, and for *)
(* good: only a recovery that gets past that page starts the log anew.     *)
Stop == /\ proc # "down"
        /\ proc' = "down" /\ cat' = saved
        /\ sent' = NoText /\ stmt' = NoStatement /\ todo' = <<>>
        /\ usedTemp' = FALSE
        /\ tempLeft' \in {tempLeft, tempLeft \/ usedTemp}
        /\ torn' \in {torn, torn \/ proc # "threw"}
        /\ UNCHANGED <<dir, saved, opened, starts>>

----------------------------------------------------------------------------
(* A client sends a statement: whole, cut off after some token, or with a  *)
(* semicolon behind it.                                                    *)
Sent == UNION {{[statement |-> k, tokens |-> n] : n \in 1..Len(Written(Statements[k])) + 1} :
                  k \in DOMAIN Statements}

Text == [s \in Sent |-> SubSeq(Append(Written(Statements[s.statement]), Delim(";")), 1, s.tokens)]

Queries == {s \in Sent : Statements[s.statement].kind = "query"}

Parsed == [s \in Sent |-> IF s \in Queries THEN ParseQuery(Text[s]) ELSE ParseUpdate(Text[s])]

(* What the lexer and the parser make of the kept text of a view. *)
ViewQuery == LET made  == {s \in Range(Parsed) : s.kind = "create_view"}
                 texts == {QueryText(Statement("query", Tail(s.parts))) : s \in made}
             IN  [text \in texts |-> ParseQuery(text)]

Calm == proc = "open" /\ sent = NoText

Fresh(name) == ~HasTable(cat, name) /\ ~HasView(cat, name)
Known(names) == \A name \in ToSet(names) : ~Fresh(name)

Careful(s) == FreshNames =>
    /\ s.kind \in {"create_table", "create_view"} => Fresh(s.parts[1])
    /\ s.kind = "create_view" => Known(s.parts[3])

(* The file of a table is its name with ".tbl": a statement on a table of  *)
(* such a name writes to a file that the next FileMgr removes.             *)
WritesTemp(name) == name \in TempNames /\ HasTable(cat, name)

(* Planner::execute_update of a text that is parsed as s.  insert, delete  *)
(* and modify change rows, not catalogs; without the table, or a row to    *)
(* change, they write nothing.  create_index does nothing.                 *)
ExecuteUpdate(sending, s) ==
    /\ Calm /\ Careful(s)
    /\ sent' = sending /\ stmt' = s
    /\ \/ /\ s.kind = "create_table"
          /\ cat' = CreateTable(cat, s.parts[1], Schema[s.parts[2]])
          /\ UNCHANGED usedTemp
       \/ /\ s.kind = "create_view"
          /\ cat' = CreateView(cat, s.parts[1], Statement("query", Tail(s.parts)))
          /\ UNCHANGED usedTemp
       \/ /\ s.kind \in {"insert", "delete", "modify"}
          /\ usedTemp' \in {usedTemp, usedTemp \/ WritesTemp(s.parts[1])}
          /\ UNCHANGED cat
       \/ /\ s.kind \in {"create_index", NoStatement.kind}
          /\ UNCHANGED <<cat, usedTemp>>
    /\ UNCHANGED <<diskVars, proc, todo>>

(* Planner::create_query_plan and the recursion of create_plan. *)
CreateQueryPlan(sending, s) ==
    /\ Calm
    /\ sent' = sending /\ stmt' = s
    /\ todo' = IF s = NoStatement THEN <<>> ELSE s.parts[2]
    /\ UNCHANGED <<diskVars, cat, proc, usedTemp>>

(* Mutant: a view is expanded without being taken off the list. *)
ExpandKeep(rest, q) == todo' = q.parts[2] \o todo

Expand(rest, q) == todo' = IF q = NoStatement THEN <<>> ELSE q.parts[2] \o rest

(* The next table of the query: a view is parsed and planned in its place, *)
(* a name that is neither, or a text that does not parse, throws.          *)
PlanStep ==
    /\ proc = "open" /\ todo # <<>>
    /\ LET name == Head(todo)
           rest == Tail(todo)
       IN  \/ /\ HasView(cat, name)
              /\ Expand(rest, ViewQuery[GetViewDef(cat, name)])
           \/ /\ ~HasView(cat, name) /\ HasTable(cat, name)
              /\ todo' = rest
           \/ /\ ~HasView(cat, name) /\ ~HasTable(cat, name)
              /\ todo' = <<>>
    /\ UNCHANGED <<diskVars, cat, proc, sent, stmt, usedTemp>>

Return == /\ proc = "open" /\ sent # NoText /\ todo = <<>>
          /\ sent' = NoText /\ stmt' = NoStatement
          /\ UNCHANGED <<diskVars, cat, proc, todo, usedTemp>>

(* A client sorts or materializes: TempTable writes to a file "temp...".   *)
UseTempTable == /\ Calm
                /\ usedTemp' = TRUE
                /\ UNCHANGED <<diskVars, cat, proc, sqlVars>>

Commit == /\ Calm
          /\ saved' = cat /\ usedTemp' = FALSE
          /\ UNCHANGED <<dir, opened, tempLeft, torn, starts, cat, proc, sqlVars>>

Rollback == /\ Calm
            /\ cat' = saved /\ usedTemp' = FALSE
            /\ UNCHANGED <<diskVars, proc, sqlVars>>

Next == \/ Start \/ Startup \/ Stop
        \/ PlanStep \/ Return \/ UseTempTable \/ Commit \/ Rollback
        \/ \E sending \in Queries : CreateQueryPlan(sending, Parsed[sending])
        \/ \E sending \in Sent \ Queries : ExecuteUpdate(sending, Parsed[sending])

(* The constructor and the planner go on until they return or throw. *)
Fairness == WF_vars(Startup) /\ WF_vars(PlanStep)

Spec == Init /\ [][Next]_vars /\ Fairness

----------------------------------------------------------------------------
TypeOK == /\ {dir, opened, usedTemp, tempLeft, torn} \subseteq BOOLEAN
          /\ \A c \in {cat, saved} :
                /\ DOMAIN c = DOMAIN NoRows
                /\ ToSet(c.fldcat) \subseteq FieldRows
                /\ \A r \in ToSet(c.tblcat) : r.slotsize \in Nat
                /\ \A r \in ToSet(c.fldcat) : HasTable(c, r.table)
          /\ proc \in {"down", "recover", "refresh", "commit", "open", "threw"}
                         \cup DOMAIN SystemSchema
          /\ sent.statement \in {0} \cup DOMAIN Statements
          /\ stmt.kind \in DOMAIN Form \cup {NoStatement.kind}
          /\ starts \in 0..MaxStarts

(* The parser accepts a text only for a sentence the text begins with, and *)
(* reads every sentence of the language as what it says, whatever follows  *)
(* it.  What is executed is what was written, or the beginning of it: the  *)
(* rest of a text is ignored (Parser::query, Parser::update_cmd).          *)
ParserExact ==
    sent # NoText =>
        /\ stmt # NoStatement => IsPrefix(Written(stmt), Text[sent])
        /\ LET asked == Statements[sent.statement]
           IN  sent.tokens >= Len(Written(asked)) => stmt = asked

(* A table has, in every later transaction and process, the layout it was  *)
(* created with, and a view is the query it was created as, unless that    *)
(* has a string constant: its text comes back through the lexer without    *)
(* quotes (TableMgr, ViewMgr, QueryData::to_string).                       *)
Tables(c) == [name \in {r.table : r \in ToSet(c.tblcat)} |-> GetLayout(c, name)]
Views(c)  == [name \in {r.view : r \in ToSet(c.viewcat)} |-> ViewQuery[GetViewDef(c, name)]]

Dict == INSTANCE Dictionary WITH request <- stmt, tables <- Tables(cat), views <- Views(cat),
            kept <- [tables |-> Tables(saved), views |-> Views(saved)]

ImplementsDictionary == Dict!DictSpec

(* A row inserted into any slot of a block, through the layout that comes  *)
(* from the catalogs, reads back as it was written, each field as the last *)
(* value given for it, and leaves every other slot as it was, if its       *)
(* values have the types of their fields and its strings are as long as    *)
(* they were declared to be or shorter (Page, Layout, RecordPage,          *)
(* TableMgr::get_layout).                                                  *)
Fits(layout, f, const) ==
    LET field == FieldOf(layout, f)
    IN  /\ f \in Names(layout.schema)
        /\ field.type = "INTEGER" => const.type = "Int" /\ const.val \in Int32
        /\ field.type = "VARCHAR" => /\ const.type = "String" /\ const.val.chars \in Seq(Byte)
                                     /\ Len(const.val.chars) <= field.length

Plain(const) == IF const.type = "Int" THEN const.val ELSE const.val.chars

(* The row inserted until every slot of the block has it. *)
Full(layout, fields, vals) ==
    LET size == Cardinality(ValidSlots(layout))
        filled[n \in 0..size] ==
            IF n = 0 THEN Formatted ELSE Insert(layout, filled[n - 1], fields, vals)
    IN  filled[size]

RowReadsBack(layout, fields, vals) ==
    LET given    == 1..Min({Len(fields), Len(vals)})
        full     == Full(layout, fields, vals)
        again(k) == Insert(layout, Delete(layout, full, k), fields, vals)
    IN  (\A i \in given : Fits(layout, fields[i], vals[i])) =>
           \A k \in ValidSlots(layout) :
              /\ \A j \in ValidSlots(layout) :
                    Record(layout, again(k), j) = Record(layout, full, j)
              /\ Flag(layout, full, k) = USED
              /\ \A i \in given :
                    (\A j \in given : j > i => fields[j] # fields[i]) =>
                        Record(layout, full, k).val[fields[i]] = Plain(vals[i])

InsertsReadBack ==
    stmt.kind = "insert" /\ HasTable(cat, stmt.parts[1]) =>
        RowReadsBack(GetLayout(cat, stmt.parts[1]), stmt.parts[2], stmt.parts[3])

(* A database that has been opened once opens again, whatever its process  *)
(* was doing when it stopped, except after an unfinished transaction that  *)
(* wrote to a temporary file and after a stop between the two writes of a  *)
(* new page of the log (SimpleDB's constructor).                           *)
OpensAgain == proc = "threw" => ~opened \/ tempLeft \/ torn

(* Startup and planning end, also through views over views. *)
CallsEnd == []<>(proc \in {"down", "open", "threw"} /\ todo = <<>>)
=============================================================================
