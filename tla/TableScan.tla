----------------------------- MODULE TableScan -----------------------------
(***************************************************************************)
(* A table of one transaction: blocks of slots (recordpage.cpp), cursors   *)
(* over them (tablescan.cpp, selectscan.cpp), and the statements that      *)
(* insert, delete and modify through a cursor of their own                 *)
(* (basicupdateplanner.cpp), with readers that stand on the table while    *)
(* statements run.                                                         *)
(*                                                                         *)
(* A cursor pins its block.  A move unpins the old block before it pins    *)
(* the new one, and the pin may fail (BufferAbort) unless the transaction  *)
(* has pinned the block already: then the scan is abandoned.  Block and    *)
(* slot numbers start from 1; slot 0 is the code's nullopt.                *)
(***************************************************************************)
EXTENDS Integers, Sequences, FiniteSets

CONSTANTS Field, Value,
          Default,         \* the value format() and a block of zeros give a field
          SlotsPerBlock,   \* the valid slots of a page
          MaxBlocks,       \* bound: blocks of the file
          Reader,          \* the scans of clients
          Update,          \* the scan of the statement in progress
          Pred, NewRow,    \* predicates and rows of statements
          Expr,            \* right-hand sides of modify: constants and fields
          MaxStatements    \* bound: statements

Assignment == UNION {[S -> Value] : S \in SUBSET Field}

ASSUME TableAssumption ==
    /\ Default \in Value
    /\ SlotsPerBlock \in Nat \ {0} /\ MaxBlocks \in Nat \ {0}
    /\ MaxStatements \in Nat
    /\ Update \notin Reader /\ IsFiniteSet(Reader)
    /\ Pred \subseteq Assignment /\ NewRow \subseteq Assignment
    /\ Expr \subseteq Value \cup Field /\ Value \cap Field = {}

VARIABLES pages,    \* the blocks of the table's file
          saved,    \* the blocks at the last commit
          scan,     \* TableScan objects: position, status, a remembered RID
          pins,     \* the transaction's pins on the table's blocks
          stmt,     \* the statement in progress
          result,   \* what the latest statement returned
          before,   \* history: the rows when the statement began
          begun     \* statements so far

vars == <<pages, saved, scan, pins, stmt, result, before, begun>>

EMPTY == 0
USED  == 1

Blocks  == 1..MaxBlocks
Slots   == 1..SlotsPerBlock
Scans   == Reader \cup {Update}
Record  == [Field -> Value]
Slot    == [flag : {EMPTY, USED}, rec : Record]
NoRID   == <<0, 0>>
RID     == Blocks \X Slots

Blank     == [f \in Field |-> Default]
ZeroPage  == [k \in Slots |-> [flag |-> 0, rec |-> Blank]]      \* FileMgr::append
Formatted == [k \in Slots |-> [flag |-> EMPTY, rec |-> Blank]]  \* RecordPage::format

Closed == [blk |-> 1, slot |-> 0, status |-> "closed", mark |-> NoRID]
NoStmt == [op |-> "none"]
Stmts  == [op : {"delete"}, pred : Pred, count : Nat]
            \cup [op : {"modify"}, pred : Pred, fld : Field, expr : Expr, count : Nat]
            \cup [op : {"insert"}, vals : NewRow]

Before(r, s) == r[1] < s[1] \/ (r[1] = s[1] /\ r[2] < s[2])
Least(S) == CHOOSE r \in S : \A s \in S : r = s \/ Before(r, s)

Sat(rec, p)  == \A f \in DOMAIN p : rec[f] = p[f]
Eval(rec, e) == IF e \in Field THEN rec[e] ELSE e

RIDs   == (1..Len(pages)) \X Slots
At(r)  == pages[r[1]][r[2]]
Live   == {r \in RIDs : At(r).flag = USED}
Rows   == [r \in Live |-> At(r).rec]

Init == /\ pages = << >> /\ saved = << >>
        /\ scan = [s \in Scans |-> Closed]
        /\ pins = [b \in Blocks |-> 0]
        /\ stmt = NoStmt /\ result = 0 /\ before = << >> /\ begun = 0

----------------------------------------------------------------------------
(* Mutant: the search stops at the end of the block. *)
AfterInBlock(c) == {r \in RIDs : r[1] = c.blk /\ r[2] > c.slot}

(* Where search_after and the loop over the blocks lead from a cursor: the *)
(* first slot after it that matches, or slot 0 of the last block.          *)
After(c)     == {r \in RIDs : Before(<<c.blk, c.slot>>, r)}
SearchAfter(c, S) == LET ahead == After(c) \cap S
                     IN  IF ahead = {} THEN <<Len(pages), 0>> ELSE Least(ahead)
NextAfter(c, p) == SearchAfter(c, {r \in Live : Sat(At(r).rec, p)})
EmptyAfter(c)   == SearchAfter(c, {r \in RIDs : At(r).flag = EMPTY})

(* close() of the old page and the pin of the new one. *)
Moved(from, to) == LET left == [pins EXCEPT ![from] = @ - 1]
                   IN  [left EXCEPT ![to] = @ + 1]
CannotPin(from, to) == \E b \in (from + 1)..to : pins[b] = 0

Position(s, r, status) ==
    [scan EXCEPT ![s].blk = r[1], ![s].slot = r[2], ![s].status = status]

Idle == stmt = NoStmt

(* Mutant: the pin before the close(). *)
LostPinned(s) == scan' = [scan EXCEPT ![s] = Closed] /\ UNCHANGED pins

(* A move whose pin fails: the old block is unpinned and the scan is lost. *)
Lost(s) == /\ pins' = [pins EXCEPT ![scan[s].blk] = @ - 1]
           /\ scan' = [scan EXCEPT ![s] = Closed]

(* The constructor: the first block, which an empty file gets now. *)
Open(s) ==
    /\ scan[s].status = "closed"
    /\ pages' = IF pages = << >> THEN <<Formatted>> ELSE pages
    /\ pins' = [pins EXCEPT ![1] = @ + 1]
    /\ scan' = [scan EXCEPT ![s] = [Closed EXCEPT !.status = "open"]]

OpenFails(s) ==
    /\ scan[s].status = "closed"
    /\ pins[1] = 0
    /\ pages' = IF pages = << >> THEN <<ZeroPage>> ELSE pages
    /\ UNCHANGED <<saved, scan, pins, stmt, result, before, begun>>

----------------------------------------------------------------------------
(* Readers. *)
OpenScan(r) == /\ Idle
               /\ Open(r)
               /\ UNCHANGED <<saved, stmt, result, before, begun>>

BeforeFirst(r) == /\ Idle
                  /\ scan[r].status # "closed"
                  /\ \/ /\ pins' = Moved(scan[r].blk, 1)
                        /\ scan' = Position(r, <<1, 0>>, "open")
                     \/ /\ scan[r].blk # 1 /\ pins[1] = 0
                        /\ Lost(r)
                  /\ UNCHANGED <<pages, saved, stmt, result, before, begun>>

(* SelectScan::next over TableScan::next; nobody asks again after false. *)
NextMatch(r, p) ==
    /\ Idle
    /\ scan[r].status = "open"
    /\ LET c == scan[r]
           to == NextAfter(c, p)
       IN  \/ /\ pins' = Moved(c.blk, to[1])
              /\ scan' = Position(r, to, IF to[2] = 0 THEN "end" ELSE "open")
           \/ /\ CannotPin(c.blk, to[1])
              /\ Lost(r)
    /\ UNCHANGED <<pages, saved, stmt, result, before, begun>>

GetRID(r) == /\ Idle
             /\ scan[r].status = "open" /\ scan[r].slot # 0
             /\ scan' = [scan EXCEPT ![r].mark = <<scan[r].blk, scan[r].slot>>]
             /\ UNCHANGED <<pages, saved, pins, stmt, result, before, begun>>

MoveToRID(r) ==
    /\ Idle
    /\ scan[r].status # "closed" /\ scan[r].mark # NoRID
    /\ \/ /\ pins' = Moved(scan[r].blk, scan[r].mark[1])
          /\ scan' = Position(r, scan[r].mark, "open")
       \/ /\ scan[r].mark[1] # scan[r].blk /\ pins[scan[r].mark[1]] = 0
          /\ Lost(r)
    /\ UNCHANGED <<pages, saved, stmt, result, before, begun>>

CloseScan(r) == /\ Idle
                /\ scan[r].status # "closed"
                /\ pins' = [pins EXCEPT ![scan[r].blk] = @ - 1]
                /\ scan' = [scan EXCEPT ![r] = Closed]
                /\ UNCHANGED <<pages, saved, stmt, result, before, begun>>

----------------------------------------------------------------------------
(* Statements.  BasicUpdatePlanner opens a scan, loops and closes it. *)
Begin(st) == /\ Idle
             /\ begun < MaxStatements
             /\ \/ /\ Open(Update)
                   /\ stmt' = st
                   /\ before' = Rows
                   /\ begun' = begun + 1
                   /\ UNCHANGED <<saved, result>>
                \/ OpenFails(Update)

Finish(n) == /\ stmt' = NoStmt
             /\ result' = n
             /\ before' = << >>

Abandon == /\ Lost(Update)
           /\ stmt' = NoStmt
           /\ before' = << >>
           /\ UNCHANGED result

Apply(r) == IF stmt.op = "delete"
            THEN [pages EXCEPT ![r[1]][r[2]].flag = EMPTY]
            ELSE [pages EXCEPT ![r[1]][r[2]].rec[stmt.fld] = Eval(At(r).rec, stmt.expr)]

(* while (us->next()) { delete_record() or set_val(); count++; }  close() *)
UpdateNext ==
    /\ stmt.op \in {"delete", "modify"}
    /\ LET c == scan[Update]
           to == NextAfter(c, stmt.pred)
       IN  \/ /\ to[2] # 0
              /\ pages' = Apply(to)
              /\ pins' = Moved(c.blk, to[1])
              /\ scan' = Position(Update, to, "open")
              /\ stmt' = [stmt EXCEPT !.count = @ + 1]
              /\ UNCHANGED <<result, before>>
           \/ /\ to[2] = 0
              /\ pins' = [pins EXCEPT ![c.blk] = @ - 1]
              /\ scan' = [scan EXCEPT ![Update] = Closed]
              /\ Finish(stmt.count)
              /\ UNCHANGED pages
           \/ /\ CannotPin(c.blk, to[1])
              /\ Abandon
              /\ UNCHANGED pages
    /\ UNCHANGED <<saved, begun>>

(* insert(): the first empty slot, in a new block if there is none; then   *)
(* set_val of the given fields and close().                                *)
Filled(r, pgs) ==
    [pgs EXCEPT ![r[1]][r[2]] =
        [flag |-> USED,
         rec |-> [f \in Field |-> IF f \in DOMAIN stmt.vals THEN stmt.vals[f] ELSE @.rec[f]]]]

(* Mutant: the scan does not leave a full block. *)
InsertInPlace ==
    /\ stmt.op = "insert"
    /\ LET to == EmptyAfter(scan[Update])
       IN  /\ to[2] # 0
           /\ pages' = Filled(to, pages)
    /\ pins' = [pins EXCEPT ![scan[Update].blk] = @ - 1]
    /\ scan' = [scan EXCEPT ![Update] = Closed]
    /\ Finish(1)
    /\ UNCHANGED <<saved, begun>>

InsertNext ==
    /\ stmt.op = "insert"
    /\ LET c == scan[Update]
           to == EmptyAfter(c)
           new == Len(pages) + 1
       IN  \/ /\ \/ to[2] # 0 /\ pages' = Filled(to, pages)
                 \/ to[2] = 0 /\ new \in Blocks
                              /\ pages' = Filled(<<new, 1>>, Append(pages, Formatted))
              /\ pins' = [pins EXCEPT ![c.blk] = @ - 1]
              /\ scan' = [scan EXCEPT ![Update] = Closed]
              /\ Finish(1)
           \/ /\ CannotPin(c.blk, to[1])
              /\ Abandon
              /\ UNCHANGED pages
           \/ /\ to[2] = 0 /\ new \in Blocks
              /\ pages' = Append(pages, ZeroPage)
              /\ Abandon
    /\ UNCHANGED <<saved, begun>>

----------------------------------------------------------------------------
(* Mutant: the scans go, their pins stay. *)
EndTxPinned == /\ scan' = [s \in Scans |-> Closed]
               /\ stmt' = NoStmt /\ before' = << >>
               /\ UNCHANGED <<pins, result, begun>>

(* The transaction ends: its buffers are unpinned and its scans are gone.  *)
(* Undo brings every logged write back; appended blocks stay, and their    *)
(* format is not logged: a crash may leave zeros.                          *)
EndTx == /\ pins' = [b \in Blocks |-> 0]
         /\ scan' = [s \in Scans |-> Closed]
         /\ stmt' = NoStmt /\ before' = << >>
         /\ UNCHANGED <<result, begun>>

Commit == /\ Idle
          /\ saved' = pages
          /\ EndTx
          /\ UNCHANGED pages

Rollback == /\ Idle
            /\ pages' = [b \in 1..Len(pages) |->
                            IF b <= Len(saved) THEN saved[b] ELSE Formatted]
            /\ EndTx
            /\ UNCHANGED saved

Crash == /\ \E zero \in SUBSET (Len(saved) + 1 .. Len(pages)) :
              pages' = [b \in 1..Len(pages) |->
                            IF b <= Len(saved) THEN saved[b]
                            ELSE IF b \in zero THEN ZeroPage ELSE Formatted]
         /\ EndTx
         /\ UNCHANGED saved

(* Bound: the file does not grow beyond MaxBlocks. *)
HasRoom == Len(pages) < MaxBlocks \/ \E r \in RIDs : At(r).flag = EMPTY

Statement ==
    \/ \E p \in Pred : Begin([op |-> "delete", pred |-> p, count |-> 0])
    \/ \E p \in Pred, f \in Field, e \in Expr :
         Begin([op |-> "modify", pred |-> p, fld |-> f, expr |-> e, count |-> 0])
    \/ HasRoom /\ \E v \in NewRow : Begin([op |-> "insert", vals |-> v])

Read(r) == \/ OpenScan(r) \/ (Idle /\ OpenFails(r)) \/ BeforeFirst(r) \/ CloseScan(r)
           \/ GetRID(r) \/ MoveToRID(r)
           \/ \E p \in Pred : NextMatch(r, p)

Next == \/ Statement \/ UpdateNext \/ InsertNext
        \/ \E r \in Reader : Read(r)
        \/ Commit \/ Rollback \/ Crash

(* A statement loops until it returns or throws. *)
Fairness == WF_vars(UpdateNext) /\ WF_vars(InsertNext)

Spec == Init /\ [][Next]_vars /\ Fairness

----------------------------------------------------------------------------
TypeOK ==
    /\ pages \in Seq([Slots -> Slot]) /\ Len(pages) <= MaxBlocks
    /\ saved \in Seq([Slots -> Slot]) /\ Len(saved) <= Len(pages)
    /\ scan \in [Scans -> [blk : Blocks, slot : 0..SlotsPerBlock,
                           status : {"closed", "open", "end"}, mark : RID \cup {NoRID}]]
    /\ pins \in [Blocks -> 0..Cardinality(Scans)]
    /\ stmt \in Stmts \cup {NoStmt}
    /\ result \in Nat

(* Every pin the transaction holds on the table is the position of exactly *)
(* one scan that is still in use: opening, moving, closing, a failed move  *)
(* and an abandoned statement leave no pin behind and take nobody else's   *)
(* (TableScan::close before every new RecordPage, tablescan.cpp:107).      *)
PinsMatchScans ==
    \A b \in Blocks :
        pins[b] = Cardinality({s \in Scans : scan[s].status # "closed" /\ scan[s].blk = b})

(* The pages with their cursors are a relation: a statement that finishes  *)
(* has changed exactly the rows it names and returns their number, a       *)
(* reader's pass meets every row that stays, once and in order, whatever   *)
(* statements run between its calls, and rows come back exactly after a    *)
(* rollback or a crash although the format of a block is not logged.       *)
Cursor(r) ==
    LET c == scan[r]
    IN  [status |-> c.status, mark |-> c.mark,
         at |-> IF c.status = "open" /\ c.slot # 0 THEN <<c.blk, c.slot>> ELSE NoRID]

SavedRows ==
    [r \in {q \in (1..Len(saved)) \X Slots : saved[q[1]][q[2]].flag = USED}
       |-> saved[r[1]][r[2]].rec]

Table == INSTANCE RowStore WITH
            rows <- IF stmt = NoStmt THEN Rows ELSE before,
            kept <- SavedRows,
            cursor <- [r \in Reader |-> Cursor(r)]

ImplementsRelation == Table!RelationSpec

(* Every statement comes to its end: no row, block or failed pin lets the  *)
(* loops of execute_delete, execute_modify and TableScan::insert stand     *)
(* still.                                                                  *)
StatementsEnd == stmt # NoStmt ~> stmt = NoStmt
============================================================================
