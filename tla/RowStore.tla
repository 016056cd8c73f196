------------------------------ MODULE RowStore ------------------------------
(***************************************************************************)
(* What a table promises: rows under identifiers that never change while   *)
(* the row lives, statements that take effect at once and report how many  *)
(* rows they changed, cursors that pass over the rows in the order of      *)
(* their identifiers, and commit, rollback and crash of the whole.         *)
(***************************************************************************)
EXTENDS Integers, FiniteSets

CONSTANTS Field, Value,
          RID,                  \* pairs <<block, slot>>
          Reader, Pred, NewRow, Expr

VARIABLES rows,     \* a function from the identifiers in use to records
          kept,     \* the rows at the last commit
          cursor,   \* of every reader
          result    \* of the latest statement

relationVars == <<rows, kept, cursor, result>>

(* A predicate is a conjunction of field = constant; no term is TRUE. *)
Sat(rec, p) == \A f \in DOMAIN p : rec[f] = p[f]
Eval(rec, e) == IF e \in Field THEN rec[e] ELSE e
Before(r, s) == r[1] < s[1] \/ (r[1] = s[1] /\ r[2] < s[2])
Least(S) == CHOOSE r \in S : \A s \in S : r = s \/ Before(r, s)

Start  == <<0, 0>>
Closed == [status |-> "closed", at |-> Start, mark |-> Start]

Matching(p) == {r \in DOMAIN rows : Sat(rows[r], p)}
Without(S)  == [r \in DOMAIN rows \ S |-> rows[r]]
Updated(S, f, e) ==
    [r \in DOMAIN rows |-> IF r \in S THEN [rows[r] EXCEPT ![f] = Eval(rows[r], e)]
                                      ELSE rows[r]]

RelationInit == /\ rows = << >> /\ kept = << >>
                /\ cursor = [r \in Reader |-> Closed]
                /\ result = 0

(* A new row takes a free identifier; fields that are not given are whatever. *)
InsertRow(vals) ==
    /\ \E id \in RID \ DOMAIN rows, rec \in [Field -> Value] :
         /\ \A f \in DOMAIN vals : rec[f] = vals[f]
         /\ rows' = [r \in DOMAIN rows \cup {id} |-> IF r = id THEN rec ELSE rows[r]]
    /\ result' = 1
    /\ UNCHANGED <<kept, cursor>>

DeleteRows(p) == /\ rows' = Without(Matching(p))
                 /\ result' = Cardinality(Matching(p))
                 /\ UNCHANGED <<kept, cursor>>

ModifyRows(p, f, e) == /\ rows' = Updated(Matching(p), f, e)
                       /\ result' = Cardinality(Matching(p))
                       /\ UNCHANGED <<kept, cursor>>

(* A statement that is broken off has changed some of its rows. *)
BrokenOff == /\ \E p \in Pred, S \in SUBSET DOMAIN rows :
                  /\ S \subseteq Matching(p)
                  /\ \/ rows' = Without(S)
                     \/ \E f \in Field, e \in Expr : rows' = Updated(S, f, e)
             /\ UNCHANGED <<kept, cursor, result>>

Put(r, c) == /\ cursor' = [cursor EXCEPT ![r] = c]
             /\ UNCHANGED <<rows, kept, result>>

Open(r)   == Put(r, [status |-> "open", at |-> Start, mark |-> cursor[r].mark])
Close(r)  == Put(r, Closed)
Mark(r)   == /\ cursor[r].at # Start
             /\ Put(r, [cursor[r] EXCEPT !.mark = cursor[r].at])
Return(r) == /\ cursor[r].mark # Start
             /\ Put(r, [cursor[r] EXCEPT !.status = "open", !.at = cursor[r].mark])

(* The next row after the cursor that satisfies the predicate, or the end. *)
Advance(r, p) ==
    /\ cursor[r].status = "open"
    /\ LET ahead == {id \in Matching(p) : Before(cursor[r].at, id)}
       IN  Put(r, IF ahead = {}
                  THEN [cursor[r] EXCEPT !.status = "end", !.at = Start]
                  ELSE [cursor[r] EXCEPT !.at = Least(ahead)])

KeepRows   == /\ kept' = rows
              /\ cursor' = [r \in Reader |-> Closed]
              /\ UNCHANGED <<rows, result>>
ForgetRows == /\ rows' = kept
              /\ cursor' = [r \in Reader |-> Closed]
              /\ UNCHANGED <<kept, result>>

RelationNext ==
    \/ \E vals \in NewRow : InsertRow(vals)
    \/ \E p \in Pred : DeleteRows(p) \/ \E f \in Field, e \in Expr : ModifyRows(p, f, e)
    \/ BrokenOff
    \/ \E r \in Reader :
         Open(r) \/ Close(r) \/ Mark(r) \/ Return(r) \/ \E p \in Pred : Advance(r, p)
    \/ KeepRows \/ ForgetRows

RelationSpec == RelationInit /\ [][RelationNext]_relationVars
============================================================================
