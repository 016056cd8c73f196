---------------------------- MODULE FileThreads ----------------------------
(***************************************************************************)
(* Threads that run transactions over the file manager: Transaction::size  *)
(* and Transaction::append take a lock on the end of the file and then     *)
(* call it (transaction.cpp); the buffer pool reads and writes blocks      *)
(* without one.  A thread runs one transaction after the other.            *)
(*                                                                         *)
(* The lock table keeps nobody out, so the size and the append of two      *)
(* transactions overlap.  Blocks to lock are the ends of the files.        *)
(***************************************************************************)
EXTENDS LockTable, SequencesExt

CONSTANTS TempFile, Value, Zero, None,
          MaxBlocks,     \* bound: blocks of a file
          MaxCalls,      \* bound: calls of the file manager
          MaxRestarts    \* bound: restarts

ASSUME FileThreadsAssumption ==
    /\ {MaxBlocks, MaxCalls, MaxRestarts} \subseteq Nat
    /\ None \notin Tx \cup Block \cup Nat
    /\ TempFile \subseteq Block

VARIABLES files, open_files, mutex, req, reply, raced, old,
          calls, restarts

INSTANCE FileMgr WITH Thread <- Tx, File <- Block

mgrVars == <<files, open_files, mutex, req, reply, raced, old>>
vars == <<lockVars, mgrVars, calls, restarts>>

Init == LockInit /\ FileInit /\ calls = 0 /\ restarts = 0

Idle(t) == req[t] = NoReq

Counted == calls < MaxCalls /\ calls' = calls + 1 /\ UNCHANGED restarts

(* Transaction::size. *)
Size(t, f) ==
    /\ Idle(t)
    /\ \/ SLock(t, f)
       \/ held[t][f] # "none" /\ UNCHANGED lockVars
    /\ Call(t, "length", f, None, None)
    /\ Counted

(* Transaction::append. *)
AppendBlock(t, f) ==
    /\ Idle(t)
    /\ Length(f) + Cardinality({u \in Tx : req[u].file = f /\ req[u].op = "append"}) < MaxBlocks
    /\ \/ XLock(t, f)
       \/ held[t][f] = "X" /\ UNCHANGED lockVars
    /\ Call(t, "append", f, None, None)
    /\ Counted

(* A buffer whose page holds v is loaded or flushed, its block in the file *)
(* or not.                                                                 *)
Load(t, f, b, v) == /\ Idle(t)
                    /\ Call(t, "read", f, b, v)
                    /\ Counted /\ UNCHANGED lockVars

Flush(t, f, b, v) == /\ Idle(t)
                     /\ Call(t, "write", f, b, v)
                     /\ Counted /\ UNCHANGED lockVars

End(t) == /\ Idle(t)
          /\ Release(t)
          /\ UNCHANGED <<mgrVars, calls, restarts>>

Work(t) == FileStep(t) /\ UNCHANGED <<lockVars, calls, restarts>>

Restart == /\ restarts < MaxRestarts
           /\ restarts' = restarts + 1
           /\ FileRestart
           /\ locks' = NoLocks /\ held' = NoModes
           /\ UNCHANGED calls

Next == \/ Restart
        \/ \E t \in Tx :
             \/ Work(t) \/ End(t)
             \/ \E f \in Block :
                  \/ Size(t, f) \/ AppendBlock(t, f)
                  \/ \E b \in 0..(MaxBlocks - 1) :
                       \/ \E v \in Content : Load(t, f, b, v)
                       \/ \E v \in Value : Flush(t, f, b, v)

(* The scheduler runs every thread that can go on, until a race has broken *)
(* the map: then a call may never come back.  That a thread gets the mutex *)
(* follows from the others' calls being finitely many.                     *)
Fairness == \A t \in Tx : WF_vars(~raced /\ Work(t))

Spec == Init /\ [][Next]_vars /\ Fairness

----------------------------------------------------------------------------
TypeOK == LockTypeOK /\ FileTypeOK /\ calls \in 0..MaxCalls /\ restarts \in 0..MaxRestarts
=============================================================================
