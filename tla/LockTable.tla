----------------------------- MODULE LockTable -----------------------------
(***************************************************************************)
(* Block locks: the process-wide LockTable (locktable.cpp) and the private *)
(* lock map every transaction keeps in its ConcurrencyMgr                  *)
(* (concurrencymgr.cpp).                                                   *)
(*                                                                         *)
(* An entry of the table is an int32: positive counts shared holders,      *)
(* negative is meant to be an exclusive lock, no entry reads as 0.  Every  *)
(* call runs under one global mutex, including the sleep of a waiting      *)
(* s_lock, so a call is one step and nothing can end a wait but its        *)
(* timeout: a request that finds an exclusive lock throws and changes      *)
(* nothing, which is the stuttering step of a disabled SLock or XLock.     *)
(***************************************************************************)
EXTENDS Integers, FiniteSets

CONSTANTS Tx,     \* the transactions of the process
          Block   \* the lockable blocks (the end-of-file dummy is one)

ASSUME TxFinite == IsFiniteSet(Tx)

VARIABLES locks,  \* LockTable::locks_, total: 0 where the map has no entry
          held    \* ConcurrencyMgr::locks_ of every transaction

lockVars == <<locks, held>>

Modes == {"none", "S", "X"}

Holders(b) == {t \in Tx : held[t][b] # "none"}

(* Never negative: no sequence of calls enters an exclusive lock into the   *)
(* table, so the waiting loop and the throw of s_lock are unreachable.     *)
LockTypeOK == /\ locks \in [Block -> Nat]
              /\ held  \in [Tx -> [Block -> Modes]]

NoLocks == [b \in Block |-> 0]
NoModes == [t \in Tx |-> [b \in Block |-> "none"]]

LockInit == locks = NoLocks /\ held = NoModes

HasXLock(b) == locks[b] < 0

----------------------------------------------------------------------------
(* LockTable::s_lock and LockTable::unlock as functions on the table. *)
Grant(b) == /\ ~HasXLock(b)
            /\ locks' = [locks EXCEPT ![b] = @ + 1]

AfterUnlock(val) == IF val > 1 THEN val - 1 ELSE 0

(* Mutant: s_lock without its look into the transaction's own map. *)
SLockAgain(t, b) == /\ Grant(b)
                    /\ held' = [held EXCEPT ![t][b] = "S"]

SLock(t, b) == /\ held[t][b] = "none"
               /\ Grant(b)
               /\ held' = [held EXCEPT ![t][b] = "S"]

(* Mutant: an upgrade that asks the table a second time. *)
XLockTwice(t, b) == /\ held[t][b] # "X"
                    /\ Grant(b)
                    /\ held' = [held EXCEPT ![t][b] = "X"]

(* x_lock takes a shared lock if the transaction has none, then records    *)
(* "X" in its own map; the table is not told.                              *)
XLock(t, b) == /\ held[t][b] # "X"
               /\ \/ held[t][b] = "S" /\ UNCHANGED locks
                  \/ held[t][b] = "none" /\ Grant(b)
               /\ held' = [held EXCEPT ![t][b] = "X"]

Release(t) ==
    /\ locks' = [b \in Block |-> IF held[t][b] = "none" THEN locks[b]
                                 ELSE AfterUnlock(locks[b])]
    /\ held' = [held EXCEPT ![t] = [b \in Block |-> "none"]]

LockNext == \E t \in Tx : \/ Release(t)
                          \/ \E b \in Block : SLock(t, b) \/ XLock(t, b)

LockSpec == LockInit /\ [][LockNext]_lockVars

----------------------------------------------------------------------------
(* The shared table counts exactly the transactions whose private maps     *)
(* hold the block, whatever they did before: an upgrade from S to X is not *)
(* counted twice, a release drops each lock once, and no entry outlives    *)
(* its holders (concurrencymgr.cpp s_lock/x_lock/release against           *)
(* locktable.cpp s_lock/unlock).                                           *)
LockCount == \A b \in Block : locks[b] = Cardinality(Holders(b))

(* Strict two-phase locking: a transaction's locks only grow in strength   *)
(* (a read after a write keeps the X), until the release of commit or      *)
(* rollback drops all of them at once.                                     *)
Weakened(t) == \E b \in Block : \/ held[t][b] # "none" /\ held'[t][b] = "none"
                                \/ held[t][b] = "X" /\ held'[t][b] # "X"

StrictTwoPhase ==
    [][\A t \in Tx : Weakened(t) => \A b \in Block : held'[t][b] = "none"]_lockVars
============================================================================
