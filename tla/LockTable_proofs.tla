-------------------------- MODULE LockTable_proofs --------------------------
(***************************************************************************)
(* Proofs for every set of transactions and blocks.  LockInv, the type     *)
(* invariant with LockCount, is inductive: each call adds or removes one   *)
(* holder of a block exactly when it moves the entry by one.               *)
(***************************************************************************)
EXTENDS LockTable, FiniteSetTheorems, TLAPS

LockInv == LockTypeOK /\ LockCount

(* The holders of a block are finitely many, and their number is 0 exactly *)
(* when there is none (the Cardinality that LockCount speaks of is one).   *)
LEMMA HoldersFinite ==
  ASSUME NEW b \in Block
  PROVE  /\ IsFiniteSet(Holders(b))
         /\ Cardinality(Holders(b)) \in Nat
<1>1. Holders(b) \in SUBSET Tx
  BY DEF Holders
<1>2. IsFiniteSet(Holders(b))
  BY <1>1, TxFinite, FS_Subset
<1>. QED
  BY <1>2, FS_CardinalityType

(* Granting a block to a transaction that has none adds one holder and     *)
(* leaves the other blocks' holders alone.                                 *)
LEMMA GrantCounts ==
  ASSUME LockInv, NEW t \in Tx, NEW b \in Block, NEW m \in {"S", "X"},
         held[t][b] = "none", Grant(b), held' = [held EXCEPT ![t][b] = m]
  PROVE  LockInv'
<1>. USE DEF LockInv
<1>1. LockTypeOK'
  BY DEF LockTypeOK, Grant, Modes
<1>2. ASSUME NEW c \in Block
      PROVE  locks'[c] = Cardinality(Holders(c)')
  <2>1. CASE c = b
    <3>1. Holders(b)' = Holders(b) \cup {t}
      BY DEF Holders, LockTypeOK
    <3>2. t \notin Holders(b)
      BY DEF Holders
    <3>3. Cardinality(Holders(b)') = Cardinality(Holders(b)) + 1
      BY <3>1, <3>2, HoldersFinite, FS_AddElement
    <3>. QED
      BY <2>1, <3>3 DEF LockTypeOK, LockCount, Grant
  <2>2. CASE c # b
    <3>1. Holders(c)' = Holders(c)
      BY <2>2 DEF Holders, LockTypeOK
    <3>. QED
      BY <2>2, <3>1 DEF LockTypeOK, LockCount, Grant
  <2>. QED
    BY <2>1, <2>2
<1>. QED
  BY <1>1, <1>2 DEF LockCount

(* Upgrading S to X in the private map changes no holder and no entry. *)
LEMMA UpgradeCounts ==
  ASSUME LockInv, NEW t \in Tx, NEW b \in Block, held[t][b] = "S",
         UNCHANGED locks, held' = [held EXCEPT ![t][b] = "X"]
  PROVE  LockInv'
<1>. USE DEF LockInv
<1>1. LockTypeOK'
  BY DEF LockTypeOK, Modes
<1>2. \A c \in Block : Holders(c)' = Holders(c)
  BY DEF Holders, LockTypeOK
<1>. QED
  BY <1>1, <1>2 DEF LockCount

(* A release takes its transaction out of the holders of the blocks it     *)
(* held and off their entries, and touches no other block.                 *)
LEMMA ReleaseCounts ==
  ASSUME LockInv, NEW t \in Tx, Release(t)
  PROVE  LockInv'
<1>. USE DEF LockInv
<1>1. LockTypeOK'
  BY DEF LockTypeOK, Release, AfterUnlock, Modes
<1>2. ASSUME NEW c \in Block
      PROVE  locks'[c] = Cardinality(Holders(c)')
  <2>1. Holders(c)' = Holders(c) \ {t}
    BY DEF Holders, Release, LockTypeOK
  <2>2. Cardinality(Holders(c)') =
          IF t \in Holders(c) THEN Cardinality(Holders(c)) - 1
                              ELSE Cardinality(Holders(c))
    BY <2>1, HoldersFinite, FS_RemoveElement
  <2>3. CASE held[t][c] = "none"
    <3>1. t \notin Holders(c) /\ locks'[c] = locks[c]
      BY <2>3 DEF Holders, Release
    <3>. QED
      BY <2>2, <3>1 DEF LockCount
  <2>4. CASE held[t][c] # "none"
    <3>1. t \in Holders(c) /\ locks'[c] = AfterUnlock(locks[c])
      BY <2>4 DEF Holders, Release
    <3>2. Cardinality(Holders(c)) # 0
      BY <3>1, HoldersFinite, FS_EmptySet
    <3>. QED
      BY <2>2, <3>1, <3>2, HoldersFinite DEF LockCount, AfterUnlock
  <2>. QED
    BY <2>3, <2>4
<1>. QED
  BY <1>1, <1>2 DEF LockCount

LEMMA LockInit_Inv == LockInit => LockInv
<1>. SUFFICES ASSUME LockInit
              PROVE  LockInv
  OBVIOUS
<1>1. LockTypeOK
  BY DEF LockInit, NoLocks, NoModes, LockTypeOK, Modes
<1>2. \A b \in Block : Holders(b) = {}
  BY DEF LockInit, NoModes, Holders
<1>. QED
  BY <1>1, <1>2, FS_EmptySet DEF LockInv, LockCount, LockInit, NoLocks

LEMMA LockNext_Inv == LockInv /\ [LockNext]_lockVars => LockInv'
<1>. SUFFICES ASSUME LockInv, [LockNext]_lockVars
              PROVE  LockInv'
  OBVIOUS
<1>1. ASSUME NEW t \in Tx, Release(t)
      PROVE  LockInv'
  BY <1>1, ReleaseCounts
<1>2. ASSUME NEW t \in Tx, NEW b \in Block, SLock(t, b)
      PROVE  LockInv'
  BY <1>2, GrantCounts DEF SLock
<1>3. ASSUME NEW t \in Tx, NEW b \in Block, XLock(t, b)
      PROVE  LockInv'
  <2>1. CASE held[t][b] = "S" /\ UNCHANGED locks
    BY <1>3, <2>1, UpgradeCounts DEF XLock
  <2>2. CASE held[t][b] = "none" /\ Grant(b)
    BY <1>3, <2>2, GrantCounts DEF XLock
  <2>. QED
    BY <1>3, <2>1, <2>2 DEF XLock
<1>4. CASE UNCHANGED lockVars
  BY <1>4 DEF LockInv, LockTypeOK, LockCount, Holders, lockVars
<1>. QED
  BY <1>1, <1>2, <1>3, <1>4 DEF LockNext

(* The entry of every block counts its holders in every reachable state:   *)
(* no release is lost or doubled, whatever the order of calls.             *)
THEOREM LockCountInvariant == LockSpec => [](LockTypeOK /\ LockCount)
<1>. QED
  BY LockInit_Inv, LockNext_Inv, PTL DEF LockSpec, LockInv

(* No step of one transaction weakens a lock of another, and a weakening   *)
(* of its own is the full release.                                         *)
THEOREM LocksStrictTwoPhase == LockSpec => StrictTwoPhase
<1>1. LockTypeOK /\ [LockNext]_lockVars =>
        [\A t \in Tx : Weakened(t) => \A b \in Block : held'[t][b] = "none"]_lockVars
  <2>. SUFFICES ASSUME LockTypeOK, LockNext, NEW t \in Tx, Weakened(t),
                       NEW b \in Block
                PROVE  held'[t][b] = "none"
    BY DEF lockVars
  <2>1. PICK u \in Tx : \/ Release(u)
                        \/ \E c \in Block : SLock(u, c) \/ XLock(u, c)
    BY DEF LockNext
  <2>2. CASE Release(u)
    BY <2>2 DEF Release, Weakened, LockTypeOK
  <2>3. ASSUME NEW c \in Block, SLock(u, c) \/ XLock(u, c)
        PROVE  FALSE
    BY <2>3 DEF SLock, XLock, Weakened, LockTypeOK
  <2>. QED
    BY <2>1, <2>2, <2>3
<1>. QED
  BY <1>1, LockCountInvariant, PTL DEF LockSpec, StrictTwoPhase
============================================================================
