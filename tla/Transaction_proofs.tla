------------------------- MODULE Transaction_proofs -------------------------
(***************************************************************************)
(* Proofs about transactions, for every set of blocks, locations and       *)
(* values, any pool and any bounds.                                        *)
(***************************************************************************)
EXTENDS Transaction, SequenceLemmas, FiniteSetTheorems, TLAPS

(* What BufferPool and LockTable are proved to do, for this pool and lock  *)
(* table.                                                                  *)
PP == INSTANCE BufferPool_proofs WITH LogRecord <- Record, CanPinMissing <- FALSE,
                                      MaxLog <- 0
LP == INSTANCE LockTable_proofs WITH Block <- Lockable

LEMMA PoolAssumed ==
  /\ NumBuffers \in Nat \ {0} /\ MaxPins \in Nat \ {0} /\ 0 \in Nat
  /\ Zero \in Value /\ None \notin Tx \cup Block
  /\ Missing \notin [Offset -> Value] /\ FALSE \in BOOLEAN
BY TransactionAssumption DEF Tx, MaxPins

LEMMA TxFinite == IsFiniteSet(Tx)
BY FS_Interval, TransactionAssumption DEF Tx

(* The operators of Pool and of PP are instances of the same definitions.  *)
LEMMA SamePool ==
  /\ PP!PoolTypeOK <=> Pool!PoolTypeOK
  /\ PP!PoolStart <=> Pool!PoolStart
  /\ PP!View = Pool!View
  /\ PP!Idle <=> Pool!Idle
  /\ \A t : PP!Ready(t) <=> Pool!Ready(t)
BY Zenon
   DEF PP!Buffers, PP!Contents, PP!ZeroPage, PP!Buffer, PP!NewBuffer,
       PP!Entry, PP!NoEntry, PP!Calls, PP!NoCall, PP!EmptyPool,
       PP!NoPins, PP!NoWaits, PP!View, PP!Hits, PP!First, PP!PoolTypeOK,
       PP!PoolStart, PP!Idle, PP!Ready, Pool!Buffers, Pool!Contents,
       Pool!ZeroPage, Pool!Buffer, Pool!NewBuffer, Pool!Entry,
       Pool!NoEntry, Pool!Calls, Pool!NoCall, Pool!EmptyPool,
       Pool!NoPins, Pool!NoWaits, Pool!View, Pool!Hits, Pool!First,
       Pool!PoolTypeOK, Pool!PoolStart, Pool!Idle, Pool!Ready

LEMMA SameStep == PP!PoolStep <=> Pool!PoolStep
BY Zenon
   DEF PP!Buffers, PP!Contents, PP!ZeroPage, PP!Buffer, PP!NewBuffer,
       PP!Entry, PP!NoEntry, PP!Calls, PP!NoCall, PP!Log!Latest,
       PP!Log!LogAppend, PP!Log!LogFlush, PP!Log!LogFlushAll,
       PP!Log!logVars, PP!Pinned, PP!Hits, PP!Free, PP!Dirty, PP!First,
       PP!Idle, PP!Ready, PP!Step, PP!PoolStep, PP!WritePage, PP!PinHit,
       PP!PinEvict, PP!PinLoad, PP!PinFull, PP!FlushAllStep,
       PP!FlushAllDone, PP!FlushLog, PP!Take, PP!PinMiss, PP!Assigned,
       Pool!Buffers, Pool!Contents, Pool!ZeroPage, Pool!Buffer,
       Pool!NewBuffer, Pool!Entry, Pool!NoEntry, Pool!Calls,
       Pool!NoCall, Pool!Log!Latest, Pool!Log!LogAppend,
       Pool!Log!LogFlush, Pool!Log!LogFlushAll, Pool!Log!logVars,
       Pool!Pinned, Pool!Hits, Pool!Free, Pool!Dirty, Pool!First,
       Pool!Idle, Pool!Ready, Pool!Step, Pool!PoolStep, Pool!WritePage,
       Pool!PinHit, Pool!PinEvict, Pool!PinLoad, Pool!PinFull,
       Pool!FlushAllStep, Pool!FlushAllDone, Pool!FlushLog, Pool!Take,
       Pool!PinMiss, Pool!Assigned

LEMMA SameCalls ==
  /\ \A t, b : /\ PP!PinCall(t, b) <=> Pool!PinCall(t, b)
               /\ PP!Unpin(t, b) <=> Pool!Unpin(t, b)
  /\ \A t : /\ PP!PinRetry(t) <=> Pool!PinRetry(t)
            /\ PP!PinTimeout(t) <=> Pool!PinTimeout(t)
            /\ PP!FlushAllCall(t) <=> Pool!FlushAllCall(t)
            /\ PP!DropPins(t) <=> Pool!DropPins(t)
  /\ \A b : PP!FileAppend(b) <=> Pool!FileAppend(b)
  /\ \A t, b, o, v : PP!WriteUnlogged(t, b, o, v) <=> Pool!WriteUnlogged(t, b, o, v)
  /\ \A t, b, o, v, r : PP!WriteLogged(t, b, o, v, r) <=> Pool!WriteLogged(t, b, o, v, r)
<1>1. \A t, b : PP!PinCall(t, b) <=> Pool!PinCall(t, b)
  BY Zenon
     DEF PP!PinCall, PP!Idle, PP!Ready, PP!NoCall, Pool!PinCall,
       Pool!Idle, Pool!Ready, Pool!NoCall
<1>2. \A t, b : PP!Unpin(t, b) <=> Pool!Unpin(t, b)
  BY Zenon
     DEF PP!Unpin, PP!Idle, PP!Ready, PP!NoCall, PP!UnpinBuffer,
       PP!OneLess, PP!NoEntry, Pool!Unpin, Pool!Idle, Pool!Ready,
       Pool!NoCall, Pool!UnpinBuffer, Pool!OneLess, Pool!NoEntry
<1>3. \A t : PP!PinRetry(t) <=> Pool!PinRetry(t)
  BY Zenon
     DEF PP!PinRetry, PP!Idle, PP!NoCall, Pool!PinRetry, Pool!Idle,
       Pool!NoCall
<1>4. \A t : PP!PinTimeout(t) <=> Pool!PinTimeout(t)
  BY Zenon
     DEF PP!PinTimeout, Pool!PinTimeout
<1>5. \A t : PP!FlushAllCall(t) <=> Pool!FlushAllCall(t)
  BY Zenon
     DEF PP!FlushAllCall, PP!Idle, PP!Ready, PP!NoCall, Pool!FlushAllCall,
       Pool!Idle, Pool!Ready, Pool!NoCall
<1>6. \A t : PP!DropPins(t) <=> Pool!DropPins(t)
  <2>1. \A t, i : PP!PinsOn(t, i) = Pool!PinsOn(t, i)
    BY Zenon DEF PP!PinsOn, Pool!PinsOn
  <2>2. PP!Buffers = Pool!Buffers /\ PP!NoEntry = Pool!NoEntry
    BY Zenon DEF PP!Buffers, Pool!Buffers, PP!NoEntry, Pool!NoEntry
  <2>3. ASSUME NEW t, NEW i
        PROVE  [pool[i] EXCEPT !.pins = @ - PP!PinsOn(t, i)]
                  = [pool[i] EXCEPT !.pins = @ - Pool!PinsOn(t, i)]
    <3>1. PP!PinsOn(t, i) = Pool!PinsOn(t, i)
      BY <2>1
    <3>. QED
      BY <3>1, Zenon
  <2>4. ASSUME NEW t
        PROVE  {i \in PP!Buffers : PP!PinsOn(t, i) > 0 /\ pool[i].pins = PP!PinsOn(t, i)}
                  = {i \in Pool!Buffers : Pool!PinsOn(t, i) > 0
                                           /\ pool[i].pins = Pool!PinsOn(t, i)}
    BY <2>1, <2>2, Zenon
  <2>5. ASSUME NEW t
        PROVE  [i \in PP!Buffers |-> [pool[i] EXCEPT !.pins = @ - PP!PinsOn(t, i)]]
                  = [i \in Pool!Buffers |-> [pool[i] EXCEPT !.pins = @ - Pool!PinsOn(t, i)]]
    BY <2>2, <2>3, Zenon
  <2>6. \A S : PP!Cardinality(S) = Pool!Cardinality(S)
    BY Zenon DEF PP!Cardinality, Pool!Cardinality
  <2>. SUFFICES ASSUME NEW t PROVE PP!DropPins(t) <=> Pool!DropPins(t)
    OBVIOUS
  <2>7. available + PP!Cardinality({i \in PP!Buffers : /\ PP!PinsOn(t, i) > 0
                                                      /\ pool[i].pins = PP!PinsOn(t, i)})
          = available + Pool!Cardinality({i \in Pool!Buffers :
                                             /\ Pool!PinsOn(t, i) > 0
                                             /\ pool[i].pins = Pool!PinsOn(t, i)})
    BY <2>4, <2>6, Zenon
  <2>. QED
    BY <2>2, <2>5, <2>7, Zenon DEF PP!DropPins, Pool!DropPins
<1>7. \A b : PP!FileAppend(b) <=> Pool!FileAppend(b)
  BY Zenon
     DEF PP!FileAppend, PP!Idle, PP!NoCall, PP!ZeroPage, Pool!FileAppend,
       Pool!Idle, Pool!NoCall, Pool!ZeroPage
<1>8. \A t, b, o, v : PP!WriteUnlogged(t, b, o, v) <=> Pool!WriteUnlogged(t, b, o, v)
  BY Zenon
     DEF PP!WriteUnlogged, PP!Modified, PP!Idle, PP!Ready, PP!NoCall,
       Pool!WriteUnlogged, Pool!Modified, Pool!Idle, Pool!Ready,
       Pool!NoCall
<1>9. \A t, b, o, v, r : PP!WriteLogged(t, b, o, v, r) <=> Pool!WriteLogged(t, b, o, v, r)
  <2>1. \A r : PP!Log!LogAppend(r) <=> Pool!Log!LogAppend(r)
    BY Zenon DEF PP!Log!LogAppend, Pool!Log!LogAppend, PP!Log!Latest, Pool!Log!Latest
  <2>2. \A buff, t, o, v, n : PP!Modified(buff, t, o, v, n) = Pool!Modified(buff, t, o, v, n)
    BY Zenon DEF PP!Modified, Pool!Modified
  <2>3. PP!Log!Latest = Pool!Log!Latest
    BY Zenon DEF PP!Log!Latest, Pool!Log!Latest
  <2>4. \A t : PP!Ready(t) <=> Pool!Ready(t)
    BY Zenon DEF PP!Ready, Pool!Ready, PP!Idle, Pool!Idle, PP!NoCall, Pool!NoCall
  <2>. QED
    BY <2>1, <2>2, <2>3, <2>4, SMT DEF PP!WriteLogged, Pool!WriteLogged
<1>. QED
  BY <1>1, <1>2, <1>3, <1>4, <1>5, <1>6, <1>7, <1>8, <1>9, Zenon

LEMMA SameLocks ==
  /\ LP!LockTypeOK <=> Locks!LockTypeOK
  /\ LP!LockInit <=> Locks!LockInit
  /\ \A t, b : /\ LP!SLock(t, b) <=> Locks!SLock(t, b)
               /\ LP!XLock(t, b) <=> Locks!XLock(t, b)
  /\ \A t : LP!Release(t) <=> Locks!Release(t)
BY Zenon DEF LP!LockTypeOK, LP!Modes, LP!LockInit, LP!NoLocks, LP!NoModes, LP!SLock,
             LP!XLock, LP!Release, LP!Grant, LP!HasXLock, LP!AfterUnlock,
             Locks!LockTypeOK, Locks!Modes, Locks!LockInit, Locks!NoLocks, Locks!NoModes,
             Locks!SLock, Locks!XLock, Locks!Release, Locks!Grant, Locks!HasXLock,
             Locks!AfterUnlock

----------------------------------------------------------------------------
(* The records and the calls in progress have their shape, whatever the    *)
(* clients do, whether processes recover or not.                           *)
SetRecords == [op : {"SET"}, tx : Tx, blk : Block, off : Offset, val : Value]

SetsTyped == \A i \in 1..Len(log) : log[i].op = "SET" => log[i] \in SetRecords

(* Only the calls that undo wait for the pool; the last phases do not.     *)
CtlOK == /\ ctl.op = "none" => ctl = NoCtl
         /\ ctl.op # "none" => Me \in Tx /\ ctl.at # "start"
         /\ ctl.op = "commit" => ctl.at \in {"log", "end"}
         /\ ctl.undo \in Seq(SetRecords)
         /\ ctl.at \in {"set", "unpin"} => ctl.undo # <<>>
         /\ ctl.at \in {"scan", "log", "end"} => ctl.undo = <<>>
         /\ ctl.at \in {"log", "end"} => waiting[Me] = None /\ call.op # "pin"
         /\ ctl.at = "end" => PP!Idle

States == {"none", "active", "broken", "committed", "rolled back"}
Ctls == [op : {"none", "commit", "rollback", "recover"}, tx : Tx \cup {None},
         at : {"start", "scan", "undo", "set", "unpin", "log", "end"}, undo : Seq(Record)]

TxTypeOK == /\ nextTx \in 0..MaxTx /\ state \in [Tx -> States] /\ ctl \in Ctls
            /\ recovered \in BOOLEAN /\ torn \in BOOLEAN
            /\ writes \in [Tx -> [Block -> [Offset -> Value \cup {None}]]]
            /\ begins \in 0..MaxBegins /\ crashes \in 0..MaxCrashes

Base == PP!StoreInv /\ LP!LockInv /\ TxTypeOK /\ SetsTyped /\ CtlOK

----------------------------------------------------------------------------
(* What each call does to the pool and to what clients see of it. *)
LEMMA ViewNext == PP!PoolInv' => PP!ViewIs'
BY PP!ViewOf, PoolAssumed, PTL

LEMMA ViewNow == PP!StoreInv => PP!ViewIs
BY PP!ViewOf, PoolAssumed DEF PP!StoreInv

LEMMA ClientCall ==
  ASSUME PP!StoreInv, NEW t \in Tx, PP!ClientStep(t)
  PROVE  /\ PP!StoreInv'
         /\ \/ PP!View' = PP!View
            \/ /\ PP!Idle /\ PP!Idle'
               /\ \E b \in Block, o \in Offset, v \in Value : PP!Store!StoreWrite(b, o, v)
<1>1. PP!PoolInv' /\ PP!ViewIs /\ PP!ViewIs'
  BY PP!ClientStep_Inv, PoolAssumed, TxFinite, ViewNow, ViewNext DEF PP!StoreInv
<1>. QED
  BY <1>1, PP!ClientStep_View, PoolAssumed DEF PP!StoreInv

LEMMA PoolCall ==
  ASSUME PP!StoreInv, PP!PoolStep
  PROVE  PP!StoreInv' /\ PP!View' = PP!View
<1>1. PP!PoolInv' /\ PP!ViewIs /\ PP!ViewIs'
  BY PP!PoolStep_Inv, PoolAssumed, TxFinite, ViewNow, ViewNext DEF PP!StoreInv
<1>. QED
  BY <1>1, PP!PoolStep_View, PoolAssumed DEF PP!StoreInv

LEMMA AppendCall ==
  ASSUME PP!StoreInv, NEW b \in Block, PP!FileAppend(b)
  PROVE  PP!StoreInv' /\ PP!Store!StoreAppend(b)
<1>1. PP!PoolInv' /\ PP!ViewIs /\ PP!ViewIs'
  BY PP!FileAppendInv, PoolAssumed, TxFinite, ViewNow, ViewNext DEF PP!StoreInv
<1>. QED
  BY <1>1, PP!FileAppend_View, PoolAssumed DEF PP!StoreInv

LEMMA WriteCall ==
  ASSUME PP!StoreInv, NEW t \in Tx, NEW b \in Block, NEW o \in Offset, NEW v \in Value,
         NEW r \in Record, PP!WriteLogged(t, b, o, v, r)
  PROVE  PP!StoreInv' /\ PP!Store!StoreWrite(b, o, v)
<1>1. Len(log) \in Nat /\ durable \in 0..Len(log) /\ log \in Seq(Record)
  BY DEF PP!StoreInv, PP!PoolInv, PP!LogOK, PP!Log!LogTypeOK
<1>2. log' \in Seq(Record) /\ Len(log') = Len(log) + 1 /\ durable' \in 0..Len(log')
  BY <1>1 DEF PP!WriteLogged, PP!Log!LogAppend, PP!Log!Latest
<1>3. PICK lsn \in Nat : lsn = Len(log) + 1
  BY <1>1
<1>4. /\ PP!Idle /\ mine[t][b].buf # 0
      /\ pool' = [pool EXCEPT ![mine[t][b].buf] = PP!Modified(@, t, o, v, lsn)]
      /\ UNCHANGED <<disk, available, mine, waiting, call, flushing>>
  BY <1>3, SMT DEF PP!WriteLogged, PP!Log!Latest, PP!Ready
<1>5. Len(log) <= Len(log') /\ lsn <= Len(log')
  BY <1>1, <1>2, <1>3
<1>6. PP!PoolInv' /\ PP!ViewIs /\ PP!ViewIs'
  BY <1>2, <1>4, <1>5, PP!ModifyInv, PoolAssumed, TxFinite, ViewNow, ViewNext DEF PP!StoreInv
<1>. QED
  BY <1>4, <1>6, PP!ModifyView, PoolAssumed DEF PP!StoreInv

LEMMA LogMoves ==
  ASSUME PP!StoreInv, UNCHANGED poolVars, PP!Log!LogTypeOK', Len(log) <= Len(log'),
         durable <= durable'
  PROVE  PP!StoreInv' /\ PP!View' = PP!View
<1>1. PP!PoolInv' /\ PP!ViewIs /\ PP!ViewIs'
  BY PP!LogMovesInv, PoolAssumed, TxFinite, ViewNow, ViewNext DEF PP!StoreInv, poolVars
<1>2. PP!View' = PP!View
  BY <1>1, PP!ViewKept, PoolAssumed DEF poolVars
<1>3. PP!CleanOK'
  BY PP!CleanKept, PoolAssumed DEF PP!StoreInv, poolVars
<1>. QED
  BY <1>1, <1>2, <1>3 DEF PP!StoreInv

LEMMA DropCall ==
  ASSUME PP!StoreInv, NEW t \in Tx, PP!Idle, waiting[t] = None, PP!DropPins(t),
         UNCHANGED <<disk, waiting, call, flushing>>,
         PP!Log!LogTypeOK', Len(log) <= Len(log')
  PROVE  PP!StoreInv' /\ PP!View' = PP!View /\ PP!SameBuffers
<1>1. PP!SameBuffers
  BY PP!DropPinsFrame, PoolAssumed, TxFinite DEF PP!StoreInv
<1>2. PP!PoolInv' /\ PP!ViewIs /\ PP!ViewIs'
  BY PP!DropPinsInv, PoolAssumed, TxFinite, ViewNow, ViewNext DEF PP!StoreInv
<1>3. PP!View' = PP!View
  BY <1>1, <1>2, PP!ViewKept, PoolAssumed DEF PP!SameBuffers
<1>4. PP!CleanOK'
  BY <1>1, PP!CleanKept, PoolAssumed DEF PP!StoreInv, PP!SameBuffers
<1>. QED
  BY <1>1, <1>2, <1>3, <1>4 DEF PP!StoreInv

----------------------------------------------------------------------------
(* The undo loops run over NewestFirst: a location ends up with the value  *)
(* of its oldest record, and one without a record keeps what it has.       *)
AtLoc(r, b, o) == r.blk = b /\ r.off = o
Settles(u, b, o, v) == \E k \in 1..Len(u) :
    /\ AtLoc(u[k], b, o) /\ u[k].val = v
    /\ \A j \in 1..Len(u) : j > k => ~ AtLoc(u[j], b, o)
Spares(u, b, o) == \A k \in 1..Len(u) : ~ AtLoc(u[k], b, o)

Oldest(i, A) == i \in A /\ \A j \in A : i <= j
FoundAt(l, S, n, b, o) == {i \in S : i <= n /\ AtLoc(l[i], b, o)}

Collects(u, l, S, n) ==
    /\ u \in Seq(SetRecords)
    /\ \A k \in 1..Len(u) : \E i \in S : u[k] = l[i]
    /\ \A b \in Block, o \in Offset :
          \/ FoundAt(l, S, n, b, o) = {} /\ Spares(u, b, o)
          \/ \E i : Oldest(i, FoundAt(l, S, n, b, o)) /\ Settles(u, b, o, l[i].val)

LEMMA Prepended ==
  ASSUME NEW x \in SetRecords, NEW u \in Seq(SetRecords), NEW w, w = <<x>> \o u
  PROVE  /\ w \in Seq(SetRecords) /\ Len(w) = Len(u) + 1 /\ Len(u) \in Nat
         /\ w[1] = x /\ \A k \in 1..Len(u) : w[k + 1] = u[k]
         /\ \A k \in 1..Len(w) : k = 1 \/ (k - 1 \in 1..Len(u) /\ w[k] = u[k - 1])
<1>1. <<x>> \in Seq(SetRecords) /\ Len(<<x>>) = 1 /\ <<x>>[1] = x /\ Len(u) \in Nat
  OBVIOUS
<1>2. /\ w \in Seq(SetRecords) /\ Len(w) = 1 + Len(u)
      /\ \A k \in 1..(1 + Len(u)) : w[k] = IF k <= 1 THEN <<x>>[k] ELSE u[k - 1]
  BY <1>1, ConcatProperties
<1>. QED
  BY <1>1, <1>2

LEMMA PrependedUndo ==
  ASSUME NEW x \in SetRecords, NEW u \in Seq(SetRecords), NEW w, w = <<x>> \o u,
         NEW b, NEW o
  PROVE  /\ \A v : Settles(u, b, o, v) => Settles(w, b, o, v)
         /\ Spares(u, b, o) /\ AtLoc(x, b, o) => Settles(w, b, o, x.val)
         /\ Spares(u, b, o) /\ ~ AtLoc(x, b, o) => Spares(w, b, o)
<1>1. /\ w \in Seq(SetRecords) /\ Len(w) = Len(u) + 1 /\ Len(u) \in Nat
      /\ w[1] = x /\ \A k \in 1..Len(u) : w[k + 1] = u[k]
      /\ \A k \in 1..Len(w) : k = 1 \/ (k - 1 \in 1..Len(u) /\ w[k] = u[k - 1])
  BY Prepended
<1>2. ASSUME NEW v, Settles(u, b, o, v) PROVE Settles(w, b, o, v)
  <2>1. PICK k \in 1..Len(u) : /\ AtLoc(u[k], b, o) /\ u[k].val = v
                               /\ \A j \in 1..Len(u) : j > k => ~ AtLoc(u[j], b, o)
    BY <1>2 DEF Settles
  <2>2. k + 1 \in 1..Len(w) /\ w[k + 1] = u[k]
    BY <1>1, <2>1
  <2>3. ASSUME NEW j \in 1..Len(w), j > k + 1 PROVE ~ AtLoc(w[j], b, o)
    BY <1>1, <2>1, <2>3
  <2>. QED
    BY <2>1, <2>2, <2>3 DEF Settles
<1>3. ASSUME Spares(u, b, o)
      PROVE  \A k \in 1..Len(w) : k > 1 => ~ AtLoc(w[k], b, o)
  BY <1>1, <1>3 DEF Spares
<1>4. ASSUME Spares(u, b, o), AtLoc(x, b, o) PROVE Settles(w, b, o, x.val)
  BY <1>1, <1>3, <1>4 DEF Settles
<1>5. ASSUME Spares(u, b, o), ~ AtLoc(x, b, o) PROVE Spares(w, b, o)
  BY <1>1, <1>3, <1>5 DEF Spares
<1>. QED
  BY <1>2, <1>4, <1>5

LEMMA CollectsNext ==
  ASSUME NEW l, NEW S \in SUBSET Nat, NEW n \in Nat, NEW u, Collects(u, l, S, n),
         n + 1 \in S => l[n + 1] \in SetRecords
  PROVE  Collects(IF n + 1 \in S THEN <<l[n + 1]>> \o u ELSE u, l, S, n + 1)
<1>. DEFINE m == n + 1
            At1(b, o) == FoundAt(l, S, n, b, o)
            At2(b, o) == FoundAt(l, S, m, b, o)
<1>0. m \in Nat /\ m > n /\ u \in Seq(SetRecords)
  BY DEF Collects
<1>1. CASE m \notin S
  <2>1. ASSUME NEW i \in S PROVE i <= m <=> i <= n
    BY <1>0, <1>1
  <2>2. \A b, o : At2(b, o) = At1(b, o)
    BY <2>1, Zenon DEF FoundAt
  <2>3. (IF m \in S THEN <<l[m]>> \o u ELSE u) = u
    BY <1>1
  <2>. HIDE DEF m
  <2>4. ASSUME NEW b \in Block, NEW o \in Offset
        PROVE  \/ At2(b, o) = {} /\ Spares(u, b, o)
               \/ \E i : Oldest(i, At2(b, o)) /\ Settles(u, b, o, l[i].val)
    <3>1. PICK A : A = At1(b, o) /\ A = At2(b, o)
      BY <2>2
    <3>2. \/ A = {} /\ Spares(u, b, o)
          \/ \E i : Oldest(i, A) /\ Settles(u, b, o, l[i].val)
      BY <3>1, Zenon DEF Collects
    <3>. QED
      BY <3>1, <3>2, Zenon
  <2>5. Collects(u, l, S, m)
    BY <2>4, Zenon DEF Collects
  <2>. QED
    BY <2>3, <2>5, Zenon DEF m
<1>2. CASE m \in S
  <2>. DEFINE x == l[m]
              w == <<x>> \o u
  <2>1. /\ x \in SetRecords /\ w \in Seq(SetRecords)
        /\ \A k \in 1..Len(w) : k = 1 \/ (k - 1 \in 1..Len(u) /\ w[k] = u[k - 1])
        /\ w[1] = x
    BY <1>0, <1>2, Prepended
  <2>2. \A k \in 1..Len(w) : \E i \in S : w[k] = l[i]
    BY <1>2, <2>1 DEF Collects
  <2>3. ASSUME NEW b \in Block, NEW o \in Offset
        PROVE  \/ At2(b, o) = {} /\ Spares(w, b, o)
               \/ \E i : Oldest(i, At2(b, o)) /\ Settles(w, b, o, l[i].val)
    <3>1. /\ \A v : Settles(u, b, o, v) => Settles(w, b, o, v)
          /\ Spares(u, b, o) /\ AtLoc(x, b, o) => Settles(w, b, o, x.val)
          /\ Spares(u, b, o) /\ ~ AtLoc(x, b, o) => Spares(w, b, o)
      BY <1>0, <2>1, PrependedUndo
    <3>2. At2(b, o) = At1(b, o) \cup (IF AtLoc(x, b, o) THEN {m} ELSE {})
      <4>1. ASSUME NEW i \in S PROVE i <= m <=> (i <= n \/ i = m)
        BY <1>0
      <4>2. ASSUME NEW i
            PROVE  i \in At2(b, o) <=> i \in At1(b, o) \/ (i = m /\ AtLoc(x, b, o))
        BY <1>0, <1>2, <4>1, Zenon DEF FoundAt
      <4>. QED
        BY <4>2
    <3>3. CASE At1(b, o) = {} /\ Spares(u, b, o)
      <4>1. CASE AtLoc(x, b, o)
        <5>1. At2(b, o) = {m}
          BY <3>2, <3>3, <4>1
        <5>2. Oldest(m, At2(b, o))
          BY <5>1, <1>0 DEF Oldest
        <5>. QED
          BY <3>1, <3>3, <4>1, <5>2
      <4>2. CASE ~ AtLoc(x, b, o)
        BY <3>1, <3>2, <3>3, <4>2
      <4>. QED
        BY <4>1, <4>2
    <3>4. CASE \E i : Oldest(i, At1(b, o)) /\ Settles(u, b, o, l[i].val)
      <4>1. PICK i : Oldest(i, At1(b, o)) /\ Settles(u, b, o, l[i].val)
        BY <3>4
      <4>2. i \in Nat /\ i <= m
        BY <4>1, <1>0 DEF Oldest, FoundAt
      <4>3. Oldest(i, At2(b, o))
        BY <3>2, <4>1, <4>2 DEF Oldest
      <4>. QED
        BY <3>1, <4>1, <4>3
    <3>. QED
      BY <3>3, <3>4 DEF Collects
  <2>4. (IF m \in S THEN w ELSE u) = w
    BY <1>2
  <2>. HIDE DEF w, m
  <2>5. Collects(w, l, S, m)
    BY <2>1, <2>2, <2>3, Zenon DEF Collects
  <2>. QED
    BY <2>4, <2>5, Zenon DEF m, w
<1>. QED
  BY <1>1, <1>2

Finds(f, l, S, n) == f = [i \in 0..n |-> IF i = 0 THEN <<>>
                                         ELSE IF i \in S THEN <<l[i]>> \o f[i - 1]
                                         ELSE f[i - 1]]

LEMMA FindsAt ==
  ASSUME NEW f, NEW l, NEW S, NEW n \in Nat, Finds(f, l, S, n), NEW i \in 0..n
  PROVE  f[i] = IF i = 0 THEN <<>> ELSE IF i \in S THEN <<l[i]>> \o f[i - 1] ELSE f[i - 1]
<1>. DEFINE g == [j \in 0..n |-> IF j = 0 THEN <<>> ELSE IF j \in S THEN <<l[j]>> \o f[j - 1]
                                 ELSE f[j - 1]]
<1>1. f = g
  BY Zenon DEF Finds
<1>2. g[i] = IF i = 0 THEN <<>> ELSE IF i \in S THEN <<l[i]>> \o f[i - 1] ELSE f[i - 1]
  OBVIOUS
<1>. HIDE DEF g
<1>. QED
  BY <1>1, <1>2

LEMMA FindsExists ==
  ASSUME NEW l, NEW S, NEW n \in Nat
  PROVE  \E f : Finds(f, l, S, n)
<1>. DEFINE T == {m \in Nat : \E f : Finds(f, l, S, m)}
<1>1. 0 \in T
  <2>1. Finds([i \in 0..0 |-> <<>>], l, S, 0)
    BY DEF Finds
  <2>. QED
    BY <2>1
<1>2. ASSUME NEW m \in Nat, m \in T
      PROVE  m + 1 \in T
  <2>1. PICK g : Finds(g, l, S, m)
    BY <1>2
  <2>. DEFINE f == [i \in 0..(m + 1) |->
                      IF i = m + 1 THEN IF i \in S THEN <<l[i]>> \o g[m] ELSE g[m] ELSE g[i]]
              step(i) == IF i = 0 THEN <<>>
                         ELSE IF i \in S THEN <<l[i]>> \o f[i - 1] ELSE f[i - 1]
  <2>2. ASSUME NEW i \in 0..(m + 1)
        PROVE  f[i] = step(i)
    <3>1. CASE i = m + 1
      BY <3>1
    <3>2. CASE i # m + 1
      <4>0. i \in 0..m
        BY <3>2
      <4>1. g[i] = (IF i = 0 THEN <<>> ELSE IF i \in S THEN <<l[i]>> \o g[i - 1] ELSE g[i - 1])
        BY <2>1, <4>0, FindsAt
      <4>2. f[i] = g[i] /\ (i # 0 => i - 1 \in 0..(m + 1) /\ i - 1 # m + 1 /\ f[i - 1] = g[i - 1])
        BY <3>2
      <4>. QED
        BY <4>1, <4>2
    <3>. QED
      BY <3>1, <3>2
  <2>3. Finds(f, l, S, m + 1)
    <3>1. f = [i \in 0..(m + 1) |-> f[i]]
      OBVIOUS
    <3>. HIDE DEF f
    <3>. QED
      BY <2>2, <3>1 DEF Finds
  <2>. QED
    BY <2>3
<1>. HIDE DEF T
<1>3. Nat \subseteq T
  BY <1>1, <1>2, SetInduction
<1>. QED
  BY <1>3 DEF T

LEMMA NewestFirstCollects ==
  ASSUME NEW l \in Seq(Record), NEW S \in SUBSET (1..Len(l)),
         \A i \in S : l[i] \in SetRecords
  PROVE  Collects(NewestFirst(l, S), l, S, Len(l))
<1>. DEFINE n == Len(l)
<1>0. n \in Nat /\ S \in SUBSET Nat
  OBVIOUS
<1>1. PICK f : Finds(f, l, S, n) /\ NewestFirst(l, S) = f[n]
  <2>. DEFINE c == CHOOSE f : Finds(f, l, S, n)
  <2>1. Finds(c, l, S, n)
    BY <1>0, FindsExists
  <2>2. NewestFirst(l, S) = c[n]
    BY Zenon DEF NewestFirst, Finds
  <2>. QED
    BY <2>1, <2>2
<1>. DEFINE T == {m \in Nat : m <= n => Collects(f[m], l, S, m)}
<1>2. 0 \in T
  <2>1. f[0] = <<>>
    <3>1. 0 \in 0..n
      BY <1>0
    <3>2. f[0] = IF 0 = 0 THEN <<>> ELSE IF 0 \in S THEN <<l[0]>> \o f[0 - 1] ELSE f[0 - 1]
      BY <1>0, <1>1, <3>1, FindsAt, Zenon
    <3>. QED
      BY <3>2, Zenon
  <2>2. \A b, o : FoundAt(l, S, 0, b, o) = {}
    <3>1. \A i \in S : ~ i <= 0
      BY <1>0
    <3>. QED
      BY <3>1, Zenon DEF FoundAt
  <2>3. Collects(<<>>, l, S, 0)
    BY <2>2 DEF Collects, Spares
  <2>. QED
    BY <2>1, <2>3
<1>3. ASSUME NEW m \in Nat, m \in T
      PROVE  m + 1 \in T
  <2>. SUFFICES ASSUME m + 1 <= n PROVE Collects(f[m + 1], l, S, m + 1)
    OBVIOUS
  <2>1. Collects(f[m], l, S, m)
    BY <1>0, <1>3
  <2>2. f[m + 1] = IF m + 1 \in S THEN <<l[m + 1]>> \o f[m] ELSE f[m]
    <3>1. m + 1 \in 0..n /\ m + 1 # 0 /\ (m + 1) - 1 = m
      BY <1>0
    <3>. QED
      BY <1>0, <1>1, <3>1, FindsAt
  <2>. QED
    BY <1>0, <2>1, <2>2, CollectsNext
<1>. HIDE DEF T
<1>4. n \in T
  BY <1>0, <1>2, <1>3, SetInduction
<1>. QED
  BY <1>0, <1>1, <1>4 DEF T

----------------------------------------------------------------------------
(* What the steps of the log do to the records. *)
LEMMA MarkTyped ==
  ASSUME NEW op \in {"START", "COMMIT", "ROLLBACK", "CHECKPOINT"}, NEW t \in Tx \cup {None}
  PROVE  Mark(op, t) \in Record /\ Mark(op, t).op = op /\ Mark(op, t).tx = t
BY DEF Mark, Record

LEMMA SetTyped ==
  ASSUME NEW t \in Tx, NEW b \in Block, NEW o \in Offset, NEW v \in Value
  PROVE  SetRecord(t, b, o, v) \in SetRecords
BY DEF SetRecord, SetRecords

LEMMA SetIsRecord == SetRecords \subseteq Record
BY DEF SetRecords, Record

LogIs == log \in Seq(Record) /\ durable \in 0..Len(log) /\ Len(log) \in Nat

LEMMA LogIsTyped == PP!StoreInv => LogIs
BY DEF PP!StoreInv, PP!PoolInv, PP!LogOK, PP!Log!LogTypeOK, LogIs

LEMMA LogAppended ==
  ASSUME LogIs, NEW r \in Record, Log!LogAppend(r)
  PROVE  /\ LogIs' /\ PP!Log!LogTypeOK' /\ Len(log') = Len(log) + 1
         /\ log'[Len(log) + 1] = r /\ \A i \in 1..Len(log) : log'[i] = log[i]
         /\ durable' \in {durable, Len(log)} /\ durable <= durable'
<1>1. log' = Append(log, r) /\ durable' \in {durable, Len(log)}
  BY DEF Log!LogAppend, Log!Latest
<1>2. /\ log' \in Seq(Record) /\ Len(log') = Len(log) + 1
      /\ log'[Len(log) + 1] = r /\ \A i \in 1..Len(log) : log'[i] = log[i]
  BY <1>1, AppendProperties DEF LogIs
<1>. QED
  BY <1>1, <1>2 DEF LogIs, PP!Log!LogTypeOK

LEMMA LogFlushed ==
  ASSUME LogIs, Log!LogFlushAll \/ \E n : Log!LogFlush(n)
  PROVE  /\ LogIs' /\ PP!Log!LogTypeOK' /\ log' = log
         /\ durable' \in {durable, Len(log)} /\ durable <= durable'
<1>1. log' = log /\ durable' \in {durable, Len(log)}
  BY DEF Log!LogFlushAll, Log!LogFlush, Log!Latest, Log!logVars
<1>. QED
  BY <1>1 DEF LogIs, PP!Log!LogTypeOK

LEMMA LogCut ==
  ASSUME LogIs, Log!LogCrash
  PROVE  /\ LogIs' /\ PP!Log!LogTypeOK' /\ durable' = durable /\ Len(log') = durable
         /\ \A i \in 1..durable : log'[i] = log[i]
<1>1. log' = SubSeq(log, 1, durable) /\ durable' = durable
  BY DEF Log!LogCrash
<1>2. /\ log' \in Seq(Record) /\ Len(log') = durable
      /\ \A i \in 1..durable : log'[i] = log[i]
  BY <1>1, SubSeqProperties DEF LogIs
<1>. QED
  BY <1>1, <1>2 DEF LogIs, PP!Log!LogTypeOK

LEMMA LogSame ==
  ASSUME LogIs, UNCHANGED <<log, durable>>
  PROVE  LogIs' /\ PP!Log!LogTypeOK'
BY DEF LogIs, PP!Log!LogTypeOK

LEMMA SetsKept ==
  ASSUME SetsTyped, LogIs, \/ log' = log
                           \/ Log!LogCrash
                           \/ \E r \in Record : /\ Log!LogAppend(r)
                                                /\ r.op = "SET" => r \in SetRecords
  PROVE  SetsTyped'
<1>1. CASE log' = log
  BY <1>1 DEF SetsTyped
<1>2. CASE Log!LogCrash
  BY <1>2, LogCut DEF SetsTyped, LogIs
<1>3. ASSUME NEW r \in Record, Log!LogAppend(r), r.op = "SET" => r \in SetRecords
      PROVE  SetsTyped'
  BY <1>3, LogAppended DEF SetsTyped, LogIs
<1>. QED
  BY <1>1, <1>2, <1>3

(* What the scans find: records of changes, and nothing else. *)
LEMMA FoundTyped ==
  ASSUME SetsTyped, LogIs, NEW t,
         NEW S, S = RollbackRecords(log, t) \/ S = UnfinishedRecords(log)
  PROVE  S \subseteq 1..Len(log) /\ \A i \in S : log[i] \in SetRecords
<1>1. DOMAIN log = 1..Len(log)
  BY DEF LogIs
<1>2. S \subseteq SetsIn(log)
  BY DEF RollbackRecords, UnfinishedRecords
<1>. QED
  BY <1>1, <1>2 DEF SetsIn, SetsTyped

Found == IF ctl.op = "rollback" THEN RollbackRecords(log, Me) ELSE UnfinishedRecords(log)

LEMMA ScanFinds ==
  ASSUME SetsTyped, LogIs, NEW u, u = NewestFirst(log, Found)
  PROVE  /\ u \in Seq(SetRecords) /\ Collects(u, log, Found, Len(log))
         /\ Found \subseteq 1..Len(log) /\ \A i \in Found : log[i] \in SetRecords
<1>1. Found \subseteq 1..Len(log) /\ \A i \in Found : log[i] \in SetRecords
  BY FoundTyped DEF Found
<1>2. Collects(u, log, Found, Len(log))
  BY <1>1, NewestFirstCollects DEF LogIs
<1>. QED
  BY <1>1, <1>2 DEF Collects

----------------------------------------------------------------------------
(* Base is inductive. *)
LEMMA LockCall ==
  ASSUME LP!LockInv,
         \/ UNCHANGED lockVars
         \/ \E t \in Tx : \/ Locks!Release(t)
                          \/ \E b \in Lockable : Locks!SLock(t, b) \/ Locks!XLock(t, b)
  PROVE  LP!LockInv'
<1>1. [LP!LockNext]_(LP!lockVars)
  BY SameLocks DEF LP!LockNext, lockVars, LP!lockVars
<1>2. LP!IsFiniteSet(Tx)
  BY TxFinite, Zenon DEF LP!IsFiniteSet, IsFiniteSet
<1>3. LP!LockInv /\ [LP!LockNext]_(LP!lockVars) => LP!LockInv'
  BY <1>2, LP!LockNext_Inv, Zenon
<1>. QED
  BY <1>1, <1>3

LEMMA NoCtlOK == ctl' = NoCtl => CtlOK' /\ ctl' \in Ctls
BY DEF CtlOK, Ctls, NoCtl, Me

LEMMA StoreLog == PP!StoreInv' => LogIs'
BY LogIsTyped, PTL

LEMMA IsClientStep ==
  ASSUME NEW t, NEW b \in Block
  PROVE  /\ Pool!PinCall(t, b) \/ Pool!Unpin(t, b) => PP!ClientStep(t)
         /\ Pool!PinRetry(t) \/ Pool!PinTimeout(t) \/ Pool!FlushAllCall(t) => PP!ClientStep(t)
         /\ \A o \in Offset, v \in Value : Pool!WriteUnlogged(t, b, o, v) => PP!ClientStep(t)
BY SameCalls DEF PP!ClientStep

LEMMA CallKeepsLog ==
  ASSUME NEW t, NEW b,
         \/ Pool!PinCall(t, b) \/ Pool!Unpin(t, b) \/ Pool!PinRetry(t) \/ Pool!PinTimeout(t)
         \/ Pool!FlushAllCall(t) \/ Pool!FileAppend(b)
         \/ \E o, v : Pool!WriteUnlogged(t, b, o, v)
  PROVE  UNCHANGED logVars
BY DEF Pool!PinCall, Pool!Unpin, Pool!PinRetry, Pool!PinTimeout, Pool!FlushAllCall,
       Pool!FileAppend, Pool!WriteUnlogged, logVars

LEMMA Base_Pin ==
  ASSUME Base, NEW t \in Tx, NEW b \in Block, Pin(t, b) \/ Unpin(t, b)
  PROVE  Base'
<1>1. PP!ClientStep(t) /\ UNCHANGED logVars /\ UNCHANGED <<lockVars, txVars>> /\ ctl = NoCtl
  BY IsClientStep, CallKeepsLog DEF Pin, Unpin, Client
<1>2. PP!StoreInv'
  BY <1>1, ClientCall DEF Base
<1>3. LP!LockInv' /\ SetsTyped' /\ CtlOK'
  BY <1>1, LockCall, SetsKept, LogIsTyped, NoCtlOK DEF Base, txVars, logVars
<1>4. TxTypeOK'
  BY <1>1 DEF Base, TxTypeOK, txVars
<1>. QED
  BY <1>2, <1>3, <1>4 DEF Base

LEMMA Base_Lock ==
  ASSUME Base, NEW t \in Tx, \/ Size(t)
                             \/ \E b \in Block : Get(t, b) \/ SetUnpinned(t, b)
  PROVE  Base'
<1>1. UNCHANGED <<poolVars, logVars, txVars>> /\ ctl = NoCtl
      /\ \/ UNCHANGED lockVars
         \/ \E c \in Lockable : Locks!SLock(t, c) \/ Locks!XLock(t, c)
  BY DEF Get, SetUnpinned, Size, SLock, XLock, Client, Lockable
<1>2. PP!StoreInv'
  BY <1>1, LogMoves, LogSame, LogIsTyped DEF Base, logVars, LogIs
<1>3. LP!LockInv' /\ SetsTyped' /\ CtlOK'
  BY <1>1, LockCall, SetsKept, LogIsTyped, NoCtlOK DEF Base, txVars, logVars
<1>4. TxTypeOK'
  BY <1>1 DEF Base, TxTypeOK, txVars
<1>. QED
  BY <1>2, <1>3, <1>4 DEF Base

LEMMA Base_Begin ==
  ASSUME Base, Begin
  PROVE  Base'
<1>. DEFINE r == Mark("START", nextTx + 1)
<1>1. nextTx + 1 \in Tx /\ nextTx + 1 \in 0..MaxTx /\ begins + 1 \in 0..MaxBegins
  BY TransactionAssumption DEF Begin, Base, TxTypeOK, Tx
<1>2. r \in Record /\ r.op # "SET"
  BY <1>1, MarkTyped
<1>3. /\ UNCHANGED <<poolVars, lockVars, ctl, recovered, writes, torn, crashes>>
      /\ ctl = NoCtl
      /\ Log!LogAppend(r) /\ nextTx' = nextTx + 1 /\ begins' = begins + 1
      /\ state' = [state EXCEPT ![nextTx + 1] = "active"]
  BY DEF Begin, Calm
<1>. HIDE DEF r
<1>4. PP!Log!LogTypeOK' /\ Len(log) <= Len(log') /\ durable <= durable'
  BY <1>2, <1>3, LogAppended, LogIsTyped DEF Base, LogIs
<1>5. PP!StoreInv'
  BY <1>3, <1>4, LogMoves DEF Base
<1>6. LP!LockInv' /\ SetsTyped' /\ CtlOK'
  BY <1>2, <1>3, LockCall, SetsKept, LogIsTyped, NoCtlOK DEF Base
<1>7. TxTypeOK'
  BY <1>1, <1>3 DEF Base, TxTypeOK, States
<1>. QED
  BY <1>5, <1>6, <1>7 DEF Base

LEMMA Base_Set ==
  ASSUME Base, NEW t \in Tx, NEW b \in Block, NEW o \in Offset, NEW v \in Value,
         Set(t, b, o, v)
  PROVE  /\ Base' /\ Contents(t, b)[o] \in Value
         /\ SetRecord(t, b, o, Contents(t, b)[o]) \in SetRecords
<1>. DEFINE old == Contents(t, b)[o]
            r == SetRecord(t, b, o, old)
<1>1. /\ ctl = NoCtl /\ Pool!WriteLogged(t, b, o, v, r) /\ mine[t][b].buf # 0
      /\ \/ UNCHANGED lockVars
         \/ \E c \in Lockable : Locks!SLock(t, c) \/ Locks!XLock(t, c)
      /\ Log!LogAppend(r) /\ writes' = [writes EXCEPT ![t][b][o] = v]
      /\ UNCHANGED <<nextTx, state, ctl, recovered, torn, begins, crashes>>
  BY DEF Set, XLock, Client, Lockable, Pool!WriteLogged, Log!LogAppend, Log!Latest,
         Pool!Log!LogAppend, Pool!Log!Latest
<1>2. old \in Value
  <2>1. mine[t][b].buf \in PP!Buffers
    BY <1>1 DEF Base, PP!StoreInv, PP!PoolInv, PP!PoolTypeOK, PP!Entry
  <2>2. pool[mine[t][b].buf].contents \in [Offset -> Value]
    BY <2>1 DEF Base, PP!StoreInv, PP!PoolInv, PP!PoolTypeOK, PP!Buffer, PP!Contents
  <2>. QED
    BY <2>2 DEF Contents
<1>. HIDE DEF old
<1>3. r \in SetRecords /\ r \in Record
  BY <1>2, SetTyped, SetIsRecord
<1>. HIDE DEF r
<1>4. PP!StoreInv'
  BY <1>1, <1>3, SameCalls, WriteCall DEF Base
<1>5. LP!LockInv' /\ SetsTyped' /\ CtlOK'
  BY <1>1, <1>3, LockCall, SetsKept, LogIsTyped, NoCtlOK DEF Base
<1>6. TxTypeOK'
  BY <1>1 DEF Base, TxTypeOK
<1>. QED
  BY <1>2, <1>3, <1>4, <1>5, <1>6 DEF Base, old, r

LEMMA Base_AppendBlock ==
  ASSUME Base, NEW t \in Tx, NEW b \in Block, AppendBlock(t, b)
  PROVE  Base'
<1>1. /\ Pool!FileAppend(b) /\ UNCHANGED txVars /\ ctl = NoCtl /\ UNCHANGED logVars
      /\ \/ UNCHANGED lockVars
         \/ \E c \in Lockable : Locks!SLock(t, c) \/ Locks!XLock(t, c)
  BY CallKeepsLog DEF AppendBlock, XLock, Client, Lockable
<1>2. PP!StoreInv'
  BY <1>1, SameCalls, AppendCall DEF Base
<1>3. LP!LockInv' /\ SetsTyped' /\ CtlOK'
  BY <1>1, LockCall, SetsKept, LogIsTyped, NoCtlOK DEF Base, txVars, logVars
<1>4. TxTypeOK'
  BY <1>1 DEF Base, TxTypeOK, txVars
<1>. QED
  BY <1>2, <1>3, <1>4 DEF Base

Phases == {"start", "scan", "undo", "set", "unpin", "log", "end"}

LEMMA GoIs ==
  ASSUME ctl \in Ctls, NEW at \in Phases, NEW u \in Seq(SetRecords),
         \/ Go(at) /\ u = ctl.undo
         \/ ctl' = [ctl EXCEPT !.at = at, !.undo = u]
  PROVE  /\ ctl' \in Ctls /\ ctl'.op = ctl.op /\ ctl'.tx = ctl.tx /\ ctl'.at = at
         /\ ctl'.undo = u
<1>1. u \in Seq(Record)
  BY SetIsRecord
<1>2. PICK c \in Ctls : c = ctl
  OBVIOUS
<1>3. PICK d : d = ctl'
  OBVIOUS
<1>4. \/ d = [c EXCEPT !.at = at] /\ u = c.undo
      \/ d = [c EXCEPT !.at = at, !.undo = u]
  BY <1>2, <1>3 DEF Go
<1>5. CASE d = [c EXCEPT !.at = at] /\ u = c.undo
  <2>1. d.op = c.op /\ d.tx = c.tx /\ d.at = at /\ d.undo = c.undo /\ d \in Ctls
    BY <1>5 DEF Ctls, Phases
  <2>. QED
    BY <1>2, <1>3, <1>5, <2>1
<1>6. CASE d = [c EXCEPT !.at = at, !.undo = u]
  <2>1. d.op = c.op /\ d.tx = c.tx /\ d.at = at /\ d.undo = u /\ d \in Ctls
    BY <1>1, <1>6 DEF Ctls, Phases
  <2>. QED
    BY <1>2, <1>3, <2>1
<1>. QED
  BY <1>4, <1>5, <1>6

LEMMA EnterIs ==
  ASSUME NEW op \in {"commit", "rollback", "recover"}, NEW t \in Tx, NEW at \in Phases,
         Enter(op, t, at)
  PROVE  /\ ctl' \in Ctls /\ ctl'.op = op /\ ctl'.tx = t /\ ctl'.at = at
         /\ ctl'.undo = <<>> /\ ctl'.undo \in Seq(SetRecords)
BY DEF Enter, Ctls, Phases

LEMMA ToUndoIs ==
  ASSUME CtlOK, ctl.undo # <<>>
  PROVE  /\ ToUndo \in SetRecords /\ Tail(ctl.undo) \in Seq(SetRecords)
         /\ ToUndo = ctl.undo[1] /\ 1 \in 1..Len(ctl.undo)
         /\ ToUndo.blk \in Block /\ ToUndo.off \in Offset /\ ToUndo.val \in Value
<1>1. PICK u \in Seq(SetRecords) : u = ctl.undo
  BY DEF CtlOK
<1>2. Head(u) \in SetRecords /\ Tail(u) \in Seq(SetRecords) /\ Head(u) = u[1] /\ 1 \in 1..Len(u)
  BY <1>1, HeadTailProperties
<1>3. ToUndo = Head(u)
  BY <1>1 DEF ToUndo
<1>. QED
  BY <1>1, <1>2, <1>3 DEF SetRecords

(* What keeps Base when the step neither locks nor writes a record. *)
LEMMA BaseKept ==
  ASSUME Base, PP!StoreInv', UNCHANGED <<lockVars, nextTx, torn, begins, crashes>>, log' = log,
         state' \in [Tx -> States], recovered' \in BOOLEAN,
         writes' \in [Tx -> [Block -> [Offset -> Value \cup {None}]]],
         ctl' \in Ctls, CtlOK'
  PROVE  Base'
<1>1. LP!LockInv' /\ SetsTyped'
  BY LockCall, SetsKept, LogIsTyped DEF Base
<1>2. TxTypeOK'
  BY DEF Base, TxTypeOK
<1>. QED
  BY <1>1, <1>2 DEF Base

LEMMA Base_PoolWork ==
  ASSUME Base, PoolWork
  PROVE  Base'
<1>1. PP!PoolStep /\ UNCHANGED <<lockVars, txVars>>
  BY SameStep DEF PoolWork
<1>2. PP!StoreInv' /\ log' = log
  BY <1>1, PoolCall, ViewNow, PP!PoolStep_Frame, PoolAssumed DEF Base
<1>3. call' = call \/ call' = PP!NoCall
  BY <1>1 DEF PP!PoolStep, PP!WritePage, PP!PinHit, PP!PinEvict, PP!PinLoad, PP!PinFull,
              PP!FlushAllStep, PP!FlushAllDone, PP!FlushLog, PP!Take
<1>4. waiting' = waiting \/ call.op = "pin"
  BY <1>1 DEF PP!PoolStep, PP!WritePage, PP!PinHit, PP!PinEvict, PP!PinLoad, PP!PinFull,
              PP!FlushAllStep, PP!FlushAllDone, PP!FlushLog, PP!Take, PP!PinMiss, PP!Step
<1>5. ~ PP!Idle
  BY <1>1 DEF PP!PoolStep, PP!WritePage, PP!PinHit, PP!PinEvict, PP!PinLoad, PP!PinFull,
              PP!FlushAllStep, PP!FlushAllDone, PP!PinMiss, PP!Step, PP!Idle, PP!NoCall
<1>6. CtlOK'
  BY <1>1, <1>3, <1>4, <1>5 DEF Base, CtlOK, txVars, Me, PP!NoCall
<1>. QED
  BY <1>1, <1>2, <1>6, BaseKept DEF Base, TxTypeOK, txVars

LEMMA Base_Retry ==
  ASSUME Base, NEW t \in Tx, Retry(t)
  PROVE  Base'
<1>1. /\ PP!ClientStep(t) /\ log' = log /\ UNCHANGED <<lockVars, txVars>>
      /\ MayRun(t) /\ waiting[t] # None
  <2>1. PICK b : b = call.blk
    OBVIOUS
  <2>. QED
    BY SameCalls, CallKeepsLog DEF Retry, PP!ClientStep, logVars, Pool!PinRetry
<1>2. PP!StoreInv'
  BY <1>1, ClientCall DEF Base
<1>3. CtlOK'
  BY <1>1, NoCtlOK DEF Base, CtlOK, txVars, MayRun, Me, NoCtl
<1>. QED
  BY <1>1, <1>2, <1>3, BaseKept DEF Base, TxTypeOK, txVars

LEMMA Base_Timeout ==
  ASSUME Base, NEW t \in Tx, Timeout(t)
  PROVE  Base'
<1>1. /\ PP!ClientStep(t) /\ log' = log
      /\ UNCHANGED <<lockVars, nextTx, recovered, writes, torn, begins, crashes>>
      /\ ctl' = NoCtl /\ state' \in {state, [state EXCEPT ![t] = "broken"]}
  BY SameCalls, CallKeepsLog DEF Timeout, PP!ClientStep, logVars
<1>2. PP!StoreInv'
  BY <1>1, ClientCall DEF Base
<1>3. state' \in [Tx -> States]
  BY <1>1 DEF Base, TxTypeOK, States
<1>. QED
  BY <1>1, <1>2, <1>3, BaseKept, NoCtlOK DEF Base, TxTypeOK

LEMMA Base_Calls ==
  ASSUME Base, NEW t \in Tx, CommitCall(t) \/ RollbackCall(t) \/ (RecoverCall /\ t = 1)
  PROVE  Base'
<1>1. CASE CommitCall(t) \/ (RecoverCall /\ t = 1)
  <2>1. /\ Pool!FlushAllCall(t) /\ UNCHANGED <<lockVars, nextTx, state, recovered, writes, torn, begins, crashes>>
        /\ \/ Enter("commit", t, "log")
           \/ Enter("recover", t, "scan")
    BY <1>1 DEF CommitCall, RollbackCall, RecoverCall
  <2>2. PP!ClientStep(t) /\ log' = log /\ waiting' = waiting /\ waiting[t] = None
        /\ call'.op = "flush_all"
    BY <2>1, SameCalls, CallKeepsLog
       DEF PP!ClientStep, logVars, Pool!FlushAllCall, Pool!Ready
  <2>3. PP!StoreInv'
    BY <2>2, ClientCall DEF Base
  <2>4. CtlOK' /\ ctl' \in Ctls
    <3>1. CASE Enter("commit", t, "log")
      BY <2>2, <3>1, EnterIs DEF CtlOK, Me, Phases
    <3>2. CASE Enter("recover", t, "scan")
      BY <2>2, <3>2, EnterIs DEF CtlOK, Me, Phases
    <3>. QED
      BY <2>1, <3>1, <3>2
  <2>. QED
    BY <2>1, <2>2, <2>3, <2>4, BaseKept DEF Base, TxTypeOK
<1>2. CASE RollbackCall(t)
  <2>1. Enter("rollback", t, "scan") /\ UNCHANGED <<poolVars, logVars, lockVars, nextTx, state,
                                                    recovered, writes, torn, begins, crashes>>
    BY <1>2 DEF RollbackCall
  <2>2. PP!StoreInv'
    BY <2>1, LogMoves, LogSame, LogIsTyped DEF Base, logVars, LogIs
  <2>3. CtlOK' /\ ctl' \in Ctls
    BY <2>1, EnterIs DEF CtlOK, Me, Phases
  <2>. QED
    BY <2>1, <2>2, <2>3, BaseKept DEF Base, TxTypeOK, logVars
<1>. QED
  BY <1>1, <1>2

LEMMA Base_Scan ==
  ASSUME Base, Scan
  PROVE  Base'
<1>1. /\ At("scan") /\ Log!LogFlushAll
      /\ UNCHANGED <<poolVars, lockVars, nextTx, state, recovered, writes, torn, begins, crashes>>
      /\ ctl' = [ctl EXCEPT !.at = "undo", !.undo = NewestFirst(log, Found)]
  BY DEF Scan, Found
<1>2. PICK u : u = NewestFirst(log, Found)
  OBVIOUS
<1>3. u \in Seq(SetRecords)
  BY <1>2, ScanFinds, LogIsTyped DEF Base
<1>4. /\ ctl' \in Ctls /\ ctl'.op = ctl.op /\ ctl'.tx = ctl.tx /\ ctl'.at = "undo"
      /\ ctl'.undo = u
  BY <1>1, <1>2, <1>3, GoIs DEF Base, TxTypeOK, Phases
<1>5. PP!Log!LogTypeOK' /\ log' = log /\ durable <= durable' /\ Len(log) \in Nat
  BY <1>1, LogFlushed, LogIsTyped DEF Base, LogIs
<1>6. PP!StoreInv'
  BY <1>1, <1>5, LogMoves DEF Base
<1>7. CtlOK'
  BY <1>1, <1>3, <1>4 DEF Base, CtlOK, At, Me, NoCtl
<1>. QED
  BY <1>1, <1>4, <1>5, <1>6, <1>7, BaseKept DEF Base, TxTypeOK

LEMMA Base_ScanThrows ==
  ASSUME Base, ScanThrows
  PROVE  Base'
<1>1. /\ Log!LogFlushAll /\ UNCHANGED <<poolVars, lockVars, nextTx, recovered, torn, writes,
                                        begins, crashes>>
      /\ ctl' = NoCtl /\ state' = [state EXCEPT ![Me] = "broken"]
  BY DEF ScanThrows
<1>2. PP!Log!LogTypeOK' /\ log' = log /\ durable <= durable' /\ Len(log) \in Nat
  BY <1>1, LogFlushed, LogIsTyped DEF Base, LogIs
<1>3. PP!StoreInv'
  BY <1>1, <1>2, LogMoves DEF Base
<1>4. state' \in [Tx -> States]
  BY <1>1 DEF Base, TxTypeOK, States
<1>. QED
  BY <1>1, <1>2, <1>3, <1>4, NoCtlOK, BaseKept DEF Base, TxTypeOK

LEMMA Base_UndoPin ==
  ASSUME Base, UndoPin \/ UndoDone
  PROVE  Base'
<1>1. PICK t \in Tx : t = Me
  BY DEF UndoPin, UndoDone, At, Base, CtlOK
<1>2. CASE UndoPin
  <2>1. ToUndo.blk \in Block /\ ctl.undo \in Seq(SetRecords)
    BY <1>2, ToUndoIs DEF UndoPin, Base, CtlOK
  <2>2. /\ PP!ClientStep(t) /\ log' = log
        /\ UNCHANGED <<lockVars, nextTx, state, recovered, writes, torn, begins, crashes>>
    BY <1>1, <1>2, <2>1, SameCalls, CallKeepsLog DEF UndoPin, PP!ClientStep, logVars
  <2>3. PP!StoreInv'
    BY <2>2, ClientCall DEF Base
  <2>4. /\ ctl' \in Ctls /\ ctl'.op = ctl.op /\ ctl'.tx = ctl.tx /\ ctl'.at = "set"
        /\ ctl'.undo = ctl.undo
    BY <1>2, <2>1, GoIs DEF UndoPin, Base, TxTypeOK, Phases
  <2>5. CtlOK'
    BY <1>2, <2>4 DEF Base, CtlOK, UndoPin, At, Me
  <2>. QED
    BY <2>2, <2>3, <2>4, <2>5, BaseKept DEF Base, TxTypeOK
<1>3. CASE UndoDone
  <2>1. /\ PP!ClientStep(t) /\ log' = log
        /\ UNCHANGED <<lockVars, nextTx, state, recovered, writes, torn, begins, crashes>>
        /\ waiting' = waiting /\ waiting[t] = None /\ call'.op = "flush_all"
    BY <1>1, <1>3, SameCalls, CallKeepsLog
       DEF UndoDone, PP!ClientStep, logVars, Pool!FlushAllCall, Pool!Ready
  <2>2. PP!StoreInv'
    BY <2>1, ClientCall DEF Base
  <2>3. /\ ctl' \in Ctls /\ ctl'.op = ctl.op /\ ctl'.tx = ctl.tx /\ ctl'.at = "log"
        /\ ctl'.undo = ctl.undo
    BY <1>3, GoIs DEF UndoDone, Base, TxTypeOK, CtlOK, Phases
  <2>4. CtlOK'
    BY <1>1, <1>3, <2>1, <2>3 DEF Base, CtlOK, UndoDone, At, Me
  <2>. QED
    BY <2>1, <2>2, <2>3, <2>4, BaseKept DEF Base, TxTypeOK
<1>. QED
  BY <1>2, <1>3

LEMMA Base_UndoSet ==
  ASSUME Base, UndoSet
  PROVE  Base'
<1>1. PICK t \in Tx : t = Me
  BY DEF UndoSet, At, Base, CtlOK
<1>2. ctl.undo # <<>> /\ ctl.undo \in Seq(SetRecords) /\ ctl.at = "set" /\ ctl.op # "none"
  BY DEF UndoSet, At, Base, CtlOK
<1>3. ToUndo.blk \in Block /\ ToUndo.off \in Offset /\ ToUndo.val \in Value
  BY <1>2, ToUndoIs DEF Base
<1>4. /\ PP!ClientStep(t) /\ log' = log /\ UNCHANGED <<waiting, call>>
      /\ UNCHANGED <<nextTx, state, recovered, writes, torn, begins, crashes>>
      /\ \/ UNCHANGED lockVars
         \/ \E c \in Lockable : Locks!SLock(t, c) \/ Locks!XLock(t, c)
  BY <1>1, <1>3, SameCalls, CallKeepsLog
     DEF UndoSet, PP!ClientStep, logVars, Lockable, Pool!WriteUnlogged
<1>5. PP!StoreInv'
  BY <1>4, ClientCall DEF Base
<1>6. /\ ctl' \in Ctls /\ ctl'.op = ctl.op /\ ctl'.tx = ctl.tx /\ ctl'.at = "unpin"
      /\ ctl'.undo = ctl.undo
  BY <1>2, GoIs DEF UndoSet, Base, TxTypeOK, Phases
<1>7. CtlOK'
  BY <1>2, <1>6 DEF Base, CtlOK, Me
<1>8. LP!LockInv' /\ SetsTyped'
  BY <1>4, LockCall, SetsKept, LogIsTyped DEF Base
<1>9. TxTypeOK'
  BY <1>4, <1>6 DEF Base, TxTypeOK
<1>. QED
  BY <1>5, <1>7, <1>8, <1>9 DEF Base

LEMMA Base_UndoUnpin ==
  ASSUME Base, UndoUnpin
  PROVE  Base'
<1>1. PICK t \in Tx : t = Me
  BY DEF UndoUnpin, At, Base, CtlOK
<1>2. ctl.undo # <<>> /\ ctl.at = "unpin" /\ ctl.op # "none"
  BY DEF UndoUnpin, At, Base, CtlOK
<1>3. ToUndo.blk \in Block
  BY <1>2, ToUndoIs DEF Base
<1>4. /\ PP!ClientStep(t) /\ log' = log
      /\ UNCHANGED <<lockVars, nextTx, state, recovered, writes, torn, begins, crashes>>
  BY <1>1, <1>3, SameCalls, CallKeepsLog DEF UndoUnpin, PP!ClientStep, logVars
<1>5. PP!StoreInv'
  BY <1>4, ClientCall DEF Base
<1>6. PICK u \in Seq(SetRecords) : u = Tail(ctl.undo)
  BY <1>2, ToUndoIs DEF Base
<1>7. /\ ctl' \in Ctls /\ ctl'.op = ctl.op /\ ctl'.tx = ctl.tx /\ ctl'.at = "undo"
      /\ ctl'.undo = u
  BY <1>2, <1>6, GoIs DEF UndoUnpin, Base, TxTypeOK, Phases
<1>8. CtlOK'
  BY <1>2, <1>6, <1>7 DEF Base, CtlOK, Me
<1>. QED
  BY <1>4, <1>5, <1>7, <1>8, BaseKept DEF Base, TxTypeOK

LEMMA ClosingIs ==
  ASSUME TxTypeOK, CtlOK, ctl.op # "none"
  PROVE  /\ Closing \in Record
         /\ ctl.op = "recover" => Closing.op = "CHECKPOINT"
         /\ ctl.op # "recover" => Ends(Closing) /\ Closing.tx = Me
         /\ ctl.op = "commit" => Closing = Mark("COMMIT", Me)
         /\ ctl.op = "rollback" => Closing = Mark("ROLLBACK", Me)
         /\ Closing.op # "SET" /\ Closing.op # "START"
<1>1. Me \in Tx /\ ctl.op \in {"commit", "rollback", "recover"}
  BY DEF CtlOK, TxTypeOK, Ctls
<1>. QED
  BY <1>1, MarkTyped DEF Closing, Ends

LEMMA Base_WriteClosing ==
  ASSUME Base, WriteClosing
  PROVE  Base'
<1>1. /\ At("log") /\ PP!Idle /\ Log!LogAppend(Closing) /\ Go("end")
      /\ UNCHANGED <<poolVars, lockVars, nextTx, state, recovered, writes, torn, begins, crashes>>
  BY SamePool DEF WriteClosing
<1>2. Closing \in Record /\ Closing.op # "SET"
  BY <1>1, ClosingIs DEF Base, At
<1>3. /\ ctl' \in Ctls /\ ctl'.op = ctl.op /\ ctl'.tx = ctl.tx /\ ctl'.at = "end"
      /\ ctl'.undo = ctl.undo
  BY <1>1, GoIs DEF Base, TxTypeOK, Phases, CtlOK
<1>4. PP!Log!LogTypeOK' /\ Len(log) <= Len(log') /\ durable <= durable'
  BY <1>1, <1>2, LogAppended, LogIsTyped DEF Base, LogIs
<1>5. PP!StoreInv'
  BY <1>1, <1>4, LogMoves DEF Base
<1>6. CtlOK'
  BY <1>1, <1>3 DEF Base, CtlOK, At, Me, poolVars, PP!Idle
<1>7. LP!LockInv' /\ SetsTyped'
  BY <1>1, <1>2, LockCall, SetsKept, LogIsTyped DEF Base
<1>8. TxTypeOK'
  BY <1>1, <1>3 DEF Base, TxTypeOK
<1>. QED
  BY <1>5, <1>6, <1>7, <1>8 DEF Base

(* The end of commit and rollback, as far as the pool is concerned. *)
LEMMA FinishDrops ==
  ASSUME Base, Finish, ctl.op # "recover"
  PROVE  /\ PP!StoreInv' /\ PP!View' = PP!View /\ PP!SameBuffers
         /\ log' = log /\ durable <= durable' /\ durable' \in {durable, Len(log)}
<1>1. PICK t \in Tx : t = Me
  BY DEF Finish, At, Base, CtlOK
<1>2. PP!Idle /\ waiting[t] = None /\ PP!DropPins(t)
      /\ UNCHANGED <<disk, waiting, call, flushing>> /\ Log!LogFlush(Log!Latest)
  BY <1>1, SameCalls DEF Finish, At, Base, CtlOK
<1>3. PP!Log!LogTypeOK' /\ log' = log /\ durable <= durable' /\ Len(log) \in Nat
      /\ durable' \in {durable, Len(log)}
  BY <1>2, LogFlushed, LogIsTyped DEF Base, LogIs
<1>. QED
  BY <1>2, <1>3, DropCall DEF Base

LEMMA FinishKeeps ==
  ASSUME Base, Finish, ctl.op = "recover"
  PROVE  /\ PP!StoreInv' /\ PP!View' = PP!View
         /\ log' = log /\ durable <= durable' /\ durable' \in {durable, Len(log)}
<1>1. UNCHANGED poolVars /\ Log!LogFlush(Log!Latest)
  BY DEF Finish
<1>2. PP!Log!LogTypeOK' /\ log' = log /\ durable <= durable' /\ Len(log) \in Nat
      /\ durable' \in {durable, Len(log)}
  BY <1>1, LogFlushed, LogIsTyped DEF Base, LogIs
<1>. QED
  BY <1>1, <1>2, LogMoves DEF Base

LEMMA Base_Finish ==
  ASSUME Base, Finish
  PROVE  Base'
<1>1. PICK t \in Tx : t = Me
  BY DEF Finish, At, Base, CtlOK
<1>2. PP!StoreInv' /\ log' = log
  BY FinishDrops, FinishKeeps
<1>3. LP!LockInv' /\ SetsTyped'
  BY <1>1, <1>2, LockCall, SetsKept, LogIsTyped DEF Base, Finish
<1>4. NoWrites \in [Block -> [Offset -> Value \cup {None}]]
  BY DEF NoWrites
<1>5. TxTypeOK'
  <2>1. writes' \in [Tx -> [Block -> [Offset -> Value \cup {None}]]]
    BY <1>1, <1>4 DEF Finish, Base, TxTypeOK
  <2>2. state' \in [Tx -> States] /\ recovered' \in BOOLEAN
    BY <1>1 DEF Finish, Base, TxTypeOK, States
  <2>. QED
    BY <2>1, <2>2, NoCtlOK DEF Finish, Base, TxTypeOK
<1>. QED
  BY <1>2, <1>3, <1>5, NoCtlOK DEF Base, Finish

Starts == /\ PP!PoolStart /\ disk \in [Block -> PP!Contents \cup {Missing}]
          /\ PP!Log!LogTypeOK

LEMMA StartStore == Starts => PP!StoreInv
BY PP!StartInv, PP!StartClean, PoolAssumed, TxFinite DEF Starts, PP!StoreInv

LEMMA StartStoreNext == Starts' => PP!StoreInv'
BY StartStore, PTL

LEMMA StartLocks == LP!LockInit => LP!LockInv
<1>1. LP!IsFiniteSet(Tx)
  BY TxFinite, Zenon DEF LP!IsFiniteSet, IsFiniteSet
<1>. QED
  BY <1>1, LP!LockInit_Inv, Zenon

LEMMA StartLocksNext == LP!LockInit' => LP!LockInv'
BY StartLocks, PTL

LEMMA Base_Crash ==
  ASSUME Base, Crash
  PROVE  Base'
<1>1. PP!Log!LogTypeOK'
  BY LogCut, LogIsTyped DEF Crash, Base
<1>2. PP!PoolStart'
  BY Zenon DEF Crash, PP!PoolStart, PP!EmptyPool, PP!NoPins, PP!NoWaits, PP!NoCall,
               Pool!EmptyPool, Pool!NoPins, Pool!NoWaits, Pool!NoCall, Pool!Buffers,
               PP!Buffers, Pool!NewBuffer, PP!NewBuffer, Pool!NoEntry, PP!NoEntry,
               Pool!ZeroPage, PP!ZeroPage
<1>3. disk' \in [Block -> PP!Contents \cup {Missing}]
  BY DEF Crash, Base, PP!StoreInv, PP!PoolInv, PP!PoolTypeOK
<1>4. PP!StoreInv'
  BY <1>1, <1>2, <1>3, StartStoreNext DEF Starts
<1>5. LP!LockInit'
  BY Zenon DEF Crash, LP!LockInit, LP!NoLocks, LP!NoModes, Locks!NoLocks, Locks!NoModes
<1>6. LP!LockInv' /\ SetsTyped' /\ CtlOK'
  BY <1>5, StartLocksNext, SetsKept, LogIsTyped, NoCtlOK DEF Crash, Base
<1>7. TxTypeOK'
  <2>1. writes' \in [Tx -> [Block -> [Offset -> Value \cup {None}]]]
    BY DEF Crash, NoWrites
  <2>2. state' \in [Tx -> States] /\ recovered' \in BOOLEAN /\ ctl' \in Ctls
    BY NoCtlOK DEF Crash, NoState, States
  <2>4. torn' \in BOOLEAN
    BY Zenon DEF Crash, Base, TxTypeOK
  <2>3. nextTx' \in 0..MaxTx /\ begins' \in 0..MaxBegins /\ crashes' \in 0..MaxCrashes
    BY TransactionAssumption DEF Crash, Base, TxTypeOK
  <2>. QED
    BY <2>1, <2>2, <2>3, <2>4 DEF TxTypeOK
<1>. QED
  BY <1>4, <1>6, <1>7 DEF Base

LEMMA Init_Base == Init => Base
<1>. SUFFICES ASSUME Init PROVE Base
  OBVIOUS
<1>1. PP!ZeroPage = Pool!ZeroPage /\ PP!ZeroPage \in PP!Contents
  BY PoolAssumed DEF PP!ZeroPage, Pool!ZeroPage, PP!Contents
<1>2. disk \in [Block -> PP!Contents \cup {Missing}]
  BY <1>1 DEF Init
<1>3. PP!Log!LogTypeOK /\ log = <<>>
  BY DEF Init, Log!LogInit, PP!Log!LogTypeOK
<1>4. PP!StoreInv
  BY <1>2, <1>3, StartStore, SamePool DEF Init, Starts
<1>5. LP!LockInv
  BY StartLocks, SameLocks DEF Init
<1>6. SetsTyped /\ CtlOK
  BY <1>3 DEF Init, SetsTyped, CtlOK, NoCtl, Me
<1>8. torn \in BOOLEAN
  BY Zenon DEF Init
<1>7. TxTypeOK
  BY <1>8, TransactionAssumption DEF Init, TxTypeOK, NoState, States, NoWrites, Ctls, NoCtl
<1>. QED
  BY <1>4, <1>5, <1>6, <1>7 DEF Base

LEMMA Base_Same ==
  ASSUME Base, UNCHANGED vars
  PROVE  Base'
<1>1. UNCHANGED <<poolVars, logVars, lockVars, txVars>>
  BY DEF vars
<1>2. PP!StoreInv' /\ log' = log
  BY <1>1, LogMoves, LogSame, LogIsTyped DEF Base, logVars, LogIs
<1>3. CtlOK'
  BY <1>1 DEF Base, CtlOK, txVars, poolVars, Me, PP!Idle
<1>. QED
  BY <1>1, <1>2, <1>3, BaseKept DEF Base, TxTypeOK, txVars

LEMMA Next_Base == Base /\ [Next]_vars => Base'
<1>. SUFFICES ASSUME Base, [Next]_vars PROVE Base'
  OBVIOUS
<1>1. CASE UNCHANGED vars
  BY <1>1, Base_Same
<1>2. CASE Begin \/ RecoverCall \/ Scan \/ UndoPin \/ UndoSet \/ UndoUnpin \/ UndoDone
  <2>1. RecoverCall => 1 \in Tx
    BY TransactionAssumption DEF RecoverCall, Base, TxTypeOK, Tx
  <2>. QED
    BY <1>2, <2>1, Base_Begin, Base_Calls, Base_Scan, Base_UndoPin, Base_UndoSet, Base_UndoUnpin
<1>3. CASE ScanThrows \/ WriteClosing \/ Finish \/ PoolWork \/ Crash
  BY <1>3, Base_ScanThrows, Base_WriteClosing, Base_Finish, Base_PoolWork, Base_Crash
<1>4. ASSUME NEW t \in Tx, CommitCall(t) \/ RollbackCall(t) \/ Retry(t) \/ Timeout(t)
      PROVE  Base'
  BY <1>4, Base_Calls, Base_Retry, Base_Timeout
<1>5. ASSUME NEW t \in Tx, Size(t) PROVE Base'
  BY <1>5, Base_Lock
<1>6. ASSUME NEW t \in Tx, NEW b \in Block,
             \/ Pin(t, b) \/ Unpin(t, b) \/ Get(t, b) \/ AppendBlock(t, b)
             \/ SetUnpinned(t, b)
             \/ \E o \in Offset, v \in Value : Set(t, b, o, v)
      PROVE  Base'
  BY <1>6, Base_Pin, Base_Lock, Base_AppendBlock, Base_Set
<1>. QED
  BY <1>1, <1>2, <1>3, <1>4, <1>5, <1>6 DEF Next

(* The bookkeeping of transactions keeps its types in every state: no call *)
(* of the undo loop on a record that is not a change, no transaction       *)
(* without a number, no reader or writer that the lock table lost, through *)
(* crashes, sleeping pins and timeouts, recovered or not.                  *)
THEOREM TransactionsKeepTypes == Spec => []TypeOK
<1>1. Base => TypeOK
  <2>. SUFFICES ASSUME Base PROVE TypeOK
    OBVIOUS
  <2>1. Pool!PoolTypeOK /\ Locks!LockTypeOK /\ Log!LogTypeOK
    BY SamePool, SameLocks DEF Base, PP!StoreInv, PP!PoolInv, PP!LogOK, LP!LockInv,
       PP!Log!LogTypeOK, Log!LogTypeOK
  <2>. QED
    BY <2>1 DEF Base, TxTypeOK, TypeOK, States, Ctls
<1>. QED
  BY <1>1, Init_Base, Next_Base, PTL DEF Spec

----------------------------------------------------------------------------
(* From here on the clients are those of the runs that pass: a process     *)
(* recovers first, and writers keep each other out.                        *)
(*                                                                         *)
(* Steps that move no page and write no record, whatever they do to calls, *)
(* pins and locks.                                                         *)
Live(t) == state[t] \in {"active", "broken"}
Rest == IF ctl.at = "unpin" THEN Tail(ctl.undo) ELSE ctl.undo

Locking == \E t \in Tx, b \in Lockable : Client(t) /\ (SLock(t, b) \/ XLock(t, b))

KeepsX == \A t \in Tx, b \in Lockable : held[t][b] = "X" => held'[t][b] = "X"

Quiet ==
  /\ UNCHANGED <<log, durable, disk, writes, recovered, nextTx>>
  /\ PP!SameBuffers /\ PP!View' = PP!View
  /\ held' = held \/ Locking

(* The steps of one call that change neither what is left to undo nor      *)
(* whether its closing record is written.                                  *)
SameCall ==
  /\ ctl'.op = ctl.op /\ ctl'.tx = ctl.tx /\ ctl'.undo \in {ctl.undo, Tail(ctl.undo)}
  /\ (ctl'.at = "end" <=> ctl.at = "end") /\ (ctl'.at = "scan" <=> ctl.at = "scan")
  /\ ctl'.undo = Tail(ctl.undo) \/ ctl'.undo = ctl.undo
  /\ Rest' = Rest
  /\ UNCHANGED state

(* A call begins, or is given up, in a sleep of its undo or by its scan. *)
Opens == /\ ctl = NoCtl /\ UNCHANGED state
         /\ \/ /\ ctl'.op = "commit" /\ ctl'.at = "log" /\ state[ctl'.tx] = "active"
               /\ recovered
            \/ /\ ctl'.op = "rollback" /\ ctl'.at = "scan" /\ Live(ctl'.tx) /\ recovered
            \/ /\ ctl'.op = "recover" /\ ctl'.at = "scan" /\ ctl'.tx = 1 /\ ~ recovered
               /\ state[1] = "active"
         /\ ctl'.tx \in Tx /\ ctl'.undo = <<>>

GivesUp == /\ ctl # NoCtl /\ ctl.at \notin {"log", "end"} /\ ctl' = NoCtl
           /\ state' = [state EXCEPT ![Me] = "broken"]

LEMMA XKept ==
  ASSUME LP!LockInv, NEW t \in Tx, NEW b \in Lockable,
         held' = held \/ SLock(t, b) \/ XLock(t, b)
  PROVE  KeepsX
BY DEF SLock, XLock, Locks!SLock, Locks!XLock, lockVars, LP!LockInv, LP!LockTypeOK,
       LP!Modes, KeepsX

LEMMA QuietKeepsX ==
  ASSUME Base, Quiet
  PROVE  KeepsX
<1>1. CASE held' = held
  BY <1>1 DEF KeepsX
<1>2. CASE Locking
  BY <1>2, XKept DEF Locking, Base
<1>. QED
  BY <1>1, <1>2 DEF Quiet

LEMMA PagesStay ==
  ASSUME PP!StoreInv, PP!StoreInv', UNCHANGED <<disk, pool>>
  PROVE  PP!SameBuffers /\ PP!View' = PP!View
<1>1. PP!SameBuffers
  BY DEF PP!SameBuffers
<1>2. PP!ViewIs /\ PP!ViewIs'
  BY ViewNow, ViewNext DEF PP!StoreInv
<1>. QED
  BY <1>1, <1>2, PP!ViewKept, PoolAssumed DEF PP!SameBuffers

LEMMA UnpinStays ==
  ASSUME PP!StoreInv, PP!StoreInv', NEW t \in Tx, NEW b \in Block, Pool!Unpin(t, b)
  PROVE  PP!SameBuffers /\ PP!View' = PP!View
<1>1. PP!SameBuffers
  BY SameCalls, PP!UnpinFrame, PoolAssumed, TxFinite DEF PP!StoreInv
<1>2. PP!ViewIs /\ PP!ViewIs' /\ disk' = disk
  BY ViewNow, ViewNext DEF PP!StoreInv, Pool!Unpin
<1>. QED
  BY <1>1, <1>2, PP!ViewKept, PoolAssumed DEF PP!SameBuffers

LEMMA QuietClient ==
  ASSUME Base, Base', NEW t \in Tx,
         \/ \E b \in Block : Pin(t, b) \/ Unpin(t, b)
         \/ Retry(t)
  PROVE  Quiet /\ UNCHANGED <<ctl, state, held>>
<1>1. UNCHANGED <<lockVars, txVars>>
  BY DEF Pin, Unpin, Retry
<1>3. CASE \E b \in Block : Pin(t, b)
  <2>1. UNCHANGED <<disk, pool, log, durable>>
    BY <1>3 DEF Pin, Retry, Pool!PinCall, Pool!PinRetry
  <2>. QED
    BY <1>1, <2>1, PagesStay DEF Quiet, Base, lockVars, txVars
<1>4. CASE Retry(t)
  <2>1. UNCHANGED <<disk, pool, log, durable>>
    BY <1>4 DEF Retry, Pool!PinRetry
  <2>. QED
    BY <1>1, <2>1, PagesStay DEF Quiet, Base, lockVars, txVars
<1>5. ASSUME NEW b \in Block, Unpin(t, b)
      PROVE  Quiet /\ UNCHANGED <<ctl, state, held>>
  <2>1. UNCHANGED <<disk, log, durable>> /\ Pool!Unpin(t, b)
    BY <1>5 DEF Unpin, Pool!Unpin
  <2>. QED
    BY <1>1, <2>1, UnpinStays DEF Quiet, Base, lockVars, txVars
<1>. QED
  BY <1>3, <1>4, <1>5

LEMMA QuietLock ==
  ASSUME Base, Base', NEW t \in Tx,
         Size(t) \/ \E b \in Block : Get(t, b) \/ SetUnpinned(t, b)
  PROVE  Quiet /\ UNCHANGED <<ctl, state>>
<1>1. UNCHANGED <<poolVars, logVars, txVars>> /\ Locking
  BY DEF Size, Get, SetUnpinned, Locking, Lockable
<1>. QED
  BY <1>1, PagesStay DEF Quiet, Base, poolVars, logVars, txVars

LEMMA QuietOpens ==
  ASSUME Base, Base', NEW t \in Tx,
         CommitCall(t) \/ RollbackCall(t) \/ (RecoverCall /\ t = 1), RecoverFirst
  PROVE  Quiet /\ Opens /\ held' = held
<1>1. UNCHANGED <<disk, pool, log, durable, held, nextTx, state, recovered, writes>>
  BY DEF CommitCall, RollbackCall, RecoverCall, Pool!FlushAllCall, poolVars, logVars, lockVars
<1>2. Quiet /\ held' = held
  BY <1>1, PagesStay DEF Quiet, Base
<1>3. CASE CommitCall(t)
  BY <1>1, <1>2, <1>3, EnterIs DEF CommitCall, Client, Opens, Phases
<1>4. CASE RollbackCall(t)
  BY <1>1, <1>2, <1>4, EnterIs DEF RollbackCall, Calm, Opens, Live, Phases
<1>5. CASE RecoverCall /\ t = 1
  BY <1>1, <1>2, <1>5, EnterIs DEF RecoverCall, Opens, Phases
<1>. QED
  BY <1>2, <1>3, <1>4, <1>5

LEMMA QuietTimeout ==
  ASSUME Base, Base', NEW t \in Tx, Timeout(t)
  PROVE  Quiet /\ held' = held /\ (UNCHANGED <<ctl, state>> \/ GivesUp)
<1>1. UNCHANGED <<disk, pool, log, durable, held, nextTx, recovered, writes>>
      /\ waiting[t] # None
  BY DEF Timeout, Pool!PinTimeout, lockVars
<1>2. Quiet /\ held' = held
  BY <1>1, PagesStay DEF Quiet, Base
<1>3. UNCHANGED <<ctl, state>> \/ GivesUp
  BY <1>1 DEF Timeout, MayRun, GivesUp, Base, CtlOK, Me
<1>. QED
  BY <1>2, <1>3

LEMMA QuietUndo ==
  ASSUME Base, Base', UndoPin \/ UndoUnpin \/ UndoDone
  PROVE  Quiet /\ held' = held /\ SameCall
<1>1. UNCHANGED <<log, durable, disk, held, nextTx, state, recovered, writes>>
  BY DEF UndoPin, UndoUnpin, UndoDone, Pool!PinCall, Pool!Unpin, Pool!FlushAllCall, lockVars
<1>2. PP!SameBuffers /\ PP!View' = PP!View
  <2>1. CASE UndoPin \/ UndoDone
    <3>1. UNCHANGED <<disk, pool>>
      BY <2>1 DEF UndoPin, UndoDone, Pool!PinCall, Pool!FlushAllCall
    <3>. QED
      BY <3>1, PagesStay DEF Base
  <2>2. CASE UndoUnpin
    <3>1. Me \in Tx /\ ToUndo.blk \in Block
      BY <2>2, ToUndoIs DEF UndoUnpin, At, Base, CtlOK
    <3>. QED
      BY <2>2, <3>1, UnpinStays DEF UndoUnpin, Base
  <2>. QED
    BY <2>1, <2>2
<1>3. SameCall
  <2>1. CASE UndoPin
    <3>1. /\ ctl'.op = ctl.op /\ ctl'.tx = ctl.tx /\ ctl'.at = "set" /\ ctl'.undo = ctl.undo
      BY <2>1, GoIs DEF UndoPin, Base, TxTypeOK, CtlOK, Phases
    <3>. QED
      BY <1>1, <2>1, <3>1 DEF SameCall, Rest, UndoPin, At
  <2>2. CASE UndoDone
    <3>1. /\ ctl'.op = ctl.op /\ ctl'.tx = ctl.tx /\ ctl'.at = "log" /\ ctl'.undo = ctl.undo
      BY <2>2, GoIs DEF UndoDone, Base, TxTypeOK, CtlOK, Phases
    <3>. QED
      BY <1>1, <2>2, <3>1 DEF SameCall, Rest, UndoDone, At
  <2>3. CASE UndoUnpin
    <3>1. PICK u \in Seq(SetRecords) : u = Tail(ctl.undo)
      BY <2>3, ToUndoIs DEF UndoUnpin, At, Base, CtlOK
    <3>2. /\ ctl'.op = ctl.op /\ ctl'.tx = ctl.tx /\ ctl'.at = "undo" /\ ctl'.undo = u
      BY <2>3, <3>1, GoIs DEF UndoUnpin, Base, TxTypeOK, Phases
    <3>. QED
      BY <1>1, <2>3, <3>1, <3>2 DEF SameCall, Rest, UndoUnpin, At
  <2>. QED
    BY <2>1, <2>2, <2>3
<1>. QED
  BY <1>1, <1>2, <1>3 DEF Quiet

LEMMA QuietSame ==
  ASSUME Base, Base', UNCHANGED vars
  PROVE  Quiet /\ UNCHANGED <<ctl, state, held>>
<1>1. UNCHANGED <<disk, pool, log, durable, held, nextTx, state, ctl, recovered, writes>>
  BY DEF vars, poolVars, logVars, lockVars, txVars
<1>. QED
  BY <1>1, PagesStay DEF Quiet, Base

QuietStep == Quiet /\ \/ UNCHANGED <<ctl, state>>
                      \/ held' = held /\ (SameCall \/ Opens \/ GivesUp)

LoudStep ==
  \/ Begin \/ Scan \/ ScanThrows \/ UndoSet \/ WriteClosing \/ Finish \/ PoolWork \/ Crash
  \/ \E t \in Tx, b \in Block :
        AppendBlock(t, b) \/ \E o \in Offset, v \in Value : Set(t, b, o, v)

LEMMA Steps ==
  ASSUME Base, Base', [Next]_vars, RecoverFirst
  PROVE  QuietStep \/ LoudStep
<1>1. CASE UNCHANGED vars
  BY <1>1, QuietSame DEF QuietStep
<1>2. CASE RecoverCall
  <2>1. 1 \in Tx
    BY <1>2, TransactionAssumption DEF RecoverCall, Base, TxTypeOK, Tx
  <2>. QED
    BY <1>2, <2>1, QuietOpens DEF QuietStep
<1>3. CASE UndoPin \/ UndoUnpin \/ UndoDone
  BY <1>3, QuietUndo DEF QuietStep
<1>4. ASSUME NEW t \in Tx, CommitCall(t) \/ RollbackCall(t)
      PROVE  QuietStep
  BY <1>4, QuietOpens DEF QuietStep
<1>5. ASSUME NEW t \in Tx, Timeout(t)
      PROVE  QuietStep
  BY <1>5, QuietTimeout DEF QuietStep
<1>6. ASSUME NEW t \in Tx, Size(t) \/ \E b \in Block : Get(t, b) \/ SetUnpinned(t, b)
      PROVE  QuietStep
  BY <1>6, QuietLock DEF QuietStep
<1>7. ASSUME NEW t \in Tx, Retry(t) \/ \E b \in Block : Pin(t, b) \/ Unpin(t, b)
      PROVE  QuietStep
  BY <1>7, QuietClient DEF QuietStep
<1>. QED
  BY <1>1, <1>2, <1>3, <1>4, <1>5, <1>6, <1>7 DEF Next, LoudStep

----------------------------------------------------------------------------
(* The other steps, one by one. *)
Appended(r) ==
  /\ Len(log') = Len(log) + 1 /\ log'[Len(log) + 1] = r
  /\ \A i \in 1..Len(log) : log'[i] = log[i]
  /\ durable' \in {durable, Len(log)} /\ durable <= durable'
  /\ LogIs /\ LogIs'

SameData == UNCHANGED disk /\ PP!SameBuffers /\ PP!View' = PP!View

LEMMA BeginIs ==
  ASSUME Base, Base', Begin
  PROVE  /\ nextTx + 1 \in Tx /\ nextTx' = nextTx + 1 /\ Appended(Mark("START", nextTx + 1))
         /\ state' = [state EXCEPT ![nextTx + 1] = "active"]
         /\ SameData /\ UNCHANGED <<held, ctl, recovered, writes>> /\ ctl = NoCtl
         /\ RecoverFirst /\ nextTx > 0 => recovered
<1>1. nextTx + 1 \in Tx
  BY TransactionAssumption DEF Begin, Base, TxTypeOK, Tx
<1>2. PICK r \in Record : r = Mark("START", nextTx + 1)
  BY <1>1, MarkTyped
<1>3. Appended(r)
  BY <1>2, LogAppended, LogIsTyped DEF Appended, Begin, Base
<1>4. UNCHANGED <<disk, pool, held, ctl, recovered, writes>> /\ ctl = NoCtl
  BY DEF Begin, Calm, poolVars, lockVars
<1>. QED
  BY <1>1, <1>2, <1>3, <1>4, PagesStay DEF SameData, Begin, Base

LEMMA ScanIs ==
  ASSUME Base, Base', Scan
  PROVE  /\ log' = log /\ durable' = Len(log) /\ durable <= durable'
         /\ SameData /\ UNCHANGED <<held, recovered, writes, nextTx, state>>
         /\ ctl'.op = ctl.op /\ ctl'.tx = ctl.tx /\ ctl'.at = "undo"
         /\ ctl.op # "none" /\ ctl.at = "scan"
         /\ \E u \in Seq(SetRecords) : /\ u = ctl'.undo /\ Collects(u, log, Found, Len(log))
                                       /\ Found \subseteq 1..Len(log)
<1>1. /\ At("scan") /\ log' = log /\ durable' = Len(log)
      /\ UNCHANGED <<pool, disk, held, nextTx, state, recovered, writes>>
      /\ ctl' = [ctl EXCEPT !.at = "undo", !.undo = NewestFirst(log, Found)]
  BY DEF Scan, Found, Log!LogFlushAll, Log!Latest, poolVars, lockVars
<1>2. PICK u : u = NewestFirst(log, Found)
  OBVIOUS
<1>3. u \in Seq(SetRecords) /\ Collects(u, log, Found, Len(log)) /\ Found \subseteq 1..Len(log)
  BY <1>2, ScanFinds, LogIsTyped DEF Base
<1>4. ctl'.op = ctl.op /\ ctl'.tx = ctl.tx /\ ctl'.at = "undo" /\ ctl'.undo = u
  BY <1>1, <1>2, <1>3, GoIs DEF Base, TxTypeOK, Phases
<1>5. durable <= durable'
  BY <1>1, LogIsTyped DEF Base, LogIs
<1>. QED
  BY <1>1, <1>3, <1>4, <1>5, PagesStay DEF SameData, Base, At

LEMMA ScanThrowsIs ==
  ASSUME Base, Base', ScanThrows
  PROVE  /\ log' = log /\ durable' = Len(log) /\ durable <= durable'
         /\ SameData /\ UNCHANGED <<held, recovered, writes, nextTx>>
         /\ GivesUp /\ ctl.op = "recover" /\ ctl.at = "scan" /\ ctl'.at = "start" /\ Me \in Tx
<1>1. /\ ctl.at = "scan" /\ ctl.op = "recover" /\ log' = log /\ durable' = Len(log)
      /\ UNCHANGED <<pool, disk, held, nextTx, recovered, writes>>
      /\ ctl' = NoCtl /\ state' = [state EXCEPT ![Me] = "broken"]
  BY DEF ScanThrows, At, Log!LogFlushAll, Log!Latest, poolVars, lockVars
<1>2. durable <= durable'
  BY <1>1, LogIsTyped DEF Base, LogIs
<1>3. GivesUp /\ Me \in Tx /\ ctl'.at = "start"
  BY <1>1 DEF GivesUp, NoCtl, Base, CtlOK, Me
<1>. QED
  BY <1>1, <1>2, <1>3, PagesStay DEF SameData, Base

LEMMA UndoSetIs ==
  ASSUME Base, Base', UndoSet
  PROVE  /\ UNCHANGED <<log, durable, disk, recovered, writes, nextTx, state>>
         /\ Me \in Tx /\ ToUndo.blk \in Block
         /\ \/ held' = held /\ held[Me][ToUndo.blk] = "X"
            \/ held[Me][ToUndo.blk] # "X" /\ held' = [held EXCEPT ![Me][ToUndo.blk] = "X"]
         /\ PP!WriteUnlogged(Me, ToUndo.blk, ToUndo.off, ToUndo.val)
         /\ PP!Store!StoreWrite(ToUndo.blk, ToUndo.off, ToUndo.val)
         /\ ctl'.op = ctl.op /\ ctl'.tx = ctl.tx /\ ctl'.undo = ctl.undo
         /\ ctl.op # "none" /\ ctl.at = "set" /\ ctl'.at = "unpin" /\ ctl.undo # <<>>
<1>1. Me \in Tx /\ ctl.undo # <<>> /\ ctl.undo \in Seq(SetRecords) /\ ctl.at = "set"
      /\ ctl.op # "none"
  BY DEF UndoSet, At, Base, CtlOK
<1>2. ToUndo.blk \in Block /\ ToUndo.off \in Offset /\ ToUndo.val \in Value
  BY <1>1, ToUndoIs DEF Base
<1>3. PP!WriteUnlogged(Me, ToUndo.blk, ToUndo.off, ToUndo.val)
  BY SameCalls DEF UndoSet
<1>4. /\ mine[Me][ToUndo.blk].buf # 0
      /\ pool' = [pool EXCEPT ![mine[Me][ToUndo.blk].buf] =
                                PP!Modified(@, Me, ToUndo.off, ToUndo.val, 0)]
      /\ UNCHANGED <<disk, call, waiting, log, durable>>
  BY <1>3 DEF PP!WriteUnlogged
<1>5. PP!PoolInv' /\ PP!ViewIs /\ PP!ViewIs'
  BY ViewNow, ViewNext DEF Base, PP!StoreInv
<1>6. PP!Store!StoreWrite(ToUndo.blk, ToUndo.off, ToUndo.val)
  BY <1>1, <1>2, <1>4, <1>5, PP!ModifyView, PoolAssumed DEF Base
<1>7. ctl'.op = ctl.op /\ ctl'.tx = ctl.tx /\ ctl'.undo = ctl.undo /\ ctl'.at = "unpin"
  BY <1>1, GoIs DEF UndoSet, Base, TxTypeOK, Phases
<1>. QED
  BY <1>1, <1>2, <1>3, <1>4, <1>6, <1>7 DEF UndoSet, Locks!XLock, lockVars

LEMMA WriteClosingIs ==
  ASSUME Base, Base', WriteClosing
  PROVE  /\ Appended(Closing) /\ SameData
         /\ UNCHANGED <<held, recovered, writes, nextTx, state>>
         /\ ctl'.op = ctl.op /\ ctl'.tx = ctl.tx /\ ctl'.at = "end" /\ ctl'.undo = ctl.undo
         /\ ctl.op # "none" /\ ctl.at = "log" /\ Closing \in Record /\ PP!Idle
<1>1. /\ At("log") /\ PP!Idle /\ Log!LogAppend(Closing) /\ Go("end")
      /\ UNCHANGED <<disk, pool, held, nextTx, state, recovered, writes>>
  BY SamePool DEF WriteClosing, poolVars, lockVars
<1>2. Closing \in Record
  BY <1>1, ClosingIs DEF Base, At
<1>3. Appended(Closing)
  BY <1>1, <1>2, LogAppended, LogIsTyped DEF Appended, Base
<1>4. ctl'.op = ctl.op /\ ctl'.tx = ctl.tx /\ ctl'.at = "end" /\ ctl'.undo = ctl.undo
  BY <1>1, GoIs DEF Base, TxTypeOK, Phases, CtlOK
<1>. QED
  BY <1>1, <1>2, <1>3, <1>4, PagesStay DEF SameData, Base, At

LEMMA FinishIs ==
  ASSUME Base, Base', Finish
  PROVE  /\ log' = log /\ durable' = Len(log) /\ durable <= durable' /\ SameData
         /\ UNCHANGED nextTx /\ ctl' = NoCtl /\ ctl.op # "none" /\ ctl.at = "end" /\ Me \in Tx
         /\ writes' = [writes EXCEPT ![Me] = NoWrites]
         /\ ctl.op = "recover" => recovered' = TRUE /\ UNCHANGED <<held, state>>
         /\ ctl.op # "recover" =>
               /\ held' = [held EXCEPT ![Me] = [b \in Lockable |-> "none"]]
               /\ state' = [state EXCEPT ![Me] = IF ctl.op = "commit" THEN "committed"
                                                 ELSE "rolled back"]
               /\ UNCHANGED recovered
<1>1. LogIs /\ Me \in Tx
  BY LogIsTyped DEF Base, Finish, At, CtlOK
<1>2. log' = log /\ durable' = Len(log) /\ durable <= durable' /\ disk' = disk
  <2>1. Len(log) >= durable /\ durable <= Len(log)
    BY <1>1 DEF LogIs
  <2>2. Log!LogFlush(Len(log))
    BY DEF Finish, Log!Latest
  <2>3. log' = log /\ durable' = Len(log)
    BY <2>1, <2>2 DEF Log!LogFlush, Log!LogFlushAll, Log!Latest
  <2>4. disk' = disk
    BY DEF Finish, poolVars
  <2>. QED
    BY <2>1, <2>3, <2>4
<1>3. PP!SameBuffers /\ PP!View' = PP!View
  <2>1. CASE ctl.op = "recover"
    <3>1. UNCHANGED <<disk, pool>>
      BY <2>1 DEF Finish, poolVars
    <3>. QED
      BY <3>1, PagesStay DEF Base
  <2>. QED
    BY <2>1, FinishDrops
<1>. QED
  BY <1>1, <1>2, <1>3 DEF Finish, SameData, At, Locks!Release, lockVars

LEMMA PoolWorkIs ==
  ASSUME Base, PoolWork
  PROVE  /\ UNCHANGED <<held, ctl, state, recovered, writes, nextTx>> /\ log' = log
         /\ durable <= durable' /\ PP!View' = PP!View /\ ctl.at # "end"
         /\ \A i \in PP!Buffers : pool'[i].txnum # None =>
               /\ pool'[i].blk = pool[i].blk
               /\ pool'[i].txnum = pool[i].txnum
               /\ pool'[i].lsn = pool[i].lsn
         /\ \A i \in PP!Buffers : pool[i].txnum # None /\ pool[i].lsn > durable =>
               pool'[i].txnum # None
         /\ \A b \in Block : disk'[b] = disk[b] \/ PP!Written(b)
<1>1. PP!PoolStep /\ UNCHANGED <<lockVars, txVars>>
  BY SameStep DEF PoolWork
<1>2. ~ PP!Idle
  BY <1>1 DEF PP!PoolStep, PP!WritePage, PP!PinHit, PP!PinEvict, PP!PinLoad, PP!PinFull,
              PP!FlushAllStep, PP!FlushAllDone, PP!PinMiss, PP!Step, PP!Idle, PP!NoCall
<1>3. ctl.at # "end"
  BY <1>2 DEF Base, CtlOK
<1>4. UNCHANGED <<held, ctl, state, recovered, writes, nextTx>> /\ PP!View' = PP!View
  BY <1>1, PoolCall DEF Base, lockVars, txVars
<1>. QED
  BY <1>1, <1>3, <1>4, PP!PoolStep_Frame, PoolAssumed, ViewNow DEF Base

LEMMA CrashIs ==
  ASSUME Base, Base', Crash
  PROVE  /\ LogIs /\ LogIs' /\ durable' = durable /\ Len(log') = durable
         /\ \A i \in 1..durable : log'[i] = log[i]
         /\ disk' = disk /\ PP!View' = disk /\ recovered' = FALSE /\ nextTx' = 0
         /\ \A t \in Tx : state'[t] = "none"
         /\ \A t \in Tx, b \in Lockable : held'[t][b] = "none"
         /\ \A i \in PP!Buffers : pool'[i].txnum = None
         /\ writes' = [t \in Tx |-> NoWrites] /\ ctl' = NoCtl
<1>1. LogIs /\ LogIs' /\ durable' = durable /\ Len(log') = durable
      /\ \A i \in 1..durable : log'[i] = log[i]
  BY LogCut, LogIsTyped DEF Crash, Base
<1>2. \A i \in PP!Buffers : pool'[i].txnum = None /\ pool'[i].blk = None
  BY Zenon DEF Crash, Pool!EmptyPool, Pool!NewBuffer, Pool!Buffers, PP!Buffers
<1>3. PP!View' = disk
  <2>1. PP!ViewIs' /\ disk' = disk
    BY ViewNext DEF Base, PP!StoreInv, Crash
  <2>2. \A b \in Block : PP!View'[b] = disk[b]
    BY <1>2, <2>1, PoolAssumed DEF PP!ViewIs
  <2>3. disk = [b \in Block |-> disk[b]] /\ PP!View' = [b \in Block |-> PP!View'[b]]
    BY <2>1 DEF PP!ViewIs, Base, PP!StoreInv, PP!PoolInv, PP!PoolTypeOK
  <2>. QED
    BY <2>2, <2>3, Zenon
<1>4. \A t \in Tx, b \in Lockable : held'[t][b] = "none"
  BY DEF Crash, Locks!NoModes
<1>. QED
  BY <1>1, <1>2, <1>3, <1>4 DEF Crash, NoState

LEMMA AppendBlockIs ==
  ASSUME Base, NEW t \in Tx, NEW b \in Block, AppendBlock(t, b)
  PROVE  /\ UNCHANGED <<log, durable, ctl, state, recovered, writes, nextTx, pool>> /\ Locking
         /\ ctl = NoCtl /\ PP!Store!StoreAppend(b) /\ disk[b] = Missing
         /\ disk' = [disk EXCEPT ![b] = PP!ZeroPage]
<1>1. PP!FileAppend(b) /\ UNCHANGED txVars /\ ctl = NoCtl /\ Locking
  BY SameCalls DEF AppendBlock, Client, Locking, Lockable
<1>2. UNCHANGED <<log, durable, pool>> /\ disk[b] = Missing
      /\ disk' = [disk EXCEPT ![b] = PP!ZeroPage]
  BY <1>1 DEF PP!FileAppend
<1>. QED
  BY <1>1, <1>2, AppendCall DEF Base, txVars

LEMMA SetIs ==
  ASSUME Base, Base', NEW t \in Tx, NEW b \in Block, NEW o \in Offset, NEW v \in Value,
         Set(t, b, o, v)
  PROVE  /\ \E old \in Value : Appended(SetRecord(t, b, o, old)) /\ old = PP!View[b][o]
         /\ PP!Store!StoreWrite(b, o, v) /\ disk[b] # Missing
         /\ writes' = [writes EXCEPT ![t][b][o] = v]
         /\ UNCHANGED <<disk, nextTx, state, ctl, recovered>>
         /\ state[t] = "active" /\ ctl = NoCtl /\ XLock(t, b) /\ (RecoverFirst => recovered)
         /\ mine[t][b].buf \in PP!Buffers /\ pool[mine[t][b].buf].blk = b
         /\ pool' = [pool EXCEPT ![mine[t][b].buf] = PP!Modified(@, t, o, v, Len(log) + 1)]
<1>. DEFINE old == Contents(t, b)[o]
            i == mine[t][b].buf
<1>1. old \in Value /\ SetRecord(t, b, o, old) \in SetRecords
  BY Base_Set
<1>2. /\ i # 0 /\ pool' = [pool EXCEPT ![i] = PP!Modified(@, t, o, v, Len(log) + 1)]
      /\ Log!LogAppend(SetRecord(t, b, o, old)) /\ UNCHANGED disk
      /\ PP!WriteLogged(t, b, o, v, SetRecord(t, b, o, old))
  <2>1. PP!WriteLogged(t, b, o, v, SetRecord(t, b, o, old))
    BY SameCalls DEF Set
  <2>. QED
    BY <2>1 DEF PP!WriteLogged, PP!Log!Latest, PP!Log!LogAppend, Log!LogAppend, Log!Latest
<1>3. i \in PP!Buffers /\ pool[i].blk = b
  BY <1>2 DEF Base, PP!StoreInv, PP!PoolInv, PP!PoolTypeOK, PP!PinsMatchLists, PP!Entry
<1>4. old = PP!View[b][o] /\ disk[b] # Missing
  <2>1. PP!View[b] = pool[i].contents
    BY <1>3, ViewNow DEF PP!ViewIs, Base
  <2>2. disk[b] # Missing
    BY <1>3, PoolAssumed DEF Base, PP!StoreInv, PP!CleanOK
  <2>. QED
    BY <2>1, <2>2 DEF Contents
<1>5. PICK r \in SetRecords : r = SetRecord(t, b, o, old)
  BY <1>1
<1>6. Appended(r) /\ PP!Store!StoreWrite(b, o, v)
  <2>1. r \in Record /\ PP!WriteLogged(t, b, o, v, r)
    BY <1>2, <1>5, SetIsRecord
  <2>. QED
    BY <1>2, <1>5, <2>1, LogAppended, LogIsTyped, WriteCall DEF Appended, Base
<1>7. /\ writes' = [writes EXCEPT ![t][b][o] = v]
      /\ UNCHANGED <<nextTx, state, ctl, recovered>>
      /\ state[t] = "active" /\ ctl = NoCtl /\ XLock(t, b) /\ (RecoverFirst => recovered)
  BY DEF Set, Client
<1>8. \E x \in Value : Appended(SetRecord(t, b, o, x)) /\ x = PP!View[b][o]
  BY <1>1, <1>4, <1>5, <1>6
<1>. QED
  BY <1>2, <1>3, <1>4, <1>6, <1>7, <1>8

----------------------------------------------------------------------------
(* Whose call is in progress, and what a process that has not recovered    *)
(* can have done.  The closing record is the last one until it is flushed. *)
Control ==
  /\ ctl.op # "none" => Live(Me)
  /\ ctl.op = "commit" => state[Me] = "active"
  /\ ctl.op \in {"commit", "rollback"} => recovered
  /\ ctl.op = "recover" => Me = 1 /\ ~ recovered
  /\ ctl.at = "end" => Len(log) > 0 /\ log[Len(log)] = Closing
  /\ ~ recovered => /\ nextTx <= 1
                    /\ \A t \in Tx, b \in Lockable : t # 1 => held[t][b] = "none"
  /\ \A t \in Tx : t > nextTx => state[t] = "none"

LEMMA NoCtlIs == NoCtl.op = "none" /\ NoCtl.at = "start" /\ NoCtl.undo = <<>> /\ NoCtl.tx = None
BY DEF NoCtl

LEMMA MeIs ==
  ASSUME Base
  PROVE  /\ ctl.op = "none" <=> ctl = NoCtl
         /\ ctl.op # "none" => Me \in Tx /\ ctl.op \in {"commit", "rollback", "recover"}
         /\ ctl.at \in Phases
         /\ ctl.at = "start" => ctl = NoCtl
BY NoCtlIs DEF Base, CtlOK, TxTypeOK, Ctls, Phases

LEMMA SameClosing ==
  ASSUME ctl'.op = ctl.op, ctl'.tx = ctl.tx
  PROVE  Closing' = Closing
BY DEF Closing, Me

LEMMA Control_Quiet ==
  ASSUME Base, Base', Control, QuietStep, RecoverFirst
  PROVE  Control'
<1>. USE NoCtlIs DEF Me
<1>1. UNCHANGED <<log, recovered, nextTx>> /\ state \in [Tx -> States]
      /\ (ctl.op = "none" <=> ctl = NoCtl)
  BY MeIs DEF QuietStep, Quiet, Base, TxTypeOK
<1>2. ASSUME ~ recovered
      PROVE  nextTx <= 1 /\ \A t \in Tx, b \in Lockable : t # 1 => held'[t][b] = "none"
  <2>1. held' = held
    BY <1>2 DEF QuietStep, Quiet, Locking, Client
  <2>. QED
    BY <1>2, <2>1 DEF Control
<1>3. CASE UNCHANGED <<ctl, state>>
  BY <1>1, <1>2, <1>3, SameClosing DEF Control, Live
<1>4. CASE SameCall
  BY <1>1, <1>2, <1>4, SameClosing DEF Control, SameCall, Live
<1>5. CASE Opens
  BY <1>1, <1>2, <1>5 DEF Control, Opens, Live
<1>6. CASE GivesUp
  <2>1. \A t \in Tx : t > nextTx => state'[t] = "none"
    BY <1>1, <1>6, MeIs DEF GivesUp, Control, Live
  <2>. QED
    BY <1>1, <1>2, <1>6, <2>1 DEF Control, GivesUp
<1>. QED
  BY <1>3, <1>4, <1>5, <1>6 DEF QuietStep

LEMMA Control_Loud ==
  ASSUME Base, Base', Control, LoudStep, RecoverFirst
  PROVE  Control'
<1>. USE NoCtlIs DEF Me
<1>0. /\ state \in [Tx -> States] /\ nextTx \in Nat /\ Tx \subseteq Nat
      /\ ctl.op = "none" <=> ctl = NoCtl
  BY MeIs DEF Base, TxTypeOK, Tx
<1>1. CASE Begin
  <2>1. PICK m \in Tx : m = nextTx + 1
    BY <1>1, BeginIs
  <2>2. nextTx' = m /\ state' = [state EXCEPT ![m] = "active"]
        /\ UNCHANGED <<held, ctl, recovered>> /\ ctl = NoCtl /\ (nextTx > 0 => recovered)
    BY <1>1, <2>1, BeginIs
  <2>3. \A t \in Tx : t > m => state'[t] = "none"
    BY <1>0, <2>1, <2>2 DEF Control
  <2>4. ~ recovered => m <= 1
    BY <1>0, <2>1, <2>2
  <2>. QED
    BY <2>2, <2>3, <2>4 DEF Control
<1>2. CASE Scan
  BY <1>0, <1>2, ScanIs DEF Control, Live
<1>3. CASE UndoSet
  <2>1. /\ UNCHANGED <<log, recovered, nextTx, state>> /\ Me \in Tx
        /\ held' = held \/ held' = [held EXCEPT ![Me][ToUndo.blk] = "X"]
        /\ ctl'.op = ctl.op /\ ctl'.tx = ctl.tx /\ ctl'.at = "unpin" /\ ctl.op # "none"
        /\ ctl.at = "set"
    BY <1>3, UndoSetIs
  <2>2. ~ recovered => Me = 1
    BY <1>0, <2>1, MeIs DEF Control
  <2>3. ~ recovered => \A t \in Tx, b \in Lockable : t # 1 => held'[t][b] = "none"
    <3>1. \A t \in Tx : t # Me => held'[t] = held[t]
      BY <2>1 DEF Base, LP!LockInv, LP!LockTypeOK
    <3>. QED
      BY <2>2, <3>1 DEF Control
  <2>. QED
    BY <2>1, <2>3 DEF Control, Live
<1>4. CASE WriteClosing
  <2>1. /\ Appended(Closing) /\ UNCHANGED <<held, recovered, nextTx, state>>
        /\ ctl'.op = ctl.op /\ ctl'.tx = ctl.tx /\ ctl'.at = "end"
    BY <1>4, WriteClosingIs
  <2>2. Closing' = Closing
    BY <2>1 DEF Closing
  <2>3. Len(log') > 0 /\ log'[Len(log')] = Closing'
    BY <2>1, <2>2 DEF Appended, LogIs
  <2>. QED
    BY <2>1, <2>3 DEF Control, Live
<1>5. CASE Finish
  <2>1. /\ UNCHANGED nextTx /\ ctl' = NoCtl /\ ctl.op # "none" /\ Me \in Tx
        /\ ctl.op = "recover" => recovered' = TRUE /\ UNCHANGED <<held, state>>
        /\ ctl.op # "recover" =>
             /\ state' = [state EXCEPT ![Me] = IF ctl.op = "commit" THEN "committed"
                                                 ELSE "rolled back"]
             /\ UNCHANGED recovered
    BY <1>5, FinishIs
  <2>2. recovered'
    <3>1. CASE ctl.op = "recover"
      BY <2>1, <3>1
    <3>2. CASE ctl.op # "recover"
      <4>1. ctl.op \in {"commit", "rollback"}
        BY <2>1, <3>2, MeIs
      <4>2. recovered /\ recovered' = recovered
        BY <2>1, <3>2, <4>1 DEF Control
      <4>. QED
        BY <4>2, Zenon
    <3>. QED
      BY <3>1, <3>2
  <2>3. \A t \in Tx : t > nextTx => state'[t] = "none"
    <3>1. state[Me] # "none"
      BY <2>1 DEF Control, Live
    <3>. QED
      BY <1>0, <2>1, <3>1 DEF Control
  <2>. QED
    BY <2>1, <2>2, <2>3 DEF Control
<1>6. CASE PoolWork
  BY <1>6, PoolWorkIs DEF Control, Live
<1>7. CASE Crash
  BY <1>7, CrashIs DEF Control
<1>8. ASSUME NEW t \in Tx, NEW b \in Block, AppendBlock(t, b)
      PROVE  Control'
  <2>1. UNCHANGED <<log, ctl, state, recovered, nextTx>> /\ ctl = NoCtl /\ recovered
    BY <1>8, AppendBlockIs DEF Locking, Client
  <2>. QED
    BY <2>1 DEF Control
<1>9. ASSUME NEW t \in Tx, NEW b \in Block, NEW o \in Offset, NEW v \in Value, Set(t, b, o, v)
      PROVE  Control'
  <2>1. UNCHANGED <<ctl, state, recovered, nextTx>> /\ ctl = NoCtl /\ recovered
    BY <1>9, SetIs
  <2>. QED
    BY <2>1 DEF Control
<1>10. CASE ScanThrows
  <2>1. /\ UNCHANGED <<held, recovered, nextTx>> /\ GivesUp /\ ctl.op = "recover" /\ Me \in Tx
    BY <1>10, ScanThrowsIs
  <2>2. \A t \in Tx : t > nextTx => state'[t] = "none"
    BY <1>0, <2>1 DEF GivesUp, Control, Live
  <2>. QED
    BY <1>0, <2>1, <2>2 DEF Control, GivesUp
<1>. QED
  BY <1>1, <1>2, <1>3, <1>4, <1>5, <1>6, <1>7, <1>8, <1>9, <1>10 DEF LoudStep

LEMMA Init_Control == Init => Control
BY NoCtlIs DEF Init, Control, NoState, Me

LEMMA Next_Control ==
  ASSUME Base, Base', Control, [Next]_vars, RecoverFirst
  PROVE  Control'
BY Steps, Control_Quiet, Control_Loud

----------------------------------------------------------------------------
(* The open records: changes no closing record has settled.  A closing     *)
(* record counts once it is flushed; until then the call is at its end.    *)
End == IF ctl.at = "end" THEN Len(log) - 1 ELSE Len(log)

Kills(l, j, i) == l[j].op = "CHECKPOINT" \/ (Ends(l[j]) /\ l[j].tx = l[i].tx)
OpenIn(l, n) == {i \in 1..n : l[i].op = "SET" /\ \A j \in i..n : ~ Kills(l, j, i)}
Open == OpenIn(log, End)

LEMMA OpenSame ==
  ASSUME NEW l, NEW m, NEW n \in Nat, \A i \in 1..n : m[i] = l[i]
  PROVE  OpenIn(m, n) = OpenIn(l, n)
<1>1. ASSUME NEW i \in 1..n, NEW j \in i..n
      PROVE  Kills(m, j, i) <=> Kills(l, j, i)
  <2>1. j \in 1..n
    OBVIOUS
  <2>2. m[i] = l[i] /\ m[j] = l[j]
    BY <2>1
  <2>. QED
    BY <2>2, Zenon DEF Kills
<1>2. ASSUME NEW i \in 1..n
      PROVE  (m[i].op = "SET" /\ \A j \in i..n : ~ Kills(m, j, i))
               <=> (l[i].op = "SET" /\ \A j \in i..n : ~ Kills(l, j, i))
  <2>1. m[i] = l[i]
    OBVIOUS
  <2>. QED
    BY <1>1, <2>1, Zenon
<1>. QED
  BY <1>2, Zenon DEF OpenIn

LEMMA OpenNext ==
  ASSUME NEW l, NEW n \in Nat, NEW m, m = n + 1
  PROVE  \A i : i \in OpenIn(l, m) <=> \/ i \in OpenIn(l, n) /\ ~ Kills(l, m, i)
                                       \/ i = m /\ l[m].op = "SET"
<1>. SUFFICES ASSUME NEW i
              PROVE  i \in OpenIn(l, m) <=> \/ i \in OpenIn(l, n) /\ ~ Kills(l, m, i)
                                            \/ i = m /\ l[m].op = "SET"
  OBVIOUS
<1>1. CASE i \in 1..n
  <2>1. i \in 1..m /\ i # m /\ \A j : j \in i..m <=> j \in i..n \/ j = m
    BY <1>1
  <2>. QED
    BY <1>1, <2>1, Zenon DEF OpenIn
<1>2. CASE i = m
  <2>1. i \in 1..m /\ i \notin 1..n /\ i..m = {m}
    BY <1>2
  <2>2. l[m].op = "SET" => ~ Kills(l, m, m)
    BY DEF Kills, Ends
  <2>. QED
    BY <1>2, <2>1, <2>2, Zenon DEF OpenIn
<1>3. CASE i \notin 1..n /\ i # m
  <2>1. i \notin 1..m
    BY <1>3
  <2>. QED
    BY <1>3, <2>1, Zenon DEF OpenIn
<1>. QED
  BY <1>1, <1>2, <1>3

LEMMA OpenCut ==
  ASSUME NEW l, NEW n \in Nat, NEW k \in 0..n,
         \A j \in 1..n : l[j].op = "CHECKPOINT" \/ Ends(l[j]) => j <= k
  PROVE  \A i : i \in OpenIn(l, k) <=> i \in OpenIn(l, n) /\ i <= k
<1>. SUFFICES ASSUME NEW i PROVE i \in OpenIn(l, k) <=> i \in OpenIn(l, n) /\ i <= k
  OBVIOUS
<1>1. CASE i \in 1..k
  <2>1. i \in 1..n /\ i <= k
    BY <1>1
  <2>2. ASSUME NEW j \in i..n, j \notin i..k PROVE ~ Kills(l, j, i)
    <3>1. j \in 1..n /\ ~ j <= k
      BY <1>1, <2>2
    <3>. QED
      BY <3>1 DEF Kills
  <2>3. \A j \in i..k : j \in i..n
    BY <1>1
  <2>4. (\A j \in i..n : ~ Kills(l, j, i)) <=> (\A j \in i..k : ~ Kills(l, j, i))
    BY <2>2, <2>3, Zenon
  <2>. QED
    BY <1>1, <2>1, <2>4, Zenon DEF OpenIn
<1>2. CASE i \notin 1..k
  <2>1. i \in 1..n => ~ i <= k
    BY <1>2
  <2>. QED
    BY <1>2, <2>1, Zenon DEF OpenIn
<1>. QED
  BY <1>1, <1>2

(* Closing records are on disk before anything can follow them. *)
ClosingsDurable ==
  /\ durable <= End
  /\ \A j \in 1..End : log[j].op = "CHECKPOINT" \/ Ends(log[j]) => j <= durable

Closed == Control /\ ClosingsDurable

LEMMA EndIs ==
  ASSUME LogIs, Control
  PROVE  /\ End \in Nat /\ End <= Len(log)
         /\ ctl.at = "end" => End + 1 = Len(log)
         /\ ctl.at # "end" => End = Len(log)
BY DEF LogIs, Control, End

(* What the open records become. *)
LEMMA OpenKept ==
  ASSUME log' = log, ctl'.at = "end" <=> ctl.at = "end"
  PROVE  End' = End /\ Open' = Open
BY DEF End, Open

LEMMA OpenAppend ==
  ASSUME NEW r, Appended(r), ctl.at # "end", ctl'.at # "end", r.op = "START" \/ r.op = "SET"
  PROVE  /\ End = Len(log) /\ End' = End + 1
         /\ \A i : i \in Open' <=> i \in Open \/ (i = Len(log) + 1 /\ r.op = "SET")
<1>1. PICK n \in Nat : n = Len(log)
  BY DEF Appended, LogIs
<1>2. PICK m \in Nat : m = n + 1
  OBVIOUS
<1>3. End = n /\ End' = m /\ log'[m] = r /\ \A i \in 1..n : log'[i] = log[i]
  BY <1>1, <1>2 DEF Appended, End
<1>4. OpenIn(log', n) = Open
  BY <1>3, OpenSame DEF Open
<1>5. \A i : i \in OpenIn(log', m) <=> \/ i \in OpenIn(log', n) /\ ~ Kills(log', m, i)
                                       \/ i = m /\ log'[m].op = "SET"
  BY <1>2, OpenNext
<1>6. \A i : ~ Kills(log', m, i)
  BY <1>3 DEF Kills, Ends
<1>7. Open' = OpenIn(log', m)
  BY <1>3 DEF Open
<1>. QED
  BY <1>1, <1>2, <1>3, <1>4, <1>5, <1>6, <1>7

LEMMA OpenClosing ==
  ASSUME NEW r, Appended(r), ctl.at # "end", ctl'.at = "end"
  PROVE  End' = End /\ End = Len(log) /\ Open' = Open
<1>1. End = Len(log) /\ End' = Len(log) /\ Len(log) \in Nat
  BY DEF Appended, LogIs, End
<1>2. OpenIn(log', Len(log)) = OpenIn(log, Len(log))
  BY <1>1, OpenSame DEF Appended
<1>. QED
  BY <1>1, <1>2 DEF Open

LEMMA OpenFinish ==
  ASSUME LogIs, LogIs', Control, log' = log, ctl.at = "end", ctl'.at # "end"
  PROVE  /\ End' = End + 1 /\ End' = Len(log) /\ log[Len(log)] = Closing
         /\ \A i : i \in Open' <=> \/ i \in Open /\ ~ Kills(log, Len(log), i)
                                   \/ i = Len(log) /\ Closing.op = "SET"
<1>1. PICK n \in Nat : n = End
  BY EndIs
<1>2. PICK m \in Nat : m = Len(log)
  BY DEF LogIs
<1>3. m = n + 1 /\ End' = m /\ log[m] = Closing
  BY <1>1, <1>2, EndIs DEF End, Control
<1>4. Open' = OpenIn(log, m) /\ Open = OpenIn(log, n)
  BY <1>1, <1>3 DEF Open
<1>5. \A i : i \in OpenIn(log, m) <=> \/ i \in OpenIn(log, n) /\ ~ Kills(log, m, i)
                                      \/ i = m /\ log[m].op = "SET"
  <2>1. PICK l : l = log
    OBVIOUS
  <2>2. \A i : i \in OpenIn(l, m) <=> \/ i \in OpenIn(l, n) /\ ~ Kills(l, m, i)
                                      \/ i = m /\ l[m].op = "SET"
    BY <1>3, OpenNext
  <2>. QED
    BY <2>1, <2>2, Zenon
<1>. QED
  BY <1>1, <1>2, <1>3, <1>4, <1>5

LEMMA OpenCrash ==
  ASSUME Base, Base', Closed, Crash
  PROVE  End' = durable /\ \A i : i \in Open' <=> i \in Open /\ i <= durable
<1>1. /\ LogIs /\ LogIs' /\ Len(log') = durable /\ ctl'.at # "end"
      /\ \A i \in 1..durable : log'[i] = log[i]
  BY CrashIs, NoCtlIs
<1>2. End' = durable /\ durable \in Nat /\ End \in Nat /\ durable \in 0..End
  BY <1>1, EndIs DEF End, LogIs, Closed, ClosingsDurable
<1>3. Open' = OpenIn(log, durable)
  <2>1. OpenIn(log', durable) = OpenIn(log, durable)
    BY <1>1, <1>2, OpenSame
  <2>. QED
    BY <1>2, <2>1 DEF Open
<1>4. \A i : i \in OpenIn(log, durable) <=> i \in OpenIn(log, End) /\ i <= durable
  BY <1>2, OpenCut DEF Closed, ClosingsDurable
<1>. QED
  BY <1>2, <1>3, <1>4 DEF Open

LEMMA QuietOpen ==
  ASSUME Base, QuietStep
  PROVE  (ctl'.at = "end" <=> ctl.at = "end") /\ End' = End /\ Open' = Open /\ log' = log
<1>1. log' = log
  BY DEF QuietStep, Quiet
<1>2. ctl'.at = "end" <=> ctl.at = "end"
  BY NoCtlIs DEF QuietStep, SameCall, Opens, GivesUp
<1>. QED
  BY <1>1, <1>2, OpenKept

LEMMA AppendOpen ==
  ASSUME Base, Base', Begin \/ \E t \in Tx, b \in Block, o \in Offset, v \in Value : Set(t, b, o, v)
  PROVE  /\ ctl.at # "end" /\ ctl'.at # "end"
         /\ \E r : Appended(r) /\ r.op \in {"START", "SET"}
<1>1. CASE Begin
  <2>1. Mark("START", nextTx + 1).op = "START"
    BY DEF Mark
  <2>2. PICK r : r = Mark("START", nextTx + 1)
    OBVIOUS
  <2>. QED
    BY <1>1, <2>1, <2>2, BeginIs, NoCtlIs
<1>2. ASSUME NEW t \in Tx, NEW b \in Block, NEW o \in Offset, NEW v \in Value, Set(t, b, o, v)
      PROVE  /\ ctl.at # "end" /\ ctl'.at # "end"
             /\ \E r : Appended(r) /\ r.op \in {"START", "SET"}
  <2>1. PICK old \in Value : Appended(SetRecord(t, b, o, old))
    BY <1>2, SetIs
  <2>2. SetRecord(t, b, o, old).op = "SET"
    BY DEF SetRecord
  <2>. QED
    BY <1>2, <2>1, <2>2, SetIs, NoCtlIs
<1>. QED
  BY <1>1, <1>2

LEMMA Next_Closed ==
  ASSUME Base, Base', Closed, [Next]_vars, RecoverFirst
  PROVE  Closed'
<1>. USE DEF Closed
<1>0. /\ LogIs /\ LogIs' /\ Control' /\ End \in Nat /\ durable \in Nat /\ Len(log) \in Nat
      /\ ctl.at # "end" => End = Len(log)
  BY Next_Control, LogIsTyped, StoreLog, EndIs DEF Base, LogIs
<1>1. CASE QuietStep
  <2>1. End' = End /\ UNCHANGED <<log, durable>>
    BY <1>1, QuietOpen DEF QuietStep, Quiet
  <2>. QED
    BY <1>0, <2>1 DEF ClosingsDurable
<1>2. CASE Begin \/ \E t \in Tx, b \in Block, o \in Offset, v \in Value : Set(t, b, o, v)
  <2>1. PICK r : Appended(r) /\ r.op \in {"START", "SET"} /\ ctl.at # "end" /\ ctl'.at # "end"
    BY <1>2, AppendOpen
  <2>2. End = Len(log) /\ End' = Len(log) + 1
    BY <2>1, OpenAppend
  <2>3. durable' \in Nat /\ durable <= durable' /\ durable' <= Len(log) + 1
    BY <1>0, <2>1 DEF Appended, LogIs
  <2>4. ASSUME NEW j \in 1..(Len(log) + 1), log'[j].op = "CHECKPOINT" \/ Ends(log'[j])
        PROVE  j <= durable'
    <3>1. j # Len(log) + 1
      BY <2>1, <2>4 DEF Appended, Ends
    <3>2. j \in 1..Len(log) /\ log'[j] = log[j]
      BY <1>0, <2>1, <2>4, <3>1 DEF Appended
    <3>3. j <= durable
      BY <2>2, <2>4, <3>2 DEF ClosingsDurable
    <3>. QED
      BY <1>0, <2>3, <3>3
  <2>. QED
    BY <1>0, <2>2, <2>3, <2>4 DEF ClosingsDurable
<1>3. CASE Scan \/ ScanThrows
  <2>1. log' = log /\ durable' = Len(log) /\ ctl'.at # "end" /\ ctl.at # "end"
    BY <1>3, ScanIs, ScanThrowsIs
  <2>2. End' = End /\ End = Len(log)
    BY <1>0, <2>1, OpenKept
  <2>. QED
    BY <1>0, <2>1, <2>2 DEF ClosingsDurable
<1>4. CASE UndoSet \/ \E t \in Tx, b \in Block : AppendBlock(t, b)
  <2>1. log' = log /\ durable' = durable /\ ctl'.at # "end" /\ ctl.at # "end"
    BY <1>4, UndoSetIs, AppendBlockIs, NoCtlIs
  <2>2. End' = End
    BY <2>1, OpenKept
  <2>. QED
    BY <1>0, <2>1, <2>2 DEF ClosingsDurable
<1>5. CASE WriteClosing
  <2>1. PICK r : Appended(r) /\ ctl.at # "end" /\ ctl'.at = "end"
    BY <1>5, WriteClosingIs
  <2>2. End' = End /\ End = Len(log)
    BY <2>1, OpenClosing
  <2>3. durable' \in {durable, Len(log)} /\ durable <= durable' /\ durable <= Len(log)
    BY <2>1 DEF Appended, LogIs
  <2>4. ASSUME NEW j \in 1..Len(log), log'[j].op = "CHECKPOINT" \/ Ends(log'[j])
        PROVE  j <= durable'
    <3>1. log'[j] = log[j]
      BY <2>1 DEF Appended
    <3>2. j <= durable
      BY <2>2, <2>4, <3>1 DEF ClosingsDurable
    <3>. QED
      BY <1>0, <2>3, <3>2
  <2>. QED
    BY <1>0, <2>2, <2>3, <2>4 DEF ClosingsDurable
<1>6. CASE Finish
  <2>1. log' = log /\ durable' = Len(log) /\ ctl'.at # "end" /\ ctl.at = "end"
    BY <1>6, FinishIs, NoCtlIs
  <2>2. End' = Len(log)
    BY <1>0, <2>1, OpenFinish
  <2>. QED
    BY <1>0, <2>1, <2>2 DEF ClosingsDurable
<1>7. CASE PoolWork
  <2>1. log' = log /\ durable <= durable' /\ ctl'.at # "end" /\ ctl.at # "end"
    BY <1>7, PoolWorkIs
  <2>2. End' = End /\ End = Len(log)
    BY <1>0, <2>1, OpenKept
  <2>3. durable' \in Nat /\ durable' <= Len(log)
    BY <1>0, <2>1 DEF LogIs
  <2>. QED
    BY <1>0, <2>1, <2>2, <2>3 DEF ClosingsDurable
<1>8. CASE Crash
  <2>1. End' = durable /\ durable' = durable /\ \A i \in 1..durable : log'[i] = log[i]
    BY <1>8, OpenCrash, CrashIs
  <2>. QED
    BY <1>0, <2>1 DEF ClosingsDurable
<1>. QED
  BY <1>1, <1>2, <1>3, <1>4, <1>5, <1>6, <1>7, <1>8, Steps DEF LoudStep

LEMMA Init_Closed == Init => Closed
<1>. SUFFICES ASSUME Init PROVE Closed
  OBVIOUS
<1>1. log = <<>> /\ durable = 0 /\ ctl.at # "end" /\ Len(log) = 0
  BY NoCtlIs DEF Init, Log!LogInit
<1>2. End = 0
  BY <1>1 DEF End
<1>3. ClosingsDurable
  BY <1>1, <1>2 DEF ClosingsDurable
<1>. QED
  BY <1>3, Init_Control DEF Closed

----------------------------------------------------------------------------
(* Steps that leave the open records, and who owns them, as they were. *)
Steady == /\ End' = End /\ Open' = Open /\ \A i \in 1..End : log'[i] = log[i]
          /\ KeepsX /\ recovered' = recovered /\ \A t \in Tx : Live(t)' <=> Live(t)

SteadyStep == \/ QuietStep \/ Scan \/ ScanThrows \/ UndoSet \/ WriteClosing \/ PoolWork
              \/ \E t \in Tx, b \in Block : AppendBlock(t, b)

OtherStep == \/ Begin \/ Finish \/ Crash
             \/ \E t \in Tx, b \in Block, o \in Offset, v \in Value : Set(t, b, o, v)

LEMMA SteadySteps ==
  ASSUME Base, Base', Closed, SteadyStep
  PROVE  Steady
<1>0. GivesUp => \A t \in Tx : Live(t)' <=> Live(t)
  <2>. SUFFICES ASSUME GivesUp PROVE \A t \in Tx : Live(t)' <=> Live(t)
    OBVIOUS
  <2>1. Live(Me) /\ state \in [Tx -> States] /\ Me \in Tx
    BY MeIs DEF Closed, Control, GivesUp, Base, TxTypeOK
  <2>2. state' = [state EXCEPT ![Me] = "broken"]
    BY DEF GivesUp
  <2>. QED
    BY <2>1, <2>2 DEF Live
<1>1. CASE QuietStep
  <2>1. /\ End' = End /\ Open' = Open /\ log' = log /\ KeepsX /\ recovered' = recovered
    BY <1>1, QuietOpen, QuietKeepsX DEF QuietStep, Quiet
  <2>2. CASE UNCHANGED state
    BY <2>1, <2>2 DEF Steady, Live
  <2>3. CASE GivesUp
    BY <1>0, <2>1, <2>3 DEF Steady
  <2>. QED
    BY <1>1, <2>2, <2>3 DEF QuietStep, SameCall, Opens
<1>2. CASE Scan
  <2>1. /\ log' = log /\ UNCHANGED <<held, recovered, state>>
        /\ ctl'.at = "undo" /\ ctl.at = "scan"
    BY <1>2, ScanIs
  <2>. QED
    BY <2>1, OpenKept DEF Steady, KeepsX, Live
<1>3. CASE UndoSet
  <2>1. /\ log' = log /\ UNCHANGED <<recovered, state>> /\ Me \in Tx /\ ToUndo.blk \in Block
        /\ held' = held \/ held' = [held EXCEPT ![Me][ToUndo.blk] = "X"]
        /\ ctl.at = "set" /\ ctl'.at = "unpin"
    BY <1>3, UndoSetIs
  <2>2. KeepsX
    BY <2>1 DEF Base, LP!LockInv, LP!LockTypeOK, KeepsX
  <2>. QED
    BY <2>1, <2>2, OpenKept DEF Steady, Live
<1>4. CASE WriteClosing
  <2>1. /\ Appended(Closing) /\ UNCHANGED <<held, recovered, state>>
        /\ ctl'.at = "end" /\ ctl.at = "log"
    BY <1>4, WriteClosingIs
  <2>2. PICK r : r = Closing
    OBVIOUS
  <2>3. End' = End /\ End = Len(log) /\ Open' = Open
    BY <2>1, <2>2, OpenClosing
  <2>. QED
    BY <2>1, <2>3 DEF Steady, Appended, KeepsX, Live
<1>5. CASE PoolWork
  <2>1. log' = log /\ UNCHANGED <<held, ctl, state, recovered>>
    BY <1>5, PoolWorkIs
  <2>. QED
    BY <2>1, OpenKept DEF Steady, KeepsX, Live
<1>6. ASSUME NEW t \in Tx, NEW b \in Block, AppendBlock(t, b)
      PROVE  Steady
  <2>1. UNCHANGED <<log, ctl, state, recovered>> /\ Locking
    BY <1>6, AppendBlockIs
  <2>2. KeepsX
    BY <2>1, XKept DEF Locking, Base
  <2>. QED
    BY <2>1, <2>2, OpenKept DEF Steady, Live
<1>7. CASE ScanThrows
  <2>1. /\ log' = log /\ UNCHANGED <<held, recovered>> /\ GivesUp
        /\ ctl'.at = "start" /\ ctl.at = "scan"
    BY <1>7, ScanThrowsIs
  <2>. QED
    BY <1>0, <2>1, OpenKept DEF Steady, KeepsX
<1>. QED
  BY <1>1, <1>2, <1>3, <1>4, <1>5, <1>6, <1>7 DEF SteadyStep

LEMMA SteadyOrOther ==
  ASSUME Base, Base', [Next]_vars, RecoverFirst
  PROVE  SteadyStep \/ OtherStep
BY Steps DEF LoudStep, SteadyStep, OtherStep

----------------------------------------------------------------------------
(* Who made the open records.                                              *)
Started(l, i, n, t) == \E j \in i..n : l[j] = Mark("START", t)

Owners == recovered => \A i \in Open :
    /\ Live(log[i].tx) /\ held[log[i].tx][log[i].blk] = "X"
    /\ ~ Started(log, i, End, log[i].tx)

Since == \A t \in Tx, i \in 1..End :
    /\ Live(t) /\ (recovered \/ t = 1)
    /\ log[i].op = "SET" /\ log[i].tx = t /\ ~ Started(log, i, End, t)
    => recovered /\ i \in Open

ToUndoOpen == \A k \in 1..Len(ctl.undo) : \E i \in Open :
    ctl.undo[k] = log[i] /\ (ctl.op = "rollback" => log[i].tx = Me)

Owned == Closed /\ Owners /\ Since /\ ToUndoOpen

LEMMA StartedSame ==
  ASSUME NEW l, NEW m, NEW n \in Nat, \A i \in 1..n : m[i] = l[i]
  PROVE  \A i \in 1..n : \A t : Started(m, i, n, t) <=> Started(l, i, n, t)
<1>. SUFFICES ASSUME NEW i \in 1..n, NEW t
              PROVE  Started(m, i, n, t) <=> Started(l, i, n, t)
  OBVIOUS
<1>1. \A j \in i..n : m[j] = l[j]
  OBVIOUS
<1>. QED
  BY <1>1, Zenon DEF Started

LEMMA StartedNext ==
  ASSUME NEW l, NEW n \in Nat, NEW m, m = n + 1
  PROVE  \A i \in 1..m : \A t : Started(l, i, m, t) <=> Started(l, i, n, t) \/ l[m] = Mark("START", t)
<1>. SUFFICES ASSUME NEW i \in 1..m, NEW t
              PROVE  Started(l, i, m, t) <=> Started(l, i, n, t) \/ l[m] = Mark("START", t)
  OBVIOUS
<1>1. \A j : j \in i..m <=> j \in i..n \/ j = m
  OBVIOUS
<1>. QED
  BY <1>1, Zenon DEF Started

LEMMA InOpen ==
  ASSUME NEW i \in Open
  PROVE  i \in 1..End /\ log[i].op = "SET"
BY DEF Open, OpenIn

LEMMA OpenTyped ==
  ASSUME Base, Control, NEW i \in Open
  PROVE  /\ i \in 1..End /\ i \in 1..Len(log) /\ log[i] \in SetRecords
         /\ log[i].op = "SET" /\ log[i].tx \in Tx /\ log[i].blk \in Block
         /\ log[i].off \in Offset /\ log[i].val \in Value
<1>1. i \in 1..End /\ log[i].op = "SET" /\ End \in Nat /\ End <= Len(log)
  BY InOpen, EndIs, LogIsTyped DEF Base
<1>2. i \in 1..Len(log)
  BY <1>1, LogIsTyped DEF Base, LogIs
<1>3. log[i] \in SetRecords
  BY <1>1, <1>2 DEF Base, SetsTyped
<1>. QED
  BY <1>1, <1>2, <1>3 DEF SetRecords

LEMMA Steady_Owned ==
  ASSUME Base, Base', Closed, Closed', Steady, Owners, Since
  PROVE  Owners' /\ Since'
<1>0. End \in Nat /\ Control
  BY EndIs, LogIsTyped DEF Base, Closed
<1>1. \A i \in 1..End : \A t : Started(log', i, End, t) <=> Started(log, i, End, t)
  BY <1>0, StartedSame DEF Steady
<1>2. \A i \in 1..End : log'[i] = log[i]
  BY DEF Steady
<1>3. End' = End /\ Open' = Open /\ recovered' = recovered /\ \A t \in Tx : Live(t)' <=> Live(t)
  BY DEF Steady
<1>4. Owners'
  <2>. SUFFICES ASSUME recovered', NEW i \in Open'
                PROVE  (/\ Live(log[i].tx) /\ held[log[i].tx][log[i].blk] = "X"
                        /\ ~ Started(log, i, End, log[i].tx))'
    BY Zenon DEF Owners
  <2>1. i \in Open /\ i \in 1..End /\ log'[i] = log[i] /\ log[i].tx \in Tx
        /\ log[i].blk \in Lockable /\ recovered
    BY <1>0, <1>2, <1>3, OpenTyped, Zenon DEF Lockable
  <2>2. /\ Live(log[i].tx) /\ held[log[i].tx][log[i].blk] = "X"
        /\ ~ Started(log, i, End, log[i].tx)
    BY <2>1, Zenon DEF Owners
  <2>3. held'[log[i].tx][log[i].blk] = "X"
    BY <2>1, <2>2 DEF Steady, KeepsX
  <2>4. PICK u \in Tx : u = log[i].tx
    BY <2>1
  <2>5. Live(u)'
    BY <1>3, <2>2, <2>4, Zenon
  <2>6. log'[i].tx = u
    BY <2>1, <2>4
  <2>7. Live(log[i].tx)'
    BY <2>5, <2>6, Zenon DEF Live
  <2>8. ~ Started(log', i, End, u)
    BY <1>1, <2>1, <2>2, <2>4, Zenon
  <2>9. ~ Started(log, i, End, log[i].tx)'
    BY <1>3, <2>6, <2>8, Zenon DEF Started
  <2>. QED
    BY <2>1, <2>3, <2>7, <2>9
<1>5. Since'
  <2>. SUFFICES ASSUME NEW t \in Tx, NEW i \in 1..End',
                       (/\ Live(t) /\ (recovered \/ t = 1)
                        /\ log[i].op = "SET" /\ log[i].tx = t /\ ~ Started(log, i, End, t))'
                PROVE  recovered' /\ i \in Open'
    BY Zenon DEF Since
  <2>1. i \in 1..End /\ log[i].op = "SET" /\ log[i].tx = t
    BY <1>2, <1>3
  <2>2. Live(t) /\ (recovered \/ t = 1)
    BY <1>3, Zenon
  <2>3. ~ Started(log', i, End, t)
    BY <1>3, Zenon DEF Started
  <2>4. ~ Started(log, i, End, t)
    BY <1>1, <2>1, <2>3, Zenon
  <2>5. recovered /\ i \in Open
    BY <2>1, <2>2, <2>4, Zenon DEF Since
  <2>. QED
    BY <1>3, <2>5, Zenon
<1>. QED
  BY <1>4, <1>5

LEMMA Begin_Owned ==
  ASSUME Base, Base', Closed, Closed', Begin, Owners, Since, RecoverFirst
  PROVE  Owners' /\ Since'
<1>1. PICK m \in Tx : m = nextTx + 1
  BY BeginIs
<1>2. PICK r : r = Mark("START", m)
  OBVIOUS
<1>3. /\ Appended(r) /\ state' = [state EXCEPT ![m] = "active"]
      /\ UNCHANGED <<held, ctl, recovered>> /\ ctl = NoCtl /\ r.op = "START"
  BY <1>1, <1>2, BeginIs DEF Mark
<1>4. End = Len(log) /\ End' = End + 1 /\ \A i : i \in Open' <=> i \in Open
  BY <1>3, OpenAppend, NoCtlIs
<1>5. End \in Nat /\ state \in [Tx -> States] /\ Control
  BY <1>4, LogIsTyped DEF Base, LogIs, TxTypeOK, Closed
<1>6. PICK n \in Nat : n = End
  BY <1>5
<1>7. PICK k \in Nat : k = n + 1
  OBVIOUS
<1>8. End' = k /\ log'[k] = r /\ \A i \in 1..n : log'[i] = log[i]
  BY <1>3, <1>4, <1>6, <1>7 DEF Appended
<1>9. ~ Live(m) /\ \A t \in Tx : t # m => (Live(t)' <=> Live(t))
  <2>1. m > nextTx
    BY <1>1 DEF Base, TxTypeOK
  <2>2. state[m] = "none"
    BY <1>5, <2>1 DEF Control
  <2>. QED
    BY <1>3, <1>5, <2>2 DEF Live
<1>10. \A i \in 1..k : \A t : Started(log', i, k, t) <=> Started(log', i, n, t) \/ t = m
  <2>1. \A i \in 1..k : \A t : Started(log', i, k, t)
                              <=> Started(log', i, n, t) \/ log'[k] = Mark("START", t)
    BY <1>7, StartedNext
  <2>2. \A t : r = Mark("START", t) <=> t = m
    BY <1>2 DEF Mark
  <2>. QED
    BY <1>8, <2>1, <2>2, Zenon
<1>11. \A i \in 1..n : \A t : Started(log', i, n, t) <=> Started(log, i, n, t)
  BY <1>8, StartedSame
<1>12. Owners'
  <2>. SUFFICES ASSUME recovered', NEW i \in Open'
                PROVE  (/\ Live(log[i].tx) /\ held[log[i].tx][log[i].blk] = "X"
                        /\ ~ Started(log, i, End, log[i].tx))'
    BY Zenon DEF Owners
  <2>1. i \in Open /\ i \in 1..n /\ log'[i] = log[i] /\ log[i].tx \in Tx /\ recovered
    BY <1>3, <1>4, <1>5, <1>6, <1>8, OpenTyped, Zenon
  <2>2. PICK u \in Tx : u = log[i].tx
    BY <2>1
  <2>3. Live(u) /\ held[u][log[i].blk] = "X" /\ ~ Started(log, i, n, u)
    BY <1>6, <2>1, <2>2, Zenon DEF Owners
  <2>4. u # m
    BY <1>9, <2>3
  <2>5. Live(u)' /\ held'[u][log'[i].blk] = "X" /\ log'[i].tx = u
    BY <1>3, <1>9, <2>1, <2>2, <2>3, <2>4
  <2>6. i \in 1..k
    BY <1>7, <2>1
  <2>7. ~ Started(log', i, k, u)
    BY <1>10, <1>11, <2>1, <2>3, <2>4, <2>6, Zenon
  <2>. QED
    BY <1>8, <2>5, <2>7, Zenon DEF Live, Started
<1>13. Since'
  <2>. SUFFICES ASSUME NEW t \in Tx, NEW i \in 1..End',
                       (/\ Live(t) /\ (recovered \/ t = 1)
                        /\ log[i].op = "SET" /\ log[i].tx = t /\ ~ Started(log, i, End, t))'
                PROVE  recovered' /\ i \in Open'
    BY Zenon DEF Since
  <2>1. ~ Started(log', i, k, t) /\ i \in 1..k
    BY <1>8, Zenon DEF Started
  <2>2. t # m /\ ~ Started(log', i, n, t)
    BY <1>10, <2>1, Zenon
  <2>3. i \in 1..n
    <3>1. i = k \/ i \in 1..n
      BY <1>7, <2>1
    <3>2. i # k
      BY <1>3, <1>8
    <3>. QED
      BY <3>1, <3>2
  <2>4. log[i].op = "SET" /\ log[i].tx = t /\ ~ Started(log, i, n, t)
    BY <1>8, <1>11, <2>2, <2>3, Zenon
  <2>5. Live(t) /\ (recovered \/ t = 1)
    BY <1>3, <1>9, <2>2, Zenon
  <2>6. recovered /\ i \in Open
    BY <1>6, <2>3, <2>4, <2>5, Zenon DEF Since
  <2>. QED
    BY <1>3, <1>4, <2>6, Zenon
<1>. QED
  BY <1>12, <1>13

LEMMA Set_Owned ==
  ASSUME Base, Base', Closed, Closed', Owners, Since, RecoverFirst,
         NEW m \in Tx, NEW b \in Block, NEW o \in Offset, NEW v \in Value, Set(m, b, o, v)
  PROVE  Owners' /\ Since'
<1>1. PICK old \in Value : Appended(SetRecord(m, b, o, old))
  BY SetIs
<1>2. PICK r : r = SetRecord(m, b, o, old)
  OBVIOUS
<1>3. /\ Appended(r) /\ UNCHANGED <<state, ctl, recovered>> /\ ctl = NoCtl /\ recovered
      /\ state[m] = "active" /\ r.op = "SET" /\ r.tx = m /\ r.blk = b /\ XLock(m, b)
  BY <1>1, <1>2, SetIs DEF SetRecord
<1>4. End = Len(log) /\ End' = End + 1 /\ \A i : i \in Open' <=> i \in Open \/ i = Len(log) + 1
  BY <1>3, OpenAppend, NoCtlIs
<1>5. End \in Nat /\ Control
  BY <1>4, LogIsTyped DEF Base, LogIs, Closed
<1>6. PICK n \in Nat : n = End
  BY <1>5
<1>7. PICK k \in Nat : k = n + 1
  OBVIOUS
<1>8. /\ End' = k /\ log'[k] = r /\ \A i \in 1..n : log'[i] = log[i]
      /\ \A i : i \in Open' <=> i \in Open \/ i = k
  BY <1>3, <1>4, <1>6, <1>7 DEF Appended
<1>9. KeepsX /\ held'[m][b] = "X"
  <2>1. b \in Lockable
    BY DEF Lockable
  <2>2. KeepsX
    BY <1>3, <2>1, XKept DEF Base
  <2>3. held'[m][b] = "X"
    BY <1>3, <2>1 DEF XLock, Locks!XLock, lockVars, Base, LP!LockInv, LP!LockTypeOK
  <2>. QED
    BY <2>2, <2>3
<1>10. \A i \in 1..k : \A t : Started(log', i, k, t) <=> Started(log', i, n, t)
  <2>1. \A i \in 1..k : \A t : Started(log', i, k, t)
                              <=> Started(log', i, n, t) \/ log'[k] = Mark("START", t)
    BY <1>7, StartedNext
  <2>2. \A t : r # Mark("START", t)
    BY <1>3 DEF Mark
  <2>. QED
    BY <1>8, <2>1, <2>2, Zenon
<1>11. \A i \in 1..n : \A t : Started(log', i, n, t) <=> Started(log, i, n, t)
  BY <1>8, StartedSame
<1>12. Owners'
  <2>. SUFFICES ASSUME recovered', NEW i \in Open'
                PROVE  (/\ Live(log[i].tx) /\ held[log[i].tx][log[i].blk] = "X"
                        /\ ~ Started(log, i, End, log[i].tx))'
    BY Zenon DEF Owners
  <2>1. CASE i = k
    <3>1. k \in 1..k /\ ~ k \in 1..n
      BY <1>7
    <3>2. ~ Started(log', k, n, m)
      <4>1. k..n = {}
        BY <1>7
      <4>. QED
        BY <4>1 DEF Started
    <3>3. ~ Started(log', k, k, m)
      BY <1>10, <3>1, <3>2, Zenon
    <3>4. Live(m)' /\ held'[m][b] = "X" /\ log'[i].tx = m /\ log'[i].blk = b
      BY <1>3, <1>8, <1>9, <2>1 DEF Live
    <3>. QED
      BY <1>8, <2>1, <3>3, <3>4, Zenon DEF Live, Started
  <2>2. CASE i \in Open
    <3>1. i \in 1..n /\ log'[i] = log[i] /\ log[i].tx \in Tx /\ log[i].blk \in Lockable
      BY <1>5, <1>6, <1>8, <2>2, OpenTyped, Zenon DEF Lockable
    <3>2. PICK u \in Tx : u = log[i].tx
      BY <3>1
    <3>3. Live(u) /\ held[u][log[i].blk] = "X" /\ ~ Started(log, i, n, u)
      BY <1>3, <1>6, <2>2, <3>2, Zenon DEF Owners
    <3>4. Live(u)' /\ held'[u][log'[i].blk] = "X" /\ log'[i].tx = u
      BY <1>3, <1>9, <3>1, <3>2, <3>3 DEF KeepsX, Live
    <3>5. i \in 1..k
      BY <1>7, <3>1
    <3>6. ~ Started(log', i, k, u)
      BY <1>10, <1>11, <3>1, <3>3, <3>5, Zenon
    <3>. QED
      BY <1>8, <3>4, <3>6, Zenon DEF Live, Started
  <2>. QED
    BY <1>8, <2>1, <2>2, Zenon
<1>13. Since'
  <2>. SUFFICES ASSUME NEW t \in Tx, NEW i \in 1..End',
                       (/\ Live(t) /\ (recovered \/ t = 1)
                        /\ log[i].op = "SET" /\ log[i].tx = t /\ ~ Started(log, i, End, t))'
                PROVE  recovered' /\ i \in Open'
    BY Zenon DEF Since
  <2>0. recovered'
    BY <1>3, Zenon
  <2>1. i \in 1..k /\ ~ Started(log', i, k, t)
    BY <1>8, Zenon DEF Started
  <2>2. CASE i \in 1..n
    <3>1. log[i].op = "SET" /\ log[i].tx = t /\ ~ Started(log, i, n, t)
      BY <1>8, <1>10, <1>11, <2>1, <2>2, Zenon
    <3>2. Live(t)
      BY <1>3, Zenon DEF Live
    <3>3. i \in Open
      BY <1>3, <1>6, <2>2, <3>1, <3>2, Zenon DEF Since
    <3>. QED
      BY <1>8, <2>0, <3>3, Zenon
  <2>3. i \in 1..n \/ i = k
    BY <1>7, <2>1
  <2>. QED
    BY <1>8, <2>0, <2>2, <2>3, Zenon
<1>. QED
  BY <1>12, <1>13

LEMMA Finish_Owned ==
  ASSUME Base, Base', Closed, Closed', Finish, Owners, Since
  PROVE  Owners' /\ Since'
<1>1. /\ log' = log /\ ctl' = NoCtl /\ ctl.op # "none" /\ ctl.at = "end" /\ Me \in Tx
      /\ ctl.op = "recover" => recovered' = TRUE /\ UNCHANGED <<held, state>>
      /\ ctl.op # "recover" =>
           /\ held' = [held EXCEPT ![Me] = [b \in Lockable |-> "none"]]
           /\ state' = [state EXCEPT ![Me] = IF ctl.op = "commit" THEN "committed"
                                             ELSE "rolled back"]
           /\ UNCHANGED recovered
  BY FinishIs
<1>2. LogIs /\ LogIs' /\ Control /\ ctl'.at # "end" /\ End \in Nat
  BY <1>1, LogIsTyped, StoreLog, EndIs, NoCtlIs DEF Base, Closed
<1>3. /\ End' = End + 1 /\ End' = Len(log) /\ log[Len(log)] = Closing
      /\ \A i : i \in Open' <=> \/ i \in Open /\ ~ Kills(log, Len(log), i)
                                \/ i = Len(log) /\ Closing.op = "SET"
  BY <1>1, <1>2, OpenFinish
<1>4. PICK n \in Nat : n = End
  BY <1>2
<1>5. PICK k \in Nat : k = n + 1
  OBVIOUS
<1>6. End' = k /\ log[k] = Closing /\ Len(log) = k
  BY <1>3, <1>4, <1>5
<1>7. /\ Closing.op \in {"COMMIT", "ROLLBACK", "CHECKPOINT"}
      /\ ctl.op = "recover" => Closing.op = "CHECKPOINT"
      /\ ctl.op # "recover" => Closing.op \in {"COMMIT", "ROLLBACK"} /\ Closing.tx = Me
  <2>1. ctl.op \in {"commit", "rollback", "recover"}
    BY <1>1, MeIs
  <2>. QED
    BY <2>1 DEF Closing, Mark
<1>8. \A i \in 1..k : \A t : Started(log, i, k, t) <=> Started(log, i, n, t)
  <2>0. PICK l : l = log
    OBVIOUS
  <2>1. \A i \in 1..k : \A t : Started(l, i, k, t)
                              <=> Started(l, i, n, t) \/ l[k] = Mark("START", t)
    BY <1>5, StartedNext
  <2>2. \A t : Closing # Mark("START", t)
    BY <1>7 DEF Mark
  <2>. QED
    BY <1>6, <2>0, <2>1, <2>2, Zenon
<1>9. \A i : i \in Open' => i \in Open /\ ctl.op # "recover" /\ log[i].tx # Me
  <2>1. \A i : i \in Open' <=> i \in Open /\ ~ Kills(log, k, i)
    BY <1>3, <1>6, <1>7
  <2>. QED
    BY <1>6, <1>7, <2>1 DEF Kills, Ends
<1>10. Owners'
  <2>. SUFFICES ASSUME recovered', NEW i \in Open'
                PROVE  (/\ Live(log[i].tx) /\ held[log[i].tx][log[i].blk] = "X"
                        /\ ~ Started(log, i, End, log[i].tx))'
    BY Zenon DEF Owners
  <2>1. i \in Open /\ ctl.op # "recover" /\ log[i].tx # Me
    BY <1>9
  <2>2. i \in 1..n /\ log[i].tx \in Tx /\ recovered
    BY <1>1, <1>2, <1>4, <2>1, OpenTyped, Zenon
  <2>3. PICK u \in Tx : u = log[i].tx
    BY <2>2
  <2>4. Live(u) /\ held[u][log[i].blk] = "X" /\ ~ Started(log, i, n, u)
    BY <1>4, <2>1, <2>2, <2>3, Zenon DEF Owners
  <2>5. i \in 1..k
    BY <1>5, <2>2
  <2>6. ~ Started(log, i, k, u)
    BY <1>8, <2>4, <2>5, Zenon
  <2>7. Live(u)' /\ held'[u] = held[u]
    BY <1>1, <2>1, <2>3, <2>4 DEF Live, Base, TxTypeOK, LP!LockInv, LP!LockTypeOK
  <2>. QED
    BY <1>1, <1>6, <2>3, <2>4, <2>6, <2>7, Zenon DEF Live, Started
<1>11. Since'
  <2>. SUFFICES ASSUME NEW t \in Tx, NEW i \in 1..End',
                       (/\ Live(t) /\ (recovered \/ t = 1)
                        /\ log[i].op = "SET" /\ log[i].tx = t /\ ~ Started(log, i, End, t))'
                PROVE  recovered' /\ i \in Open'
    BY Zenon DEF Since
  <2>1. i \in 1..k /\ ~ Started(log, i, k, t) /\ log[i].op = "SET" /\ log[i].tx = t
    BY <1>1, <1>6, Zenon DEF Started
  <2>2. i \in 1..n /\ ~ Started(log, i, n, t)
    <3>1. i # k
      BY <1>6, <1>7, <2>1
    <3>2. i \in 1..n
      BY <1>5, <2>1, <3>1
    <3>. QED
      BY <1>8, <2>1, <3>2, Zenon
  <2>3. CASE ctl.op = "recover"
    <3>1. ~ recovered /\ nextTx <= 1 /\ UNCHANGED state
      BY <1>1, <1>2, <2>3 DEF Control
    <3>2. Live(t)
      BY <3>1, Zenon DEF Live
    <3>3. ~ t > nextTx
      BY <1>2, <3>2 DEF Control, Live
    <3>4. t = 1
      BY <3>1, <3>3 DEF Base, TxTypeOK, Tx
    <3>. QED
      BY <1>4, <2>1, <2>2, <3>1, <3>2, <3>4, Zenon DEF Since
  <2>4. CASE ctl.op # "recover"
    <3>1. t # Me /\ Live(t)
      BY <1>1, <2>4 DEF Live, Base, TxTypeOK
    <3>2. recovered' = recovered
      BY <1>1, <2>4
    <3>3. recovered /\ i \in Open
      BY <1>4, <2>1, <2>2, <3>1, <3>2, Zenon DEF Since
    <3>4. ~ Kills(log, k, i)
      BY <1>6, <1>7, <2>1, <2>4, <3>1 DEF Kills
    <3>. QED
      BY <1>3, <1>6, <3>2, <3>3, <3>4, Zenon
  <2>. QED
    BY <2>3, <2>4
<1>. QED
  BY <1>10, <1>11

LEMMA Next_Owners ==
  ASSUME Base, Base', Closed, Closed', Owners, Since, [Next]_vars, RecoverFirst
  PROVE  Owners' /\ Since'
<1>1. CASE SteadyStep
  BY <1>1, SteadySteps, Steady_Owned
<1>2. CASE Crash
  <2>1. recovered' = FALSE /\ \A t \in Tx : state'[t] = "none"
    BY <1>2, CrashIs
  <2>. QED
    BY <2>1 DEF Owners, Since, Live
<1>. QED
  BY <1>1, <1>2, SteadyOrOther, Begin_Owned, Set_Owned, Finish_Owned DEF OtherStep

(* What a scan finds is what is open, of its own transaction in a rollback. *)
LEMMA FoundOpen ==
  ASSUME Base, Closed, Owners, Since, ctl.at = "scan"
  PROVE  \A i : i \in Found <=> i \in Open /\ (ctl.op = "rollback" => log[i].tx = Me)
<1>1. End = Len(log) /\ LogIs /\ DOMAIN log = 1..Len(log)
  BY LogIsTyped DEF End, Base, LogIs
<1>2. ctl.op \in {"rollback", "recover"} /\ Me \in Tx
  BY MeIs, NoCtlIs DEF Base, CtlOK
<1>3. CASE ctl.op = "recover"
  <2>1. \A i : i \in UnfinishedRecords(log) <=> i \in OpenIn(log, Len(log))
    BY <1>1, Zenon DEF UnfinishedRecords, SetsIn, OpenIn, Kills
  <2>. QED
    BY <1>1, <1>3, <2>1 DEF Found, Open
<1>4. CASE ctl.op = "rollback"
  <2>1. recovered /\ Live(Me)
    BY <1>4 DEF Closed, Control
  <2>2. \A i : i \in Found <=> /\ i \in 1..End /\ log[i].op = "SET" /\ log[i].tx = Me
                               /\ ~ Started(log, i, End, Me)
    BY <1>1, <1>4, Zenon DEF Found, RollbackRecords, SetsIn, Started
  <2>3. ASSUME NEW i \in 1..End, log[i].op = "SET", log[i].tx = Me, ~ Started(log, i, End, Me)
        PROVE  i \in Open
    BY <1>2, <2>1, <2>3, Zenon DEF Since
  <2>4. ASSUME NEW i \in Open, log[i].tx = Me
        PROVE  i \in 1..End /\ log[i].op = "SET" /\ ~ Started(log, i, End, Me)
    BY <2>1, <2>4, InOpen, Zenon DEF Owners
  <2>. QED
    BY <1>4, <2>2, <2>3, <2>4, Zenon
<1>. QED
  BY <1>2, <1>3, <1>4

LEMMA Quiet_ToUndo ==
  ASSUME Base, Base', Closed, QuietStep, ToUndoOpen
  PROVE  ToUndoOpen'
<1>1. Open' = Open /\ log' = log
  BY QuietOpen
<1>2. ctl'.undo = <<>> => ToUndoOpen'
  BY DEF ToUndoOpen
<1>3. CASE UNCHANGED <<ctl, state>>
  BY <1>1, <1>3, Zenon DEF ToUndoOpen, Me
<1>4. CASE SameCall
  <2>1. ctl'.op = ctl.op /\ ctl'.tx = ctl.tx
    BY <1>4 DEF SameCall
  <2>2. CASE ctl'.undo = ctl.undo
    BY <1>1, <2>1, <2>2, Zenon DEF ToUndoOpen, Me
  <2>3. CASE ctl'.undo = Tail(ctl.undo) /\ ctl'.undo # ctl.undo
    <3>1. PICK u \in Seq(SetRecords) : u = ctl.undo
      BY DEF Base, CtlOK
    <3>2. CASE u = <<>>
      <4>1. ctl.op = "none" \/ ctl.op # "none"
        OBVIOUS
      <4>2. PICK w \in Seq(SetRecords) : w = ctl'.undo
        BY DEF Base, CtlOK
      <4>3. w = Tail(u)
        BY <2>3, <3>1, <4>2
      <4>4. Len(w) <= 0
        BY <3>2, <4>3
      <4>. QED
        BY <4>2, <4>4 DEF ToUndoOpen
    <3>3. CASE u # <<>>
      <4>1. PICK w \in Seq(SetRecords) : w = Tail(u)
        BY <3>1, <3>3, HeadTailProperties
      <4>2. ASSUME NEW k \in 1..Len(w) PROVE k + 1 \in 1..Len(u) /\ w[k] = u[k + 1]
        BY <3>3, <4>1
      <4>3. ASSUME NEW k \in 1..Len(w)
            PROVE  \E i \in Open : w[k] = log[i] /\ (ctl.op = "rollback" => log[i].tx = Me)
        BY <3>1, <4>2, Zenon DEF ToUndoOpen
      <4>4. ctl'.undo = w
        BY <2>3, <3>1, <4>1
      <4>. QED
        BY <1>1, <2>1, <4>3, <4>4, Zenon DEF ToUndoOpen, Me
    <3>. QED
      BY <3>2, <3>3
  <2>. QED
    BY <1>4, <2>2, <2>3 DEF SameCall
<1>5. CASE Opens
  BY <1>2, <1>5 DEF Opens
<1>6. CASE GivesUp
  BY <1>2, <1>6, NoCtlIs DEF GivesUp
<1>. QED
  BY <1>3, <1>4, <1>5, <1>6 DEF QuietStep

LEMMA Next_ToUndo ==
  ASSUME Base, Base', Owned, Closed', [Next]_vars, RecoverFirst
  PROVE  ToUndoOpen'
<1>. USE DEF Owned
<1>1. CASE QuietStep
  BY <1>1, Quiet_ToUndo
<1>2. ctl'.undo = <<>> => ToUndoOpen'
  BY DEF ToUndoOpen
<1>3. CASE Scan
  <2>1. /\ ctl'.op = ctl.op /\ ctl'.tx = ctl.tx /\ ctl.at = "scan" /\ log' = log
    BY <1>3, ScanIs
  <2>2. PICK u \in Seq(SetRecords) : u = ctl'.undo /\ Collects(u, log, Found, Len(log))
    BY <1>3, ScanIs
  <2>3. \A k \in 1..Len(u) : \E i \in Found : u[k] = log[i]
    BY <2>2 DEF Collects
  <2>4. \A i : i \in Found <=> i \in Open /\ (ctl.op = "rollback" => log[i].tx = Me)
    BY <2>1, FoundOpen
  <2>5. Open' = Open
    BY <1>3, SteadySteps DEF SteadyStep, Steady
  <2>. QED
    BY <2>1, <2>2, <2>3, <2>4, <2>5, Zenon DEF ToUndoOpen, Me
<1>4. CASE UndoSet
  <2>1. ctl'.op = ctl.op /\ ctl'.tx = ctl.tx /\ ctl'.undo = ctl.undo /\ log' = log
    BY <1>4, UndoSetIs
  <2>2. Open' = Open
    BY <1>4, SteadySteps DEF SteadyStep, Steady
  <2>. QED
    BY <2>1, <2>2, Zenon DEF ToUndoOpen, Me
<1>5. CASE WriteClosing
  <2>1. ctl'.undo = ctl.undo /\ ctl.at = "log"
    BY <1>5, WriteClosingIs
  <2>. QED
    BY <1>2, <2>1 DEF Base, CtlOK
<1>6. CASE PoolWork
  <2>1. ctl' = ctl /\ log' = log
    BY <1>6, PoolWorkIs
  <2>2. Open' = Open
    BY <1>6, SteadySteps DEF SteadyStep, Steady
  <2>. QED
    BY <2>1, <2>2, Zenon DEF ToUndoOpen, Me
<1>7. CASE \E t \in Tx, b \in Block : AppendBlock(t, b)
  BY <1>2, <1>7, AppendBlockIs, NoCtlIs
<1>8. CASE Begin \/ \E t \in Tx, b \in Block, o \in Offset, v \in Value : Set(t, b, o, v)
  BY <1>2, <1>8, BeginIs, SetIs, NoCtlIs
<1>9. CASE ScanThrows \/ Finish \/ Crash
  BY <1>2, <1>9, ScanThrowsIs, FinishIs, CrashIs, NoCtlIs DEF GivesUp
<1>. QED
  BY <1>1, <1>3, <1>4, <1>5, <1>6, <1>7, <1>8, <1>9, SteadyOrOther DEF SteadyStep, OtherStep

LEMMA Next_Owned ==
  ASSUME Base, Base', Owned, [Next]_vars, RecoverFirst
  PROVE  Owned'
BY Next_Closed, Next_Owners, Next_ToUndo DEF Owned

LEMMA Init_Owned == Init => Owned
<1>. SUFFICES ASSUME Init PROVE Owned
  OBVIOUS
<1>1. log = <<>> /\ ctl.undo = <<>> /\ ctl.at # "end"
  BY NoCtlIs DEF Init, Log!LogInit
<1>2. End = 0
  BY <1>1 DEF End
<1>3. Open = {} /\ \A i \in 1..End : FALSE
  BY <1>2 DEF Open, OpenIn
<1>. QED
  BY <1>1, <1>3, Init_Closed DEF Owned, Owners, Since, ToUndoOpen

----------------------------------------------------------------------------
(* Where clients keep writers apart, locks keep transactions apart: also   *)
(* the locks that undo takes.                                              *)
Exclusive == \A t, u \in Tx, b \in Lockable :
    t # u /\ held[t][b] = "X" => held[u][b] = "none"

LEMMA Lock_Exclusive ==
  ASSUME LP!LockInv, Exclusive, ExclusiveClients, NEW t \in Tx, NEW b \in Lockable,
         SLock(t, b) \/ XLock(t, b)
  PROVE  Exclusive'
<1>. USE DEF LP!LockInv, LP!LockTypeOK, LP!Modes
<1>1. CASE held' = held
  BY <1>1 DEF Exclusive
<1>2. CASE held' = [held EXCEPT ![t][b] = "S"] /\ MayRead(t, b)
  BY <1>2 DEF MayRead, Exclusive
<1>3. CASE held' = [held EXCEPT ![t][b] = "X"] /\ MayWrite(t, b)
  BY <1>3 DEF MayWrite, Exclusive
<1>. QED
  BY <1>1, <1>2, <1>3 DEF SLock, XLock, Locks!SLock, Locks!XLock, lockVars

LEMMA Undo_Exclusive ==
  ASSUME Base, Owned, Exclusive, UndoSet
  PROVE  Exclusive' /\ (recovered => held' = held)
<1>1. /\ Me \in Tx /\ ToUndo.blk \in Block /\ ctl.op # "none" /\ ctl.at = "set"
      /\ ctl.undo # <<>>
  BY MeIs, ToUndoIs DEF UndoSet, At, Base, CtlOK
<1>2. \/ held' = held
      \/ held[Me][ToUndo.blk] # "X" /\ held' = [held EXCEPT ![Me][ToUndo.blk] = "X"]
  BY DEF UndoSet, Locks!XLock, lockVars
<1>3. CASE recovered
  <2>1. ctl.op = "rollback"
    BY <1>1, <1>3, MeIs DEF Owned, Closed, Control, Base, CtlOK
  <2>2. 1 \in 1..Len(ctl.undo) /\ ToUndo = ctl.undo[1]
    BY <1>1, ToUndoIs DEF Base
  <2>3. PICK i \in Open : ToUndo = log[i] /\ log[i].tx = Me
    BY <2>1, <2>2 DEF Owned, ToUndoOpen
  <2>4. held[Me][ToUndo.blk] = "X"
    BY <1>3, <2>3, Zenon DEF Owned, Owners
  <2>. QED
    BY <1>2, <2>4 DEF Exclusive
<1>4. CASE ~ recovered
  <2>1. \A u \in Tx, b \in Lockable : u # Me => held[u][b] = "none"
    BY <1>1, <1>4, MeIs DEF Owned, Closed, Control
  <2>2. ToUndo.blk \in Lockable
    BY <1>1 DEF Lockable
  <2>. QED
    BY <1>1, <1>2, <1>4, <2>1, <2>2 DEF Exclusive, Base, LP!LockInv, LP!LockTypeOK
<1>. QED
  BY <1>3, <1>4

LEMMA Next_Exclusive ==
  ASSUME Base, Base', Owned, Exclusive, [Next]_vars, RecoverFirst, ExclusiveClients
  PROVE  Exclusive'
<1>1. CASE held' = held
  BY <1>1 DEF Exclusive
<1>2. CASE Locking
  BY <1>2, Lock_Exclusive DEF Locking, Base
<1>3. CASE QuietStep
  BY <1>1, <1>2, <1>3 DEF QuietStep, Quiet
<1>4. CASE Begin \/ Scan \/ ScanThrows \/ WriteClosing \/ PoolWork
  BY <1>1, <1>4, BeginIs, ScanIs, ScanThrowsIs, WriteClosingIs, PoolWorkIs
<1>5. CASE Finish
  <2>1. Me \in Tx
    BY <1>5, FinishIs
  <2>2. CASE held' = [held EXCEPT ![Me] = [b \in Lockable |-> "none"]]
    BY <2>1, <2>2 DEF Exclusive, Base, LP!LockInv, LP!LockTypeOK
  <2>. QED
    BY <1>1, <1>5, <2>2, FinishIs
<1>6. CASE Crash
  BY <1>6, CrashIs DEF Exclusive
<1>7. ASSUME NEW t \in Tx, NEW b \in Block, AppendBlock(t, b)
      PROVE  Exclusive'
  BY <1>2, <1>7, AppendBlockIs
<1>8. ASSUME NEW t \in Tx, NEW b \in Block, NEW o \in Offset, NEW v \in Value, Set(t, b, o, v)
      PROVE  Exclusive'
  <2>1. b \in Lockable /\ XLock(t, b)
    BY <1>8, SetIs DEF Lockable
  <2>. QED
    BY <2>1, Lock_Exclusive DEF Base
<1>. QED
  BY <1>3, <1>4, <1>5, <1>6, <1>7, <1>8, Steps, Undo_Exclusive DEF LoudStep

(* The open records of one block are all one transaction's. *)
LEMMA SameOwner ==
  ASSUME Base, Owned, Exclusive, recovered, NEW i \in Open, NEW j \in Open,
         log[i].blk = log[j].blk
  PROVE  log[i].tx = log[j].tx
<1>1. log[i].tx \in Tx /\ log[j].tx \in Tx /\ log[i].blk \in Lockable
  BY OpenTyped DEF Lockable, Owned, Closed
<1>2. held[log[i].tx][log[i].blk] = "X" /\ held[log[j].tx][log[i].blk] = "X"
  BY DEF Owned, Owners
<1>. QED
  BY <1>1, <1>2 DEF Exclusive

----------------------------------------------------------------------------
(* A call that writes its closing record has flushed what it changed.      *)
Flushed == ctl.at \in {"log", "end"} =>
    \/ PP!Idle /\ PP!Dirty(Me) = {}
    \/ ctl.at = "log" /\ call.op = "flush_all" /\ call.tx = Me

LEMMA FlushCall ==
  ASSUME NEW t, PP!FlushAllCall(t)
  PROVE  call'.op = "flush_all" /\ call'.tx = t
BY DEF PP!FlushAllCall

LEMMA Next_Flushed ==
  ASSUME Base, Base', Control, Flushed, [Next]_vars
  PROVE  Flushed'
<1>. USE NoCtlIs
<1>0. ctl \in Ctls
  BY DEF Base, TxTypeOK
<1>1. CASE UNCHANGED vars
  <2>1. UNCHANGED <<ctl, call, pool, flushing>>
    BY <1>1 DEF vars, poolVars, txVars
  <2>. QED
    BY <2>1 DEF Flushed, PP!Idle, PP!Dirty, Me
<1>2. ctl'.at \notin {"log", "end"} => Flushed'
  BY DEF Flushed
<1>3. ctl = NoCtl /\ ctl' = ctl => Flushed'
  BY <1>2
<1>4. CASE Begin \/ Crash \/ Scan \/ ScanThrows \/ Finish
  BY <1>2, <1>4, BeginIs, CrashIs, ScanIs, ScanThrowsIs, FinishIs
<1>5. CASE RecoverCall \/ UndoPin \/ UndoSet \/ UndoUnpin
  <2>1. CASE RecoverCall
    <3>1. 1 \in Tx
      BY <2>1, TransactionAssumption DEF RecoverCall, Base, TxTypeOK, Tx
    <3>. QED
      BY <1>2, <2>1, <3>1, EnterIs DEF RecoverCall, Phases
  <2>2. CASE UndoPin
    BY <1>0, <1>2, <2>2, GoIs DEF UndoPin, Phases, Base, CtlOK
  <2>3. CASE UndoSet
    BY <1>2, <2>3, UndoSetIs
  <2>4. CASE UndoUnpin
    BY <1>2, <1>0, <2>4 DEF UndoUnpin, Ctls
  <2>. QED
    BY <1>5, <2>1, <2>2, <2>3, <2>4
<1>6. CASE UndoDone
  <2>1. PP!FlushAllCall(Me) /\ ctl'.tx = ctl.tx /\ ctl'.at = "log"
    BY <1>0, <1>6, GoIs, SameCalls DEF UndoDone, Phases, Base, CtlOK
  <2>. QED
    BY <2>1, FlushCall DEF Flushed, Me
<1>7. CASE WriteClosing
  <2>1. PP!Idle /\ ctl.at = "log" /\ ctl'.tx = ctl.tx
    BY <1>7, WriteClosingIs
  <2>2. PP!Dirty(Me) = {}
    BY <2>1 DEF Flushed, PP!Idle, PP!NoCall
  <2>3. UNCHANGED <<pool, call, flushing>>
    BY <1>7 DEF WriteClosing, poolVars
  <2>. QED
    BY <2>1, <2>2, <2>3 DEF Flushed, PP!Idle, PP!Dirty, Me
<1>8. CASE PoolWork
  <2>1. PP!PoolStep /\ ctl' = ctl
    BY <1>8, SameStep DEF PoolWork, txVars
  <2>2. ~ PP!Idle
    BY <2>1 DEF PP!PoolStep, PP!WritePage, PP!PinHit, PP!PinEvict, PP!PinLoad, PP!PinFull,
              PP!FlushAllStep, PP!FlushAllDone, PP!PinMiss, PP!Step, PP!Idle, PP!NoCall
  <2>. SUFFICES ASSUME ctl.at \in {"log", "end"} PROVE Flushed'
    BY <1>2, <2>1
  <2>3. ctl.at = "log" /\ call.op = "flush_all" /\ call.tx = Me
    BY <2>2 DEF Flushed
  <2>4. CASE PP!WritePage \/ PP!FlushAllStep
    <3>1. call' = call
      BY <2>4 DEF PP!WritePage, PP!FlushAllStep, PP!FlushLog
    <3>. QED
      BY <2>1, <2>3, <3>1 DEF Flushed, Me
  <2>5. CASE PP!FlushAllDone
    <3>1. PP!Dirty(Me) = {} /\ UNCHANGED <<pool, flushing>> /\ call' = PP!NoCall /\ flushing = 0
      BY <2>3, <2>5 DEF PP!FlushAllDone, PP!Step
    <3>. QED
      BY <2>1, <3>1 DEF Flushed, PP!Idle, PP!Dirty, Me
  <2>. QED
    BY <2>1, <2>3, <2>4, <2>5 DEF PP!PoolStep, PP!PinHit, PP!PinEvict, PP!PinLoad, PP!PinFull,
                                  PP!PinMiss, PP!Step
<1>9. ASSUME NEW t \in Tx,
             \/ CommitCall(t) \/ RollbackCall(t) \/ Size(t) \/ Retry(t) \/ Timeout(t)
             \/ \E b \in Block :
                  \/ Pin(t, b) \/ Unpin(t, b) \/ Get(t, b) \/ AppendBlock(t, b)
                  \/ SetUnpinned(t, b)
                  \/ \E o \in Offset, v \in Value : Set(t, b, o, v)
      PROVE  Flushed'
  <2>1. CASE CommitCall(t)
    <3>1. PP!FlushAllCall(t) /\ ctl'.tx = t /\ ctl'.at = "log"
      BY <2>1, EnterIs, SameCalls DEF CommitCall, Phases
    <3>. QED
      BY <3>1, FlushCall DEF Flushed, Me
  <2>2. CASE RollbackCall(t)
    BY <1>2, <2>2, EnterIs DEF RollbackCall, Phases
  <2>3. CASE Retry(t) \/ Timeout(t)
    <3>1. (ctl = NoCtl \/ Me = t) /\ waiting[t] # None /\ ctl' \in {ctl, NoCtl}
      BY <2>3 DEF Retry, Timeout, MayRun, Pool!PinRetry, Pool!PinTimeout, txVars
    <3>2. ctl.at \notin {"log", "end"}
      BY <3>1 DEF Base, CtlOK
    <3>. QED
      BY <1>2, <3>1, <3>2
  <2>4. CASE Size(t) \/ \E b \in Block :
                  \/ Pin(t, b) \/ Unpin(t, b) \/ Get(t, b) \/ AppendBlock(t, b)
                  \/ SetUnpinned(t, b)
                  \/ \E o \in Offset, v \in Value : Set(t, b, o, v)
    <3>1. ctl = NoCtl /\ ctl' = ctl
      BY <2>4 DEF Size, Pin, Unpin, Get, AppendBlock, SetUnpinned, Set, Client, txVars
    <3>. QED
      BY <1>3, <3>1
  <2>. QED
    BY <1>9, <2>1, <2>2, <2>3, <2>4
<1>. QED
  BY <1>1, <1>4, <1>5, <1>6, <1>7, <1>8, <1>9 DEF Next

(* A buffer stays modified only under the lock of who modified it.         *)
DirtyLocked == \A i \in PP!Buffers : pool[i].txnum # None =>
    pool[i].blk \in Block /\ pool[i].txnum \in Tx /\ held[pool[i].txnum][pool[i].blk] = "X"

LEMMA SameDirty ==
  ASSUME DirtyLocked, KeepsX, PP!SameBuffers
  PROVE  DirtyLocked'
BY DEF DirtyLocked, KeepsX, PP!SameBuffers, PP!Buffers, Lockable

(* A change of a page under its lock. *)
LEMMA ModifiedDirty ==
  ASSUME Base, DirtyLocked, KeepsX, NEW t \in Tx, NEW b \in Block, NEW o, NEW v, NEW lsn,
         NEW i \in PP!Buffers, pool[i].blk = b, held'[t][b] = "X",
         pool' = [pool EXCEPT ![i] = PP!Modified(@, t, o, v, lsn)]
  PROVE  DirtyLocked'
<1>1. \A j \in PP!Buffers : IF j = i THEN pool'[j].blk = b /\ pool'[j].txnum = t
                            ELSE pool'[j] = pool[j]
  BY DEF PP!Modified, Base, PP!StoreInv, PP!PoolInv, PP!PoolTypeOK
<1>2. ASSUME NEW j \in PP!Buffers, pool'[j].txnum # None
      PROVE  /\ pool'[j].blk \in Block /\ pool'[j].txnum \in Tx
             /\ held'[pool'[j].txnum][pool'[j].blk] = "X"
  <2>1. CASE j = i
    BY <1>1, <2>1
  <2>2. CASE j # i
    <3>1. pool'[j] = pool[j]
      BY <1>1, <2>2
    <3>2. /\ pool[j].blk \in Block /\ pool[j].txnum \in Tx
          /\ held[pool[j].txnum][pool[j].blk] = "X"
      BY <1>2, <3>1 DEF DirtyLocked
    <3>. QED
      BY <3>1, <3>2 DEF KeepsX, Lockable
  <2>. QED
    BY <2>1, <2>2
<1>. QED
  BY <1>2 DEF DirtyLocked, PP!Buffers

Apart == Owned /\ Exclusive /\ Flushed /\ DirtyLocked

(* At the end of a call its blocks have been written back. *)
LEMMA CleanAtEnd ==
  ASSUME Base, Apart, ctl.at = "end", NEW b \in Block, held[Me][b] = "X" \/ ~ recovered
  PROVE  PP!View[b] = disk[b]
<1>1. Me \in Tx /\ PP!Dirty(Me) = {}
  BY MeIs, NoCtlIs DEF Apart, Flushed, Base, CtlOK
<1>2. ASSUME NEW i \in PP!Buffers, pool[i].blk = b
      PROVE  pool[i].txnum = None
  <2>. SUFFICES ASSUME pool[i].txnum # None PROVE FALSE
    OBVIOUS
  <2>1. PICK u \in Tx : u = pool[i].txnum
    BY DEF Apart, DirtyLocked
  <2>2. held[u][b] = "X" /\ b \in Lockable
    BY <1>2, <2>1 DEF Apart, DirtyLocked, Lockable
  <2>3. u = Me
    <3>1. CASE held[Me][b] = "X"
      BY <1>1, <2>2, <3>1 DEF Apart, Exclusive
    <3>2. CASE ~ recovered
      <4>1. ctl.op = "recover"
        BY <3>2, MeIs, NoCtlIs DEF Apart, Owned, Closed, Control
      <4>2. Me = 1 /\ (u # 1 => held[u][b] = "none")
        BY <2>2, <3>2, <4>1 DEF Apart, Owned, Closed, Control
      <4>. QED
        BY <2>2, <4>2
    <3>. QED
      BY <3>1, <3>2
  <2>. QED
    BY <1>1, <2>1, <2>3 DEF PP!Dirty
<1>3. PP!ViewIs /\ PP!CleanOK
  BY ViewNow DEF Base, PP!StoreInv
<1>. QED
  BY <1>2, <1>3, PoolAssumed DEF PP!ViewIs, PP!CleanOK

LEMMA Next_DirtyLocked ==
  ASSUME Base, Base', Apart, [Next]_vars, RecoverFirst
  PROVE  DirtyLocked'
<1>. USE DEF Apart
<1>1. CASE QuietStep
  BY <1>1, SameDirty, QuietKeepsX DEF QuietStep, Quiet
<1>2. CASE Begin \/ Scan \/ ScanThrows \/ WriteClosing
  <2>1. PP!SameBuffers /\ held' = held
    BY <1>2, BeginIs, ScanIs, ScanThrowsIs, WriteClosingIs DEF SameData
  <2>. QED
    BY <2>1, SameDirty DEF KeepsX
<1>3. CASE UndoSet
  <2>1. /\ Me \in Tx /\ ToUndo.blk \in Block
        /\ \/ held' = held /\ held[Me][ToUndo.blk] = "X"
           \/ held' = [held EXCEPT ![Me][ToUndo.blk] = "X"]
        /\ PP!WriteUnlogged(Me, ToUndo.blk, ToUndo.off, ToUndo.val)
    BY <1>3, UndoSetIs
  <2>2. KeepsX /\ held'[Me][ToUndo.blk] = "X"
    BY <2>1 DEF KeepsX, Lockable, Base, LP!LockInv, LP!LockTypeOK
  <2>3. PICK i : i = mine[Me][ToUndo.blk].buf
    OBVIOUS
  <2>4. i # 0 /\ pool' = [pool EXCEPT ![i] = PP!Modified(@, Me, ToUndo.off, ToUndo.val, 0)]
    BY <2>1, <2>3 DEF PP!WriteUnlogged
  <2>5. i \in PP!Buffers /\ pool[i].blk = ToUndo.blk
    BY <2>1, <2>3, <2>4 DEF Base, PP!StoreInv, PP!PoolInv, PP!PoolTypeOK, PP!PinsMatchLists,
                            PP!Entry
  <2>. QED
    BY <2>1, <2>2, <2>4, <2>5, ModifiedDirty
<1>4. CASE Finish
  <2>1. PP!SameBuffers /\ Me \in Tx /\ ctl.at = "end"
    BY <1>4, FinishIs DEF SameData
  <2>2. PP!Dirty(Me) = {}
    BY <2>1 DEF Flushed
  <2>3. \A t \in Tx : t # Me => held'[t] = held[t]
    BY <1>4, <2>1, FinishIs DEF Base, LP!LockInv, LP!LockTypeOK
  <2>4. \A i \in PP!Buffers : pool[i].txnum # Me
    BY <2>2 DEF PP!Dirty
  <2>. QED
    BY <2>1, <2>3, <2>4 DEF DirtyLocked, PP!SameBuffers, PP!Buffers
<1>5. CASE PoolWork
  <2>1. held' = held
        /\ \A i \in PP!Buffers : pool'[i].txnum # None =>
              pool'[i].blk = pool[i].blk /\ pool'[i].txnum = pool[i].txnum
    BY <1>5, PoolWorkIs
  <2>. QED
    BY <2>1 DEF DirtyLocked, PP!Buffers
<1>6. CASE Crash
  BY <1>6, CrashIs DEF DirtyLocked, PP!Buffers
<1>7. ASSUME NEW t \in Tx, NEW b \in Block, AppendBlock(t, b)
      PROVE  DirtyLocked'
  <2>1. pool' = pool /\ KeepsX
    BY <1>7, AppendBlockIs, XKept DEF Locking, Base
  <2>. QED
    BY <2>1, SameDirty DEF PP!SameBuffers
<1>8. ASSUME NEW t \in Tx, NEW b \in Block, NEW o \in Offset, NEW v \in Value, Set(t, b, o, v)
      PROVE  DirtyLocked'
  <2>1. b \in Lockable /\ XLock(t, b)
    BY <1>8, SetIs DEF Lockable
  <2>2. KeepsX /\ held'[t][b] = "X"
    BY <2>1, XKept DEF XLock, Locks!XLock, lockVars, Base, LP!LockInv, LP!LockTypeOK
  <2>3. PICK i \in PP!Buffers, lsn \in Nat :
          pool[i].blk = b /\ pool' = [pool EXCEPT ![i] = PP!Modified(@, t, o, v, lsn)]
    <3>1. Len(log) + 1 \in Nat
      BY LogIsTyped DEF Base, LogIs
    <3>. QED
      BY <1>8, <3>1, SetIs
  <2>. QED
    BY <2>2, <2>3, ModifiedDirty
<1>. QED
  BY <1>1, <1>2, <1>3, <1>4, <1>5, <1>6, <1>7, <1>8, Steps DEF LoudStep

----------------------------------------------------------------------------
(* The pages behind the records.  A change whose record is not on disk is  *)
(* in a buffer that is not clean and waits for that record.                *)
Wal == \A k \in 1..Len(log) : k > durable /\ log[k].op = "SET" =>
    \E i \in PP!Buffers : pool[i].blk = log[k].blk /\ pool[i].txnum # None /\ pool[i].lsn >= k

LEMMA WalKept ==
  ASSUME Wal, PP!SameBuffers, durable <= durable', LogIs, LogIs', Len(log') >= Len(log),
         \A k \in 1..Len(log) : log'[k] = log[k],
         \A k \in 1..Len(log') : k > Len(log) => log'[k].op # "SET"
  PROVE  Wal'
<1>. SUFFICES ASSUME NEW k \in 1..Len(log'), k > durable', log'[k].op = "SET"
              PROVE  \E i \in PP!Buffers : /\ pool'[i].blk = log'[k].blk
                                           /\ pool'[i].txnum # None /\ pool'[i].lsn >= k
  BY DEF Wal, PP!Buffers
<1>1. k \in 1..Len(log) /\ k > durable
  BY DEF LogIs
<1>. QED
  BY <1>1 DEF Wal, PP!SameBuffers

LEMMA ModifiedWal ==
  ASSUME Base, Wal, NEW t \in Tx, NEW o, NEW v, NEW lsn \in Nat,
         NEW i \in PP!Buffers, LogIs, LogIs', durable <= durable',
         pool' = [pool EXCEPT ![i] = PP!Modified(@, t, o, v, lsn)],
         lsn # 0 => lsn >= Len(log'),
         Len(log') >= Len(log), \A k \in 1..Len(log) : log'[k] = log[k],
         \A k \in 1..Len(log') : k > Len(log) => lsn # 0 /\ log'[k].blk = pool[i].blk
  PROVE  Wal'
<1>0. pool \in [PP!Buffers -> PP!Buffer] /\ None \notin Tx
  BY PoolAssumed DEF Base, PP!StoreInv, PP!PoolInv, PP!PoolTypeOK
<1>1. \A j \in PP!Buffers : j # i => pool'[j] = pool[j]
  BY <1>0
<1>2. /\ pool'[i].blk = pool[i].blk /\ pool'[i].txnum = t
      /\ pool'[i].lsn = IF lsn = 0 THEN pool[i].lsn ELSE lsn
  BY <1>0 DEF PP!Modified
<1>3. \A j \in PP!Buffers : pool[j].lsn \in Nat
  BY <1>0 DEF PP!Buffer
<1>4. ASSUME NEW k \in 1..Len(log'), k > durable', log'[k].op = "SET"
      PROVE  \E j \in PP!Buffers : /\ pool'[j].blk = log'[k].blk
                                   /\ pool'[j].txnum # None /\ pool'[j].lsn >= k
  <2>1. CASE k > Len(log)
    <3>1. lsn # 0 /\ log'[k].blk = pool[i].blk /\ lsn >= k
      BY <1>4, <2>1 DEF LogIs
    <3>. QED
      BY <1>0, <1>2, <3>1
  <2>2. CASE ~ k > Len(log)
    <3>1. k \in 1..Len(log) /\ k > durable
      BY <1>4, <2>2 DEF LogIs
    <3>2. PICK j \in PP!Buffers : pool[j].blk = log[k].blk /\ pool[j].txnum # None
                                  /\ pool[j].lsn >= k
      BY <1>4, <3>1 DEF Wal
    <3>3. CASE j # i
      BY <1>1, <3>1, <3>2, <3>3
    <3>4. CASE j = i
      <4>1. lsn # 0 => lsn >= k
        BY <1>4 DEF LogIs
      <4>2. pool'[i].lsn >= k
        BY <1>2, <3>2, <3>4, <4>1
      <4>. QED
        BY <1>0, <1>2, <3>1, <3>2, <3>4, <4>2
    <3>. QED
      BY <3>3, <3>4
  <2>. QED
    BY <2>1, <2>2
<1>. QED
  BY <1>4 DEF Wal, PP!Buffers

LEMMA Next_Wal ==
  ASSUME Base, Base', Wal, [Next]_vars, RecoverFirst
  PROVE  Wal'
<1>0. LogIs /\ LogIs'
  BY LogIsTyped, StoreLog DEF Base
<1>1. CASE QuietStep \/ Scan \/ ScanThrows \/ Finish
  <2>1. log' = log /\ durable <= durable' /\ PP!SameBuffers
    <3>1. CASE QuietStep
      BY <1>0, <3>1 DEF QuietStep, Quiet, LogIs
    <3>. QED
      BY <1>1, <3>1, ScanIs, ScanThrowsIs, FinishIs DEF SameData
  <2>. QED
    BY <1>0, <2>1, WalKept DEF LogIs
<1>2. CASE Begin \/ WriteClosing
  <2>1. PICK r : Appended(r) /\ PP!SameBuffers /\ r.op # "SET"
    <3>1. Mark("START", nextTx + 1).op = "START"
      BY DEF Mark
    <3>2. WriteClosing => Closing.op # "SET"
      <4>1. WriteClosing => ctl.op \in {"commit", "rollback", "recover"}
        BY MeIs DEF WriteClosing, At
      <4>. QED
        BY <4>1 DEF Closing, Mark
    <3>3. PICK s : s = Mark("START", nextTx + 1)
      OBVIOUS
    <3>. QED
      BY <1>2, <3>1, <3>2, <3>3, BeginIs, WriteClosingIs DEF SameData
  <2>2. \A k \in 1..Len(log') : k > Len(log) => log'[k].op # "SET"
    BY <1>0, <2>1 DEF Appended, LogIs
  <2>. QED
    BY <1>0, <2>1, <2>2, WalKept DEF Appended, LogIs
<1>3. CASE UndoSet
  <2>1. /\ UNCHANGED <<log, durable>> /\ Me \in Tx /\ ToUndo.blk \in Block
        /\ PP!WriteUnlogged(Me, ToUndo.blk, ToUndo.off, ToUndo.val)
    BY <1>3, UndoSetIs
  <2>2. PICK i : i = mine[Me][ToUndo.blk].buf
    OBVIOUS
  <2>3. i # 0 /\ pool' = [pool EXCEPT ![i] = PP!Modified(@, Me, ToUndo.off, ToUndo.val, 0)]
    BY <2>1, <2>2 DEF PP!WriteUnlogged
  <2>4. i \in PP!Buffers
    BY <2>1, <2>2, <2>3 DEF Base, PP!StoreInv, PP!PoolInv, PP!PoolTypeOK, PP!Entry
  <2>. QED
    <3>1. PICK lsn \in Nat : lsn = 0
      OBVIOUS
    <3>2. /\ pool' = [pool EXCEPT ![i] = PP!Modified(@, Me, ToUndo.off, ToUndo.val, lsn)]
          /\ lsn # 0 => lsn >= Len(log')
      BY <2>3, <3>1
    <3>3. PICK o, v : o = ToUndo.off /\ v = ToUndo.val
      OBVIOUS
    <3>4. /\ durable <= durable' /\ Len(log') >= Len(log)
          /\ \A k \in 1..Len(log') : ~ k > Len(log)
      BY <1>0, <2>1 DEF LogIs
    <3>. QED
      BY <1>0, <2>1, <2>4, <3>2, <3>3, <3>4, ModifiedWal
<1>4. CASE PoolWork
  <2>1. /\ log' = log /\ durable <= durable'
        /\ \A i \in PP!Buffers : pool'[i].txnum # None =>
              /\ pool'[i].blk = pool[i].blk
              /\ pool'[i].txnum = pool[i].txnum
              /\ pool'[i].lsn = pool[i].lsn
        /\ \A i \in PP!Buffers : pool[i].txnum # None /\ pool[i].lsn > durable =>
              pool'[i].txnum # None
    BY <1>4, PoolWorkIs
  <2>. SUFFICES ASSUME NEW k \in 1..Len(log), k > durable', log[k].op = "SET"
                PROVE  \E i \in PP!Buffers : /\ pool'[i].blk = log[k].blk
                                             /\ pool'[i].txnum # None /\ pool'[i].lsn >= k
    BY <2>1 DEF Wal, PP!Buffers
  <2>2. k > durable
    BY <1>0, <2>1 DEF LogIs
  <2>3. PICK i \in PP!Buffers : pool[i].blk = log[k].blk /\ pool[i].txnum # None
                                /\ pool[i].lsn >= k
    BY <2>2 DEF Wal
  <2>4. pool[i].lsn > durable
    BY <1>0, <2>2, <2>3 DEF LogIs, Base, PP!StoreInv, PP!PoolInv, PP!PoolTypeOK, PP!Buffer
  <2>. QED
    BY <2>1, <2>3, <2>4
<1>5. CASE Crash
  <2>1. Len(log') = durable'
    BY <1>5, CrashIs
  <2>. QED
    BY <1>0, <2>1 DEF Wal, LogIs
<1>6. ASSUME NEW t \in Tx, NEW b \in Block, AppendBlock(t, b)
      PROVE  Wal'
  <2>1. UNCHANGED <<pool, log, durable>>
    BY <1>6, AppendBlockIs
  <2>. QED
    BY <2>1 DEF Wal, PP!Buffers
<1>7. ASSUME NEW t \in Tx, NEW b \in Block, NEW o \in Offset, NEW v \in Value, Set(t, b, o, v)
      PROVE  Wal'
  <2>1. PICK old \in Value : Appended(SetRecord(t, b, o, old))
    BY <1>7, SetIs
  <2>2. PICK i \in PP!Buffers, lsn \in Nat : /\ pool[i].blk = b /\ lsn = Len(log) + 1
          /\ pool' = [pool EXCEPT ![i] = PP!Modified(@, t, o, v, lsn)]
    <3>1. Len(log) + 1 \in Nat
      BY <1>0 DEF LogIs
    <3>. QED
      BY <1>7, <3>1, SetIs
  <2>3. SetRecord(t, b, o, old).blk = b
    BY DEF SetRecord
  <2>4. /\ Len(log') = lsn /\ lsn # 0 /\ lsn >= Len(log') /\ Len(log') >= Len(log)
        /\ durable <= durable'
        /\ \A k \in 1..Len(log) : log'[k] = log[k]
        /\ \A k \in 1..Len(log') : k > Len(log) => lsn # 0 /\ log'[k].blk = pool[i].blk
    BY <1>0, <2>1, <2>2, <2>3 DEF Appended, LogIs
  <2>. QED
    BY <1>0, <2>2, <2>4, ModifiedWal
<1>. QED
  BY <1>1, <1>2, <1>3, <1>4, <1>5, <1>6, <1>7, Steps DEF LoudStep

----------------------------------------------------------------------------
(* Only blocks of the file are written, and blocks stay in the file.       *)
Placed == \A i \in 1..Len(log) : log[i].op = "SET" => disk[log[i].blk] # Missing

LEMMA ViewMissing ==
  ASSUME PP!StoreInv, NEW b \in Block
  PROVE  PP!View[b] = Missing <=> disk[b] = Missing
<1>1. PP!ViewIs /\ PP!CleanOK /\ PP!PoolTypeOK
  BY ViewNow DEF PP!StoreInv, PP!PoolInv
<1>2. CASE \A i \in PP!Buffers : pool[i].blk # b
  BY <1>1, <1>2 DEF PP!ViewIs
<1>3. ASSUME NEW i \in PP!Buffers, pool[i].blk = b
      PROVE  PP!View[b] # Missing /\ disk[b] # Missing
  <2>1. pool[i].contents \in [Offset -> Value]
    BY <1>1 DEF PP!PoolTypeOK, PP!Buffer, PP!Contents
  <2>. QED
    BY <1>1, <1>3, <2>1, PoolAssumed DEF PP!ViewIs, PP!CleanOK
<1>. QED
  BY <1>2, <1>3

LEMMA ViewMissingNext == PP!StoreInv' => \A b \in Block : PP!View'[b] = Missing <=> disk'[b] = Missing
<1>. DEFINE Agree == \A b \in Block : PP!View[b] = Missing <=> disk[b] = Missing
<1>1. PP!StoreInv => Agree
  BY ViewMissing
<1>2. PP!StoreInv' => Agree'
  BY <1>1, PTL
<1>. QED
  BY <1>2

LEMMA DiskStays ==
  ASSUME Base, Base', [Next]_vars, RecoverFirst, NEW b \in Block, disk[b] # Missing
  PROVE  disk'[b] # Missing
<1>1. CASE \/ QuietStep \/ Begin \/ Scan \/ ScanThrows \/ UndoSet \/ WriteClosing
           \/ Finish \/ Crash
  <2>1. disk' = disk
    BY <1>1, BeginIs, ScanIs, ScanThrowsIs, UndoSetIs, WriteClosingIs, FinishIs, CrashIs
       DEF QuietStep, Quiet, SameData
  <2>. QED
    BY <2>1
<1>2. CASE PoolWork
  <2>1. PP!View' = PP!View
    BY <1>2, PoolWorkIs
  <2>. QED
    BY <2>1, ViewMissing, ViewMissingNext DEF Base
<1>3. ASSUME NEW t \in Tx, NEW c \in Block, AppendBlock(t, c)
      PROVE  disk'[b] # Missing
  <2>1. disk[c] = Missing /\ disk' = [disk EXCEPT ![c] = PP!ZeroPage]
    BY <1>3, AppendBlockIs
  <2>. QED
    BY <2>1 DEF Base, PP!StoreInv, PP!PoolInv, PP!PoolTypeOK
<1>4. ASSUME NEW t \in Tx, NEW c \in Block, NEW o \in Offset, NEW v \in Value, Set(t, c, o, v)
      PROVE  disk'[b] # Missing
  BY <1>4, SetIs
<1>. QED
  BY <1>1, <1>2, <1>3, <1>4, Steps DEF LoudStep

LEMMA Next_Placed ==
  ASSUME Base, Base', Placed, [Next]_vars, RecoverFirst
  PROVE  Placed'
<1>0. LogIs /\ LogIs'
  BY LogIsTyped, StoreLog DEF Base
<1>1. ASSUME NEW i \in 1..Len(log), log[i].op = "SET"
      PROVE  disk'[log[i].blk] # Missing
  <2>1. log[i].blk \in Block
    BY <1>1 DEF Base, SetsTyped, SetRecords
  <2>. QED
    BY <1>1, <2>1, DiskStays DEF Placed
<1>2. CASE log' = log
  BY <1>1, <1>2 DEF Placed
<1>3. CASE Begin \/ WriteClosing
  <2>1. PICK r : Appended(r) /\ r.op # "SET"
    <3>1. Mark("START", nextTx + 1).op = "START"
      BY DEF Mark
    <3>2. WriteClosing => Closing.op # "SET"
      <4>1. WriteClosing => ctl.op \in {"commit", "rollback", "recover"}
        BY MeIs DEF WriteClosing, At
      <4>. QED
        BY <4>1 DEF Closing, Mark
    <3>3. PICK s : s = Mark("START", nextTx + 1)
      OBVIOUS
    <3>. QED
      BY <1>3, <3>1, <3>2, <3>3, BeginIs, WriteClosingIs
  <2>2. \A k \in 1..Len(log') : (k \in 1..Len(log) /\ log'[k] = log[k]) \/ log'[k] = r
    BY <1>0, <2>1 DEF Appended, LogIs
  <2>. QED
    BY <1>1, <2>1, <2>2 DEF Placed
<1>4. ASSUME NEW t \in Tx, NEW b \in Block, NEW o \in Offset, NEW v \in Value, Set(t, b, o, v)
      PROVE  Placed'
  <2>1. PICK old \in Value : Appended(SetRecord(t, b, o, old))
    BY <1>4, SetIs
  <2>2. PICK r : r = SetRecord(t, b, o, old) /\ r.blk = b
    <3>1. SetRecord(t, b, o, old).blk = b
      BY DEF SetRecord
    <3>. QED
      BY <3>1
  <2>3. \A k \in 1..Len(log') : (k \in 1..Len(log) /\ log'[k] = log[k]) \/ log'[k] = r
    BY <1>0, <2>1, <2>2 DEF Appended, LogIs
  <2>4. disk'[b] # Missing
    BY <1>4, SetIs
  <2>. QED
    BY <1>1, <2>2, <2>3, <2>4 DEF Placed
<1>5. CASE Crash
  <2>1. \A k \in 1..Len(log') : k \in 1..Len(log) /\ log'[k] = log[k]
    BY <1>0, <1>5, CrashIs DEF LogIs
  <2>. QED
    BY <1>1, <2>1 DEF Placed
<1>6. QuietStep \/ Scan \/ ScanThrows \/ UndoSet \/ Finish \/ PoolWork => log' = log
  BY ScanIs, ScanThrowsIs, UndoSetIs, FinishIs, PoolWorkIs DEF QuietStep, Quiet
<1>. QED
  BY <1>2, <1>3, <1>4, <1>5, <1>6, Steps, AppendBlockIs DEF LoudStep

Guarded == Apart /\ Wal /\ Placed

LEMMA Next_Guarded ==
  ASSUME Base, Base', Guarded, [Next]_vars, RecoverFirst, ExclusiveClients
  PROVE  Guarded'
<1>1. Owned' /\ Exclusive' /\ Flushed' /\ DirtyLocked'
  BY Next_Owned, Next_Exclusive, Next_Flushed, Next_DirtyLocked DEF Guarded, Apart, Owned, Closed
<1>. QED
  BY <1>1, Next_Wal, Next_Placed DEF Guarded, Apart

LEMMA Init_Guarded == Init => Guarded
<1>. SUFFICES ASSUME Init PROVE Guarded
  OBVIOUS
<1>1. Len(log) = 0 /\ ctl.at = "start" /\ \A t \in Tx, b \in Lockable : held[t][b] = "none"
  BY NoCtlIs DEF Init, Log!LogInit, Locks!LockInit, Locks!NoModes
<1>2. \A i \in PP!Buffers : pool[i].txnum = None
  BY DEF Init, Pool!PoolStart, Pool!EmptyPool, Pool!NewBuffer, Pool!Buffers, PP!Buffers
<1>. QED
  BY <1>1, <1>2, Init_Owned DEF Guarded, Apart, Exclusive, Flushed, DirtyLocked, Wal, Placed

----------------------------------------------------------------------------
(* The open records of one location. *)
OpenAt(b, o) == {i \in Open : AtLoc(log[i], b, o)}

LEMMA OldestExists ==
  ASSUME Base, Control, NEW b, NEW o, OpenAt(b, o) # {}
  PROVE  \E i : Oldest(i, OpenAt(b, o))
<1>1. OpenAt(b, o) \in SUBSET Nat
  <2>1. \A i \in Open : i \in Nat
    BY OpenTyped
  <2>. QED
    BY <2>1 DEF OpenAt
<1>. QED
  BY <1>1, LeastNat DEF Oldest

LEMMA OldestOnly ==
  ASSUME Base, Control, NEW b, NEW o, NEW i, Oldest(i, OpenAt(b, o)),
         NEW j, Oldest(j, OpenAt(b, o))
  PROVE  i = j
<1>1. i \in Open /\ j \in Open /\ i <= j /\ j <= i
  BY DEF Oldest, OpenAt
<1>2. i \in 1..End /\ j \in 1..End
  BY <1>1, OpenTyped
<1>. QED
  BY <1>1, <1>2

(* What becomes of them. *)
KeptAt == /\ \A b, o : OpenAt(b, o)' = OpenAt(b, o)
          /\ \A i \in Open : log'[i] = log[i]

LEMMA SteadyAt ==
  ASSUME Base, Control, Steady
  PROVE  KeptAt
<1>1. \A i \in Open : log'[i] = log[i]
  BY OpenTyped DEF Steady
<1>2. ASSUME NEW b, NEW o PROVE OpenAt(b, o)' = OpenAt(b, o)
  <2>1. Open' = Open
    BY DEF Steady
  <2>2. \A i : i \in OpenAt(b, o)' <=> i \in OpenAt(b, o)
    BY <1>1, <2>1, Zenon DEF OpenAt, AtLoc
  <2>. QED
    BY <2>2
<1>. QED
  BY <1>1, <1>2 DEF KeptAt

LEMMA BeginAt ==
  ASSUME Base, Base', Control, Begin
  PROVE  KeptAt
<1>1. PICK r : Appended(r) /\ r.op = "START" /\ ctl.at # "end" /\ ctl'.at # "end"
  <2>1. Mark("START", nextTx + 1).op = "START"
    BY DEF Mark
  <2>2. PICK r : r = Mark("START", nextTx + 1)
    OBVIOUS
  <2>. QED
    BY <2>1, <2>2, BeginIs, NoCtlIs
<1>2. \A i : i \in Open' <=> i \in Open
  BY <1>1, OpenAppend
<1>3. \A i \in Open : log'[i] = log[i]
  BY <1>1, OpenTyped DEF Appended
<1>4. ASSUME NEW b, NEW o PROVE OpenAt(b, o)' = OpenAt(b, o)
  <2>1. \A i : i \in OpenAt(b, o)' <=> i \in OpenAt(b, o)
    BY <1>2, <1>3, Zenon DEF OpenAt, AtLoc
  <2>. QED
    BY <2>1
<1>. QED
  BY <1>3, <1>4 DEF KeptAt

LEMMA SetAt ==
  ASSUME Base, Base', Control, NEW t \in Tx, NEW b \in Block, NEW o \in Offset, NEW v \in Value,
         Set(t, b, o, v)
  PROVE  \E k \in Nat :
           /\ \A i \in Open : i < k /\ log'[i] = log[i]
           /\ durable' < k /\ log'[k].tx = t /\ log'[k].val = PP!View[b][o]
           /\ \A c, p : \A i : i \in OpenAt(c, p)' <=> \/ i \in OpenAt(c, p)
                                                       \/ i = k /\ c = b /\ p = o
<1>1. PICK old \in Value : Appended(SetRecord(t, b, o, old)) /\ old = PP!View[b][o]
  BY SetIs
<1>2. PICK r : /\ r = SetRecord(t, b, o, old) /\ r.op = "SET" /\ r.tx = t /\ r.blk = b
               /\ r.off = o /\ r.val = old
  <2>1. PICK r : r = SetRecord(t, b, o, old)
    OBVIOUS
  <2>. QED
    BY <2>1 DEF SetRecord
<1>3. ctl.at # "end" /\ ctl'.at # "end" /\ Appended(r)
  BY <1>1, <1>2, SetIs, NoCtlIs
<1>4. PICK k \in Nat : k = Len(log) + 1
  BY <1>3 DEF Appended, LogIs
<1>5. \A i : i \in Open' <=> i \in Open \/ i = k
  BY <1>2, <1>3, <1>4, OpenAppend
<1>6. log'[k] = r /\ durable' < k /\ \A i \in 1..Len(log) : log'[i] = log[i]
  BY <1>3, <1>4 DEF Appended, LogIs
<1>7. \A i \in Open : i < k /\ log'[i] = log[i]
  BY <1>4, <1>6, OpenTyped
<1>8. \A c, p : \A i : i \in OpenAt(c, p)' <=> \/ i \in OpenAt(c, p)
                                               \/ i = k /\ c = b /\ p = o
  <2>1. \A i : i \in Open => i # k
    BY <1>4, OpenTyped, LogIsTyped DEF Base, LogIs
  <2>. QED
    BY <1>2, <1>5, <1>6, <1>7, <2>1, Zenon DEF OpenAt, AtLoc
<1>. QED
  BY <1>1, <1>2, <1>6, <1>7, <1>8

LEMMA CrashAt ==
  ASSUME Base, Base', Closed, Crash
  PROVE  /\ \A b, o : \A i : i \in OpenAt(b, o)' <=> i \in OpenAt(b, o) /\ i <= durable
         /\ \A i \in Open : i <= durable => log'[i] = log[i]
<1>1. \A i : i \in Open' <=> i \in Open /\ i <= durable
  BY OpenCrash
<1>2. \A i \in Open : i <= durable => log'[i] = log[i]
  <2>1. \A i \in Open : i \in 1..Len(log)
    BY OpenTyped DEF Closed
  <2>. QED
    BY <2>1, CrashIs DEF LogIs
<1>3. \A b, o : \A i : i \in OpenAt(b, o)' <=> i \in OpenAt(b, o) /\ i <= durable
  BY <1>1, <1>2, Zenon DEF OpenAt, AtLoc
<1>. QED
  BY <1>2, <1>3

(* A closing record settles all the records of a location or none. *)
LEMMA FinishAt ==
  ASSUME Base, Base', Apart, Finish
  PROVE  \A b, o :
           \/ /\ OpenAt(b, o)' = OpenAt(b, o) /\ ctl.op # "recover"
              /\ \A i \in OpenAt(b, o) : log[i].tx # Me
           \/ /\ OpenAt(b, o)' = {} /\ OpenAt(b, o) # {} /\ ctl.op # "recover"
              /\ \A i \in OpenAt(b, o) : log[i].tx = Me
           \/ OpenAt(b, o)' = {} /\ ctl.op = "recover"
<1>. SUFFICES ASSUME NEW b, NEW o
     PROVE \/ /\ OpenAt(b, o)' = OpenAt(b, o) /\ ctl.op # "recover"
              /\ \A i \in OpenAt(b, o) : log[i].tx # Me
           \/ /\ OpenAt(b, o)' = {} /\ OpenAt(b, o) # {} /\ ctl.op # "recover"
              /\ \A i \in OpenAt(b, o) : log[i].tx = Me
           \/ OpenAt(b, o)' = {} /\ ctl.op = "recover"
  OBVIOUS
<1>1. log' = log /\ ctl' = NoCtl /\ ctl.op # "none" /\ ctl.at = "end" /\ Me \in Tx
  BY FinishIs
<1>2. LogIs /\ LogIs' /\ Control /\ ctl'.at # "end"
  BY <1>1, LogIsTyped, StoreLog, NoCtlIs DEF Base, Apart, Owned, Closed
<1>3. /\ log[Len(log)] = Closing
      /\ \A i : i \in Open' <=> \/ i \in Open /\ ~ Kills(log, Len(log), i)
                                \/ i = Len(log) /\ Closing.op = "SET"
  BY <1>1, <1>2, OpenFinish
<1>4. CASE ctl.op = "recover"
  <2>1. Closing.op = "CHECKPOINT"
    BY <1>4 DEF Closing, Mark
  <2>2. \A i : i \notin Open'
    BY <1>3, <2>1 DEF Kills
  <2>3. \A i : i \notin OpenAt(b, o)'
    BY <2>2, Zenon DEF OpenAt
  <2>. QED
    BY <1>4, <2>3
<1>5. CASE ctl.op # "recover"
  <2>1. ctl.op \in {"commit", "rollback"}
    BY <1>1, <1>5, MeIs
  <2>2. Ends(Closing) /\ Closing.tx = Me /\ Closing.op \notin {"CHECKPOINT", "SET"} /\ recovered
    BY <1>2, <2>1 DEF Closing, Mark, Ends, Control
  <2>3. \A i : Kills(log, Len(log), i) <=> log[i].tx = Me
    BY <1>3, <2>2 DEF Kills
  <2>4. \A i : i \in Open' <=> i \in Open /\ log[i].tx # Me
    BY <1>3, <2>2, <2>3, Zenon
  <2>5. \A i : i \in OpenAt(b, o)' <=> i \in OpenAt(b, o) /\ log[i].tx # Me
    BY <1>1, <2>4, Zenon DEF OpenAt
  <2>6. \A i, j \in OpenAt(b, o) : log[i].tx = log[j].tx
    BY <2>2, SameOwner DEF OpenAt, AtLoc, Apart
  <2>7. CASE \E i \in OpenAt(b, o) : log[i].tx = Me
    <3>1. \A i \in OpenAt(b, o) : log[i].tx = Me
      BY <2>6, <2>7
    <3>2. \A i : i \notin OpenAt(b, o)'
      BY <2>5, <3>1, Zenon
    <3>. QED
      BY <1>5, <2>7, <3>1, <3>2
  <2>8. CASE \A i \in OpenAt(b, o) : log[i].tx # Me
    <3>1. \A i : i \in OpenAt(b, o)' <=> i \in OpenAt(b, o)
      BY <2>5, <2>8, Zenon
    <3>. QED
      BY <1>5, <2>8, <3>1
  <2>. QED
    BY <2>7, <2>8
<1>. QED
  BY <1>4, <1>5

----------------------------------------------------------------------------
(* What the pages hold.  A location whose oldest open record could be lost *)
(* in a crash still has the old value on disk; one without open records    *)
(* is on disk as clients see it.                                           *)
OldOnDisk == \A b \in Block, o \in Offset : \A i :
    Oldest(i, OpenAt(b, o)) /\ i > durable => disk[b][o] = log[i].val

Unwritten == \A b \in Block, o \in Offset :
    OpenAt(b, o) = {} /\ disk[b] # Missing => PP!View[b][o] = disk[b][o]

LEMMA KeptOldOnDisk ==
  ASSUME Base, Base', Control, OldOnDisk, KeptAt, durable <= durable',
         \A b \in Block, o \in Offset : \A i :
            Oldest(i, OpenAt(b, o)) /\ i > durable' => disk'[b] = disk[b]
  PROVE  OldOnDisk'
<1>. SUFFICES ASSUME NEW b \in Block, NEW o \in Offset, NEW i,
                     (Oldest(i, OpenAt(b, o)) /\ i > durable)'
              PROVE  (disk[b][o] = log[i].val)'
  BY Zenon DEF OldOnDisk
<1>0. OpenAt(b, o)' = OpenAt(b, o)
  BY Zenon DEF KeptAt
<1>1. Oldest(i, OpenAt(b, o)) /\ i \in Open
  <2>1. Oldest(i, OpenAt(b, o))
    BY <1>0, Zenon DEF Oldest
  <2>. QED
    BY <2>1, Zenon DEF Oldest, OpenAt
<1>2. i \in Nat /\ durable \in Nat /\ durable' \in Nat
  BY <1>1, OpenTyped, LogIsTyped, StoreLog DEF Base, LogIs
<1>3. i > durable
  BY <1>2
<1>4. disk[b][o] = log[i].val /\ disk'[b] = disk[b] /\ log'[i] = log[i]
  BY <1>1, <1>3 DEF OldOnDisk, KeptAt
<1>. QED
  BY <1>4

LEMMA KeptUnwritten ==
  ASSUME Unwritten, KeptAt,
         \A b \in Block, o \in Offset : OpenAt(b, o) = {} /\ disk'[b] # Missing =>
            \/ PP!View'[b][o] = disk'[b][o]
            \/ /\ disk[b] # Missing /\ PP!View'[b][o] = PP!View[b][o]
               /\ disk'[b][o] = disk[b][o]
  PROVE  Unwritten'
<1>. SUFFICES ASSUME NEW b \in Block, NEW o \in Offset,
                     OpenAt(b, o)' = {}, disk'[b] # Missing
              PROVE  PP!View'[b][o] = disk'[b][o]
  BY Zenon DEF Unwritten
<1>1. OpenAt(b, o) = {}
  BY DEF KeptAt
<1>2. disk[b] # Missing => PP!View[b][o] = disk[b][o]
  BY <1>1 DEF Unwritten
<1>. QED
  BY <1>1, <1>2

(* A step that changes neither pages nor the open records. *)
StillStep == \/ QuietStep \/ Begin \/ Scan \/ ScanThrows \/ WriteClosing

LEMMA StillSteps ==
  ASSUME Base, Base', Closed, StillStep
  PROVE  /\ KeptAt /\ disk' = disk /\ PP!View' = PP!View /\ writes' = writes
         /\ recovered' = recovered /\ durable <= durable' /\ LogIs /\ LogIs'
<1>1. LogIs /\ LogIs'
  BY LogIsTyped, StoreLog DEF Base
<1>2. CASE QuietStep
  <2>1. KeptAt
    BY <1>2, SteadySteps, SteadyAt DEF SteadyStep, Closed
  <2>. QED
    BY <1>1, <1>2, <2>1 DEF QuietStep, Quiet, LogIs
<1>3. CASE Begin
  BY <1>1, <1>3, BeginIs, BeginAt DEF Closed, SameData, Appended
<1>4. CASE Scan \/ ScanThrows
  <2>1. KeptAt
    BY <1>4, SteadySteps, SteadyAt DEF SteadyStep, Closed
  <2>. QED
    BY <1>1, <1>4, <2>1, ScanIs, ScanThrowsIs DEF SameData
<1>5. CASE WriteClosing
  <2>1. KeptAt
    BY <1>5, SteadySteps, SteadyAt DEF SteadyStep, Closed
  <2>. QED
    BY <1>1, <1>5, <2>1, WriteClosingIs DEF SameData, Appended
<1>. QED
  BY <1>2, <1>3, <1>4, <1>5 DEF StillStep

(* Undo changes a location that has an open record. *)
LEMMA UndoAt ==
  ASSUME Base, Base', Owned, UndoSet
  PROVE  /\ KeptAt /\ disk' = disk /\ PP!Store!StoreWrite(ToUndo.blk, ToUndo.off, ToUndo.val)
         /\ PP!View \in [Block -> PP!Contents \cup {Missing}]
         /\ \E i \in Open : /\ ToUndo = log[i] /\ i \in OpenAt(ToUndo.blk, ToUndo.off)
                            /\ ctl.op = "rollback" => log[i].tx = Me
<1>1. /\ disk' = disk /\ ctl.undo # <<>>
      /\ PP!Store!StoreWrite(ToUndo.blk, ToUndo.off, ToUndo.val)
  BY UndoSetIs
<1>2. KeptAt
  BY SteadySteps, SteadyAt DEF SteadyStep, Owned, Closed
<1>3. 1 \in 1..Len(ctl.undo) /\ ToUndo = ctl.undo[1]
  BY <1>1, ToUndoIs DEF Base
<1>4. PICK i \in Open : ToUndo = log[i] /\ (ctl.op = "rollback" => log[i].tx = Me)
  BY <1>3 DEF Owned, ToUndoOpen
<1>5. i \in OpenAt(ToUndo.blk, ToUndo.off)
  BY <1>4 DEF OpenAt, AtLoc
<1>6. PP!View \in [Block -> PP!Contents \cup {Missing}]
  BY ViewNow DEF Base, PP!ViewIs
<1>. QED
  BY <1>1, <1>2, <1>4, <1>5, <1>6

LEMMA WriteView ==
  ASSUME PP!View \in [Block -> PP!Contents \cup {Missing}], Missing \notin PP!Contents,
         NEW b \in Block, NEW o \in Offset, NEW v \in Value, PP!Store!StoreWrite(b, o, v)
  PROVE  /\ PP!View'[b][o] = v
         /\ \A c \in Block, p \in Offset : c # b \/ p # o => PP!View'[c][p] = PP!View[c][p]
<1>1. PP!View[b] \in [Offset -> Value] /\ PP!View' = [PP!View EXCEPT ![b][o] = v]
  BY DEF PP!Store!StoreWrite, PP!Contents
<1>. QED
  BY <1>1

LEMMA NotMissing == Missing \notin PP!Contents
BY PoolAssumed DEF PP!Contents

LEMMA SetView ==
  ASSUME Base, Base', NEW t \in Tx, NEW b \in Block, NEW o \in Offset, NEW v \in Value,
         Set(t, b, o, v)
  PROVE  /\ PP!View'[b][o] = v
         /\ \A c \in Block, p \in Offset : c # b \/ p # o => PP!View'[c][p] = PP!View[c][p]
<1>1. PP!Store!StoreWrite(b, o, v)
  BY SetIs
<1>2. PP!View \in [Block -> PP!Contents \cup {Missing}]
  BY ViewNow DEF Base, PP!ViewIs
<1>. QED
  BY <1>1, <1>2, WriteView, NotMissing

(* Blocks are appended where nothing was written. *)
LEMMA AppendAt ==
  ASSUME Base, Base', Guarded, NEW t \in Tx, NEW b \in Block, AppendBlock(t, b)
  PROVE  /\ KeptAt /\ \A o : OpenAt(b, o) = {}
         /\ PP!View'[b] = PP!ZeroPage /\ disk'[b] = PP!ZeroPage /\ disk[b] = Missing
         /\ \A c \in Block : c # b => PP!View'[c] = PP!View[c] /\ disk'[c] = disk[c]
<1>1. KeptAt
  BY SteadySteps, SteadyAt DEF SteadyStep, Guarded, Apart, Owned, Closed
<1>2. /\ disk[b] = Missing /\ disk' = [disk EXCEPT ![b] = PP!ZeroPage]
      /\ PP!View' = [PP!View EXCEPT ![b] = PP!ZeroPage]
  <2>1. PP!Store!StoreAppend(b) /\ disk[b] = Missing /\ disk' = [disk EXCEPT ![b] = PP!ZeroPage]
    BY AppendBlockIs
  <2>2. PP!Store!ZeroPage = PP!ZeroPage
    BY DEF PP!Store!ZeroPage, PP!ZeroPage
  <2>. QED
    BY <2>1, <2>2 DEF PP!Store!StoreAppend
<1>3. PP!View \in [Block -> PP!Contents \cup {Missing}] /\ disk \in [Block -> PP!Contents \cup {Missing}]
  BY ViewNow DEF Base, PP!ViewIs, PP!StoreInv, PP!PoolInv, PP!PoolTypeOK
<1>4. ASSUME NEW o, NEW i \in OpenAt(b, o) PROVE FALSE
  <2>1. i \in Open /\ log[i].blk = b
    BY <1>4 DEF OpenAt, AtLoc
  <2>2. i \in 1..Len(log) /\ log[i].op = "SET"
    BY <2>1, OpenTyped DEF Guarded, Apart, Owned, Closed
  <2>. QED
    BY <1>2, <2>1, <2>2 DEF Guarded, Placed
<1>. QED
  BY <1>1, <1>2, <1>3, <1>4

(* A page that goes to disk takes no change along whose record could be    *)
(* lost.                                                                   *)
LEMMA WorkAt ==
  ASSUME Base, Base', Guarded, PoolWork
  PROVE  /\ KeptAt /\ durable <= durable' /\ PP!View' = PP!View /\ log' = log
         /\ \A b \in Block : /\ disk'[b] = disk[b] \/ disk'[b] = PP!View[b]
                             /\ disk'[b] = Missing <=> disk[b] = Missing
         /\ \A b \in Block, o \in Offset : \A i :
               Oldest(i, OpenAt(b, o)) /\ i > durable' => disk'[b] = disk[b]
<1>1. KeptAt
  BY SteadySteps, SteadyAt DEF SteadyStep, Guarded, Apart, Owned, Closed
<1>2. /\ durable <= durable' /\ PP!View' = PP!View /\ log' = log
      /\ \A b \in Block : disk'[b] = disk[b] \/ PP!Written(b)
  BY PoolWorkIs
<1>3. \A b \in Block : disk'[b] = Missing <=> disk[b] = Missing
  BY <1>2, ViewMissing, ViewMissingNext DEF Base
<1>4. ASSUME NEW b \in Block, NEW o \in Offset, NEW i, Oldest(i, OpenAt(b, o)), i > durable',
             disk'[b] # disk[b]
      PROVE  FALSE
  <2>1. i \in Open /\ log[i].blk = b
    BY <1>4 DEF Oldest, OpenAt, AtLoc
  <2>2. i \in 1..Len(log) /\ log[i].op = "SET"
    BY <2>1, OpenTyped DEF Guarded, Apart, Owned, Closed
  <2>3. durable \in Nat /\ durable' \in Nat /\ Len(log) \in Nat
    BY LogIsTyped, StoreLog DEF Base, LogIs
  <2>4. i > durable
    BY <1>2, <1>4, <2>2, <2>3
  <2>5. PICK j \in PP!Buffers : pool[j].blk = b /\ pool[j].lsn >= i
    BY <2>1, <2>2, <2>4 DEF Guarded, Wal
  <2>6. pool[j].lsn <= durable
    BY <1>2, <1>4, <2>5 DEF PP!Written
  <2>7. pool[j].lsn \in Nat
    BY DEF Base, PP!StoreInv, PP!PoolInv, PP!PoolTypeOK, PP!Buffer
  <2>. QED
    BY <2>2, <2>3, <2>4, <2>5, <2>6, <2>7
<1>. QED
  BY <1>1, <1>2, <1>3, <1>4 DEF PP!Written

LEMMA Next_OldOnDisk ==
  ASSUME Base, Base', Guarded, OldOnDisk, Unwritten, [Next]_vars, RecoverFirst
  PROVE  OldOnDisk'
<1>. USE DEF Guarded, Apart, Owned, Closed
<1>0. LogIs /\ LogIs'
  BY LogIsTyped, StoreLog DEF Base
<1>1. CASE StillStep
  BY <1>1, StillSteps, KeptOldOnDisk
<1>2. CASE UndoSet
  <2>1. durable' = durable
    BY <1>2, UndoSetIs
  <2>2. durable <= durable'
    BY <1>0, <2>1 DEF LogIs
  <2>. QED
    BY <1>2, <2>2, UndoAt, KeptOldOnDisk
<1>3. CASE PoolWork
  BY <1>3, WorkAt, KeptOldOnDisk
<1>4. ASSUME NEW t \in Tx, NEW b \in Block, AppendBlock(t, b)
      PROVE  OldOnDisk'
  <2>1. durable' = durable
    BY <1>4, AppendBlockIs
  <2>2. durable <= durable'
    BY <1>0, <2>1 DEF LogIs
  <2>3. \A c \in Block, o \in Offset : \A i : Oldest(i, OpenAt(c, o)) => disk'[c] = disk[c]
    BY <1>4, AppendAt DEF Oldest
  <2>4. KeptAt
    BY <1>4, AppendAt
  <2>. QED
    BY <2>2, <2>3, <2>4, KeptOldOnDisk
<1>5. CASE Finish
  <2>1. durable' = Len(log') /\ log' = log
    BY <1>5, FinishIs
  <2>2. \A i \in Open' : i \in 1..Len(log')
    <3>1. ctl' = NoCtl
      BY <1>5, FinishIs
    <3>2. End' <= Len(log') /\ End' \in Nat
      BY <1>0, <3>1, NoCtlIs DEF End, LogIs
    <3>3. \A i \in Open' : i \in 1..End'
      BY Zenon DEF Open, OpenIn
    <3>. QED
      BY <1>0, <3>2, <3>3 DEF LogIs
  <2>3. \A b, o : \A i : Oldest(i, OpenAt(b, o)') => i \in Open'
    BY Zenon DEF Oldest, OpenAt
  <2>. QED
    BY <1>0, <2>1, <2>2, <2>3 DEF OldOnDisk, LogIs
<1>6. CASE Crash
  <2>1. durable' = durable
    BY <1>6, CrashIs
  <2>2. \A b, o : \A i : Oldest(i, OpenAt(b, o)') => i <= durable /\ i \in Open
    BY <1>6, CrashAt DEF Oldest, OpenAt
  <2>3. \A i \in Open : i \in Nat
    BY OpenTyped
  <2>. QED
    BY <1>0, <2>1, <2>2, <2>3 DEF OldOnDisk, LogIs
<1>7. ASSUME NEW t \in Tx, NEW b \in Block, NEW o \in Offset, NEW v \in Value, Set(t, b, o, v)
      PROVE  OldOnDisk'
  <2>1. PICK k \in Nat :
           /\ \A i \in Open : i < k /\ log'[i] = log[i]
           /\ durable' < k /\ log'[k].tx = t /\ log'[k].val = PP!View[b][o]
           /\ \A c, p : \A i : i \in OpenAt(c, p)' <=> \/ i \in OpenAt(c, p)
                                                       \/ i = k /\ c = b /\ p = o
    BY <1>7, SetAt
  <2>2. disk' = disk /\ disk[b] # Missing /\ durable <= durable'
    BY <1>7, SetIs DEF Appended
  <2>. SUFFICES ASSUME NEW c \in Block, NEW p \in Offset, NEW i,
                       (Oldest(i, OpenAt(c, p)) /\ i > durable)'
                PROVE  (disk[c][p] = log[i].val)'
    BY Zenon DEF OldOnDisk
  <2>3. CASE i \in OpenAt(c, p)
    <3>1. Oldest(i, OpenAt(c, p)) /\ i \in Open
      BY <2>1, <2>3 DEF Oldest, OpenAt
    <3>2. i > durable
      BY <1>0, <2>2, <3>1, OpenTyped DEF LogIs
    <3>. QED
      BY <2>1, <2>2, <3>1, <3>2 DEF OldOnDisk
  <2>4. CASE i \notin OpenAt(c, p)
    <3>1. i = k /\ c = b /\ p = o
      BY <2>1, <2>4 DEF Oldest
    <3>2. ASSUME NEW j \in OpenAt(b, o) PROVE FALSE
      <4>1. j \in Open /\ j \in OpenAt(c, p)'
        BY <2>1, <3>1, <3>2 DEF OpenAt
      <4>2. k <= j /\ j < k /\ j \in Nat
        BY <2>1, <3>1, <4>1, OpenTyped DEF Oldest
      <4>. QED
        BY <4>2
    <3>3. PP!View[b][o] = disk[b][o]
      BY <2>2, <3>2 DEF Unwritten
    <3>. QED
      BY <2>1, <2>2, <3>1, <3>3
  <2>. QED
    BY <2>3, <2>4
<1>. QED
  BY <1>1, <1>2, <1>3, <1>4, <1>5, <1>6, <1>7, Steps DEF LoudStep, StillStep

LEMMA Next_Unwritten ==
  ASSUME Base, Base', Guarded, Unwritten, [Next]_vars, RecoverFirst
  PROVE  Unwritten'
<1>. USE DEF Guarded, Apart, Owned, Closed
<1>1. CASE StillStep
  BY <1>1, StillSteps, KeptUnwritten
<1>2. CASE UndoSet
  <2>1. ToUndo.blk \in Block /\ ToUndo.off \in Offset /\ ToUndo.val \in Value
    BY <1>2, ToUndoIs DEF UndoSet, At, Base, CtlOK
  <2>2. \A c \in Block, p \in Offset : c # ToUndo.blk \/ p # ToUndo.off =>
          PP!View'[c][p] = PP!View[c][p]
    BY <1>2, <2>1, UndoAt, WriteView, NotMissing
  <2>3. OpenAt(ToUndo.blk, ToUndo.off) # {} /\ disk' = disk /\ KeptAt
    BY <1>2, UndoAt
  <2>. QED
    BY <2>2, <2>3, KeptUnwritten
<1>3. CASE PoolWork
  BY <1>3, WorkAt, KeptUnwritten
<1>4. ASSUME NEW t \in Tx, NEW b \in Block, AppendBlock(t, b)
      PROVE  Unwritten'
  BY <1>4, AppendAt, KeptUnwritten
<1>5. CASE Finish
  <2>1. disk' = disk /\ PP!View' = PP!View /\ ctl.at = "end"
    BY <1>5, FinishIs DEF SameData
  <2>. SUFFICES ASSUME NEW b \in Block, NEW o \in Offset, OpenAt(b, o)' = {}, disk[b] # Missing
                PROVE  PP!View[b][o] = disk[b][o]
    BY <2>1, Zenon DEF Unwritten
  <2>2. CASE OpenAt(b, o) = {}
    BY <2>2 DEF Unwritten
  <2>3. CASE ctl.op = "recover"
    <3>1. ~ recovered
      BY <2>3 DEF Control
    <3>. QED
      BY <2>1, <3>1, CleanAtEnd
  <2>4. CASE OpenAt(b, o) # {} /\ ctl.op # "recover"
    <3>1. PICK i \in OpenAt(b, o) : log[i].tx = Me
      BY <1>5, <2>4, FinishAt
    <3>2. recovered
      BY <1>5, <2>1, <2>4, FinishIs, MeIs DEF Control
    <3>3. held[Me][b] = "X"
      BY <3>1, <3>2 DEF Owners, OpenAt, AtLoc
    <3>. QED
      BY <2>1, <3>3, CleanAtEnd
  <2>. QED
    BY <2>2, <2>3, <2>4
<1>6. CASE Crash
  <2>1. PP!View' = disk'
    BY <1>6, CrashIs
  <2>. QED
    BY <2>1 DEF Unwritten
<1>7. ASSUME NEW t \in Tx, NEW b \in Block, NEW o \in Offset, NEW v \in Value, Set(t, b, o, v)
      PROVE  Unwritten'
  <2>1. PICK k \in Nat :
           \A c, p : \A i : i \in OpenAt(c, p)' <=> \/ i \in OpenAt(c, p)
                                                    \/ i = k /\ c = b /\ p = o
    BY <1>7, SetAt
  <2>2. disk' = disk
    BY <1>7, SetIs
  <2>3. \A c \in Block, p \in Offset : c # b \/ p # o => PP!View'[c][p] = PP!View[c][p]
    BY <1>7, SetView
  <2>. SUFFICES ASSUME NEW c \in Block, NEW p \in Offset, OpenAt(c, p)' = {}, disk[c] # Missing
                PROVE  PP!View'[c][p] = disk[c][p]
    BY <2>2, Zenon DEF Unwritten
  <2>4. OpenAt(c, p) = {} /\ (c # b \/ p # o)
    <3>1. \A i : i \notin OpenAt(c, p)'
      OBVIOUS
    <3>. QED
      BY <2>1, <3>1, Zenon
  <2>. QED
    BY <2>3, <2>4 DEF Unwritten
<1>. QED
  BY <1>1, <1>2, <1>3, <1>4, <1>5, <1>6, <1>7, Steps DEF LoudStep, StillStep

----------------------------------------------------------------------------
(* The history of uncommitted writes names the owners of the open records. *)
Wrote == \A t \in Tx, b \in Block, o \in Offset :
    writes[t][b][o] # None <=> (recovered /\ \E i \in OpenAt(b, o) : log[i].tx = t)

LEMMA KeptWrote ==
  ASSUME Wrote, KeptAt, writes' = writes, recovered' = recovered
  PROVE  Wrote'
<1>1. ASSUME NEW t, NEW b, NEW o
      PROVE  (\E i \in OpenAt(b, o)' : log'[i].tx = t) <=> (\E i \in OpenAt(b, o) : log[i].tx = t)
  <2>1. OpenAt(b, o)' = OpenAt(b, o) /\ \A i \in OpenAt(b, o) : log'[i] = log[i]
    BY DEF KeptAt, OpenAt
  <2>. QED
    BY <2>1, Zenon
<1>. SUFFICES ASSUME NEW t \in Tx, NEW b \in Block, NEW o \in Offset
              PROVE  writes'[t][b][o] # None
                        <=> (recovered' /\ \E i \in OpenAt(b, o)' : log'[i].tx = t)
  BY Zenon DEF Wrote
<1>2. writes[t][b][o] # None <=> (recovered /\ \E i \in OpenAt(b, o) : log[i].tx = t)
  BY Zenon DEF Wrote
<1>3. writes'[t][b][o] = writes[t][b][o]
  OBVIOUS
<1>. QED
  BY <1>1, <1>2, <1>3, Zenon

LEMMA Next_Wrote ==
  ASSUME Base, Base', Guarded, Wrote, [Next]_vars, RecoverFirst
  PROVE  Wrote'
<1>. USE DEF Guarded, Apart, Owned, Closed
<1>0. writes \in [Tx -> [Block -> [Offset -> Value \cup {None}]]]
      /\ \A t, b, o : b \in Block /\ o \in Offset => NoWrites[b][o] = None
  BY DEF Base, TxTypeOK, NoWrites
<1>1. CASE StillStep
  BY <1>1, StillSteps, KeptWrote
<1>2. CASE UndoSet
  BY <1>2, UndoAt, UndoSetIs, KeptWrote
<1>3. CASE PoolWork
  BY <1>3, WorkAt, PoolWorkIs, KeptWrote
<1>4. ASSUME NEW t \in Tx, NEW b \in Block, AppendBlock(t, b)
      PROVE  Wrote'
  BY <1>4, AppendAt, AppendBlockIs, KeptWrote
<1>5. CASE Finish
  <2>1. /\ writes' = [writes EXCEPT ![Me] = NoWrites] /\ log' = log /\ Me \in Tx
        /\ ctl.op # "recover" => recovered' = recovered
    BY <1>5, FinishIs
  <2>. SUFFICES ASSUME NEW t \in Tx, NEW b \in Block, NEW o \in Offset
                PROVE  writes'[t][b][o] # None
                          <=> (recovered' /\ \E i \in OpenAt(b, o)' : log'[i].tx = t)
    BY Zenon DEF Wrote
  <2>2. writes[t][b][o] # None <=> (recovered /\ \E i \in OpenAt(b, o) : log[i].tx = t)
    BY Zenon DEF Wrote
  <2>3. writes'[t][b][o] = IF t = Me THEN None ELSE writes[t][b][o]
    BY <1>0, <2>1
  <2>4. CASE ctl.op = "recover"
    <3>1. writes[t][b][o] = None
      BY <2>2, <2>4 DEF Control
    <3>2. OpenAt(b, o)' = {}
      BY <1>5, <2>4, FinishAt
    <3>. QED
      BY <2>3, <3>1, <3>2
  <2>5. CASE ctl.op # "recover"
    <3>1. \/ OpenAt(b, o)' = OpenAt(b, o) /\ \A i \in OpenAt(b, o) : log[i].tx # Me
          \/ OpenAt(b, o)' = {} /\ \A i \in OpenAt(b, o) : log[i].tx = Me
      BY <1>5, <2>5, FinishAt
    <3>2. (\E i \in OpenAt(b, o)' : log'[i].tx = t)
             <=> (t # Me /\ \E i \in OpenAt(b, o) : log[i].tx = t)
      BY <2>1, <3>1
    <3>3. recovered' = recovered
      BY <2>1, <2>5
    <3>4. writes'[t][b][o] # None <=> t # Me /\ writes[t][b][o] # None
      BY <2>3
    <3>. QED
      BY <2>2, <3>2, <3>3, <3>4, Zenon
  <2>. QED
    BY <2>4, <2>5
<1>6. CASE Crash
  <2>1. writes' = [t \in Tx |-> NoWrites] /\ ~ recovered'
    BY <1>6, CrashIs
  <2>. QED
    BY <1>0, <2>1 DEF Wrote
<1>7. ASSUME NEW m \in Tx, NEW b \in Block, NEW o \in Offset, NEW v \in Value, Set(m, b, o, v)
      PROVE  Wrote'
  <2>1. PICK k \in Nat :
           /\ \A i \in Open : i < k /\ log'[i] = log[i]
           /\ durable' < k /\ log'[k].tx = m /\ log'[k].val = PP!View[b][o]
           /\ \A c, p : \A i : i \in OpenAt(c, p)' <=> \/ i \in OpenAt(c, p)
                                                       \/ i = k /\ c = b /\ p = o
    BY <1>7, SetAt
  <2>2. writes' = [writes EXCEPT ![m][b][o] = v] /\ recovered' = recovered /\ recovered
    BY <1>7, SetIs
  <2>. SUFFICES ASSUME NEW t \in Tx, NEW c \in Block, NEW p \in Offset
                PROVE  writes'[t][c][p] # None
                          <=> (recovered' /\ \E i \in OpenAt(c, p)' : log'[i].tx = t)
    BY Zenon DEF Wrote
  <2>3. writes[t][c][p] # None <=> \E i \in OpenAt(c, p) : log[i].tx = t
    BY <2>2, Zenon DEF Wrote
  <2>4. \A i \in OpenAt(c, p) : log'[i] = log[i]
    BY <2>1 DEF OpenAt
  <2>5. (\E i \in OpenAt(c, p)' : log'[i].tx = t)
           <=> \/ \E i \in OpenAt(c, p) : log[i].tx = t
               \/ t = m /\ c = b /\ p = o
    BY <2>1, <2>4, Zenon
  <2>6. v # None
    BY TransactionAssumption
  <2>7. writes'[t][c][p] = IF t = m /\ c = b /\ p = o THEN v ELSE writes[t][c][p]
    BY <1>0, <2>2
  <2>8. writes'[t][c][p] # None
           <=> \/ writes[t][c][p] # None
               \/ t = m /\ c = b /\ p = o
    BY <2>6, <2>7
  <2>. QED
    BY <2>2, <2>3, <2>5, <2>8, Zenon
<1>. QED
  BY <1>1, <1>2, <1>3, <1>4, <1>5, <1>6, <1>7, Steps DEF LoudStep, StillStep

----------------------------------------------------------------------------
(* A transaction reads its own writes until it is rolled back. *)
Writing(t) == state[t] = "active" /\ ~ (ctl.op = "rollback" /\ Me = t)

Sees == \A t \in Tx, b \in Block, o \in Offset :
    Writing(t) /\ writes[t][b][o] # None => PP!View[b][o] = writes[t][b][o]

LEMMA KeptSees ==
  ASSUME Sees, writes' = writes,
         \A t \in Tx, b \in Block, o \in Offset :
            Writing(t)' /\ writes[t][b][o] # None =>
               Writing(t) /\ PP!View'[b][o] = PP!View[b][o]
  PROVE  Sees'
<1>. SUFFICES ASSUME NEW t \in Tx, NEW b \in Block, NEW o \in Offset,
                     Writing(t)', writes[t][b][o] # None
              PROVE  PP!View'[b][o] = writes[t][b][o]
  BY Zenon DEF Sees
<1>1. Writing(t) /\ PP!View'[b][o] = PP!View[b][o]
  BY Zenon
<1>. QED
  BY <1>1 DEF Sees

LEMMA WritingKept ==
  ASSUME Base, Base', Guarded, Wrote, StillStep,
         NEW t \in Tx, NEW b \in Block, NEW o \in Offset, Writing(t)', writes[t][b][o] # None
  PROVE  Writing(t)
<1>. USE DEF Guarded, Apart, Owned, Closed
<1>0. GivesUp => Writing(t)
  BY MeIs DEF Writing, Me, GivesUp, Base, TxTypeOK
<1>1. CASE QuietStep
  <2>1. CASE UNCHANGED <<ctl, state>>
    BY <2>1 DEF Writing, Me
  <2>2. CASE SameCall
    BY <2>2 DEF Writing, Me, SameCall
  <2>3. CASE Opens
    BY <2>3, NoCtlIs DEF Writing, Me, Opens
  <2>4. CASE GivesUp
    BY <1>0, <2>4
  <2>. QED
    BY <1>1, <2>1, <2>2, <2>3, <2>4 DEF QuietStep
<1>2. CASE Begin
  <2>1. PICK m \in Tx : m = nextTx + 1
    BY <1>2, BeginIs
  <2>2. state' = [state EXCEPT ![m] = "active"] /\ ctl' = ctl /\ ctl = NoCtl
    BY <1>2, <2>1, BeginIs
  <2>3. state[m] = "none"
    BY <2>1 DEF Control, Base, TxTypeOK
  <2>4. t # m
    <3>1. \E i \in OpenAt(b, o) : log[i].tx = t /\ recovered
      BY DEF Wrote
    <3>2. Live(t)
      BY <3>1 DEF Owners, OpenAt
    <3>. QED
      BY <2>3, <3>2 DEF Live
  <2>. QED
    BY <2>2, <2>4, NoCtlIs DEF Writing, Me, Base, TxTypeOK
<1>3. CASE Scan
  BY <1>3, ScanIs DEF Writing, Me
<1>4. CASE WriteClosing
  BY <1>4, WriteClosingIs DEF Writing, Me
<1>5. CASE ScanThrows
  BY <1>0, <1>5, ScanThrowsIs
<1>. QED
  BY <1>1, <1>2, <1>3, <1>4, <1>5 DEF StillStep

LEMMA Next_Sees ==
  ASSUME Base, Base', Guarded, Wrote, Sees, [Next]_vars, RecoverFirst, ExclusiveClients
  PROVE  Sees'
<1>. USE DEF Guarded, Apart, Owned, Closed
<1>0. writes \in [Tx -> [Block -> [Offset -> Value \cup {None}]]]
      /\ \A b \in Block, o \in Offset : NoWrites[b][o] = None
  BY DEF Base, TxTypeOK, NoWrites
<1>1. CASE StillStep
  <2>1. writes' = writes /\ PP!View' = PP!View
    BY <1>1, StillSteps
  <2>. QED
    BY <1>1, <2>1, WritingKept, KeptSees
<1>2. CASE UndoSet
  <2>1. UNCHANGED <<writes, state>> /\ ctl'.op = ctl.op /\ ctl'.tx = ctl.tx /\ ctl.op # "none"
        /\ ctl.at = "set"
    BY <1>2, UndoSetIs
  <2>2. ToUndo.blk \in Block /\ ToUndo.off \in Offset /\ ToUndo.val \in Value
    BY <1>2, ToUndoIs DEF UndoSet, At, Base, CtlOK
  <2>3. \A c \in Block, p \in Offset : c # ToUndo.blk \/ p # ToUndo.off =>
          PP!View'[c][p] = PP!View[c][p]
    BY <1>2, <2>2, UndoAt, WriteView, NotMissing
  <2>4. PICK i \in Open : /\ ToUndo = log[i] /\ i \in OpenAt(ToUndo.blk, ToUndo.off)
                          /\ ctl.op = "rollback" => log[i].tx = Me
    BY <1>2, UndoAt
  <2>5. ASSUME NEW t \in Tx, writes[t][ToUndo.blk][ToUndo.off] # None
        PROVE  ~ Writing(t)
    <3>1. PICK j \in OpenAt(ToUndo.blk, ToUndo.off) : log[j].tx = t /\ recovered
      BY <2>2, <2>5 DEF Wrote
    <3>2. ctl.op = "rollback"
      BY <2>1, <3>1, MeIs DEF Control, Base, CtlOK
    <3>3. log[j].tx = log[i].tx
      BY <2>4, <3>1, SameOwner DEF OpenAt, AtLoc
    <3>. QED
      BY <2>4, <3>1, <3>2, <3>3 DEF Writing
  <2>6. \A t \in Tx : Writing(t)' <=> Writing(t)
    BY <2>1 DEF Writing, Me
  <2>7. ASSUME NEW t \in Tx, NEW b \in Block, NEW o \in Offset, Writing(t)',
               writes[t][b][o] # None
        PROVE  Writing(t) /\ PP!View'[b][o] = PP!View[b][o]
    <3>1. Writing(t)
      BY <2>6, <2>7
    <3>2. b # ToUndo.blk \/ o # ToUndo.off
      BY <2>5, <2>7, <3>1
    <3>. QED
      BY <2>3, <3>1, <3>2
  <2>. QED
    BY <2>1, <2>7, KeptSees
<1>3. CASE PoolWork
  <2>1. UNCHANGED <<writes, state, ctl>> /\ PP!View' = PP!View
    BY <1>3, PoolWorkIs
  <2>2. \A t \in Tx : Writing(t)' <=> Writing(t)
    BY <2>1 DEF Writing, Me
  <2>. QED
    BY <2>1, <2>2, KeptSees
<1>4. ASSUME NEW m \in Tx, NEW b \in Block, AppendBlock(m, b)
      PROVE  Sees'
  <2>1. UNCHANGED <<writes, state, ctl>>
    BY <1>4, AppendBlockIs
  <2>2. \A t \in Tx : Writing(t)' <=> Writing(t)
    BY <2>1 DEF Writing, Me
  <2>3. \A o : OpenAt(b, o) = {}
    BY <1>4, AppendAt
  <2>4. ASSUME NEW t \in Tx, NEW c \in Block, NEW o \in Offset, writes[t][c][o] # None
        PROVE  PP!View'[c] = PP!View[c]
    <3>1. c # b
      BY <2>3, <2>4 DEF Wrote
    <3>. QED
      BY <1>4, <3>1, AppendAt
  <2>. QED
    BY <2>1, <2>2, <2>4, KeptSees
<1>5. CASE Finish
  <2>1. /\ writes' = [writes EXCEPT ![Me] = NoWrites] /\ Me \in Tx /\ PP!View' = PP!View
        /\ ctl' = NoCtl
        /\ ctl.op = "recover" => UNCHANGED state
        /\ ctl.op # "recover" =>
             state' = [state EXCEPT ![Me] = IF ctl.op = "commit" THEN "committed"
                                            ELSE "rolled back"]
    BY <1>5, FinishIs DEF SameData
  <2>. SUFFICES ASSUME NEW t \in Tx, NEW b \in Block, NEW o \in Offset,
                       Writing(t)', writes'[t][b][o] # None
                PROVE  PP!View[b][o] = writes'[t][b][o]
    BY <2>1, Zenon DEF Sees
  <2>2. t # Me /\ writes'[t][b][o] = writes[t][b][o]
    BY <1>0, <2>1
  <2>3. state[t] = "active"
    BY <2>1, <2>2 DEF Writing, Base, TxTypeOK
  <2>4. Writing(t)
    BY <2>2, <2>3 DEF Writing
  <2>. QED
    BY <2>2, <2>4 DEF Sees
<1>6. CASE Crash
  <2>1. writes' = [t \in Tx |-> NoWrites]
    BY <1>6, CrashIs
  <2>. QED
    BY <1>0, <2>1 DEF Sees
<1>7. ASSUME NEW m \in Tx, NEW b \in Block, NEW o \in Offset, NEW v \in Value, Set(m, b, o, v)
      PROVE  Sees'
  <2>1. /\ PP!View'[b][o] = v
        /\ \A c \in Block, p \in Offset : c # b \/ p # o => PP!View'[c][p] = PP!View[c][p]
    BY <1>7, SetView
  <2>2. /\ writes' = [writes EXCEPT ![m][b][o] = v] /\ UNCHANGED <<state, ctl, recovered>>
        /\ recovered /\ XLock(m, b)
    BY <1>7, SetIs
  <2>3. writes'[m][b][o] = v
        /\ \A t \in Tx, c \in Block, p \in Offset :
              t # m \/ c # b \/ p # o => writes'[t][c][p] = writes[t][c][p]
    BY <1>0, <2>2
  <2>4. \A t \in Tx : Writing(t)' <=> Writing(t)
    BY <2>2 DEF Writing, Me
  <2>5. ASSUME NEW t \in Tx, t # m
        PROVE  writes[t][b][o] = None
    <3>1. held[t][b] = "none"
      BY <2>2, <2>5 DEF XLock, MayWrite
    <3>2. ASSUME NEW i \in OpenAt(b, o), log[i].tx = t PROVE FALSE
      BY <2>2, <3>1, <3>2 DEF Owners, OpenAt, AtLoc
    <3>. QED
      BY <3>2 DEF Wrote
  <2>. SUFFICES ASSUME NEW t \in Tx, NEW c \in Block, NEW p \in Offset,
                       Writing(t)', writes'[t][c][p] # None
                PROVE  PP!View'[c][p] = writes'[t][c][p]
    BY Zenon DEF Sees
  <2>6. CASE c = b /\ p = o
    <3>1. t = m
      BY <2>3, <2>5, <2>6
    <3>. QED
      BY <2>1, <2>3, <2>6, <3>1
  <2>7. CASE c # b \/ p # o
    <3>1. writes'[t][c][p] = writes[t][c][p] /\ Writing(t)
      BY <2>3, <2>4, <2>7
    <3>. QED
      BY <2>1, <2>7, <3>1 DEF Sees
  <2>. QED
    BY <2>6, <2>7
<1>. QED
  BY <1>1, <1>2, <1>3, <1>4, <1>5, <1>6, <1>7, Steps DEF LoudStep, StillStep

----------------------------------------------------------------------------
(* A rollback or recovery has restored what it has undone, and what is     *)
(* left to undo restores the rest.                                         *)
Resolved(u, b, o, v) == Settles(u, b, o, v) \/ (Spares(u, b, o) /\ PP!View[b][o] = v)

Undone == ctl.op \in {"rollback", "recover"} /\ ctl.at # "scan" =>
    \A b \in Block, o \in Offset : \A i :
        Oldest(i, OpenAt(b, o)) /\ (ctl.op = "rollback" => log[i].tx = Me)
           => Resolved(Rest, b, o, log[i].val)

LEMMA KeptUndone ==
  ASSUME Undone, KeptAt, ctl'.op = ctl.op, ctl'.tx = ctl.tx, ctl'.at = "scan" <=> ctl.at = "scan",
         Rest' = Rest, PP!View' = PP!View
  PROVE  Undone'
<1>. SUFFICES ASSUME ctl'.op \in {"rollback", "recover"} /\ ctl'.at # "scan",
                     NEW b \in Block, NEW o \in Offset, NEW i,
                     (Oldest(i, OpenAt(b, o)) /\ (ctl.op = "rollback" => log[i].tx = Me))'
              PROVE  Resolved(Rest, b, o, log[i].val)'
  BY Zenon DEF Undone
<1>1. OpenAt(b, o)' = OpenAt(b, o) /\ Oldest(i, OpenAt(b, o)) /\ log'[i] = log[i]
  BY DEF KeptAt, Oldest, OpenAt
<1>2. ctl.op = "rollback" => log[i].tx = Me
  BY <1>1 DEF Me
<1>3. Resolved(Rest, b, o, log[i].val)
  BY <1>1, <1>2 DEF Undone
<1>. QED
  BY <1>1, <1>3, Zenon DEF Resolved, Settles, Spares

LEMMA TailUndo ==
  ASSUME NEW u \in Seq(SetRecords), u # <<>>, NEW w, w = Tail(u), NEW b, NEW o, NEW v
  PROVE  /\ Settles(u, b, o, v) =>
              Settles(w, b, o, v) \/ (Spares(w, b, o) /\ AtLoc(u[1], b, o) /\ u[1].val = v)
         /\ Spares(u, b, o) => Spares(w, b, o) /\ ~ AtLoc(u[1], b, o)
<1>1. /\ w \in Seq(SetRecords) /\ Len(w) \in Nat /\ Len(u) = Len(w) + 1
      /\ \A k \in 1..Len(w) : w[k] = u[k + 1] /\ k + 1 \in 1..Len(u)
      /\ 1 \in 1..Len(u)
  BY HeadTailProperties
<1>2. ASSUME Spares(u, b, o) PROVE Spares(w, b, o) /\ ~ AtLoc(u[1], b, o)
  BY <1>1, <1>2 DEF Spares
<1>3. ASSUME NEW k \in 1..Len(u), AtLoc(u[k], b, o), u[k].val = v,
             \A j \in 1..Len(u) : j > k => ~ AtLoc(u[j], b, o)
      PROVE  Settles(w, b, o, v) \/ (Spares(w, b, o) /\ AtLoc(u[1], b, o) /\ u[1].val = v)
  <2>1. CASE k = 1
    <3>1. ASSUME NEW j \in 1..Len(w) PROVE ~ AtLoc(w[j], b, o)
      <4>1. j + 1 \in 1..Len(u) /\ j + 1 > k /\ w[j] = u[j + 1]
        BY <1>1, <2>1
      <4>. QED
        BY <1>3, <4>1
    <3>. QED
      BY <1>3, <2>1, <3>1 DEF Spares
  <2>2. CASE k # 1
    <3>1. PICK n \in 1..Len(w) : n + 1 = k
      <4>1. k - 1 \in 1..Len(w) /\ (k - 1) + 1 = k
        BY <1>1, <2>2
      <4>. QED
        BY <4>1
    <3>2. w[n] = u[k]
      BY <1>1, <3>1
    <3>3. ASSUME NEW j \in 1..Len(w), j > n PROVE ~ AtLoc(w[j], b, o)
      <4>1. j + 1 \in 1..Len(u) /\ j + 1 > k /\ w[j] = u[j + 1]
        BY <1>1, <3>1, <3>3
      <4>. QED
        BY <1>3, <4>1
    <3>. QED
      BY <1>3, <3>1, <3>2, <3>3 DEF Settles
  <2>. QED
    BY <2>1, <2>2
<1>. QED
  BY <1>2, <1>3 DEF Settles

LEMMA Scan_Undone ==
  ASSUME Base, Base', Guarded, Scan
  PROVE  Undone'
<1>. USE DEF Guarded, Apart, Owned, Closed
<1>1. /\ log' = log /\ ctl'.op = ctl.op /\ ctl'.tx = ctl.tx /\ ctl'.at = "undo"
      /\ ctl.at = "scan"
  BY ScanIs
<1>2. PICK u \in Seq(SetRecords) : u = ctl'.undo /\ Collects(u, log, Found, Len(log))
  BY ScanIs
<1>3. Rest' = u
  BY <1>1, <1>2 DEF Rest
<1>4. KeptAt
  BY SteadySteps, SteadyAt DEF SteadyStep
<1>5. \A i : i \in Found <=> i \in Open /\ (ctl.op = "rollback" => log[i].tx = Me)
  BY <1>1, FoundOpen
<1>. SUFFICES ASSUME NEW b \in Block, NEW o \in Offset, NEW i,
                     (Oldest(i, OpenAt(b, o)) /\ (ctl.op = "rollback" => log[i].tx = Me))'
              PROVE  Resolved(Rest, b, o, log[i].val)'
  BY Zenon DEF Undone
<1>6. Oldest(i, OpenAt(b, o)) /\ (ctl.op = "rollback" => log[i].tx = Me) /\ i \in OpenAt(b, o)
  BY <1>1, <1>4 DEF KeptAt, Oldest, Me
<1>7. ASSUME NEW j \in OpenAt(b, o) PROVE ctl.op = "rollback" => log[j].tx = Me
  <2>1. ctl.op = "rollback" => recovered
    BY DEF Control
  <2>2. ctl.op = "rollback" => log[j].tx = log[i].tx
    BY <1>6, <2>1, SameOwner DEF OpenAt, AtLoc
  <2>. QED
    BY <1>6, <2>2
<1>8. FoundAt(log, Found, Len(log), b, o) = OpenAt(b, o)
  <2>1. \A j \in Open : j <= Len(log)
    BY OpenTyped
  <2>2. \A j : j \in FoundAt(log, Found, Len(log), b, o) <=> j \in OpenAt(b, o)
    BY <1>5, <1>7, <2>1, Zenon DEF FoundAt, OpenAt
  <2>. QED
    BY <2>2
<1>9. PICK j : Oldest(j, OpenAt(b, o)) /\ Settles(u, b, o, log[j].val)
  BY <1>2, <1>6, <1>8 DEF Collects
<1>10. j = i
  BY <1>6, <1>9, OldestOnly
<1>. QED
  BY <1>1, <1>3, <1>9, <1>10, Zenon DEF Resolved, Settles, Spares

LEMMA UndoSet_Undone ==
  ASSUME Base, Base', Guarded, Undone, UndoSet
  PROVE  Undone'
<1>. USE DEF Guarded, Apart, Owned, Closed
<1>1. /\ log' = log /\ ctl'.op = ctl.op /\ ctl'.tx = ctl.tx /\ ctl'.undo = ctl.undo
      /\ ctl.at = "set" /\ ctl'.at = "unpin" /\ ctl.undo # <<>>
  BY UndoSetIs
<1>2. PICK u \in Seq(SetRecords) : u = ctl.undo
  BY DEF Base, CtlOK
<1>3. PICK w : w = Tail(u)
  OBVIOUS
<1>4. Rest = u /\ Rest' = w /\ u # <<>>
  BY <1>1, <1>2, <1>3 DEF Rest
<1>5. ToUndo = u[1]
  BY <1>1, <1>2, ToUndoIs DEF Base
<1>6. KeptAt
  BY SteadySteps, SteadyAt DEF SteadyStep
<1>7. /\ PP!View'[ToUndo.blk][ToUndo.off] = ToUndo.val
      /\ \A c \in Block, p \in Offset : c # ToUndo.blk \/ p # ToUndo.off =>
            PP!View'[c][p] = PP!View[c][p]
  <2>1. ToUndo.blk \in Block /\ ToUndo.off \in Offset /\ ToUndo.val \in Value
    BY <1>1, ToUndoIs DEF Base
  <2>. QED
    BY <2>1, UndoAt, WriteView, NotMissing
<1>12. \A b, o, v :
         /\ Settles(u, b, o, v) =>
              Settles(w, b, o, v) \/ (Spares(w, b, o) /\ AtLoc(u[1], b, o) /\ u[1].val = v)
         /\ Spares(u, b, o) => Spares(w, b, o) /\ ~ AtLoc(u[1], b, o)
  <2>1. u # <<>>
    BY <1>4
  <2>. QED
    BY <1>2, <1>3, <2>1, TailUndo
<1>. SUFFICES ASSUME ctl'.op \in {"rollback", "recover"}, NEW b \in Block, NEW o \in Offset, NEW i,
                     (Oldest(i, OpenAt(b, o)) /\ (ctl.op = "rollback" => log[i].tx = Me))'
              PROVE  Resolved(Rest, b, o, log[i].val)'
  BY Zenon DEF Undone
<1>8. Oldest(i, OpenAt(b, o)) /\ (ctl.op = "rollback" => log[i].tx = Me)
  BY <1>1, <1>6 DEF KeptAt, Oldest, Me
<1>9. Resolved(u, b, o, log[i].val)
  BY <1>1, <1>4, <1>8 DEF Undone
<1>10. CASE Settles(u, b, o, log[i].val)
  <2>1. \/ Settles(w, b, o, log[i].val)
        \/ Spares(w, b, o) /\ AtLoc(u[1], b, o) /\ u[1].val = log[i].val
    BY <1>10, <1>12, Zenon
  <2>2. CASE Settles(w, b, o, log[i].val)
    BY <1>1, <1>4, <2>2, Zenon DEF Resolved, Settles
  <2>3. CASE Spares(w, b, o) /\ AtLoc(u[1], b, o) /\ u[1].val = log[i].val
    <3>1. PP!View'[b][o] = log[i].val
      BY <1>5, <1>7, <2>3 DEF AtLoc
    <3>. QED
      BY <1>1, <1>4, <2>3, <3>1, Zenon DEF Resolved, Spares
  <2>. QED
    BY <2>1, <2>2, <2>3
<1>11. CASE Spares(u, b, o) /\ PP!View[b][o] = log[i].val
  <2>1. Spares(w, b, o) /\ ~ AtLoc(u[1], b, o)
    BY <1>11, <1>12, Zenon
  <2>2. PP!View'[b][o] = log[i].val
    BY <1>5, <1>7, <1>11, <2>1 DEF AtLoc
  <2>. QED
    BY <1>1, <1>4, <2>1, <2>2, Zenon DEF Resolved, Spares
<1>. QED
  BY <1>9, <1>10, <1>11 DEF Resolved

LEMMA Next_Undone ==
  ASSUME Base, Base', Guarded, Undone, [Next]_vars, RecoverFirst
  PROVE  Undone'
<1>. USE DEF Guarded, Apart, Owned, Closed
<1>0. ctl' = NoCtl => Undone'
  BY NoCtlIs DEF Undone
<1>1. CASE QuietStep
  <2>1. KeptAt /\ PP!View' = PP!View
    BY <1>1, StillSteps DEF StillStep
  <2>2. CASE UNCHANGED <<ctl, state>>
    BY <2>1, <2>2, KeptUndone DEF Rest
  <2>3. CASE SameCall
    BY <2>1, <2>3, KeptUndone DEF SameCall
  <2>4. CASE Opens
    BY <2>4 DEF Opens, Undone
  <2>5. CASE GivesUp
    BY <1>0, <2>5 DEF GivesUp
  <2>. QED
    BY <1>1, <2>2, <2>3, <2>4, <2>5 DEF QuietStep
<1>2. CASE WriteClosing
  <2>1. /\ ctl'.op = ctl.op /\ ctl'.tx = ctl.tx /\ ctl'.at = "end" /\ ctl'.undo = ctl.undo
        /\ ctl.at = "log"
    BY <1>2, WriteClosingIs
  <2>2. KeptAt /\ PP!View' = PP!View
    BY <1>2, StillSteps DEF StillStep
  <2>3. Rest' = Rest
    BY <2>1 DEF Rest
  <2>. QED
    BY <2>1, <2>2, <2>3, KeptUndone
<1>3. CASE PoolWork
  <2>1. ctl' = ctl /\ KeptAt /\ PP!View' = PP!View
    BY <1>3, WorkAt, PoolWorkIs
  <2>. QED
    BY <2>1, KeptUndone DEF Rest
<1>4. CASE Begin \/ \E t \in Tx, b \in Block :
        AppendBlock(t, b) \/ \E o \in Offset, v \in Value : Set(t, b, o, v)
  <2>1. ctl' = NoCtl
    BY <1>4, BeginIs, AppendBlockIs, SetIs
  <2>. QED
    BY <1>0, <2>1
<1>5. CASE ScanThrows \/ Finish \/ Crash
  BY <1>0, <1>5, ScanThrowsIs, FinishIs, CrashIs DEF GivesUp
<1>. QED
  BY <1>1, <1>2, <1>3, <1>4, <1>5, Scan_Undone, UndoSet_Undone, Steps DEF LoudStep

Stored == Guarded /\ OldOnDisk /\ Unwritten /\ Wrote /\ Sees /\ Undone

LEMMA Next_Stored ==
  ASSUME Base, Base', Stored, [Next]_vars, RecoverFirst, ExclusiveClients
  PROVE  Stored'
BY Next_Guarded, Next_OldOnDisk, Next_Unwritten, Next_Wrote, Next_Sees, Next_Undone DEF Stored

LEMMA Init_Stored == Init => Stored
<1>. SUFFICES ASSUME Init PROVE Stored
  OBVIOUS
<1>1. Base /\ Guarded
  BY Init_Base, Init_Guarded
<1>2. ctl = NoCtl /\ log = <<>> /\ writes = [t \in Tx |-> NoWrites]
  BY DEF Init, Log!LogInit
<1>3. \A b, o : OpenAt(b, o) = {}
  BY <1>1, <1>2, OpenTyped DEF OpenAt, Guarded, Apart, Owned, Closed
<1>4. PP!View = disk
  <2>1. \A i \in PP!Buffers : pool[i].blk = None
    BY DEF Init, Pool!PoolStart, Pool!EmptyPool, Pool!NewBuffer, Pool!Buffers, PP!Buffers
  <2>2. PP!ViewIs /\ disk \in [Block -> PP!Contents \cup {Missing}]
    BY <1>1, ViewNow DEF Base, PP!StoreInv, PP!PoolInv, PP!PoolTypeOK
  <2>3. \A b \in Block : PP!View[b] = disk[b]
    BY <2>1, <2>2, PoolAssumed DEF PP!ViewIs
  <2>. QED
    BY <2>2, <2>3 DEF PP!ViewIs
<1>5. OldOnDisk /\ Unwritten
  BY <1>3, <1>4 DEF OldOnDisk, Unwritten, Oldest
<1>6. \A t \in Tx, b \in Block, o \in Offset : writes[t][b][o] = None
  BY <1>2 DEF NoWrites
<1>7. Wrote /\ Sees
  BY <1>3, <1>6 DEF Wrote, Sees
<1>8. Undone
  BY <1>2, NoCtlIs DEF Undone
<1>. QED
  BY <1>1, <1>5, <1>7, <1>8 DEF Stored

----------------------------------------------------------------------------
(* What recovery would make of the files: a location with open records     *)
(* gets the value of the oldest, the others are as clients see them.       *)
LEMMA OnDiskOpen ==
  ASSUME Base, Closed
  PROVE  \A i : i \in UnfinishedRecords(OnDisk) <=> i \in Open /\ i <= durable
<1>1. LogIs /\ End \in Nat /\ durable \in 0..End /\ durable \in Nat
  BY EndIs, LogIsTyped DEF Base, Closed, ClosingsDurable, LogIs
<1>2. PICK l : l = OnDisk
  OBVIOUS
<1>3. /\ DOMAIN l = 1..durable /\ Len(l) = durable
      /\ \A i \in 1..durable : l[i] = log[i]
  BY <1>1, <1>2 DEF OnDisk, LogIs
<1>4. \A i : i \in UnfinishedRecords(l) <=> i \in OpenIn(l, durable)
  BY <1>3, Zenon DEF UnfinishedRecords, SetsIn, OpenIn, Kills
<1>5. OpenIn(l, durable) = OpenIn(log, durable)
  BY <1>1, <1>3, OpenSame
<1>6. \A i : i \in OpenIn(log, durable) <=> i \in OpenIn(log, End) /\ i <= durable
  BY <1>1, OpenCut DEF Closed, ClosingsDurable
<1>. QED
  BY <1>2, <1>4, <1>5, <1>6 DEF Open

LEMMA ToUndoAtOpen ==
  ASSUME Base, Closed, NEW b, NEW o
  PROVE  \A i : i \in ToUndoAt(b, o) <=> i \in OpenAt(b, o) /\ i <= durable
BY OnDiskOpen, Zenon DEF ToUndoAt, OpenAt, AtLoc

LEMMA FirstIs ==
  ASSUME NEW A \in SUBSET Nat, NEW i, Oldest(i, A)
  PROVE  Pool!First(A) = i
<1>1. \E k \in A : \A j \in A : k <= j
  BY DEF Oldest
<1>2. PICK c : c = CHOOSE k \in A : \A j \in A : k <= j
  OBVIOUS
<1>3. c \in A /\ \A j \in A : c <= j
  BY <1>1, <1>2
<1>4. Pool!First(A) = c
  BY <1>2, Zenon DEF Pool!First
<1>. QED
  BY <1>3, <1>4 DEF Oldest

Current(b, o) == IF disk[b] = Missing THEN Zero ELSE PP!View[b][o]

Holds(b, o, v) == \/ \E i : Oldest(i, OpenAt(b, o)) /\ log[i].val = v
                  \/ OpenAt(b, o) = {} /\ Current(b, o) = v

RestoredIs == /\ Restored \in [Block -> [Offset -> Value]]
              /\ \A b \in Block, o \in Offset : Holds(b, o, Restored[b][o])

LEMMA HoldsOne ==
  ASSUME Base, Control, NEW b, NEW o, NEW v, Holds(b, o, v), NEW w, Holds(b, o, w)
  PROVE  v = w
<1>1. CASE OpenAt(b, o) = {}
  BY <1>1 DEF Holds, Oldest
<1>2. CASE OpenAt(b, o) # {}
  BY <1>2, OldestOnly DEF Holds
<1>. QED
  BY <1>1, <1>2

LEMMA StoreNow == Base /\ Stored => RestoredIs
<1>. SUFFICES ASSUME Base, Stored PROVE RestoredIs
  OBVIOUS
<1>. USE DEF Stored, Guarded, Apart, Owned, Closed
<1>1. LogIs /\ durable \in Nat
  BY LogIsTyped DEF Base, LogIs
<1>2. /\ PP!View \in [Block -> PP!Contents \cup {Missing}]
      /\ \A b \in Block : PP!View[b] = Missing <=> disk[b] = Missing
  BY ViewNow, ViewMissing DEF Base, PP!ViewIs
<1>3. \A b \in Block, o \in Offset : Current(b, o) \in Value
  BY <1>2, PoolAssumed DEF Current, PP!Contents
<1>4. ASSUME NEW b \in Block, NEW o \in Offset
      PROVE  Restored[b][o] \in Value /\ Holds(b, o, Restored[b][o])
  <2>1. Restored[b][o] = IF ToUndoAt(b, o) # {} THEN log[Pool!First(ToUndoAt(b, o))].val
                         ELSE IF disk[b] = Missing THEN Zero ELSE disk[b][o]
    BY DEF Restored
  <2>2. \A i : i \in ToUndoAt(b, o) <=> i \in OpenAt(b, o) /\ i <= durable
    BY ToUndoAtOpen
  <2>3. ASSUME NEW i, Oldest(i, OpenAt(b, o))
        PROVE  Restored[b][o] = log[i].val /\ log[i].val \in Value
    <3>1. i \in Open /\ AtLoc(log[i], b, o) /\ i \in 1..Len(log) /\ log[i].op = "SET"
          /\ log[i].val \in Value
      BY <2>3, OpenTyped DEF Oldest, OpenAt
    <3>2. \A j \in OpenAt(b, o) : j \in Nat /\ i <= j
      BY <2>3, OpenTyped DEF Oldest, OpenAt
    <3>3. CASE i <= durable
      <4>1. Oldest(i, ToUndoAt(b, o))
        BY <2>2, <2>3, <3>3, Zenon DEF Oldest
      <4>2. ToUndoAt(b, o) \in SUBSET Nat
        BY <2>2, <3>2
      <4>3. Pool!First(ToUndoAt(b, o)) = i
        BY <4>1, <4>2, FirstIs
      <4>4. ToUndoAt(b, o) # {}
        BY <4>1 DEF Oldest
      <4>. QED
        BY <2>1, <3>1, <4>3, <4>4
    <3>4. CASE ~ i <= durable
      <4>1. \A j : j \notin ToUndoAt(b, o)
        BY <1>1, <2>2, <3>1, <3>2, <3>4
      <4>2. disk[b] # Missing
        BY <3>1 DEF Placed, AtLoc
      <4>3. disk[b][o] = log[i].val
        BY <1>1, <2>3, <3>1, <3>4 DEF OldOnDisk
      <4>. QED
        BY <2>1, <3>1, <4>1, <4>2, <4>3
    <3>. QED
      BY <3>3, <3>4
  <2>4. CASE OpenAt(b, o) = {}
    <3>1. ToUndoAt(b, o) = {}
      BY <2>2, <2>4
    <3>2. Restored[b][o] = Current(b, o)
      BY <2>1, <2>4, <3>1 DEF Unwritten, Current
    <3>. QED
      BY <1>3, <2>4, <3>2 DEF Holds
  <2>5. CASE OpenAt(b, o) # {}
    <3>1. PICK i : Oldest(i, OpenAt(b, o))
      BY <2>5, OldestExists
    <3>. QED
      BY <2>3, <3>1 DEF Holds
  <2>. QED
    BY <2>4, <2>5
<1>5. Restored \in [Block -> [Offset -> Value]]
  BY <1>4 DEF Restored
<1>. QED
  BY <1>4, <1>5 DEF RestoredIs

LEMMA StoreNext == Base' /\ Stored' => RestoredIs'
BY StoreNow, PTL

LEMMA HoldsOneNext ==
  Base' /\ Stored' => \A b, o, v, w : Holds(b, o, v)' /\ Holds(b, o, w)' => v = w
<1>. DEFINE One == \A b, o, v, w : Holds(b, o, v) /\ Holds(b, o, w) => v = w
<1>1. Base /\ Stored => One
  BY HoldsOne DEF Stored, Guarded, Apart, Owned, Closed
<1>. HIDE DEF One
<1>2. Base' /\ Stored' => One'
  BY <1>1, PTL
<1>. QED
  BY <1>2, Zenon DEF One

(* A step leaves the store alone if every location holds what it held. *)
LEMMA StoreKept ==
  ASSUME RestoredIs, Base', Stored',
         \A b \in Block, o \in Offset : \A v : Holds(b, o, v) => Holds(b, o, v)'
  PROVE  Restored' = Restored
<1>1. Restored \in [Block -> [Offset -> Value]] /\ Restored' \in [Block -> [Offset -> Value]]
  BY StoreNext DEF RestoredIs
<1>2. ASSUME NEW b \in Block, NEW o \in Offset
      PROVE  Restored'[b][o] = Restored[b][o]
  <2>1. PICK v : v = Restored[b][o]
    OBVIOUS
  <2>2. Holds(b, o, v)'
    BY <2>1 DEF RestoredIs
  <2>3. PICK w : w = Restored'[b][o]
    OBVIOUS
  <2>4. RestoredIs'
    BY StoreNext
  <2>5. Holds(b, o, w)'
    BY <2>3, <2>4, Zenon DEF RestoredIs, Holds
  <2>. QED
    BY <2>1, <2>2, <2>3, <2>5, HoldsOneNext
<1>. QED
  BY <1>1, <1>2

----------------------------------------------------------------------------
(* What each step does to what a location holds. *)
LEMMA KeptHolds ==
  ASSUME KeptAt, NEW b, NEW o, NEW v, Holds(b, o, v),
         OpenAt(b, o) = {} => Current(b, o)' = Current(b, o)
  PROVE  Holds(b, o, v)'
<1>1. OpenAt(b, o)' = OpenAt(b, o) /\ \A i \in OpenAt(b, o) : log'[i] = log[i]
  BY DEF KeptAt, OpenAt
<1>. SUFFICES \/ \E i : Oldest(i, OpenAt(b, o)') /\ log'[i].val = v
              \/ OpenAt(b, o)' = {} /\ Current(b, o)' = v
  BY Zenon DEF Holds
<1>2. CASE OpenAt(b, o) = {}
  BY <1>1, <1>2 DEF Holds, Oldest
<1>3. CASE OpenAt(b, o) # {}
  <2>1. PICK i : Oldest(i, OpenAt(b, o)) /\ log[i].val = v
    BY <1>3 DEF Holds
  <2>. QED
    BY <1>1, <2>1 DEF Oldest
<1>. QED
  BY <1>2, <1>3

LEMMA Still_Store ==
  ASSUME Base, Base', Stored, Stored', StillStep
  PROVE  Restored' = Restored
<1>1. RestoredIs /\ KeptAt /\ disk' = disk /\ PP!View' = PP!View
  BY StoreNow, StillSteps DEF Stored, Guarded, Apart, Owned
<1>2. \A b, o : Current(b, o)' = Current(b, o)
  BY <1>1 DEF Current
<1>. QED
  BY <1>1, <1>2, KeptHolds, StoreKept

LEMMA Undo_Store ==
  ASSUME Base, Base', Stored, Stored', UndoSet
  PROVE  Restored' = Restored
<1>. USE DEF Stored, Guarded, Apart
<1>1. RestoredIs /\ KeptAt /\ disk' = disk /\ OpenAt(ToUndo.blk, ToUndo.off) # {}
  BY StoreNow, UndoAt
<1>2. ToUndo.blk \in Block /\ ToUndo.off \in Offset /\ ToUndo.val \in Value
  BY ToUndoIs DEF UndoSet, At, Base, CtlOK
<1>3. \A c \in Block, p \in Offset : c # ToUndo.blk \/ p # ToUndo.off =>
        PP!View'[c][p] = PP!View[c][p]
  BY <1>2, UndoAt, WriteView, NotMissing
<1>4. ASSUME NEW b \in Block, NEW o \in Offset, OpenAt(b, o) = {}
      PROVE  Current(b, o)' = Current(b, o)
  <2>1. PP!View'[b][o] = PP!View[b][o]
    BY <1>1, <1>3, <1>4
  <2>. QED
    BY <1>1, <2>1 DEF Current
<1>. QED
  BY <1>1, <1>4, KeptHolds, StoreKept

LEMMA Work_Store ==
  ASSUME Base, Base', Stored, Stored', PoolWork
  PROVE  Restored' = Restored
<1>1. /\ RestoredIs /\ KeptAt /\ PP!View' = PP!View
      /\ \A b \in Block : disk'[b] = Missing <=> disk[b] = Missing
  BY StoreNow, WorkAt DEF Stored
<1>2. \A b \in Block : \A o : Current(b, o)' = Current(b, o)
  BY <1>1 DEF Current
<1>. QED
  BY <1>1, <1>2, KeptHolds, StoreKept

LEMMA Append_Store ==
  ASSUME Base, Base', Stored, Stored', NEW t \in Tx, NEW c \in Block, AppendBlock(t, c)
  PROVE  Restored' = Restored
<1>1. /\ RestoredIs /\ KeptAt /\ PP!View'[c] = PP!ZeroPage /\ disk'[c] = PP!ZeroPage
      /\ disk[c] = Missing
      /\ \A b \in Block : b # c => PP!View'[b] = PP!View[b] /\ disk'[b] = disk[b]
  BY StoreNow, AppendAt DEF Stored
<1>2. ASSUME NEW b \in Block, NEW o \in Offset
      PROVE  Current(b, o)' = Current(b, o)
  <2>1. CASE b = c
    <3>1. PP!View'[b][o] = Zero
      BY <1>1, <2>1 DEF PP!ZeroPage
    <3>. QED
      BY <1>1, <2>1, <3>1 DEF Current
  <2>2. CASE b # c
    BY <1>1, <2>2 DEF Current
  <2>. QED
    BY <2>1, <2>2
<1>. QED
  BY <1>1, <1>2, KeptHolds, StoreKept

LEMMA Set_Store ==
  ASSUME Base, Base', Stored, Stored',
         NEW t \in Tx, NEW b \in Block, NEW o \in Offset, NEW w \in Value, Set(t, b, o, w)
  PROVE  Restored' = Restored
<1>. USE DEF Stored, Guarded, Apart, Owned, Closed
<1>1. PICK k \in Nat :
         /\ \A i \in Open : i < k /\ log'[i] = log[i]
         /\ durable' < k /\ log'[k].tx = t /\ log'[k].val = PP!View[b][o]
         /\ \A c, p : \A i : i \in OpenAt(c, p)' <=> \/ i \in OpenAt(c, p)
                                                     \/ i = k /\ c = b /\ p = o
  BY SetAt
<1>2. /\ disk' = disk /\ disk[b] # Missing
      /\ \A c \in Block, p \in Offset : c # b \/ p # o => PP!View'[c][p] = PP!View[c][p]
  BY SetIs, SetView
<1>3. ASSUME NEW c \in Block, NEW p \in Offset, NEW v, Holds(c, p, v)
      PROVE  Holds(c, p, v)'
  <2>. SUFFICES \/ \E i : Oldest(i, OpenAt(c, p)') /\ log'[i].val = v
                \/ OpenAt(c, p)' = {} /\ Current(c, p)' = v
    BY Zenon DEF Holds
  <2>1. CASE OpenAt(c, p) # {}
    <3>1. PICK i : Oldest(i, OpenAt(c, p)) /\ log[i].val = v
      BY <1>3, <2>1 DEF Holds
    <3>5. i \in OpenAt(c, p)
      BY <3>1 DEF Oldest
    <3>6. i \in OpenAt(c, p)'
      BY <1>1, <3>5, Zenon
    <3>2. i \in Open /\ i \in Nat /\ i \in OpenAt(c, p)'
      BY <3>5, <3>6, OpenTyped DEF OpenAt
    <3>3. log'[i].val = v /\ i <= k
      BY <1>1, <3>1, <3>2
    <3>4. Oldest(i, OpenAt(c, p)')
      BY <1>1, <3>1, <3>2, <3>3 DEF Oldest
    <3>. QED
      BY <3>3, <3>4
  <2>2. CASE OpenAt(c, p) = {} /\ c = b /\ p = o
    <3>1. \A i : i \in OpenAt(c, p)' <=> i = k
      <4>1. ASSUME NEW i PROVE i \in OpenAt(c, p)' <=> i = k
        <5>1. i \in OpenAt(c, p)' => i = k
          BY <1>1, <2>2
        <5>2. i = k => i \in OpenAt(c, p)'
          BY <1>1, <2>2, Zenon
        <5>. QED
          BY <5>1, <5>2
      <4>. QED
        BY <4>1, Zenon
    <3>2. Oldest(k, OpenAt(c, p)')
      BY <3>1 DEF Oldest
    <3>3. Current(c, p) = v
      BY <1>3, <2>2 DEF Holds, Oldest
    <3>4. v = PP!View[b][o]
      BY <1>2, <2>2, <3>3 DEF Current
    <3>. QED
      BY <1>1, <3>2, <3>4
  <2>3. CASE OpenAt(c, p) = {} /\ ~ (c = b /\ p = o)
    <3>1. \A i : i \notin OpenAt(c, p)'
      BY <1>1, <2>3, Zenon
    <3>2. Current(c, p) = v
      BY <1>3, <2>3 DEF Holds, Oldest
    <3>3. PP!View'[c][p] = PP!View[c][p]
      BY <1>2, <2>3
    <3>4. Current(c, p)' = v
      BY <1>2, <3>2, <3>3 DEF Current
    <3>. QED
      BY <3>1, <3>4
  <2>. QED
    BY <2>1, <2>2, <2>3
<1>. QED
  BY <1>3, StoreNow, StoreKept

LEMMA Crash_Store ==
  ASSUME Base, Base', Stored, Stored', Crash
  PROVE  Restored' = Restored
<1>. USE DEF Stored, Guarded, Apart, Owned, Closed
<1>1. /\ \A b, o : \A i : i \in OpenAt(b, o)' <=> i \in OpenAt(b, o) /\ i <= durable
      /\ \A i \in Open : i <= durable => log'[i] = log[i]
  BY CrashAt
<1>2. disk' = disk /\ PP!View' = disk /\ durable \in Nat
  BY CrashIs, LogIsTyped DEF Base, LogIs
<1>3. ASSUME NEW b \in Block, NEW o \in Offset, NEW v, Holds(b, o, v)
      PROVE  Holds(b, o, v)'
  <2>. SUFFICES \/ \E i : Oldest(i, OpenAt(b, o)') /\ log'[i].val = v
                \/ OpenAt(b, o)' = {} /\ Current(b, o)' = v
    BY Zenon DEF Holds
  <2>0. Current(b, o)' = IF disk[b] = Missing THEN Zero ELSE disk[b][o]
    BY <1>2, Zenon DEF Current
  <2>1. CASE OpenAt(b, o) # {}
    <3>1. PICK i : Oldest(i, OpenAt(b, o)) /\ log[i].val = v
      BY <1>3, <2>1 DEF Holds
    <3>2. i \in Open /\ i \in 1..Len(log) /\ log[i].op = "SET" /\ AtLoc(log[i], b, o)
      BY <3>1, OpenTyped DEF Oldest, OpenAt
    <3>3. \A j \in OpenAt(b, o) : j \in Nat /\ i <= j
      BY <3>1, OpenTyped DEF Oldest, OpenAt
    <3>4. CASE i <= durable
      <4>1. Oldest(i, OpenAt(b, o)')
        BY <1>1, <3>1, <3>4, Zenon DEF Oldest
      <4>2. log'[i].val = v
        BY <1>1, <3>1, <3>2, <3>4
      <4>. QED
        BY <4>1, <4>2
    <3>5. CASE ~ i <= durable
      <4>1. \A j : j \notin OpenAt(b, o)'
        BY <1>1, <1>2, <3>2, <3>3, <3>5
      <4>2. disk[b] # Missing
        BY <3>2 DEF Placed, AtLoc
      <4>3. disk[b][o] = v
        BY <1>2, <3>1, <3>2, <3>5 DEF OldOnDisk
      <4>. QED
        BY <2>0, <4>1, <4>2, <4>3
    <3>. QED
      BY <3>4, <3>5
  <2>2. CASE OpenAt(b, o) = {}
    <3>1. \A j : j \notin OpenAt(b, o)'
      BY <1>1, <2>2
    <3>2. Current(b, o) = v
      BY <1>3, <2>2 DEF Holds, Oldest
    <3>3. Current(b, o)' = v
      BY <2>0, <2>2, <3>2 DEF Current, Unwritten
    <3>. QED
      BY <3>1, <3>3
  <2>. QED
    BY <2>1, <2>2
<1>. QED
  BY <1>3, StoreNow, StoreKept

(* A block that a record changes is there. *)
LEMMA OpenPlaced ==
  ASSUME Base, Stored, NEW b, NEW o, NEW i \in OpenAt(b, o)
  PROVE  disk[b] # Missing
<1>1. i \in 1..Len(log) /\ log[i].op = "SET" /\ log[i].blk = b
  BY OpenTyped DEF OpenAt, AtLoc, Stored, Guarded, Apart, Owned, Closed
<1>. QED
  BY <1>1 DEF Stored, Guarded, Placed

(* What a finished rollback or recovery closes is back at its old value. *)
LEMMA Restored_Back ==
  ASSUME Base, Stored, ctl.op \in {"rollback", "recover"}, ctl.at = "end",
         NEW b \in Block, NEW o \in Offset, NEW i, Oldest(i, OpenAt(b, o)),
         ctl.op = "rollback" => log[i].tx = Me
  PROVE  Current(b, o) = log[i].val
<1>1. Rest = <<>>
  BY DEF Rest, Base, CtlOK
<1>2. Resolved(Rest, b, o, log[i].val)
  BY DEF Stored, Undone
<1>3. ~ Settles(<<>>, b, o, log[i].val)
  BY DEF Settles
<1>4. PP!View[b][o] = log[i].val
  BY <1>1, <1>2, <1>3 DEF Resolved
<1>5. disk[b] # Missing
  BY OpenPlaced DEF Oldest
<1>. QED
  BY <1>4, <1>5 DEF Current

(* A commit makes its own writes the store's, at once; a rollback or a     *)
(* recovery leaves the store alone.                                        *)
LEMMA Finish_Holds ==
  ASSUME Base, Base', Stored, Finish, NEW b \in Block, NEW o \in Offset, NEW v, Holds(b, o, v),
         NEW w, w = IF ctl.op = "commit" /\ writes[Me][b][o] # None THEN writes[Me][b][o] ELSE v
  PROVE  Holds(b, o, w)'
<1>. USE DEF Stored, Guarded, Apart, Owned, Closed
<1>1. /\ log' = log /\ disk' = disk /\ PP!View' = PP!View /\ Me \in Tx
      /\ ctl.op \in {"commit", "rollback", "recover"} /\ ctl.at = "end"
  BY FinishIs, MeIs DEF SameData
<1>2. Current(b, o)' = Current(b, o)
  BY <1>1 DEF Current
<1>3. writes[Me][b][o] # None <=> (recovered /\ \E i \in OpenAt(b, o) : log[i].tx = Me)
  BY <1>1, Zenon DEF Wrote
<1>4. OpenAt(b, o) = {} => Current(b, o) = v
  BY DEF Holds, Oldest
<1>5. OpenAt(b, o) # {} => \E i : Oldest(i, OpenAt(b, o)) /\ log[i].val = v
  BY DEF Holds
<1>. SUFFICES \/ \E i : Oldest(i, OpenAt(b, o)') /\ log'[i].val = w
              \/ OpenAt(b, o)' = {} /\ Current(b, o)' = w
  BY Zenon DEF Holds
<1>6. CASE /\ OpenAt(b, o)' = OpenAt(b, o)
           /\ \A i \in OpenAt(b, o) : log[i].tx # Me
  <2>1. w = v
    BY <1>3, <1>6
  <2>. QED
    BY <1>1, <1>2, <1>4, <1>5, <1>6, <2>1
<1>7. CASE /\ OpenAt(b, o)' = {} /\ OpenAt(b, o) # {} /\ ctl.op # "recover"
           /\ \A i \in OpenAt(b, o) : log[i].tx = Me
  <2>1. PICK i : Oldest(i, OpenAt(b, o)) /\ log[i].val = v
    BY <1>5, <1>7
  <2>2. i \in OpenAt(b, o) /\ log[i].tx = Me
    BY <1>7, <2>1 DEF Oldest
  <2>3. CASE ctl.op = "commit"
    <3>1. writes[Me][b][o] # None
      BY <1>3, <2>2, <2>3 DEF Control
    <3>2. Writing(Me)
      BY <2>3 DEF Writing, Control
    <3>3. PP!View[b][o] = writes[Me][b][o] /\ disk[b] # Missing
      BY <1>1, <2>2, <3>1, <3>2, OpenPlaced DEF Sees
    <3>. QED
      BY <1>2, <1>7, <2>3, <3>1, <3>3 DEF Current
  <2>4. CASE ctl.op = "rollback"
    <3>1. Current(b, o) = v
      BY <1>1, <2>1, <2>2, <2>4, Restored_Back
    <3>. QED
      BY <1>2, <1>7, <2>4, <3>1
  <2>. QED
    BY <1>1, <1>7, <2>3, <2>4
<1>8. CASE OpenAt(b, o)' = {} /\ ctl.op = "recover"
  <2>1. OpenAt(b, o) # {} => Current(b, o) = v
    BY <1>1, <1>5, <1>8, Restored_Back
  <2>. QED
    BY <1>2, <1>4, <1>8, <2>1
<1>. QED
  BY <1>6, <1>7, <1>8, FinishAt

LEMMA Finish_Store ==
  ASSUME Base, Base', Stored, Stored', Finish
  PROVE  Restored' = IF ctl.op = "commit" THEN Atomic!Overlay(writes[Me]) ELSE Restored
<1>1. /\ Restored \in [Block -> [Offset -> Value]]
      /\ \A b \in Block, o \in Offset : Holds(b, o, Restored[b][o])
  BY StoreNow DEF RestoredIs
<1>2. Restored' \in [Block -> [Offset -> Value]] /\ RestoredIs'
  BY StoreNext DEF RestoredIs
<1>3. ASSUME NEW b \in Block, NEW o \in Offset
      PROVE  Restored'[b][o] = IF ctl.op = "commit" /\ writes[Me][b][o] # None
                               THEN writes[Me][b][o] ELSE Restored[b][o]
  <2>1. PICK v : v = Restored[b][o]
    OBVIOUS
  <2>2. PICK w : w = IF ctl.op = "commit" /\ writes[Me][b][o] # None THEN writes[Me][b][o] ELSE v
    OBVIOUS
  <2>3. Holds(b, o, v)
    BY <1>1, <2>1
  <2>4. Holds(b, o, w)'
    BY <2>2, <2>3, Finish_Holds
  <2>5. PICK x : x = Restored'[b][o]
    OBVIOUS
  <2>6. Holds(b, o, x)'
    BY <1>2, <2>5, Zenon DEF RestoredIs, Holds
  <2>. QED
    BY <2>1, <2>2, <2>4, <2>5, <2>6, HoldsOneNext
<1>4. CASE ctl.op = "commit"
  <2>1. Atomic!Overlay(writes[Me]) =
           [b \in Block |-> [o \in Offset |-> IF writes[Me][b][o] = None THEN Restored[b][o]
                                              ELSE writes[Me][b][o]]]
    BY Zenon DEF Atomic!Overlay
  <2>. QED
    BY <1>2, <1>3, <1>4, <2>1
<1>5. CASE ctl.op # "commit"
  BY <1>1, <1>2, <1>3, <1>5
<1>. QED
  BY <1>4, <1>5

----------------------------------------------------------------------------
(* Every step is one of the store's, or none. *)
LEMMA Same_Outcome ==
  ASSUME Base, Base', Stored, StillStep, ~ Begin
  PROVE  Outcome' = Outcome
<1>1. CASE state' = state
  BY <1>1 DEF Outcome
<1>2. CASE GivesUp
  <2>1. Me \in Tx /\ Live(Me) /\ state \in [Tx -> States]
    BY <1>2, MeIs DEF GivesUp, Stored, Guarded, Apart, Owned, Closed, Control, Base, TxTypeOK
  <2>2. state' = [state EXCEPT ![Me] = "broken"]
    BY <1>2 DEF GivesUp
  <2>3. \A t \in Tx : (IF state'[t] = "broken" THEN "active" ELSE state'[t])
                         = (IF state[t] = "broken" THEN "active" ELSE state[t])
    BY <2>1, <2>2 DEF Live
  <2>. QED
    BY <2>3, Zenon DEF Outcome
<1>. QED
  BY <1>1, <1>2, ScanIs, ScanThrowsIs, WriteClosingIs DEF StillStep, QuietStep, SameCall, Opens

LEMMA Next_Atomic ==
  ASSUME Base, Base', Stored, Stored', [Next]_vars, RecoverFirst
  PROVE  [Atomic!AtomicNext]_(Atomic!storeVars)
<1>. USE DEF Stored, Guarded, Apart, Owned, Closed
<1>0. state \in [Tx -> States] /\ writes \in [Tx -> [Block -> [Offset -> Value \cup {None}]]]
  BY DEF Base, TxTypeOK
<1>1. Restored' = Restored /\ writes' = writes /\ Outcome' = Outcome
        => [Atomic!AtomicNext]_(Atomic!storeVars)
  BY Zenon DEF Atomic!storeVars
<1>2. CASE StillStep /\ ~ Begin
  BY <1>1, <1>2, Still_Store, StillSteps, Same_Outcome
<1>3. CASE Begin
  <2>1. PICK t \in Tx : t = nextTx + 1
    BY <1>3, BeginIs
  <2>2. state' = [state EXCEPT ![t] = "active"] /\ writes' = writes /\ Restored' = Restored
    BY <1>3, <2>1, BeginIs, Still_Store DEF StillStep
  <2>3. state[t] = "none"
    <3>1. t > nextTx
      BY <2>1 DEF Base, TxTypeOK
    <3>. QED
      BY <3>1 DEF Control
  <2>4. Outcome[t] = "none" /\ Outcome' = [Outcome EXCEPT ![t] = "active"]
    BY <1>0, <2>2, <2>3 DEF Outcome
  <2>5. Atomic!AtomicBegin(t)
    BY <2>2, <2>4, Zenon DEF Atomic!AtomicBegin
  <2>. QED
    BY <2>5, Zenon DEF Atomic!AtomicNext
<1>4. CASE UndoSet
  BY <1>1, <1>4, Undo_Store, UndoSetIs DEF Outcome
<1>5. CASE PoolWork
  BY <1>1, <1>5, Work_Store, PoolWorkIs DEF Outcome
<1>6. ASSUME NEW t \in Tx, NEW b \in Block, AppendBlock(t, b)
      PROVE  [Atomic!AtomicNext]_(Atomic!storeVars)
  <2>1. UNCHANGED <<state, writes>> /\ Restored' = Restored
    BY <1>6, Append_Store, AppendBlockIs
  <2>2. Outcome' = Outcome
    BY <2>1 DEF Outcome
  <2>. QED
    BY <1>1, <2>1, <2>2
<1>7. ASSUME NEW t \in Tx, NEW b \in Block, NEW o \in Offset, NEW v \in Value, Set(t, b, o, v)
      PROVE  [Atomic!AtomicNext]_(Atomic!storeVars)
  <2>1. /\ writes' = [writes EXCEPT ![t][b][o] = v] /\ state' = state /\ state[t] = "active"
        /\ Restored' = Restored
    BY <1>7, SetIs, Set_Store
  <2>2. Outcome' = Outcome /\ Outcome[t] = "active"
    BY <2>1 DEF Outcome
  <2>3. Atomic!AtomicWrite(t, b, o, v)
    BY <2>1, <2>2, Zenon DEF Atomic!AtomicWrite
  <2>. QED
    BY <2>3, Zenon DEF Atomic!AtomicNext
<1>8. CASE Crash
  <2>1. /\ writes' = [t \in Tx |-> NoWrites] /\ \A t \in Tx : state'[t] = "none"
        /\ Restored' = Restored
    BY <1>8, CrashIs, Crash_Store
  <2>2. Outcome' = [t \in Tx |-> "none"]
    BY <2>1 DEF Outcome
  <2>3. Atomic!AtomicCrash
    BY <2>1, <2>2, Zenon DEF Atomic!AtomicCrash, Atomic!NoWrites, Atomic!NoOutcome, NoWrites
  <2>. QED
    BY <2>3, Zenon DEF Atomic!AtomicNext
<1>9. CASE Finish
  <2>1. /\ Me \in Tx /\ writes' = [writes EXCEPT ![Me] = NoWrites] /\ Live(Me)
        /\ ctl.op \in {"commit", "rollback", "recover"}
        /\ Restored' = IF ctl.op = "commit" THEN Atomic!Overlay(writes[Me]) ELSE Restored
    BY <1>9, FinishIs, MeIs, Finish_Store DEF Control
  <2>2. Outcome[Me] = "active" /\ Atomic!NoWrites = NoWrites
    BY <2>1, Zenon DEF Outcome, Live, Atomic!NoWrites, NoWrites
  <2>3. CASE ctl.op = "recover"
    <3>1. state' = state
      BY <1>9, <2>3, FinishIs
    <3>2. \A b \in Block, o \in Offset : writes[Me][b][o] = None
      BY <2>1, <2>3 DEF Wrote, Control
    <3>3. writes[Me] = NoWrites
      BY <1>0, <2>1, <3>2 DEF NoWrites
    <3>4. writes' = writes
      BY <1>0, <2>1, <3>3
    <3>. QED
      BY <1>1, <2>1, <2>3, <3>1, <3>4 DEF Outcome
  <2>4. PICK how : how = IF ctl.op = "commit" THEN "committed" ELSE "rolled back"
    OBVIOUS
  <2>5. CASE ctl.op # "recover"
    <3>1. state' = [state EXCEPT ![Me] = how]
      BY <1>9, <2>4, <2>5, FinishIs
    <3>2. Outcome' = [Outcome EXCEPT ![Me] = how]
      BY <1>0, <2>1, <2>4, <3>1 DEF Outcome
    <3>3. Atomic!End(Me, how)
      BY <2>1, <2>2, <3>2, Zenon DEF Atomic!End
    <3>4. Atomic!AtomicCommit(Me) \/ Atomic!AtomicRollback(Me)
      BY <2>1, <2>4, <2>5, <3>3 DEF Atomic!AtomicCommit, Atomic!AtomicRollback
    <3>. QED
      BY <2>1, <3>4, Zenon DEF Atomic!AtomicNext
  <2>. QED
    BY <2>3, <2>5
<1>. QED
  BY <1>2, <1>3, <1>4, <1>5, <1>6, <1>7, <1>8, <1>9, Steps DEF LoudStep, StillStep

LEMMA Init_Atomic == Init => Atomic!AtomicInit
<1>. SUFFICES ASSUME Init PROVE Atomic!AtomicInit
  OBVIOUS
<1>1. Restored \in [Block -> [Offset -> Value]]
  BY Init_Base, Init_Stored, StoreNow DEF RestoredIs
<1>2. writes = [t \in Tx |-> NoWrites] /\ state = [t \in Tx |-> "none"]
  BY DEF Init, NoState
<1>3. Outcome = [t \in Tx |-> "none"]
  BY <1>2 DEF Outcome
<1>. QED
  BY <1>1, <1>2, <1>3, Zenon DEF Atomic!AtomicInit, Atomic!NoOutcome, Atomic!NoWrites, NoWrites

(* The transactions of this code are atomic and durable where clients keep *)
(* writers apart and a process recovers before anything else: from the     *)
(* files alone, at every instant and through any number of crashes, what   *)
(* recovery would bring back changes only when a commit has flushed its    *)
(* record, and then by all the writes of that transaction (recoverymgr.cpp *)
(* do_rollback, do_recover; transaction.cpp commit, rollback, recover).    *)
THEOREM TransactionsAreAtomic ==
  ASSUME RecoverFirst, ExclusiveClients
  PROVE  Spec => ImplementsAtomicStore
<1>1. Init => Base /\ Stored
  BY Init_Base, Init_Stored
<1>2. Base /\ Stored /\ [Next]_vars => Base' /\ Stored'
  BY Next_Base, Next_Stored
<1>3. Base /\ Stored /\ Base' /\ Stored' /\ [Next]_vars => [Atomic!AtomicNext]_(Atomic!storeVars)
  BY Next_Atomic
<1>. QED
  BY <1>1, <1>2, <1>3, Init_Atomic, PTL DEF Spec, ImplementsAtomicStore, Atomic!AtomicSpec

----------------------------------------------------------------------------
LEMMA Reads_Now ==
  ASSUME Base, Stored
  PROVE  ReadsCommitted
<1>. USE DEF Stored, Guarded, Apart, Owned, Closed
<1>. SUFFICES ASSUME ctl = NoCtl, recovered, ~ Broken, NEW b \in Block, NEW o \in Offset,
                     PP!View[b] # Missing, NEW w, w = {t \in Tx : writes[t][b][o] # None}
              PROVE  PP!View[b][o] = IF w = {} THEN Restored[b][o]
                                     ELSE writes[Pool!First(w)][b][o]
  BY SamePool, Zenon DEF ReadsCommitted
<1>1. \A t \in Tx : t \in w <=> \E i \in OpenAt(b, o) : log[i].tx = t
  BY DEF Wrote
<1>2. CASE w = {}
  <2>1. OpenAt(b, o) = {}
    <3>1. ASSUME NEW i \in OpenAt(b, o) PROVE FALSE
      <4>1. log[i].tx \in Tx
        BY OpenTyped DEF OpenAt
      <4>. QED
        BY <1>1, <1>2, <4>1
    <3>. QED
      BY <3>1
  <2>2. disk[b] # Missing
    BY ViewMissing DEF Base
  <2>3. Holds(b, o, Restored[b][o])
    BY StoreNow DEF RestoredIs
  <2>. QED
    BY <1>2, <2>1, <2>2, <2>3 DEF Holds, Oldest, Current
<1>3. CASE w # {}
  <2>1. w \in SUBSET Nat
    BY DEF Tx
  <2>2. PICK t : Oldest(t, w)
    BY <1>3, <2>1, LeastNat DEF Oldest
  <2>3. Pool!First(w) = t
    BY <2>1, <2>2, FirstIs
  <2>4. t \in Tx /\ writes[t][b][o] # None
    BY <2>2 DEF Oldest
  <2>5. PICK i \in Open : log[i].tx = t
    BY <1>1, <2>2, <2>4 DEF Oldest, OpenAt
  <2>6. state[t] = "active"
    BY <2>4, <2>5 DEF Owners, Live, Broken
  <2>7. Writing(t)
    BY <2>6, NoCtlIs DEF Writing
  <2>. QED
    BY <1>3, <2>3, <2>4, <2>7 DEF Sees
<1>. QED
  BY <1>2, <1>3

(* Under the same conditions a location reads, between calls, as its       *)
(* uncommitted write, and where nobody writes, as what recovery would      *)
(* restore: what clients read is committed or their own (transaction.cpp   *)
(* get_int, get_string).                                                   *)
THEOREM TransactionsReadCommitted ==
  ASSUME RecoverFirst, ExclusiveClients
  PROVE  Spec => []ReadsCommitted
<1>1. Init => Base /\ Stored
  BY Init_Base, Init_Stored
<1>2. Base /\ Stored /\ [Next]_vars => Base' /\ Stored'
  BY Next_Base, Next_Stored
<1>3. Base /\ Stored => ReadsCommitted
  BY Reads_Now
<1>. QED
  BY <1>1, <1>2, <1>3, PTL DEF Spec

----------------------------------------------------------------------------
LEMMA Next_Durable ==
  ASSUME Base, Base', Stored, Stored', [Next]_vars, RecoverFirst,
         NEW t \in Tx, CommitReturns(t), NEW b \in Block, NEW o \in Offset,
         writes[t][b][o] # None
  PROVE  Restored'[b][o] = writes[t][b][o]
<1>. USE DEF Stored, Guarded, Apart, Owned, Closed
<1>1. state \in [Tx -> States] /\ t = Me /\ state[t] = "active" /\ state'[t] = "committed"
      /\ ctl.op = "commit"
  BY DEF Base, TxTypeOK, CommitReturns
<1>2. CASE Finish
  <2>1. Restored' = Atomic!Overlay(writes[t])
    BY <1>1, <1>2, Finish_Store
  <2>. QED
    BY <2>1, Zenon DEF Atomic!Overlay
<1>3. state' = state => FALSE
  BY <1>1
<1>4. CASE QuietStep
  BY <1>1, <1>3, <1>4 DEF QuietStep, SameCall, Opens, GivesUp
<1>5. CASE Begin \/ Crash
  BY <1>1, <1>5, BeginIs, CrashIs, NoCtlIs
<1>6. CASE ScanThrows
  BY <1>1, <1>6, ScanThrowsIs
<1>. QED
  BY <1>2, <1>3, <1>4, <1>5, <1>6, Steps, ScanIs, UndoSetIs, WriteClosingIs, PoolWorkIs,
     AppendBlockIs, SetIs DEF LoudStep

(* Under the same conditions the changes of a transaction are durable once *)
(* its commit returns (transaction.cpp commit).  The lock table alone does *)
(* not give this: where clients do not keep writers apart, the undo of     *)
(* another writer takes them back (MCTransactionConflict.cfg).             *)
THEOREM CommitsAreDurable ==
  ASSUME RecoverFirst, ExclusiveClients
  PROVE  Spec => CommitIsDurable
<1>1. Init => Base /\ Stored
  BY Init_Base, Init_Stored
<1>2. Base /\ Stored /\ [Next]_vars => Base' /\ Stored'
  BY Next_Base, Next_Stored
<1>. DEFINE Kept == \A t \in Tx, b \in Block, o \in Offset :
                CommitReturns(t) /\ writes[t][b][o] # None /\ LatestWriter(b, o) = t
                   => Restored'[b][o] = writes[t][b][o]
<1>3. Base /\ Stored /\ Base' /\ Stored' /\ [Next]_vars => Kept
  BY Next_Durable
<1>. HIDE DEF Kept
<1>4. Spec => [][Kept]_vars
  BY <1>1, <1>2, <1>3, PTL DEF Spec
<1>. QED
  BY <1>4 DEF CommitIsDurable, Kept
=============================================================================
