------------------------- MODULE BufferPool_proofs -------------------------
(***************************************************************************)
(* Proofs about the buffer pool for every number of buffers, set of        *)
(* clients, set of blocks and bound.  PoolInv is inductive: beside the     *)
(* invariants that the runs check it says what a call in progress has      *)
(* still to be true of (CallOK, FlushOK), that LSNs are positions of the   *)
(* log (LogOK), and that there are finitely many pins to count.            *)
(***************************************************************************)
EXTENDS BufferPool, Sequences, FiniteSetTheorems, WellFoundedInduction, TLAPS

(* The LSN of a buffer is that of a record in the log. *)
LogOK == /\ Log!LogTypeOK
         /\ \A i \in Buffers : pool[i].lsn <= Len(log)

(* A pin that was let in stays below the bound until it is granted. *)
CallOK ==
    /\ call.op = "pin" => /\ waiting[call.tx] = None
                          /\ mine[call.tx][call.blk].pins < MaxPins
    /\ \A t \in Tx : waiting[t] # None => mine[t][waiting[t]].pins < MaxPins

(* Between the halves of a flush the log is already on disk. *)
FlushOK == flushing # 0 => pool[flushing].lsn <= durable

TokensFinite == \A i \in Buffers : IsFiniteSet(PinTokens(i))

PoolInv == /\ PoolTypeOK /\ LogOK /\ CallOK /\ FlushOK
           /\ OneBufferPerBlock /\ TokensFinite /\ PinsMatchLists
           /\ AvailableCount

----------------------------------------------------------------------------
(* First(S) is defined by CHOOSE: a nonempty set of buffers has a least    *)
(* one, so it is a member.                                                 *)
LEMMA FirstIn ==
  ASSUME NEW S \in SUBSET Buffers, S # {}
  PROVE  First(S) \in S
<1>. DEFINE Below == {1..i : i \in S}
<1>1. Buffers \subseteq Nat
  BY BufferAssumption DEF Buffers
<1>2. \A i \in S : 1..i \in FiniteSubsetsOf(Nat)
  BY <1>1, FS_Interval DEF FiniteSubsetsOf
<1>3. PICK T \in Below : \A U \in Below : <<U, T>> \notin StrictSubsetOrdering(Nat)
  <2>1. Below \subseteq FiniteSubsetsOf(Nat) /\ Below # {}
    BY <1>2
  <2>2. IsWellFoundedOn(StrictSubsetOrdering(Nat), FiniteSubsetsOf(Nat))
    BY FS_StrictSubsetOrderingWellFounded
  <2>. HIDE DEF Below
  <2>. QED
    BY <2>1, <2>2, WFMin
<1>4. PICK i \in S : T = 1..i
  OBVIOUS
<1>5. ASSUME NEW j \in S PROVE i <= j
  <2>1. SUFFICES ASSUME j < i PROVE FALSE
    BY <1>1
  <2>2. 1..j \subseteq 1..i /\ 1..j # 1..i
    BY <2>1, <1>1
  <2>3. <<1..j, 1..i>> \in StrictSubsetOrdering(Nat)
    BY <2>2, <1>2 DEF StrictSubsetOrdering, FiniteSubsetsOf
  <2>. QED
    BY <2>3, <1>3, <1>4
<1>. QED
  BY <1>5 DEF First

LEMMA UpToCard ==
  ASSUME NEW n \in Nat
  PROVE  IsFiniteSet(1..n) /\ Cardinality(1..n) = n
BY FS_Interval

LEMMA BuffersFinite ==
  ASSUME NEW S \in SUBSET Buffers
  PROVE  IsFiniteSet(S) /\ Cardinality(S) \in 0..NumBuffers
<1>1. IsFiniteSet(1..NumBuffers) /\ Cardinality(1..NumBuffers) = NumBuffers
  BY UpToCard, BufferAssumption
<1>2. IsFiniteSet(S) /\ Cardinality(S) <= NumBuffers
  BY <1>1, FS_Subset DEF Buffers
<1>. QED
  BY <1>2, FS_CardinalityType, BufferAssumption

LEMMA FreeFinite ==
  /\ IsFiniteSet(Free) /\ Cardinality(Free) \in 0..NumBuffers
BY BuffersFinite DEF Free

(* A buffer with no pins is in no list, and the converse. *)
LEMMA NoTokens ==
  ASSUME PoolInv, NEW i \in Buffers, pool[i].pins = 0,
         NEW t \in Tx, NEW b \in Block
  PROVE  mine[t][b].buf # i
<1>1. PinTokens(i) = {}
  BY FS_EmptySet DEF PoolInv, PinsMatchLists, TokensFinite
<1>2. SUFFICES ASSUME mine[t][b].buf = i PROVE FALSE
  OBVIOUS
<1>3. mine[t][b].pins \in 1..MaxPins
  BY <1>2, BufferAssumption DEF PoolInv, PoolTypeOK, PinsMatchLists, Entry, Buffers
<1>4. <<t, b, 1>> \in PinTokens(i)
  BY <1>2, <1>3, BufferAssumption DEF PinTokens
<1>. QED
  BY <1>1, <1>4

(* The call in progress names a transaction and a block. *)
LEMMA PinOf ==
  ASSUME PoolTypeOK, call.op = "pin"
  PROVE  call.tx \in Tx /\ call.blk \in Block
BY DEF PoolTypeOK, Calls, NoCall

LEMMA FlushAllOf ==
  ASSUME PoolTypeOK, call.op = "flush_all"
  PROVE  call.tx \in Tx
BY DEF PoolTypeOK, Calls, NoCall

----------------------------------------------------------------------------
(* A step that moves no pin and assigns no buffer keeps every count. *)
LEMMA CountsKept ==
  ASSUME PoolInv, UNCHANGED <<mine, available>>,
         \A i \in Buffers : /\ pool'[i].pins = pool[i].pins
                            /\ pool'[i].blk = pool[i].blk
  PROVE  OneBufferPerBlock' /\ TokensFinite' /\ PinsMatchLists' /\ AvailableCount'
<1>1. \A i \in Buffers : PinTokens(i)' = PinTokens(i)
  BY DEF PinTokens
<1>2. Free' = Free
  BY DEF Free, Pinned
<1>3. OneBufferPerBlock'
  BY DEF PoolInv, OneBufferPerBlock
<1>4. TokensFinite'
  BY <1>1 DEF PoolInv, TokensFinite
<1>5. PinsMatchLists'
  <2>1. \A t \in Tx, b \in Block : mine[t][b].buf # 0 => mine[t][b].buf \in Buffers
    BY DEF PoolInv, PoolTypeOK, Entry
  <2>. QED
    BY <1>1, <2>1 DEF PoolInv, PinsMatchLists
<1>6. AvailableCount'
  BY <1>2 DEF PoolInv, AvailableCount
<1>. QED
  BY <1>3, <1>4, <1>5, <1>6

(* The first half of a flush makes the buffer's LSN durable. *)
LEMMA FlushLogInv ==
  ASSUME PoolInv, NEW i \in Buffers, flushing = 0, FlushLog(i)
  PROVE  PoolInv'
<1>. USE DEF PoolInv
<1>1. PoolTypeOK'
  BY DEF PoolTypeOK, FlushLog
<1>2. log' = log /\ durable' \in 0..Len(log) /\ pool[i].lsn <= durable'
  <2>1. pool[i].lsn \in Nat /\ pool[i].lsn <= Len(log)
    BY DEF PoolTypeOK, Buffer, LogOK
  <2>2. durable \in 0..Len(log) /\ Len(log) \in Nat
    BY DEF LogOK, Log!LogTypeOK
  <2>. QED
    BY <2>1, <2>2 DEF FlushLog, Log!LogFlush, Log!LogFlushAll, Log!Latest, Log!logVars
<1>3. LogOK'
  BY <1>2 DEF LogOK, Log!LogTypeOK, FlushLog
<1>4. CallOK'
  BY DEF CallOK, FlushLog
<1>5. FlushOK'
  BY <1>2 DEF FlushOK, FlushLog
<1>6. OneBufferPerBlock' /\ TokensFinite' /\ PinsMatchLists' /\ AvailableCount'
  BY CountsKept DEF FlushLog
<1>. QED
  BY <1>1, <1>3, <1>4, <1>5, <1>6

LEMMA WritePageInv ==
  ASSUME PoolInv, WritePage
  PROVE  PoolInv'
<1>. USE DEF PoolInv
<1>1. PoolTypeOK'
  BY DEF PoolTypeOK, WritePage, Buffer
<1>2. LogOK'
  BY DEF LogOK, Log!LogTypeOK, WritePage, PoolTypeOK, Buffer
<1>3. CallOK' /\ FlushOK'
  BY DEF CallOK, FlushOK, WritePage
<1>4. OneBufferPerBlock' /\ TokensFinite' /\ PinsMatchLists' /\ AvailableCount'
  <2>1. \A i \in Buffers : /\ pool'[i].pins = pool[i].pins
                           /\ pool'[i].blk = pool[i].blk
    BY DEF WritePage, PoolTypeOK, Buffer
  <2>. QED
    BY <2>1, CountsKept DEF WritePage
<1>. QED
  BY <1>1, <1>2, <1>3, <1>4

LEMMA ModifiedBuffer ==
  ASSUME NEW buff \in Buffer, NEW t \in Tx, NEW o \in Offset, NEW v \in Value, NEW lsn \in Nat
  PROVE  LET new == Modified(buff, t, o, v, lsn)
         IN  /\ new \in Buffer
             /\ new.pins = buff.pins /\ new.blk = buff.blk
             /\ new.lsn = IF lsn = 0 THEN buff.lsn ELSE lsn
<1>1. [buff.contents EXCEPT ![o] = v] \in Contents
  BY DEF Buffer, Contents
<1>. QED
  BY <1>1 DEF Modified, Buffer

(* A change of a pinned page: the record logged for it is in the log. *)
LEMMA ModifyInv ==
  ASSUME PoolInv, Idle, NEW t \in Tx, NEW b \in Block, NEW o \in Offset, NEW v \in Value,
         NEW lsn \in Nat, mine[t][b].buf # 0,
         log' \in Seq(LogRecord), durable' \in 0..Len(log'),
         Len(log) <= Len(log'), lsn <= Len(log'),
         pool' = [pool EXCEPT ![mine[t][b].buf] = Modified(@, t, o, v, lsn)],
         UNCHANGED <<disk, available, mine, waiting, call, flushing>>
  PROVE  PoolInv'
<1>. USE DEF PoolInv
<1>. DEFINE i == mine[t][b].buf
<1>1. i \in Buffers
  BY DEF PoolTypeOK, Entry
<1>2. /\ Modified(pool[i], t, o, v, lsn) \in Buffer
      /\ Modified(pool[i], t, o, v, lsn).pins = pool[i].pins
      /\ Modified(pool[i], t, o, v, lsn).blk = pool[i].blk
      /\ Modified(pool[i], t, o, v, lsn).lsn <= Len(log')
  <2>1. pool[i] \in Buffer /\ pool[i].lsn <= Len(log) /\ Len(log) \in Nat
    BY <1>1 DEF PoolTypeOK, LogOK, Log!LogTypeOK
  <2>2. LET new == Modified(pool[i], t, o, v, lsn)
        IN  /\ new \in Buffer
            /\ new.pins = pool[i].pins /\ new.blk = pool[i].blk
            /\ new.lsn = IF lsn = 0 THEN pool[i].lsn ELSE lsn
    BY <2>1, ModifiedBuffer
  <2>. QED
    BY <2>1, <2>2 DEF Buffer
<1>. HIDE DEF i
<1>3. pool' = [pool EXCEPT ![i] = Modified(pool[i], t, o, v, lsn)]
  BY DEF i
<1>4. PoolTypeOK'
  BY <1>1, <1>2, <1>3 DEF PoolTypeOK
<1>5. LogOK'
  <2>1. Len(log) \in Nat /\ Len(log') \in Nat
    BY DEF LogOK, Log!LogTypeOK
  <2>. QED
    BY <1>1, <1>2, <1>3, <2>1 DEF LogOK, Log!LogTypeOK, PoolTypeOK, Buffer
<1>6. CallOK' /\ FlushOK'
  BY DEF CallOK, FlushOK, Idle
<1>7. OneBufferPerBlock' /\ TokensFinite' /\ PinsMatchLists' /\ AvailableCount'
  <2>1. \A j \in Buffers : /\ pool'[j].pins = pool[j].pins
                           /\ pool'[j].blk = pool[j].blk
    BY <1>1, <1>2, <1>3 DEF PoolTypeOK
  <2>. QED
    BY <2>1, CountsKept
<1>. QED
  BY <1>4, <1>5, <1>6, <1>7

----------------------------------------------------------------------------
(* One more pin, for the caller, of a buffer that has the block or of a    *)
(* free one that has just been assigned to it.                             *)
LEMMA TakeInv ==
  ASSUME PoolInv, call.op = "pin", flushing = 0,
         NEW i \in Buffers, NEW buff \in Buffer, Take(i, buff),
         buff.blk = call.blk, buff.pins = pool[i].pins, buff.lsn = pool[i].lsn,
         \/ pool[i].blk = call.blk
         \/ Hits(call.blk) = {} /\ pool[i].pins = 0
  PROVE  PoolInv'
<1>. USE DEF PoolInv
<1>. DEFINE t == call.tx
            b == call.blk
            n == mine[t][b].pins
<1>1. t \in Tx /\ b \in Block /\ b # None
  BY PinOf, BufferAssumption
<1>2. n \in 0..MaxPins /\ n + 1 \in 1..MaxPins
  BY <1>1, BufferAssumption DEF CallOK, PoolTypeOK, Entry
<1>3. mine[t][b].buf \in {0, i}
  <2>1. SUFFICES ASSUME mine[t][b].buf # 0 PROVE mine[t][b].buf = i
    OBVIOUS
  <2>2. mine[t][b].buf \in Buffers /\ pool[mine[t][b].buf].blk = b
    BY <1>1, <2>1 DEF PoolTypeOK, Entry, PinsMatchLists
  <2>3. Hits(b) # {}
    BY <2>2 DEF Hits
  <2>. QED
    BY <1>1, <2>2, <2>3 DEF OneBufferPerBlock
<1>. HIDE DEF n
<1>4. /\ pool' = [pool EXCEPT ![i] = [buff EXCEPT !.pins = buff.pins + 1]]
      /\ mine' = [mine EXCEPT ![t][b] = [buf |-> i, pins |-> n + 1]]
      /\ UNCHANGED <<disk, waiting, flushing, log, durable>> /\ call' = NoCall
  BY DEF Take, n
<1>. HIDE DEF t, b
<1>5. [buf |-> i, pins |-> n + 1] \in Entry
  BY <1>2 DEF Entry
<1>6. [buff EXCEPT !.pins = buff.pins + 1] \in Buffer
  BY DEF Buffer
<1>7. available' \in 0..NumBuffers /\ AvailableCount'
  <2>1. available' = IF pool[i].pins > 0 THEN available ELSE available - 1
    BY DEF Take
  <2>2. Free' = Free \ {i}
    BY <1>4, <1>6 DEF Free, Pinned, PoolTypeOK, Buffer
  <2>3. IsFiniteSet(Free) /\ Cardinality(Free) \in 0..NumBuffers
    BY FreeFinite
  <2>4. Cardinality(Free') = IF i \in Free THEN Cardinality(Free) - 1 ELSE Cardinality(Free)
    BY <2>2, <2>3, FS_RemoveElement
  <2>5. i \in Free <=> ~ (pool[i].pins > 0)
    BY DEF Free, Pinned
  <2>6. Cardinality(Free') \in Nat
    BY <2>2, <2>3, FS_RemoveElement, FS_CardinalityType
  <2>. QED
    BY <2>1, <2>3, <2>4, <2>5, <2>6, BufferAssumption DEF AvailableCount
<1>8. PoolTypeOK'
  BY <1>1, <1>4, <1>5, <1>6, <1>7 DEF PoolTypeOK
<1>9. LogOK'
  BY <1>4, <1>6 DEF LogOK, Log!LogTypeOK, PoolTypeOK
<1>10. CallOK' /\ FlushOK'
  <2>1. waiting[t] = None
    BY DEF CallOK, t
  <2>2. \A u \in Tx : waiting[u] # None => u # t
    BY <2>1
  <2>. QED
    BY <1>1, <1>4, <2>2 DEF CallOK, FlushOK, NoCall, PoolTypeOK
<1>11. OneBufferPerBlock'
  <2>1. \A j \in Buffers : j # i => pool[j].blk # b
    BY <1>1 DEF Hits, OneBufferPerBlock, b
  <2>2. pool'[i].blk = b /\ \A j \in Buffers : j # i => pool'[j] = pool[j]
    BY <1>4 DEF PoolTypeOK, Buffer, b
  <2>. QED
    BY <2>1, <2>2 DEF OneBufferPerBlock
<1>12. \A u \in Tx, c \in Block :
          mine'[u][c] = IF u = t /\ c = b THEN [buf |-> i, pins |-> n + 1] ELSE mine[u][c]
  BY <1>1, <1>4 DEF PoolTypeOK
<1>13. ASSUME NEW j \in Buffers
       PROVE  PinTokens(j)' = IF j = i THEN PinTokens(j) \cup {<<t, b, n + 1>>} ELSE PinTokens(j)
  <2>1. mine[t][b].buf = 0 => n = 0
    BY <1>1 DEF PinsMatchLists, n
  <2>. QED
    BY <1>1, <1>2, <1>3, <1>12, <2>1 DEF PinTokens, Buffers, n
<1>14. <<t, b, n + 1>> \notin PinTokens(i)
  BY <1>2 DEF PinTokens, n
<1>15. ASSUME NEW j \in Buffers
       PROVE  IsFiniteSet(PinTokens(j)') /\ pool'[j].pins = Cardinality(PinTokens(j)')
  <2>1. IsFiniteSet(PinTokens(j)) /\ pool[j].pins = Cardinality(PinTokens(j))
    BY DEF TokensFinite, PinsMatchLists
  <2>2. CASE j = i
    <3>1. pool'[i].pins = pool[i].pins + 1
      BY <1>4 DEF PoolTypeOK, Buffer
    <3>. QED
      BY <1>13, <1>14, <2>1, <2>2, <3>1, FS_AddElement
  <2>3. CASE j # i
    BY <1>4, <1>13, <2>1, <2>3 DEF PoolTypeOK
  <2>. QED
    BY <2>2, <2>3
<1>16. ASSUME NEW u \in Tx, NEW c \in Block
       PROVE  /\ mine'[u][c].buf = 0 <=> mine'[u][c].pins = 0
              /\ mine'[u][c].buf # 0 => pool'[mine'[u][c].buf].blk = c
  <2>1. CASE u = t /\ c = b
    BY <1>2, <1>4, <1>12, <2>1 DEF Buffers, PoolTypeOK, Buffer, b
  <2>2. CASE ~ (u = t /\ c = b)
    <3>1. mine'[u][c] = mine[u][c]
      BY <1>12, <2>2
    <3>2. /\ mine[u][c].buf = 0 <=> mine[u][c].pins = 0
          /\ mine[u][c].buf # 0 => pool[mine[u][c].buf].blk = c
      BY DEF PinsMatchLists
    <3>3. ASSUME mine[u][c].buf = i PROVE pool[i].blk = b
      BY <3>3, NoTokens DEF b
    <3>4. mine[u][c].buf # 0 => mine[u][c].buf \in Buffers
      BY DEF PoolTypeOK, Entry
    <3>. QED
      BY <1>4, <3>1, <3>2, <3>3, <3>4 DEF PoolTypeOK, Buffer, b
  <2>. QED
    BY <2>1, <2>2
<1>17. TokensFinite' /\ PinsMatchLists'
  BY <1>15, <1>16 DEF TokensFinite, PinsMatchLists
<1>. QED
  BY <1>7, <1>8, <1>9, <1>10, <1>11, <1>17

----------------------------------------------------------------------------
(* A list's buffers hold different blocks, so PinsOn reads the one entry   *)
(* of the list that names a buffer.                                        *)
LEMMA PinsOnEntry ==
  ASSUME PoolInv, NEW t \in Tx, NEW b \in Block, mine[t][b].buf # 0
  PROVE  PinsOn(t, mine[t][b].buf) = mine[t][b].pins
<1>1. \A c \in Block : mine[t][c].buf = mine[t][b].buf => c = b
  BY DEF PoolInv, PinsMatchLists
<1>. QED
  BY <1>1 DEF PinsOn

(* Taking all pins of a transaction off a buffer leaves those of others. *)
LEMMA DropCounts ==
  ASSUME PoolInv, NEW t \in Tx, NEW i \in Buffers
  PROVE  LET rest == {x \in PinTokens(i) : x[1] # t}
         IN  /\ IsFiniteSet(rest) /\ Cardinality(rest) \in Nat
             /\ PinsOn(t, i) \in Nat
             /\ Cardinality(rest) = pool[i].pins - PinsOn(t, i)
<1>. USE DEF PoolInv
<1>. DEFINE rest == {x \in PinTokens(i) : x[1] # t}
            gone == {x \in PinTokens(i) : x[1] = t}
            n == PinsOn(t, i)
<1>1. IsFiniteSet(PinTokens(i)) /\ pool[i].pins = Cardinality(PinTokens(i))
  BY DEF TokensFinite, PinsMatchLists
<1>2. IsFiniteSet(gone) /\ Cardinality(gone) = n /\ n \in Nat
  <2>1. CASE \E b \in Block : mine[t][b].buf = i
    <3>1. PICK b \in Block : mine[t][b].buf = i
      BY <2>1
    <3>2. n = mine[t][b].pins /\ n \in 0..MaxPins /\ n \in Nat
      <4>1. mine[t][b].buf # 0
        BY <3>1, BufferAssumption DEF Buffers
      <4>2. n = mine[t][b].pins
        BY <3>1, <4>1, PinsOnEntry
      <4>. QED
        BY <4>2, BufferAssumption DEF PoolTypeOK, Entry
    <3>3. \A c \in Block : mine[t][c].buf = i => c = b
      BY <3>1 DEF PinsMatchLists, Buffers
    <3>. HIDE DEF n
    <3>4. gone = {<<t, b, k>> : k \in 1..n}
      BY <3>1, <3>2, <3>3, BufferAssumption DEF PinTokens
    <3>. DEFINE f == [k \in 1..n |-> <<t, b, k>>]
    <3>5. f \in Bijection(1..n, gone)
      BY <3>4 DEF Bijection, Injection, Surjection, IsInjective
    <3>6. IsFiniteSet(1..n) /\ Cardinality(1..n) = n
      BY <3>2, UpToCard
    <3>7. ExistsBijection(1..n, gone)
      BY <3>5 DEF ExistsBijection
    <3>. HIDE DEF gone, f
    <3>. QED
      BY <3>2, <3>6, <3>7, FS_Bijection, BufferAssumption
  <2>2. CASE ~ \E b \in Block : mine[t][b].buf = i
    <3>1. n = 0 /\ gone = {}
      BY <2>2 DEF PinsOn, PinTokens
    <3>. QED
      BY <3>1, FS_EmptySet
  <2>. QED
    BY <2>1, <2>2
<1>3. rest = PinTokens(i) \ gone /\ PinTokens(i) \cap gone = gone
  OBVIOUS
<1>. HIDE DEF rest, gone, n
<1>4. IsFiniteSet(rest) /\ Cardinality(rest) = pool[i].pins - n
  <2>1. /\ IsFiniteSet(PinTokens(i) \ gone)
        /\ Cardinality(PinTokens(i) \ gone) =
             Cardinality(PinTokens(i)) - Cardinality(PinTokens(i) \cap gone)
    BY <1>1, FS_Difference
  <2>. QED
    BY <1>1, <1>2, <1>3, <2>1
<1>5. Cardinality(rest) \in Nat
  BY <1>4, FS_CardinalityType
<1>. QED
  BY <1>2, <1>4, <1>5 DEF rest, n

LEMMA DropPinsInv ==
  ASSUME PoolInv, NEW t \in Tx, Idle, waiting[t] = None, DropPins(t),
         UNCHANGED <<disk, waiting, call, flushing>>,
         Log!LogTypeOK', Len(log) <= Len(log')
  PROVE  PoolInv'
<1>. USE DEF PoolInv
<1>1. \A i \in Buffers : pool'[i] = [pool[i] EXCEPT !.pins = pool[i].pins - PinsOn(t, i)]
  BY DEF DropPins
<1>2. pool' \in [Buffers -> Buffer]
  <2>1. \A i \in Buffers : pool[i].pins - PinsOn(t, i) \in Nat
    BY DropCounts
  <2>2. ASSUME NEW i \in Buffers
        PROVE  [pool[i] EXCEPT !.pins = pool[i].pins - PinsOn(t, i)] \in Buffer
    <3>1. PICK m \in Nat : m = pool[i].pins - PinsOn(t, i)
      BY <2>1
    <3>2. PICK buff \in Buffer : buff = pool[i]
      BY DEF PoolTypeOK
    <3>3. [buff EXCEPT !.pins = m] \in Buffer
      BY DEF Buffer
    <3>. QED
      BY <3>1, <3>2, <3>3
  <2>. QED
    BY <2>2 DEF DropPins
<1>3. \A i \in Buffers : /\ pool'[i].blk = pool[i].blk
                         /\ pool'[i].lsn = pool[i].lsn
                         /\ pool'[i].pins = pool[i].pins - PinsOn(t, i)
  <2>1. ASSUME NEW buff \in Buffer, NEW n
        PROVE  LET new == [buff EXCEPT !.pins = n]
               IN  new.blk = buff.blk /\ new.lsn = buff.lsn /\ new.pins = n
    BY DEF Buffer
  <2>2. \A i \in Buffers : pool[i] \in Buffer
    BY DEF PoolTypeOK
  <2>. SUFFICES ASSUME NEW i \in Buffers
                PROVE  /\ pool'[i].blk = pool[i].blk
                       /\ pool'[i].lsn = pool[i].lsn
                       /\ pool'[i].pins = pool[i].pins - PinsOn(t, i)
    OBVIOUS
  <2>. DEFINE m == pool[i].pins - PinsOn(t, i)
  <2>3. pool'[i] = [pool[i] EXCEPT !.pins = m] /\ pool[i] \in Buffer
    BY <1>1, <2>2
  <2>. HIDE DEF m
  <2>4. pool'[i].blk = pool[i].blk /\ pool'[i].lsn = pool[i].lsn /\ pool'[i].pins = m
    BY <2>1, <2>3
  <2>. QED
    BY <2>4 DEF m
<1>4. mine' = [mine EXCEPT ![t] = [b \in Block |-> NoEntry]]
  BY DEF DropPins
<1>5. \A u \in Tx, b \in Block : mine'[u][b] = IF u = t THEN NoEntry ELSE mine[u][b]
  BY <1>4 DEF PoolTypeOK
<1>6. mine' \in [Tx -> [Block -> Entry]]
  <2>1. NoEntry \in Entry
    BY BufferAssumption DEF NoEntry, Entry
  <2>. QED
    BY <1>4, <2>1 DEF PoolTypeOK
<1>7. ASSUME NEW i \in Buffers
      PROVE  PinTokens(i)' = {x \in PinTokens(i) : x[1] # t}
  BY <1>5 DEF PinTokens, NoEntry, Buffers
<1>8. TokensFinite' /\ PinsMatchLists'
  <2>1. \A i \in Buffers : IsFiniteSet(PinTokens(i)') /\ pool'[i].pins = Cardinality(PinTokens(i)')
    BY <1>3, <1>7, DropCounts
  <2>2. ASSUME NEW u \in Tx, NEW b \in Block
        PROVE  /\ mine'[u][b].buf = 0 <=> mine'[u][b].pins = 0
               /\ mine'[u][b].buf # 0 => pool'[mine'[u][b].buf].blk = b
    <3>1. mine[u][b].buf # 0 => mine[u][b].buf \in Buffers
      BY DEF PoolTypeOK, Entry
    <3>. QED
      BY <1>3, <1>5, <3>1 DEF PinsMatchLists, NoEntry
  <2>. QED
    BY <2>1, <2>2 DEF TokensFinite, PinsMatchLists
<1>9. OneBufferPerBlock'
  BY <1>3 DEF OneBufferPerBlock
<1>10. AvailableCount' /\ available' \in 0..NumBuffers
  <2>. DEFINE Released == {i \in Buffers : PinsOn(t, i) > 0 /\ pool[i].pins = PinsOn(t, i)}
  <2>1. Free' = Free \cup Released
    <3>1. \A i \in Buffers : pool[i].pins \in Nat /\ PinsOn(t, i) \in Nat
                             /\ pool[i].pins - PinsOn(t, i) \in Nat
      BY DropCounts DEF PoolTypeOK, Buffer
    <3>2. ASSUME NEW i \in Buffers
          PROVE  ~ (pool'[i].pins > 0) <=> \/ ~ (pool[i].pins > 0)
                                           \/ PinsOn(t, i) > 0 /\ pool[i].pins = PinsOn(t, i)
      <4>1. PICK m \in Nat, n \in Nat : m = pool[i].pins /\ n = PinsOn(t, i)
        BY <3>1
      <4>2. m - n \in Nat /\ pool'[i].pins = m - n
        BY <1>3, <3>1, <4>1
      <4>. QED
        BY <4>1, <4>2
    <3>. QED
      BY <3>2, Zenon DEF Free, Pinned
  <2>2. Free \cap Released = {}
    BY DEF Free, Pinned
  <2>3. IsFiniteSet(Free) /\ Cardinality(Free) \in Nat
    BY FreeFinite, BufferAssumption
  <2>4. IsFiniteSet(Released)
    <3>1. Released \in SUBSET Buffers
      OBVIOUS
    <3>. HIDE DEF Released
    <3>. QED
      BY <3>1, BuffersFinite
  <2>5. available' = available + Cardinality(Released)
    BY DEF DropPins
  <2>. HIDE DEF Released
  <2>6. Cardinality(Released) \in Nat
    BY <2>4, FS_CardinalityType
  <2>7. Cardinality(Free \cup Released) = Cardinality(Free) + Cardinality(Released)
    <3>1. Cardinality(Free \cup Released) =
             Cardinality(Free) + Cardinality(Released) - Cardinality(Free \cap Released)
      BY <2>3, <2>4, FS_Union
    <3>2. Cardinality(Free \cap Released) = 0
      BY <2>2, FS_EmptySet
    <3>. QED
      BY <2>3, <2>6, <3>1, <3>2
  <2>8. Free' \in SUBSET Buffers
    BY DEF Free
  <2>9. Cardinality(Free') \in 0..NumBuffers
    BY <2>8, BuffersFinite
  <2>. QED
    BY <2>1, <2>5, <2>7, <2>9 DEF AvailableCount
<1>11. PoolTypeOK'
  BY <1>2, <1>6, <1>10 DEF PoolTypeOK
<1>12. LogOK'
  <2>1. \A i \in Buffers : pool[i].lsn \in Nat
    BY DEF PoolTypeOK, Buffer
  <2>2. Len(log) \in Nat /\ Len(log') \in Nat
    BY DEF LogOK, Log!LogTypeOK
  <2>. QED
    BY <1>3, <2>1, <2>2 DEF LogOK
<1>13. CallOK' /\ FlushOK'
  BY <1>5 DEF CallOK, FlushOK, Idle, NoCall, PoolTypeOK
<1>. QED
  BY <1>8, <1>9, <1>10, <1>11, <1>12, <1>13

(* One pin less, on the buffer the list names for the block. *)
LEMMA UnpinInv ==
  ASSUME PoolInv, NEW t \in Tx, NEW b \in Block, Unpin(t, b)
  PROVE  PoolInv'
<1>. USE DEF PoolInv
<1>. DEFINE i == mine[t][b].buf
            n == mine[t][b].pins
            entry == OneLess(mine[t][b])
            less == [pool[i] EXCEPT !.pins = pool[i].pins - 1]
<1>1. i \in Buffers /\ i # 0 /\ n \in 1..MaxPins /\ pool[i] \in Buffer
  <2>1. mine[t][b] \in Entry /\ mine[t][b].buf # 0
    BY DEF Unpin, PoolTypeOK
  <2>2. i \in Buffers /\ i # 0 /\ n \in 0..MaxPins /\ n # 0
    BY <2>1 DEF Entry, PinsMatchLists
  <2>. QED
    BY <2>2, BufferAssumption DEF PoolTypeOK
<1>2. <<t, b, n>> \in PinTokens(i)
  BY <1>1, BufferAssumption DEF PinTokens
<1>3. IsFiniteSet(PinTokens(i)) /\ Cardinality(PinTokens(i)) = pool[i].pins
  BY <1>1 DEF TokensFinite, PinsMatchLists
<1>4. Cardinality(PinTokens(i) \ {<<t, b, n>>}) = pool[i].pins - 1
  BY <1>2, <1>3, FS_RemoveElement
<1>5. /\ IsFiniteSet(PinTokens(i) \ {<<t, b, n>>})
      /\ pool[i].pins \in Nat \ {0} /\ pool[i].pins - 1 \in Nat
  <2>1. IsFiniteSet(PinTokens(i) \ {<<t, b, n>>})
    BY <1>3, FS_RemoveElement
  <2>2. pool[i].pins # 0
    BY <1>2, <1>3, FS_EmptySet
  <2>. QED
    BY <1>1, <2>1, <2>2 DEF Buffer
<1>6. /\ entry \in Entry
      /\ entry.pins = n - 1
      /\ entry.buf = IF n = 1 THEN 0 ELSE i
  <2>1. mine[t][b] \in Entry
    BY DEF PoolTypeOK
  <2>2. n - 1 \in 0..MaxPins
    BY <1>1, BufferAssumption
  <2>. QED
    BY <1>1, <2>1, <2>2, BufferAssumption DEF Entry, NoEntry, OneLess
<1>7. /\ less \in Buffer
      /\ less.pins = pool[i].pins - 1
      /\ less.blk = pool[i].blk
      /\ less.lsn = pool[i].lsn
  BY <1>1, <1>5 DEF Buffer
<1>8. /\ pool' = [pool EXCEPT ![i] = less]
      /\ mine' = [mine EXCEPT ![t][b] = entry]
      /\ UNCHANGED <<disk, waiting, call, flushing, log, durable>>
      /\ available' = IF pool[i].pins - 1 > 0 THEN available ELSE available + 1
  BY DEF Unpin, UnpinBuffer
<1>9. Idle
  BY DEF Unpin, Ready
<1>. HIDE DEF i, n, entry, less
<1>10. \A u \in Tx, c \in Block :
          mine'[u][c] = IF u = t /\ c = b THEN entry ELSE mine[u][c]
  BY <1>8 DEF PoolTypeOK
<1>11. \A j \in Buffers : pool'[j] = IF j = i THEN less ELSE pool[j]
  BY <1>8 DEF PoolTypeOK
<1>12. available' \in 0..NumBuffers /\ AvailableCount'
  <2>1. Free' = IF pool[i].pins - 1 > 0 THEN Free ELSE Free \cup {i}
    <3>1. \A j \in Buffers : pool[j].pins \in Nat
      BY DEF PoolTypeOK, Buffer
    <3>. QED
      BY <1>1, <1>5, <1>7, <1>11, <3>1 DEF Free, Pinned
  <2>2. i \notin Free
    BY <1>5 DEF Free, Pinned
  <2>3. IsFiniteSet(Free) /\ Cardinality(Free) \in 0..NumBuffers
    BY FreeFinite
  <2>4. Cardinality(Free') = available'
    BY <1>8, <2>1, <2>2, <2>3, FS_AddElement DEF AvailableCount
  <2>5. Cardinality(Free') \in 0..NumBuffers
    BY BuffersFinite DEF Free
  <2>. QED
    BY <2>4, <2>5 DEF AvailableCount
<1>13. PoolTypeOK'
  BY <1>1, <1>6, <1>7, <1>8, <1>12 DEF PoolTypeOK
<1>14. LogOK'
  BY <1>7, <1>8, <1>11 DEF LogOK, Log!LogTypeOK
<1>15. CallOK' /\ FlushOK'
  BY <1>8, <1>9, <1>10, <1>13 DEF CallOK, FlushOK, Idle, NoCall, PoolTypeOK, Unpin, Ready
<1>16. OneBufferPerBlock'
  BY <1>7, <1>11 DEF OneBufferPerBlock
<1>17. ASSUME NEW j \in Buffers
       PROVE  PinTokens(j)' = IF j = i THEN PinTokens(j) \ {<<t, b, n>>} ELSE PinTokens(j)
  <2>1. j # 0
    BY BufferAssumption DEF Buffers
  <2>2. n = mine[t][b].pins /\ i = mine[t][b].buf
    BY DEF n, i
  <2>. QED
    BY <1>1, <1>6, <1>10, <2>1, <2>2, BufferAssumption DEF PinTokens
<1>18. ASSUME NEW j \in Buffers
       PROVE  IsFiniteSet(PinTokens(j)') /\ pool'[j].pins = Cardinality(PinTokens(j)')
  BY <1>4, <1>5, <1>7, <1>11, <1>17 DEF TokensFinite, PinsMatchLists
<1>19. ASSUME NEW u \in Tx, NEW c \in Block
       PROVE  /\ mine'[u][c].buf = 0 <=> mine'[u][c].pins = 0
              /\ mine'[u][c].buf # 0 => pool'[mine'[u][c].buf].blk = c
  <2>1. \A j \in Buffers : pool'[j].blk = pool[j].blk
    BY <1>7, <1>11
  <2>2. mine[u][c].buf # 0 => mine[u][c].buf \in Buffers
    BY DEF PoolTypeOK, Entry
  <2>3. /\ mine[u][c].buf = 0 <=> mine[u][c].pins = 0
        /\ mine[u][c].buf # 0 => pool[mine[u][c].buf].blk = c
    BY DEF PinsMatchLists
  <2>4. CASE u = t /\ c = b
    BY <1>1, <1>6, <1>10, <2>1, <2>3, <2>4 DEF i
  <2>5. CASE ~ (u = t /\ c = b)
    BY <1>10, <2>1, <2>2, <2>3, <2>5
  <2>. QED
    BY <2>4, <2>5
<1>20. TokensFinite' /\ PinsMatchLists'
  BY <1>18, <1>19 DEF TokensFinite, PinsMatchLists
<1>. QED
  BY <1>12, <1>13, <1>14, <1>15, <1>16, <1>20

----------------------------------------------------------------------------
(* Steps that only move control: a call begins, ends, waits or gives up. *)
LEMMA ControlInv ==
  ASSUME PoolInv,
         UNCHANGED <<disk, pool, available, mine, flushing, log, durable>>,
         waiting' \in [Tx -> Block \cup {None}], call' \in Calls \cup {NoCall}, CallOK'
  PROVE  PoolInv'
<1>. USE DEF PoolInv
<1>1. PoolTypeOK' /\ LogOK' /\ FlushOK'
  BY DEF PoolTypeOK, LogOK, Log!LogTypeOK, FlushOK
<1>. QED
  BY <1>1, CountsKept

LEMMA StartInv ==
  PoolStart /\ disk \in [Block -> Contents \cup {Missing}] /\ Log!LogTypeOK => PoolInv
<1>. SUFFICES ASSUME PoolStart, disk \in [Block -> Contents \cup {Missing}], Log!LogTypeOK
              PROVE  PoolInv
  OBVIOUS
<1>. USE BufferAssumption DEF PoolStart
<1>1. ZeroPage \in Contents
  BY DEF ZeroPage, Contents
<1>2. PoolTypeOK
  <2>1. NewBuffer \in Buffer
    BY <1>1 DEF NewBuffer, Buffer
  <2>2. NoEntry \in Entry
    BY DEF NoEntry, Entry
  <2>3. pool \in [Buffers -> Buffer] /\ mine \in [Tx -> [Block -> Entry]]
    BY <2>1, <2>2 DEF EmptyPool, NoPins
  <2>4. disk \in [Block -> Contents \cup {Missing}]
    BY <1>1
  <2>. QED
    BY <2>3, <2>4 DEF PoolTypeOK, NoWaits
<1>3. LogOK
  BY DEF LogOK, Log!LogTypeOK, EmptyPool, NewBuffer
<1>4. CallOK /\ FlushOK
  BY DEF CallOK, FlushOK, NoCall, NoWaits
<1>5. OneBufferPerBlock
  BY DEF OneBufferPerBlock, EmptyPool, NewBuffer
<1>6. \A i \in Buffers : PinTokens(i) = {}
  BY DEF PinTokens, NoPins, NoEntry, Buffers
<1>7. TokensFinite /\ PinsMatchLists
  BY <1>6, FS_EmptySet DEF TokensFinite, PinsMatchLists, EmptyPool, NewBuffer, NoPins, NoEntry
<1>8. AvailableCount
  <2>1. Free = 1..NumBuffers
    BY DEF Free, Pinned, EmptyPool, NewBuffer, Buffers
  <2>. QED
    BY <2>1, UpToCard DEF AvailableCount
<1>. QED
  BY <1>2, <1>3, <1>4, <1>5, <1>7, <1>8 DEF PoolInv

LEMMA PoolInit_Inv == PoolInit => PoolInv
<1>. SUFFICES ASSUME PoolInit PROVE PoolInv
  OBVIOUS
<1>1. disk \in [Block -> Contents \cup {Missing}]
  BY BufferAssumption DEF PoolInit, ZeroPage, Contents
<1>2. Log!LogTypeOK
  BY DEF PoolInit, Log!LogInit, Log!LogTypeOK
<1>. QED
  BY <1>1, <1>2, StartInv DEF PoolInit

(* The log may grow, and more of it may reach the disk, under the pool. *)
LEMMA LogMovesInv ==
  ASSUME PoolInv, UNCHANGED <<disk, pool, available, mine, waiting, call, flushing>>,
         Log!LogTypeOK', Len(log) <= Len(log'), durable <= durable'
  PROVE  PoolInv'
<1>. USE DEF PoolInv
<1>1. PoolTypeOK' /\ CallOK'
  BY DEF PoolTypeOK, CallOK
<1>2. LogOK' /\ FlushOK'
  <2>1. \A i \in Buffers : pool[i].lsn \in Nat
    BY DEF PoolTypeOK, Buffer
  <2>2. Len(log) \in Nat /\ Len(log') \in Nat /\ durable \in Nat /\ durable' \in Nat
    BY DEF LogOK, Log!LogTypeOK
  <2>. QED
    BY <2>1, <2>2 DEF LogOK, FlushOK, PoolTypeOK
<1>3. OneBufferPerBlock' /\ TokensFinite' /\ PinsMatchLists' /\ AvailableCount'
  BY CountsKept
<1>. QED
  BY <1>1, <1>2, <1>3

(* The pool's own steps: each half of a flush, and the ends of a pin. *)
LEMMA PoolStep_Inv == PoolInv /\ PoolStep => PoolInv'
<1>. SUFFICES ASSUME PoolInv, PoolStep PROVE PoolInv'
  OBVIOUS
<1>. USE DEF PoolInv
<1>1. CASE WritePage
  BY <1>1, WritePageInv
<1>2. CASE PinHit
  <2>. DEFINE i == First(Hits(call.blk))
  <2>1. i \in Hits(call.blk)
    BY <1>2, FirstIn DEF PinHit, Hits
  <2>2. i \in Buffers /\ pool[i].blk = call.blk /\ pool[i] \in Buffer
    BY <2>1 DEF Hits, PoolTypeOK
  <2>3. call.op = "pin" /\ flushing = 0 /\ Take(i, pool[i])
    BY <1>2 DEF PinHit, Step
  <2>. HIDE DEF i
  <2>. QED
    BY <2>2, <2>3, TakeInv
<1>3. CASE PinEvict
  <2>1. First(Free) \in Buffers
    BY <1>3, FirstIn DEF PinEvict, Free
  <2>. QED
    BY <1>3, <2>1, FlushLogInv DEF PinEvict, PinMiss, Step
<1>4. CASE PinLoad
  <2>. DEFINE i == First(Free)
              buff == Assigned(pool[i], call.blk)
  <2>1. i \in Buffers /\ ~ (pool[i].pins > 0)
    <3>1. i \in Free
      BY <1>4, FirstIn DEF PinLoad, Free
    <3>. QED
      BY <3>1 DEF Free, Pinned
  <2>2. call.op = "pin" /\ flushing = 0 /\ Hits(call.blk) = {} /\ Take(i, buff)
    BY <1>4 DEF PinLoad, PinMiss, Step
  <2>3. call.blk \in Block /\ pool[i] \in Buffer /\ disk[call.blk] \in Contents \cup {Missing}
    BY <2>1, <2>2, PinOf DEF PoolTypeOK
  <2>4. pool[i].pins = 0
    BY <2>1, <2>3 DEF Buffer
  <2>5. buff \in Buffer /\ buff.blk = call.blk /\ buff.pins = 0 /\ buff.lsn = pool[i].lsn
    BY <2>3 DEF Assigned, Buffer
  <2>. HIDE DEF i, buff
  <2>. QED
    BY <2>1, <2>2, <2>4, <2>5, TakeInv
<1>5. CASE PinFull
  <2>1. call.op = "pin" /\ call.tx \in Tx /\ call.blk \in Block
    BY <1>5, PinOf DEF PinFull, PinMiss, Step
  <2>2. waiting' = [waiting EXCEPT ![call.tx] = call.blk] /\ call' = NoCall
        /\ UNCHANGED <<disk, pool, available, mine, flushing, log, durable>>
    BY <1>5 DEF PinFull
  <2>3. CallOK'
    BY <2>1, <2>2 DEF CallOK, NoCall, PoolTypeOK
  <2>. QED
    BY <2>1, <2>2, <2>3, ControlInv DEF PoolTypeOK
<1>6. CASE FlushAllStep
  <2>1. First(Dirty(call.tx)) \in Buffers
    BY <1>6, FirstIn DEF FlushAllStep, Dirty
  <2>. QED
    BY <1>6, <2>1, FlushLogInv DEF FlushAllStep, Step
<1>7. CASE FlushAllDone
  <2>1. CallOK'
    BY <1>7 DEF FlushAllDone, CallOK, NoCall
  <2>. QED
    BY <1>7, <2>1, ControlInv DEF FlushAllDone, PoolTypeOK
<1>. QED
  BY <1>1, <1>2, <1>3, <1>4, <1>5, <1>6, <1>7 DEF PoolStep

(* The calls of a client. *)
ClientStep(t) == \/ PinRetry(t) \/ PinTimeout(t) \/ UnpinAll(t) \/ FlushAllCall(t)
                 \/ \E b \in Block :
                      \/ PinCall(t, b) \/ Unpin(t, b)
                      \/ \E o \in Offset, v \in Value :
                           \/ WriteUnlogged(t, b, o, v)
                           \/ /\ Log!Latest < MaxLog
                              /\ \E r \in LogRecord : WriteLogged(t, b, o, v, r)

LEMMA ClientStep_Inv ==
  ASSUME PoolInv, NEW t \in Tx, ClientStep(t)
  PROVE  PoolInv'
<1>. USE DEF PoolInv
<1>1. CASE PinRetry(t)
  <2>1. call' \in Calls /\ waiting' \in [Tx -> Block \cup {None}]
    BY <1>1 DEF PinRetry, PoolTypeOK, Calls
  <2>2. CallOK'
    BY <1>1, BufferAssumption DEF PinRetry, CallOK, PoolTypeOK
  <2>. QED
    BY <1>1, <2>1, <2>2, ControlInv DEF PinRetry
<1>2. CASE PinTimeout(t)
  <2>1. call' \in Calls \cup {NoCall} /\ waiting' \in [Tx -> Block \cup {None}]
    BY <1>2 DEF PinTimeout, PoolTypeOK
  <2>2. CallOK'
    <3>1. call.op = "pin" => waiting'[call.tx] = None
      BY <1>2, PinOf DEF PinTimeout, CallOK, PoolTypeOK
    <3>. QED
      BY <1>2, <3>1 DEF PinTimeout, CallOK, PoolTypeOK
  <2>. QED
    BY <1>2, <2>1, <2>2, ControlInv DEF PinTimeout
<1>3. CASE UnpinAll(t)
  BY <1>3, DropPinsInv DEF UnpinAll, Ready, PoolInv, LogOK, Log!LogTypeOK
<1>4. CASE FlushAllCall(t)
  <2>1. call' \in Calls
    BY <1>4 DEF FlushAllCall, Calls
  <2>2. CallOK'
    BY <1>4 DEF FlushAllCall, CallOK
  <2>. QED
    BY <1>4, <2>1, <2>2, ControlInv DEF FlushAllCall, PoolTypeOK
<1>5. ASSUME NEW b \in Block, PinCall(t, b) PROVE PoolInv'
  <2>1. call' \in Calls
    BY <1>5 DEF PinCall, Calls
  <2>2. CallOK'
    BY <1>5 DEF PinCall, CallOK, Ready
  <2>. QED
    BY <1>5, <2>1, <2>2, ControlInv DEF PinCall, PoolTypeOK
<1>6. ASSUME NEW b \in Block, Unpin(t, b) PROVE PoolInv'
  BY <1>6, UnpinInv
<1>7. ASSUME NEW b \in Block, NEW o \in Offset, NEW v \in Value, WriteUnlogged(t, b, o, v)
      PROVE  PoolInv'
  <2>1. log \in Seq(LogRecord) /\ durable \in 0..Len(log) /\ Len(log) \in Nat
    BY DEF LogOK, Log!LogTypeOK
  <2>2. Idle /\ log' = log /\ durable' = durable
    BY <1>7 DEF WriteUnlogged, Ready
  <2>3. /\ log' \in Seq(LogRecord) /\ durable' \in 0..Len(log')
        /\ 0 \in Nat /\ 0 <= Len(log') /\ Len(log) <= Len(log')
    BY <2>1, <2>2
  <2>4. /\ pool' = [pool EXCEPT ![mine[t][b].buf] = Modified(@, t, o, v, 0)]
        /\ mine[t][b].buf # 0
        /\ UNCHANGED <<disk, available, mine, waiting, call, flushing>>
    BY <1>7 DEF WriteUnlogged
  <2>. QED
    BY <2>2, <2>3, <2>4, ModifyInv
<1>8. ASSUME NEW b \in Block, NEW o \in Offset, NEW v \in Value, NEW r \in LogRecord,
             WriteLogged(t, b, o, v, r)
      PROVE  PoolInv'
  <2>1. log \in Seq(LogRecord) /\ durable \in 0..Len(log) /\ Len(log) \in Nat
    BY DEF LogOK, Log!LogTypeOK
  <2>2. Idle /\ log' = Append(log, r) /\ durable' \in {durable, Len(log)}
    BY <1>8 DEF WriteLogged, Ready, Log!LogAppend, Log!Latest
  <2>3. log' \in Seq(LogRecord) /\ Len(log') = Len(log) + 1
    BY <2>1, <2>2
  <2>4. Log!Latest + 1 \in Nat /\ Log!Latest + 1 <= Len(log')
    BY <2>1, <2>3 DEF Log!Latest
  <2>5. durable' \in 0..Len(log') /\ Len(log) <= Len(log')
    BY <2>1, <2>2, <2>3
  <2>. QED
    BY <1>8, <2>2, <2>3, <2>4, <2>5, ModifyInv DEF WriteLogged
<1>. QED
  BY <1>1, <1>2, <1>3, <1>4, <1>5, <1>6, <1>7, <1>8 DEF ClientStep

LEMMA FileAppendInv ==
  ASSUME PoolInv, NEW b \in Block, FileAppend(b)
  PROVE  PoolInv'
<1>. USE DEF PoolInv
<1>1. ZeroPage \in Contents
  BY BufferAssumption DEF ZeroPage, Contents
<1>2. PoolTypeOK' /\ LogOK' /\ CallOK' /\ FlushOK'
  BY <1>1 DEF FileAppend, PoolTypeOK, LogOK, Log!LogTypeOK, CallOK, FlushOK
<1>. QED
  BY <1>2, CountsKept DEF FileAppend

LEMMA PoolNextSteps ==
  PoolNext <=> PoolStep \/ (\E b \in Block : FileAppend(b)) \/ (\E t \in Tx : ClientStep(t))
BY DEF PoolNext, ClientStep

(* Whatever calls of pin, unpin, unpin_all, set and flush_all interleave    *)
(* with evictions, sleeping pins and timeouts, every state of the pool      *)
(* satisfies the inductive invariant: types, LSNs within the log, pins of   *)
(* calls in progress below the bound, no block twice, pins counted.         *)
THEOREM PoolInvariant == PoolSpec => []PoolInv
<1>1. PoolInv /\ [PoolNext]_poolVars => PoolInv'
  <2>. SUFFICES ASSUME PoolInv, [PoolNext]_poolVars PROVE PoolInv'
    OBVIOUS
  <2>1. CASE PoolNext
    BY <2>1, PoolNextSteps, PoolStep_Inv, ClientStep_Inv, FileAppendInv
  <2>2. CASE UNCHANGED poolVars
    <3>1. PoolTypeOK' /\ LogOK' /\ CallOK' /\ FlushOK'
      BY <2>2 DEF PoolInv, poolVars, PoolTypeOK, LogOK, Log!LogTypeOK, CallOK, FlushOK
    <3>. QED
      BY <2>2, <3>1, CountsKept DEF PoolInv, poolVars
  <2>. QED
    BY <2>1, <2>2
<1>. QED
  BY <1>1, PoolInit_Inv, PTL DEF PoolSpec

(* A block is never in two buffers, for any pool and any clients. *)
THEOREM OneCopyOfABlock == PoolSpec => []OneBufferPerBlock
<1>1. PoolInv => OneBufferPerBlock
  BY DEF PoolInv
<1>. QED
  BY <1>1, PoolInvariant, PTL

(* Pin counts agree with the lists of all transactions, and the count of   *)
(* available buffers with the pin counts.                                  *)
THEOREM PinsAreCounted == PoolSpec => [](PoolTypeOK /\ PinsMatchLists /\ AvailableCount)
<1>1. PoolInv => PoolTypeOK /\ PinsMatchLists /\ AvailableCount
  BY DEF PoolInv
<1>. QED
  BY <1>1, PoolInvariant, PTL

(* The bookkeeping of the pool keeps its types: no pin count, neither of a *)
(* buffer nor in a transaction's list, and no count of available buffers   *)
(* ever falls below zero or exceeds what the pool holds.                   *)
THEOREM PoolKeepsTypes == PoolSpec => []PoolTypeOK
<1>1. PoolInv => PoolTypeOK
  BY DEF PoolInv
<1>. QED
  BY <1>1, PoolInvariant, PTL

(* num_available_ is the number of unpinned buffers in every state, also   *)
(* between the steps of a flush and while a pin sleeps or has failed.      *)
THEOREM FreeBuffersAreCounted == PoolSpec => []AvailableCount
<1>1. PoolInv => AvailableCount
  BY DEF PoolInv
<1>. QED
  BY <1>1, PoolInvariant, PTL

(* A step that changes a page on disk finds its buffer's record there:     *)
(* the step is the second half of a flush, of the only buffer that has     *)
(* the block, and the first half left FlushOK.                             *)
THEOREM PagesFollowLog == PoolSpec => WriteAheadLog
<1>. DEFINE Ahead == \A i \in Buffers, b \in Block :
                        pool[i].blk = b /\ disk[b] # Missing /\ disk'[b] # disk[b]
                          => pool[i].lsn <= durable
<1>1. PoolInv /\ [PoolNext]_poolVars => Ahead
  <2>. SUFFICES ASSUME PoolInv, [PoolNext]_poolVars,
                       NEW i \in Buffers, NEW b \in Block,
                       pool[i].blk = b, disk[b] # Missing, disk'[b] # disk[b]
                PROVE  pool[i].lsn <= durable
    OBVIOUS
  <2>1. WritePage
    <3>1. ~ UNCHANGED disk
      OBVIOUS
    <3>2. ASSUME NEW c \in Block, FileAppend(c) PROVE FALSE
      BY <3>2 DEF FileAppend, PoolInv, PoolTypeOK
    <3>3. ASSUME NEW t \in Tx, ClientStep(t) PROVE FALSE
      BY <3>1, <3>3 DEF ClientStep, PinRetry, PinTimeout, UnpinAll, FlushAllCall, PinCall,
                        Unpin, WriteUnlogged, WriteLogged
    <3>4. PoolStep
      BY <3>1, <3>2, <3>3, PoolNextSteps DEF poolVars
    <3>. QED
      BY <3>1, <3>4 DEF PoolStep, PinHit, PinEvict, PinLoad, PinFull, FlushAllStep,
                        FlushAllDone, Take, FlushLog
  <2>2. flushing \in Buffers /\ pool[flushing].blk = b
    BY <2>1, BufferAssumption DEF WritePage, PoolInv, PoolTypeOK
  <2>3. flushing = i
    BY <2>2, BufferAssumption DEF PoolInv, OneBufferPerBlock
  <2>. QED
    BY <2>1, <2>3 DEF WritePage, PoolInv, FlushOK
<1>. QED
  BY <1>1, PoolInvariant, PTL DEF PoolSpec, WriteAheadLog

----------------------------------------------------------------------------
(* The simulation of the page store.  It needs that clients pin no block   *)
(* past the end of its file; then an unmodified buffer holds what is on    *)
(* disk, and to load or evict it shows nothing.                            *)
CleanOK ==
    /\ \A i \in Buffers : pool[i].blk # None =>
          /\ disk[pool[i].blk] # Missing
          /\ pool[i].txnum = None => pool[i].contents = disk[pool[i].blk]
    /\ call.op = "pin" => disk[call.blk] # Missing
    /\ \A t \in Tx : waiting[t] # None => disk[waiting[t]] # Missing

StoreInv == PoolInv /\ CleanOK

ViewIs == /\ View \in [Block -> Contents \cup {Missing}]
          /\ \A b \in Block :
               /\ (\A i \in Buffers : pool[i].blk # b) => View[b] = disk[b]
               /\ \A i \in Buffers : pool[i].blk = b => View[b] = pool[i].contents

(* The buffer that has a block is the one View finds. *)
LEMMA ViewOf == PoolInv => ViewIs
<1>. SUFFICES ASSUME PoolInv PROVE ViewIs
  OBVIOUS
<1>. USE DEF PoolInv
<1>1. ASSUME NEW b \in Block
      PROVE  /\ View[b] \in Contents \cup {Missing}
             /\ (\A i \in Buffers : pool[i].blk # b) => View[b] = disk[b]
             /\ \A i \in Buffers : pool[i].blk = b => View[b] = pool[i].contents
  <2>1. CASE Hits(b) = {}
    <3>1. View[b] = disk[b] /\ \A i \in Buffers : pool[i].blk # b
      BY <2>1 DEF View, Hits
    <3>. QED
      BY <3>1 DEF PoolTypeOK
  <2>2. CASE Hits(b) # {}
    <3>1. First(Hits(b)) \in Buffers /\ pool[First(Hits(b))].blk = b
      <4>1. First(Hits(b)) \in Hits(b)
        BY <2>2, FirstIn DEF Hits
      <4>. QED
        BY <4>1 DEF Hits
    <3>2. View[b] = pool[First(Hits(b))].contents
      BY <2>2 DEF View
    <3>3. \A i \in Buffers : pool[i].blk = b => i = First(Hits(b))
      BY <3>1, BufferAssumption DEF OneBufferPerBlock
    <3>. HIDE DEF First
    <3>. QED
      BY <3>1, <3>2, <3>3 DEF PoolTypeOK, Buffer
  <2>. QED
    BY <2>1, <2>2
<1>. QED
  BY <1>1 DEF ViewIs, View

(* Nothing a client can see changes with the pages and buffers' contents   *)
(* as they were.                                                           *)
LEMMA ViewKept ==
  ASSUME ViewIs, ViewIs', UNCHANGED disk,
         \A i \in Buffers : /\ pool'[i].blk = pool[i].blk
                            /\ pool'[i].contents = pool[i].contents
  PROVE  View' = View
<1>1. ASSUME NEW b \in Block PROVE View'[b] = View[b]
  <2>1. CASE \E i \in Buffers : pool[i].blk = b
    BY <2>1 DEF ViewIs
  <2>2. CASE \A i \in Buffers : pool[i].blk # b
    BY <2>2 DEF ViewIs
  <2>. QED
    BY <2>1, <2>2
<1>. QED
  BY <1>1 DEF ViewIs

LEMMA CleanKept ==
  ASSUME CleanOK, UNCHANGED <<disk, call, waiting>>,
         \A i \in Buffers : /\ pool'[i].blk = pool[i].blk
                            /\ pool'[i].contents = pool[i].contents
                            /\ pool'[i].txnum = pool[i].txnum
  PROVE  CleanOK'
BY DEF CleanOK

(* What each of the pool's steps does to a client's view: nothing. *)
LEMMA PoolStep_View ==
  ASSUME ~ CanPinMissing, StoreInv, PoolInv', ViewIs, ViewIs', PoolStep
  PROVE  CleanOK' /\ View' = View
<1>. USE DEF StoreInv
<1>1. CASE WritePage
  <2>. DEFINE f == flushing
  <2>1. f \in Buffers /\ pool[f] \in Buffer /\ UNCHANGED <<call, waiting>>
    BY <1>1 DEF WritePage, PoolInv, PoolTypeOK
  <2>2. \A i \in Buffers : /\ pool'[i].blk = pool[i].blk
                           /\ pool'[i].contents = pool[i].contents
                           /\ i # f => pool'[i].txnum = pool[i].txnum
    BY <1>1 DEF WritePage, PoolInv, PoolTypeOK, Buffer
  <2>3. disk' \in [Block -> Contents \cup {Missing}] /\ disk \in [Block -> Contents \cup {Missing}]
    BY DEF PoolInv, PoolTypeOK
  <2>4. \A b \in Block : disk'[b] = IF b = pool[f].blk THEN pool[f].contents ELSE disk[b]
    BY <1>1, <2>3 DEF WritePage
  <2>. HIDE DEF f
  <2>5. pool[f].contents # Missing
    BY <2>1, BufferAssumption DEF Buffer, Contents
  <2>6. \A i \in Buffers : pool[i].blk # None /\ pool[i].blk = pool[f].blk => i = f
    BY <2>1 DEF PoolInv, OneBufferPerBlock
  <2>7. \A i \in Buffers : pool[i].blk # None => pool[i].blk \in Block
    BY DEF PoolInv, PoolTypeOK, Buffer
  <2>8. CleanOK'
    <3>1. \A i \in Buffers : pool[i].blk # None =>
             /\ disk'[pool[i].blk] # Missing
             /\ pool'[i].txnum = None => pool[i].contents = disk'[pool[i].blk]
      BY <2>2, <2>4, <2>5, <2>6, <2>7 DEF CleanOK
    <3>2. call.op = "pin" => disk'[call.blk] # Missing
      BY <2>4, <2>5, PinOf DEF CleanOK, PoolInv
    <3>3. \A t \in Tx : waiting[t] # None => disk'[waiting[t]] # Missing
      BY <2>4, <2>5 DEF CleanOK, PoolInv, PoolTypeOK
    <3>. QED
      BY <2>1, <2>2, <3>1, <3>2, <3>3 DEF CleanOK
  <2>9. ASSUME NEW b \in Block PROVE View'[b] = View[b]
    <3>1. CASE \E i \in Buffers : pool[i].blk = b
      BY <2>2, <3>1 DEF ViewIs
    <3>2. CASE \A i \in Buffers : pool[i].blk # b
      BY <2>1, <2>2, <2>4, <3>2 DEF ViewIs
    <3>. QED
      BY <3>1, <3>2
  <2>. QED
    BY <2>8, <2>9 DEF ViewIs
<1>2. CASE PinHit
  <2>. DEFINE h == First(Hits(call.blk))
  <2>1. h \in Buffers /\ pool[h] \in Buffer
    <3>1. h \in Hits(call.blk)
      BY <1>2, FirstIn DEF PinHit, Hits
    <3>. QED
      BY <3>1 DEF Hits, PoolInv, PoolTypeOK
  <2>2. /\ pool' = [pool EXCEPT ![h] = [pool[h] EXCEPT !.pins = pool[h].pins + 1]]
        /\ UNCHANGED <<disk, waiting>> /\ call' = NoCall
    BY <1>2 DEF PinHit, Take
  <2>. HIDE DEF h
  <2>3. \A i \in Buffers : /\ pool'[i].blk = pool[i].blk
                           /\ pool'[i].contents = pool[i].contents
                           /\ pool'[i].txnum = pool[i].txnum
    BY <2>1, <2>2 DEF PoolInv, PoolTypeOK, Buffer
  <2>. QED
    BY <2>2, <2>3, ViewKept DEF CleanOK, NoCall
<1>3. CASE PinEvict \/ FlushAllStep
  <2>1. UNCHANGED <<disk, pool, waiting, call>>
    BY <1>3 DEF PinEvict, FlushAllStep, FlushLog
  <2>. QED
    BY <2>1, ViewKept, CleanKept
<1>4. CASE PinLoad
  <2>. DEFINE h == First(Free)
              b == call.blk
              buff == Assigned(pool[h], b)
  <2>1. h \in Buffers /\ pool[h] \in Buffer /\ pool[h].txnum = None
    <3>1. h \in Free
      BY <1>4, FirstIn DEF PinLoad, Free
    <3>. QED
      BY <1>4, <3>1 DEF Free, PinLoad, PoolInv, PoolTypeOK
  <2>2. b \in Block /\ b # None /\ disk[b] # Missing /\ \A i \in Buffers : pool[i].blk # b
    BY <1>4, PinOf, BufferAssumption DEF PinLoad, PinMiss, Step, Hits, CleanOK, PoolInv
  <2>3. /\ pool' = [pool EXCEPT ![h] = [buff EXCEPT !.pins = buff.pins + 1]]
        /\ UNCHANGED <<disk, waiting>> /\ call' = NoCall
    BY <1>4 DEF PinLoad, Take
  <2>4. buff \in Buffer /\ buff.blk = b /\ buff.contents = disk[b]
    BY <2>1, <2>2 DEF Assigned, Buffer, PoolInv, PoolTypeOK
  <2>. HIDE DEF h, b, buff
  <2>5. pool'[h].blk = b /\ pool'[h].contents = disk[b]
        /\ \A i \in Buffers : i # h => pool'[i] = pool[i]
    BY <2>1, <2>3, <2>4 DEF PoolInv, PoolTypeOK, Buffer
  <2>6. CleanOK'
    BY <2>2, <2>3, <2>5 DEF CleanOK, NoCall
  <2>7. ASSUME NEW c \in Block PROVE View'[c] = View[c]
    <3>1. CASE c = b
      BY <2>1, <2>2, <2>5, <3>1 DEF ViewIs
    <3>2. CASE c # b /\ pool[h].blk = c
      <4>1. \A i \in Buffers : pool'[i].blk # c
        BY <2>1, <2>5, <3>2, BufferAssumption DEF PoolInv, OneBufferPerBlock
      <4>2. pool[h].contents = disk[c]
        BY <2>1, <3>2, BufferAssumption DEF CleanOK
      <4>. QED
        BY <2>1, <2>3, <3>2, <4>1, <4>2 DEF ViewIs
    <3>3. CASE c # b /\ pool[h].blk # c /\ \E i \in Buffers : pool[i].blk = c
      BY <2>5, <3>3 DEF ViewIs
    <3>4. CASE c # b /\ \A i \in Buffers : pool[i].blk # c
      BY <2>3, <2>5, <3>4 DEF ViewIs
    <3>. QED
      BY <3>1, <3>2, <3>3, <3>4
  <2>. QED
    BY <2>6, <2>7 DEF ViewIs
<1>5. CASE PinFull
  <2>1. call.tx \in Tx /\ call.blk \in Block /\ disk[call.blk] # Missing
    BY <1>5, PinOf DEF PinFull, PinMiss, Step, CleanOK, PoolInv
  <2>2. UNCHANGED <<disk, pool>> /\ call' = NoCall
        /\ \A t \in Tx : waiting'[t] = IF t = call.tx THEN call.blk ELSE waiting[t]
    BY <1>5 DEF PinFull, PoolInv, PoolTypeOK
  <2>. QED
    BY <2>1, <2>2, ViewKept DEF CleanOK, NoCall
<1>6. CASE FlushAllDone
  <2>1. UNCHANGED <<disk, pool, waiting>> /\ call' = NoCall
    BY <1>6 DEF FlushAllDone
  <2>. QED
    BY <2>1, ViewKept DEF CleanOK, NoCall
<1>. QED
  BY <1>1, <1>2, <1>3, <1>4, <1>5, <1>6 DEF PoolStep

(* A change of a pinned page is a write of the page store. *)
LEMMA ModifyView ==
  ASSUME StoreInv, PoolInv', ViewIs, ViewIs', NEW t \in Tx, NEW b \in Block,
         NEW o \in Offset, NEW v \in Value, NEW lsn \in Nat, mine[t][b].buf # 0,
         pool' = [pool EXCEPT ![mine[t][b].buf] = Modified(@, t, o, v, lsn)],
         UNCHANGED <<disk, call, waiting>>
  PROVE  CleanOK' /\ Store!StoreWrite(b, o, v)
<1>. USE DEF StoreInv
<1>. DEFINE i == mine[t][b].buf
            new == Modified(pool[i], t, o, v, lsn)
<1>1. i \in Buffers /\ pool[i] \in Buffer /\ pool[i].blk = b
  BY DEF PoolInv, PoolTypeOK, Entry, PinsMatchLists
<1>2. new.blk = b /\ new.txnum = t /\ new.contents = [pool[i].contents EXCEPT ![o] = v]
  BY <1>1 DEF Modified
<1>3. pool' = [pool EXCEPT ![i] = new]
  OBVIOUS
<1>. HIDE DEF i, new
<1>4. pool'[i] = new /\ \A j \in Buffers : j # i => pool'[j] = pool[j]
  BY <1>1, <1>3 DEF PoolInv, PoolTypeOK
<1>5. CleanOK'
  BY <1>1, <1>2, <1>4, BufferAssumption DEF CleanOK
<1>6. View[b] = pool[i].contents /\ View'[b] = new.contents
  BY <1>1, <1>2, <1>4 DEF ViewIs
<1>7. View[b] # Missing
  BY <1>1, <1>6, BufferAssumption DEF Buffer, Contents
<1>8. ASSUME NEW c \in Block, c # b PROVE View'[c] = View[c]
  <2>1. CASE \E j \in Buffers : pool[j].blk = c
    <3>1. PICK j \in Buffers : pool[j].blk = c
      BY <2>1
    <3>2. j # i
      BY <1>1, <1>8, <3>1
    <3>. QED
      BY <1>4, <3>1, <3>2 DEF ViewIs
  <2>2. CASE \A j \in Buffers : pool[j].blk # c
    BY <1>1, <1>2, <1>4, <1>8, <2>2 DEF ViewIs
  <2>. QED
    BY <2>1, <2>2
<1>9. View' = [View EXCEPT ![b] = [View[b] EXCEPT ![o] = v]]
  BY <1>2, <1>6, <1>8 DEF ViewIs
<1>. QED
  BY <1>5, <1>7, <1>9 DEF Store!StoreWrite

(* Clients change what they see by a write of one location, and nothing    *)
(* else they call does.                                                    *)
LEMMA ClientStep_View ==
  ASSUME ~ CanPinMissing, StoreInv, PoolInv', ViewIs, ViewIs', NEW t \in Tx, ClientStep(t)
  PROVE  /\ CleanOK'
         /\ \/ View' = View
            \/ /\ Idle /\ Idle'
               /\ \E b \in Block, o \in Offset, v \in Value : Store!StoreWrite(b, o, v)
<1>. USE DEF StoreInv
<1>1. CASE PinRetry(t)
  <2>1. UNCHANGED <<disk, pool>> /\ call' = [op |-> "pin", tx |-> t, blk |-> waiting[t]]
        /\ waiting' = [waiting EXCEPT ![t] = None] /\ waiting[t] # None
    BY <1>1 DEF PinRetry
  <2>. QED
    BY <2>1, ViewKept DEF CleanOK, PoolInv, PoolTypeOK
<1>2. CASE PinTimeout(t)
  <2>1. UNCHANGED <<disk, pool, call>> /\ waiting' = [waiting EXCEPT ![t] = None]
    BY <1>2 DEF PinTimeout
  <2>. QED
    BY <2>1, ViewKept DEF CleanOK, PoolInv, PoolTypeOK
<1>3. CASE UnpinAll(t)
  <2>1. \A i \in Buffers : /\ pool'[i].blk = pool[i].blk
                           /\ pool'[i].contents = pool[i].contents
                           /\ pool'[i].txnum = pool[i].txnum
    <3>1. ASSUME NEW buff \in Buffer, NEW n
          PROVE  LET new == [buff EXCEPT !.pins = n]
                 IN  new.blk = buff.blk /\ new.contents = buff.contents /\ new.txnum = buff.txnum
      BY DEF Buffer
    <3>. SUFFICES ASSUME NEW i \in Buffers
                  PROVE  /\ pool'[i].blk = pool[i].blk
                         /\ pool'[i].contents = pool[i].contents
                         /\ pool'[i].txnum = pool[i].txnum
      OBVIOUS
    <3>. DEFINE m == pool[i].pins - PinsOn(t, i)
    <3>2. pool'[i] = [pool[i] EXCEPT !.pins = m] /\ pool[i] \in Buffer
      BY <1>3 DEF UnpinAll, DropPins, PoolInv, PoolTypeOK
    <3>. HIDE DEF m
    <3>. QED
      BY <3>1, <3>2
  <2>. QED
    BY <1>3, <2>1, ViewKept, CleanKept DEF UnpinAll
<1>4. CASE FlushAllCall(t)
  BY <1>4, ViewKept DEF FlushAllCall, CleanOK
<1>5. ASSUME NEW b \in Block, PinCall(t, b) PROVE CleanOK' /\ View' = View
  BY <1>5, ViewKept DEF PinCall, CleanOK
<1>6. ASSUME NEW b \in Block, Unpin(t, b) PROVE CleanOK' /\ View' = View
  <2>. DEFINE i == mine[t][b].buf
  <2>1. i \in Buffers /\ pool' = [pool EXCEPT ![i] = [pool[i] EXCEPT !.pins = pool[i].pins - 1]]
    BY <1>6 DEF Unpin, UnpinBuffer, PoolInv, PoolTypeOK, Entry
  <2>. HIDE DEF i
  <2>2. \A j \in Buffers : /\ pool'[j].blk = pool[j].blk
                           /\ pool'[j].contents = pool[j].contents
                           /\ pool'[j].txnum = pool[j].txnum
    BY <2>1 DEF PoolInv, PoolTypeOK, Buffer
  <2>. QED
    BY <1>6, <2>2, ViewKept, CleanKept DEF Unpin
<1>7. ASSUME NEW b \in Block, NEW o \in Offset, NEW v \in Value,
             \/ WriteUnlogged(t, b, o, v)
             \/ \E r \in LogRecord : WriteLogged(t, b, o, v, r)
      PROVE  CleanOK' /\ Idle /\ Idle' /\ Store!StoreWrite(b, o, v)
  <2>1. Idle /\ mine[t][b].buf # 0 /\ UNCHANGED <<disk, call, waiting, flushing>>
    BY <1>7 DEF WriteUnlogged, WriteLogged, Ready
  <2>2. \E lsn \in Nat :
            pool' = [pool EXCEPT ![mine[t][b].buf] = Modified(@, t, o, v, lsn)]
    <3>1. Log!Latest + 1 \in Nat
      BY DEF Log!Latest, PoolInv, LogOK, Log!LogTypeOK
    <3>. QED
      BY <1>7, <3>1 DEF WriteUnlogged, WriteLogged
  <2>3. CleanOK' /\ Store!StoreWrite(b, o, v)
    BY <2>1, <2>2, ModifyView
  <2>. QED
    BY <2>1, <2>3 DEF Idle
<1>. QED
  BY <1>1, <1>2, <1>3, <1>4, <1>5, <1>6, <1>7 DEF ClientStep

(* A file grows by a block that no buffer holds. *)
LEMMA FileAppend_View ==
  ASSUME StoreInv, PoolInv', ViewIs, ViewIs', NEW b \in Block, FileAppend(b)
  PROVE  CleanOK' /\ Store!StoreAppend(b)
<1>. USE DEF StoreInv
<1>1. /\ disk[b] = Missing /\ UNCHANGED <<pool, call, waiting>>
      /\ \A c \in Block : disk'[c] = IF c = b THEN ZeroPage ELSE disk[c]
  BY DEF FileAppend, PoolInv, PoolTypeOK
<1>2. ZeroPage # Missing
  BY BufferAssumption DEF ZeroPage, Contents
<1>3. \A i \in Buffers : pool[i].blk # None => pool[i].blk \in Block \ {b}
  BY <1>1 DEF CleanOK, PoolInv, PoolTypeOK, Buffer
<1>4. CleanOK'
  <2>1. call.op = "pin" => disk'[call.blk] # Missing
    BY <1>1, PinOf DEF CleanOK, PoolInv
  <2>2. \A t \in Tx : waiting[t] # None => disk'[waiting[t]] # Missing
    BY <1>1, <1>2 DEF CleanOK, PoolInv, PoolTypeOK
  <2>. QED
    BY <1>1, <1>3, <2>1, <2>2 DEF CleanOK
<1>5. \A i \in Buffers : pool[i].blk # b
  BY <1>3, BufferAssumption
<1>6. View[b] = Missing /\ View'[b] = ZeroPage
  BY <1>1, <1>5 DEF ViewIs
<1>7. ASSUME NEW c \in Block, c # b PROVE View'[c] = View[c]
  <2>1. CASE \E j \in Buffers : pool[j].blk = c
    BY <1>1, <2>1 DEF ViewIs
  <2>2. CASE \A j \in Buffers : pool[j].blk # c
    BY <1>1, <1>7, <2>2 DEF ViewIs
  <2>. QED
    BY <2>1, <2>2
<1>8. View' = [View EXCEPT ![b] = ZeroPage]
  BY <1>6, <1>7 DEF ViewIs
<1>. QED
  BY <1>4, <1>6, <1>8 DEF Store!StoreAppend, Store!ZeroPage, ZeroPage

(* A process that starts finds the pool empty and calls nothing. *)
LEMMA StartClean == PoolStart => CleanOK
BY DEF PoolStart, CleanOK, EmptyPool, NewBuffer, NoCall, NoWaits

(* Pages, and what they need of the log, are as they were. *)
SameBuffers == \A i \in Buffers : /\ pool'[i].blk = pool[i].blk
                                  /\ pool'[i].contents = pool[i].contents
                                  /\ pool'[i].txnum = pool[i].txnum
                                  /\ pool'[i].lsn = pool[i].lsn

(* To give back pins moves no page. *)
LEMMA FewerPins ==
  ASSUME PoolTypeOK, NEW m \in [Buffers -> Int],
         pool' = [i \in Buffers |-> [pool[i] EXCEPT !.pins = m[i]]]
  PROVE  SameBuffers
<1>1. ASSUME NEW i \in Buffers
      PROVE  /\ pool'[i].blk = pool[i].blk
             /\ pool'[i].contents = pool[i].contents
             /\ pool'[i].txnum = pool[i].txnum
             /\ pool'[i].lsn = pool[i].lsn
  <2>1. PICK buff \in Buffer : buff = pool[i]
    BY DEF PoolTypeOK
  <2>2. PICK n : n = m[i]
    OBVIOUS
  <2>3. pool'[i] = [buff EXCEPT !.pins = n]
    BY <2>1, <2>2
  <2>4. LET new == [buff EXCEPT !.pins = n]
        IN  /\ new.blk = buff.blk /\ new.contents = buff.contents
            /\ new.txnum = buff.txnum /\ new.lsn = buff.lsn
    BY DEF Buffer
  <2>. QED
    BY <2>1, <2>3, <2>4
<1>. QED
  BY <1>1 DEF SameBuffers

LEMMA DropPinsFrame ==
  ASSUME PoolInv, NEW t \in Tx, DropPins(t)
  PROVE  SameBuffers
<1>1. PICK m : m = [i \in Buffers |-> pool[i].pins - PinsOn(t, i)]
  OBVIOUS
<1>2. m \in [Buffers -> Int]
  <2>1. \A i \in Buffers : PinsOn(t, i) \in Nat
    BY DropCounts
  <2>2. \A i \in Buffers : pool[i].pins \in Nat
    BY DEF PoolInv, PoolTypeOK, Buffer
  <2>3. \A i \in Buffers : pool[i].pins - PinsOn(t, i) \in Int
    BY <2>1, <2>2
  <2>. QED
    BY <1>1, <2>3
<1>3. pool' = [i \in Buffers |-> [pool[i] EXCEPT !.pins = m[i]]]
  BY <1>1 DEF DropPins
<1>. QED
  BY <1>2, <1>3, FewerPins DEF PoolInv

LEMMA UnpinFrame ==
  ASSUME PoolInv, NEW t \in Tx, NEW b \in Block, Unpin(t, b)
  PROVE  SameBuffers
<1>. DEFINE i == mine[t][b].buf
<1>1. i \in Buffers /\ pool' = [pool EXCEPT ![i] = [pool[i] EXCEPT !.pins = pool[i].pins - 1]]
  BY DEF Unpin, UnpinBuffer, PoolInv, PoolTypeOK, Entry
<1>. HIDE DEF i
<1>. QED
  BY <1>1 DEF SameBuffers, PoolInv, PoolTypeOK, Buffer

(* What the pool's own steps do to changes on their way to the disk: a     *)
(* dirty buffer stays as it is until its page is written, which is after   *)
(* its last record, and a page that changes on disk becomes what clients   *)
(* see in it.                                                              *)
Written(b) == disk'[b] = View[b] /\ \A i \in Buffers : pool[i].blk = b => pool[i].lsn <= durable

LEMMA PoolStep_Frame ==
  ASSUME StoreInv, ViewIs, PoolStep
  PROVE  /\ log' = log /\ durable <= durable'
         /\ \A i \in Buffers : pool'[i].txnum # None =>
               /\ pool'[i].blk = pool[i].blk
               /\ pool'[i].txnum = pool[i].txnum
               /\ pool'[i].lsn = pool[i].lsn
         /\ \A i \in Buffers : pool[i].txnum # None /\ pool[i].lsn > durable =>
               pool'[i].txnum # None
         /\ \A b \in Block : disk'[b] = disk[b] \/ Written(b)
<1>. USE DEF StoreInv, PoolInv
<1>1. durable \in Nat /\ Len(log) \in Nat /\ durable <= Len(log)
  BY DEF LogOK, Log!LogTypeOK
<1>2. CASE WritePage
  <2>. DEFINE f == flushing
  <2>1. f \in Buffers /\ pool[f] \in Buffer /\ pool[f].lsn <= durable /\ UNCHANGED <<log, durable>>
    BY <1>2 DEF WritePage, PoolTypeOK, FlushOK
  <2>2. \A i \in Buffers : IF i = f THEN pool'[i].txnum = None ELSE pool'[i] = pool[i]
    BY <1>2 DEF WritePage, PoolTypeOK, Buffer
  <2>3. \A b \in Block : disk'[b] = IF b = pool[f].blk THEN pool[f].contents ELSE disk[b]
    BY <1>2 DEF WritePage, PoolTypeOK
  <2>. HIDE DEF f
  <2>4. ASSUME NEW b \in Block, b = pool[f].blk PROVE Written(b)
    <3>1. \A i \in Buffers : pool[i].blk = b => i = f
      BY <2>1, <2>4, BufferAssumption DEF OneBufferPerBlock
    <3>. QED
      BY <2>1, <2>3, <2>4, <3>1 DEF Written, ViewIs
  <2>5. \A i \in Buffers : pool[i].lsn \in Nat
    BY DEF PoolTypeOK, Buffer
  <2>. QED
    BY <1>1, <2>1, <2>2, <2>3, <2>4, <2>5
<1>3. ASSUME NEW i \in Buffers, NEW buff \in Buffer, Take(i, buff),
             \/ buff = pool[i]
             \/ pool[i].txnum = None /\ buff.txnum = None
      PROVE  /\ UNCHANGED <<log, durable, disk>>
             /\ \A j \in Buffers : pool'[j].txnum # None =>
                   /\ pool'[j].blk = pool[j].blk
                   /\ pool'[j].txnum = pool[j].txnum
                   /\ pool'[j].lsn = pool[j].lsn
             /\ \A j \in Buffers : pool[j].txnum # None => pool'[j].txnum # None
  <2>1. PICK n : n = buff.pins + 1
    OBVIOUS
  <2>2. PICK new : new = [buff EXCEPT !.pins = n]
    OBVIOUS
  <2>3. new.blk = buff.blk /\ new.txnum = buff.txnum /\ new.lsn = buff.lsn
    BY <2>2 DEF Buffer
  <2>4. pool' = [pool EXCEPT ![i] = new] /\ UNCHANGED <<log, durable, disk>>
    BY <1>3, <2>1, <2>2 DEF Take
  <2>5. \A j \in Buffers : pool'[j] = IF j = i THEN new ELSE pool[j]
    BY <2>4 DEF PoolTypeOK
  <2>. QED
    BY <1>3, <2>3, <2>4, <2>5
<1>4. CASE PinHit
  <2>. DEFINE h == First(Hits(call.blk))
  <2>1. h \in Buffers /\ pool[h] \in Buffer
    <3>1. h \in Hits(call.blk)
      BY <1>4, FirstIn DEF PinHit, Hits
    <3>. QED
      BY <3>1 DEF Hits, PoolTypeOK
  <2>2. Take(h, pool[h])
    BY <1>4 DEF PinHit
  <2>. HIDE DEF h
  <2>. QED
    BY <1>1, <1>3, <2>1, <2>2
<1>5. CASE PinLoad
  <2>. DEFINE h == First(Free)
              buff == Assigned(pool[h], call.blk)
  <2>1. h \in Buffers /\ pool[h] \in Buffer /\ pool[h].txnum = None
    <3>1. h \in Free
      BY <1>5, FirstIn DEF PinLoad, Free
    <3>. QED
      BY <1>5, <3>1 DEF Free, PinLoad, PoolTypeOK
  <2>2. call.blk \in Block
    BY <1>5, PinOf DEF PinLoad, PinMiss, Step
  <2>3. buff \in Buffer /\ buff.txnum = None
    BY <2>1, <2>2 DEF Assigned, Buffer, PoolTypeOK
  <2>4. Take(h, buff)
    BY <1>5 DEF PinLoad
  <2>. HIDE DEF h, buff
  <2>. QED
    BY <1>1, <1>3, <2>1, <2>3, <2>4
<1>6. CASE PinEvict \/ FlushAllStep
  <2>1. UNCHANGED <<disk, pool>> /\ log' = log /\ durable' \in {durable, Len(log)}
    BY <1>6 DEF PinEvict, FlushAllStep, FlushLog, Log!LogFlush, Log!LogFlushAll,
                Log!Latest, Log!logVars
  <2>. QED
    BY <1>1, <2>1
<1>7. CASE PinFull \/ FlushAllDone
  BY <1>1, <1>7 DEF PinFull, FlushAllDone
<1>. QED
  BY <1>2, <1>4, <1>5, <1>6, <1>7 DEF PoolStep

(* The pool implements the page store for clients that do not pin blocks   *)
(* past the end of their file: each step is a client's write or append, or *)
(* shows nothing.                                                          *)
THEOREM PoolIsTransparent ==
  ASSUME ~ CanPinMissing
  PROVE  PoolSpec => ImplementsPageStore
<1>1. PoolInit => StoreInv /\ Store!StoreInit
  <2>. SUFFICES ASSUME PoolInit PROVE StoreInv /\ Store!StoreInit
    OBVIOUS
  <2>1. PoolInv /\ ViewIs
    BY PoolInit_Inv, ViewOf
  <2>2. CleanOK
    BY DEF PoolInit, PoolStart, CleanOK, EmptyPool, NewBuffer, NoCall, NoWaits
  <2>3. Idle
    BY DEF PoolInit, PoolStart, Idle
  <2>. QED
    BY <2>1, <2>2, <2>3 DEF StoreInv, ViewIs, Store!StoreInit, Store!Contents, Contents
<1>2. StoreInv /\ PoolInv' /\ ViewIs /\ ViewIs' /\ [PoolNext]_poolVars
        => CleanOK' /\ [Store!StoreClient \/ Store!StorePool]_(Store!storeVars)
  <2>. SUFFICES ASSUME StoreInv, PoolInv', ViewIs, ViewIs', [PoolNext]_poolVars
                PROVE  CleanOK' /\ [Store!StoreClient \/ Store!StorePool]_(Store!storeVars)
    OBVIOUS
  <2>0. ASSUME View' = View PROVE Store!StorePool
    BY <2>0 DEF Store!StorePool
  <2>1. CASE PoolStep
    BY <2>0, <2>1, PoolStep_View
  <2>2. CASE \E t \in Tx : ClientStep(t)
    <3>1. PICK t \in Tx : ClientStep(t)
      BY <2>2
    <3>2. CleanOK'
      BY <3>1, ClientStep_View
    <3>3. CASE View' = View
      BY <2>0, <3>2, <3>3
    <3>4. CASE /\ Idle /\ Idle'
               /\ \E b \in Block, o \in Offset, v \in Value : Store!StoreWrite(b, o, v)
      BY <3>2, <3>4 DEF Store!StoreClient
    <3>. QED
      BY <3>1, <3>3, <3>4, ClientStep_View
  <2>3. CASE \E b \in Block : FileAppend(b)
    <3>1. PICK b \in Block : FileAppend(b)
      BY <2>3
    <3>2. Idle /\ Idle'
      BY <3>1 DEF FileAppend, Idle
    <3>. QED
      BY <3>1, <3>2, FileAppend_View DEF Store!StoreClient
  <2>4. CASE UNCHANGED poolVars
    <3>1. CleanOK' /\ View' = View /\ Idle' = Idle
      BY <2>4, ViewKept, CleanKept DEF poolVars, StoreInv, Idle
    <3>. QED
      BY <2>0, <3>1
  <2>. QED
    BY <2>1, <2>2, <2>3, <2>4, PoolNextSteps
<1>. QED
  BY <1>1, <1>2, PoolInvariant, ViewOf, PTL
     DEF PoolSpec, ImplementsPageStore, Store!StoreSpec, StoreInv
=============================================================================
