----------------------------- MODULE BufferPool -----------------------------
(***************************************************************************)
(* The buffer pool: Buffer and BufferMgr (buffer.cpp, buffermgr.cpp), the  *)
(* BufferList of pins every transaction keeps (bufferlist.cpp), and the    *)
(* block file under them (filemgr.cpp read, write, append).                *)
(*                                                                         *)
(* A call that may write to the file (a pin that evicts, flush_all) is a   *)
(* sequence of steps, kept apart because a crash can fall between them;    *)
(* `call' is the call in progress and `flushing' the buffer that is        *)
(* between the two halves of Buffer::flush.  Calls do not overlap (the     *)
(* classes are documented as not thread-safe), except that others run      *)
(* while a pin sleeps between its attempts on a full pool.                 *)
(***************************************************************************)
EXTENDS Integers, FiniteSets

CONSTANTS Tx, Block, Offset, Value, LogRecord,
          Zero,           \* the value of a location of a new block
          Missing,        \* the contents of a block past the end of its file
          None,           \* nullopt
          NumBuffers,     \* size of the pool
          MaxPins,        \* bound: pins of one transaction on one block
          MaxLog,         \* bound: log records
          CanPinMissing   \* do clients pin blocks past the end of the file?

ASSUME BufferAssumption ==
    /\ NumBuffers \in Nat \ {0}
    /\ MaxPins \in Nat \ {0}
    /\ MaxLog \in Nat
    /\ Zero \in Value
    /\ None \notin Tx \cup Block
    /\ Missing \notin [Offset -> Value]
    /\ CanPinMissing \in BOOLEAN

VARIABLES disk,       \* the file: contents of every block
          pool,       \* BufferMgr::bufferpool_
          available,  \* BufferMgr::num_available_
          mine,       \* BufferList of every transaction
          waiting,    \* the block a sleeping pin wants
          call, flushing,
          log, durable

poolVars == <<disk, pool, available, mine, waiting, call, flushing, log, durable>>

Log == INSTANCE DurableLog

Buffers  == 1..NumBuffers
Contents == [Offset -> Value]
ZeroPage == [o \in Offset |-> Zero]

Buffer == [blk : Block \cup {None}, contents : Contents, pins : Nat,
           txnum : Tx \cup {None},
           lsn : Nat]              \* lsn_, 0 for nullopt: LSNs start at 1

NewBuffer == [blk |-> None, contents |-> ZeroPage, pins |-> 0,
              txnum |-> None, lsn |-> 0]

(* BufferList::buffers_ and pins_: which buffer, pinned how often. *)
Entry   == [buf : {0} \cup Buffers, pins : 0..MaxPins]
NoEntry == [buf |-> 0, pins |-> 0]

Calls  == [op : {"pin"}, tx : Tx, blk : Block]
            \cup [op : {"flush_all"}, tx : Tx, blk : {None}]
NoCall == [op |-> "none", tx |-> None, blk |-> None]

PoolTypeOK ==
    /\ disk \in [Block -> Contents \cup {Missing}]
    /\ pool \in [Buffers -> Buffer]
    /\ available \in 0..NumBuffers
    /\ mine \in [Tx -> [Block -> Entry]]
    /\ waiting \in [Tx -> Block \cup {None}]
    /\ call \in Calls \cup {NoCall}
    /\ flushing \in {0} \cup Buffers

(* What the pool and the lists are in a process that has just started. *)
EmptyPool == [i \in Buffers |-> NewBuffer]
NoPins    == [t \in Tx |-> [b \in Block |-> NoEntry]]
NoWaits   == [t \in Tx |-> None]

PoolStart == /\ pool = EmptyPool /\ available = NumBuffers
             /\ mine = NoPins /\ waiting = NoWaits
             /\ call = NoCall /\ flushing = 0

PoolInit == /\ disk \in [Block -> {ZeroPage, Missing}]
            /\ Log!LogInit
            /\ PoolStart

----------------------------------------------------------------------------
(* Mutants: a lookup that sees only pinned buffers, and an eviction that   *)
(* takes unmodified buffers instead of unpinned ones.                      *)
HitsPinned(b)  == {i \in Buffers : pool[i].blk = b /\ pool[i].pins > 0}
FreeUnmodified == {i \in Buffers : pool[i].txnum = None}

Pinned(i) == pool[i].pins > 0
Hits(b)   == {i \in Buffers : pool[i].blk = b}
Free      == {i \in Buffers : ~Pinned(i)}
Dirty(t)  == {i \in Buffers : pool[i].txnum = t}
First(S)  == CHOOSE i \in S : \A j \in S : i <= j

Idle == call = NoCall /\ flushing = 0
Ready(t) == Idle /\ waiting[t] = None
Step(op) == call.op = op /\ flushing = 0

----------------------------------------------------------------------------
(* Mutant: the page goes to disk before the log. *)
FlushNoLog(i) ==
    /\ pool[i].txnum # None
    /\ flushing' = i
    /\ UNCHANGED <<disk, pool, available, mine, waiting, call, log, durable>>

(* Buffer::flush, first half: the log up to the buffer's LSN. *)
FlushLog(i) ==
    /\ pool[i].txnum # None
    /\ IF pool[i].lsn = 0 THEN UNCHANGED <<log, durable>>
                          ELSE Log!LogFlush(pool[i].lsn)
    /\ flushing' = i
    /\ UNCHANGED <<disk, pool, available, mine, waiting, call>>

(* Second half: the page, and the buffer is clean. *)
WritePage ==
    /\ flushing # 0
    /\ disk' = [disk EXCEPT ![pool[flushing].blk] = pool[flushing].contents]
    /\ pool' = [pool EXCEPT ![flushing].txnum = None]
    /\ flushing' = 0
    /\ UNCHANGED <<available, mine, waiting, call, log, durable>>

----------------------------------------------------------------------------
(* BufferList::pin and BufferMgr::pin: try_to_pin looks for a buffer that  *)
(* has the block, then for the first unpinned one, which flushes what it   *)
(* holds and reads the block (left as it is if the file does not have it). *)
PinCall(t, b) ==
    /\ Ready(t)
    /\ mine[t][b].pins < MaxPins
    /\ disk[b] = Missing => CanPinMissing
    /\ call' = [op |-> "pin", tx |-> t, blk |-> b]
    /\ UNCHANGED <<disk, pool, available, mine, waiting, flushing, log, durable>>

(* Mutant: every pin takes one from num_available_. *)
TakeAlways(i, buff) ==
    /\ pool' = [pool EXCEPT ![i] = [buff EXCEPT !.pins = @ + 1]]
    /\ available' = available - 1
    /\ mine' = [mine EXCEPT ![call.tx][call.blk] = [buf |-> i, pins |-> @.pins + 1]]
    /\ call' = NoCall
    /\ UNCHANGED <<disk, waiting, flushing, log, durable>>

(* The tail of try_to_pin and of BufferList::pin, on the chosen buffer as  *)
(* it is once it has the block.                                            *)
Take(i, buff) ==
    /\ pool' = [pool EXCEPT ![i] = [buff EXCEPT !.pins = @ + 1]]
    /\ available' = IF buff.pins > 0 THEN available ELSE available - 1
    /\ mine' = [mine EXCEPT ![call.tx][call.blk] = [buf |-> i, pins |-> @.pins + 1]]
    /\ call' = NoCall
    /\ UNCHANGED <<disk, waiting, flushing, log, durable>>

PinHit == /\ Step("pin")
          /\ Hits(call.blk) # {}
          /\ LET i == First(Hits(call.blk)) IN Take(i, pool[i])

PinMiss == Step("pin") /\ Hits(call.blk) = {}

PinEvict == /\ PinMiss /\ Free # {}
            /\ FlushLog(First(Free))

Assigned(buff, b) ==
    [blk |-> b,
     contents |-> IF disk[b] = Missing THEN buff.contents ELSE disk[b],
     pins |-> 0, txnum |-> buff.txnum, lsn |-> buff.lsn]

(* Mutant: assign_to_block without the flush. *)
PinLoadDirty == /\ PinMiss /\ Free # {}
                /\ Take(First(Free), Assigned(pool[First(Free)], call.blk))

PinLoad == /\ PinMiss /\ Free # {}
           /\ LET i == First(Free)
              IN  /\ pool[i].txnum = None
                  /\ Take(i, Assigned(pool[i], call.blk))

(* The pool is full: the caller sleeps, and retries until the time is up   *)
(* and BufferAbortException leaves everything as it was.                   *)
PinFull == /\ PinMiss /\ Free = {}
           /\ waiting' = [waiting EXCEPT ![call.tx] = call.blk]
           /\ call' = NoCall
           /\ UNCHANGED <<disk, pool, available, mine, flushing, log, durable>>

PinRetry(t) == /\ Idle /\ waiting[t] # None
               /\ call' = [op |-> "pin", tx |-> t, blk |-> waiting[t]]
               /\ waiting' = [waiting EXCEPT ![t] = None]
               /\ UNCHANGED <<disk, pool, available, mine, flushing, log, durable>>

PinTimeout(t) == /\ waiting[t] # None
                 /\ waiting' = [waiting EXCEPT ![t] = None]
                 /\ UNCHANGED <<disk, pool, available, mine, call, flushing, log, durable>>

(* BufferMgr::unpin. *)
UnpinBuffer(i) ==
    /\ pool' = [pool EXCEPT ![i].pins = @ - 1]
    /\ available' = IF pool[i].pins - 1 > 0 THEN available ELSE available + 1

(* BufferList::unpin: unpins the buffer its map names, and forgets the     *)
(* block with its last pin.  A block that is not in the map throws.        *)
OneLess(e) == IF e.pins = 1 THEN NoEntry ELSE [buf |-> e.buf, pins |-> e.pins - 1]

Unpin(t, b) ==
    /\ Ready(t)
    /\ mine[t][b].buf # 0
    /\ UnpinBuffer(mine[t][b].buf)
    /\ mine' = [mine EXCEPT ![t][b] = OneLess(@)]
    /\ UNCHANGED <<disk, waiting, call, flushing, log, durable>>

(* BufferList::unpin_all: every pin of the transaction, each taken off the *)
(* buffer its block maps to (no two blocks of a list share a buffer).      *)
PinsOn(t, i) == IF \E b \in Block : mine[t][b].buf = i
                THEN mine[t][CHOOSE b \in Block : mine[t][b].buf = i].pins
                ELSE 0

(* Mutant: the list keeps its entries. *)
DropPinsOnly(t) ==
    /\ pool' = [i \in Buffers |-> [pool[i] EXCEPT !.pins = @ - PinsOn(t, i)]]
    /\ available' = available +
          Cardinality({i \in Buffers : PinsOn(t, i) > 0 /\ pool[i].pins = PinsOn(t, i)})
    /\ UNCHANGED mine

DropPins(t) ==
    /\ pool' = [i \in Buffers |-> [pool[i] EXCEPT !.pins = @ - PinsOn(t, i)]]
    /\ available' = available +
          Cardinality({i \in Buffers : PinsOn(t, i) > 0 /\ pool[i].pins = PinsOn(t, i)})
    /\ mine' = [mine EXCEPT ![t] = [b \in Block |-> NoEntry]]

UnpinAll(t) == /\ Ready(t)
               /\ DropPins(t)
               /\ UNCHANGED <<disk, waiting, call, flushing, log, durable>>

----------------------------------------------------------------------------
(* A change of a pinned page, Buffer::contents and set_modified: the lsn   *)
(* is that of the record logged for it, or 0 when it is not logged.        *)
Modified(buff, t, o, v, lsn) ==
    [blk |-> buff.blk, contents |-> [buff.contents EXCEPT ![o] = v],
     pins |-> buff.pins, txnum |-> t,
     lsn |-> IF lsn = 0 THEN buff.lsn ELSE lsn]

WriteLogged(t, b, o, v, r) ==
    /\ Ready(t)
    /\ mine[t][b].buf # 0
    /\ Log!LogAppend(r)
    /\ pool' = [pool EXCEPT ![mine[t][b].buf] = Modified(@, t, o, v, Log!Latest + 1)]
    /\ UNCHANGED <<disk, available, mine, waiting, call, flushing>>

WriteUnlogged(t, b, o, v) ==
    /\ Ready(t)
    /\ mine[t][b].buf # 0
    /\ pool' = [pool EXCEPT ![mine[t][b].buf] = Modified(@, t, o, v, 0)]
    /\ UNCHANGED <<disk, available, mine, waiting, call, flushing, log, durable>>

(* BufferMgr::flush_all: the buffers last modified by the transaction. *)
FlushAllCall(t) ==
    /\ Ready(t)
    /\ call' = [op |-> "flush_all", tx |-> t, blk |-> None]
    /\ UNCHANGED <<disk, pool, available, mine, waiting, flushing, log, durable>>

FlushAllStep == /\ Step("flush_all") /\ Dirty(call.tx) # {}
                /\ FlushLog(First(Dirty(call.tx)))

FlushAllDone == /\ Step("flush_all") /\ Dirty(call.tx) = {}
                /\ call' = NoCall
                /\ UNCHANGED <<disk, pool, available, mine, waiting, flushing, log, durable>>

(* FileMgr::append: a block of zeros at the end of the file. *)
FileAppend(b) ==
    /\ Idle
    /\ disk[b] = Missing
    /\ disk' = [disk EXCEPT ![b] = ZeroPage]
    /\ UNCHANGED <<pool, available, mine, waiting, call, flushing, log, durable>>

----------------------------------------------------------------------------
PoolStep == \/ WritePage \/ PinHit \/ PinEvict \/ PinLoad \/ PinFull
            \/ FlushAllStep \/ FlushAllDone

PoolNext == \/ PoolStep
            \/ \E b \in Block : FileAppend(b)
            \/ \E t \in Tx :
                 \/ PinRetry(t) \/ PinTimeout(t) \/ UnpinAll(t) \/ FlushAllCall(t)
                 \/ \E b \in Block :
                      \/ PinCall(t, b) \/ Unpin(t, b)
                      \/ \E o \in Offset, v \in Value :
                           \/ WriteUnlogged(t, b, o, v)
                           \/ /\ Log!Latest < MaxLog
                              /\ \E r \in LogRecord : WriteLogged(t, b, o, v, r)

PoolSpec == PoolInit /\ [][PoolNext]_poolVars

----------------------------------------------------------------------------
(* num_available_, kept by increments on each pin and unpin, is the number *)
(* of buffers that can be evicted, through any mix of hits, loads, waits,  *)
(* timeouts and bulk unpins.                                               *)
AvailableCount == available = Cardinality(Free)

(* No block is in two buffers, where changes made through one would be     *)
(* lost to the other (find_existing_buffer before choose_unpinned_buffer). *)
OneBufferPerBlock == \A i, j \in Buffers :
    pool[i].blk = pool[j].blk /\ pool[i].blk # None => i = j

(* A buffer's pin count is the number of pins in all the BufferLists, and  *)
(* what a list calls its buffer still holds the block: no eviction under a *)
(* client, no pin leaked by an abort, no unpin taken from another client.  *)
PinTokens(i) == {x \in Tx \X Block \X (1..MaxPins) :
                    /\ mine[x[1]][x[2]].buf = i
                    /\ x[3] <= mine[x[1]][x[2]].pins}

PinsMatchLists ==
    /\ \A i \in Buffers : pool[i].pins = Cardinality(PinTokens(i))
    /\ \A t \in Tx, b \in Block :
          LET e == mine[t][b]
          IN  /\ e.buf = 0 <=> e.pins = 0
              /\ e.buf # 0 => pool[e.buf].blk = b

(* Write-ahead logging, step by step: a page goes to disk only when the    *)
(* log record of its latest change is already there (Buffer::flush).       *)
WriteAheadLog ==
    [][\A i \in Buffers, b \in Block :
          pool[i].blk = b /\ disk[b] # Missing /\ disk'[b] # disk[b]
             => pool[i].lsn <= durable]_poolVars

(* The pool implements the page store: a client reads from a pinned page   *)
(* what was last written to the block by anyone, though the page may have  *)
(* been evicted, written back, replaced and read again in between.         *)
View == [b \in Block |-> IF Hits(b) = {} THEN disk[b]
                         ELSE pool[First(Hits(b))].contents]

Store == INSTANCE PageStore WITH page <- View, busy <- ~Idle

ImplementsPageStore == Store!StoreSpec
=============================================================================
