---------------------------- MODULE Transaction ----------------------------
(***************************************************************************)
(* Transactions: Transaction, RecoveryMgr and the log records              *)
(* (transaction.cpp, recovery/*.cpp) over the buffer pool, the lock table  *)
(* and the log, with a crash possible between any two writes to a file.    *)
(*                                                                         *)
(* The process executes one call at a time: `ctl' is the commit, rollback  *)
(* or recover in progress and `call' (of BufferPool) the pool call under   *)
(* it.  Transaction numbers come from a static counter, so every process   *)
(* counts from 1 again.  Integers and strings are both values of locations.*)
(***************************************************************************)
EXTENDS Integers, Sequences, FiniteSets

CONSTANTS Block, Offset, Value, Zero, Missing, None, NumBuffers,
          NewBlocks,        \* the blocks the file may not have at first
          Readers,          \* bound: the transactions that also read
          Eof,              \* the dummy block size and append lock
          MaxTx,            \* bound: transactions of one process
          MaxBegins,        \* bound: transactions of all processes
          MaxWrites,        \* bound: logged writes
          MaxCrashes,       \* bound: crashes
          RecoverFirst,     \* does a process recover before it does anything?
          ExclusiveClients  \* do clients keep writers apart themselves?

ASSUME TransactionAssumption ==
    /\ {MaxTx, MaxBegins, MaxWrites, MaxCrashes} \subseteq Nat
    /\ RecoverFirst \in BOOLEAN /\ ExclusiveClients \in BOOLEAN
    /\ Eof \notin Block /\ NewBlocks \subseteq Block /\ Readers \subseteq Nat
    /\ NumBuffers \in Nat \ {0} /\ Zero \in Value /\ Missing \notin [Offset -> Value]
    /\ None \notin Nat \cup Block \cup Offset \cup Value

VARIABLES disk, pool, available, mine, waiting, call, flushing, log, durable,
          locks, held,
          nextTx,     \* NEXT_TX_NUM
          state,      \* of every Transaction object of the process
          ctl,        \* the Transaction call in progress
          recovered,  \* has this process recovered (or created) the database?
          writes,     \* history: uncommitted writes
          torn,       \* has the log a page of zeros after its last CHECKPOINT?
          begins, crashes

Tx == 1..MaxTx
Lockable == Block \cup {Eof}
MaxPins == 2    \* one pin of a client and one of undo

poolVars == <<disk, pool, available, mine, waiting, call, flushing>>
logVars  == <<log, durable>>
lockVars == <<locks, held>>
txVars   == <<nextTx, state, ctl, recovered, torn, writes, begins, crashes>>
vars == <<poolVars, logVars, lockVars, txVars>>

----------------------------------------------------------------------------
(* Log records: SET stands for SETINT and SETSTRING, with the old value. *)
Record == [op : {"START", "COMMIT", "ROLLBACK", "CHECKPOINT", "SET"},
           tx : Tx \cup {None}, blk : Block \cup {None},
           off : Offset \cup {None}, val : Value \cup {None}]

Mark(op, t) == [op |-> op, tx |-> t, blk |-> None, off |-> None, val |-> None]
SetRecord(t, b, o, old) == [op |-> "SET", tx |-> t, blk |-> b, off |-> o, val |-> old]

Log   == INSTANCE DurableLog WITH LogRecord <- Record
Pool  == INSTANCE BufferPool WITH LogRecord <- Record, CanPinMissing <- FALSE,
                                  MaxLog <- 0
Locks == INSTANCE LockTable WITH Block <- Lockable

NoWrites == [b \in Block |-> [o \in Offset |-> None]]
NoCtl == [op |-> "none", tx |-> None, at |-> "start", undo |-> <<>>]

NoState == [t \in Tx |-> "none"]

Init == /\ Pool!PoolStart /\ Locks!LockInit
        /\ nextTx = 0 /\ state = NoState /\ ctl = NoCtl
        /\ writes = [t \in Tx |-> NoWrites]
        /\ \E new \in SUBSET NewBlocks :
              disk = [b \in Block |-> IF b \in new THEN Missing ELSE Pool!ZeroPage]
        /\ Log!LogInit
        /\ recovered = TRUE    \* a new database has nothing to recover
        /\ torn = FALSE /\ begins = 0 /\ crashes = 0

----------------------------------------------------------------------------
(* Clients.  RecoverFirst is the startup of SimpleDB: transaction 1 of a   *)
(* process that opened an existing database recovers it before it, or any  *)
(* other transaction, does anything else.                                  *)
Calm == ctl = NoCtl /\ Pool!Idle

Client(t) == /\ ctl = NoCtl /\ state[t] = "active"
             /\ RecoverFirst => recovered

(* The lock table keeps nobody out, so the exclusion of its interface is   *)
(* the clients' own care, or nobody's.                                     *)
MayWrite(t, b) == ExclusiveClients => \A u \in Tx \ {t} : held[u][b] = "none"
MayRead(t, b)  == ExclusiveClients => \A u \in Tx \ {t} : held[u][b] # "X"

SLock(t, b) == /\ MayRead(t, b)
               /\ \/ Locks!SLock(t, b)
                  \/ held[t][b] # "none" /\ UNCHANGED lockVars
XLock(t, b) == /\ MayWrite(t, b)
               /\ \/ Locks!XLock(t, b)
                  \/ held[t][b] = "X" /\ UNCHANGED lockVars

Begin == /\ Calm
         /\ nextTx < MaxTx /\ begins < MaxBegins
         /\ RecoverFirst /\ nextTx > 0 => recovered
         /\ nextTx' = nextTx + 1
         /\ begins' = begins + 1
         /\ state' = [state EXCEPT ![nextTx + 1] = "active"]
         /\ Log!LogAppend(Mark("START", nextTx + 1))
         /\ UNCHANGED <<poolVars, lockVars, ctl, recovered, writes, torn, crashes>>

Pin(t, b) == /\ Client(t) /\ mine[t][b].pins = 0
             /\ Pool!PinCall(t, b)
             /\ UNCHANGED <<lockVars, txVars>>

Unpin(t, b) == /\ Client(t)
               /\ Pool!Unpin(t, b)
               /\ UNCHANGED <<lockVars, txVars>>

(* get_int and get_string: what they return is View[b][o] of BufferPool.   *)
(* The lock comes first: a block that is not pinned throws with it held.   *)
Get(t, b) == /\ Client(t) /\ t \in Readers /\ Pool!Ready(t)
             /\ SLock(t, b)
             /\ UNCHANGED <<poolVars, logVars, txVars>>

LoggedWrites == Cardinality({i \in DOMAIN log : log[i].op = "SET"})

Contents(t, b) == pool[mine[t][b].buf].contents

(* set_int and set_string: lock, log the old value, change the page. *)
Set(t, b, o, v) ==
    /\ Client(t)
    /\ LoggedWrites < MaxWrites
    /\ XLock(t, b)
    /\ Pool!WriteLogged(t, b, o, v, SetRecord(t, b, o, Contents(t, b)[o]))
    /\ writes' = [writes EXCEPT ![t][b][o] = v]
    /\ UNCHANGED <<nextTx, state, ctl, recovered, torn, begins, crashes>>

SetUnpinned(t, b) == /\ Client(t) /\ t \in Readers /\ Pool!Ready(t)
                     /\ mine[t][b].buf = 0
                     /\ XLock(t, b)
                     /\ UNCHANGED <<poolVars, logVars, txVars>>

Size(t) == /\ Client(t) /\ t \in Readers /\ Pool!Ready(t)
           /\ SLock(t, Eof)
           /\ UNCHANGED <<poolVars, logVars, txVars>>

AppendBlock(t, b) == /\ Client(t) /\ waiting[t] = None
                     /\ XLock(t, Eof)
                     /\ Pool!FileAppend(b)
                     /\ UNCHANGED txVars

----------------------------------------------------------------------------
(* What a scan of the log, newest record first, gives the undo loops.      *)
(* do_rollback collects back to the transaction's own START; do_recover    *)
(* back to the last CHECKPOINT, skipping the transaction numbers whose     *)
(* COMMIT or ROLLBACK it has met by then.                                  *)
SetsIn(l) == {i \in DOMAIN l : l[i].op = "SET"}

RollbackRecords(l, t) ==
    {i \in SetsIn(l) : /\ l[i].tx = t
                       /\ ~ \E j \in i..Len(l) : l[j] = Mark("START", t)}

Ends(r) == r.op \in {"COMMIT", "ROLLBACK"}

UnfinishedRecords(l) ==
    {i \in SetsIn(l) : ~ \E j \in i..Len(l) :
                            \/ l[j].op = "CHECKPOINT"
                            \/ Ends(l[j]) /\ l[j].tx = l[i].tx}

(* Mutant: changes are undone in the order they were made. *)
OldestFirst(l, S) ==
    LET found[i \in 0..Len(l)] == IF i = 0 THEN <<>>
                                  ELSE IF i \in S THEN Append(found[i - 1], l[i])
                                  ELSE found[i - 1]
    IN  found[Len(l)]

(* The loop of both, from the newest record to the oldest. *)
NewestFirst(l, S) ==
    LET found[i \in 0..Len(l)] == IF i = 0 THEN <<>>
                                  ELSE IF i \in S THEN <<l[i]>> \o found[i - 1]
                                  ELSE found[i - 1]
    IN  found[Len(l)]

----------------------------------------------------------------------------
(* commit, rollback and recover share their shape: undo what the scan      *)
(* found, flush_all, append the closing record, flush the log.  commit     *)
(* enters at the flush; the phase is named in ctl.at.                      *)
Enter(op, t, at) == ctl' = [op |-> op, tx |-> t, at |-> at, undo |-> <<>>]
At(at) == ctl.at = at /\ ctl.op # "none"
Go(at) == ctl' = [ctl EXCEPT !.at = at]
Me == ctl.tx

CommitCall(t) == /\ Client(t)
                 /\ Enter("commit", t, "log")
                 /\ Pool!FlushAllCall(t)
                 /\ UNCHANGED <<lockVars, nextTx, state, recovered, writes, torn, begins, crashes>>

RollbackCall(t) == /\ Calm /\ waiting[t] = None
                   /\ state[t] \in {"active", "broken"}
                   /\ RecoverFirst => recovered
                   /\ Enter("rollback", t, "scan")
                   /\ UNCHANGED <<poolVars, logVars, lockVars, nextTx, state,
                                  recovered, writes, torn, begins, crashes>>

(* Startup calls recover on a new transaction, of an existing database. *)
RecoverCall == /\ nextTx = 1 /\ state[1] = "active" /\ ~recovered
               /\ ctl = NoCtl
               /\ held[1] = [b \in Lockable |-> "none"]
               /\ mine[1] = [b \in Block |-> Pool!NoEntry]
               /\ Enter("recover", 1, "scan")
               /\ Pool!FlushAllCall(1)
               /\ UNCHANGED <<lockVars, nextTx, state, recovered, writes, torn, begins, crashes>>

(* Mutant: recovery stops at its own START, as rollback does. *)
ScanOwn == /\ At("scan") /\ Pool!Idle
           /\ Log!LogFlushAll
           /\ ctl' = [ctl EXCEPT !.at = "undo",
                                 !.undo = NewestFirst(log, RollbackRecords(log, Me))]
           /\ UNCHANGED <<poolVars, lockVars, nextTx, state, recovered, writes,
                          torn, begins, crashes>>

(* lm_->iterator() flushes the log and reads it all before any undo.  A    *)
(* rollback stops at its own START, which is newer than any page of zeros. *)
Scan == /\ At("scan") /\ Pool!Idle
        /\ ctl.op = "recover" => ~torn
        /\ Log!LogFlushAll
        /\ LET found == IF ctl.op = "rollback" THEN RollbackRecords(log, Me)
                                               ELSE UnfinishedRecords(log)
           IN  ctl' = [ctl EXCEPT !.at = "undo", !.undo = NewestFirst(log, found)]
        /\ UNCHANGED <<poolVars, lockVars, nextTx, state, recovered, writes, torn, begins, crashes>>

(* A page of zeros reads as an empty record, of which create_log_record    *)
(* throws: recover has undone nothing yet and leaves its transaction open. *)
ScanThrows == /\ At("scan") /\ Pool!Idle
              /\ ctl.op = "recover" /\ torn
              /\ Log!LogFlushAll
              /\ ctl' = NoCtl
              /\ state' = [state EXCEPT ![Me] = "broken"]
              /\ UNCHANGED <<poolVars, lockVars, nextTx, recovered, torn, writes,
                             begins, crashes>>

(* SetIntRecord::undo, SetStringRecord::undo: pin, set without logging,    *)
(* unpin, for one record after the other.                                  *)
ToUndo == Head(ctl.undo)

UndoPin == /\ At("undo") /\ ctl.undo # <<>>
           /\ Pool!PinCall(Me, ToUndo.blk)
           /\ Go("set")
           /\ UNCHANGED <<lockVars, nextTx, state, recovered, writes, torn, begins, crashes>>

UndoSet == /\ At("set")
           /\ \/ Locks!XLock(Me, ToUndo.blk)
              \/ held[Me][ToUndo.blk] = "X" /\ UNCHANGED lockVars
           /\ Pool!WriteUnlogged(Me, ToUndo.blk, ToUndo.off, ToUndo.val)
           /\ Go("unpin")
           /\ UNCHANGED <<nextTx, state, recovered, writes, torn, begins, crashes>>

UndoUnpin == /\ At("unpin")
             /\ Pool!Unpin(Me, ToUndo.blk)
             /\ ctl' = [ctl EXCEPT !.at = "undo", !.undo = Tail(@)]
             /\ UNCHANGED <<lockVars, nextTx, state, recovered, writes, torn, begins, crashes>>

(* Mutant: the restored pages are not flushed. *)
UndoDoneNoFlush == /\ At("undo") /\ ctl.undo = <<>>
                   /\ Go("log")
                   /\ UNCHANGED <<poolVars, logVars, lockVars, nextTx, state,
                                  recovered, writes, torn, begins, crashes>>

UndoDone == /\ At("undo") /\ ctl.undo = <<>>
            /\ Pool!FlushAllCall(Me)
            /\ Go("log")
            /\ UNCHANGED <<lockVars, nextTx, state, recovered, writes, torn, begins, crashes>>

Closing == CASE ctl.op = "commit"   -> Mark("COMMIT", Me)
             [] ctl.op = "rollback" -> Mark("ROLLBACK", Me)
             [] ctl.op = "recover"  -> Mark("CHECKPOINT", None)

WriteClosing == /\ At("log") /\ Pool!Idle
                /\ Log!LogAppend(Closing)
                /\ Go("end")
                /\ UNCHANGED <<poolVars, lockVars, nextTx, state, recovered,
                               writes, torn, begins, crashes>>

(* The closing record reaches the disk; commit and rollback then release   *)
(* the locks and the pins, recover leaves its transaction open.            *)
Finish ==
    /\ At("end")
    /\ Log!LogFlush(Log!Latest)
    /\ ctl' = NoCtl
    /\ writes' = [writes EXCEPT ![Me] = NoWrites]
    /\ \/ /\ ctl.op = "recover"
          /\ recovered' = TRUE
          /\ UNCHANGED <<poolVars, lockVars, state>>
       \/ /\ ctl.op # "recover"
          /\ Locks!Release(Me)
          /\ Pool!DropPins(Me)
          /\ UNCHANGED <<disk, waiting, call, flushing>>
          /\ state' = [state EXCEPT ![Me] = IF ctl.op = "commit" THEN "committed"
                                            ELSE "rolled back"]
          /\ UNCHANGED recovered
    /\ UNCHANGED <<nextTx, torn, begins, crashes>>

----------------------------------------------------------------------------
(* The pool calls under way, and the sleep of a pin on a full pool: a      *)
(* client's timeout reaches the client, one in an undo ends the rollback   *)
(* where it stands.                                                        *)
PoolWork == Pool!PoolStep /\ UNCHANGED <<lockVars, txVars>>

MayRun(t) == ctl = NoCtl \/ Me = t

Retry(t) == /\ MayRun(t)
            /\ Pool!PinRetry(t)
            /\ UNCHANGED <<lockVars, txVars>>

(* Mutant: a wait inside an undo has no time limit. *)
TimeoutOfClients(t) == /\ ctl = NoCtl
                       /\ Pool!PinTimeout(t)
                       /\ UNCHANGED <<lockVars, txVars>>

Timeout(t) == /\ MayRun(t)
              /\ Pool!PinTimeout(t)
              /\ \/ ctl = NoCtl /\ UNCHANGED <<ctl, state>>
                 \/ /\ ctl # NoCtl
                    /\ ctl' = NoCtl
                    /\ state' = [state EXCEPT ![t] = "broken"]
              /\ UNCHANGED <<lockVars, nextTx, recovered, writes, torn, begins, crashes>>

(* The process stops (a clean exit flushes nothing either) and another     *)
(* opens the same files.  If it stops in append_new_block, with all older  *)
(* records just flushed and the newest not yet in the page, the log keeps  *)
(* a page of zeros: for good, since no recovery then writes a CHECKPOINT.  *)
Crash == /\ nextTx > 0 /\ crashes < MaxCrashes
         /\ crashes' = crashes + 1
         /\ recovered' = FALSE
         /\ pool' = Pool!EmptyPool /\ available' = NumBuffers
         /\ mine' = Pool!NoPins /\ waiting' = Pool!NoWaits
         /\ call' = Pool!NoCall /\ flushing' = 0
         /\ locks' = Locks!NoLocks /\ held' = Locks!NoModes
         /\ nextTx' = 0 /\ state' = NoState /\ ctl' = NoCtl
         /\ writes' = [t \in Tx |-> NoWrites]
         /\ Log!LogCrash
         /\ torn' \in {torn, torn \/ durable = Len(log) - 1}
         /\ UNCHANGED <<disk, begins>>

Next ==
    \/ Begin \/ RecoverCall \/ Scan \/ UndoPin \/ UndoSet \/ UndoUnpin \/ UndoDone
    \/ ScanThrows \/ WriteClosing \/ Finish \/ PoolWork \/ Crash
    \/ \E t \in Tx :
         \/ CommitCall(t) \/ RollbackCall(t) \/ Size(t) \/ Retry(t) \/ Timeout(t)
         \/ \E b \in Block :
              \/ Pin(t, b) \/ Unpin(t, b) \/ Get(t, b) \/ AppendBlock(t, b)
              \/ SetUnpinned(t, b)
              \/ \E o \in Offset, v \in Value : Set(t, b, o, v)

Spec == Init /\ [][Next]_vars

(* A thread inside a call goes on: its next step, or the retry of a pin    *)
(* that waits.  A wait is given up once max_time_ has passed; the retries  *)
(* in between take no time of their own, so the timeout that stays         *)
(* possible again and again is taken (BufferMgr::pin, buffermgr.cpp).      *)
InCall == \/ RecoverCall \/ Scan \/ ScanThrows \/ UndoPin \/ UndoSet \/ UndoUnpin \/ UndoDone
          \/ WriteClosing \/ Finish \/ PoolWork

Fairness == /\ WF_vars(InCall)
            /\ \A t \in Tx : WF_vars(Retry(t)) /\ SF_vars(Timeout(t))

FairSpec == Spec /\ Fairness

----------------------------------------------------------------------------
TypeOK == /\ Pool!PoolTypeOK /\ Log!LogTypeOK /\ Locks!LockTypeOK
          /\ nextTx \in 0..MaxTx
          /\ state \in [Tx -> {"none", "active", "broken", "committed", "rolled back"}]
          /\ ctl \in [op : {"none", "commit", "rollback", "recover"},
                      tx : Tx \cup {None},
                      at : {"start", "scan", "undo", "set", "unpin", "log", "end"},
                      undo : Seq(Record)]
          /\ recovered \in BOOLEAN /\ torn \in BOOLEAN
          /\ writes \in [Tx -> [Block -> [Offset -> Value \cup {None}]]]
          /\ begins \in 0..MaxBegins /\ crashes \in 0..MaxCrashes

(* The store as the files hold it at this moment: what undoing the log's   *)
(* unfinished changes would make of them if the process stopped now.  The  *)
(* oldest record to undo for a location is undone last, so its value stays.*)
OnDisk == SubSeq(log, 1, durable)

ToUndoAt(b, o) == {i \in UnfinishedRecords(OnDisk) : log[i].blk = b /\ log[i].off = o}

Restored == [b \in Block |-> [o \in Offset |->
    IF ToUndoAt(b, o) # {} THEN log[Pool!First(ToUndoAt(b, o))].val
    ELSE IF disk[b] = Missing THEN Zero
    ELSE disk[b][o]]]

(* A rollback that a full pool broke off, or a recovery that a page of     *)
(* zeros did, leaves its transaction open.                                 *)
Outcome == [t \in Tx |-> IF state[t] = "broken" THEN "active" ELSE state[t]]

Atomic == INSTANCE AtomicStore WITH store <- Restored, outcome <- Outcome

(* Atomicity and durability: from the files alone, at every instant and    *)
(* through any number of crashes, also during rollback and recovery        *)
(* themselves, the files hold, up to the changes that a recovery undoes,   *)
(* all writes of the transactions whose commit had returned its log flush  *)
(* and none of the others.  A recovery that throws on a page of zeros (see *)
(* log_torn) changes nothing of that, and undoes nothing either.           *)
ImplementsAtomicStore == Atomic!AtomicSpec

(* "ACID transactions with shared/exclusive locking" (README): the latest  *)
(* change of a location is durable once the commit of the transaction that *)
(* made it returns.                                                        *)
LatestWriter(b, o) ==
    LET S == {i \in SetsIn(log) : log[i].blk = b /\ log[i].off = o}
    IN  IF S = {} THEN None ELSE log[CHOOSE i \in S : \A j \in S : j <= i].tx

CommitReturns(t) == /\ ctl.op = "commit" /\ Me = t
                    /\ state[t] = "active" /\ state'[t] = "committed"

CommitIsDurable ==
    [][\A t \in Tx, b \in Block, o \in Offset :
          CommitReturns(t) /\ writes[t][b][o] # None /\ LatestWriter(b, o) = t
             => Restored'[b][o] = writes[t][b][o]]_vars

(* Isolation, for clients that keep writers apart: between calls of a      *)
(* recovered process a location reads as its uncommitted write, or, where  *)
(* nobody is writing, as what recovery would restore.                      *)
Broken == \E t \in Tx : state[t] = "broken"

ReadsCommitted ==
    ctl = NoCtl /\ recovered /\ ~Broken =>
        \A b \in Block, o \in Offset :
            Pool!View[b] # Missing =>
                LET w == {t \in Tx : writes[t][b][o] # None}
                IN  Pool!View[b][o] = IF w = {} THEN Restored[b][o]
                                      ELSE writes[Pool!First(w)][b][o]

(* Every commit, rollback and recovery ends, and a process that starts on  *)
(* an existing database ends up recovered, unless it stops before or the   *)
(* log has a page of zeros, of which recover throws: undo gives back each  *)
(* page it pins, however many changes there are, so that recovery never    *)
(* waits for a page nobody else could free, and a rollback that finds the  *)
(* whole pool pinned by others gives up (transaction.cpp, simpledb.cpp).   *)
Settled == ctl = NoCtl /\ (recovered \/ nextTx = 0 \/ (torn /\ state[1] = "broken"))

CallsEnd == []<>Settled
============================================================================
