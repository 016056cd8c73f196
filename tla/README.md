# MudopDB in TLA+

MudopDB is a small relational engine in C++: block files, a write-ahead log, a
buffer pool, transactions with block locks and undo recovery, and above them
records, catalogs, scans, planners and a SQL shell.  This directory models the
engine from its bottom layer up, checks the models with TLC on small instances,
and proves what it can for every instance with TLAPS.  Paths below are relative
to the repository's root.

## 1. The system

| Component (code) | State it keeps | Operations | Uses |
|---|---|---|---|
| File (`src/file`) | the files; a cache of their lengths | read, write, append, length | - |
| Log (`src/log`) | one page in memory, the LSN counters | append, flush, iterator | File |
| Buffer (`src/buffer`, `src/tx/bufferlist.cpp`) | pool of pages with pins, modifier, LSN; per transaction a list of pins | pin, unpin, unpin_all, flush_all, set_modified | File, Log |
| Concurrency (`src/tx/concurrency`) | one table of counters for all; a lock map per transaction | s_lock, x_lock, release | - |
| Transaction and recovery (`src/tx`, `src/tx/recovery`) | transaction number; the log's records | get, set, size, append, commit, rollback, recover | all of the above |
| Server (`src/server`) | the managers of one database | open (create or recover), new_tx | Transaction, Metadata |
| Record (`src/record`) | a page of slots, a current slot | next, insert, delete, move_to_rid | Transaction |
| Metadata (`src/metadata`) | catalog tables, cached statistics | create_table, get_layout, create_view, get_view_def, statistics | Record |
| Query, Materialize | trees of scans; runs in temporary tables | before_first, next, close, save/restore | Record |
| Plan, Opt, Parse | trees of plans; tokens | open, cost estimates, parse | Query, Metadata |
| API, App | connections (still placeholders) | connect, execute | - |

Calls go downwards only and return values; there are no callbacks.  The state
that is shared is the files, the cache of their sizes, the log page, the pool
and the lock table.  What is hard: a dirty page reaches the disk at a moment no
transaction chose; the process may stop between any two writes; undo and
recovery write through the same pool and can be stopped too; transaction numbers
are used again by the next process; pins wait and time out; locks do not exclude
each other; one method of the file manager runs outside its mutex; the log grows by two
writes; a database is created by several steps of which the directory is the first; what a statement
means passes through text and the catalogs, some of it twice.  The full list of
hazards, each at its line, is `hazards` in `PROJECT.json`.

What makes each component correct:

* **File**: whatever the threads do, what the files hold is as if each call took
  effect at one instant; every call returns; no block number is given out twice
  and no two threads are in the cache at once (both fail).
* **Log**: what the iterator reads is the appended sequence backwards; a crash
  keeps exactly what was flushed; an LSN at or below the last saved one is on disk.
* **Buffer**: clients see each block as if it were in memory always; a block is
  never in two buffers; pins are neither leaked nor stolen; the log goes to disk
  before the page it describes.
* **Concurrency**: the shared table and the private maps agree; locks are kept
  until commit or rollback; writers exclude others (they do not).
* **Transaction**: at every instant the files determine the committed state;
  commit is atomic and durable; rollback and recovery restore exactly what was
  there; reads see committed data or their own writes; every call ends.
* **Server**: a database that has been opened, or begun, opens again (neither
  always does).
* **Metadata, Parse**: what is executed is what was written; a table has in every
  later transaction and process the layout it was created with, a view its
  query; a row read back through that layout is the row that was inserted.
* **Record**: a statement changes exactly the rows it names and reports their
  number; a scan meets every row that stays once, whatever changes around it;
  each scan holds one pin, and an abandoned one none; every statement ends.
* **Query, Materialize, Planners**: a plan means what its query says; a scan
  returns what its plan means, each row as often as it should, in order where
  it is sorted, and the same again when it starts over.

## 2. The models

    BlockFiles  <- implemented by -  FileThreads -> FileMgr
                                         |
    DurableLog  <- implemented by -  LogMgr  (used as DurableLog below)
                                         v
    PageStore   <- implemented by -  BufferPool     LockTable
                                         ^             ^
    AtomicStore <- implemented by -  Transaction ------+

    RowStore    <- implemented by -  TableScan       (inside one transaction)

    Dictionary  <- implemented by -  Catalog -> RecordPage -> Parser, Layout

    relational algebra  <- compared with -  Queries -> Scans

`FileThreads` composes the file manager with the lock table, as `Transaction`
composes the pool, the lock table and the log.  The lower groups stand on what
the upper ones show: `TableScan` and `Catalog` take from the transaction layer
that pages read as they were written, that rollback and recovery bring back the
last commit, and (`TableScan`) that a pin may fail; `Scans` takes from
`TableScan` that a table nobody changes is a sequence of rows.

| Module | Models | State in the code |
|---|---|---|
| `LockTable` | `locktable.cpp`, `concurrencymgr.cpp` | `locks` = `LockTable::locks_` (0 for no entry); `held` = `ConcurrencyMgr::locks_` of each transaction |
| `FileMgr` | `filemgr.cpp` called by several threads | `files` = the directory; `open_files`, `mutex` = the members; `req` = where each thread's call stands; `reply` = what it last returned; `raced`, `old` are history |
| `FileThreads` | `Transaction::size`, `append`, and the loads and flushes of buffers, by threads | the state of `FileMgr` and `LockTable` |
| `BlockFiles` | what is left of the file manager's promise when callers do not keep each other out | the blocks of every file, the call every thread waits for, its last answer; the lengths of the files when the process started, and whether it has raced |
| `LogMgr` | `logmgr.cpp`, `logiterator.cpp` | `disk` = the log file as pages; `logpage`, `cur`, `latest`, `saved` = the members of `LogMgr`; `iter` = `LogIterator`; `pc` = where a call stands between two file operations |
| `DurableLog` | what `LogMgr` promises | `log`, and how many of its records are `durable` |
| `BufferPool` | `buffer.cpp`, `buffermgr.cpp`, `bufferlist.cpp`, block I/O of `filemgr.cpp` | `pool`, `available` = the members of `BufferMgr`; `mine` = each `BufferList`; `call`, `flushing` = the call in progress and the buffer between the two halves of `Buffer::flush`; `waiting` = pins that sleep |
| `PageStore` | what the pool promises | one value per location of every block, and whether a call is in progress |
| `Transaction` | `transaction.cpp`, `recovery/*.cpp`, startup of `simpledb.cpp` | the state of the modules above plus `state` of each Transaction object, `ctl` = the commit, rollback or recover in progress, `nextTx` = `NEXT_TX_NUM`; `torn` = does the log have a page of zeros after its last CHECKPOINT; `writes` is history |
| `AtomicStore` | what transactions promise about crashes | the durable value of every location, the uncommitted writes, the outcome of every transaction |
| `TableScan` | `recordpage.cpp`, `tablescan.cpp`, `selectscan.cpp` over a table, `basicupdateplanner.cpp` | `pages` = the blocks of the table; `scan` = each `TableScan` (block, slot, and a RID the client remembers); `pins` = the transaction's pins on the table; `stmt` = the loop of `execute_delete`, `execute_modify` or `execute_insert`; `before` is history |
| `Parser` | `parser.cpp` over the tokens of `lexer.cpp`; `QueryData::to_string` and what it calls | none: a text is a sequence of tokens, a parsing function a value and a position |
| `Layout` | `schema.cpp`, `layout.cpp` | none: a schema is the sequence of its fields, a layout their offsets and the slot size |
| `RecordPage` | `page.cpp`, `recordpage.cpp`, the body of `execute_insert` | none: a page is its bytes |
| `Catalog` | the constructor of `simpledb.cpp`, `metadatamgr.cpp`, `tablemgr.cpp`, `viewmgr.cpp`, the refresh of `statmgr.cpp`, `planner.cpp`, the catalog statements of `basicupdateplanner.cpp`, the recursion of `basicqueryplanner.cpp` | `dir` = does the directory exist; `cat`, `saved` = the rows of the catalogs now and at the last commit; `proc` = where the constructor stands; `sent`, `stmt` = a statement's text and what the parser made of it; `todo` = names still to plan; `usedTemp`, `tempLeft` = writes to files the next start removes; `torn` = a page of zeros in the log; `opened` is history |
| `Dictionary` | what the catalogs promise | the layout of every table, the query of every view, both as of the last commit |
| `RowStore` | what a table promises | rows by identifier, rows at the last commit, cursors, the latest statement's count |
| `Scans` | all scans of `src/query` and `src/materialize`, as values: a record per object, `Advance` for `next`, `BeforeFirst`, `Row` for the getters | the members of the scan classes |
| `Queries` | both query planners, the plans' `open`, `SortPlan`, and a client that fetches | `plan`, `left` = `tableplanners_`, `scan`, and the rows fetched |

**Granularity.**  An action is one call of the code, except where the code
writes to a file in the middle: there the call is split, because a crash may
fall between.  A pin that evicts is PinCall, PinEvict (the log), WritePage (the
page), PinLoad; a commit is CommitCall, FlushAllStep and WritePage for each dirty
buffer, FlushAllDone, WriteClosing, Finish.  A log append in `Transaction` is
the action of `DurableLog`, which `LogMgr` is checked to implement: a page
switch shows as older records becoming durable.  In `FileMgr` the calls of
different threads interleave, so each look into the cache, each question to the
file system, each change of the file and each store into the cache is a step,
and the mutex is held across the steps of read, write and append, but not of
length.  In `Catalog` each stage of the constructor is an action, each statement
that reaches the catalogs is one, and the planning of a query is one per table.

In `TableScan` the calls of the reader and the rounds
of a statement's loop are actions; a statement runs to its end before another
call begins, unless it is broken off, but readers stay where they were and go
on afterwards.  In `Queries` each `next` is an action and each sort or
materialization is part of the `open` that runs it.

**Races.**  The cache of `FileMgr` is an unordered map.  Two accesses of two
threads, each standing before one, overlap if the scheduler lets them, and
conflict when one inserts an entry, be it of another file, or both are on one
entry and one assigns it.  From an overlap on (`raced`) the process may miss
entries or find any number from 0 to the length of the file, and its calls may
never return, so fairness ends there.  A race is taken to damage nothing but the
map: C++ promises nothing at all after it.

**Missing files.**  A file that does not exist has no blocks: read leaves the page
as it was (`filemgr.hpp:39` says with zeros, which is so only of a new page), write
throws and gives the mutex back, append creates it.  A pool's client that pins a
block past the end would so see the block its buffer held before; clients of
`BufferPool` ask for the size first, as the code's do.  A file that
append has created and not yet extended when the process stops is taken for missing.

**Pages of zeros.**  What a stop between the two writes of a new log page leaves is
found by `LogMgr` (`log_torn`).  `DurableLog` has no pages, so the layers above
carry `torn`: a crash may set it (in `Transaction` only where exactly one record
has not reached the disk, as in a page switch), the next recovery throws of it
before it undoes anything (`ScanThrows`, `Recover`), and since only a recovery
that ends writes a CHECKPOINT, it stays for good.  Rollback stops at its own
START, which is newer than the page.

**Data.**  A block has locations with values; integers and strings are both
values of a location, and SETINT and SETSTRING are one kind of record, since
undo treats them alike.  A log record is its position and size in `LogMgr`, and
its fields in `Transaction`; bytes appear only where a page can overflow.  A
slot is its flag and a record; a temporary table is a sequence of rows, with
its block size only where a scan that is asked again after its end shows it.
Cost estimates choose the join order and nothing else, so the heuristic planner
may choose any order.  It never asks for a view and throws for a query that names
one (`TablePlannerThrows`).  A query may name a table twice: the heuristic planner
then applies a term to each copy, the basic one to the first.  In `Queries` a
view is the query it was made from; the text in between is in `Catalog`, where it
loses the quotes of string constants as in the code (a hazard on the list).  Bytes appear again in `RecordPage`, where
a wrong offset or length would write one field over another, and tokens stand
for the characters of a text in `Parser`.  The catalogs' own rows are rows, not
pages: that rows survive in pages is what `TableScan` and `InsertsReadBack` show.

**Clients.** Clients pin before they read or write, unpin what they pinned, and
do not use a transaction after its commit or rollback. Calls of one process do
not overlap (the headers say the classes are not thread-safe), except that
others run while a pin sleeps, and that the threads of `FileThreads` overlap in
the file manager, whose header says it is thread-safe; nothing is assumed of
what they call at the same time. In `Transaction`, `ExclusiveClients` says
whether clients avoid writing what another transaction has locked: the lock
table does not do it for them. `FreshNames` says whether they create each name once
and make views only of names that exist, which the catalogs do not check.
`RecoverFirst` says whether a process recovers an existing database before
anything else, as the constructor of `SimpleDB` does and `SimpleDB::with_params`
and the demos do not.

## 3. The runs

| Run | Question | Bounds | Result |
|---|---|---|---|
| `locks` | do the table and the maps agree, are locks two-phase; what is left of the file manager's promise when its calls overlap, and do they return? | 3 threads with 3 calls of size and append, or 2 with 3 calls of any kind and one of size or append; 2 files (one temporary) of up to 2 blocks appended, blocks that do not exist, 1 restart anywhere | holds |
| `file_sizes` | does an append answer with the number of its block? | the same, no two accesses to the cache overlap | violated: a length stores the size from before an append |
| `log` | is the page file the abstract log, also after restarts? | 5 records of 8 or 12 bytes, 24-byte pages (room for 20, so two or one records a page, one exact fit), 2 restarts anywhere | holds |
| `log_torn` | does the iterator return only appended records? | the same | violated: a crash between the two writes of a new page |
| `buffers` | pins, eviction, write-ahead logging, transparency | 2 clients, 3 blocks, 2 buffers, 2 pins per client and block, 1 log record | holds |
| `tx` | atomicity, durability, isolation; recovery stopped by a crash; numbers used again; files that grow; does every call end? | 2 logged writes, 1 buffer, 2 blocks, a page of zeros after a crash or not, and one of three shapes: 2 transactions in the first process and one after a crash; 1 per process, 3 in all, a block that may not be there at first, 2 crashes; 1 that also reads, asks for the size and upgrades locks | holds |
| `tx_conflict` | is a commit durable when writers conflict? | as the first shape of `tx`, clients do not avoid conflicts | violated: undo of the other writer takes it back |
| `tx_reuse` | is the store atomic when a process does not recover first? | the same blocks and writes, 2 per process, 3 in all, 2 crashes, no recovery at startup | violated: a reused number commits the crashed one |
| `updates` | is a table a relation, whatever statements and a reader do, and does every statement end? | 2 fields, 2 blocks of 2 slots, 4 statements, 1 reader with a remembered RID, failing pins, rollback, crash | holds |
| `catalog` | is what is executed what was written, do tables and views stay what they are, do rows read back, does a database open again, do startup and planning end? | 9 statements, one of every kind at least, each whole, cut off after any token or followed by more; 3 processes that stop at any step; blocks of 65 bytes | holds |
| `queries` | do plans mean their queries, and scans return what plans mean? | all tables of up to 5 rows of 3 key values for sorting and grouping; all pairs of up to 3 and 2 rows for joins, with and without a third table; 6 SQL queries given to both planners, one of a view and one with a table twice, 6 other plans; one return to the beginning at any moment | holds for inputs the scans handle |
| `query_product` | is every SQL query answered exactly? | tables of up to 2 rows, empty ones included | violated: a product whose first table is empty |

One buffer in the transaction runs makes every second pin an eviction, so
uncommitted pages reach the disk; with two blocks and two transactions it also
fills up, so that pins wait, time out, and break a rollback half way.  Two
writes to one location need the undo order; three log records per transaction
and a crash anywhere need each step of commit in its order.  Two buffers and three blocks
in the pool are the smallest with a choice of victim and a block left out.
Four statements on four slots fill a block, make the next one, free a slot and
fill it again, with a reader in between.  A length that overlaps two appends, and
the append that answers wrongly, are two threads and four calls; a shared lock
released one by one, with others left, needs three threads.  The statements of `catalog` have a table of two types, one with a field
named twice, a view of a table, a view of a view with a string constant and two
tables; 65 bytes hold three or four slots and a rest.  Three processes are a
creation cut short, an opening, and one after it.  Five rows split into up to five runs,
which take two merge iterations, one of them odd; three key values give equal
keys next to different ones.  `CHECK_DEADLOCK FALSE` where the bounds, or the
client's close, end the behaviours.

`Handled` in `Queries` names the inputs the code goes wrong on, as the model
does: a product whose first input is empty (SQL reaches it, and `query_product`
shows it), a sort of nothing (a null pointer), and a merge join that returns to
a saved position over two runs or starts over (stale flags, stale join value).
The last two kinds only callers that build plans themselves can reach.
`PlanMeansQuery` is about the plans that a planner finishes, so it says nothing of
a view given to the heuristic planner, nor, by `NamesOnce`, of a query that names
a table twice, whose meaning the code leaves open.  `NothingThrown` is about
queries that have a plan, for the same reason.

`OpensAgain` has two exceptions that are the code's, not the model's.  A process
that stops in the middle of a transaction that has written to a temporary table
(a sort, a materialization) leaves log records of a file that the next `FileMgr`
removes before recovery; undoing them writes to a file that is gone, which
throws (`tempLeft`).  One that stops between the two writes of a new log page
leaves a page of zeros (`log_torn`), of which recovery throws (`torn`).  Both are
so at every later start of `SimpleDB`.  `OpensAgain` claims nothing of a database whose constructor has never returned: a stop before its commit
leaves a directory without catalogs, and each later start throws in `StatMgr`
(`Refresh`).

`ImplementsBlockFiles` holds for whatever the callers do, since it promises
little of numbers: while no threads have raced, one that is answered is a length
the file had since the process started, and an append's is below the length it has
made.  That the number is the block's own fails (`file_sizes`): a length that asks
the file system, is overtaken by an append and stores the old size is enough, and
the lock table lets size and append of one file overlap.  `ImplementsDictionary`
needs `FreshNames`: a second CREATE TABLE of a name adds its fields to the first
one's layout.

**Fairness and liveness.**  Each liveness property assumes that a thread inside
a call goes on, and nothing of its clients: no client has to commit, unpin or
ask.

* `FileThreads`: `WF(~raced /\ Work(t))` for every thread, as an operating system
  runs a thread that is not blocked; after a race on the map nothing need go on,
  and `FileCallsReturn` claims nothing.  The mutex itself need not be fair: the calls of
  the others are finitely many (`MaxCalls`), so it becomes and stays free.
* `Transaction` (`FairSpec`): weak fairness of the next step inside a commit,
  rollback, recover or pool call, and of the retry of a pin that waits.  The
  timeout of a wait has strong fairness, since a retry that fails again disables
  nothing for long: the clock of `BufferMgr::pin` runs on while it sleeps.
  `CallsEnd` then says that no commit, rollback or recovery runs for ever, one
  whose undo finds the pool pinned included, and that a process that starts on
  an existing database finishes its recovery unless it stops, or recovery throws
  of a page of zeros and leaves its transaction open.
* `TableScan`: weak fairness of the loops of a statement, which run in the
  client's thread.  `StatementsEnd` says a statement never loops for ever.
* `Catalog`: weak fairness of the constructor's stages and of the planner's
  recursion.  `CallsEnd` says both end, also through views over views.

`Queries` claims no liveness: each fetch that is answered adds a row to the
output, and the checked state space is finite without a bound on it, so no fetch
returns rows for ever.

## 4. The proofs

TLC checks each property on a small instance; the theorems below hold for every
value of the constants.  Each proof module extends the module it is about.

| Module | Theorems |
|---|---|
| `LockTable_proofs` | `LockCountInvariant`, `LocksStrictTwoPhase` |
| `FileThreads_proofs` | `ThreadsKeepTypes`, `ThreadsStrictTwoPhase`, `FileMgrKeepsBlocks` |
| `LogMgr_proofs` | `LogKeepsTypes`, `PagesStayWellFormed`, `SavedRecordsAreOnDisk`, `IteratorFindsRecords`, `IteratorReadsBackwards`, `PagesAreALog` |
| `BufferPool_proofs` | `PoolKeepsTypes`, `PinsAreCounted`, `FreeBuffersAreCounted`, `OneCopyOfABlock`, `PagesFollowLog`, `PoolIsTransparent` |
| `Transaction_proofs` | `TransactionsKeepTypes`, `TransactionsAreAtomic`, `TransactionsReadCommitted`, `CommitsAreDurable` |
| `TableScan_proofs` | `TableKeepsTypes`, `PinsFollowScans`, `PagesAreARelation` |
| `Catalog_proofs` | `CatalogsKeepTypes`, `DatabasesOpenAgain`, `ParserReadsExactly`, `TablesAndViewsLast`, `RowsComeBack` |
| `SequenceLemmas` | none listed: what flattening, reversing and cutting sequences do, and that repeated steps make a function, by induction |

**Locks.**  `LockTable_proofs` proves, for every finite set of transactions and
any blocks, `LockSpec => [](LockTypeOK /\ LockCount)` and `LockSpec =>
StrictTwoPhase`.  The invariant is inductive once typed: `Grant` is reached only
by a transaction without the lock, so it adds one holder and one to the entry
(GrantCounts); an upgrade changes neither (UpgradeCounts); a release takes one
from each (ReleaseCounts).  The one assumption is that the transactions are
finitely many.

**Files and threads.**  The same holds for the threads of `FileThreads`: every step
of theirs is a step of `LockTable` or leaves it alone, but for a restart, which
puts it back to its initial state.  `FileMgrKeepsBlocks` is the simulation of
`BlockFiles`, without a hypothesis on the callers.  Its inductive invariant
`ThreadInv` says at which stages of which calls a thread can be and that the mutex
is held by exactly one that is inside (`MutexOK`), and that every number in the
cache or carried by a call is at most the length of its file and, unless threads
have raced, at least its length at the start (`SizesOK`).  A step of a call is a
step of `BlockFiles` where it changes a file or answers, and a stutter elsewhere;
a race is possible only while a length is in progress, since all other accesses
are under the mutex (`AccessRaces`).

**Log.**  `LogMgr_proofs` has one inductive invariant, `LogInv`: beside the types
and `PagesWellFormed`, what stands in memory and on disk at each of the points a
call can be stopped (`StageOK`), that only the last page of the file may be without
a record (`PagesFull`, which is why `next` always finds one), that the disk is
a prefix of the log and all of it behind the current page (`Behind`), and that the
iterator has read the tail of it (`IterOK`).  `PagesAreALog` maps the pages to
the sequence of their records: a page switch makes the older ones durable, a
flush all of them, a crash in the middle of a page switch none.

**Buffer pool.**  `BufferPool_proofs` proves for any clients, blocks, locations,
number of buffers and bounds on pins and log, that `PoolTypeOK`,
`OneBufferPerBlock`, `PinsMatchLists`, `AvailableCount` and `WriteAheadLog`
always hold, and that every step is a step or a stutter of `PageStore` when
clients pin only blocks that exist (`~CanPinMissing`).  The inductive invariant
`PoolInv` adds to the four state invariants:

* `LogOK`: the LSN of a buffer is a position of the log and `durable` does not
  pass its end.  Without it a flush to an LSN could leave `durable` wrong.
* `CallOK`: a pin in progress, and a pin that sleeps, is of an entry below the
  bound on pins, and its transaction does not sleep on another.  Needed because
  the pin is counted several steps after it was asked for.
* `FlushOK`: between the halves of `Buffer::flush` the log is on disk up to the
  page's LSN.  This is what makes `WriteAheadLog` an inductive matter: the
  second half writes the page without looking at the log again.
* `TokensFinite`: the pins on a buffer, one token each (transaction, block,
  number), are a finite set.  Transactions and blocks may be infinitely many,
  so the laws of cardinality need it.

`OneBufferPerBlock` needs no strengthening beyond the type: lookup and load see
the same pool, because a load is guarded by the same failed lookup
(`Hits(blk) = {}`) and the mutex lets nobody in between.  Each kind of step has a
lemma (`TakeInv`, `UnpinInv`, `DropPinsInv`, `ModifyInv`, `FlushLogInv`,
`WritePageInv`, `ControlInv`); counting goes through adding or removing one token.
The simulation adds `CleanOK`: a buffer nobody modified equals its block on
disk, and a block that is in a buffer or asked for is in the file.  So an eviction
changes no block's value as clients see it, and a load shows what the file has.

**Transactions.** `Transaction_proofs` composes the theorems about the pool and
the lock table, which it takes through `INSTANCE`, with the log and the calls of
a transaction. `TransactionsKeepTypes` needs nothing. The other three have two
hypotheses, which are constants of the model: `RecoverFirst`, a process recovers
before anything else, as the constructor of `SimpleDB` does; and
`ExclusiveClients`, a client gets a lock only where the lock table should have
given it, since the table as it is keeps nobody out. Neither can be dropped:
`tx_conflict` shows what `CommitsAreDurable` states violated without the second,
and `tx_reuse` what `TransactionsAreAtomic` states without the first. The
inductive invariant is `Base /\ Stored`: `Base` is the types of every part and
what stands at each of the points a call can be stopped at, `Stored` says how
the log, the disk, the pool and the clients' writes belong together.

* *Open records* are the changes in the log that no closing record, and no
  recovery, has settled yet. `ClosingsDurable`: a closing record is on disk
  before anything follows it, so a crash settles nothing by itself. `Owners`,
  `Since` and `ToUndoOpen`: who made the open records, and that the backward
  scans of rollback and recovery find exactly the ones they must undo.
* `Exclusive` and `DirtyLocked`: one live writer per block, and a modified page
  belongs to the holder of its lock. `Flushed`: a closing transaction's pages
  are on disk before its closing record. `Wal`: a record of a change that is not
  on disk yet has its page modified in the pool, with an LSN that covers it, so
  the page cannot be written before it.
* `OldOnDisk`: where the oldest open record of a location is not on disk yet,
  the disk still has the old value that record would restore; and `Unwritten`:
  where there is no open record, the disk has what clients see. These two are
  what a crash needs.
* `Wrote`, `Sees`: the history variable `writes` and the open records name the
  same owners, and a location reads as its writer's value.
* `Undone`: undoing the records found so far, newest first, leaves in every
  location the old value of its oldest open record (`Resolved`). This is an
  induction over the list of records to undo.

`Restored`, what the refinement shows of `Transaction` to `AtomicStore`, is
then, location by location, the old value of the oldest open record, or the disk
where there is none (`Holds`, `RestoredIs`), and the simulation goes step by
step: every step keeps what each location holds, except `Finish` of a commit,
which settles a transaction's records at once and so overlays its writes.

**Tables.**  `TableScan_proofs` proves that a table in pages is a relation, for any
numbers of fields, blocks, slots, readers and statements.  `ScanInv` is the types,
`PinsMatchScans`, that a scan that is open stands in a block of the file on a slot
or before the first, and that a statement in progress owns its scan; `Progress` says how far
a statement has come: every slot behind its scan is as the statement leaves it,
every slot ahead as it was `before`, and `count` is the number of rows changed
behind it.  At the end of the loop nothing is ahead, so the table is what
`RowStore` says the statement does, and `count` what it answers.  Pins are
counted per block by adding and removing one scan (`PinsMatchScans`), which is
why `Reader` is assumed finite.

**Parser.** `ParserReadsExactly` proves `ParserExact` for all statements of the
language, of any length, cut off anywhere. The recursive-descent functions are
recursive functions of the model, so their existence is proved first: a list
from the end of the text backwards, because every item ends behind where it
begins (`ListsExist`), a sentence forwards over its steps (`FormsExist`).
`Spells` says that a text has certain tokens between two places. Each parsing
function is then sound (what it returns is spelled where it read) and complete
(where something is spelled and nothing after it continues it, it returns that):
for the parts of a sentence in `PartsRead`, for a sentence by induction along it
in `FormSound` and `FormComplete`, for a statement in `ParseSound` and
`ParseComplete`. The sentences themselves enter only through `FormsWellFormed`
(keywords between parts, a WHERE at the end), and the dispatch through
`KindRead`. `SentText` and `TextParsed` put a cut or continued text together
with that.

**Catalogs.** `CatalogsKeepTypes`: what is entered is a part of a statement
(`TableParts`), so with `LayoutIs` (offsets and slot sizes are natural) and
`SchemaIs` (a repeated name takes its last declaration) the rows of
`TableMgr::create_table` are typed. `DatabasesOpenAgain` has an invariant of its
own, `StartInv`, which follows the row of tblcat that describes tblcat itself:
the last commit has it once a constructor has returned, recovery brings the last
commit back unless it throws of temporary writes or a page of zeros, and no
statement removes a row, so the refresh of the statistics finds it.

`TablesAndViewsLast` is the simulation of `Dictionary`, under `FreshNames`
(without it a second table of a name adds its fields to the first one's layout,
and the refinement is false). A layout read back from the rows of a schema is
the layout of the schema (`ReadBack`, `SchemaResolves`); the rows a new table
adds are found under its name and no other (`RowsMore`, `RowsBehind`,
`TableEntered`, `ViewEntered`); a view's text without string constants spells
its query, which `ParseComplete` reads back (`QueryReads`). `NewInv` adds to the
types what the constructor's stages have entered so far: a system table is
entered once. Then every action is a step of the dictionary or a stutter (the
lemmas `Sees...`, `Next_Dict`).

**Rows in a block.** `RowsComeBack` proves `InsertsReadBack` for every schema
and block size. Its invariant `LaidInv` says that every table, in the catalogs
now and at the last commit, has the layout of some schema; it follows from the
simulation above, and is false without `FreshNames`. What remains is about
bytes: the fields of a layout lie behind the flag, inside the slot and apart
from each other (`LayoutCells`, `SlotsApart`); integers of 32 bits and strings
come back from their bytes (`IntRead`, `StringRead`); the values of a row, set
in turn, leave the last one given in every field (`RowWritten`); an insert takes
the first empty slot (`InsertIs`), so repeated inserts fill the block (`FullIs`,
by induction over slots). Each byte of a row is written alike or left alone
whatever the page held before (`RowAlike`), so a row deleted and inserted again
changes no byte of the block (`AgainIsFull`).

**Assumptions.** The constants' assumptions are those the modules state, which
TLC evaluates: natural bounds, a pool and a page that are not empty, finitely
many transactions and readers, and that `None` and `Missing` are not data.
`StatementsAssumption` says that clients mean statements of the language
(`IsStatement`): identifiers are words, lists are not empty, and the declared
length of a string is not below zero (`varchar(-1)`, which the parser takes too,
is left out); what they send may be cut off or go on. `BlockSizeAssumption` says
that a block's size is an `int32_t`, as which the log writes it into its pages
(`logmgr.cpp:20`). `NamesAssumption` says that the names of the catalogs are
strings, a fact the provers have no rule for.

**Only model-checked.** Liveness (`FileCallsReturn`, `CallsEnd`, `StatementsEnd`) needs fairness
and ENABLED, which this prover cannot reason about. `Scans` and `Queries` are
about trees and use RECURSIVE operators, which it cannot expand. All other
properties of the passing runs are stated by a theorem.
Induction over the lengths of sequences and logs is done here with sets (the
least counterexample, `SetInduction` of `SequenceLemmas`); induction schemes that
take a predicate as a parameter cannot be used.

## 5. Not modelled

* I/O errors, other than a file that cannot be opened, and partial writes of one
  block: the code throws on the first and ignores the second.
* What a race on the cache of file sizes does to other memory than the cache.
* Threads above the file manager: pool, log and transactions run one call at a
  time, as their headers ask; the constructor's transaction number
  (`transaction.cpp:19`) and the temporary tables' names (`temptable.cpp:15`),
  which two threads may share.
* Log records larger than a page, slots larger than a block, strings longer than
  their field, view texts of over 100 characters, names of over 16: the code
  checks none of them.
* Values of the wrong type in insert and modify, which throw in the middle of a
  row; comparing an integer with a string.
* Declared lengths below zero (`varchar(-1)`), which the parser takes.
* How characters make tokens (`Lexer::next_token` is abstracted to its token
  types), and integer constants that overflow.
* The cache of statistics and its counter, and all cost estimates: they choose
  the join order, which may be any order here.
* Names, files and pins of temporary tables, except that they leave log records;
  updates through a select scan of anything but a table.
* The API and the shell, whose engine classes are still placeholders that throw;
  the demos, tests and examples.

## 6. Plan

Every module but `Scans` and `Queries` has its theorems.  What is left: scans as
functions over finite trees instead of RECURSIVE operators, so that what a scan
returns can be proved from what its parts return; threads above the file manager, which
the code does not support; the statistics' cache, and with it cost estimates.
