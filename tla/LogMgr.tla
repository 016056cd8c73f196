------------------------------- MODULE LogMgr -------------------------------
(***************************************************************************)
(* The log file (logmgr.cpp, logiterator.cpp): pages filled from their end *)
(* towards the boundary word at offset 0, one page in memory, the others   *)
(* on disk, and an iterator that reads them newest first.                  *)
(*                                                                         *)
(* A page is its boundary and the records a reader meets from there to the *)
(* end of the block, newest first.  A record is its position in the log    *)
(* and the bytes it takes, its length prefix included.  A page of zeros,   *)
(* which FileMgr::append leaves on disk until the next write formats it,   *)
(* has boundary 0 and reads as empty records of 4 bytes each.              *)
(*                                                                         *)
(* One process uses the file at a time and its calls do not overlap (the   *)
(* class is documented as not thread-safe); the process may stop between   *)
(* any two file operations and another one then opens the file.            *)
(***************************************************************************)
EXTENDS Integers, SequencesExt

CONSTANTS BlockSize,   \* bytes of a block
          RecSize,     \* bytes needed by the records that are appended
          MaxRecords,  \* bound: records in the log
          MaxCrashes   \* bound: restarts

ASSUME LogMgrAssumption ==
    /\ BlockSize \in Nat /\ BlockSize >= 8 /\ BlockSize % 4 = 0
    /\ RecSize \subseteq 4..(BlockSize - 4)   \* append checks no upper limit
    /\ MaxRecords \in Nat /\ MaxCrashes \in Nat

VARIABLES disk,      \* the log file: a sequence of pages
          logpage,   \* LogMgr::logpage_
          cur,       \* LogMgr::currentblk_ counted from 1, 0 before the first
          latest,    \* LogMgr::latest_lsn_
          saved,     \* LogMgr::last_saved_lsn_
          base,      \* records on disk when this process opened the log
          pc,        \* where the call in progress stands
          pending,   \* the record append holds while it allocates a page
          iter,      \* the LogIterator: block, unread part of its page
          read,      \* what the iterator has returned so far
          crashes

vars == <<disk, logpage, cur, latest, saved, base, pc, pending, iter, read, crashes>>
memory == <<logpage, cur, latest, saved, base>>

Record == [lsn : 1..MaxRecords, size : RecSize]
NoRecord == [lsn |-> 0, size |-> 0]
EmptyRecord == [lsn |-> 0, size |-> 4]

ZeroPage  == [boundary |-> 0,
              recs |-> [i \in 1..(BlockSize \div 4) |-> EmptyRecord]]
FreshPage == [boundary |-> BlockSize, recs |-> <<>>]

Real(recs)   == FlattenSeq([i \in DOMAIN recs |->
                              IF recs[i] = EmptyRecord THEN <<>> ELSE <<recs[i]>>])
RecordsOf(p) == Reverse(Real(p.recs))
RecordsIn(pages) == FlattenSeq([i \in DOMAIN pages |-> RecordsOf(pages[i])])

(* The log as the running process knows it, and as the disk holds it. *)
OnDisk == RecordsIn(disk)
Known  == RecordsIn(SubSeq(disk, 1, cur - 1)) \o RecordsOf(logpage)

Closed == /\ logpage' = ZeroPage /\ cur' = 0
          /\ latest' = 0 /\ saved' = 0 /\ base' = 0
          /\ pending' = NoRecord
          /\ iter' = [blk |-> 0, rest |-> <<>>] /\ read' = <<>>

Init == /\ disk = <<>> /\ logpage = ZeroPage /\ cur = 0
        /\ latest = 0 /\ saved = 0 /\ base = 0
        /\ pc = "closed" /\ pending = NoRecord
        /\ iter = [blk |-> 0, rest |-> <<>>] /\ read = <<>>
        /\ crashes = 0

----------------------------------------------------------------------------
(* Mutant: the constructor allocates a page whether or not the log has one. *)
OpenExtends == /\ pc = "closed"
               /\ cur' = Len(disk)
               /\ base' = Len(OnDisk)
               /\ pc' = "extend"
               /\ UNCHANGED <<disk, logpage, latest, saved, pending, iter, read, crashes>>

(* The constructor: a new log allocates its first page, an existing one    *)
(* loads the last page of the file.                                        *)
Open == /\ pc = "closed"
        /\ cur' = Len(disk)
        /\ base' = Len(OnDisk)
        /\ \/ /\ disk = <<>>
              /\ pc' = "extend"
              /\ UNCHANGED logpage
           \/ /\ disk # <<>>
              /\ logpage' = Last(disk)
              /\ pc' = "ready"
        /\ UNCHANGED <<disk, latest, saved, pending, iter, read, crashes>>

FlushImpl == /\ disk' = [disk EXCEPT ![cur] = logpage]
             /\ saved' = latest

(* Mutants: no test for room, and one that forgets the boundary word. *)
FitsAlways(size, boundary) == TRUE
FitsOverBoundary(size, boundary) == ~ (boundary - size < 0)

Fits(size, boundary) == ~ (boundary - size < 4)

Put(page, r) == [boundary |-> page.boundary - r.size, recs |-> <<r>> \o page.recs]

NextRecord(size) == [lsn |-> Len(Known) + 1, size |-> size]

(* append, when the record fits the page in memory. *)
AppendHere(size) ==
    /\ pc = "ready" /\ Len(Known) < MaxRecords
    /\ Fits(size, logpage.boundary)
    /\ logpage' = Put(logpage, NextRecord(size))
    /\ latest' = latest + 1
    /\ UNCHANGED <<disk, cur, saved, base, pc, pending, iter, read, crashes>>

(* Mutant: the new page is allocated without writing the full one. *)
AppendNoFlush(size) ==
    /\ pc = "ready" /\ Len(Known) < MaxRecords
    /\ ~ Fits(size, logpage.boundary)
    /\ pending' = NextRecord(size)
    /\ pc' = "extend"
    /\ UNCHANGED <<disk, logpage, cur, latest, saved, base, iter, read, crashes>>

(* append, when it does not: the full page is written first ... *)
AppendFlush(size) ==
    /\ pc = "ready" /\ Len(Known) < MaxRecords
    /\ ~ Fits(size, logpage.boundary)
    /\ FlushImpl
    /\ pending' = NextRecord(size)
    /\ pc' = "extend"
    /\ UNCHANGED <<logpage, cur, latest, base, iter, read, crashes>>

(* ... append_new_block_helper then extends the file by zeros ... *)
Extend == /\ pc = "extend"
          /\ disk' = Append(disk, ZeroPage)
          /\ pc' = "format"
          /\ UNCHANGED <<memory, pending, iter, read, crashes>>

(* ... formats the page and writes it, and only then does append put the   *)
(* record into the page in memory (the constructor has no record to put).  *)
Format ==
    /\ pc = "format"
    /\ disk' = [disk EXCEPT ![Len(disk)] = FreshPage]
    /\ cur' = Len(disk)
    /\ \/ /\ pending = NoRecord
          /\ logpage' = FreshPage
          /\ UNCHANGED latest
       \/ /\ pending # NoRecord
          /\ logpage' = Put(FreshPage, pending)
          /\ latest' = latest + 1
    /\ pending' = NoRecord
    /\ pc' = "ready"
    /\ UNCHANGED <<saved, base, iter, read, crashes>>

(* Mutant: flush counts records as saved without writing the page. *)
FlushForgets(lsn) ==
    /\ pc = "ready"
    /\ lsn >= saved
    /\ saved' = latest
    /\ UNCHANGED <<disk, logpage, cur, latest, base, pc, pending, iter, read, crashes>>

Flush(lsn) == /\ pc = "ready"
              /\ lsn >= saved
              /\ FlushImpl
              /\ UNCHANGED <<logpage, cur, latest, base, pc, pending, iter, read, crashes>>

----------------------------------------------------------------------------
(* iterator() flushes and starts at the current block; the caller reads it *)
(* to the end (or as far as it likes) before it appends again.             *)
Iterator == /\ pc = "ready"
            /\ FlushImpl
            /\ iter' = [blk |-> cur, rest |-> logpage.recs]
            /\ read' = <<>>
            /\ pc' = "iterating"
            /\ UNCHANGED <<logpage, cur, latest, base, pending, crashes>>

(* Mutant: has_next forgets the blocks before the current one. *)
HasNextInPage == iter.rest # <<>>

HasNext == iter.rest # <<>> \/ iter.blk > 1

(* next: an exhausted page moves to the block before it, where get_bytes   *)
(* throws if there is no record at all.                                    *)
NextBlock == IF iter.rest # <<>> THEN iter.blk ELSE iter.blk - 1
NextRecs  == IF iter.rest # <<>> THEN iter.rest ELSE disk[NextBlock].recs

IterNext ==
    /\ pc = "iterating" /\ HasNext
    /\ NextRecs # <<>>
    /\ read' = Append(read, Head(NextRecs))
    /\ iter' = [blk |-> NextBlock, rest |-> Tail(NextRecs)]
    /\ UNCHANGED <<disk, memory, pc, pending, crashes>>

IterDone == /\ pc = "iterating"
            /\ pc' = "ready"
            /\ iter' = [blk |-> 0, rest |-> <<>>] /\ read' = <<>>
            /\ UNCHANGED <<disk, memory, pending, crashes>>

Crash == /\ pc # "closed" /\ crashes < MaxCrashes
         /\ crashes' = crashes + 1
         /\ pc' = "closed"
         /\ Closed
         /\ UNCHANGED disk

Next == \/ Open \/ Extend \/ Format \/ Iterator \/ IterNext \/ IterDone \/ Crash
        \/ \E size \in RecSize : AppendHere(size) \/ AppendFlush(size)
        \/ \E lsn \in 1..latest : Flush(lsn)

Spec == Init /\ [][Next]_vars
----------------------------------------------------------------------------
PageType == [boundary : 0..BlockSize,
             recs : Seq(Record \cup {EmptyRecord})]

(* The boundary word is always the offset of the newest record: the bytes  *)
(* from there to the end of the block are exactly the records of the page, *)
(* and the 4 bytes of the word itself belong to none of them.              *)
Bytes(recs) ==
    LET bytes[i \in 0..Len(recs)] == IF i = 0 THEN 0 ELSE bytes[i - 1] + recs[i].size
    IN  bytes[Len(recs)]

WellFormed(p) ==
    \/ p = ZeroPage
    \/ /\ p.boundary = BlockSize - Bytes(p.recs)
       /\ p.boundary >= 4

TypeOK == /\ disk \in Seq(PageType)
          /\ logpage \in PageType
          /\ cur \in 0..Len(disk)
          /\ {latest, saved, base} \subseteq 0..MaxRecords
          /\ pc \in {"closed", "extend", "format", "ready", "iterating"}
          /\ pending \in Record \cup {NoRecord}
          /\ iter \in [blk : 0..Len(disk), rest : Seq(Record \cup {EmptyRecord})]
          /\ read \in Seq(Record \cup {EmptyRecord})
          /\ crashes \in 0..MaxCrashes

(* No append overwrites the boundary word or a record already in the page, *)
(* in memory or on disk (LogMgr::append's "leave at least 4 bytes").       *)
PagesWellFormed == /\ WellFormed(logpage)
                   /\ \A i \in DOMAIN disk : WellFormed(disk[i])

(* What rollback and recovery read is the log backwards: the records       *)
(* returned are, in order and without a gap, the newest of the log, and    *)
(* when has_next says no more, all of it; bytes of a page that a crash     *)
(* left unformatted add only empty records.                                *)
IteratorReadsLog ==
    pc = "iterating" =>
        /\ IsPrefix(Real(read), Reverse(Known))
        /\ ~HasNext => Real(read) = Reverse(Known)

(* While has_next is true, next has a record to return, in this page or    *)
(* the one before it: the iterator of a log never throws.                  *)
IteratorNeverThrows == pc = "iterating" /\ HasNext => NextRecs # <<>>

(* "Creates an iterator to read log records backward from most recent":    *)
(* all it returns are records that were appended.                          *)
IteratorReadsOnlyRecords == \A i \in DOMAIN read : read[i] # EmptyRecord

(* The LSN append returned names a record, also after restarts and however *)
(* the records fell into pages, and one at or below last_saved_lsn_, which *)
(* flush(lsn) therefore skips, is on disk: the write-ahead rule rests on   *)
(* this counter and never looks at the pages.                              *)
SavedIsDurable ==
    pc # "closed" => /\ base + latest = Len(Known)
                     /\ base + saved <= Len(OnDisk)

(* The page file implements the abstract log: nothing that was appended is *)
(* lost, doubled or reordered by paging, and a crash keeps exactly what    *)
(* was flushed.                                                            *)
AbstractLog == IF pc = "closed" THEN OnDisk ELSE Known

DL == INSTANCE DurableLog WITH LogRecord <- Record,
                               log <- AbstractLog,
                               durable <- Len(OnDisk)

ImplementsDurableLog == DL!LogSpec
============================================================================
