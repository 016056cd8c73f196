------------------------------ MODULE FileMgr ------------------------------
(***************************************************************************)
(* The file manager (filemgr.cpp) called by several threads.  read, write  *)
(* and append run under its mutex; length does not, and reads and fills    *)
(* the cache of file sizes open_files_ that append and write use, so its   *)
(* look into the cache, its question to the file system and its store are  *)
(* separate steps.                                                         *)
(*                                                                         *)
(* The cache is an unordered_map.  Two accesses of two threads that        *)
(* overlap are a data race when one of them inserts an entry, or both are  *)
(* on one entry and one assigns it; whether two threads that stand before  *)
(* such accesses do overlap is the scheduler's choice.  From then on the   *)
(* process may lose entries, find one before its number is in it, or never *)
(* come back from the map; other memory is taken to stay intact.           *)
(*                                                                         *)
(* A file is the sequence of its blocks, numbered from 0; a file that does *)
(* not exist has none.  One that append has created and not yet extended   *)
(* when the process stops is taken for missing.                            *)
(***************************************************************************)
EXTENDS Integers, SequencesExt

CONSTANTS Thread, File,
          TempFile,    \* the files whose names start with "temp"
          Value, Zero, None

VARIABLES files,       \* on disk
          open_files,  \* the cache of file sizes, None where it has no entry
          mutex,       \* the thread inside, or None
          req,         \* the call of every thread and where it stands
          reply,       \* what its last call returned
          raced,       \* history: has this process raced on open_files?
          old          \* history: the lengths of the files when it started

fileVars == <<files, open_files, mutex, req, reply, raced, old>>

Content == Value \cup {Zero}

Ops == {"length", "append", "read", "write"}
NoReq == [op |-> "none", file |-> None, blk |-> None, val |-> None,
          at |-> "done", n |-> 0]

FileTypeOK ==
    /\ files \in [File -> Seq(Content)]
    /\ open_files \in [File -> Nat \cup {None}]
    /\ mutex \in Thread \cup {None}
    /\ req \in [Thread -> [op : Ops \cup {"none"}, file : File \cup {None},
                           blk : Nat \cup {None}, val : Content \cup {None},
                           at : {"done", "enter", "look", "size", "store", "extend",
                                 "keep", "read", "write", "update"},
                           n : Nat]]
    /\ reply \in [Thread -> Nat \cup Content \cup {None}]
    /\ raced \in BOOLEAN /\ old \in [File -> Nat]
    /\ mutex # None => req[mutex].at \notin {"done", "enter"}

(* The constructor of a new process. *)
NoSizes  == [f \in File |-> None]
NoReqs   == [t \in Thread |-> NoReq]
NoReplies == [t \in Thread |-> None]

NewProcess == /\ open_files' = NoSizes /\ mutex' = None
              /\ req' = NoReqs /\ reply' = NoReplies
              /\ raced' = FALSE
              /\ old' = [f \in File |-> Len(files'[f])]

FileInit == /\ files = [f \in File |-> <<>>]
            /\ open_files = NoSizes /\ mutex = None
            /\ req = NoReqs /\ reply = NoReplies
            /\ raced = FALSE /\ old = [f \in File |-> 0]

FileRestart == /\ files' = [f \in File |-> IF f \in TempFile THEN <<>> ELSE files[f]]
               /\ NewProcess

----------------------------------------------------------------------------
At(t, at) == req[t].at = at
Go(t, at) == req' = [req EXCEPT ![t].at = at]
Mine(t)  == req[t].file
Length(f) == Len(files[f])

FirstStep(op) == IF op = "length" THEN "look" ELSE "enter"

Call(t, op, f, b, v) ==
    /\ req[t] = NoReq
    /\ req' = [req EXCEPT ![t] = [op |-> op, file |-> f, blk |-> b, val |-> v,
                                  at |-> FirstStep(op), n |-> 0]]
    /\ UNCHANGED <<files, open_files, mutex, reply, raced, old>>

(* Accesses to the map: every thread before one stands at its stage.       *)
Assigns(t) == req[t].at \in {"store", "keep", "update"}
Inserts(t) == Assigns(t) /\ open_files[Mine(t)] = None
Accesses(t) == At(t, "look") \/ Assigns(t)

Conflict(t, u) == \/ Inserts(t) \/ Inserts(u)
                  \/ Mine(t) = Mine(u) /\ (Assigns(t) \/ Assigns(u))

Overlaps(t) == \E u \in Thread \ {t} : Accesses(u) /\ Conflict(t, u)

MapAccess(t) == /\ raced' \in {raced, raced \/ Overlaps(t)}
                /\ UNCHANGED old

NoAccess == UNCHANGED <<raced, old>>

(* What a look may find: the entry, or after a race whatever is left of it. *)
Entries(f) == IF raced' THEN {None} \cup 0..Length(f) ELSE {open_files[f]}

(* Mutant: length takes the mutex too, also under append. *)
EnterTwice(t) == /\ At(t, "enter") /\ mutex = None
                 /\ mutex' = t
                 /\ Go(t, IF req[t].op = "append" THEN "enter" ELSE req[t].op)
                 /\ UNCHANGED <<files, open_files, reply>> /\ NoAccess

(* A thread that has got the mutex; append then calls length. *)
Enter(t) == /\ At(t, "enter") /\ mutex = None
            /\ mutex' = t
            /\ Go(t, IF req[t].op = "append" THEN "look" ELSE req[t].op)
            /\ UNCHANGED <<files, open_files, reply>> /\ NoAccess

(* Mutant: the mutex is not released. *)
ReturnLocked(t, v) == /\ req' = [req EXCEPT ![t] = NoReq]
                      /\ reply' = [reply EXCEPT ![t] = v]
                      /\ UNCHANGED mutex

Return(t, v) == /\ req' = [req EXCEPT ![t] = NoReq]
                /\ reply' = [reply EXCEPT ![t] = v]
                /\ mutex' = IF mutex = t THEN None ELSE mutex

(* length has its number: append goes on, anybody else has the answer. *)
Found(t, n) == \/ /\ req[t].op = "append"
                  /\ req' = [req EXCEPT ![t].at = "extend", ![t].n = n]
                  /\ UNCHANGED <<mutex, reply>>
               \/ /\ req[t].op = "length"
                  /\ Return(t, n)

LookHit(t) == /\ At(t, "look") /\ MapAccess(t)
              /\ \E n \in Entries(Mine(t)) \ {None} : Found(t, n)
              /\ UNCHANGED <<files, open_files>>

LookMiss(t) == /\ At(t, "look") /\ MapAccess(t)
               /\ None \in Entries(Mine(t))
               /\ Go(t, "size")
               /\ UNCHANGED <<files, open_files, mutex, reply>>

FileSize(t) == /\ At(t, "size")
               /\ req' = [req EXCEPT ![t].at = "store", ![t].n = Length(Mine(t))]
               /\ UNCHANGED <<files, open_files, mutex, reply>> /\ NoAccess

Store(t) == /\ At(t, "store") /\ MapAccess(t)
            /\ open_files' = [open_files EXCEPT ![Mine(t)] = req[t].n]
            /\ Found(t, req[t].n)
            /\ UNCHANGED files

(* Mutant: without ios::app, the block goes where seekp put the stream.    *)
ExtendAt(t) == /\ At(t, "extend")
               /\ files' = [files EXCEPT ![Mine(t)] =
                               IF req[t].n < Len(@) THEN [@ EXCEPT ![req[t].n + 1] = Zero]
                                                    ELSE Append(@, Zero)]
               /\ Go(t, "keep")
               /\ UNCHANGED <<open_files, mutex, reply>> /\ NoAccess

(* The stream appends (ios::app), wherever seekp put it. *)
Extend(t) == /\ At(t, "extend")
             /\ files' = [files EXCEPT ![Mine(t)] = Append(@, Zero)]
             /\ Go(t, "keep")
             /\ UNCHANGED <<open_files, mutex, reply>> /\ NoAccess

Keep(t) == /\ At(t, "keep") /\ MapAccess(t)
           /\ open_files' = [open_files EXCEPT ![Mine(t)] = req[t].n + 1]
           /\ Return(t, req[t].n)
           /\ UNCHANGED files

(* A page whose block does not exist keeps the bytes it had, req[t].val.   *)
ReadBlock(t) == /\ At(t, "read")
                /\ LET b == req[t].blk
                   IN  Return(t, IF b < Length(Mine(t)) THEN files[Mine(t)][b + 1]
                                                        ELSE req[t].val)
                /\ UNCHANGED <<files, open_files>> /\ NoAccess

(* A write past the end of a file leaves a gap of zeros.                   *)
Grown(s, n) == [i \in 1..n |-> IF i <= Len(s) THEN s[i] ELSE Zero]

Put(s, b, v) == IF b < Len(s) THEN [s EXCEPT ![b + 1] = v] ELSE Append(Grown(s, b), v)

WriteBlock(t) == /\ At(t, "write") /\ Length(Mine(t)) > 0
                 /\ files' = [files EXCEPT ![Mine(t)] = Put(@, req[t].blk, req[t].val)]
                 /\ Go(t, "update")
                 /\ UNCHANGED <<open_files, mutex, reply>> /\ NoAccess

(* The file cannot be opened: write throws, and the guard gives the mutex back. *)
WriteFails(t) == /\ At(t, "write") /\ Length(Mine(t)) = 0
                 /\ Return(t, reply[t])
                 /\ UNCHANGED <<files, open_files>> /\ NoAccess

(* update_file_size; write returns nothing. *)
UpdateSize(t) == /\ At(t, "update") /\ MapAccess(t)
                 /\ open_files' = [open_files EXCEPT ![Mine(t)] = Length(Mine(t))]
                 /\ Return(t, reply[t])
                 /\ UNCHANGED files

FileStep(t) == \/ Enter(t) \/ LookHit(t) \/ LookMiss(t) \/ FileSize(t) \/ Store(t)
               \/ Extend(t) \/ Keep(t) \/ ReadBlock(t) \/ WriteBlock(t) \/ WriteFails(t)
               \/ UpdateSize(t)

----------------------------------------------------------------------------
(* A call as its caller sees it.  An append has added its block when it    *)
(* keeps the size, a write has had its effect when it looks at the file    *)
(* again.                                                                  *)
NoCall == [op |-> "none", file |-> None, blk |-> None, val |-> None]

Pending(r) == IF r.at = "update" THEN NoCall
              ELSE [op   |-> IF r.at = "keep" THEN "added" ELSE r.op,
                    file |-> r.file, blk |-> r.blk, val |-> r.val]

Calls == [t \in Thread |-> Pending(req[t])]

Blocks == INSTANCE BlockFiles WITH file <- files, call <- Calls, answer <- reply

(* Every call of every thread takes effect at one instant on files without *)
(* a cache, across races on the cache, restarts and blocks that do not     *)
(* exist: an append adds a block and never writes over one, however wrong  *)
(* the number it was given; a read finds the last write; a temporary file  *)
(* of a new process starts empty; and while no two threads have raced, a   *)
(* length or an append answers with a number of blocks that the file had   *)
(* since the process started (filemgr.cpp read, write, append, length).    *)
ImplementsBlockFiles == Blocks!BlockSpec

(* Every call returns, in a process that has not raced: append holds the   *)
(* mutex while it calls length, which takes none (std::mutex cannot be     *)
(* taken twice by a thread), and a write that throws gives it back.        *)
FileCallsReturn == \A t \in Thread : req[t] # NoReq ~> (req[t] = NoReq \/ raced)

(* "All file operations are thread-safe" (filemgr.hpp:21) and "@return the *)
(* block identifier of the newly appended block" (filemgr.hpp:58): an      *)
(* append answers with the number of the block it has added, at least in a *)
(* process where no two accesses to the cache have overlapped.             *)
AppendNamesItsBlock ==
    [][\A t \in Thread : At(t, "keep") /\ ~raced' /\ req'[t] = NoReq
          => reply'[t] \in {Length(Mine(t)) - 1, None}]_fileVars
=============================================================================
