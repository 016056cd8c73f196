----------------------------- MODULE BlockFiles -----------------------------
(***************************************************************************)
(* What is left of the file manager's promise when its callers do not keep *)
(* each other out: files without a cache of sizes.  A call is asked for    *)
(* and answered, and takes effect at one instant in between.  An append    *)
(* adds one block of zeros after the last, whatever number it answers      *)
(* with; reads and writes are exact; the number of blocks that a length or *)
(* an append answers with is one that the file had at some time since the  *)
(* process started, unless the cache has been torn by a race, and that     *)
(* takes a length in progress.                                             *)
(***************************************************************************)
EXTENDS Integers, Sequences

CONSTANTS Thread, File, TempFile, Value, Zero, None

VARIABLES file,     \* the blocks of every file
          call,     \* the call every thread waits for
          answer,   \* what its last call returned
          old,      \* the length of every file when the process started
          raced     \* has the process raced on its cache?

blockVars == <<file, call, answer, old, raced>>

NoCall == [op |-> "none", file |-> None, blk |-> None, val |-> None]

BlockInit == /\ file = [f \in File |-> <<>>]
             /\ call = [t \in Thread |-> NoCall]
             /\ answer = [t \in Thread |-> None]
             /\ old = [f \in File |-> 0]
             /\ raced = FALSE

Asked(t, op) == call[t].op = op
Blk(t)       == call[t].blk
Own(t)       == call[t].file
Blocks(t)    == file[Own(t)]

Answer(t, v) == /\ answer' = [answer EXCEPT ![t] = v]
                /\ call' = [call EXCEPT ![t] = NoCall]

Calls == [op : {"length", "append", "read", "write"}, file : File,
          blk : Nat \cup {None}, val : Value \cup {Zero, None}]

Ask(t) == /\ call[t] = NoCall
          /\ call'[t] \in Calls /\ call' = [call EXCEPT ![t] = call'[t]]
          /\ UNCHANGED <<file, answer>>

Add(t) == /\ Asked(t, "append")
          /\ file' = [file EXCEPT ![Own(t)] = Append(@, Zero)]
          /\ call' = [call EXCEPT ![t].op = "added"]
          /\ UNCHANGED answer

(* The least number a cached size may have.                                *)
Floor(f) == IF raced' THEN 0 ELSE old[f]

Sizes(t) == /\ \/ /\ Asked(t, "length")
                  /\ \E n \in Floor(Own(t))..Len(Blocks(t)) : Answer(t, n)
               \/ /\ Asked(t, "added")
                  /\ \E n \in Floor(Own(t))..(Len(Blocks(t)) - 1) : Answer(t, n)
            /\ UNCHANGED file

(* A block that does not exist leaves the page as it was.                  *)
Read(t) == /\ Asked(t, "read")
           /\ Answer(t, IF Blk(t) < Len(Blocks(t)) THEN Blocks(t)[Blk(t) + 1]
                                                   ELSE call[t].val)
           /\ UNCHANGED file

(* A write past the end of a file fills the gap with zeros.                *)
Grown(s, n) == [i \in 1..n |-> IF i <= Len(s) THEN s[i] ELSE Zero]

Put(s, b, v) == IF b < Len(s) THEN [s EXCEPT ![b + 1] = v] ELSE Append(Grown(s, b), v)

Write(t) == /\ Asked(t, "write")
            /\ file' = IF Blocks(t) = <<>> THEN file
                       ELSE [file EXCEPT ![Own(t)] = Put(@, Blk(t), call[t].val)]
            /\ Answer(t, answer[t])

BlockStep(t) == /\ \/ Ask(t) \/ Add(t) \/ Sizes(t) \/ Read(t) \/ Write(t)
                   \/ UNCHANGED <<file, call, answer>>
                /\ raced' => raced \/ \E u \in Thread : Asked(u, "length")
                /\ raced => raced'
                /\ UNCHANGED old

(* A new process finds the files of the last one, but no temporary file.   *)
BlockRestart == /\ file' = [f \in File |-> IF f \in TempFile THEN <<>> ELSE file[f]]
                /\ call' = [t \in Thread |-> NoCall]
                /\ answer' = [t \in Thread |-> None]
                /\ old' = [f \in File |-> Len(file'[f])]
                /\ raced' = FALSE

BlockNext == BlockRestart \/ \E t \in Thread : BlockStep(t)

BlockSpec == BlockInit /\ [][BlockNext]_blockVars
=============================================================================
