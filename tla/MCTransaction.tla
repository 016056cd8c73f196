--------------------------- MODULE MCTransaction ---------------------------
(* Three shapes of histories, one chosen at the start.  Wide: two          *)
(* transactions of a process write existing blocks, and a crash leaves     *)
(* both to the next one.  Deep: one transaction per process, which may     *)
(* append a block, with two crashes, so that a recovery can be cut short.  *)
(* Reads: the transaction also reads, asks for the size and uses blocks it *)
(* has not pinned.                                                         *)
EXTENDS Transaction

VARIABLE shape

Shapes == [wide  |-> [tx |-> 2, begins |-> 3, crashes |-> 1, reads |-> FALSE],
           deep  |-> [tx |-> 1, begins |-> 3, crashes |-> 2, reads |-> FALSE],
           reads |-> [tx |-> 1, begins |-> 1, crashes |-> 1, reads |-> TRUE]]

Read == \E t \in Tx : \/ Size(t)
                      \/ \E b \in Block : Get(t, b) \/ SetUnpinned(t, b)

MCInit == /\ Init
          /\ shape \in DOMAIN Shapes
          /\ shape = "wide" <=> \A b \in Block : disk[b] # Missing

Within(limit) == /\ nextTx' <= limit.tx
                 /\ begins' <= limit.begins /\ crashes' <= limit.crashes
                 /\ shape = "wide" /\ crashes = 1 => nextTx' <= 1 /\ writes' = writes
                 /\ limit.reads \/ ~Read

MCNext == /\ Next
          /\ Within(Shapes[shape])
          /\ UNCHANGED shape

MCSpec == MCInit /\ [][MCNext]_<<vars, shape>> /\ Fairness
============================================================================
