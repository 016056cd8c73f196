---------------------------- MODULE AtomicStore ----------------------------
(***************************************************************************)
(* What transactions promise about what survives: the store is the state   *)
(* a restart would bring back.  It changes only when a transaction         *)
(* commits, then by all of its writes at once; rollbacks and crashes       *)
(* forget writes and leave the store alone.                                *)
(***************************************************************************)
CONSTANTS Tx, Block, Offset, Value, None

VARIABLES store,    \* the durable value of every location
          writes,   \* the uncommitted writes of every transaction
          outcome   \* what every transaction of the process has come to

storeVars == <<store, writes, outcome>>

NoWrites  == [b \in Block |-> [o \in Offset |-> None]]
NoOutcome == [t \in Tx |-> "none"]

Overlay(w) == [b \in Block |-> [o \in Offset |->
                  IF w[b][o] = None THEN store[b][o] ELSE w[b][o]]]

AtomicInit == /\ store \in [Block -> [Offset -> Value]]
              /\ writes = [t \in Tx |-> NoWrites]
              /\ outcome = NoOutcome

AtomicBegin(t) == /\ outcome[t] = "none"
                  /\ outcome' = [outcome EXCEPT ![t] = "active"]
                  /\ UNCHANGED <<store, writes>>

AtomicWrite(t, b, o, v) == /\ outcome[t] = "active"
                           /\ writes' = [writes EXCEPT ![t][b][o] = v]
                           /\ UNCHANGED <<store, outcome>>

End(t, how) == /\ outcome[t] = "active"
               /\ outcome' = [outcome EXCEPT ![t] = how]
               /\ writes' = [writes EXCEPT ![t] = NoWrites]

AtomicCommit(t)   == End(t, "committed") /\ store' = Overlay(writes[t])
AtomicRollback(t) == End(t, "rolled back") /\ UNCHANGED store

AtomicCrash == /\ writes' = [t \in Tx |-> NoWrites]
               /\ outcome' = NoOutcome
               /\ UNCHANGED store

AtomicNext ==
    \/ AtomicCrash
    \/ \E t \in Tx :
         \/ AtomicBegin(t) \/ AtomicCommit(t) \/ AtomicRollback(t)
         \/ \E b \in Block, o \in Offset, v \in Value : AtomicWrite(t, b, o, v)

AtomicSpec == AtomicInit /\ [][AtomicNext]_storeVars
============================================================================
