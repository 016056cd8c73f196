----------------------------- MODULE PageStore -----------------------------
(***************************************************************************)
(* What a buffer pool promises to its clients: one value per location of   *)
(* every block, whichever blocks are in memory and whatever is evicted,    *)
(* loaded or flushed in between.                                           *)
(***************************************************************************)
CONSTANTS Block, Offset, Value, Zero, Missing

VARIABLES page,   \* the contents of every block, Missing past the file's end
          busy    \* is a call of the pool under way?

storeVars == <<page, busy>>

Contents == [Offset -> Value]
ZeroPage == [o \in Offset |-> Zero]

StoreInit == page \in [Block -> Contents \cup {Missing}] /\ busy = FALSE

StoreWrite(b, o, v) == /\ page[b] # Missing
                       /\ page' = [page EXCEPT ![b][o] = v]

StoreAppend(b) == /\ page[b] = Missing
                  /\ page' = [page EXCEPT ![b] = ZeroPage]

(* Only clients change pages; what the pool does for a pin, a flush or a   *)
(* wait leaves all of them alone.                                          *)
StoreClient == /\ ~busy /\ UNCHANGED busy
               /\ \E b \in Block :
                     \/ StoreAppend(b)
                     \/ \E o \in Offset, v \in Value : StoreWrite(b, o, v)

StorePool == busy' \in BOOLEAN /\ UNCHANGED page

StoreSpec == StoreInit /\ [][StoreClient \/ StorePool]_storeVars
============================================================================
