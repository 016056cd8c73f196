--------------------------- MODULE MCFileThreads ---------------------------
(* Three threads that make three calls of size and append, so that a lock  *)
(* shared by three is released one by one; or two of them, whose first     *)
(* three calls are of any kind, and then one of size or append, so that a  *)
(* length overlaps two appends, with a restart before, between or after    *)
(* them, and a number it has carried along is asked for again.  Two files, *)
(* one of them temporary, so that a release drops some locks and keeps     *)
(* others.  A page that is loaded holds the bytes of another block, which  *)
(* are not zeros.                                                          *)
EXTENDS FileThreads

CONSTANT Third

ThirdIdle == /\ req'[Third] = NoReq /\ reply'[Third] = None
             /\ \A f \in Block : held'[Third][f] = "none"

NoPages   == \A t \in Tx : req'[t].op \notin {"read", "write"}
UsedPages == \A t \in Tx : req'[t].op = "read" => req'[t].val # Zero

MCNext == /\ Next /\ UsedPages
          /\ calls' > 3 => ThirdIdle /\ NoPages
          /\ ThirdIdle \/ NoPages

MCSpec == Init /\ [][MCNext]_vars /\ Fairness
=============================================================================
