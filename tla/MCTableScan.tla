---------------------------- MODULE MCTableScan ----------------------------
(* Rows of two fields; predicates, new rows and right-hand sides that tell *)
(* the fields apart and leave one of them unset.                           *)
EXTENDS TableScan, TLC

CONSTANTS a, b

MCPred   == {<< >>, a :> 1}
MCNewRow == {(a :> 1) @@ (b :> 0), b :> 1}
MCExpr   == {0, b}
============================================================================
