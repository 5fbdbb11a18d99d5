------------------------------ MODULE MCLending ------------------------------
(***************************************************************************)
(* Instances of Lending for TLC.  With a Unit of 2 (Kamino) or 5 (Drift)   *)
(* and an index that grows from 3 to 5, most amounts are rounded on their  *)
(* way to shares and back, and some are not.                               *)
(***************************************************************************)
EXTENDS LendingProps, TLC

\* Each protocol by itself over several blocks, and both on one reserve.
MCBounds ==
  {"Kamino"} :> [amounts |-> {1, 3}, slot |-> 2, moves |-> 3] @@
  {"Drift"} :> [amounts |-> {1, 3}, slot |-> 3, moves |-> 4] @@
  {"Kamino", "Drift"} :> [amounts |-> {3}, slot |-> 1, moves |-> 2]
MCDrift == {"Drift"} :> [amounts |-> {1, 2, 3}, slot |-> 3, moves |-> 5]

MCUnit == [Kamino |-> 2, Drift |-> 5]
MCFirstIndex == [Kamino |-> 3, Drift |-> 3]
MCLastIndex == [Kamino |-> 5, Drift |-> 5]
=============================================================================
