------------------------------ MODULE MCReserve ------------------------------
(***************************************************************************)
(* Instances of Reserve for TLC, its properties, and its mutants.          *)
(***************************************************************************)
EXTENDS ReserveProps

\* A day of 3 seconds: slope 1 earns a third of a token a second, slope 4
\* more than one, so that fractions, whole tokens and both at once occur.
MCSlopes == {1, 4}
MCMaxOuts == {0, 2, 7}
\* The cap 7 is U64Max, the reserve without a limit.
MCAmounts == {1, 3}
MCElapses == {0, 1, 2}
=============================================================================
