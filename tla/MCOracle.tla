------------------------------ MODULE MCOracle ------------------------------
(***************************************************************************)
(* An instance of Oracle for TLC: an authority and an outsider, two        *)
(* controllers, and two feeds with quotes of every sign.  With factors of  *)
(* 2 and 3 most divisions are rounded, and of the amounts up to 4 the      *)
(* larger ones take calc_swap_price past I128Max into its second branch.   *)
(***************************************************************************)
EXTENDS OracleProps

MCFactor == [A |-> 2, B |-> 3]
MCQuote == [f1 |-> <<3, 1, 3>>, f2 |-> <<1, -1, 0>>]
=============================================================================
