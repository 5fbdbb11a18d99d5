----------------------------- MODULE MCAtomicSwap -----------------------------
(***************************************************************************)
(* Instances of AtomicSwap for TLC.                                        *)
(***************************************************************************)
EXTENDS AtomicSwapProps

Ixs(kinds) == [i \in DOMAIN kinds |-> [kind |-> kinds[i]]]

\* Swaps that are well formed, after another instruction or alone, and the ways
\* to get one wrong: no Repay, Repay not at the end, a second Borrow, another
\* instruction before Repay.
MCIxLists == {Ixs(kinds) : kinds \in
  {<<"Borrow", "Foreign", "Repay">>, <<"Other", "Borrow", "Repay">>,
   <<"Borrow", "Foreign">>, <<"Borrow", "Repay", "Other">>,
   <<"Borrow", "Borrow", "Repay">>, <<"Borrow", "Other", "Repay">>}}

MCMaxCalls == <<3, 2>>
MCAmounts == {1, 2}
MCFees == {0, 1}
\* With 2 units per Precision and a slippage of a quarter the least price of
\* a swap is 3/4 (rounded up: 1) or 9/4 (3): both need rounding.
MCPrices == {1, 3}
=============================================================================
