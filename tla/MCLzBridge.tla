------------------------------ MODULE MCLzBridge ------------------------------
(***************************************************************************)
(* Two bridges to one destination, and a second destination that only the  *)
(* authority uses.                                                         *)
(***************************************************************************)
EXTENDS LzBridgeProps, TLC

CONSTANTS b1, b2, home, away

MCBridges == {b1, b2}
MCDestinations == {home, away}
MCDestination == b1 :> home @@ b2 :> home
MCMaxCalls == <<2, 3>>
MCAmounts == {1, 2}

Simple(kind) == [kind |-> kind]
SendTo(amount, d) == [kind |-> "Send", amount |-> amount, destination |-> d]
ResetOf(b) == [kind |-> "Reset", integration |-> b]

\* The well-formed push, at the top level or by a program that may push again,
\* with the right Send and Reset or with a wrong one, or without.
MCIxLists ==
  {<<Simple("Other")>>} \cup
  {<<Simple(first), SendTo(amount, d), ResetOf(b)>> :
     first \in {"Push", "Foreign"}, amount \in MCAmounts,
     d \in MCDestinations, b \in MCBridges} \cup
  {<<Simple("Foreign"), SendTo(1, home), Simple("Foreign")>>,
   <<Simple("Foreign"), Simple("Foreign"), ResetOf(b1)>>}
=============================================================================
