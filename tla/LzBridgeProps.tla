---------------------------- MODULE LzBridgeProps ----------------------------
(***************************************************************************)
(* What bridging with LayerZero guarantees.                                *)
(***************************************************************************)
EXTENDS LzBridge, FiniteSetsExt

\* The accounts have their types at every point of a transaction.
LzTypeOK ==
  /\ chain.controller \in ControllerStatus
  /\ chain.integrations \in [Bridges -> Integrations]
  /\ chain.reserve \in Reserves
  /\ chain.vault \in 0 .. Supply
  /\ chain.source \in 0 .. Supply
  /\ chain.pushed \in [Destinations -> Nat]
  /\ chain.bridged \in [Destinations -> Nat]

\* No integration is stuck: between two transactions no push is in flight,
\* also when the controller was frozen or the integration suspended while one
\* was.
NoneInFlight ==
  Idle => \A b \in Bridges : ~chain.integrations[b].inFlight

\* Nothing is diverted: what the integrations pushed to the authority's account
\* has been bridged to the destinations they are configured for, however often
\* Push was called in a transaction, for whichever integrations, and whatever
\* the authority did with its account in between.
BridgedCoversPushed ==
  Idle => \A d \in Destinations : chain.pushed[d] <= chain.bridged[d]

\* Every token is charged to the limit of a bridge: what was pushed towards a
\* destination is what its bridges' rate limits have lost, although the program
\* debits two limits of two accounts one after the other, and pushes, resets
\* and reconfigurations come in any order.
LimitsCharged ==
  \A d \in Destinations :
    chain.pushed[d] =
      MapThenSumSet(LAMBDA b : chain.integrations[b].max
                                 - chain.integrations[b].avail,
                    {b \in Bridges : Destination[b] = d})

-----------------------------------------------------------------------------
\* The reserve as the component that module Reserve specifies.  This model does
\* not add up its events.
Component == INSTANCE Reserve WITH
               reserve <- chain.reserve, vault <- chain.vault,
               ledger <- chain.reserve.lastBalance,
               Slopes <- U64, MaxOuts <- U64, Amounts <- 1 .. Supply,
               Elapses <- {}, MaxTime <- 0, MaxSlot <- 0

RolledBack == tx' = NoTransaction /\ chain' \in tx.saved

\* The reserve does nothing that module Reserve does not know: each instruction
\* of a transaction is one of its operations, with all of its conditions, or
\* leaves the reserve and its vault alone, and a transaction that fails takes
\* them back to where it found them.
ReserveIsComponent ==
  [][RolledBack \/ Component!Next \/ UNCHANGED <<chain.reserve, chain.vault>>]_lzVars
=============================================================================
