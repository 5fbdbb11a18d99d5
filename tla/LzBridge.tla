------------------------------- MODULE LzBridge -------------------------------
(***************************************************************************)
(* Bridging with LayerZero: the Push of an LzBridge integration pays the   *)
(* tokens of a reserve to the token account of the authority that signs,   *)
(* and trusts the next instruction of the transaction, Send of the OFT     *)
(* program, to bridge them.  A flag in the integration, cleared by Reset,  *)
(* the last instruction, keeps a second Push from relying on the same      *)
(* Send.                                                                   *)
(*                                                                         *)
(* The kinds of instructions are "Push", "Send" (with an amount and a      *)
(* destination), "Reset" (with an integration), "Other" and "Foreign".     *)
(* Signers have the permissions that the handlers ask for: that is the     *)
(* subject of module Governance.                                           *)
(***************************************************************************)
EXTENDS ReserveState, Transaction, FiniteSets

CONSTANTS Bridges,        \* the LzBridge integrations, all of one reserve
          Destinations,   \* the remote addresses that are configured or not
          Destination,    \* LzBridgeConfig: the destination of each bridge
          Amounts,        \* the amounts moved by one instruction or transfer
          Supply,         \* bound on what one token account holds
          MaxOut,         \* rate_limit_max_outflow of the bridges
          Held            \* what the vault holds at first

Instructions ==
  [kind : {"Push", "Other", "Foreign"}]
    \cup [kind : {"Send"}, amount : Nat, destination : Destinations]
    \cup [kind : {"Reset"}, integration : Bridges]

ASSUME LzBridgeAssumption ==
  /\ IsFiniteSet(Bridges)
  /\ IxLists \subseteq Seq(Instructions) \ {<<>>}
  /\ Destination \in [Bridges -> Destinations]
  /\ Amounts \subseteq Nat \ {0}
  /\ Supply \in U64 /\ MaxOut \in U64 /\ Held \in 0 .. Supply

\* The block in which the transactions are executed; what time does to a rate
\* limit is the subject of module Reserve.
clock == [ts |-> 0, slot |-> 0]

lzVars == <<chain, tx, txs>>

ControllerStatus == {"Active", "Frozen", "PushPullFrozen"}

\* The integration accounts: status, rate limit and LzBridgeState.
Integrations ==
  [status : {"Active", "Suspended"}, slope : U64, max : U64, avail : U64,
   rem : 0 .. (SecondsPerDay - 1), ts : Nat, slot : Nat, inFlight : BOOLEAN]

Init ==
  /\ chain =
       [controller |-> "Active",
        integrations |->
          [b \in Bridges |->
             [status |-> "Active", slope |-> 0, max |-> MaxOut,
              avail |-> MaxOut, rem |-> 0, ts |-> 0, slot |-> 0,
              inFlight |-> FALSE]],
        reserve |-> [InitReserve("Active", 0, U64Max, clock)
                       EXCEPT !.lastBalance = Held],
        vault |-> Held,
        source |-> 0,
        pushed |-> [d \in Destinations |-> 0],
        bridged |-> [d \in Destinations |-> 0]]
  /\ tx = NoTransaction
  /\ txs = 0

-----------------------------------------------------------------------------
\* Mutant: the Reset may be that of another integration.
VerifySendOnly(bridge, amount) ==
  /\ tx.pc = Last - 2
  /\ Kind(Last) = "Reset"
  /\ Kind(Last - 1) = "Send"
  /\ tx.ixs[Last - 1].amount = amount
  /\ tx.ixs[Last - 1].destination = Destination[bridge]

\* Mutant: the last instruction is not looked at.
VerifyNoReset(bridge, amount) ==
  /\ tx.pc = Last - 2
  /\ Kind(Last - 1) = "Send"
  /\ tx.ixs[Last - 1].amount = amount
  /\ tx.ixs[Last - 1].destination = Destination[bridge]

\* The transaction ends with this instruction, the Send of the same amount to
\* the configured destination, and the Reset of this integration.  Unlike the
\* loan of an atomic swap this Push may have been called by another program.
VerifySend(bridge, amount) ==
  /\ Last >= 3
  /\ tx.pc = Last - 2
  /\ Kind(Last) = "Reset"
  /\ tx.ixs[Last].integration = bridge
  /\ Kind(Last - 1) = "Send"
  /\ tx.ixs[Last - 1].amount = amount
  /\ tx.ixs[Last - 1].destination = Destination[bridge]

Synced == SyncBalance(chain.reserve, chain.vault, clock)

\* Mutant: only the reserve's rate limit is checked.
PayableByReserve(i, amount) ==
  /\ amount <= chain.vault
  /\ WithinRateLimit(Synced, amount)

\* Mutant: the vault's balance is not looked at.
PayableUncovered(i, amount) ==
  /\ WithinRateLimit(i, amount)
  /\ WithinRateLimit(Synced, amount)

\* The vault and both rate limits cover the amount.
Payable(i, amount) ==
  /\ amount <= chain.vault
  /\ WithinRateLimit(i, amount)
  /\ WithinRateLimit(Synced, amount)

Push(bridge, amount) ==
  LET i == RefreshRateLimit(chain.integrations[bridge], clock)
  IN  /\ Runs("Push")
      /\ chain.controller = "Active"
      /\ i.status = "Active"
      /\ chain.reserve.status = "Active"
      /\ ~i.inFlight
      /\ VerifySend(bridge, amount)
      /\ Payable(i, amount)
      /\ chain.source + amount <= Supply
      /\ chain' =
           [chain EXCEPT
              !.integrations[bridge] =
                 [DebitRateLimit(i, amount) EXCEPT !.inFlight = TRUE],
              !.reserve = UpdateForOutflow(Synced, amount),
              !.vault = @ - amount,
              !.source = @ + amount,
              !.pushed[Destination[bridge]] = @ + amount]
      /\ tx' = Stepped
      /\ UNCHANGED txs

\* The OFT program burns or locks the tokens of the authority that signs.
Send(amount, destination) ==
  /\ Runs("Send")
  /\ ~CurrentIsForeign =>
       tx.ixs[tx.pc] = [kind |-> "Send", amount |-> amount,
                        destination |-> destination]
  /\ amount <= chain.source
  /\ chain' = [chain EXCEPT !.source = @ - amount,
                            !.bridged[destination] = @ + amount]
  /\ tx' = Stepped
  /\ UNCHANGED txs

\* The last instruction, at the top level; no permission and no status of the
\* controller or of the integration is asked for.
Reset(bridge) ==
  /\ Runs("Reset")
  /\ tx.pc = Last
  /\ ~CurrentIsForeign
  /\ tx.ixs[tx.pc].integration = bridge
  /\ chain' = [chain EXCEPT !.integrations[bridge].inFlight = FALSE]
  /\ tx' = Stepped
  /\ UNCHANGED txs

-----------------------------------------------------------------------------
\* The controller's other instructions, at the top level or called.
Instruction(c) ==
  /\ Runs("Other")
  /\ chain' = c
  /\ tx' = Stepped
  /\ UNCHANGED txs

ManageController(status) ==
  /\ chain.controller = "Frozen" => status = "Active"
  /\ status # chain.controller
  /\ Instruction([chain EXCEPT !.controller = status])

\* A new status; the limits stay.
ManageIntegration(bridge, status) ==
  /\ chain.controller # "Frozen"
  /\ Instruction([chain EXCEPT !.integrations[bridge] =
                    [RefreshRateLimit(@, clock) EXCEPT !.status = status]])

\* The authority moves tokens of its own account, anybody deposits to the
\* vault, a permanent delegate takes from it: holder is "source" or "vault".
ForeignTransfer(holder, amount) ==
  /\ Runs("Foreign")
  /\ \/ /\ chain[holder] + amount <= Supply
        /\ chain' = [chain EXCEPT ![holder] = @ + amount]
     \/ /\ amount <= chain[holder]
        /\ chain' = [chain EXCEPT ![holder] = @ - amount]
  /\ tx' = Stepped
  /\ UNCHANGED txs

Next ==
  \/ Schedule
  \/ \E bridge \in Bridges, amount \in Amounts : Push(bridge, amount)
  \/ \E amount \in Amounts, destination \in Destinations :
       Send(amount, destination)
  \/ \E bridge \in Bridges : Reset(bridge)
  \/ \E status \in ControllerStatus : ManageController(status)
  \/ \E bridge \in Bridges, status \in {"Active", "Suspended"} :
       ManageIntegration(bridge, status)
  \/ \E holder \in {"source", "vault"}, amount \in Amounts :
       ForeignTransfer(holder, amount)

Spec == Init /\ [][Next]_lzVars
=============================================================================
