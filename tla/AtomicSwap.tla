------------------------------ MODULE AtomicSwap ------------------------------
(***************************************************************************)
(* An atomic swap: in one transaction, Borrow lends tokens of reserve A to *)
(* the recipient's account, other programs trade them, and Repay takes     *)
(* back what is left of them and collects the tokens bought for reserve B, *)
(* at the price of an oracle.                                              *)
(*                                                                         *)
(* The kinds of instructions are "Borrow", "Repay" and "Other", which are  *)
(* the controller's, and "Foreign".  Signers have the permissions that the *)
(* handlers ask for: that is the subject of module Governance.             *)
(***************************************************************************)
EXTENDS ReserveState, Transaction

CONSTANTS Amounts,        \* the amounts moved by one instruction or transfer
          Supply,         \* bound on what one token account holds
          Fees,           \* what a mint with transfer fees withholds
          Prices,         \* the prices the feed publishes, per Precision
          Precision,      \* 10 ^ oracle.precision
          InFactor, OutFactor,  \* 10 ^ decimals of the input and output mint
          BpsDenominator, MaxSlippage,
          MaxStaleness,   \* of the oracle, in slots
          Expiry,         \* timestamp at which the integration expires
          FirstSlot,      \* the slot in which the model starts
          LastSlot        \* bound on the clock's slot

\* process_initialize_atomic_swap refuses max_staleness >= clock.slot.
ASSUME AtomicSwapAssumption ==
  /\ IxLists \subseteq Seq([kind : {"Borrow", "Repay", "Other", "Foreign"}]) \ {<<>>}
  /\ {Supply, MaxStaleness, MaxSlippage, Expiry} \subseteq Nat
  /\ {Precision, InFactor, OutFactor, BpsDenominator} \subseteq Nat \ {0}
  /\ Amounts \subseteq 1 .. Supply /\ Fees \subseteq Nat /\ Prices \subseteq Nat
  /\ FirstSlot \in Nat /\ LastSlot \in Nat /\ MaxStaleness < FirstSlot
  /\ Supply <= U64Max

Tokens == {"A", "B"}
ControllerStatus == {"Active", "Frozen", "PushPullFrozen", "AtomicSwapLock"}

VARIABLES clock,      \* the Clock sysvar
          published   \* what the price feed has published, with its slot

vars == <<chain, clock, published, tx, txs>>

\* The integration account: status, rate limit and AtomicSwapState.
Integrations ==
  [status : {"Active", "Suspended"}, slope : U64, max : U64, avail : U64,
   rem : 0 .. (SecondsPerDay - 1), ts : Nat, slot : Nat,
   borrowed : U64, lastA : U64, lastB : U64, preA : U64, preB : U64]

SwapStarted(integration) == integration.borrowed > 0

SwapReset(integration) ==
  [integration EXCEPT !.borrowed = 0, !.lastA = 0, !.lastB = 0,
                      !.preA = 0, !.preB = 0]

-----------------------------------------------------------------------------
\* Mutant: the last instruction is not looked at.
VerifyNoOtherIx ==
  /\ tx.pc < Last
  /\ Kind(tx.pc) = "Borrow"
  /\ \A i \in (tx.pc + 1) .. (Last - 1) : Kind(i) = "Foreign"

\* Repay ends the transaction, the controller's program is not called between
\* (at the top level), and this Borrow is itself at the top level.
VerifyRepay ==
  /\ tx.pc < Last
  /\ Kind(tx.pc) = "Borrow"
  /\ \A i \in (tx.pc + 1) .. (Last - 1) : Kind(i) = "Foreign"
  /\ Kind(Last) = "Repay"

Sync(token) == SyncBalance(chain.reserves[token], chain.vaults[token], clock)
SyncLedger(token) ==
  chain.ledger[token] + SyncEvent(chain.reserves[token], chain.vaults[token])

\* What arrives of a transfer.
Received(amount, fee) == SatSub(amount, fee)

\* Mutant: the amount is not compared with what the vault holds.
LendableUncovered(i, amount) ==
  /\ WithinRateLimit(i, amount)
  /\ WithinRateLimit(Sync("A"), amount)

Lendable(i, amount) ==
  /\ amount <= chain.vaults["A"]
  /\ WithinRateLimit(i, amount)
  /\ WithinRateLimit(Sync("A"), amount)

Borrow(amount, fee) ==
  LET i == RefreshRateLimit(chain.integration, clock)
      opened ==
        [i EXCEPT !.lastA = chain.vaults["A"], !.lastB = chain.vaults["B"],
                  !.borrowed = amount, !.preA = chain.wallet["A"],
                  !.preB = chain.wallet["B"]]
  IN  /\ Runs("Borrow")
      /\ chain.controller = "Active"
      /\ \A token \in Tokens : chain.reserves[token].status = "Active"
      /\ i.status = "Active"
      /\ ~SwapStarted(i)
      /\ clock.ts < Expiry
      /\ Lendable(i, amount)
      /\ VerifyRepay
      /\ chain.wallet["A"] + Received(amount, fee) <= Supply
      /\ chain' =
           [chain EXCEPT
              !.controller = "AtomicSwapLock",
              !.integration = DebitRateLimit(opened, amount),
              !.reserves = [A |-> UpdateForOutflow(Sync("A"), amount),
                            B |-> Sync("B")],
              !.vaults["A"] = @ - amount,
              !.wallet["A"] = @ + Received(amount, fee),
              !.ledger = [token \in Tokens |-> SyncLedger(token)]]
      /\ tx' = [Stepped EXCEPT !.opened = {chain'}]
      /\ UNCHANGED <<clock, published, txs>>

\* The recipient's balances are within what the wallet held before, or above.
Excess == SatSub(chain.wallet["A"], chain.integration.preA)
Bought == chain.wallet["B"] - chain.integration.preB

\* Mutant: only the vault that lends is compared.
VaultAUntouched ==
  chain.vaults["A"] + chain.integration.borrowed = chain.integration.lastA

\* Nothing but the loan has changed the vaults since Borrow.
VaultsUntouched ==
  /\ chain.vaults["A"] + chain.integration.borrowed = chain.integration.lastA
  /\ chain.vaults["B"] = chain.integration.lastB

OracleFresh == chain.oracle.slot >= clock.slot - MaxStaleness

SwapPrice(output, input) ==
  (output * InFactor * Precision) \div (input * OutFactor)

CeilDiv(n, d) == (n + d - 1) \div d

\* Mutant: the least price is rounded down.
MinSwapPriceFloor ==
  (chain.oracle.price * SatSub(BpsDenominator, MaxSlippage)) \div BpsDenominator

MinSwapPrice ==
  CeilDiv(chain.oracle.price * SatSub(BpsDenominator, MaxSlippage),
          BpsDenominator)

\* check_swap_slippage: nothing was spent, or enough was bought for it.
PriceAccepted(input, output) ==
  input > 0 =>
    /\ output > 0
    /\ SwapPrice(output, input) >= MinSwapPrice

\* Mutant: debit and credit are interchanged.
SwapEventsReversed(spent, bought) ==
  [A |-> chain.ledger["A"] + spent, B |-> chain.ledger["B"] - bought]

\* The events of a swap: reserve A is debited, reserve B is credited.
SwapEvents(spent, bought) ==
  [A |-> chain.ledger["A"] - spent, B |-> chain.ledger["B"] + bought]

Repay(feeA, feeB) ==
  LET i == chain.integration
      returned == Received(Excess, feeA)
      spent == SatSub(i.borrowed, returned)
      bought == Received(Bought, feeB)
      r == chain.reserves
  IN  /\ Runs("Repay")
      /\ chain.controller = "AtomicSwapLock"
      /\ SwapStarted(i)
      /\ Bought >= 0
      /\ VaultsUntouched
      /\ OracleFresh
      /\ PriceAccepted(spent, bought)
      /\ Fresh(r["A"], clock) /\ Fresh(r["B"], clock) /\ Fresh(i, clock)
      /\ chain.vaults["A"] + returned <= Supply
      /\ chain.vaults["B"] + bought <= Supply
      /\ chain' =
           [chain EXCEPT
              !.controller = "Active",
              !.integration = SwapReset(CreditRateLimit(i, returned)),
              !.reserves = [A |-> UpdateForInflow(r["A"], returned),
                            B |-> UpdateForInflow(r["B"], bought)],
              !.vaults = [A |-> @["A"] + returned, B |-> @["B"] + bought],
              !.wallet = [A |-> @["A"] - Excess, B |-> @["B"] - Bought],
              !.ledger = SwapEvents(spent, bought)]
      /\ tx' = Stepped
      /\ UNCHANGED <<clock, published, txs>>

-----------------------------------------------------------------------------
\* The controller's other instructions, called at the top level or by a
\* foreign program.
Instruction(c) ==
  /\ Runs("Other")
  /\ chain' = c
  /\ tx' = Stepped
  /\ UNCHANGED <<clock, published, txs>>

ManageController(status) ==
  /\ status # "AtomicSwapLock"
  /\ chain.controller = "Frozen" => status = "Active"
  /\ status # chain.controller
  /\ Instruction([chain EXCEPT !.controller = status])

\* Mutant: the check for the lock of a swap is forgotten.
HaltedByFreeze == chain.controller = "Frozen"

\* The configuration and the syncs are refused in these states.
Halted == chain.controller \in {"Frozen", "AtomicSwapLock"}

ManageReserve(token, status) ==
  /\ ~Halted
  /\ Instruction([chain EXCEPT !.reserves[token] =
                    UpdateReserve(@, {status}, {}, {}, clock)])

\* Integration::update_and_save, with a new status and a new cap.
ManageIntegration(status, max) ==
  /\ ~Halted
  /\ Instruction([chain EXCEPT !.integration =
                    [SetMaxOutflow(RefreshRateLimit(@, clock), max)
                       EXCEPT !.status = status]])

SyncReserve(token) ==
  /\ ~Halted
  /\ Instruction([chain EXCEPT !.reserves[token] = Sync(token),
                               !.ledger[token] = SyncLedger(token)])

\* A Push or a Pull of another integration with the same reserve.
Push(token, amount) ==
  /\ chain.controller = "Active"
  /\ chain.reserves[token].status = "Active"
  /\ amount <= chain.vaults[token]
  /\ WithinRateLimit(Sync(token), amount)
  /\ Instruction([chain EXCEPT
                    !.reserves[token] = UpdateForOutflow(Sync(token), amount),
                    !.vaults[token] = @ - amount,
                    !.ledger[token] = SyncLedger(token) - amount])

Pull(token, amount) ==
  /\ chain.controller = "Active"
  /\ chain.reserves[token].status = "Active"
  /\ chain.vaults[token] + amount <= Supply
  /\ Instruction([chain EXCEPT
                    !.reserves[token] = UpdateForInflow(Sync(token), amount),
                    !.vaults[token] = @ + amount,
                    !.ledger[token] = SyncLedger(token) + amount])

\* Permissionless, whatever the controller's status.
RefreshOracle ==
  \E feed \in published :
    /\ \A p \in published : p.slot <= feed.slot
    /\ Instruction([chain EXCEPT !.oracle = feed])

-----------------------------------------------------------------------------
\* What foreign programs do themselves: they pay tokens to the recipient or
\* spend them, deposit to a vault, or, for a permanent delegate, take from it.
\* The account of holder is chain.wallet or chain.vaults.
ForeignTransfer(holder, token, amount) ==
  /\ Runs("Foreign")
  /\ \/ /\ chain[holder][token] + amount <= Supply
        /\ chain' = [chain EXCEPT ![holder][token] = @ + amount]
     \/ /\ amount <= chain[holder][token]
        /\ chain' = [chain EXCEPT ![holder][token] = @ - amount]
  /\ tx' = Stepped
  /\ UNCHANGED <<clock, published, txs>>

\* The next block, a second later, with a new price or without.
NextBlock ==
  /\ Idle
  /\ clock.slot < LastSlot
  /\ clock' = [ts |-> clock.ts + 1, slot |-> clock.slot + 1]
  /\ \/ UNCHANGED published
     \/ \E price \in Prices :
          published' = published \cup {[price |-> price, slot |-> clock'.slot]}
  /\ UNCHANGED <<chain, tx, txs>>

-----------------------------------------------------------------------------
\* Two synced reserves, an oracle that was never refreshed.
Init ==
  \E limit, held \in Amounts :
    /\ clock = [ts |-> 0, slot |-> FirstSlot]
    /\ LET full == InitReserve("Active", 0, U64Max, clock)
           limited == InitReserve("Active", 1, limit, clock)
       IN  chain =
             [controller |-> "Active",
              integration |->
                [status |-> "Active", slope |-> 1, max |-> limit,
                 avail |-> limit, rem |-> 0, ts |-> clock.ts,
                 slot |-> clock.slot, borrowed |-> 0, lastA |-> 0,
                 lastB |-> 0, preA |-> 0, preB |-> 0],
              reserves |-> [A |-> [limited EXCEPT !.lastBalance = held],
                            B |-> full],
              vaults |-> [A |-> held, B |-> 0],
              wallet |-> [A |-> 0, B |-> 0],
              oracle |-> [price |-> 0, slot |-> 0],
              ledger |-> [A |-> held, B |-> 0]]
    /\ \E price \in Prices :
         published = {[price |-> price, slot |-> FirstSlot]}
    /\ tx = NoTransaction
    /\ txs = 0

Next ==
  \/ Schedule /\ UNCHANGED <<clock, published>>
  \/ \E amount \in Amounts, fee \in Fees : Borrow(amount, fee)
  \/ \E feeA, feeB \in Fees : Repay(feeA, feeB)
  \/ \E status \in ControllerStatus : ManageController(status)
  \/ \E token \in Tokens, status \in ReserveStatus :
       ManageReserve(token, status)
  \/ \E status \in {"Active", "Suspended"}, max \in Amounts :
       ManageIntegration(status, max)
  \/ \E token \in Tokens : SyncReserve(token)
  \/ \E token \in Tokens, amount \in Amounts : Push(token, amount)
  \/ \E token \in Tokens, amount \in Amounts : Pull(token, amount)
  \/ RefreshOracle
  \/ \E holder \in {"wallet", "vaults"}, token \in Tokens,
        amount \in Amounts : ForeignTransfer(holder, token, amount)
  \/ NextBlock

Spec == Init /\ [][Next]_vars
=============================================================================
