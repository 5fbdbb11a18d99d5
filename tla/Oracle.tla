-------------------------------- MODULE Oracle --------------------------------
(***************************************************************************)
(* An oracle from its initialization, through changes of its feed and its  *)
(* authority, to the swaps that are priced by it.  Feeds are external: a   *)
(* feed has a quote for every slot, and its account holds one of those it  *)
(* has had, the latest or an older one, when RefreshOracle copies it.      *)
(*                                                                         *)
(* Of an atomic swap, Borrow locks the controller and Repay checks the     *)
(* price and unlocks it; the rest of a swap is the subject of module       *)
(* AtomicSwap.                                                             *)
(***************************************************************************)
EXTENDS SwapPricing

CONSTANTS Controllers, Authorities, Feeds,
          NoOne,          \* the program's id, which stands for no account
          Quote,          \* of each feed and slot: the value quoted
          Slippages, MaxStalenesses, \* the configurations of a swap
          Amounts,        \* what a swap spends and buys
          LastSlot        \* bound on the clock

Tokens == DOMAIN Factor
Slots == 1 .. LastSlot

ASSUME OracleAssumption ==
  /\ NoOne \notin Authorities \cup Feeds \cup Controllers
  /\ Quote \in [Feeds -> [Slots -> Int]]
  /\ Slippages \subseteq Nat /\ MaxStalenesses \subseteq Nat
  /\ Amounts \subseteq Nat
  /\ LastSlot \in Nat \ {0}

VARIABLES slot,
          controllers,    \* the status of each controller
          oracle,         \* the Oracle account, or NoOracle
          integration,    \* the AtomicSwap integration, or NoIntegration
          swap,           \* what the last swap has spent and bought
          signer          \* who signed the last instruction

oracleVars == <<slot, controllers, oracle, integration, swap, signer>>

ControllerStatus == {"Active", "Frozen", "AtomicSwapLock"}

Oracles == [authority : Authorities, controller : Controllers,
            feed : Feeds, value : Int, slot : Nat,
            base : Tokens, quote : Tokens]
NoOracle == [authority |-> NoOne]
IsOpen == oracle.authority # NoOne

Integrations == [controller : Controllers, input : Tokens, output : Tokens,
                 inverted : BOOLEAN, slippage : Slippages,
                 maxStaleness : MaxStalenesses]
NoIntegration == [controller |-> NoOne]

CanSwap == integration.controller # NoOne

Swaps == [input : Amounts, output : Amounts]
NoSwap == [input |-> 0, output |-> 0]

-----------------------------------------------------------------------------
Halted(controller) == controllers[controller] \in {"Frozen", "AtomicSwapLock"}

\* Anybody may create an oracle, with itself as the authority.
InitializeOracle(controller, authority, feed, base, quote) ==
  /\ ~Halted(controller)
  /\ ~IsOpen
  /\ oracle' = [authority |-> authority, controller |-> controller,
                feed |-> feed, value |-> 0, slot |-> 0,
                base |-> base, quote |-> quote]
  /\ signer' = authority
  /\ UNCHANGED <<slot, controllers, integration, swap>>

\* Mutant: the price of the replaced feed is kept.
WithFeedOnly(o, feed) == [o EXCEPT !.feed = feed]

\* A new feed voids the price and its slot.
WithFeed(o, feed) == [o EXCEPT !.feed = feed, !.value = 0, !.slot = 0]

\* Mutant: the controller is not compared.
CheckAuthority(controller, authority) == oracle.authority = authority

CheckData(controller, authority) ==
  /\ oracle.controller = controller
  /\ oracle.authority = authority

\* Mutant: the placeholder is taken for the new authority.
WithAnyAuthority(o, authority) == [o EXCEPT !.authority = authority]

WithAuthority(o, authority) ==
  IF authority = NoOne THEN o ELSE [o EXCEPT !.authority = authority]

\* A feed of NoOne is one that is not given; it leaves the price alone.
UpdateOracle(controller, authority, feed, newAuthority) ==
  /\ ~Halted(controller)
  /\ IsOpen
  /\ CheckData(controller, authority)
  /\ oracle' = WithAuthority(IF feed = NoOne THEN oracle
                                             ELSE WithFeed(oracle, feed),
                             newAuthority)
  /\ signer' = authority
  /\ UNCHANGED <<slot, controllers, integration, swap>>

Copied(o, s) == [o EXCEPT !.value = Quote[o.feed][s], !.slot = s]

\* Permissionless, and whatever the state of the controller.
RefreshOracle(caller, s) ==
  /\ IsOpen
  /\ s <= slot
  /\ oracle' = Copied(oracle, s)
  /\ signer' = caller
  /\ UNCHANGED <<slot, controllers, integration, swap>>

-----------------------------------------------------------------------------
\* The oracle's mints are those of the swap, in the direction of the flag.
QuotesMints(input, output, inverted) ==
  IF inverted THEN output = oracle.base /\ input = oracle.quote
              ELSE output = oracle.quote /\ input = oracle.base

\* InitializeIntegration for an atomic swap; who may sign it is the subject
\* of module Outflow.
InitializeAtomicSwap(controller, authority, in, out, inverted, bps, age) ==
  /\ ~Halted(controller)
  /\ ~CanSwap
  /\ in # out
  /\ IsOpen /\ oracle.controller = controller
  /\ age < slot
  /\ QuotesMints(in, out, inverted)
  /\ integration' = [controller |-> controller, input |-> in, output |-> out,
                     inverted |-> inverted, slippage |-> bps,
                     maxStaleness |-> age]
  /\ signer' = authority
  /\ UNCHANGED <<slot, controllers, oracle, swap>>

Borrow(authority) ==
  /\ CanSwap
  /\ controllers[integration.controller] = "Active"
  /\ controllers' = [controllers EXCEPT
                     ![integration.controller] = "AtomicSwapLock"]
  /\ swap' = NoSwap
  /\ signer' = authority
  /\ UNCHANGED <<slot, oracle, integration>>

IsFresh == oracle.slot >= slot - integration.maxStaleness

\* An inverted 0 panics.
PriceAccepted(input, output) ==
  LET i == integration
  IN  /\ i.inverted => oracle.value # 0
      /\ SlippageAccepted(i.input, i.output, input, output, i.slippage,
                          GetPrice(oracle.value, i.inverted))

Repay(authority, input, output) ==
  /\ CanSwap
  /\ controllers[integration.controller] = "AtomicSwapLock"
  /\ IsFresh
  /\ PriceAccepted(input, output)
  /\ controllers' = [controllers EXCEPT ![integration.controller] = "Active"]
  /\ swap' = [input |-> input, output |-> output]
  /\ signer' = authority
  /\ UNCHANGED <<slot, oracle, integration>>

\* Who may change the status is the subject of module Governance.  A change
\* between Borrow and Repay leaves Repay without its lock, and so the whole
\* transaction without effect.
ManageController(controller, authority, status) ==
  /\ status # "AtomicSwapLock"
  /\ controllers[controller] = "Frozen" => status = "Active"
  /\ controllers[controller] # "AtomicSwapLock"
  /\ status # controllers[controller]
  /\ controllers' = [controllers EXCEPT ![controller] = status]
  /\ signer' = authority
  /\ UNCHANGED <<slot, oracle, integration, swap>>

\* A swap ends in the transaction, and so in the block, it began in.
NextBlock ==
  /\ slot < LastSlot
  /\ \A controller \in Controllers : controllers[controller] # "AtomicSwapLock"
  /\ slot' = slot + 1
  /\ signer' = NoOne
  /\ UNCHANGED <<controllers, oracle, integration, swap>>
-----------------------------------------------------------------------------
Init ==
  /\ slot = 1
  /\ controllers = [controller \in Controllers |-> "Active"]
  /\ oracle = NoOracle
  /\ integration = NoIntegration
  /\ swap = NoSwap
  /\ signer = NoOne

Next ==
  \/ NextBlock
  \/ \E authority \in Authorities :
       \/ \E controller \in Controllers, feed \in Feeds,
             base, quote \in Tokens :
            InitializeOracle(controller, authority, feed, base, quote)
       \/ \E controller \in Controllers, feed \in Feeds \cup {NoOne},
             newAuthority \in Authorities \cup {NoOne} :
            UpdateOracle(controller, authority, feed, newAuthority)
       \/ \E s \in Slots : RefreshOracle(authority, s)
       \/ \E controller \in Controllers, input, output \in Tokens,
             inverted \in BOOLEAN, slippage \in Slippages,
             maxStaleness \in MaxStalenesses :
            InitializeAtomicSwap(controller, authority, input, output,
                                 inverted, slippage, maxStaleness)
       \/ Borrow(authority)
       \/ \E input, output \in Amounts : Repay(authority, input, output)
       \/ \E controller \in Controllers, status \in ControllerStatus :
            ManageController(controller, authority, status)

Spec == Init /\ [][Next]_oracleVars
=============================================================================
