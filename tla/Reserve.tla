------------------------------- MODULE Reserve -------------------------------
(***************************************************************************)
(* One Reserve of the controller: its account, the token vault it stands   *)
(* for, the chain's clock, and the sum of the accounting events emitted    *)
(* for it.  Every action is one instruction that commits (an instruction   *)
(* that fails leaves no trace on chain), or something the rest of the      *)
(* chain does between two instructions: time passes, anybody sends tokens  *)
(* to the vault, the permanent delegate of a Token-2022 mint takes some.   *)
(*                                                                         *)
(* The permission and controller checks in front of the handlers are the   *)
(* subject of module Governance.  The two halves of an atomic swap, which  *)
(* also move a reserve's tokens, are the subject of module AtomicSwap.     *)
(***************************************************************************)
EXTENDS ReserveState

CONSTANTS Slopes,    \* the values of rate_limit_slope that are configured
          MaxOuts,   \* the values of rate_limit_max_outflow
          Amounts,   \* the amounts moved by one instruction or transfer
          Supply,    \* all the tokens of the mint
          Elapses,   \* the seconds that pass from one block to another
          MaxTime,   \* bound on the clock's timestamp
          MaxSlot    \* bound on the clock's slot

ASSUME ReserveAssumption ==
  /\ Slopes \subseteq U64
  /\ MaxOuts \subseteq U64
  /\ Amounts \subseteq Nat \ {0}
  /\ Supply \in U64
  /\ Elapses \subseteq Nat
  /\ MaxTime \in Nat
  /\ MaxSlot \in Nat

VARIABLES reserve,   \* the Reserve account
          vault,     \* token balance of the vault
          ledger,    \* credits minus debits of the events for the reserve
          clock      \* the Clock sysvar

vars == <<reserve, vault, ledger, clock>>

Init ==
  /\ reserve = NoReserve
  /\ vault \in {0} \cup {a \in Amounts : a <= Supply}
  /\ ledger = 0
  /\ clock = [ts |-> 0, slot |-> 0]

Initialized == reserve.status # "Uninitialized"

\* Mutant: the handler refreshes the rate limit but does not sync the balance.
RefreshedOnly == RefreshRateLimit(reserve, clock)

\* The account after the sync that every token-moving handler starts with.
Synced == SyncBalance(reserve, vault, clock)

-----------------------------------------------------------------------------
InitializeReserve(status, slope, max) ==
  LET r == InitReserve(status, slope, max, clock)
  IN  /\ ~Initialized
      /\ reserve' = SyncBalance(r, vault, clock)
      /\ ledger' = ledger + SyncEvent(r, vault)
      /\ UNCHANGED <<vault, clock>>

\* The arguments are options; the balance is not synced.
ManageReserve(status, slope, max) ==
  /\ Initialized
  /\ reserve' = UpdateReserve(reserve, status, slope, max, clock)
  /\ UNCHANGED <<vault, ledger, clock>>

\* Permissionless, and allowed while the reserve is suspended.
SyncReserve ==
  /\ Initialized
  /\ reserve' = Synced
  /\ ledger' = ledger + SyncEvent(reserve, vault)
  /\ UNCHANGED <<vault, clock>>

\* A Push: the vault pays amount, and exactly amount, to the integration.
Push(amount) ==
  /\ reserve.status = "Active"
  /\ amount <= vault
  /\ WithinRateLimit(Synced, amount)
  /\ vault' = vault - amount
  /\ reserve' = UpdateForOutflow(Synced, amount)
  /\ ledger' = ledger + SyncEvent(reserve, vault) - amount
  /\ UNCHANGED clock

\* The vault is seen to have received amount, which is booked after the sync.
Receive(amount) ==
  /\ vault + amount <= Supply
  /\ vault' = vault + amount
  /\ reserve' = UpdateForInflow(Synced, amount)
  /\ ledger' = ledger + SyncEvent(reserve, vault) + amount
  /\ UNCHANGED clock

\* A Pull: the integration pays amount back.
Pull(amount) == reserve.status = "Active" /\ Receive(amount)

\* The sync of a Kamino integration harvests rewards in the reserve's mint, also
\* for a reserve that is suspended.
Harvest(amount) == Initialized /\ Receive(amount)

-----------------------------------------------------------------------------
\* Anybody transfers tokens to the vault.
Deposit(amount) ==
  /\ vault + amount <= Supply
  /\ vault' = vault + amount
  /\ UNCHANGED <<reserve, ledger, clock>>

\* The permanent delegate of the mint takes tokens from the vault.
Seize(amount) ==
  /\ amount <= vault
  /\ vault' = vault - amount
  /\ UNCHANGED <<reserve, ledger, clock>>

\* A new block; its timestamp may be that of the block before.
Tick(seconds) ==
  /\ clock.ts + seconds <= MaxTime
  /\ clock.slot < MaxSlot
  /\ clock' = [ts |-> clock.ts + seconds, slot |-> clock.slot + 1]
  /\ UNCHANGED <<reserve, vault, ledger>>

Next ==
  \/ \E status \in ReserveStatus, slope \in Slopes, max \in MaxOuts :
       InitializeReserve(status, slope, max)
  \/ \E status \in Option(ReserveStatus), slope \in Option(Slopes),
        max \in Option(MaxOuts) : ManageReserve(status, slope, max)
  \/ SyncReserve
  \/ \E amount \in Amounts : Push(amount)
  \/ \E amount \in Amounts : Pull(amount)
  \/ \E amount \in Amounts : Harvest(amount)
  \/ \E amount \in Amounts : Deposit(amount)
  \/ \E amount \in Amounts : Seize(amount)
  \/ \E seconds \in Elapses : Tick(seconds)

Spec == Init /\ [][Next]_vars
=============================================================================
