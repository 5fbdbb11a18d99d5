------------------------------- MODULE Lending -------------------------------
(***************************************************************************)
(* Two lending integrations on one reserve: Push deposits tokens of the    *)
(* vault with a lending protocol, Pull withdraws them with what they have  *)
(* earned, SyncIntegration records what the position is worth, and, for    *)
(* Kamino, harvests rewards.                                               *)
(*                                                                         *)
(* A protocol is external.  It owes the controller a number of shares (the *)
(* deposited collateral of a klend obligation, the scaled balance of a     *)
(* Drift spot position), each worth index / Unit tokens.  Interest is      *)
(* earned with every block but only added to the index when the protocol   *)
(* is refreshed.  Every action is one instruction that commits, or what    *)
(* the chain and the protocols do between two instructions.                *)
(*                                                                         *)
(* The permission and controller checks in front of the handlers are the   *)
(* subject of module Governance.                                           *)
(***************************************************************************)
EXTENDS ReserveState

CONSTANTS Bounds,       \* of each set of kinds that may be initialized: the
                        \* amounts moved by one instruction or transfer, the
                        \* last slot, and the number of moves of each kind
          Rewards,      \* the amounts that one harvest pays
          Supply,       \* bound on what the vault holds
          Slopes, MaxOuts,  \* the rate limits of integrations
          Unit,         \* of each kind: the index at which a share is a token
          FirstIndex, LastIndex,  \* of each kind: bounds on the index
          Gains         \* by how much the index may grow in one block

ASSUME LendingAssumption ==
  /\ DOMAIN Bounds \subseteq SUBSET {"Kamino", "Drift"}
  /\ \A kinds \in DOMAIN Bounds :
       /\ Bounds[kinds].amounts \subseteq Nat \ {0}
       /\ {Bounds[kinds].slot, Bounds[kinds].moves} \subseteq Nat
  /\ Rewards \subseteq Nat \ {0}
  /\ Supply \in Nat /\ Supply <= U64Max
  /\ Slopes \subseteq U64 /\ MaxOuts \subseteq U64 /\ Gains \subseteq Nat
  /\ \A kind \in UNION DOMAIN Bounds :
       /\ {Unit[kind], FirstIndex[kind]} \subseteq Nat \ {0}
       /\ LastIndex[kind] \in Nat /\ FirstIndex[kind] <= LastIndex[kind]

VARIABLES clock, reserve, vault,
          integrations,   \* the Integration account of each kind
          markets,        \* what each protocol knows of the position
          ledger,         \* credits minus debits of the events, of each
                          \* integration and of the "Reserve"
          net,            \* tokens paid to each protocol minus tokens and
                          \* rewards received
          moves           \* how many Pushes, Pulls and harvests there have been

vars == <<clock, reserve, vault, integrations, markets, ledger, net, moves>>

\* The integrations that have been initialized, and their bounds.
Kinds == DOMAIN integrations
Amounts == Bounds[Kinds].amounts
LastSlot == Bounds[Kinds].slot
MaxMoves == Bounds[Kinds].moves

Books == Kinds \cup {"Reserve"}

IntegrationStatus == {"Active", "Suspended"}

Integrations ==
  [status : IntegrationStatus, slope : U64, max : U64, avail : U64,
   rem : 0 .. (SecondsPerDay - 1), ts : Nat, slot : Nat, balance : U64]

Markets == [shares : Nat, index : Nat \ {0}, earned : Nat, slot : Nat,
            stale : BOOLEAN, open : BOOLEAN]

\* A new Integration account may use all of its cap.
InitIntegration(slope, max) ==
  [status |-> "Active", slope |-> slope, max |-> max, avail |-> max,
   rem |-> 0, ts |-> clock.ts, slot |-> clock.slot, balance |-> 0]

CeilDiv(n, d) == (n + d - 1) \div d

\* What shares are worth with the index as it stands, rounded down.  A handler
\* that reads a value which is not \in U64 panics.
Worth(kind, m) == (m.shares * m.index) \div Unit[kind]

WithInterest(m) == [m EXCEPT !.index = @ + m.earned, !.earned = 0]

RefreshedMarket(m) ==
  [WithInterest(m) EXCEPT !.slot = clock.slot, !.stale = FALSE]

\* Mutant: only the flag is looked at, not the slot.
IsMarkedStale(m) == m.stale

IsStale(m) == m.stale \/ clock.slot - m.slot >= 1

\* Mutant: the handler refreshes the reserve but does not sync its balance.
RefreshedReserve == RefreshRateLimit(reserve, clock)

SyncedReserve == SyncBalance(reserve, vault, clock)
RefreshedIntegration(kind) == RefreshRateLimit(integrations[kind], clock)

\* Mutant: no Sync event for the integration.
SyncedSilently(kind, worth) ==
  [ledger EXCEPT !["Reserve"] = @ + SyncEvent(reserve, vault)]

\* The events of the syncs at the start of a handler, the reserve's and,
\* for a position that is found to be worth this much, the integration's.
Synced(kind, worth) ==
  [ledger EXCEPT !["Reserve"] = @ + SyncEvent(reserve, vault),
                 ![kind] = @ + worth - integrations[kind].balance]

\* The handlers Push and Pull, around the integration's own code: the status
\* checks in front, and the accounts saved at the end.
Handler(kind) ==
  /\ integrations[kind].status = "Active"
  /\ reserve.status = "Active"
  /\ moves[kind] < MaxMoves
  /\ moves' = [moves EXCEPT ![kind] = @ + 1]
  /\ UNCHANGED clock

\* Mutant: the integration is charged with the value it gained.
SavePushByValue(kind, taken, worth) ==
  LET i == RefreshedIntegration(kind)
      gained == SatSub(worth, i.balance)
  IN  /\ worth \in U64
      /\ WithinRateLimit(i, gained)
      /\ WithinRateLimit(SyncedReserve, taken)
      /\ integrations' = [integrations EXCEPT ![kind] =
           [DebitRateLimit(i, gained) EXCEPT !.balance = worth]]
      /\ reserve' = UpdateForOutflow(SyncedReserve, taken)
      /\ vault' = vault - taken
      /\ net' = [net EXCEPT ![kind] = @ + taken]

\* The vault has paid taken, the position is now worth worth.
SavePush(kind, taken, worth) ==
  /\ worth \in U64
  /\ WithinRateLimit(RefreshedIntegration(kind), taken)
  /\ WithinRateLimit(SyncedReserve, taken)
  /\ integrations' = [integrations EXCEPT ![kind] =
       [DebitRateLimit(RefreshedIntegration(kind), taken)
          EXCEPT !.balance = worth]]
  /\ reserve' = UpdateForOutflow(SyncedReserve, taken)
  /\ vault' = vault - taken
  /\ net' = [net EXCEPT ![kind] = @ + taken]

\* The vault has received paid, the position is now worth worth.
SavePull(kind, paid, worth) ==
  /\ worth \in U64
  /\ vault + paid <= Supply
  /\ integrations' = [integrations EXCEPT ![kind] =
       [CreditRateLimit(RefreshedIntegration(kind), paid)
          EXCEPT !.balance = worth]]
  /\ reserve' = UpdateForInflow(SyncedReserve, paid)
  /\ vault' = vault + paid
  /\ net' = [net EXCEPT ![kind] = @ - paid]

-----------------------------------------------------------------------------
\* Kamino Lend.

\* get_kamino_lending_balance: what the obligation's collateral is worth.
KaminoBalance(m) == Worth("Kamino", m)

SyncedKamino == Synced("Kamino", KaminoBalance(markets["Kamino"]))

\* klend: a deposit of at most amount, from which the reserve is refreshed,
\* and after which it is stale.  An obligation that a Pull closed is
\* initialized again before.
KlendDeposit(m, taken) ==
  LET r == RefreshedMarket(m)
  IN  [r EXCEPT !.shares = @ + (taken * Unit["Kamino"]) \div r.index,
                !.stale = TRUE, !.open = TRUE]

\* Mutant: the event reports the shares that were minted, at what they are
\* worth now.
ValueMinted(before, after) ==
  Worth("Kamino", [after EXCEPT !.shares = @ - before.shares])

\* What the event of a Push reports: the value that the position gained.
ValueGained(before, after) ==
  SatSub(KaminoBalance(after), KaminoBalance(before))

PushKamino(amount, taken) ==
  LET before == markets["Kamino"]
      after == KlendDeposit(before, taken)
  IN  /\ Handler("Kamino")
      /\ taken <= amount
      /\ amount <= vault
      /\ markets' = [markets EXCEPT !["Kamino"] = after]
      /\ SavePush("Kamino", taken, KaminoBalance(after))
      /\ ledger' = [SyncedKamino EXCEPT
                    !["Kamino"] = @ + ValueGained(before, after),
                    !["Reserve"] = @ - taken]

\* liquidity_to_collateral: the shares that are worth amount, rounded down.
Shares(m, amount) == (amount * Unit["Kamino"]) \div m.index

\* klend: the shares are redeemed, as far as there are so many; the last one
\* may close the obligation.
KlendWithdraw(m, shares, open) ==
  [m EXCEPT !.shares = @ - shares, !.stale = TRUE, !.open = open]

PullKamino(amount, open) ==
  LET before == markets["Kamino"]
      shares == Least(Shares(before, amount), before.shares)
      after == KlendWithdraw(before, shares, open)
      paid == KaminoBalance([before EXCEPT !.shares = shares])
      worth == KaminoBalance(after)
      valueDelta == SatSub(KaminoBalance(before), worth)
  IN  /\ Handler("Kamino")
      /\ before.open
      /\ ~IsStale(before)
      /\ KaminoBalance(before) \in U64
      /\ shares > 0
      /\ ~open => after.shares = 0
      /\ markets' = [markets EXCEPT !["Kamino"] = after]
      /\ SavePull("Kamino", paid, worth)
      /\ ledger' = [SyncedKamino EXCEPT !["Kamino"] = @ - valueDelta,
                                        !["Reserve"] = @ + paid]

\* A harvest of a reward of the reserve's own mint, which reaches the vault;
\* a reward of 0 is a sync without a harvest.  The integration's events of the
\* harvest, a credit and a debit, cancel out.
Harvest(reward) ==
  /\ reward > 0 => moves["Kamino"] < MaxMoves
  /\ vault + reward <= Supply
  /\ vault' = vault + reward
  /\ reserve' = UpdateForInflow(SyncedReserve, reward)
  /\ net' = [net EXCEPT !["Kamino"] = @ - reward]
  /\ ledger' = [SyncedKamino EXCEPT !["Reserve"] = @ + reward]
  /\ moves' = [moves EXCEPT !["Kamino"] = @ + Least(reward, 1)]

SyncKamino(reward) ==
  /\ ~IsStale(markets["Kamino"])
  /\ KaminoBalance(markets["Kamino"]) \in U64
  /\ Harvest(reward)
  /\ integrations' = [integrations EXCEPT !["Kamino"] =
       [CreditRateLimit(RefreshedIntegration("Kamino"), reward)
          EXCEPT !.balance = KaminoBalance(markets["Kamino"])]]
  /\ UNCHANGED <<clock, markets>>

\* klend: anybody refreshes the reserve.
RefreshKlend ==
  /\ markets' = [markets EXCEPT !["Kamino"] = RefreshedMarket(@)]
  /\ UNCHANGED <<clock, reserve, vault, integrations, ledger, net, moves>>

-----------------------------------------------------------------------------
\* Drift.  UpdateSpotMarketCumulativeInterest comes first in every handler.
\* (Mutant: it does not.)
StaleMarket == markets["Drift"]

UpdatedMarket == WithInterest(markets["Drift"])

\* get_drift_lending_balance: what the scaled balance is worth.
DriftBalance(m) == Worth("Drift", m)

SyncedDrift == Synced("Drift", DriftBalance(UpdatedMarket))

\* Drift takes all of amount and rounds the scaled balance down.
PushDrift(amount) ==
  LET m == UpdatedMarket
      after == [m EXCEPT !.shares = @ + (amount * Unit["Drift"]) \div m.index]
  IN  /\ Handler("Drift")
      /\ amount <= vault
      /\ markets' = [markets EXCEPT !["Drift"] = after]
      /\ SavePush("Drift", amount, DriftBalance(after))
      /\ ledger' = [SyncedDrift EXCEPT !["Drift"] = @ + amount,
                                       !["Reserve"] = @ - amount]

\* reduce_only: Drift pays no more than the position is worth, and rounds
\* what it takes off the scaled balance up.
PullDrift(amount) ==
  LET m == UpdatedMarket
      paid == Least(amount, DriftBalance(m))
      after == [m EXCEPT !.shares =
                  SatSub(@, CeilDiv(paid * Unit["Drift"], m.index))]
  IN  /\ Handler("Drift")
      /\ DriftBalance(m) \in U64
      /\ paid > 0
      /\ markets' = [markets EXCEPT !["Drift"] = after]
      /\ SavePull("Drift", paid, DriftBalance(after))
      /\ ledger' = [SyncedDrift EXCEPT !["Drift"] = @ - paid,
                                       !["Reserve"] = @ + paid]

\* The reserve has no part in it.
SyncDrift ==
  LET worth == DriftBalance(UpdatedMarket)
  IN  /\ worth \in U64
      /\ markets' = [markets EXCEPT !["Drift"] = UpdatedMarket]
      /\ integrations' = [integrations EXCEPT !["Drift"] =
           [RefreshedIntegration("Drift") EXCEPT !.balance = worth]]
      /\ ledger' = [ledger EXCEPT !["Drift"] =
                      @ + worth - integrations["Drift"].balance]
      /\ UNCHANGED <<clock, reserve, vault, net, moves>>

-----------------------------------------------------------------------------
ManageReserve(status) ==
  /\ reserve' = UpdateReserve(reserve, {status}, {}, {}, clock)
  /\ UNCHANGED <<clock, vault, integrations, markets, ledger, net, moves>>

ManageIntegration(kind, status) ==
  /\ integrations' = [integrations EXCEPT ![kind] =
       [RefreshedIntegration(kind) EXCEPT !.status = status]]
  /\ UNCHANGED <<clock, reserve, vault, markets, ledger, net, moves>>

\* Deposits to the vault and seizures by a permanent delegate.
ForeignTransfer(amount) ==
  /\ \/ vault + amount <= Supply /\ vault' = vault + amount
     \/ amount <= vault /\ vault' = vault - amount
  /\ UNCHANGED <<clock, reserve, integrations, markets, ledger, net, moves>>

\* The next block, a second later: the protocols earn.
NextBlock ==
  /\ clock.slot < LastSlot
  /\ clock' = [ts |-> clock.ts + 1, slot |-> clock.slot + 1]
  /\ \E gains \in [Kinds -> Gains] :
       /\ \A kind \in Kinds : markets[kind].index + markets[kind].earned
                                + gains[kind] <= LastIndex[kind]
       /\ markets' = [kind \in Kinds |->
                        [markets[kind] EXCEPT !.earned = @ + gains[kind]]]
  /\ UNCHANGED <<reserve, vault, integrations, ledger, net, moves>>

-----------------------------------------------------------------------------
\* A synced reserve that nothing limits, and empty positions.
Init ==
  /\ clock = [ts |-> 0, slot |-> 0]
  /\ vault = Supply
  /\ reserve = [InitReserve("Active", 0, U64Max, clock)
                  EXCEPT !.lastBalance = vault]
  /\ \E kinds \in DOMAIN Bounds, slope \in Slopes, max \in MaxOuts :
       integrations = [kind \in kinds |-> InitIntegration(slope, max)]
  /\ markets = [kind \in Kinds |->
                  [shares |-> 0, index |-> FirstIndex[kind], earned |-> 0,
                   slot |-> clock.slot, stale |-> FALSE, open |-> TRUE]]
  /\ ledger = [book \in Books |-> IF book = "Reserve" THEN vault ELSE 0]
  /\ net = [kind \in Kinds |-> 0]
  /\ moves = [kind \in Kinds |-> 0]

Kamino ==
  /\ "Kamino" \in Kinds
  /\ \/ \E amount \in Amounts : \E taken \in 1 .. amount :
          PushKamino(amount, taken)
     \/ \E amount \in Amounts, open \in BOOLEAN : PullKamino(amount, open)
     \/ RefreshKlend

Drift ==
  /\ "Drift" \in Kinds
  /\ \/ \E amount \in Amounts : PushDrift(amount)
     \/ \E amount \in Amounts : PullDrift(amount)

\* Permissionless, whatever the status of the integration and the reserve.
SyncIntegration ==
  \/ /\ "Kamino" \in Kinds
     /\ \E reward \in Rewards \cup {0} : SyncKamino(reward)
  \/ "Drift" \in Kinds /\ SyncDrift

Next ==
  \/ Kamino
  \/ Drift
  \/ SyncIntegration
  \/ \E status \in ReserveStatus : ManageReserve(status)
  \/ \E kind \in Kinds, status \in IntegrationStatus :
       ManageIntegration(kind, status)
  \/ \E amount \in Amounts : ForeignTransfer(amount)
  \/ NextBlock

Spec == Init /\ [][Next]_vars
=============================================================================
