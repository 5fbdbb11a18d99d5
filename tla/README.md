# svm-alm-controller in TLA+

Specifications, model checking and machine-checked proofs of the Keel SVM ALM
Controller, the Solana program in `src/program/src`. Paths below are relative to
that directory unless they start with `src/`.

## 1. The system

A **Controller** owns token vaults through a PDA. Authorities with a
**Permission** move tokens between a vault, whose account in the program is a
**Reserve**, and the outside world, each way out being an **Integration**. A
transaction is a list of instructions; an instruction that fails undoes the
whole transaction; other programs may call the controller's instructions, and
the instructions sysvar shows only the top-level ones.

| Component | State | Operations | Interacts through |
| --- | --- | --- | --- |
| Controller (`state/controller.rs`) | status: Active, Frozen, PushPullFrozen, AtomicSwapLock | initialize, manage | its status is read by every handler; Borrow and Repay set it |
| Permission (`state/permission.rs`) | status, nine flags | manage (by a manager, or to suspend by a suspender) | read by every handler that needs a signer |
| Reserve (`state/reserve.rs`) | status, last_balance, rate limit | initialize, manage, sync | the vault's token balance, which anybody can raise and a permanent delegate can lower |
| Integration (`state/integration.rs`) | status, rate limit, configuration, state of its kind | initialize, manage, sync, push, pull | one reserve (two for a swap) and CPIs to a foreign program |
| Rate limit (`processor/shared/rate_limit_utils.rs`) | slope, cap, available, remainder, time of last refresh | refresh, inflow, outflow, new cap | embedded in both kinds of account |
| Atomic swap (`integrations/atomic_swap`) | amounts and balances recorded by Borrow | borrow, repay | instructions sysvar, foreign programs, oracle |
| LayerZero bridge (`integrations/lz_bridge`) | a push is in flight | push, reset | instructions sysvar, the OFT Send of the same transaction |
| Kamino, Drift (`integrations/kamino`, `drift`) | recorded balance of the position | push, pull, sync (with harvest) | CPIs to klend, kfarms, Drift |
| CCTP bridge, SPL token external | none | push | CPIs to CCTP and the token program |
| Oracle (`state/oracle`) | price, its slot, feed, authority | initialize, update, refresh | a Switchboard feed; read by Repay |
| Claiming rent (`processor/claim_rent.rs`) | lamports of the controller authority | claim | a system transfer |
| Events (`events.rs`) | none; a self-CPI | emit | every handler that changes an account |
| Accounts of an instruction (`macros.rs`, `cpi.rs` of each integration) | none | take, save, invoke | the accounts the client lists, the runtime's privileges, the programs invoked |
| Rust client (`src/clients/rust`) | none | one call per instruction and kind | lists of accounts with privileges |

What is hard: nothing runs in parallel inside a transaction, but between two
instructions everybody may act, and *within* a transaction foreign programs run
that call back. Token balances change behind the accounts that record them.
Interest appears when somebody touches a foreign program. Refreshes are lazy and
permissionless, arithmetic rounds, saturates or panics, and a panic in an account
that everybody needs lasts for ever. Every handler repeats its own checks of
status and privilege; accounts are passed by position, and the client's order and
privileges have to agree with what the handler takes, saves and passes on.

What makes each part correct:

* Reserve: the record follows the vault, the events add up to the record, no
  sequence of calls makes the account unusable.
* Rate limit: it is a token bucket, no matter who refreshes it when.
* Controller and permissions: a manager is always left, no privilege appears
  without a manager, a freeze holds and can be ended.
* Atomic swap: nothing happens to the reserves between Borrow and Repay, the
  swap is priced by a recent price, the lock does not outlive the transaction.
* LayerZero: what is paid out is bridged where the configuration says.
* Lending: events, recorded balance, position and vault agree up to known
  rounding; the rate limit bounds what is out.
* Integrations, SPL transfer, CCTP, rent: what a destination receives is bounded
  by what its limit was ever granted, and leaves by those who may send it only.
* Oracle: a price is what the registered feed quoted, and an accepted swap is
  worth its input at such a quote.
* Client and handlers: what the client lists is what the handler takes, and
  suffices for every save and invocation.

`PROJECT.json` lists every component, every hazard with its line, and for every
definition the lines it translates.

## 2. Modules

| Module | What it is |
| --- | --- |
| `RateLimit` | The five rate limit fields and the code on them, as operators on any record that has them. Reserves and integrations share it, as they share the code. |
| `ReserveState` | `impl Reserve`: a record, one operator per method. Used by every module with a reserve; `ReserveStateProofs` has a lemma for what each method keeps, and for what refresh, inflow, outflow, sync and a new cap do to the level of *any* record with the five fields. |
| `LimitLevel` | What such a record stands for as the level of a bucket: the refinement mapping of `ReserveProps`, `OutflowProps`, `LendingProps` and `AtomicSwapProps`. |
| `Reserve` | State machine of one reserve, its vault, the clock and the sum of its events: what a reserve does in whatever company. Push and Pull are its side of an integration's, Harvest its side of a Kamino sync, which needs no Active reserve. Extended by `ReserveProps` (properties), `MCReserve` (TLC), `ReserveProofs` (TLAPS). |
| `TokenBucket` | Abstract specification of the rate limit: a bucket that earns second by second, in units of 1/86400 token, and rounds nothing. Its next-state relation says what a bucket may do at all; which step is due, and by how much, is said by the `BucketStep` (`SwapBucketStep`) of each module that implements it, which leaves no amount open: `Reserve` implements the specification with the step determined by what the vault held beyond the record and what the instruction moved, `Outflow`, `Lending` and `AtomicSwap` one bucket per limit in the same way. |
| `Governance`, `GovernanceProps`, `MCGovernance`, `GovernanceProofs` | Controller status, permissions, the three governance instructions. |
| `Transaction` | Lists of instructions, foreign programs that call back, commit and abort, and what the sysvar shows. |
| `AtomicSwap`, `AtomicSwapProps`, `MCAtomicSwap`, `AtomicSwapProofs` | `Transaction` composed with two reserves, an integration, an oracle, and all instructions that may meet a swap. |
| `LzBridge`, `LzBridgeProps`, `MCLzBridge`, `LzBridgeProofs` | `Transaction` composed with several bridges on one reserve. |
| `Lending`, `LendingProps`, `MCLending`, `LendingProofs` | A Kamino and a Drift integration on one reserve, with the protocols as external operators. |
| `SwapPricing` | `calc_swap_price`, `get_price` and the slippage check, at any precision and integer width, with the branch that is taken on overflow. |
| `Oracle`, `OracleProps`, `MCOracle`, `OracleProofs` | An oracle, two feeds, two controllers and an atomic swap that is priced by it: initialize, update and refresh, and the initialize, borrow and repay of the swap as far as the price is concerned. |
| `Outflow`, `OutflowProps`, `MCOutflow`, `OutflowProofs` | `Governance` composed with what it governs: integrations that pay out at once (SPL transfer, CCTP), their creation and reconfiguration, the reserve they share, and the rent. |
| `AccountMetas`, `ClientInstructions`, `ClientCalls` | The accounts that the Rust client lists: the generated instructions, and the hand-written calls on top of them. |
| `ProgramAccounts`, `CpiAccounts`, `Handlers` | The account structs of the program with their checks; the accounts of the programs it invokes; and each handler as the sequence of what it takes, saves and invokes. |
| `Interface`, `InterfaceProps`, `MCInterface` | One instruction on its way from the client's list through the runtime to the handler's last invocation. |

Conventions. An action is one instruction that **commits**: its guards are the
handler's checks, and an instruction that fails is no step, because the chain
keeps nothing of it. Only in the modules on `Transaction` is a failure a step
(`Abort`), because there several instructions share one fate. Chain events
(`Deposit`, `Seize`, `Tick`, `NextBlock`, `ForeignTransfer`) and the foreign
programs (`KlendDeposit`, `Send`, ...) are marked external in the map and are as
nondeterministic as the code allows for. `ledger` in `Reserve`, `AtomicSwap` and
`Lending` is history: the sum of the accounting events. So are `net`, `moves`,
`pushed`, `bridged`, `signer`, and `tx.opened`, the accounts as Borrow left them;
in `Outflow` `paid`, `sent`, `credits`, `ledger` and `budget`; in `Oracle` `swap`
keeps the amounts of the last swap.

The modules that compose a reserve with something else name `Component`, an
instance of `Reserve` with the reserve, the vault and the events of that module.
`Reserve` is thus at once a model of its own and the specification of the reserve in
`Outflow`, `Lending`, `LzBridge` and `AtomicSwap` (there, one instance for each
token): whatever the composition adds, it adds around the reserve's operations. In
`AtomicSwap` and `LzBridge` the instance records no events (`AtomicSwap`'s are those
of its Repay, `LzBridge` has none), and `RolledBack` is the abort that restores it.

An operator whose comment starts with "Mutant" is a plausible bug; no
specification uses it. It stands beside the definition it is a variant of, and
shows that the property named for it in `PROJECT.json` would notice.

Correspondence worth knowing:

* `SyncBalance` stands for `Reserve::sync_balance` with its refresh, its flow and
  its event; each handler that calls it first uses `Synced` and adds `SyncEvent`
  to the ledger.
* An optional argument of `manage_reserve` is a set of at most one element.
* The permission flags of an account are the set of those that are on;
  `Can(p, flag)` is the accessor `permission.can_...()`, which also asks for an
  Active account.
* `Runs(kind)` and `Stepped` in `Transaction` say that an instruction may run at
  the top level or inside a foreign program; checks of the sysvar (`VerifyRepay`,
  `VerifySend`, `Reset`) are guards on `tx`.
* In `Outflow` the address of an integration is its configuration, which is what
  it is derived from; `Push` is the Push of both kinds, which differ in `MayPush`
  only, and `Leaves` is what the transfer or the burn does to the vault. `budget`
  adds up what a limit was granted, in units of 1/`SecondsPerDay` token: its cap
  when it was created, its slope at every second, raises of its cap, and for the
  reserve the deposits it booked.
* In `Interface` an instruction is a `tx` of a call, the facts that hold of it (an
  account that is still to be created is a fact of that name), its payer and its
  fee payer. A `take` step is `from_accounts` of one struct, a `save` the writing of an
  account, an `invoke` a CPI. Steps under a condition on amounts may be skipped
  (`certain` is FALSE): a flow that is zero emits no event.
* In `Lending` interest is `earned` with every block and moves to the `index`
  when the protocol is refreshed; `Worth` is the value the handlers compute.

## 3. What is checked

Run `tlc -config X.cfg MC<module>.tla` in this directory.

| Run | Shows | Bounds, and why they are enough |
| --- | --- | --- |
| `reserve` | `TypeOK`, `NeverBricked`, `AuditTrailComplete`, `BalanceIsVault`, `ImplementsTokenBucket` | A day of 3 seconds and slopes 1 and 4: thirds of tokens, whole ones and both are earned. Caps 0, 2 and 7 = `U64Max`, the "unlimited" value. Four seconds, three blocks, blocks with the same timestamp. `ImplementsTokenBucket` fixes the amounts of each step by the vault and the recorded balance, so that a push which does not ask the limit, or is not debited, is no step of the bucket. |
| `governance` | `GovTypeOK`, `ManagerAlive`, `NoEscalation`, `ManagersProtected`, `FreezeHolds`, `UnfreezeNotObstructed` | Three authorities: two can act on each other and on a third. The roles are those of the permission matrix of `src/README.md`, one that both manages and suspends, and none. |
| `governance_initialize` | violation of `InitializePermissionless` | See findings. |
| `atomic_swap` | `SwapTypeOK`, `SwapPriced`, `BalancesSettled`, `LockIsTransient`, `EventsCovered`, `SwapIsolated` | Two transactions, so that the second starts in every state the first can leave, of six shapes, well formed and not; in the first three calls by foreign programs, enough to lift the lock, act, and repay, and two in the second. Two prices whose slippage bound needs rounding, transfer fees 0 and 1, staleness of one slot. |
| `atomic_swap_events` | violation of `EventsComplete` | See findings. |
| `lz_bridge` | `LzTypeOK`, `NoneInFlight`, `BridgedCoversPushed`, `LimitsCharged` | Two bridges to one destination and one other destination; two transactions, with two calls by foreign programs in the first and three in the second, so that Push can be called twice before one Send. |
| `lending` | `LendingTypeOK`, `EventsBooked`, `DriftDust`, `LimitsAreBuckets`, `ReserveSettled`, `RecordedIsCurrent` | Kamino alone for three moves and three slots (klend can be stale by a slot or by the flag), Drift alone for four moves and four slots (the dust of several moves adds up), and both on one reserve for two moves. Moves of 1 and 3 tokens (of 3 where both run), the units 2 and 5 and an index from 3 to 5 make most amounts round, and some not. |
| `lending_drift_events` | violation of `DriftBooked` | See findings. |
| `oracle` | `OracleTypeOK`, `PriceIsQuoted`, `ConfigGuarded`, `SwapWorth` | An authority and an outsider, two controllers of which one owns the oracle, two feeds that quote 3, 1, 0 and -1 over three slots, refreshed with any of their quotes. Factors 2 and 3 make most divisions round; an integer bound of 12 sends the larger amounts into the second branch of the price. Both directions of the flag. |
| `outflow` | `OutflowTypeOK`, `OutflowBounded`, `BooksAgree`, `Contained`, `FrozenIsStill`, `LimitsAreBuckets` | An administrator and an operator; a wallet, a bridge that is created liquidable or not, and a recipient that is the vault itself. Two steps that reconfigure anything (grant, suspend, freeze, unfreeze, new slope, cap or status): enough to change a limit before and after a second passes, and to freeze and unfreeze. The larger cap is `U64Max`, the unlimited one. |
| `interface` | `AccountsLand`, `ClientAccepted`, `PrivilegesCovered` | Complete rather than bounded: every call of the client, each with every combination of its facts (which accounts exist, which token program, whether a klend reserve has a farm, an obligation a referrer), every payer and every fee payer. |
| `interface_farmless` | violation of `FarmlessAccepted` | See findings. |

`SecondsPerDay`, `U64Max`, precision, decimals and basis points are small in the
runs: the arithmetic has its boundary cases (a fraction, the cap, saturation,
rounding up) at every size, and the proofs of the rate limit hold for every size.

Deadlock is not checked where the system may stop. A frozen controller that nobody
may unfreeze stops (`governance*`, and `outflow` when the clock and the changes
have run out as well): this is how the program is. `AtomicSwap` and `LzBridge` stop
between two transactions when `MaxTxs` have been executed; inside a transaction
`Abort` is always possible. In `oracle` nobody can act for a frozen controller in
the last slot.

**Fairness.** One run uses it: `FairSpec` of `Governance` is weakly fair to the
unfreezing of a frozen controller. `manage_controller` needs nothing but an
active permission with the flag, and its holder can send it in every block, so
that an authority that stays able to do it, and wants to, succeeds. The run
asks whether the *others* can take away that ability. Everything else is safety:
the program has no process of its own, and nothing in it has to happen.

**Findings.** Four violations are kept as runs, each a difference between what the
repository says and what the code does. `initialize_controller` is called
permissionless and needs the deployer's signature. A swap that returns more of
the input token than it borrowed is booked to the balance, but its event is
saturated at 0, so that the events of the reserve stay below its balance for
ever (`EventsCovered` says that this is the only direction). Drift's events count
tokens and its balance counts scaled units rounded down, so that the events
exceed the balance; `DriftDust` bounds the difference by the rounding of one move
(`DriftRounding`, one unit for a token of at most 8 decimals) times the moves. And the
farm of a Kamino reserve is documented as optional, but its struct wants it
writable, which the default key never is (`interface_farmless`).

A fifth disagreement has no run of its own. The status PushPullFrozen is documented
to refuse Push and Pull only: "all other operations are valid"
(`enums/controller_status.rs:12`). But `claim_rent.rs:38` asks for an Active
controller, so that rent cannot be claimed under it, and `atomic_swap_borrow.rs:160`
asks the same of Borrow; the repository's test of `claim_rent` tries Frozen only. The
models follow the code (`ClaimRent` and `Borrow` have the guard), and no property
makes a requirement of it: `Contained` says of rent only whose signature moves it,
`FrozenIsStill` that it stays under Frozen, and neither that it stays under
PushPullFrozen.

`PrivilegesCovered` names four funders by which a handler has somebody pay for an
account of whom the client does not ask enough: the authority in the SPL, CCTP and
LayerZero pushes, who signs but is not listed as writable, and the payer that
re-creates a Kamino obligation, who is listed as writable and not as signer. Each
works when that funder pays the transaction's fee, as in the repository's tests;
nothing in the repository says that it must, so that this is stated as the exact
exception of the property and not as a finding.

## 4. What is proved

TLAPS proves these for every value of the constants, from the assumptions that
the modules name (`RateLimitAssumption`, `ReserveAssumption`,
`GovernanceAssumption`, `AtomicSwapAssumption`, `LzBridgeAssumption`,
`PricingAssumption`, `OracleAssumption`, `OutflowAssumption`,
`LendingAssumption`), which TLC evaluates on every run.

* `ReserveProofs`. The inductive invariant `ReserveInv` joins the types, the
  bounds of `NeverBricked` and the audit trail with one fact that none of them
  says: an address without an account holds nothing a later initialization could
  inherit. Each account operator has a lemma for what it keeps (`RefreshKeeps`,
  `InflowKeeps`, `OutflowKeeps`, `SyncKeeps`, `UpdateKeeps`, in
  `ReserveStateProofs`, which the other proofs with a reserve share), each action
  one that cites them. From it follow `ReserveTypeOK`, `ReserveNeverBricked`,
  `ReserveAuditTrail` and the action property `ReserveBalanceIsVault`.
* `ReserveProofs`, second part. `ReserveImplementsBucket`: the rate limit refines
  `TokenBucket`. The level of the bucket is what the account *would* hold if it
  were refreshed now (`LevelAt`), so that time is a step of the bucket and a
  refresh is none. The lemmas for the level after each operator are in
  `ReserveStateProofs`, for any record with the fields of a limit (`IsLimit`), as
  the code is shared by reserves and integrations; each action is then shown to be
  the step of the bucket that `BucketStep` calls for: a `Move` by what the sync
  found or missed (`SyncAsMove`) and what the instruction itself paid or received
  (`BucketMoves`), a `Resize` to the new terms, or the passing of time, which is
  nothing for a reconfiguration to the same terms, a sync that finds nothing and a
  transfer that nobody has synced yet (`BucketRests`). A push is covered by the
  bucket because, and only because, it is within the limit (`PaymentMoves`).
* `GovernanceProofs`. `GovInv` is the types and `ManagerAlive`; the three action
  properties follow from the types and a case split over who signs.
  `UnfreezeNotObstructed` is liveness, but its safety half is a theorem:
  `GovernanceUnfreezersKept` says that while the controller is frozen the set of
  those who may unfreeze it does not change, so that what remains is that one of
  them acts. Its other side is `GovernanceFrozenForEver`: when that set is empty
  the controller stays frozen in every later state. `UnfreezersKept` and
  `FrozenForEver` stand in `GovernanceProps`; TLC agrees with both on `governance`.
* `AtomicSwapProofs`. `SwapInv` says what the three checks of the program mean
  together. *Open ⇒ Repay is ahead*: `VerifyRepay` saw that nothing but foreign
  programs and a final Repay is left, and no step but Repay gets past that last
  instruction. *Locked ⇒ as opened*: the integration and both reserves are those
  that Borrow wrote, and its record explains what the vaults held, because every
  instruction that could change them is refused under the lock, and an
  instruction that lifts the lock can never set it again. The accounts that an
  abort restores are clean (no lock, no swap). `AtomicSwapLockIsTransient` follows
  because Repay is not ahead between transactions; `AtomicSwapIsolated` because
  only Repay can be the last step (`LastStep`) and it compares the vaults;
  `AtomicSwapTypeOK` needs all of it, for Repay adds to a recorded balance without
  a check of its own that the model could cite; `AtomicSwapBalancesSettled` is a
  conjunct of the invariant. A second invariant, `SwapBooks`, adds what the events
  and the price rest on: with the lock set the events exceed the recorded balance by
  no more than the loan (`Lent`), without an open swap by nothing (`Covered`), and
  the accounts that an abort restores are covered too; and the oracle holds a quote
  that was published, or is of slot 0 and too old (`Quoted`). `AtomicSwapEventsCovered`
  and `AtomicSwapPriced` follow, the latter with `AcceptedIsWorth`, the arithmetic of
  both roundings. `AtomicSwapLimitIsBucket`: the limit of the integration is an exact
  token bucket, too. The step of the bucket follows from what moved: a swap that opens
  or ends is a `Move` of what left vault A or came back, a new cap is a `Resize`, and
  every other step, any call by a foreign program included, is the passing of time. Repay credits
  without a refresh; that this loses nothing is the guard `Fresh`, by which the level
  is what the account holds. An abort is no step of the bucket but the return to the
  level that it found (`RolledBack`).
* `LzBridgeProofs`. `LzInv`: a flag that is set has its own Send and Reset in front
  of it (`Carried`), so that at most one is set, and what was pushed is bridged or
  due from that Send (`Due`). `Passing` is the lemma for every step that is none
  of Push, Send and Reset. Between transactions nothing is in front, which gives
  `LzBridgeNoneInFlight` and `LzBridgeCovered`. `LzBridgeCharged` says for any
  finite number of bridges that what was pushed for a destination is, to the token,
  what the limits of its bridges have been charged with. It needs how the sum over
  a set changes when one summand does (`SumsDiffer`); induction theorems cannot be
  used here, so that the lemmas about the sum argue by the set of the sizes for
  which they hold. That there are finitely many bridges is an assumption of the
  module, and true of accounts on a chain.

These two hold for transactions of every length and shape: the only facts used
of `IxLists` are that its members are not empty and that their instructions have
the kinds of the model; `MaxCalls` and `MaxTxs` appear in no proof step.

* `OracleProofs`. `OracleTypes`, `OraclePriceIsQuoted` and `OracleConfigGuarded` by
  a case split over the actions: a new feed voids price and slot together, and
  `CheckData` ties the oracle to the controller whose status was asked.
  `OracleSwapWorth` is arithmetic: `CeilCovers`, `SwapPriceCovered` and
  `AcceptedCovers` show that the rounded price, whichever branch computed it, never
  claims more than the exact quotient, `WorthDirect` and `WorthInverted` carry this
  over the two directions of the oracle; `SwapMatches`, an invariant, says that
  the direction still fits the mints. It holds for every precision, number of
  decimals, slippage and integer width.
* `OutflowProofs`. The bound on what went out is not inductive by itself: the
  invariant `OutflowInv` adds to it what may still go out. `Charged` says that what
  a limit has paid, plus what it would hold if it were refreshed now (`Earned`, in
  fractions of a token and without the cap), is no more than it was granted. A
  second adds the slope to both sides, a refresh turns earnings into holdings
  (`RefreshIntegration`, `RefreshReserve`) and may lose some at the cap, a
  reconfiguration is covered only because it refreshes first
  (`UpdatedIntegration`), a push moves from holdings to paid (`Debited`). From it
  follow `OutflowTypes`, `OutflowIsBounded` and `OutflowBooksAgree`; `OutflowContained`
  and `OutflowFrozenIsStill` are case splits over the actions from the types. The
  bounds `Supply`, `MaxTime` and `MaxChanges` limit the state space only; the proofs
  use nothing of them but their types.
* `OutflowProofs`, second part. `OutflowImplementsBuckets`: all limits at once, the
  reserve's and every integration's, are exact token buckets. `BucketStep` leaves no
  choice: it says from the tokens paid and found which step of the bucket has to be
  taken, so that one Push is a `Move` of two buckets, each from a level of its own,
  and a rest of all others. A reconfiguration is one `Resize`, which holds only
  because the refresh comes first. The bucket of an address without an account is
  empty and has no cap; that it was never touched (`Untouched`) is an invariant of
  its own, for initialization fills it from there. `OutflowWindowBounded` draws the
  consequence that a rate limit is for: in *any* window of time, and not only since
  the start, less than one token more than the cap and what is granted meanwhile is
  paid. It rests on `PaidStep` (a step pays no more than the bucket held and is
  granted) and `GrantsNext` (what `budget` grants covers every second, raise and
  deposit); the token in excess is the fraction that an inflow leaves on top of
  a full limit.
* `LendingProofs`. `LendingInv` says of every kind that integration, position,
  events and tokens fit (`Fits`), and of the reserve that its events and its balance
  do (`ReserveFits`). One kind's step leaves the other alone (`KindStep`), so that
  each handler is argued for its own kind. `Bounded` is an inequality that refresh,
  debit and credit keep (`RefreshBounded`, `DebitBounded`, `CreditBounded`): this is
  `LendingExposureBounded`, which `LimitsAreBuckets` implies and no run checks apart
  from it. For `LendingEventsBooked` the saturating difference that
  the handlers book has to be exact: `Worth` is monotone in shares and index
  (`WorthMono`), and Push only adds to the shares, Pull only takes. For
  `LendingRecordedIsCurrent` the invariant says that a klend reserve that was refreshed
  in this slot has no interest left to add. `LendingDriftDust` is `RoundingBound`:
  rounding a deposit down and a withdrawal up differ from the tokens by at most
  `DriftRounding`, at any index. The program panics when a value does not fit a u64;
  those steps do not commit, so that the model guards them with `\in U64`.
* `LendingProofs`, second part. `LendingImplementsBuckets`: the limit of each
  position is the exact bucket of the tokens that left the vault for it and came
  back. Only the tokens occur in `BucketStep`, so that neither the shares nor the
  values that the protocols round may enter the limit. `BucketsPush` and
  `BucketsReceive` are the two moves (Pull and harvest share the second),
  `BucketsRefresh` says that a Sync or a change of status is none.
  `LendingWindowBounded` bounds the net outflow of every window, as above.

* The reserve of a composition is `Reserve`: `OutflowReserveIsComponent`,
  `LendingReserveIsComponent`, `LzBridgeReserveIsComponent` and
  `AtomicSwapReservesAreComponents`. Each says that every step is an operation of
  `Component`, with all of that operation's guards, or leaves the reserve, its vault
  and its events alone (or is an abort, in the two modules on `Transaction`). Since
  both sides are built from `ReserveState`, the operators agree by definition
  (`ComponentOperators`), and each action is mapped to one operation. What is
  not immediate is where a composition does more, or in another order, than the
  operation: a Push of `Outflow`, where only the guard `TransferMatches` keeps a recipient
  that is the vault itself from being paid by no move; a Pull that pays what the
  protocol makes of an amount (`KaminoPays`, `DriftPays`); a harvest in the midst of a
  sync, also for a suspended reserve, which is why `Reserve` has `Harvest`; and Repay,
  which neither syncs nor refreshes, and is a Pull only because its reserves are those
  that Borrow synced (`SwapInv`) and found Active (`OpenedActive`, an invariant of its
  own). So what `ReserveProofs` shows of single steps of a reserve (`ReserveBalanceIsVault`,
  the step of the bucket) is about the steps of these modules. TLC agrees on
  the instances of `outflow`, `lz_bridge` and `atomic_swap`, and on a smaller one than
  that of `lending` (two moves, one where both protocols run, and two slots).

Only model-checked: liveness (`UnfreezeNotObstructed`; no prover for it here), and
the properties of `Interface` (`AccountsLand`, `ClientAccepted`,
`PrivilegesCovered`), whose run is already complete: its constants are the lists
themselves, not parameters, so that a proof would enumerate what TLC has
enumerated. Every other property of a passing run is a theorem. No module uses a
RECURSIVE operator.

## 5. What is not modelled, and the plan

Not modelled, for good:

* The derivation of addresses and hashes, borsh and the zero-copy layouts of
  foreign accounts. Their effect is that an action names the right account; an
  integration has one account because its address is its configuration.
* Comparisons of keys with stored data in the `checked_from_accounts` functions
  beyond the struct checks. They pin each account to the configuration; the models
  start from accounts that are pinned. So `VerifyRepay` leaves out that the last
  instruction names the same integration and the same accounts of the recipient
  (`atomic_swap_borrow.rs:118-142`): the model has one of each, and the latter are no
  vaults.
* That a Kamino sync wants an obligation that exists and is owned by klend
  (`kamino/sync.rs:38`). `SyncKamino` may run without one, on a position of no
  shares: the model allows more than the code, and its properties hold all the same.
* What foreign programs do inside the CPIs that open an account (`initialize` of
  Kamino and Drift), and the value of rewards in another mint.
* The filter of token extensions. What it lets through is in the models: transfer
  fees and a permanent delegate.
* The TypeScript client and the builders and CPI wrappers that are generated around
  the Rust instructions; they repeat the lists of `ClientInstructions`.
* A clock that goes back or before 1970, on which `calculate_rate_limit_increment`
  would miscount: not a state of the chain, and `NeverBricked` shows that the
  program itself never records a later time.
* Events of configuration changes, which carry copies of accounts and have no
  effect; the accounting events are the ledgers.

Next, in this order:

1. `Outflow` with the lending protocols and LayerZero among its ways out: what a
   liquidator reaches through Pull, and one budget over all kinds.
2. The refinement of `Reserve` and `Outflow` by one abstract account of tokens, to say
   once what a reserve promises whichever way its tokens leave. That the reserves of
   all compositions are `Reserve`'s is its first half.
3. Time in `LzBridge`, whose transactions all run in one block: its limits would be
   buckets as in `AtomicSwap`, where now `LimitsCharged` accounts for them to the token.
