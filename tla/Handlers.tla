------------------------------ MODULE Handlers ------------------------------
(***************************************************************************)
(* What each handler does with its accounts, step by step: it takes a      *)
(* group of accounts, it invokes an instruction and signs it for the       *)
(* program addresses whose seeds it gives, it saves an account.  A step    *)
(* may depend on what holds when the instruction runs, or on amounts that  *)
(* this module leaves out.                                                 *)
(***************************************************************************)
EXTENDS ProgramAccounts, CpiAccounts

LOCAL Step(kind, detail, seeds) ==
  [kind |-> kind, detail |-> detail, seeds |-> seeds, holds |-> {},
   fails |-> {}, certain |-> TRUE]

Take(fields) == <<Step("take", fields, {})>>
Invoke(metas, seeds) == <<Step("invoke", metas, seeds)>>
Save(name) == <<Step("save", name, {})>>

When(fact, steps) ==
  [i \in DOMAIN steps |-> [steps[i] EXCEPT !.holds = @ \cup {fact}]]
Unless(fact, steps) ==
  [i \in DOMAIN steps |-> [steps[i] EXCEPT !.fails = @ \cup {fact}]]
Perhaps(steps) == [i \in DOMAIN steps |-> [steps[i] EXCEPT !.certain = FALSE]]

InvokeSigned(metas) == Invoke(metas, {"controller_authority"})
EmitEvent == InvokeSigned(EmitCpi)
SyncBalance == Perhaps(EmitEvent)

\* An address that somebody sent lamports to cannot be created in one step.
CreatePdaAccount(payer, account) ==
  Unless("prefunded", Invoke(CreateAccount(payer, account), {account})) \o
  When("prefunded",
       Perhaps(Invoke(TransferLamports(payer, account), {})) \o
       Invoke(AllocateOrAssign(account), {account}) \o
       Invoke(AllocateOrAssign(account), {account}))

InitAccount(account) == CreatePdaAccount("payer", account) \o Save(account)

InitializeController ==
  Take(InitializeControllerAccounts) \o InitAccount("controller") \o
  InitAccount("permission") \o EmitEvent \o EmitEvent

ManageController ==
  Take(ManageControllerAccounts) \o Save("controller") \o EmitEvent

\* A permission is created for who has none, by who may manage permissions.
ManagePermission ==
  Take(ManagePermissionAccounts) \o
  When("permission", InitAccount("permission")) \o
  Unless("permission", Save("permission")) \o EmitEvent

InitializeReserve ==
  Take(InitializeReserveAccounts) \o
  Invoke(CreateIdempotent("payer", "vault", "controller_authority", "mint",
                          "token_program"), {}) \o
  InitAccount("reserve") \o EmitEvent \o SyncBalance \o Save("reserve")

ManageReserve == Take(ManageReserveAccounts) \o EmitEvent \o Save("reserve")

SyncReserve == Take(SyncReserveAccounts) \o SyncBalance \o Save("reserve")

ManageIntegration ==
  Take(ManageIntegrationAccounts) \o Save("integration") \o EmitEvent

InitializeOracle ==
  Take(InitializeOracleAccounts) \o InitAccount("oracle") \o EmitEvent

UpdateOracle == Take(UpdateOracleAccounts) \o EmitEvent \o Save("oracle")

RefreshOracle == Take(RefreshOracleAccounts) \o Save("oracle")

ResetLzPushInFlight == Take(ResetLzAccounts) \o Save("integration")

ClaimRent ==
  Take(ClaimRentAccounts) \o
  InvokeSigned(TransferLamports("controller_authority", "destination"))

AtomicSwapBorrow ==
  Take(BorrowAccounts) \o SyncBalance \o SyncBalance \o
  Perhaps(InvokeSigned(TransferChecked("vault_a", "mint_a",
                         "recipient_token_account_a",
                         "controller_authority"))) \o
  Save("reserve_a") \o Save("reserve_b") \o Save("integration") \o
  Save("controller")

\* The second token is paid in any case, the first one if some is left.
AtomicSwapRepay ==
  Take(RepayAccounts) \o Save("controller") \o
  Perhaps(Invoke(TransferChecked("payer_account_a", "mint_a", "vault_a",
                                 "payer"), {})) \o
  Invoke(TransferChecked("payer_account_b", "mint_b", "vault_b", "payer"), {}) \o
  Save("reserve_a") \o Save("reserve_b") \o Save("integration") \o
  EmitEvent \o EmitEvent

InitializeIntegration(inner) ==
  Take(InitializeIntegrationAccounts) \o inner \o
  InitAccount("integration") \o EmitEvent

InitializeAtomicSwap == InitializeIntegration(Take(InitializeAtomicSwapAccounts))

\* Mutant: the authority pays, as it does in the push.
InitializeSplByAuthority ==
  InitializeIntegration(
    Take(InitializeSplAccounts) \o
    Invoke(CreateIdempotent("authority", "token_account", "recipient",
                            "mint", "token_program"), {}))

InitializeSplTokenExternal ==
  InitializeIntegration(
    Take(InitializeSplAccounts) \o
    Invoke(CreateIdempotent("payer", "token_account", "recipient", "mint",
                            "token_program"), {}))

InitializeCctpBridge == InitializeIntegration(Take(InitializeCctpAccounts))

InitializeLzBridge == InitializeIntegration(Take(InitializeLzAccounts))

\* The pool of a new user is set when its market is of another pool.
InitializeDrift ==
  InitializeIntegration(
    Take(InitializeDriftAccounts) \o
    When("drift_user_stats", InvokeSigned(InitializeUserStats)) \o
    When("drift_user", InvokeSigned(InitializeUser) \o
                       When("pool", InvokeSigned(UpdateUserPoolId))))

InitializeKamino ==
  InitializeIntegration(
    Take(InitializeKaminoAccounts) \o
    When("user_metadata", InvokeSigned(InitializeUserMetadata)) \o
    When("obligation", InvokeSigned(InitializeObligation)) \o
    Unless("no_farm", When("obligation_farm_collateral",
                        Invoke(InitializeObligationFarmForReserve, {}))))

PushIntegration(inner) ==
  Take(PushAccounts) \o inner \o Save("integration") \o Save("reserve_a")

PullIntegration(inner) ==
  Take(PullAccounts) \o inner \o Save("integration") \o Save("reserve_a")

\* The authority pays for the recipient's account.
PushSplTokenExternal ==
  PushIntegration(
    Take(PushSplAccounts) \o SyncBalance \o
    Invoke(CreateIdempotent("authority", "recipient_token_account",
                            "recipient", "mint", "token_program"), {}) \o
    InvokeSigned(TransferChecked("vault", "mint", "recipient_token_account",
                                 "controller_authority")) \o
    EmitEvent \o EmitEvent)

\* The authority pays for the account of the message.
PushCctpBridge ==
  PushIntegration(Take(PushCctpAccounts) \o SyncBalance \o
                  InvokeSigned(DepositForBurn("authority")) \o
                  EmitEvent \o EmitEvent)

\* The authority pays for an account of its own.
PushLzBridge ==
  PushIntegration(
    Take(PushLzAccounts) \o SyncBalance \o
    Invoke(CreateIdempotent("authority", "authority_token_account",
                            "authority", "mint", "token_program"), {}) \o
    InvokeSigned(TransferChecked("vault", "mint", "authority_token_account",
                                 "controller_authority")) \o
    EmitEvent \o EmitEvent)

\* Drift gets the remaining accounts with the privileges they came with.
DriftRemaining == <<R("spot_market_oracle"), W("spot_market"), R("mint")>>

PushDrift ==
  PushIntegration(Take(PushDriftAccounts) \o SyncBalance \o
                  Invoke(UpdateSpotMarketCumulativeInterest, {}) \o
                  Perhaps(EmitEvent) \o InvokeSigned(Deposit(DriftRemaining)) \o
                  EmitEvent \o EmitEvent)

PullDrift ==
  PullIntegration(Take(PullDriftAccounts) \o SyncBalance \o
                  Invoke(UpdateSpotMarketCumulativeInterest, {}) \o
                  Perhaps(EmitEvent) \o InvokeSigned(Withdraw(DriftRemaining)) \o
                  EmitEvent \o EmitEvent)

\* Kamino closes an obligation that a pull has emptied.
PushKamino ==
  PushIntegration(
    Take(PushPullKaminoAccounts({"klend", "system"})) \o
    When("obligation", Take(InitializeObligationAccounts) \o
                       InvokeSigned(InitializeObligation) \o
                       Invoke(RefreshObligationAfterInit, {})) \o
    SyncBalance \o Perhaps(EmitEvent) \o
    InvokeSigned(DepositReserveLiquidity) \o EmitEvent \o EmitEvent)

PullKamino ==
  PullIntegration(
    Take(PushPullKaminoAccounts({"klend"})) \o SyncBalance \o
    Perhaps(EmitEvent) \o InvokeSigned(WithdrawObligationCollateral) \o
    EmitEvent \o EmitEvent)

SyncDrift ==
  Take(SyncIntegrationAccounts) \o Take(SyncDriftAccounts) \o
  Invoke(UpdateSpotMarketCumulativeInterest, {}) \o Perhaps(EmitEvent) \o
  Save("integration")

\* The rewards are recorded when they are of the reserve's own token.
HarvestKamino ==
  Take(HarvestAccounts) \o
  Invoke(CreateIdempotent("payer", "rewards_ata", "controller_authority",
                          "rewards_mint", "rewards_token_program"), {}) \o
  InvokeSigned(HarvestReward) \o
  Perhaps(EmitEvent \o EmitEvent \o EmitEvent)

SyncKamino ==
  Take(SyncIntegrationAccounts) \o Take(SyncKaminoAccounts) \o SyncBalance \o
  Unless("no_farm", When("harvest", HarvestKamino)) \o
  Perhaps(EmitEvent) \o Save("reserve") \o Save("integration")
=============================================================================
