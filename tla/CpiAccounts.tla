----------------------------- MODULE CpiAccounts -----------------------------
(***************************************************************************)
(* The accounts of the instructions that the program invokes, with the     *)
(* privileges it asks for.  An operator names its accounts by the roles    *)
(* they have in the handler that invokes it, where these differ.           *)
(***************************************************************************)
EXTENDS AccountMetas

\* The system program.
CreateAccount(from, to) == <<WS(from), WS(to)>>
TransferLamports(from, to) == <<WS(from), W(to)>>
AllocateOrAssign(account) == <<WS(account)>>

\* The token programs and the associated token program.
TransferChecked(from, mint, to, authority) ==
  <<W(from), R(mint), W(to), S(authority)>>
CreateIdempotent(funding, account, wallet, mint, program) ==
  <<WS(funding), W(account), R(wallet), R(mint), R("system_program"),
    R(program)>>

\* The program's own instruction that records an event.
EmitCpi == <<S("controller_authority")>>

\* CCTP.
DepositForBurn(eventRentPayer) ==
  <<S("controller_authority"), WS(eventRentPayer), R("sender_authority_pda"),
    W("vault"), W("message_transmitter"), R("token_messenger"),
    R("remote_token_messenger"), R("token_minter"), W("local_token"),
    W("mint"), WS("message_sent_event_data"), R("cctp_message_transmitter"),
    R("cctp_token_messenger_minter"), R("token_program"),
    R("system_program"), R("event_authority"),
    R("cctp_token_messenger_minter")>>

\* Drift.
InitializeUserStats ==
  <<W("drift_user_stats"), W("drift_state"), S("controller_authority"),
    WS("payer"), R("rent"), R("system_program")>>

InitializeUser ==
  <<W("drift_user"), W("drift_user_stats"), W("drift_state"),
    S("controller_authority"), WS("payer"), R("rent"), R("system_program")>>

UpdateUserPoolId == <<W("drift_user"), S("controller_authority")>>

UpdateSpotMarketCumulativeInterest ==
  <<R("state"), W("spot_market"), R("spot_market_oracle"),
    R("spot_market_vault")>>

Deposit(remaining) ==
  <<R("state"), W("user"), W("user_stats"), S("controller_authority"),
    W("spot_market_vault"), W("reserve_vault"), R("token_program")>>
  \o remaining

Withdraw(remaining) ==
  <<R("state"), W("user"), W("user_stats"), S("controller_authority"),
    W("spot_market_vault"), R("drift_signer"), W("reserve_vault"),
    R("token_program")>>
  \o remaining

\* Kamino lending and farms.
InitializeObligation ==
  <<S("controller_authority"), WS("payer"), W("obligation"), R("market"),
    R("system_program"), R("system_program"), R("user_metadata"), R("rent"),
    R("system_program")>>

InitializeUserMetadata ==
  <<S("controller_authority"), WS("payer"), W("user_metadata"),
    R("referrer_metadata"), R("rent"), R("system_program")>>

InitializeObligationFarmForReserve ==
  <<WS("payer"), R("controller_authority"), W("obligation"),
    R("market_authority"), W("kamino_reserve"), W("reserve_farm_collateral"),
    W("obligation_farm_collateral"), R("market"), R("kamino_farms_program"),
    R("rent"), R("system_program")>>

RefreshObligationAfterInit == <<R("market"), W("obligation")>>

DepositReserveLiquidity ==
  <<WS("controller_authority"), W("obligation"), R("market"),
    R("market_authority"), W("kamino_reserve"),
    R("kamino_reserve_liquidity_mint"), W("kamino_reserve_liquidity_supply"),
    W("kamino_reserve_collateral_mint"),
    W("kamino_reserve_collateral_supply"), W("reserve_vault"),
    R("kamino_lend_program"), R("collateral_token_program"),
    R("liquidity_token_program"), R("instruction_sysvar_account"),
    W("obligation_farm_collateral"), W("reserve_farm_collateral"),
    R("kamino_farms_program")>>

WithdrawObligationCollateral ==
  <<WS("controller_authority"), W("obligation"), R("market"),
    R("market_authority"), W("kamino_reserve"),
    R("kamino_reserve_liquidity_mint"),
    W("kamino_reserve_collateral_supply"),
    W("kamino_reserve_collateral_mint"),
    W("kamino_reserve_liquidity_supply"), W("reserve_vault"),
    R("kamino_lend_program"), R("collateral_token_program"),
    R("liquidity_token_program"), R("instruction_sysvar_account"),
    W("obligation_farm_collateral"), W("reserve_farm_collateral"),
    R("kamino_farms_program")>>

HarvestReward ==
  <<WS("controller_authority"), W("obligation_farm"),
    W("kamino_reserve_farm"), R("farms_global_config"), R("rewards_mint"),
    W("rewards_ata"), W("rewards_vault"), W("rewards_treasury_vault"),
    R("farm_vaults_authority"), R("scope_prices"),
    R("rewards_token_program")>>
=============================================================================
