----------------------------- MODULE ClientCalls -----------------------------
(***************************************************************************)
(* The client's own calls: what the generated instruction sends, followed  *)
(* by the accounts that the call adds for the program the controller       *)
(* integrates with.                                                        *)
(***************************************************************************)
EXTENDS AccountMetas

LOCAL C == INSTANCE ClientInstructions

InitializeReserve == C!InitializeReserve
ManageController == C!ManageController
ManagePermission == C!ManagePermission
ManageReserve == C!ManageReserve
ManageIntegration == C!ManageIntegration
SyncReserve == C!SyncReserve
ClaimRent == C!ClaimRent
InitializeOracle == C!InitializeOracle
UpdateOracle == C!UpdateOracle

InitializeAtomicSwap == C!InitializeIntegration \o
  <<R("input_mint"), R("output_mint"), R("oracle")>>

InitializeSplTokenExternal == C!InitializeIntegration \o
  <<R("mint"), R("recipient"), W("token_account"), R("token_program"),
    R("associated_token_program")>>

InitializeCctpBridge == C!InitializeIntegration \o
  <<R("mint"), R("local_token"), R("remote_token_messenger"),
    R("cctp_message_transmitter"), R("cctp_token_messenger_minter")>>

InitializeLzBridge == C!InitializeIntegration \o
  <<R("mint"), R("oft_store"), R("peer_config"), R("oft_program"),
    R("token_escrow")>>

\* Mutant: the user and its statistics in the other order.
InitializeDriftSwapped == C!InitializeIntegration \o
  <<R("mint"), W("drift_user_stats"), W("drift_user"), W("drift_state"),
    R("drift_spot_market"), R("rent"), R("drift_program")>>

InitializeDrift == C!InitializeIntegration \o
  <<R("mint"), W("drift_user"), W("drift_user_stats"), W("drift_state"),
    R("drift_spot_market"), R("rent"), R("drift_program")>>

InitializeKamino == C!InitializeIntegration \o
  <<W("obligation"), R("reserve_liquidity_mint"), W("user_metadata"),
    R("referrer_metadata"), W("obligation_farm_collateral"),
    W("kamino_reserve"), W("reserve_farm_collateral"), R("market_authority"),
    R("market"), R("kamino_lend_program"), R("kamino_farms_program"),
    R("system_program"), R("rent")>>

PushSplTokenExternal == C!Push \o
  <<R("mint"), W("vault"), R("recipient"), W("recipient_token_account"),
    R("token_program"), R("associated_token_program"), R("system_program")>>

PushCctpBridge == C!Push \o
  <<W("mint"), W("vault"), R("sender_authority_pda"),
    W("message_transmitter"), R("token_messenger"),
    R("remote_token_messenger"), R("token_minter"), W("local_token"),
    WS("message_sent_event_data"), R("cctp_message_transmitter"),
    R("cctp_token_messenger_minter"), R("event_authority"),
    R("token_program"), R("system_program")>>

PushLzBridge == C!Push \o
  <<W("mint"), W("vault"), W("authority_token_account"), R("token_program"),
    R("associated_token_program"), R("system_program"),
    R("sysvar_instruction")>>

\* The markets whose deposits Drift values, in the order it wants: the oracle
\* and the market, here of the one market that the user holds.
InnerRemainingAccounts == <<R("spot_market_oracle"), W("spot_market")>>

PushDrift == C!Push \o
  <<R("state"), W("user"), W("user_stats"), W("spot_market_vault"),
    W("reserve_vault"), R("token_program"), R("drift_program")>>
  \o InnerRemainingAccounts \o <<R("mint")>>

PullDrift == C!Pull \o
  <<R("state"), W("user"), W("user_stats"), W("spot_market_vault"),
    R("drift_signer"), W("reserve_vault"), R("token_program"),
    R("drift_program")>>
  \o InnerRemainingAccounts \o <<R("mint")>>

LOCAL KaminoTransfer ==
  <<W("reserve_vault"), W("obligation"), W("kamino_reserve"),
    R("kamino_reserve_liquidity_mint"), W("kamino_reserve_liquidity_supply"),
    W("kamino_reserve_collateral_mint"),
    W("kamino_reserve_collateral_supply"), R("market_authority"),
    R("market"), R("collateral_token_program"), R("liquidity_token_program"),
    R("instruction_sysvar_account"), W("obligation_farm_collateral"),
    W("reserve_farm_collateral"), R("kamino_farms_program"),
    R("kamino_lend_program")>>

PushKamino == C!Push \o KaminoTransfer \o
  <<W("payer"), R("user_metadata"), R("system_program"), R("rent")>>

PullKamino == C!Pull \o KaminoTransfer

SyncDrift == C!Sync \o
  <<R("state"), W("spot_market_vault"), W("spot_market"),
    R("spot_market_oracle"), R("user"), R("drift_program")>>

HarvestKamino ==
  <<W("obligation_farm"), W("kamino_reserve_farm"), W("rewards_vault"),
    W("rewards_treasury_vault"), R("farm_vaults_authority"),
    R("farms_global_config"), W("rewards_ata"), R("rewards_mint"),
    R("scope_prices"), R("rewards_token_program"), R("kamino_farms_program"),
    R("system_program"), R("associated_token_program")>>

SyncKamino == C!Sync \o
  <<W("reserve_vault"), R("kamino_reserve"), R("obligation")>>

\* The client of Kamino itself: what a transaction calls beforehand, so that
\* the reserve and the obligation are fresh.
RefreshKaminoReserve ==
  <<W("kamino_reserve"), R("market"), R("kamino_lend_program"),
    R("scope_prices")>>

RefreshKaminoObligation ==
  <<R("market"), W("obligation"), W("kamino_reserve")>>
=============================================================================
