--------------------------- MODULE ProgramAccounts ---------------------------
(***************************************************************************)
(* The accounts each handler takes, in their order, with what it asks of   *)
(* them: that an account is writable ("mut"), has signed ("signer") or     *)
(* holds no data ("empty"), what its key may be and which program may own  *)
(* it.  An account whose key is spared is not asked for its owner.         *)
(***************************************************************************)
EXTENDS Sequences

LOCAL Field(name, needs, keys, owners, spared) ==
  [name |-> name, needs |-> needs, keys |-> keys, owners |-> owners,
   spared |-> spared]

Any(name, needs) == Field(name, needs, {}, {}, {})
Keyed(name, keys) == Field(name, {}, keys, {}, {})
Owned(name, needs, owners) == Field(name, needs, {}, owners, {})
Spared(name, needs, owners, keys) == Field(name, needs, {}, owners, keys)

Tokens == {"token", "token2022"}
Mutable == {"mut"}
New(name) == Owned(name, {"mut", "empty"}, {"system"})
Keel(name) == Owned(name, {}, {"keel"})
KeelMut(name) == Owned(name, Mutable, {"keel"})
Token(name) == Owned(name, {}, Tokens)
TokenMut(name) == Owned(name, Mutable, Tokens)
Signer(name) == Any(name, {"signer"})
Payer == Any("payer", {"signer", "mut"})
ControllerAuthority == Owned("controller_authority", {"empty"}, {"system"})
ControllerAuthorityMut == New("controller_authority")

ProgramId == Keyed("program_id", {"keel"})
SystemProgram == Keyed("system_program", {"system"})
TokenProgram == Keyed("token_program", Tokens)
AssociatedTokenProgram == Keyed("associated_token_program", {"ata"})
Sysvar(name) == Keyed(name, {"instructions"})
Rent == Keyed("rent", {"rent"})
DriftProgram == Keyed("drift_program", {"drift"})
KaminoLendProgram == Keyed("kamino_lend_program", {"klend"})
KaminoFarmsProgram == Keyed("kamino_farms_program", {"farms"})
Messengers == <<Keyed("cctp_message_transmitter", {"transmitter"}),
                Keyed("cctp_token_messenger_minter", {"messenger"})>>

InitializeControllerAccounts ==
  <<Payer, Signer("authority"), New("controller"),
    Owned("controller_authority", {"empty"}, {"system"}), New("permission"),
    ProgramId, SystemProgram>>

ManageControllerAccounts ==
  <<KeelMut("controller"), ControllerAuthority, Signer("authority"),
    Keel("permission"), ProgramId>>

ManagePermissionAccounts ==
  <<Payer, Keel("controller"), ControllerAuthority, Signer("super_authority"),
    Keel("super_permission"), Any("authority", {}),
    Owned("permission", Mutable, {"keel", "system"}), ProgramId,
    SystemProgram>>

InitializeReserveAccounts ==
  <<Payer, Keel("controller"), ControllerAuthority, Signer("authority"),
    Keel("permission"), New("reserve"), Token("mint"),
    Owned("vault", Mutable, Tokens \cup {"system"}), TokenProgram,
    AssociatedTokenProgram, ProgramId, SystemProgram>>

ManageReserveAccounts ==
  <<Keel("controller"), ControllerAuthority, Signer("authority"),
    Keel("permission"), KeelMut("reserve"), ProgramId>>

SyncReserveAccounts ==
  <<Keel("controller"), ControllerAuthority, KeelMut("reserve"),
    Any("vault", {})>>

InitializeIntegrationAccounts ==
  <<Payer, Keel("controller"), ControllerAuthority, Signer("authority"),
    Keel("permission"), New("integration"), ProgramId, SystemProgram>>

ManageIntegrationAccounts ==
  <<Keel("controller"), ControllerAuthority, Signer("authority"),
    Keel("permission"), KeelMut("integration"), ProgramId>>

PushAccounts ==
  <<Keel("controller"), ControllerAuthorityMut, Signer("authority"),
    Keel("permission"), KeelMut("integration"), KeelMut("reserve_a"),
    ProgramId>>

PullAccounts ==
  <<Keel("controller"), ControllerAuthorityMut, Signer("authority"),
    Keel("permission"), KeelMut("integration"), KeelMut("reserve_a"),
    ProgramId>>

SyncIntegrationAccounts ==
  <<Keel("controller"), ControllerAuthorityMut, Payer,
    KeelMut("integration"), KeelMut("reserve")>>

BorrowAccounts ==
  <<KeelMut("controller"), ControllerAuthority, Signer("authority"),
    Keel("permission"), KeelMut("integration"), KeelMut("reserve_a"),
    TokenMut("vault_a"), Token("mint_a"), KeelMut("reserve_b"),
    Token("vault_b"), TokenMut("recipient_token_account_a"),
    TokenMut("recipient_token_account_b"), Keyed("token_program_a", Tokens),
    Sysvar("sysvar_instruction"), ProgramId>>

RepayAccounts ==
  <<Signer("payer"), KeelMut("controller"), ControllerAuthority,
    Signer("authority"), Keel("permission"), KeelMut("integration"),
    KeelMut("reserve_a"), TokenMut("vault_a"), Token("mint_a"),
    KeelMut("reserve_b"), TokenMut("vault_b"), Token("mint_b"),
    Keel("oracle"), TokenMut("payer_account_a"), TokenMut("payer_account_b"),
    Keyed("token_program_a", Tokens), Keyed("token_program_b", Tokens)>>

InitializeOracleAccounts ==
  <<Payer, Keel("controller"), ControllerAuthority, Signer("authority"),
    Any("price_feed", {}), New("oracle"), SystemProgram>>

UpdateOracleAccounts ==
  <<Keel("controller"), ControllerAuthority, Signer("authority"),
    Any("price_feed", {}), KeelMut("oracle"),
    Any("new_authority", {})>>

RefreshOracleAccounts == <<Any("price_feed", {}), KeelMut("oracle")>>

ResetLzAccounts ==
  <<Keel("controller"), KeelMut("integration"), Sysvar("sysvar_instruction")>>

ClaimRentAccounts ==
  <<Keel("controller"), ControllerAuthorityMut, Signer("authority"),
    Keel("permission"), Any("destination", Mutable), SystemProgram>>

InitializeAtomicSwapAccounts ==
  <<Token("input_mint"), Token("output_mint"), Keel("oracle")>>

InitializeSplAccounts ==
  <<Token("mint"), Any("recipient", {}),
    Owned("token_account", Mutable, Tokens \cup {"system"}), TokenProgram,
    AssociatedTokenProgram>>

InitializeCctpAccounts ==
  <<Token("mint"), Owned("local_token", {}, {"messenger"}),
    Owned("remote_token_messenger", {}, {"messenger"})>> \o Messengers

InitializeLzAccounts ==
  <<Token("mint"), Any("oft_store", {}), Any("peer_config", {}),
    Any("oft_program", {}), Any("token_escrow", {})>>

InitializeDriftAccounts ==
  <<Token("mint"), Owned("drift_user", Mutable, {"drift", "system"}),
    Owned("drift_user_stats", Mutable, {"drift", "system"}),
    Owned("drift_state", Mutable, {"drift"}),
    Owned("drift_spot_market", {}, {"drift"}), Rent, DriftProgram>>

InitializeKaminoAccounts ==
  <<Any("obligation", Mutable), Token("reserve_liquidity_mint"),
    Any("user_metadata", Mutable),
    Spared("referrer_metadata", {}, {"klend"}, {"klend"}),
    Owned("obligation_farm_collateral", Mutable, {"farms", "system"}),
    Owned("kamino_reserve", Mutable, {"klend"}),
    Spared("reserve_farm_collateral", Mutable, {"farms"}, {"system"}),
    Any("market_authority", {}), Owned("market", {}, {"klend"}),
    KaminoLendProgram, KaminoFarmsProgram, SystemProgram, Rent>>

PushSplAccounts ==
  <<Token("mint"), TokenMut("vault"), Any("recipient", {}),
    Owned("recipient_token_account", Mutable, Tokens \cup {"system"}),
    TokenProgram, AssociatedTokenProgram, SystemProgram>>

PushCctpAccounts ==
  <<Token("mint"), TokenMut("vault"), Any("sender_authority_pda", {}),
    Any("message_transmitter", {}), Any("token_messenger", {}),
    Owned("remote_token_messenger", {}, {"messenger"}),
    Any("token_minter", {}), Owned("local_token", {}, {"messenger"}),
    Signer("message_sent_event_data")>> \o Messengers \o
  <<Any("event_authority", {}), TokenProgram, SystemProgram>>

PushLzAccounts ==
  <<Token("mint"), Token("vault"), Any("authority_token_account", {}),
    TokenProgram, AssociatedTokenProgram, SystemProgram,
    Sysvar("sysvar_instruction")>>

PushDriftAccounts ==
  <<Owned("state", {}, {"drift"}), Owned("user", Mutable, {"drift"}),
    Owned("user_stats", Mutable, {"drift"}), TokenMut("spot_market_vault"),
    TokenMut("reserve_vault"), TokenProgram, DriftProgram>>

PullDriftAccounts ==
  <<Owned("state", {}, {"drift"}), Owned("user", Mutable, {"drift"}),
    Owned("user_stats", Mutable, {"drift"}), TokenMut("spot_market_vault"),
    Any("drift_signer", {}), TokenMut("reserve_vault"), TokenProgram,
    DriftProgram>>

SyncDriftAccounts ==
  <<Owned("state", {}, {"drift"}), Token("spot_market_vault"),
    Owned("spot_market", Mutable, {"drift"}), Any("spot_market_oracle", {}),
    Owned("user", {}, {"drift"}), DriftProgram>>

\* A push also takes an obligation that a full withdrawal has closed.
PushPullKaminoAccounts(obligationOwners) ==
  <<TokenMut("reserve_vault"), Owned("obligation", Mutable, obligationOwners),
    Owned("kamino_reserve", Mutable, {"klend"}),
    Token("kamino_reserve_liquidity_mint"),
    TokenMut("kamino_reserve_liquidity_supply"),
    Owned("kamino_reserve_collateral_mint", Mutable, {"token"}),
    Owned("kamino_reserve_collateral_supply", Mutable, {"token"}),
    Any("market_authority", {}), Owned("market", {}, {"klend"}),
    Keyed("collateral_token_program", {"token"}),
    Keyed("liquidity_token_program", Tokens),
    Sysvar("instruction_sysvar_account"),
    Spared("obligation_farm_collateral", Mutable, {"farms"}, {"klend"}),
    Spared("reserve_farm_collateral", Mutable, {"farms"}, {"system"}),
    KaminoFarmsProgram, KaminoLendProgram>>

\* Loaded only when the obligation is gone.
InitializeObligationAccounts ==
  <<Any("payer", Mutable), Owned("user_metadata", {}, {"klend"}),
    SystemProgram, Rent>>

SyncKaminoAccounts ==
  <<TokenMut("reserve_vault"), Owned("kamino_reserve", {}, {"klend"}),
    Owned("obligation", {}, {"klend"})>>

\* Loaded only when rewards are harvested.
HarvestAccounts ==
  <<Owned("obligation_farm", Mutable, {"farms"}),
    Owned("kamino_reserve_farm", Mutable, {"farms"}),
    TokenMut("rewards_vault"), TokenMut("rewards_treasury_vault"),
    Any("farm_vaults_authority", {}), Owned("farms_global_config", {}, {"farms"}),
    Owned("rewards_ata", Mutable, Tokens \cup {"system"}),
    Token("rewards_mint"), Any("scope_prices", {}),
    Keyed("rewards_token_program", Tokens), KaminoFarmsProgram, SystemProgram,
    AssociatedTokenProgram>>
=============================================================================
