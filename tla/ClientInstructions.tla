------------------------- MODULE ClientInstructions -------------------------
(***************************************************************************)
(* The generated client: the accounts of each instruction of the program,  *)
(* in their order, as the client sends them.                               *)
(***************************************************************************)
LOCAL INSTANCE AccountMetas

InitializeController ==
  <<WS("payer"), S("authority"), W("controller"), R("controller_authority"),
    W("permission"), R("program_id"), R("system_program")>>

ManageController ==
  <<W("controller"), R("controller_authority"), S("authority"),
    R("permission"), R("program_id")>>

ManagePermission ==
  <<WS("payer"), R("controller"), R("controller_authority"),
    S("super_authority"), R("super_permission"), R("authority"),
    W("permission"), R("program_id"), R("system_program")>>

InitializeReserve ==
  <<WS("payer"), R("controller"), R("controller_authority"), S("authority"),
    R("permission"), W("reserve"), R("mint"), W("vault"), R("token_program"),
    R("associated_token_program"), R("program_id"), R("system_program")>>

ManageReserve ==
  <<R("controller"), R("controller_authority"), S("authority"),
    R("permission"), W("reserve"), R("program_id")>>

SyncReserve ==
  <<R("controller"), R("controller_authority"), W("reserve"), R("vault")>>

InitializeIntegration ==
  <<WS("payer"), R("controller"), R("controller_authority"), S("authority"),
    R("permission"), W("integration"), R("program_id"), R("system_program")>>

ManageIntegration ==
  <<R("controller"), R("controller_authority"), S("authority"),
    R("permission"), W("integration"), R("program_id")>>

Push ==
  <<R("controller"), W("controller_authority"), S("authority"),
    R("permission"), W("integration"), W("reserve_a"), R("program_id")>>

Pull ==
  <<R("controller"), W("controller_authority"), S("authority"),
    R("permission"), W("integration"), W("reserve_a"), R("program_id")>>

\* Mutant: the authority of the controller is not writable.
SyncReadOnly ==
  <<R("controller"), R("controller_authority"), WS("payer"),
    W("integration"), W("reserve")>>

Sync ==
  <<R("controller"), W("controller_authority"), WS("payer"),
    W("integration"), W("reserve")>>

AtomicSwapBorrow ==
  <<W("controller"), R("controller_authority"), S("authority"),
    R("permission"), W("integration"), W("reserve_a"), W("vault_a"),
    R("mint_a"), W("reserve_b"), R("vault_b"),
    W("recipient_token_account_a"), W("recipient_token_account_b"),
    R("token_program_a"), R("sysvar_instruction"), R("program_id")>>

AtomicSwapRepay ==
  <<S("payer"), W("controller"), R("controller_authority"), S("authority"),
    R("permission"), W("integration"), W("reserve_a"), W("vault_a"),
    R("mint_a"), W("reserve_b"), W("vault_b"), R("mint_b"), R("oracle"),
    W("payer_account_a"), W("payer_account_b"), R("token_program_a"),
    R("token_program_b")>>

InitializeOracle ==
  <<WS("payer"), R("controller"), R("controller_authority"), S("authority"),
    R("price_feed"), W("oracle"), R("system_program")>>

UpdateOracle ==
  <<R("controller"), R("controller_authority"), S("authority"),
    R("price_feed"), W("oracle"), R("new_authority")>>

RefreshOracle == <<R("price_feed"), W("oracle")>>

ResetLzPushInFlight ==
  <<R("controller"), W("integration"), R("sysvar_instruction")>>

ClaimRent ==
  <<R("controller"), W("controller_authority"), S("authority"),
    R("permission"), W("destination"), R("system_program")>>
=============================================================================
