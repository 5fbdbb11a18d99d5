------------------------------ MODULE Interface ------------------------------
(***************************************************************************)
(* The accounts of an instruction on their way from the client that lists  *)
(* them, through the runtime that gives them their privileges and the      *)
(* handler that takes them one by one, to the programs that the handler    *)
(* invokes with them.                                                      *)
(*                                                                         *)
(* An instruction is sent by a relayer, who pays the fee, or by one of its *)
(* own signers; the payer of the rent may be the authority.  facts are     *)
(* what differs from one instruction to the next: an account that does not *)
(* exist yet is a fact of that name.                                       *)
(***************************************************************************)
EXTENDS Integers, Sequences

G == INSTANCE ClientInstructions
C == INSTANCE ClientCalls
H == INSTANCE Handlers

CONSTANTS
  Calls,      \* the calls of the client that are sent
  NoTx        \* nothing is being executed

VARIABLES tx, pc, taken, status

interfaceVars == <<tx, pc, taken, status>>

\* A call of the client: the accounts it lists, the handler it is for, the
\* facts that always hold of it and those that may.
Call(client, handler, given, may) ==
  [client |-> client, handler |-> handler, given |-> given, may |-> may]

Integration(client, handler, may) ==
  Call(client, handler, {"integration"}, may \cup {"prefunded"})

Catalogue ==
  [manage_controller |-> Call(C!ManageController, H!ManageController, {}, {}),
   manage_permission |->
     Call(C!ManagePermission, H!ManagePermission, {},
          {"permission", "prefunded"}),
   initialize_controller |->
     Call(G!InitializeController, H!InitializeController,
          {"controller", "permission"}, {"prefunded"}),
   initialize_reserve |->
     Call(C!InitializeReserve, H!InitializeReserve, {"reserve"},
          {"vault", "prefunded", "token2022"}),
   manage_reserve |-> Call(C!ManageReserve, H!ManageReserve, {}, {}),
   sync_reserve |-> Call(C!SyncReserve, H!SyncReserve, {}, {"token2022"}),
   manage_integration |->
     Call(C!ManageIntegration, H!ManageIntegration, {}, {}),
   initialize_oracle |->
     Call(C!InitializeOracle, H!InitializeOracle, {"oracle"}, {"prefunded"}),
   update_oracle |->
     Call(C!UpdateOracle, H!UpdateOracle, {}, {"no_new_authority"}),
   refresh_oracle |-> Call(G!RefreshOracle, H!RefreshOracle, {}, {}),
   reset_lz |-> Call(G!ResetLzPushInFlight, H!ResetLzPushInFlight, {}, {}),
   claim_rent |-> Call(C!ClaimRent, H!ClaimRent, {}, {}),
   borrow |-> Call(G!AtomicSwapBorrow, H!AtomicSwapBorrow, {}, {"token2022"}),
   repay |-> Call(G!AtomicSwapRepay, H!AtomicSwapRepay, {}, {"token2022"}),
   initialize_swap |->
     Integration(C!InitializeAtomicSwap, H!InitializeAtomicSwap, {"token2022"}),
   initialize_spl |->
     Integration(C!InitializeSplTokenExternal, H!InitializeSplTokenExternal,
                 {"token_account", "token2022"}),
   initialize_cctp |->
     Integration(C!InitializeCctpBridge, H!InitializeCctpBridge, {}),
   initialize_lz |->
     Integration(C!InitializeLzBridge, H!InitializeLzBridge, {"token2022"}),
   initialize_drift |->
     Integration(C!InitializeDrift, H!InitializeDrift,
                 {"drift_user_stats", "drift_user", "pool", "token2022"}),
   initialize_kamino |->
     Integration(C!InitializeKamino, H!InitializeKamino,
                 {"user_metadata", "obligation", "obligation_farm_collateral",
                  "no_farm", "no_referrer", "token2022"}),
   push_spl |->
     Call(C!PushSplTokenExternal, H!PushSplTokenExternal, {},
          {"recipient_token_account", "token2022"}),
   push_cctp |-> Call(C!PushCctpBridge, H!PushCctpBridge,
                      {"message_sent_event_data"}, {}),
   push_lz |-> Call(C!PushLzBridge, H!PushLzBridge, {},
                    {"authority_token_account", "token2022"}),
   push_drift |-> Call(C!PushDrift, H!PushDrift, {}, {"token2022"}),
   pull_drift |-> Call(C!PullDrift, H!PullDrift, {}, {"token2022"}),
   push_kamino |->
     Call(C!PushKamino, H!PushKamino, {},
          {"obligation", "no_farm", "refreshed", "token2022"}),
   pull_kamino |-> Call(C!PullKamino, H!PullKamino, {},
                        {"no_farm", "refreshed", "token2022"}),
   sync_drift |-> Call(C!SyncDrift, H!SyncDrift, {}, {"token2022"}),
   sync_kamino |-> Call(C!SyncKamino, H!SyncKamino, {},
                        {"no_farm", "refreshed", "token2022"}),
   harvest |-> Call(C!SyncKamino \o C!HarvestKamino, H!SyncKamino,
                    {"harvest", "refreshed"},
                    {"no_farm", "rewards_ata", "token2022"})]

\* A user of Drift or an obligation comes after what its owner has once, and
\* there is no account in a farm that does not exist.
Consistent(may, facts) ==
  /\ "user_metadata" \in facts => "obligation" \in facts
  /\ "drift_user_stats" \in facts => "drift_user" \in facts
  /\ "no_farm" \in facts => may \cap {"obligation_farm_collateral"} \subseteq facts

Client(t) == Catalogue[t.call].client
Steps(t) == Catalogue[t.call].handler

(***************************************************************************)
(* The accounts behind the roles.                                          *)
(***************************************************************************)

Programs ==
  [program_id |-> "keel", system_program |-> "system", rent |-> "rent",
   associated_token_program |-> "ata", sysvar_instruction |-> "instructions",
   instruction_sysvar_account |-> "instructions",
   collateral_token_program |-> "token", drift_program |-> "drift",
   kamino_lend_program |-> "klend", kamino_farms_program |-> "farms",
   cctp_message_transmitter |-> "transmitter",
   cctp_token_messenger_minter |-> "messenger"]

TokenPrograms == {"token_program", "token_program_a", "token_program_b",
                  "liquidity_token_program", "rewards_token_program"}

Token(t) == IF "token2022" \in t.facts THEN "token2022" ELSE "token"

\* The key that is passed for a role.  Where there is nothing to pass, it is
\* the program that takes the accounts, or for the farm of a reserve that has
\* none the default key, which is the key of the system program.
Key(t, name) ==
  CASE name = "payer" -> t.payer
    [] name \in DOMAIN Programs -> Programs[name]
    [] name \in TokenPrograms -> Token(t)
    [] name = "new_authority" /\ "no_new_authority" \in t.facts -> "keel"
    [] name = "referrer_metadata" /\ "no_referrer" \in t.facts -> "klend"
    [] name = "reserve_farm_collateral" /\ "no_farm" \in t.facts -> "system"
    [] name = "obligation_farm_collateral" /\ "no_farm" \in t.facts
         /\ t.call # "initialize_kamino" -> "klend"
    [] OTHER -> name

OwnedBy ==
  [keel |-> {"controller", "permission", "super_permission", "integration",
             "reserve", "reserve_a", "reserve_b", "oracle"},
   klend |-> {"obligation", "kamino_reserve", "market", "user_metadata",
              "referrer_metadata"},
   farms |-> {"obligation_farm_collateral", "reserve_farm_collateral",
              "obligation_farm", "kamino_reserve_farm", "farms_global_config"},
   drift |-> {"drift_user", "drift_user_stats", "drift_state",
              "drift_spot_market", "state", "user", "user_stats",
              "spot_market"},
   messenger |-> {"local_token", "remote_token_messenger"},
   token |-> {"kamino_reserve_collateral_mint",
              "kamino_reserve_collateral_supply"}]

TokenAccounts ==
  {"mint", "mint_a", "mint_b", "input_mint", "output_mint", "vault",
   "vault_a", "vault_b", "reserve_vault", "token_account",
   "recipient_token_account", "recipient_token_account_a",
   "recipient_token_account_b", "payer_account_a", "payer_account_b",
   "authority_token_account", "reserve_liquidity_mint",
   "kamino_reserve_liquidity_mint", "kamino_reserve_liquidity_supply",
   "spot_market_vault", "rewards_vault", "rewards_treasury_vault",
   "rewards_ata", "rewards_mint"}

\* Who owns the account of a role: the system program if there is none.
Owner(t, name) ==
  CASE name \in t.facts -> "system"
    [] Key(t, name) # name /\ name # "payer" -> "loader"
    [] name \in TokenAccounts -> Token(t)
    [] \E p \in DOMAIN OwnedBy : name \in OwnedBy[p] ->
         CHOOSE p \in DOMAIN OwnedBy : name \in OwnedBy[p]
    [] OTHER -> "system"

(***************************************************************************)
(* The privileges that the runtime gives to an account: those of all the   *)
(* transaction's instructions together, and of the fee payer.  Nothing is  *)
(* writable that the runtime reserves, or that the transaction calls.      *)
(***************************************************************************)

Reserved == {"system", "rent", "instructions"}

Called(t) == {"keel"} \cup IF "refreshed" \in t.facts THEN {"klend"} ELSE {}

Listed(t) ==
  Client(t) \o IF "refreshed" \in t.facts
               THEN C!RefreshKaminoReserve \o C!RefreshKaminoObligation
               ELSE <<>>

IsWritable(t, key) ==
  /\ key \notin Reserved \cup Called(t)
  /\ \/ key = t.feePayer
     \/ \E i \in DOMAIN Listed(t) :
          Listed(t)[i].writable /\ Key(t, Listed(t)[i].name) = key

IsSigner(t, key) ==
  \/ key = t.feePayer
  \/ \E i \in DOMAIN Listed(t) :
       Listed(t)[i].signer /\ Key(t, Listed(t)[i].name) = key

\* What a handler asks of an account that it takes.
Accepts(t, field, name) ==
  LET key == Key(t, name)
  IN  /\ "mut" \in field.needs => IsWritable(t, key)
      /\ "signer" \in field.needs => IsSigner(t, key)
      /\ "empty" \in field.needs => Owner(t, name) = "system"
      /\ field.keys # {} => key \in field.keys
      /\ \/ field.owners = {}
         \/ key \in field.spared
         \/ Owner(t, name) \in field.owners

\* An invoked program gets an account that the instruction has listed, with no
\* more than the instruction's own privileges, except that the program signs
\* for the addresses it has the seeds of.
Granted(t, meta, seeds) ==
  LET key == Key(t, meta.name)
  IN  /\ \E i \in DOMAIN Client(t) : Key(t, Client(t)[i].name) = key
      /\ meta.writable => IsWritable(t, key)
      /\ meta.signer => IsSigner(t, key) \/ meta.name \in seeds
                          \/ key \in seeds

(***************************************************************************)
(* The execution of an instruction.                                        *)
(***************************************************************************)

IsRunning == status = "running" /\ pc <= Len(Steps(tx))
Current == Steps(tx)[pc]

Applies(step) == step.holds \subseteq tx.facts /\ step.fails \cap tx.facts = {}

\* The accounts that the current step takes, and those that are left for it.
Fields == Current.detail
Left == SubSeq(Client(tx), taken + 1, Len(Client(tx)))

Init ==
  /\ tx = NoTx
  /\ pc = 0
  /\ taken = 0
  /\ status = "idle"

Named(client, names) == {i \in DOMAIN client : client[i].name \in names}
Authorities(client) ==
  {client[i].name : i \in {j \in Named(client, {"authority", "super_authority"}) :
                            client[j].signer}}

\* The payer may be the authority, and where it is not asked to sign the
\* controller's authority.
Payers(client) ==
  {"payer"} \cup UNION {IF client[i].signer THEN Authorities(client)
                        ELSE Authorities(client) \cup {"controller_authority"} :
                        i \in Named(client, {"payer"})}

FeePayers(client, payer) ==
  {"relayer"} \cup Authorities(client) \cup
  IF Named(client, {"payer"}) = {} THEN {} ELSE {payer} \ {"controller_authority"}

Submit(call) ==
  LET entry == Catalogue[call]
  IN  /\ status = "idle"
      /\ \E chosen \in SUBSET entry.may, payer \in Payers(entry.client) :
           \E feePayer \in FeePayers(entry.client, payer) :
             /\ Consistent(entry.may, chosen)
             /\ tx' = [call |-> call, facts |-> entry.given \cup chosen,
                       payer |-> payer, feePayer |-> feePayer]
      /\ pc' = 1
      /\ taken' = 0
      /\ status' = "running"

\* A group of accounts is taken in order, or the instruction is refused.
TakeAccounts ==
  /\ IsRunning
  /\ Current.kind = "take"
  /\ Applies(Current)
  /\ IF /\ Len(Fields) <= Len(Left)
        /\ \A i \in DOMAIN Fields : Accepts(tx, Fields[i], Left[i].name)
     THEN /\ pc' = pc + 1
          /\ taken' = taken + Len(Fields)
          /\ UNCHANGED status
     ELSE status' = "refused" /\ UNCHANGED <<pc, taken>>
  /\ UNCHANGED tx

Denied == {i \in DOMAIN Current.detail :
            ~Granted(tx, Current.detail[i], Current.seeds)}

InvokeProgram ==
  /\ IsRunning
  /\ Current.kind = "invoke"
  /\ Applies(Current)
  /\ IF Denied = {} THEN pc' = pc + 1 /\ UNCHANGED status
                    ELSE status' = "denied" /\ UNCHANGED pc
  /\ UNCHANGED <<tx, taken>>

\* What is written to an account that is read only fails the transaction.
SaveAccount ==
  /\ IsRunning
  /\ Current.kind = "save"
  /\ Applies(Current)
  /\ IF IsWritable(tx, Key(tx, Current.detail))
     THEN pc' = pc + 1 /\ UNCHANGED status
     ELSE status' = "denied" /\ UNCHANGED pc
  /\ UNCHANGED <<tx, taken>>

Skip ==
  /\ IsRunning
  /\ ~Applies(Current) \/ ~Current.certain
  /\ pc' = pc + 1
  /\ UNCHANGED <<tx, taken, status>>

\* An instruction ends, or fails and takes its transaction with it.
End ==
  /\ tx # NoTx
  /\ status \in {"refused", "denied"} \/ pc > Len(Steps(tx))
  /\ tx' = NoTx
  /\ pc' = 0
  /\ taken' = 0
  /\ status' = "idle"

Next ==
  \/ \E call \in Calls : Submit(call)
  \/ TakeAccounts
  \/ InvokeProgram
  \/ SaveAccount
  \/ Skip
  \/ End

Spec == Init /\ [][Next]_interfaceVars
=============================================================================
