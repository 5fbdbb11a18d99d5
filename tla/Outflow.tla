------------------------------- MODULE Outflow -------------------------------
(***************************************************************************)
(* Governance composed with what it governs: the Integrations that pay out *)
(* of a Reserve at once (SPL token external and CCTP bridge), how they are *)
(* created, reconfigured and pushed, and the rent of the controller        *)
(* authority.  Permissions and the controller's status change between any  *)
(* two instructions.  An action is an instruction that commits, or         *)
(* something the chain does in between.                                    *)
(*                                                                         *)
(* The address of an Integration is derived from its controller and the    *)
(* hash of its configuration: here the account is found by the             *)
(* configuration, and the configurations are those for the reserve's mint  *)
(* (a Push with any other is refused).  The reserve exists from the start; *)
(* module Reserve has its creation and reconfiguration.                    *)
(***************************************************************************)
EXTENDS Governance, ReserveState

CONSTANTS Configs,      \* IntegrationConfigs: kind and destination
          OwnVault,     \* as a destination: the reserve's vault itself
          TheReserve,   \* the reserve, as the holder of a limit
          Terms,        \* the terms on which each integration is created
          ReserveTerms, \* the limit of the reserve
          Slopes,       \* the values of rate_limit_slope set later
          MaxOuts,      \* the values of rate_limit_max_outflow set later
          Amounts,      \* the amounts that are pushed
          Deposits,     \* the amounts that anybody sends to the vault
          InitialPermissions,  \* the permissions the run starts with
          Supply,       \* bound on the tokens in the vault
          MaxTime,      \* bound on the clock
          MaxChanges    \* bound on the steps that reconfigure anything

IntegrationStatus == {"Active", "Suspended"}

ASSUME OutflowAssumption ==
  /\ \A c \in Configs : c.kind \in {"SplTokenExternal", "CctpBridge"}
  /\ TheReserve \notin Configs
  /\ \A c \in Configs :
       Terms[c] \subseteq [status : IntegrationStatus,
                          permitLiquidation : BOOLEAN, slope : U64, max : U64]
  /\ ReserveTerms \in [slope : U64, max : U64]
  /\ Slopes \subseteq U64
  /\ MaxOuts \subseteq U64
  /\ Amounts \subseteq Nat \ {0}
  /\ Deposits \subseteq Nat \ {0}
  /\ InitialPermissions \in [Authorities -> Permissions]
  /\ Supply \in U64
  /\ MaxTime \in Nat
  /\ MaxChanges \in Nat

VARIABLES integrations,  \* the Integration account of each configuration
          reserve, vault, clock,
          rent,          \* the controller authority has lamports
          paid,          \* history: tokens that left the vault
          sent,          \* history: tokens that reached each destination
          credits,       \* history: Credit events of each integration
          ledger,        \* history: credits minus debits of the reserve
          budget,        \* history: what each limit has granted, in units of
                         \* 1/SecondsPerDay of a token
          changes        \* how many steps reconfigured anything

accounts == <<integrations, reserve, vault, rent>>
history == <<paid, sent, credits, ledger, budget>>
outVars == <<govVars, accounts, clock, history, changes>>

Integrations == [status : IntegrationStatus \cup {"Uninitialized"},
                 permitLiquidation : BOOLEAN, slope : U64, max : U64,
                 avail : U64, rem : 0 .. (SecondsPerDay - 1),
                 ts : Nat, slot : Nat]

\* There is no account yet at the address of a configuration.
NoIntegration == [status |-> "Uninitialized", permitLiquidation |-> FALSE,
                  slope |-> 0, max |-> 0, avail |-> 0, rem |-> 0,
                  ts |-> 0, slot |-> 0]

Initialized(account) == account.status # "Uninitialized"

\* What holds a limit: the integrations, and the reserve.
Limited == Configs \cup {TheReserve}

OutflowInit ==
  /\ controller = "Active"
  /\ permissions = InitialPermissions
  /\ signer = NoOne
  /\ integrations = [c \in Configs |-> NoIntegration]
  /\ clock = [ts |-> 0, slot |-> 0]
  /\ reserve = InitReserve("Active", ReserveTerms.slope, ReserveTerms.max, clock)
  /\ vault = 0
  /\ rent = TRUE
  /\ paid = 0
  /\ sent = [c \in Configs |-> 0]
  /\ credits = [c \in Configs |-> 0]
  /\ ledger = 0
  /\ budget = [l \in Limited |-> IF l = TheReserve
                                  THEN SecondsPerDay * ReserveTerms.max ELSE 0]
  /\ changes = 0

\* The account of the reserve after the sync in front of a handler.
Synced == SyncBalance(reserve, vault, clock)

\* A deposit that is booked adds to what the reserve may pay.
Booked == IF vault > reserve.lastBalance THEN vault - reserve.lastBalance ELSE 0

\* A raised cap grants the difference.
Raise(old, new) == IF new > old THEN new - old ELSE 0

Grant(limit, tokens) ==
  budget' = [budget EXCEPT ![limit] = @ + SecondsPerDay * tokens]

-----------------------------------------------------------------------------
\* The checks in front of each initialize and manage handler.
Manages(authority) ==
  /\ ~Halted
  /\ Can(permissions[authority], "can_manage_reserves_and_integrations")
  /\ signer' = authority
  /\ UNCHANGED <<controller, permissions>>

\* Mutant: whoever syncs does not ask for the controller's status.
SyncReserveAnytime ==
  /\ reserve' = Synced
  /\ ledger' = ledger + SyncEvent(reserve, vault)
  /\ Grant(TheReserve, Booked)
  /\ UNCHANGED <<govVars, integrations, vault, rent, clock, paid, sent, credits,
                 changes>>

\* Permissionless.
SyncReserve ==
  /\ ~Halted
  /\ reserve' = Synced
  /\ ledger' = ledger + SyncEvent(reserve, vault)
  /\ Grant(TheReserve, Booked)
  /\ UNCHANGED <<govVars, integrations, vault, rent, clock, paid, sent, credits,
                 changes>>

InitIntegration(terms) ==
  [status |-> terms.status, permitLiquidation |-> terms.permitLiquidation,
   slope |-> terms.slope, max |-> terms.max, avail |-> terms.max, rem |-> 0,
   ts |-> clock.ts, slot |-> clock.slot]

\* Creating the account fails when the address is taken: a configuration has
\* one account, once and for all.
InitializeIntegration(authority, c, terms) ==
  /\ Manages(authority)
  /\ ~Initialized(integrations[c])
  /\ integrations' = [integrations EXCEPT ![c] = InitIntegration(terms)]
  /\ Grant(c, terms.max)
  /\ UNCHANGED <<reserve, vault, rent, clock, paid, sent, credits, ledger,
                 changes>>

\* Mutant: the new slope also counts for the time before.
UpdateUnrefreshed(i, status, slope, max) ==
  LET f == [i EXCEPT !.status = OrElse(status, @), !.slope = OrElse(slope, @)]
  IN  IF max = {} THEN f ELSE SetMaxOutflow(f, OrElse(max, 0))

UpdateIntegration(i, status, slope, max) ==
  LET f == [RefreshRateLimit(i, clock) EXCEPT !.status = OrElse(status, @),
                                              !.slope = OrElse(slope, @)]
  IN  IF max = {} THEN f ELSE SetMaxOutflow(f, OrElse(max, 0))

ManageIntegration(authority, c, status, slope, max) ==
  LET i == integrations[c]
  IN  /\ Manages(authority)
      /\ Initialized(i)
      /\ changes < MaxChanges
      /\ changes' = changes + 1
      /\ integrations' = [integrations EXCEPT ![c] =
                            UpdateIntegration(i, status, slope, max)]
      /\ Grant(c, Raise(i.max, OrElse(max, i.max)))
      /\ UNCHANGED <<reserve, vault, rent, clock, paid, sent, credits, ledger>>

-----------------------------------------------------------------------------
\* Mutant: the integration is not asked.
CanLiquidateAnything(permission, integration) == Can(permission, "can_liquidate")

CanLiquidate(permission, integration) ==
  /\ Can(permission, "can_liquidate")
  /\ integration.permitLiquidation

MayPush(permission, c) ==
  \/ /\ c.kind = "SplTokenExternal"
     /\ Can(permission, "can_invoke_external_transfer")
  \/ /\ c.kind = "CctpBridge"
     /\ \/ Can(permission, "can_reallocate")
        \/ CanLiquidate(permission, integrations[c])

\* What the vault loses when amount is transferred or burned: nothing, when
\* the recipient's token account is the vault.
Leaves(c, amount) == IF c.destination = OwnVault THEN 0 ELSE amount

\* Mutant: what was asked for is booked unseen.
TransferUnchecked(c, amount) == TRUE

\* The vault has lost exactly what was asked for.
TransferMatches(c, amount) == Leaves(c, amount) = amount

RefreshedIntegration(c) == RefreshRateLimit(integrations[c], clock)

\* The flow fits both limits.
WithinBoth(c, amount) ==
  /\ WithinRateLimit(RefreshedIntegration(c), amount)
  /\ WithinRateLimit(Synced, amount)

Push(authority, c, amount) ==
  /\ controller = "Active"
  /\ Initialized(integrations[c]) /\ integrations[c].status = "Active"
  /\ reserve.status = "Active"
  /\ MayPush(permissions[authority], c)
  /\ amount <= vault
  /\ TransferMatches(c, amount)
  /\ WithinBoth(c, amount)
  /\ vault' = vault - Leaves(c, amount)
  /\ integrations' = [integrations EXCEPT ![c] =
                        DebitRateLimit(RefreshedIntegration(c), amount)]
  /\ reserve' = UpdateForOutflow(Synced, amount)
  /\ paid' = paid + Leaves(c, amount)
  /\ sent' = [sent EXCEPT ![c] = @ + Leaves(c, amount)]
  /\ credits' = [credits EXCEPT ![c] = @ + amount]
  /\ ledger' = ledger + SyncEvent(reserve, vault) - amount
  /\ Grant(TheReserve, Booked)
  /\ signer' = authority
  /\ UNCHANGED <<controller, permissions, rent, clock, changes>>

\* All the lamports of the controller authority.
ClaimRent(authority) ==
  /\ controller = "Active"
  /\ Can(permissions[authority], "can_reallocate")
  /\ rent
  /\ rent' = FALSE
  /\ signer' = authority
  /\ UNCHANGED <<controller, permissions, integrations, reserve, vault, clock,
                 history, changes>>

-----------------------------------------------------------------------------
\* manage_controller and manage_permission.
Govern ==
  /\ \/ \E authority \in Authorities, status \in ControllerStatus :
          ManageController(authority, status)
     \/ \E super, authority \in Authorities, status \in PermissionStatus,
           privileges \in Grants :
          ManagePermission(super, authority, status, privileges)
  /\ changes < MaxChanges
  /\ changes' = changes + 1
  /\ UNCHANGED <<accounts, clock, history>>

\* Anybody sends tokens to the vault.
Deposit(amount) ==
  /\ vault + amount <= Supply
  /\ vault' = vault + amount
  /\ UNCHANGED <<govVars, integrations, reserve, rent, clock, history, changes>>

SlopeOf(limit) == IF limit = TheReserve THEN reserve.slope
                                         ELSE integrations[limit].slope

\* A second passes, and every limit is granted its slope (also one that is
\* unlimited, and one at its cap: neither earns it).
Tick ==
  /\ clock.ts < MaxTime
  /\ clock' = [ts |-> clock.ts + 1, slot |-> clock.slot + 1]
  /\ budget' = [l \in Limited |-> budget[l] + SlopeOf(l)]
  /\ UNCHANGED <<govVars, accounts, paid, sent, credits, ledger, changes>>

OutflowNext ==
  \/ SyncReserve
  \/ \E authority \in Authorities, c \in Configs : \E terms \in Terms[c] :
       InitializeIntegration(authority, c, terms)
  \/ \E authority \in Authorities, c \in Configs,
        status \in Option(IntegrationStatus), slope \in Option(Slopes),
        max \in Option(MaxOuts) :
       ManageIntegration(authority, c, status, slope, max)
  \/ \E authority \in Authorities, c \in Configs, amount \in Amounts :
       Push(authority, c, amount)
  \/ \E authority \in Authorities : ClaimRent(authority)
  \/ Govern
  \/ \E amount \in Deposits : Deposit(amount)
  \/ Tick

OutflowSpec == OutflowInit /\ [][OutflowNext]_outVars
=============================================================================
