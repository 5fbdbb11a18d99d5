------------------------------ MODULE MCOutflow ------------------------------
(***************************************************************************)
(* Outflow with an administrator and an operator, an external wallet, a    *)
(* bridge, and an integration that pays into the reserve's own vault.      *)
(***************************************************************************)
EXTENDS OutflowProps

CONSTANTS admin, operator, wallet, ethereum, own

MCConfigs == {[kind |-> "SplTokenExternal", destination |-> wallet],
              [kind |-> "SplTokenExternal", destination |-> own],
              [kind |-> "CctpBridge", destination |-> ethereum]}

\* The bridge earns from the start, the others when their slope is set.
MCTerms ==
  [c \in MCConfigs |->
     [status : {"Active"},
      permitLiquidation : IF c.kind = "CctpBridge" THEN BOOLEAN ELSE {FALSE},
      slope : {IF c.kind = "CctpBridge" THEN 1 ELSE 0},
      max : {1}]]

MCReserveTerms == [slope |-> 1, max |-> 1]

Administration == {"can_manage_permissions", "can_freeze_controller",
                   "can_unfreeze_controller",
                   "can_manage_reserves_and_integrations"}
Operation == {"can_reallocate", "can_invoke_external_transfer"}
Liquidation == {"can_liquidate"}

MCGrants == {Operation, Liquidation}

MCInitialPermissions ==
  [a \in {admin, operator} |->
     [status |-> "Active",
      privileges |-> IF a = admin THEN Administration ELSE Operation]]
=============================================================================
