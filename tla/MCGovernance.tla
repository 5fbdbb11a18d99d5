---------------------------- MODULE MCGovernance ----------------------------
(***************************************************************************)
(* Governance with three authorities and the roles that matter to its      *)
(* handlers.                                                               *)
(***************************************************************************)
EXTENDS GovernanceProps

\* The roles of the README's permission matrix, and one role that both
\* manages and suspends.
MCRoles == {{},
            {"can_manage_permissions", "can_unfreeze_controller"},
            {"can_freeze_controller", "can_suspend_permissions"},
            {"can_unfreeze_controller"},
            {"can_manage_permissions", "can_suspend_permissions"}}
=============================================================================
