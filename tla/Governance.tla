------------------------------ MODULE Governance ------------------------------
(***************************************************************************)
(* Who may do what: the Controller's status, the Permission accounts, and  *)
(* the three instructions that change them (initialize_controller,         *)
(* manage_controller, manage_permission).  Every action is one instruction *)
(* that commits; the authority that signed it is kept in signer.           *)
(*                                                                         *)
(* An atomic swap locks and unlocks the controller within one transaction; *)
(* what may happen while it is locked is the subject of module AtomicSwap. *)
(* Between transactions the status is never AtomicSwapLock.                *)
(***************************************************************************)
EXTENDS FiniteSets

CONSTANTS Authorities,   \* the keys that may hold a Permission
          Deployer,      \* KEEL_DEPLOYER_MSIG
          Grants,        \* the sets of privileges that are handed out
          NoOne          \* nobody has signed yet

Privileges == {"can_manage_permissions", "can_invoke_external_transfer",
               "can_execute_swap", "can_reallocate", "can_freeze_controller",
               "can_unfreeze_controller",
               "can_manage_reserves_and_integrations",
               "can_suspend_permissions", "can_liquidate"}

ASSUME GovernanceAssumption ==
  /\ Deployer \in Authorities
  /\ Grants \subseteq SUBSET Privileges
  /\ NoOne \notin Authorities

VARIABLES controller,    \* the Controller's status
          permissions,   \* the Permission account of each authority
          signer         \* who signed the last instruction

govVars == <<controller, permissions, signer>>

ControllerStatus == {"Active", "Frozen", "PushPullFrozen", "AtomicSwapLock"}
PermissionStatus == {"Active", "Suspended"}

\* A Permission account, its nine flags as the set of those that are on.
Permissions == [status : PermissionStatus \cup {"Absent"},
                privileges : SUBSET Privileges]
NoPermission == [status |-> "Absent", privileges |-> {}]

\* permission.can_...(): the flag counts only while the account is Active.
Can(permission, privilege) ==
  /\ permission.status = "Active"
  /\ privilege \in permission.privileges

Effective(permission) == {p \in Privileges : Can(permission, p)}

Init ==
  /\ controller = "Uninitialized"
  /\ permissions = [a \in Authorities |-> NoPermission]
  /\ signer = NoOne

-----------------------------------------------------------------------------
\* The deployer starts with the privilege to manage permissions and no other.
InitializeController(authority, status) ==
  /\ controller = "Uninitialized"
  /\ authority = Deployer
  /\ status # "AtomicSwapLock"
  /\ controller' = status
  /\ permissions' = [permissions EXCEPT ![authority] =
                       [status |-> "Active",
                        privileges |-> {"can_manage_permissions"}]]
  /\ signer' = authority

RequiredFor(status) ==
  IF status = "Active" THEN "can_unfreeze_controller"
                       ELSE "can_freeze_controller"

\* Mutant: the lock of an atomic swap can be set by hand.
ManageControllerLocks(authority, status) ==
  /\ controller # "Uninitialized"
  /\ controller = "Frozen" => status = "Active"
  /\ Can(permissions[authority], RequiredFor(status))
  /\ status # controller
  /\ controller' = status
  /\ signer' = authority
  /\ UNCHANGED permissions

\* Mutant: a frozen controller takes any new status.
ManageControllerThaws(authority, status) ==
  /\ controller # "Uninitialized"
  /\ status # "AtomicSwapLock"
  /\ Can(permissions[authority], RequiredFor(status))
  /\ status # controller
  /\ controller' = status
  /\ signer' = authority
  /\ UNCHANGED permissions

\* Mutant: a frozen controller is refused here as in the other handlers.
ManageControllerHalted(authority, status) ==
  /\ controller \notin {"Uninitialized", "Frozen"}
  /\ status # "AtomicSwapLock"
  /\ Can(permissions[authority], RequiredFor(status))
  /\ status # controller
  /\ controller' = status
  /\ signer' = authority
  /\ UNCHANGED permissions

ManageController(authority, status) ==
  /\ controller # "Uninitialized"
  /\ controller = "Frozen" => status = "Active"
  /\ status # "AtomicSwapLock"
  /\ Can(permissions[authority], RequiredFor(status))
  /\ status # controller
  /\ controller' = status
  /\ signer' = authority
  /\ UNCHANGED permissions

Halted == controller \in {"Uninitialized", "Frozen", "AtomicSwapLock"}

\* Mutant: a super authority may suspend the account it signs with.
KeepsPrivilege(super, authority, status, privileges) ==
  authority = super => "can_manage_permissions" \in privileges

\* A super authority does not suspend or demote the account it signs with.
KeepsItself(super, authority, status, privileges) ==
  authority = super =>
    /\ status # "Suspended"
    /\ "can_manage_permissions" \in privileges

\* can_manage_permissions: creates the account, or overwrites all of it.
SetPermission(authority, status, privileges) ==
  permissions' = [permissions EXCEPT ![authority] =
                    [status |-> status, privileges |-> privileges]]

\* Mutant: the suspender sets any status.
SuspendOrResume(authority, status) ==
  /\ permissions[authority].status # "Absent"
  /\ ~Can(permissions[authority], "can_manage_permissions")
  /\ permissions' = [permissions EXCEPT ![authority].status = status]

\* Mutant: the suspender suspends managers too.
SuspendAnybody(authority, status) ==
  /\ status = "Suspended"
  /\ permissions[authority].status # "Absent"
  /\ permissions' = [permissions EXCEPT ![authority].status = status]

\* can_suspend_permissions: suspends an account that cannot itself manage
\* permissions, and leaves its flags as they are.
SuspendPermission(authority, status) ==
  /\ status = "Suspended"
  /\ permissions[authority].status # "Absent"
  /\ ~Can(permissions[authority], "can_manage_permissions")
  /\ permissions' = [permissions EXCEPT ![authority].status = status]

ManagePermission(super, authority, status, privileges) ==
  /\ ~Halted
  /\ KeepsItself(super, authority, status, privileges)
  /\ \/ /\ Can(permissions[super], "can_manage_permissions")
        /\ SetPermission(authority, status, privileges)
     \/ /\ ~Can(permissions[super], "can_manage_permissions")
        /\ Can(permissions[super], "can_suspend_permissions")
        /\ SuspendPermission(authority, status)
  /\ signer' = super
  /\ UNCHANGED controller

Next ==
  \/ \E authority \in Authorities, status \in ControllerStatus :
       InitializeController(authority, status)
  \/ \E authority \in Authorities, status \in ControllerStatus :
       ManageController(authority, status)
  \/ \E super, authority \in Authorities, status \in PermissionStatus,
        privileges \in Grants :
       ManagePermission(super, authority, status, privileges)

Spec == Init /\ [][Next]_govVars

\* An authority that may unfreeze the controller does so: it can submit the
\* instruction in every block, and nothing but its own permission and the
\* controller's status stands in front of it.
Unfreeze == \E authority \in Authorities : ManageController(authority, "Active")

FairSpec == Spec /\ WF_govVars(controller = "Frozen" /\ Unfreeze)
=============================================================================
