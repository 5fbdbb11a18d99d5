--------------------------- MODULE GovernanceProofs ---------------------------
(***************************************************************************)
(* Proofs, for any number of authorities and any sets of privileges, of    *)
(* the safety properties of GovernanceProps.                               *)
(***************************************************************************)
EXTENDS GovernanceProps, TLAPS

\* The inductive invariant: the types, and that a manager is left.
GovInv == GovTypeOK /\ ManagerAlive

\* The privileges of an account that is not Active have no effect.
LEMMA InactiveHasNoEffect ==
  ASSUME NEW permission, permission.status # "Active"
  PROVE  Effective(permission) = {}
BY DEF Effective, Can

\* What the two ways to change an account leave alone: every other account.
LEMMA SetPermissionEffect ==
  ASSUME GovTypeOK, NEW authority \in Authorities,
         NEW status, NEW privileges,
         SetPermission(authority, status, privileges)
  PROVE  /\ permissions'[authority] = [status |-> status, privileges |-> privileges]
         /\ \A a \in Authorities \ {authority} : permissions'[a] = permissions[a]
BY DEF GovTypeOK, SetPermission

LEMMA SuspendPermissionEffect ==
  ASSUME GovTypeOK, NEW authority \in Authorities, NEW status,
         SuspendPermission(authority, status)
  PROVE  /\ permissions'[authority].status = "Suspended"
         /\ ~Can(permissions[authority], "can_manage_permissions")
         /\ \A a \in Authorities \ {authority} : permissions'[a] = permissions[a]
<1>1. permissions'[authority] = [permissions[authority] EXCEPT !.status = status]
      /\ \A a \in Authorities \ {authority} : permissions'[a] = permissions[a]
  BY DEF GovTypeOK, SuspendPermission
<1>2. permissions[authority] \in Permissions
  BY DEF GovTypeOK
<1> QED BY <1>1, <1>2 DEF SuspendPermission, Permissions

-----------------------------------------------------------------------------
\* Every step keeps the types.
LEMMA TypeStep == GovTypeOK /\ [Next]_govVars => GovTypeOK'
<1> SUFFICES ASSUME GovTypeOK, [Next]_govVars PROVE GovTypeOK'
  OBVIOUS
<1> USE GovernanceAssumption
<1>1. ASSUME NEW authority \in Authorities, NEW status \in ControllerStatus,
             InitializeController(authority, status)
      PROVE  GovTypeOK'
  <2>1. [status |-> "Active", privileges |-> {"can_manage_permissions"}]
          \in Permissions
    BY DEF Permissions, Privileges, PermissionStatus
  <2> QED BY <1>1, <2>1 DEF InitializeController, GovTypeOK, ControllerStatus
<1>2. ASSUME NEW authority \in Authorities, NEW status \in ControllerStatus,
             ManageController(authority, status)
      PROVE  GovTypeOK'
  BY <1>2 DEF ManageController, GovTypeOK, ControllerStatus
<1>3. ASSUME NEW super \in Authorities, NEW authority \in Authorities,
             NEW status \in PermissionStatus, NEW privileges \in Grants,
             ManagePermission(super, authority, status, privileges)
      PROVE  GovTypeOK'
  <2>1. CASE SetPermission(authority, status, privileges)
    <3>1. [status |-> status, privileges |-> privileges] \in Permissions
      BY DEF Permissions
    <3> QED BY <1>3, <2>1, <3>1 DEF ManagePermission, SetPermission, GovTypeOK
  <2>2. CASE SuspendPermission(authority, status)
    <3>1. [permissions[authority] EXCEPT !.status = status] \in Permissions
      BY DEF GovTypeOK, Permissions
    <3>2. permissions' \in [Authorities -> Permissions]
      BY <2>2, <3>1 DEF SuspendPermission, GovTypeOK
    <3> QED BY <1>3, <3>2 DEF ManagePermission, GovTypeOK
  <2> QED BY <1>3, <2>1, <2>2 DEF ManagePermission
<1>4. CASE UNCHANGED govVars
  BY <1>4 DEF govVars, GovTypeOK
<1> QED BY <1>1, <1>2, <1>3, <1>4 DEF Next

\* Every step leaves a manager: the manager that signs keeps its privilege,
\* and a suspender takes it from nobody.
LEMMA ManagerStep == GovInv /\ [Next]_govVars => ManagerAlive'
<1> SUFFICES ASSUME GovInv, [Next]_govVars, controller' # "Uninitialized"
             PROVE  \E a \in Authorities :
                      Can(permissions'[a], "can_manage_permissions")
  BY DEF ManagerAlive, Managers
<1> USE GovernanceAssumption DEF GovInv
<1>1. ASSUME NEW authority \in Authorities, NEW status \in ControllerStatus,
             InitializeController(authority, status)
      PROVE  \E a \in Authorities : Can(permissions'[a], "can_manage_permissions")
  BY <1>1 DEF InitializeController, GovTypeOK, Can
<1>2. ASSUME NEW authority \in Authorities, NEW status \in ControllerStatus,
             ManageController(authority, status)
      PROVE  \E a \in Authorities : Can(permissions'[a], "can_manage_permissions")
  BY <1>2 DEF ManageController, ManagerAlive, Managers
<1>3. ASSUME NEW super \in Authorities, NEW authority \in Authorities,
             NEW status \in PermissionStatus, NEW privileges \in Grants,
             ManagePermission(super, authority, status, privileges)
      PROVE  \E a \in Authorities : Can(permissions'[a], "can_manage_permissions")
  <2>1. CASE /\ Can(permissions[super], "can_manage_permissions")
             /\ SetPermission(authority, status, privileges)
    <3>1. CASE authority = super
      <4>1. status = "Active" /\ "can_manage_permissions" \in privileges
        BY <1>3, <3>1 DEF ManagePermission, KeepsItself, PermissionStatus
      <4>2. permissions'[super] = [status |-> status, privileges |-> privileges]
        BY <2>1, <3>1, SetPermissionEffect
      <4> QED BY <4>1, <4>2 DEF Can
    <3>2. CASE authority # super
      BY <2>1, <3>2, SetPermissionEffect
    <3> QED BY <3>1, <3>2
  <2>2. CASE SuspendPermission(authority, status)
    <3>1. PICK m \in Authorities : Can(permissions[m], "can_manage_permissions")
      BY <1>3 DEF ManagePermission, Halted, ManagerAlive, Managers
    <3>2. m # authority
      BY <2>2, <3>1, SuspendPermissionEffect
    <3> QED BY <2>2, <3>1, <3>2, SuspendPermissionEffect
  <2> QED BY <1>3, <2>1, <2>2 DEF ManagePermission
<1>4. CASE UNCHANGED govVars
  BY <1>4 DEF govVars, ManagerAlive, Managers
<1> QED BY <1>1, <1>2, <1>3, <1>4 DEF Next

\* The inductive invariant of the controller's permissions.
THEOREM GovernanceInvariant == Spec => []GovInv
<1>1. Init => GovInv
  BY DEF Init, GovInv, GovTypeOK, ManagerAlive, Permissions, NoPermission
<1>2. GovInv /\ [Next]_govVars => GovInv'
  BY TypeStep, ManagerStep DEF GovInv
<1> QED BY <1>1, <1>2, PTL DEF Spec

\* The types hold in every reachable state, and no instruction is ever seen to
\* begin with the swap lock of another transaction.
THEOREM GovernanceTypeOK == Spec => []GovTypeOK
BY GovernanceInvariant, PTL DEF GovInv

\* However managers and suspenders act on each other, a manager is left
\* (manage_permission's self-guard and suspend_permission's manager check).
THEOREM GovernanceManagerAlive == Spec => []ManagerAlive
BY GovernanceInvariant, PTL DEF GovInv

-----------------------------------------------------------------------------
\* Effective privileges grow only in an instruction signed by a manager.
THEOREM GovernanceNoEscalation == Spec => NoEscalation
<1> DEFINE Allowed(a) ==
      \/ Effective(permissions'[a]) \subseteq Effective(permissions[a])
      \/ signer' \in Managers
      \/ controller = "Uninitialized"
<1>1. ASSUME GovTypeOK, [Next]_govVars, NEW a \in Authorities
      PROVE  Allowed(a)
  <2>1. ASSUME NEW authority \in Authorities, NEW status \in ControllerStatus,
               InitializeController(authority, status)
        PROVE  Allowed(a)
    BY <2>1 DEF InitializeController
  <2>2. ASSUME NEW authority \in Authorities, NEW status \in ControllerStatus,
               ManageController(authority, status)
        PROVE  Allowed(a)
    BY <2>2 DEF ManageController
  <2>3. ASSUME NEW super \in Authorities, NEW authority \in Authorities,
               NEW status \in PermissionStatus, NEW privileges \in Grants,
               ManagePermission(super, authority, status, privileges)
        PROVE  Allowed(a)
    <3>1. CASE Can(permissions[super], "can_manage_permissions")
      BY <2>3, <3>1 DEF ManagePermission, Managers
    <3>2. CASE SuspendPermission(authority, status)
      <4>1. CASE a = authority
        BY <1>1, <3>2, <4>1, SuspendPermissionEffect, InactiveHasNoEffect
      <4>2. CASE a # authority
        BY <1>1, <3>2, <4>2, SuspendPermissionEffect
      <4> QED BY <4>1, <4>2
    <3> QED BY <2>3, <3>1, <3>2 DEF ManagePermission
  <2>4. CASE UNCHANGED govVars
    BY <2>4 DEF govVars
  <2> QED BY <1>1, <2>1, <2>2, <2>3, <2>4 DEF Next
<1>2. GovTypeOK /\ [Next]_govVars =>
        [\A a \in Authorities :
           Effective(permissions'[a]) \subseteq Effective(permissions[a])
             \/ signer' \in Managers \/ controller = "Uninitialized"]_govVars
  BY <1>1
<1> QED BY <1>2, GovernanceTypeOK, PTL DEF Spec, NoEscalation

\* A manager is demoted or suspended only by another manager.
THEOREM GovernanceManagersProtected == Spec => ManagersProtected
<1>1. ASSUME GovInv, [Next]_govVars, NEW a \in Managers, a \notin Managers'
      PROVE  signer' \in Managers \ {a}
  <2> USE DEF GovInv
  <2>0. a \in Authorities /\ Can(permissions[a], "can_manage_permissions")
        /\ ~Can(permissions'[a], "can_manage_permissions")
    BY <1>1 DEF Managers
  <2>1. ASSUME NEW authority \in Authorities, NEW status \in ControllerStatus,
               InitializeController(authority, status)
        PROVE  Can(permissions'[a], "can_manage_permissions")
    BY <1>1, <2>0, <2>1, GovernanceAssumption
       DEF InitializeController, GovTypeOK, Can
  <2>2. ASSUME NEW authority \in Authorities, NEW status \in ControllerStatus,
               ManageController(authority, status)
        PROVE  Can(permissions'[a], "can_manage_permissions")
    BY <2>0, <2>2 DEF ManageController
  <2>3. ASSUME NEW super \in Authorities, NEW authority \in Authorities,
               NEW status \in PermissionStatus, NEW privileges \in Grants,
               ManagePermission(super, authority, status, privileges)
        PROVE  signer' \in Managers \ {a}
    <3>1. CASE /\ Can(permissions[super], "can_manage_permissions")
               /\ SetPermission(authority, status, privileges)
      <4>1. a = authority
        BY <1>1, <2>0, <3>1, SetPermissionEffect
      <4>2. permissions'[a] = [status |-> status, privileges |-> privileges]
        BY <1>1, <3>1, <4>1, SetPermissionEffect
      <4>3. status # "Active" \/ "can_manage_permissions" \notin privileges
        BY <2>0, <4>2 DEF Can
      <4>4. a # super
        BY <2>3, <4>1, <4>3 DEF ManagePermission, KeepsItself, PermissionStatus
      <4> QED BY <2>3, <3>1, <4>4 DEF ManagePermission, Managers
    <3>2. CASE SuspendPermission(authority, status)
      BY <1>1, <2>0, <3>2, SuspendPermissionEffect
    <3> QED BY <2>3, <3>1, <3>2 DEF ManagePermission
  <2>4. CASE UNCHANGED govVars
    BY <2>0, <2>4 DEF govVars
  <2> QED BY <1>1, <2>0, <2>1, <2>2, <2>3, <2>4 DEF Next
<1>2. GovInv /\ [Next]_govVars =>
        [\A a \in Managers :
           a \notin Managers' => signer' \in Managers \ {a}]_govVars
  BY <1>1
<1> QED BY <1>2, GovernanceInvariant, PTL DEF Spec, ManagersProtected

\* A freeze ends only by an authority that may unfreeze, and while it lasts no
\* permission changes.
THEOREM GovernanceFreezeHolds == Spec => FreezeHolds
<1> DEFINE Held ==
      controller = "Frozen" =>
        /\ permissions' = permissions
        /\ controller' # controller =>
             /\ controller' = "Active"
             /\ Can(permissions[signer'], "can_unfreeze_controller")
<1>1. [Next]_govVars => [Held]_govVars
  <2> SUFFICES ASSUME Next, controller = "Frozen" PROVE Held
    OBVIOUS
  <2>1. ASSUME NEW authority \in Authorities, NEW status \in ControllerStatus,
               ManageController(authority, status)
        PROVE  Held
    BY <2>1 DEF ManageController, RequiredFor
  <2>2. ASSUME NEW super \in Authorities, NEW authority \in Authorities,
               NEW status \in PermissionStatus, NEW privileges \in Grants,
               ManagePermission(super, authority, status, privileges)
        PROVE  FALSE
    BY <2>2 DEF ManagePermission, Halted
  <2>3. ASSUME NEW authority \in Authorities, NEW status \in ControllerStatus,
               InitializeController(authority, status)
        PROVE  FALSE
    BY <2>3 DEF InitializeController
  <2> QED BY <2>1, <2>2, <2>3 DEF Next
<1> QED BY <1>1, PTL DEF Spec, FreezeHolds

\* Those who may unfreeze a frozen controller keep that power as long as it is
\* frozen: what stands in front of them is only their own instruction.
THEOREM GovernanceUnfreezersKept == Spec => UnfreezersKept
<1> DEFINE Kept == controller = "Frozen" =>
                     \/ controller' = "Frozen" /\ Unfreezers' = Unfreezers
                     \/ controller' = "Active"
<1>1. ASSUME controller = "Frozen" =>
               /\ permissions' = permissions
               /\ controller' # controller =>
                    /\ controller' = "Active"
                    /\ Can(permissions[signer'], "can_unfreeze_controller")
      PROVE  Kept
  BY <1>1 DEF Unfreezers
<1>. QED  BY <1>1, GovernanceFreezeHolds, PTL DEF FreezeHolds, UnfreezersKept

\* A controller that was frozen, or created Frozen, while nobody may unfreeze it
\* is never anything else again: manage_permission refuses to grant the power.
THEOREM GovernanceFrozenForEver == Spec => FrozenForEver
<1>1. ASSUME Stuck, [Next]_govVars
      PROVE  Stuck'
  <2>1. ASSUME NEW authority \in Authorities, NEW status \in ControllerStatus,
               ManageController(authority, status)
        PROVE  FALSE
    <3>1. Can(permissions[authority], "can_unfreeze_controller")
      BY <1>1, <2>1 DEF Stuck, ManageController, RequiredFor
    <3>. QED  BY <1>1, <3>1 DEF Stuck, Unfreezers
  <2>2. ASSUME NEW super \in Authorities, NEW authority \in Authorities,
               NEW status \in PermissionStatus, NEW privileges \in Grants,
               ManagePermission(super, authority, status, privileges)
        PROVE  FALSE
    BY <1>1, <2>2 DEF Stuck, ManagePermission, Halted
  <2>3. ASSUME NEW authority \in Authorities, NEW status \in ControllerStatus,
               InitializeController(authority, status)
        PROVE  FALSE
    BY <1>1, <2>3 DEF Stuck, InitializeController
  <2>4. CASE UNCHANGED govVars
    BY <1>1, <2>4 DEF Stuck, Unfreezers, govVars
  <2>. QED  BY <1>1, <2>1, <2>2, <2>3, <2>4 DEF Next
<1>. QED  BY <1>1, PTL DEF Spec, FrozenForEver
=============================================================================
