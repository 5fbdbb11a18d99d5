--------------------------- MODULE GovernanceProps ---------------------------
(***************************************************************************)
(* What the controller's permissions guarantee.                            *)
(***************************************************************************)
EXTENDS Governance

\* The controller and the permission accounts have their types, and the swap
\* lock is never seen between two transactions.
GovTypeOK ==
  /\ controller \in {"Uninitialized", "Active", "Frozen", "PushPullFrozen"}
  /\ permissions \in [Authorities -> Permissions]
  /\ signer \in Authorities \cup {NoOne}

Managers == {a \in Authorities : Can(permissions[a], "can_manage_permissions")}

\* A controller never becomes locked because all permissions are suspended
\* and none can manage other permissions: whatever the managers and the
\* suspenders do to each other, and in whatever order, one manager is left.
ManagerAlive == controller # "Uninitialized" => Managers # {}

\* Nobody gains an effective privilege, by a grant, a creation or an end of
\* suspension, unless an authority that could manage permissions signed.
\* A suspended authority can therefore not bring itself back, nor can any
\* coalition of freezers, suspenders and operators raise one of its members.
NoEscalation ==
  [][\A a \in Authorities :
       Effective(permissions'[a]) \subseteq Effective(permissions[a])
         \/ signer' \in Managers \/ controller = "Uninitialized"]_govVars

\* A manager loses that privilege only through another manager.
ManagersProtected ==
  [][\A a \in Managers : a \notin Managers' => signer' \in Managers \ {a}]_govVars

\* A frozen controller stays frozen, and its permissions stay as they are,
\* until an authority that may unfreeze makes it Active; in particular the
\* freezers cannot weaken the freeze to PushPullFrozen, and nobody can revoke
\* the power to unfreeze while it is needed.
FreezeHolds ==
  [][controller = "Frozen" =>
       /\ permissions' = permissions
       /\ controller' # controller =>
            /\ controller' = "Active"
            /\ Can(permissions[signer'], "can_unfreeze_controller")]_govVars

Unfreezers == {a \in Authorities : Can(permissions[a], "can_unfreeze_controller")}

\* Who may unfreeze a frozen controller may still do so in the next state, or it
\* is Active there: neither a freezer nor a manager can take it from them first.
UnfreezersKept ==
  [][controller = "Frozen" =>
       \/ controller' = "Frozen" /\ Unfreezers' = Unfreezers
       \/ controller' = "Active"]_govVars

\* The other side of it: a controller that is frozen while nobody may unfreeze
\* stays so for ever, since the freeze also keeps the managers from granting it.
Stuck == controller = "Frozen" /\ Unfreezers = {}
FrozenForEver == [](Stuck => []Stuck)

\* When somebody may unfreeze a frozen controller, nobody can keep it frozen:
\* it becomes Active again.
UnfreezeNotObstructed ==
  (controller = "Frozen"
     /\ \E a \in Authorities : Can(permissions[a], "can_unfreeze_controller"))
    ~> controller = "Active"

\* "This is permissionless and sets up a Controller with a new Super
\* Permission", the comment on process_initialize_controller says: whoever
\* signs can do it.
InitializePermissionless ==
  controller = "Uninitialized" =>
    \A a \in Authorities :
      ENABLED \E status \in ControllerStatus : InitializeController(a, status)
=============================================================================
