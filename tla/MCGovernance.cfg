CONSTANTS
  Authorities = {deployer, a1, a2}
  Deployer = deployer
  NoOne = NoOne
  Grants <- MCRoles
SPECIFICATION FairSpec
INVARIANTS
  GovTypeOK
  ManagerAlive
PROPERTIES
  NoEscalation
  ManagersProtected
  FreezeHolds
  UnfreezeNotObstructed
CHECK_DEADLOCK FALSE
