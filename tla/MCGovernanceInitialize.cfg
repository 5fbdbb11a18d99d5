CONSTANTS
  Authorities = {deployer, a1, a2}
  Deployer = deployer
  NoOne = NoOne
  Grants <- MCRoles
SPECIFICATION Spec
INVARIANTS
  InitializePermissionless
CHECK_DEADLOCK FALSE
