SPECIFICATION Spec
CONSTANTS
  Calls <- MCCalls
  NoTx = NoTx
INVARIANTS
  AccountsLand
  ClientAccepted
  PrivilegesCovered
