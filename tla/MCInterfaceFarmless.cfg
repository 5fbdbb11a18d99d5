SPECIFICATION Spec
CONSTANTS
  Calls <- KaminoCalls
  NoTx = NoTx
INVARIANTS
  FarmlessAccepted
