CONSTANTS
  SecondsPerDay = 3
  U64Max = 7
  Slopes <- MCSlopes
  MaxOuts <- MCMaxOuts
  Amounts <- MCAmounts
  Supply = 4
  Elapses <- MCElapses
  MaxTime = 4
  MaxSlot = 3
SPECIFICATION Spec
INVARIANTS
  TypeOK
  NeverBricked
  AuditTrailComplete
PROPERTIES
  BalanceIsVault
  ImplementsTokenBucket
