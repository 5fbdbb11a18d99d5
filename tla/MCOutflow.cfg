CONSTANTS
  admin = admin
  operator = operator
  wallet = wallet
  ethereum = ethereum
  own = own
  Authorities = {admin, operator}
  Deployer = admin
  NoOne = NoOne
  Grants <- MCGrants
  Configs <- MCConfigs
  TheReserve = TheReserve
  OwnVault = own
  Slopes = {1}
  MaxOuts = {2}
  Amounts = {1}
  Deposits = {2}
  Terms <- MCTerms
  ReserveTerms <- MCReserveTerms
  InitialPermissions <- MCInitialPermissions
  Supply = 2
  MaxTime = 1
  MaxChanges = 2
  SecondsPerDay = 1
  U64Max = 2
SPECIFICATION OutflowSpec
INVARIANTS
  OutflowTypeOK
  OutflowBounded
  BooksAgree
PROPERTIES
  LimitsAreBuckets
  Contained
  FrozenIsStill
CHECK_DEADLOCK FALSE
