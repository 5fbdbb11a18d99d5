CONSTANTS
  SecondsPerDay = 2
  U64Max = 7
  IxLists <- MCIxLists
  MaxCalls <- MCMaxCalls
  MaxTxs = 2
  Amounts <- MCAmounts
  Supply = 4
  Fees <- MCFees
  Prices <- MCPrices
  Precision = 2
  InFactor = 1
  OutFactor = 1
  BpsDenominator = 4
  MaxSlippage = 1
  MaxStaleness = 1
  Expiry = 2
  FirstSlot = 2
  LastSlot = 4
SPECIFICATION Spec
INVARIANTS
  SwapTypeOK
  SwapPriced
  BalancesSettled
  LockIsTransient
  EventsCovered
PROPERTIES
  SwapIsolated
CHECK_DEADLOCK FALSE
