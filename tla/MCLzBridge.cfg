CONSTANTS
  b1 = b1
  b2 = b2
  home = home
  away = away
  SecondsPerDay = 1
  U64Max = 7
  IxLists <- MCIxLists
  MaxCalls <- MCMaxCalls
  MaxTxs = 2
  Bridges <- MCBridges
  Destinations <- MCDestinations
  Destination <- MCDestination
  Amounts <- MCAmounts
  Supply = 3
  MaxOut = 2
  Held = 3
SPECIFICATION Spec
INVARIANTS
  LzTypeOK
  NoneInFlight
  BridgedCoversPushed
  LimitsCharged
CHECK_DEADLOCK FALSE
