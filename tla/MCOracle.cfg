SPECIFICATION Spec
CONSTANTS
  Controllers = {c1, c2}
  Authorities = {a1, a2}
  Feeds = {"f1", "f2"}
  NoOne = NoOne
  Quote <- MCQuote
  Factor <- MCFactor
  Precision = 2
  BpsDenominator = 4
  I128Max = 12
  Slippages = {0, 1}
  MaxStalenesses = {0, 1}
  Amounts = {0, 1, 3, 4}
  LastSlot = 3
INVARIANTS
  OracleTypeOK
  PriceIsQuoted
PROPERTIES
  
  SwapWorth
CHECK_DEADLOCK FALSE
