SPECIFICATION Spec
CONSTANTS
  SecondsPerDay = 2
  U64Max = 20
  Bounds <- MCDrift
  Rewards = {1}
  Supply = 3
  Slopes = {1}
  MaxOuts = {3}
  Unit <- MCUnit
  FirstIndex <- MCFirstIndex
  LastIndex <- MCLastIndex
  Gains = {0, 1}
INVARIANT DriftBooked
