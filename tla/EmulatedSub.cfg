SPECIFICATION ChainSpec
CONSTANTS
  NativeModulus = 2039
  Capacity = 10
  P = 1021
  L = 5
  W = 2
  MersenneE = 10
  MersenneC = 3
  Values = {8, 1020}
  Multipliers = {3}
  MaxElems = 12
INVARIANT
  EqualityIsAccepted
CHECK_DEADLOCK FALSE
