SPECIFICATION CircuitsSpec
CONSTANTS
  NativeModulus = 131071
  Capacity = 16
  P = 61
  L = 3
  W = 2
  MersenneE = 6
  MersenneC = 3
  Values = {60, 61, 63}
  Multipliers = {3, 1000, 5000}
  MaxElems = 4
  CurveP = 19
  Curves <- MCCurves
  ByteBits = 2
  BatchSize = 2
  Threads = 2
  SmallLen = 4
  MinWindow = 2
  Windows = {2}
  Products <- MCProducts
  SpongeP = 13
  FieldBits = 4
  ReprBits = 5
  Inputs = {0, 1, 12}
  MaxAbsorbs = 2
  Scales = {1, 5}
  OffCurve <- MCOffCurve
INVARIANTS
  CircuitsTypeOK
  ValuesKept
  AnswersAreRight
  EndsForAReason
  SumsFollowTheGroup
  GadgetsMatchNative
  NativeFollowsTheGroup
CHECK_DEADLOCK FALSE
