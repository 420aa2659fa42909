CONSTANTS
  q = 3
  N = 1
  Values = {0, 2}
  LCsA <- MCLCsA
  LCsB <- MCLCsB
  LCsC <- MCLCsC
  MaxInputs = 2
  MaxAux = 3
  MaxCons = 2
SPECIFICATION Spec
INVARIANTS
  TypeOK
  MeaningKept
  InstancesAgree
CHECK_DEADLOCK FALSE
