SPECIFICATION Spec
CONSTANTS
  q = 7
  N = 8
  Instances <- AllArgs
  Challenges = {0, 1, 2, 3, 6}
INVARIANT
  EveryProofVerifies
CHECK_DEADLOCK FALSE
