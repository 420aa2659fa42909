SPECIFICATION Spec
CONSTANTS
  q = 7
  N = 8
  Instances <- MCInstances
  Challenges = {0, 2, 3}
  Blinds = {0, 4}
  FinalDraws <- MCFinalDraws
  CollapseDiv = 2
  CollapseMin = 2
  CollapseMax = 4
INVARIANTS
  TypeOK
  TermsCounted
  BlindedClaimPreserved
  ProofIsForItsClaim
PROPERTY
  FoldsEagerly
CHECK_DEADLOCK FALSE
