SPECIFICATION ReductionSpec
CONSTANTS
  q = 7
  N = 8
  Instances = {}
  Statements <- MCStatements
  ReduceChallenges = {0, 2, 3}
  CommitDraws = {0, 5}
  Challenges = {0, 3}
  Blinds = {4}
  FinalDraws <- MCFinalDraws
  CollapseDiv = 2
  CollapseMin = 2
  CollapseMax = 4
INVARIANTS
  ReductionTypeOK
  ReductionComplete
  BadWitnessIsCaught
  ArgumentDecides
CHECK_DEADLOCK FALSE
