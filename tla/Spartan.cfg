CONSTANTS
  p = 31
  NumGens = 18
  Code <- MCCode
  Random <- MCRandom
  NumCells = 4
  NumOps = 4
  Batch = 3
  MemVal <- MCMemVal
  Statements <- MCStatements
  EncodeBatches <- MCEncodeBatches
  Seeds <- MCSeeds
SPECIFICATION SpartanSpec
INVARIANTS
  SpartanTypeOK
  WritesAreASet
  AuditBalances
  ErrorIsCarried
  AcceptsExactly
  LayerClaimsTrue
  EndsForAReason
CHECK_DEADLOCK FALSE
