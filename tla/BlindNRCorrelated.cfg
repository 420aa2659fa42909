CONSTANTS
  Fq <- MCFq
  Zero = 0
  Add <- MCAdd
  Neg <- MCNeg
  Mul <- MCMul
  Group <- MCFq
  O = 0
  G = 1
  H = 5
  V = 8
  Gadd <- MCAdd
  Times <- MCMul
  Fp <- MCFp
  X <- MCX
  FpToFq <- MCFpToFq
  NoScalar = NoScalar
  SK = 3
  Scalars = {2, 7}
  ByteStrings <- MCByteStrings
  HashToCurve <- MCHashToCurve
  NoPoint = NoPoint
  IsMsgLen <- MCIsMsgLen
  ChSL <- MCChSL
  Session = {s1, s2}
  K0 = {1, 4}
  K1 = {2, 5}
  Blinds <- MCBlinds
  MaxReplies = 2
  MaxDamaged = 1
SPECIFICATION FairSpec
PROPERTIES
  EverySessionIsSigned
  IssuesDirectSignatures
CHECK_DEADLOCK FALSE
