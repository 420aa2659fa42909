CONSTANTS
  Fq <- MCFq
  Zero = 0
  Add <- MCAdd
  Neg <- MCNeg
  Mul <- MCMul
  Group <- MCFq
  O = 0
  G = 1
  H = 5
  V = 8
  Gadd <- MCAdd
  Times <- MCMul
  Fp <- MCFp
  X <- MCX
  FpToFq <- MCFpToFq
  NoScalar = NoScalar
  SK = 3
  Scalars = {2, 7}
  ByteStrings <- MCByteStrings
  HashToCurve <- MCHashToCurve
  NoPoint = NoPoint
  IsMsgLen <- MCIsMsgLen
  ChSL <- MCChSL
  Poseidon <- MCPoseidon
  ChNR <- MCChNR
  SnarkType <- MCSnarkType
  Draws <- MCDraws
  DebugBuild = FALSE
SPECIFICATION ShowSpec
INVARIANTS
  ShowTypeOK
  ExactShowVerifies
  ExactShowReturns
  OnlyExactIsShown
  AcceptedAsShown
CHECK_DEADLOCK FALSE
