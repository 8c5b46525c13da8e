SPECIFICATION Spec
CONSTANTS
  NDEBUG = FALSE
  AddrMod = 256
  ByteMod = 4
  Byte = {0, 1, 2, 3}
  ZeroByte = 0
  NumXRegisters <- MCXRegs
  A0 <- a0
  A1 <- a1
  A2 <- a2
  A7 <- a7
  Decode <- NegatedDecode
  BinOpNames <- DeviatingBinOps
  BinOpFunc <- AluBinOp
  BranchNames <- DeviatingBranches
  BranchPredFunc <- AluTaken
  BitOr <- WordOr
  BitAndNot <- WordAndNot
  SoftFloat <- MiniFloat
  FPClassify <- MiniClassify
  IsSignalingNaN <- MiniSignaling
  Images <- NegatedImages
  Entries = {0}
  RegisterFiles <- NegatedRegisters
  Inputs <- DeviatingInputs
  OutputRoom = 0
INVARIANTS NegatedSumRounds
CHECK_DEADLOCK FALSE
