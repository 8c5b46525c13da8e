SPECIFICATION Spec
CONSTANTS
  NDEBUG = FALSE
  AddrMod = 256
  ByteMod = 4
  Byte = {0, 1, 2, 3}
  ZeroByte = 0
  NumXRegisters <- MCXRegs
  A0 <- a0
  A1 <- a1
  A2 <- a2
  A7 <- a7
  Decode <- ConversionDecode
  BinOpNames <- DeviatingBinOps
  BinOpFunc <- AluBinOp
  BranchNames <- DeviatingBranches
  BranchPredFunc <- AluTaken
  BitOr <- WordOr
  BitAndNot <- WordAndNot
  SoftFloat <- MiniFloat
  FPClassify <- MiniClassify
  IsSignalingNaN <- MiniSignaling
  Images <- ConversionImages
  Entries = {0}
  RegisterFiles <- ConversionRegisters
  Inputs <- DeviatingInputs
  OutputRoom = 0
INVARIANTS ConversionIsDynamic
CHECK_DEADLOCK FALSE
