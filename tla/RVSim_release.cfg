SPECIFICATION ReleaseSpec
CONSTANTS
  NDEBUG = TRUE
  AddrMod = 256
  ByteMod = 4
  Byte = {0, 1, 2, 3}
  ZeroByte = 0
  NumXRegisters <- MCXRegs
  A0 <- a0
  A1 <- a1
  A2 <- a2
  A7 <- a7
  Decode <- ReleaseDecode
  BinOpNames <- AnyBinOps
  BinOpFunc <- AluBinOp
  BranchNames <- AnyBranches
  BranchPredFunc <- AluTaken
  BitOr <- WordOr
  BitAndNot <- WordAndNot
  SoftFloat <- MiniFloat
  FPClassify <- MiniClassify
  IsSignalingNaN <- MiniSignaling
  Images <- ReleaseImages
  Entries = {0}
  RegisterFiles <- ReleaseRegisters
  Inputs <- ReleaseInputs
  OutputRoom = 3
INVARIANTS FloatsAreOrdered DynamicModeRounds
PROPERTIES ReadsDeliver WritesShowMemory ImplementsProcess InstructionsAreIsa
CHECK_DEADLOCK FALSE
