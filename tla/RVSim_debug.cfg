SPECIFICATION AnySpec
CONSTANTS
  NDEBUG = FALSE
  AddrMod = 256
  ByteMod = 4
  Byte = {0, 1, 2, 3}
  ZeroByte = 0
  NumXRegisters <- MCXRegs
  A0 <- a0
  A1 <- a1
  A2 <- a2
  A7 <- a7
  Decode <- AnyDecode
  BinOpNames <- AnyBinOps
  BinOpFunc <- AluBinOp
  BranchNames <- AnyBranches
  BranchPredFunc <- AluTaken
  BitOr <- WordOr
  BitAndNot <- WordAndNot
  SoftFloat <- MiniFloat
  FPClassify <- MiniClassify
  IsSignalingNaN <- MiniSignaling
  Images <- AnyImages
  Entries = {0}
  RegisterFiles <- AnyRegisters
  Inputs <- AnyInputs
  OutputRoom = 3
INVARIANTS TypeOK ZeroRegister IpIsEven
PROPERTIES ReadsDeliver ImplementsProcess ImplementsIsa
CHECK_DEADLOCK FALSE
