SPECIFICATION MainFairSpec
CONSTANTS
  NDEBUG = FALSE
  AddrMod = 256
  ByteMod = 4
  Byte = {0, 1, 2, 3}
  ZeroByte = 0
  NumXRegisters <- ArgsXRegs
  A0 <- a0
  A1 <- a1
  A2 <- a2
  A7 <- a7
  SP <- sp
  GP <- gp
  kStackTop <- Top
  kStackSize <- StackBytes
  CommandLines <- ArgsCommandLines
  Files <- ArgsFiles
  Decode <- ArgsDecode
  BinOpNames <- ArgsBinOps
  BinOpFunc <- AluBinOp
  BranchNames <- ArgsBranches
  BranchPredFunc <- AluTaken
  BitOr <- WordOr
  BitAndNot <- WordAndNot
  SoftFloat <- MiniFloat
  FPClassify <- MiniClassify
  IsSignalingNaN <- MiniSignaling
  Images = {}
  Entries = {}
  RegisterFiles = {}
  Inputs <- ArgsInputs
  OutputRoom = 5
INVARIANTS MainTypeOK GuestSeesArguments
PROPERTIES ArgumentsAreThere FileIsInMemory GuestRunsOnIsa MainEnds
CHECK_DEADLOCK FALSE
