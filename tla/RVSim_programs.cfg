SPECIFICATION ProgramsSpec
CONSTANTS
  NDEBUG = FALSE
  AddrMod = 256
  ByteMod = 4
  Byte = {0, 1, 2, 3}
  ZeroByte = 0
  NumXRegisters <- MCXRegs
  A0 <- a0
  A1 <- a1
  A2 <- a2
  A7 <- a7
  Decode <- ProgramsDecode
  BinOpNames <- ProgramsBinOps
  BinOpFunc <- AluBinOp
  BranchNames <- ProgramsBranches
  BranchPredFunc <- AluTaken
  BitOr <- WordOr
  BitAndNot <- WordAndNot
  SoftFloat <- MiniFloat
  FPClassify <- MiniClassify
  IsSignalingNaN <- MiniSignaling
  Images <- ProgramsImages
  Entries = {0}
  RegisterFiles <- ProgramsRegisters
  Inputs <- EchoInputs
  OutputRoom = 6
INVARIANTS FibIsComputed NothingLost
PROPERTIES GuestsReturn
CHECK_DEADLOCK FALSE
