SPECIFICATION Spec
CONSTANTS
  XLen = 8
  CharBit = 2
  Rs1Values <- AllValues
  Rs2Values <- Boundary
INVARIANTS
  TypeOK ShiftsAreExact RotatesKeepEveryBit QuotientAndRemainderAgree
  HighAndLowMakeTheProduct CountsMeasureTheValue ByteLoopsKeepEveryByte
  ExtensionsKeepTheValue OrdersAgree InvertedLogic
CHECK_DEADLOCK FALSE
