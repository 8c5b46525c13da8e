SPECIFICATION Spec
CONSTANTS
  XLen = 8
  CharBit = 2
  Rs1Values <- Few
  Rs2Values <- Few
CHECK_DEADLOCK FALSE
INVARIANT RegisterShiftsMaskTheCount
