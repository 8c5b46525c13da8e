SPECIFICATION Spec
CONSTANTS
  AddrMod = 8
  Widths = {1, 2}
  Byte = {0, 1}
  ZeroByte = 0
  NoByte = NoByte
  NDEBUG = FALSE
  Images <- MCImages
  Extras <- MCExtras
  MaxSegments = 3
  MaxCopy = 3
INVARIANT TypeOK
PROPERTIES ImplementsFlatMemory RegionsNeverMove
VIEW WithoutCall
CHECK_DEADLOCK FALSE
