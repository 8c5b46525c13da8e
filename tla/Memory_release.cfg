SPECIFICATION Spec
CONSTANTS
  AddrMod = 8
  Widths = {1, 2}
  Byte = {0, 1}
  ZeroByte = 0
  NoByte = NoByte
  NDEBUG = TRUE
  Images <- MCImages
  Extras <- MCExtras
  MaxSegments = 3
  MaxCopy = 3
PROPERTIES ImplementsFlatMemory
VIEW WithoutCall
CHECK_DEADLOCK FALSE
