SPECIFICATION Spec
CONSTANTS
  Table <- MCTable
  MaxBits = 2
INVARIANTS TypeOK OneEntry OperandsArrive TargetsAreGathered
CHECK_DEADLOCK FALSE
