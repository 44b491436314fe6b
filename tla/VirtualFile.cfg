SPECIFICATION Spec
CONSTANTS
  MAX_VIRTUAL_FILE = 2
  FD = {0, 1, 2}
  OFD = {o1, o2, o3}
  File = {f1}
  NONE = NONE
  Offset <- MCOffset
  MaxPos = 1
SYMMETRY MCSymmetry
INVARIANTS TypeOK TableExact CrashOnlyWhenFull PositionStaysInWindow
PROPERTY ImplementsHandles
CHECK_DEADLOCK FALSE
