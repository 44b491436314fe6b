SPECIFICATION Spec
CONSTANTS
  UENV_MINIMUM_SIZE = 2
  UENV_MAXIMUM_SIZE = 24
  better_sz = 8
  LineMax = 3
  Title <- MCTitle
  Body <- MCBody
  OldSize = {0, 9}
  Trailer = {0, 3, 30}
INVARIANTS TypeOK ListReproduces DetectIsExact
PROPERTY Ended
CHECK_DEADLOCK FALSE
