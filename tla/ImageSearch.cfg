SPECIFICATION Spec
CONSTANTS
  NEditors = 3
  MBR = 1
  MagicSz <- MCMagicSz
  MagicOffset <- MCMagicOffset
  HeaderSz <- MCHeaderSz
  FileLen = 9
  Window = 5
  ReadBack = 2
  Starts = {0, 4, 7}
  HitSets <- MCHits
  MaxFailures = 1
  Features <- MCFeatures
  Sessions <- MCSessions
INVARIANTS TypeOK NoDuplicates FoundInPlace CommandExact
PROPERTY Terminates
CHECK_DEADLOCK FALSE
