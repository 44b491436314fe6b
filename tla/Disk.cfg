SPECIFICATION Spec
CONSTANTS
  GD_MAX_PARTITIONS = 2
  DISK_PARTITIONS_SCORE_WEAK = 10
  DISK_PARTITIONS_SCORE_GOOD = 80
  SECTOR_SIZE = 2
  Disks <- MCDisks
  MAX_EXT_PARTS = 3
  SectorMod = 16
  SeekMod = 4
  AddrMod = 64
  GptEntries <- MCGptEntries
  Mod32 = 8
INVARIANTS TypeOK MbrTableExact GptWins
PROPERTY DetectReturns
CHECK_DEADLOCK FALSE
