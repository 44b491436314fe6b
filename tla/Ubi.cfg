SPECIFICATION Spec
CONSTANTS
  UBI_EDITOR_CACHE_PEB_NUMBERS = 2
  Images <- MCImages
  MaxFaults = 1
  NONE = NONE
  JUNK = JUNK
  Systems <- MCSystems
  fanout = 5
  UBIFS_S_KEY_HASH_MASK = 7
  UBIFS_BLOCK_SIZE = 2
  OffsetRange = 6
  AskedLebs = {0, 2, 3, 7}
  AskedPebs = {0, 3, 9}
INVARIANTS TypeOK CacheExact LookupExact WalksExact
PROPERTY Ended
CHECK_DEADLOCK FALSE
