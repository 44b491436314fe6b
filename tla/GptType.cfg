SPECIFICATION Spec
CONSTANTS
  LBA_BLKSZ = 512
  Mod32 = 8192
  GPT_MAX_NUM_PARTS = 2
  Mega = 4
  Giga = 16
  Text <- MCText
  Arg <- MCArg
  Base = {0, 1, 3}
  PARTITIONS_BUFFER = 12
  PARTS_ARGV = 4
  Bytes <- MCBytes
INVARIANT TypeIsKept
CHECK_DEADLOCK FALSE
