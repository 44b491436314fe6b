SPECIFICATION Spec
CONSTANTS
  Volumes <- MCVolumes
  Commands <- MCCommands
  BlkUnits = 2
  WrapBlocks = 40
  INDIRECT_BLOCKS = 2
  SymlinkUnits = 2
  InlineUnits = 3
  SQUASHFS_METADATA_SIZE = 4
  InodeWrap = 100
  InoCell = 41
  StartBlocks = 500
  Word = 256
  FDT_MAX_DEPTH = 5
  FDT_EDITOR_MAX_DTB_SIZE = 8
  MaxCells = 6
  Externs <- MCExterns
  Offsets <- MCOffsets
  References <- MCReferences
  Fragments <- MCFragments
  NumberOf <- MCNumberOf
  NumberText <- MCNumberText
  BoardNames <- MCBoardNames
  DtHeaderUnits = 2
  DtEntryUnits = 1
  DT_TABLE_DEFAULT_PAGE_SIZE = 2048
  SHA1_Message_Block_Size = 4
  LengthSize = 1
  MaxLength = 1000
  PageSizes <- MCPageSizes
  NameUnits = 4
  DdUnits = 4
  Stale <- MCStale
INVARIANTS TypeOK ListExact UnpackExact SparseExact QueriesExact StructuresExact TreeExact RepackExact
PROPERTY Ends
