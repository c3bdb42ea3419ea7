SPECIFICATION FairSpec
CONSTANTS
  Names = {a, b}
  Sizes = {1, 2, 3, 4, 5}
  BLOCK = 2
  MAX_FILES_PER_DIR = 2
  LastSector = 14
  MaxWrites = 3
  Nothing = Nothing
  NoListing = NoListing
  Unknown = Unknown
  a = a
  b = b
INVARIANTS
  TypeOK
  FilesReadBack
  AllocationIsSound
  DiskIsSound
PROPERTIES
  OperationsEnd
CHECK_DEADLOCK FALSE
