SPECIFICATION Spec
CONSTANTS
  Names = {a, b}
  Sizes = {1, 3}
  BLOCK = 2
  MAX_FILES_PER_DIR = 2
  LastSector = 14
  MaxWrites = 3
  Nothing = Nothing
  NoListing = NoListing
  Unknown = Unknown
  a = a
  b = b
INVARIANT
  UpdatesAreWhole
CHECK_DEADLOCK FALSE
