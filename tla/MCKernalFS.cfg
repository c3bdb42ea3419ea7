SPECIFICATION FairSpec
CONSTANTS
  LastSlot = 4
  MAX_FILES_PER_DIR = 2
  Names = {f, g}
  NoEntry = NoEntry
  Gone = Gone
  FileData = FileData
  Absent = Absent
  Misread <- OneLook
  Foreign = TRUE
  f = f
  g = g
INVARIANTS
  TypeOK
  AllocatedIsCounted
  ListsWhatIsThere
PROPERTIES
  FilesKept
  CommandsReturn
CHECK_DEADLOCK FALSE
