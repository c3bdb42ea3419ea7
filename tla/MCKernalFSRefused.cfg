SPECIFICATION Spec
CONSTANTS
  LastSlot = 3
  MAX_FILES_PER_DIR = 2
  Names = {f, g}
  NoEntry = NoEntry
  Gone = Gone
  FileData = FileData
  Absent = Absent
  Misread <- OneLook
  Foreign = FALSE
  f = f
  g = g
PROPERTIES
  OwnIsAccepted
CHECK_DEADLOCK FALSE
