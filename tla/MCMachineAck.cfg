SPECIFICATION Spec
CONSTANTS
  Chars = {a}
  Disks = {1, 2, 4}
  Connected = {1}
  MaxKeys = 1
PROPERTIES
  AckedIsHandled
CHECK_DEADLOCK FALSE
