SPECIFICATION Spec
CONSTANTS
  Byte = 8
  Len = 3
  Width = 3
  LastRow = 2
  NameLen = 2
  Chars = {a}
  Zero = Zero
  Blank = Blank
  a = a
INVARIANTS
  TypeOK
  CursorIsIndex
  ScreenShowsLine
  OneIsLeftOver
  DrawsInside
CHECK_DEADLOCK FALSE
