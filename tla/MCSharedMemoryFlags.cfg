SPECIFICATION Spec
CONSTANTS
  d1 = d1
  d2 = d2
  Debuggers = {d1}
  Emulator = emu
  Instructions <- MCInstructions
  MayCrash = {}
  MaxBoots = 1
INVARIANT StoppedIsVisible
CHECK_DEADLOCK FALSE
