SPECIFICATION FairSpec
CONSTANTS
  d1 = d1
  d2 = d2
  Debuggers = {d1, d2}
  Emulator = emu
  Instructions <- MCInstructions
  MayCrash = {d1, emu}
  MaxBoots = 2
INVARIANTS
  TypeOK
  MutualExclusion
  ExitReleases
PROPERTIES
  QuitCompletes
  DebuggersDrain
  LockIsMutex
CHECK_DEADLOCK FALSE
