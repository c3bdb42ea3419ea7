SPECIFICATION Spec
CONSTANTS
  PROGRAM_MEM_BASE = 2
  PROGRAM_MEM_SZ = 8
  KERNAL_MEM_BASE = 12
  MEMORY_SIZE = 14
  REGISTERS = 2
  MAPPED = 136
  Data = {0, 1}
  Selects <- MCSelects
  MaxBytes = 1
INVARIANTS
  TypeOK
  StraysNeedHighBank
PROPERTIES
  ImplementsStore
  OnlyTopByteWritten
CHECK_DEADLOCK FALSE
