SPECIFICATION Spec
CONSTANTS
  Half = 4
  Code <- MCCode
  NmiVector = 60
  ResetVector = 1
  IrqVector = 41
  Data <- MCData
  NmiDepth = 3
INVARIANTS
  TypeOK
  CarryIsExact
  ComparisonHolds
PROPERTIES
  ReturnsAreExact
CHECK_DEADLOCK FALSE
