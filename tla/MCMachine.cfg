SPECIFICATION FairSpec
CONSTANTS
  Chars = {a, b}
  Disks = {1, 2, 4}
  Connected = {1}
  MaxKeys = 4
INVARIANTS
  TypeOK
  ResultIsRight
  ActsAreCaused
PROPERTIES
  RequestReturns
  IdleKeyTyped
  IrqIsServed
CHECK_DEADLOCK FALSE
