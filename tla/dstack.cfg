SPECIFICATION Spec
CONSTANTS
  Item = {a, b}
  Junk = Junk
  InitSizes <- Sizes
  GrowSizes <- Steps
  ShrinkSizes <- Steps
  MaxBytes = 40
  CarefulShrink = TRUE
INVARIANTS StackInBlock
PROPERTIES IsLifo
CHECK_DEADLOCK FALSE
