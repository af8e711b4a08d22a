SPECIFICATION FFairSpec
CONSTANTS
  Item <- MCFrames
  Junk = Junk
  InitSizes <- Initial
  GrowSizes <- None
  ShrinkSizes <- None
  MaxBytes = 800
  CarefulShrink = TRUE
  Users <- Both
INVARIANTS FramesDistinct HangsNested NestedHangs
PROPERTIES FrameArrives
CHECK_DEADLOCK FALSE
