SPECIFICATION Spec
CONSTANTS
  DataSz = 2
  RdzSz = 1
  PageSz = 8
  ExtraPages = 1
  HeapBase = 25
  HeapSize = 12
  VmBase = 9
  Sizes <- SmallSizes
  Calls <- HeapCalls
  SameSize = FALSE
  BorderEarly = FALSE
  MemcpyOK = TRUE
INVARIANTS BlocksDisjoint HeapTiled NoPanic
PROPERTIES OthersUntouched
CHECK_DEADLOCK FALSE
