SPECIFICATION FairSpec
CONSTANTS
  DataSz = 2
  RdzSz = 1
  PageSz = 8
  ExtraPages = 1
  HeapBase = 25
  HeapSize = 24
  VmBase = 9
  Sizes <- BootSizes
  Calls <- BootCalls
  SameSize = TRUE
  BorderEarly = FALSE
  MemcpyOK = FALSE
INVARIANTS BlocksDisjoint
PROPERTIES CallEnds
CHECK_DEADLOCK FALSE
