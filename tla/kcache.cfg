SPECIFICATION FairSpec
CONSTANTS
  internal = internal
  marker = marker
  ahci = ahci
  ticket = ticket
  Cache <- Caches
  Internal <- internal
  Marker <- marker
  BufferCount <- Counts
  WordBits = 4
  IntBits = 2
  Redzone <- RedzoneBits
  MaxSlabs = 3
  MaxBuffers = 8
INVARIANTS BufferOnce FullServed RedzoneKept
PROPERTIES CallEnds
CHECK_DEADLOCK FALSE
