SPECIFICATION Spec
CONSTANTS
  WordBits = 64
  IntBits = 32
  MaxOrder = 7
  BlockPg = 4
  End1MB = 256
  EndLow = 1000
  Map <- BigMap
  Reserved <- None
  Sizes <- BigSizes
  Types <- Zero
  Refills <- None
  Behind <- NoJunk
  FreeOrders <- None
  Short <- None
INVARIANTS BlocksDisjoint
CHECK_DEADLOCK FALSE
