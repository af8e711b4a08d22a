SPECIFICATION Spec
CONSTANTS
  WordBits = 5
  IntBits = 3
  MaxOrder = 4
  BlockPg = 2
  End1MB = 8
  EndLow = 65
  Map <- SmallMap
  Reserved <- SmallUse
  Sizes <- SmallSizes
  Types <- AllTypes
  Refills <- SmallRefills
  Behind <- SmallJunk
  FreeOrders <- Zero
  Short <- Zero
INVARIANTS UnitsDisjoint ReservedKept RegionsKept
PROPERTIES InMemory
CHECK_DEADLOCK FALSE
