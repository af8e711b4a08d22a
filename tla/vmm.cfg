SPECIFICATION Spec
CONSTANTS
  PageSz = 2
  Sizes <- PageSizes
  MinPages <- Mins
  Devices <- Bars
  Pat <- Uncached
  Unaligned <- InsidePage
  Ram = 60
  TablePages = 2
  MaxMarkers = 5
  MaxPage = 12
INVARIANTS RangesDisjoint DeviceMapped
PROPERTIES PagesStay
CHECK_DEADLOCK FALSE
