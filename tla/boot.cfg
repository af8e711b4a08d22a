SPECIFICATION MCSpec
CONSTANTS
  Index = {0, 1}
  Virt <- MCVirt
  Phys = {10, 11}
  Tables = {1, 2, 3, 4, 5, 6, 7}
  Root = 1
  Caching = {"none", "uc", "wt"}
  Images <- MCImages
  MaxMaps = 3
  Firmware <- AllFirmware
  PAGE_SZ = 2
  First = 2
  Grow = 2
INVARIANTS SegmentsMapped AllocFits StartsTold
PROPERTIES IsPageMap PageLeads
CHECK_DEADLOCK FALSE
