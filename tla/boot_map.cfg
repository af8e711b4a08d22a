SPECIFICATION MCSpec
CONSTANTS
  Index = {0, 1}
  Virt <- MCVirt
  Phys = {10, 11}
  Tables = {1, 2, 3, 4, 5, 6, 7}
  Root = 1
  Caching = {"none", "uc", "wt"}
  Images <- MCImages
  MaxMaps = 0
  Firmware <- AdjacentFirmware
  PAGE_SZ = 2
  First = 2
  Grow = 2
INVARIANT MapFaithful

CHECK_DEADLOCK FALSE
