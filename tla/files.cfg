SPECIFICATION MCSpec
CONSTANTS
  ka = ka
  kb = kb
  kc = kc
  kd = kd
  Key = {ka, kb, kc, kd}
  Data = {1, 2}
  Bucket = {0, 1}
  HashOf <- Hash
  NoKey = NoKey
  NoData = 0
  Junk = Junk
  Trees <- HostTrees
  HeaderSz = 6
  FileSz = 12
  RootNames = {"R", "S"}
  RBucket = {"R"}
  Handles = {h1, h2}
  SizeBits = 2
  RefBits = 2
INVARIANTS NamesFound Placed ReferencesMatch
PROPERTIES OthersKept
CHECK_DEADLOCK FALSE
