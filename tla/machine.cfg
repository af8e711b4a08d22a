SPECIFICATION MCSpec
CONSTANTS
  Vector = {6, 13, 17, 19, 32, 40, 60}
  Drivers = {d1}
  NULL = NULL
  MaxCalls = 2
  QSize = 5
  Times = {1, 2, 3}
  NsBits = 4
  MaxSleeps = 6
  Errors = {0, 1}
  Machines <- MCMachines
  Entries = 4
  MadtSz = 44
  Room = 2
  Slots = 6
  Ports = 4
  BiosNs = 1
  ResetNs = 3
  NONE = NONE
INVARIANTS ResumesIntact EventsKept MarkersReachable FindsNext RouteOwned DevicesFit PortsReady
PROPERTIES BootEnds
CHECK_DEADLOCK FALSE
