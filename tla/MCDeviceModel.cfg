SPECIFICATION ModelSpec
CONSTANTS
  DeviceIds = {d1, d2, d3}
  Instances = {i1, i2}
  Addresses = {a1}
  Ports = {1}
  SystemInfos = {s1, s2}
  NoInstance = NoInstance
  NoAddress = NoAddress
  MaxInterval = 1
  MaxSequence = 0
  MaximumDevices = 2
  StaleIntervals = 1
  OfflineIntervals = 2
INVARIANTS
  DevicesDistinctAndBounded
  DiskMatchesMemory
  ViewFollowsRegistry
SYMMETRY Symmetry
