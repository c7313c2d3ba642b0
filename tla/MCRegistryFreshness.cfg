SPECIFICATION RegistrySpec
CONSTANTS
  DeviceIds = {d1, d2}
  Instances = {i1, i2}
  Addresses = {a1, a2}
  Ports = {1}
  SystemInfos = {s1}
  NoInstance = NoInstance
  NoAddress = NoAddress
  MaxInterval = 2
  MaxSequence = 1
  MaximumDevices = 1
  StaleIntervals = 3
  OfflineIntervals = 10
INVARIANTS
  RegistryTypeOK
  RegistrationConsistent
PROPERTIES
  SnapshotsOnlyMoveForward
  TakeoverOnlyWhenOffline
  SilentDevicesGoOffline
