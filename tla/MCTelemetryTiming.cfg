SPECIFICATION MCSpec
CONSTANTS
  d1 = d1
  h1 = h1
  h2 = h2
  s1 = s1
  DeviceIds = {d1}
  Addresses = {h1, h2}
  Ports = {1, 2}
  SystemInfos = {s1}
  Instances <- MCInstances
  NoInstance = NoInstance
  NoAddress = NoAddress
  Identity <- MCIdentity
  Interval <- MCInterval
  Info <- MCInfo
  HasF5 = {}
  MaxInterval = 2
  MaxSequence = 2
  MaxStarts = 1
  MaximumDevices = 1
  StaleIntervals = 3
  OfflineIntervals = 10
  ReplySeconds = 2
  RetrySeconds = 10
  MaxFaults = 2
INVARIANTS
  HealthyDeviceStaysOnline
  OneFaultCostsOneTurn
PROPERTIES
  SnapshotsGetThrough
