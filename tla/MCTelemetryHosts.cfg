SPECIFICATION MCSpec
CONSTANTS
  d1 = d1
  h1 = h1
  h2 = h2
  s1 = s1
  DeviceIds = {d1}
  Addresses = {h1, h2}
  Ports = {1}
  SystemInfos = {s1}
  Instances <- MCInstances
  NoInstance = NoInstance
  NoAddress = NoAddress
  Identity <- MCClonedIdentity
  Interval <- MCInterval
  Info <- MCInfo
  HasF5 = {}
  MaxInterval = 1
  MaxSequence = 1
  MaxStarts = 2
  MaximumDevices = 1
  StaleIntervals = 1
  OfflineIntervals = 2
INVARIANTS
  SequenceNamesOneSnapshot
  ShownDataWasSent
PROPERTIES
  FollowsLifecycle
