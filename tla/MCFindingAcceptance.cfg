SPECIFICATION Spec
CONSTANTS
  d1 = d1
  h1 = h1
  h2 = h2
  s1 = s1
  DeviceIds = {d1}
  Addresses = {h1, h2}
  Ports = {1}
  SystemInfos = {s1}
  Instances <- MCInstances
  NoInstance = NoInstance
  NoAddress = NoAddress
  Identity <- MCClonedIdentity
  Interval <- MCTwoIntervals
  Info <- MCInfo
  HasF5 = {d1}
  MaxInterval = 2
  MaxSequence = 0
  MaxStarts = 1
  MaximumDevices = 1
  StaleIntervals = 1
  OfflineIntervals = 2
PROPERTIES
  SnapshotNeedsAcceptance
