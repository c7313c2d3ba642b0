SPECIFICATION MCSpec
CONSTANTS
  Uuids = {u1, u2, u3}
  Pids = {1, 2}
  Nothing = Nothing
  Garbage = Garbage
  WireMax = 2
  MaxVolumes = 2
  MaxInterfaces = 1
  MaxGpus = 2
  Interfaces = {3, 4, 5}
  Readings <- MCReadings
  MaxTicks = 2
  MaxCount = 1
  Word = 16
  Texts = {0, 1, 2, 4, 5, Disk, Intel, AMD, V3D}
  V3D = V3D
  Disk = Disk
  Longest = Longest
  Intel = Intel
  AMD = AMD
INVARIANTS
  OneIdentity
  RejectedOnlyForRepeatedCard
PROPERTIES
  ComesUp
  NeverOverstated
