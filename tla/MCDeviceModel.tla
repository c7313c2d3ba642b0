---------------------------- MODULE MCDeviceModel ----------------------------
(***************************************************************************)
(* The registry at its capacity with the device model that shows it.       *)
(***************************************************************************)
EXTENDS DeviceModel

Symmetry ==
  Permutations(DeviceIds) \cup Permutations(Instances) \cup Permutations(SystemInfos)
=============================================================================
