----------------------- MODULE MCRemoteDeviceRegistry -----------------------
(***************************************************************************)
(* The registry alone, under every sequence of calls.                      *)
(***************************************************************************)
EXTENDS RemoteDeviceRegistry

Symmetry ==
  Permutations(DeviceIds) \cup Permutations(Instances) \cup Permutations(Addresses)
=============================================================================
