-------------------------- MODULE TelemetryProtocol --------------------------
(***************************************************************************)
(* The messages of the UDP telemetry protocol, as decodeMessage() of       *)
(* src/protocol/device_snapshot.cpp lets them through: an interval outside *)
(* 1..5, a null identifier or a negative sequence never reaches a handler. *)
(*                                                                         *)
(* display_name is left out: it is shown and never compared.  The metrics  *)
(* of a snapshot are named by its sequence number, so that metrics of one  *)
(* snapshot can be told from those of another.                             *)
(***************************************************************************)
EXTENDS Integers, Sequences

CONSTANTS
  DeviceIds,    \* persistent device_id values
  Instances,    \* per-process instance_id values
  NoInstance,   \* the null QUuid
  Addresses,    \* IP addresses of senders
  Ports,        \* UDP ports of senders
  SystemInfos,  \* contents of system_info
  MaxInterval,  \* largest interval_s (5)
  MaxSequence   \* bound on the sequence numbers explored

ASSUME ProtocolAssumption ==
  /\ NoInstance \notin Instances
  /\ Ports \subseteq Nat \ {0}
  /\ MaxInterval \in Nat \ {0}
  /\ MaxSequence \in Nat

NoMetrics == -2  \* the optional metrics field is absent

Intervals == 1..MaxInterval
Sequences == 0..MaxSequence

Hello == [id: DeviceIds, instance: Instances, interval: Intervals, info: SystemInfos]

\* A snapshot carries its own metrics or, when collecting them failed, none.
Snapshot ==
  {s \in [id: DeviceIds, instance: Instances, interval: Intervals, info: SystemInfos,
          sequence: Sequences, metrics: Sequences \cup {NoMetrics}] :
     s.metrics \in {s.sequence, NoMetrics}}

Reasons == {"", "duplicate_device_id", "registry_full"}

RegistrationResult ==
  [id: DeviceIds, instance: Instances, accepted: BOOLEAN, reason: Reasons]
=============================================================================
