--------------------------- MODULE DashboardDaemon ---------------------------
(***************************************************************************)
(* dashboard-daemon, one process per monitored host: the loop of run() in  *)
(* daemon/src/daemon.cpp.  Every turn opens a fresh UDP socket, sends a    *)
(* hello, waits for a reply, sends one snapshot if the reply looks like an *)
(* acceptance, closes the socket and sleeps.                               *)
(*                                                                         *)
(* A host is its IP address.  Identity, interval and system information    *)
(* are read once per process; instance <<h, n>> is the n-th process on     *)
(* host h.  A failing socket() only starts the turn again and changes      *)
(* nothing, so it is not an action.  --once is left out.                   *)
(***************************************************************************)
EXTENDS TelemetryProtocol

CONSTANTS
  Identity,   \* [Addresses -> DeviceIds], the persisted identity of each host
  Interval,   \* [Addresses -> Intervals], interval_seconds of its configuration
  Info,       \* [Addresses -> SystemInfos]
  HasF5,      \* the device and instance ids that have a byte 0xf5
  MaxStarts   \* bound on the processes started per host

ASSUME DaemonAssumption ==
  /\ Identity \in [Addresses -> DeviceIds]
  /\ Interval \in [Addresses -> Intervals]
  /\ Info \in [Addresses -> SystemInfos]
  /\ MaxStarts \in Nat
  /\ Addresses \X (1..MaxStarts) \subseteq Instances

VARIABLE daemon  \* the process of each host

DaemonType ==
  [pc: {"stopped", "resolving", "waiting", "sleeping"}, starts: 0..MaxStarts,
   sequence: 0..(MaxSequence + 1), port: Ports \cup {0}]

DaemonInit ==
  daemon = [h \in Addresses |-> [pc |-> "stopped", starts |-> 0, sequence |-> 0, port |-> 0]]

Instance(h) == <<h, daemon[h].starts>>
-----------------------------------------------------------------------------
(* Messages *)

HelloOf(h) ==
  [id |-> Identity[h], instance |-> Instance(h), interval |-> Interval[h], info |-> Info[h]]

SnapshotOf(h, metrics) ==
  [id |-> Identity[h], instance |-> Instance(h), interval |-> Interval[h], info |-> Info[h],
   sequence |-> daemon[h].sequence, metrics |-> metrics]

\* std::find(response, response + n, 0xf5): true is encoded as 0xf5, but so may
\* be a byte of either identifier the reply echoes.
LooksAccepted(result) ==
  result.accepted \/ result.id \in HasF5 \/ result.instance \in HasF5
-----------------------------------------------------------------------------
(* Steps of the process on host h *)

\* systemd starts the service; a process has a fresh instance and counts from 0.
Start(h) ==
  /\ daemon[h].pc = "stopped"
  /\ daemon[h].starts < MaxStarts
  /\ daemon' = [daemon EXCEPT ![h] =
       [pc |-> "resolving", starts |-> @.starts + 1, sequence |-> 0, port |-> 0]]

Crash(h) ==
  /\ daemon[h].pc # "stopped"
  /\ daemon' = [daemon EXCEPT ![h].pc = "stopped", ![h].port = 0]

\* getaddrinfo() fails.
ResolveFails(h) ==
  /\ daemon[h].pc = "resolving"
  /\ daemon' = [daemon EXCEPT ![h].pc = "sleeping"]

SendHello(h, port) ==
  /\ daemon[h].pc = "resolving"
  /\ daemon[h].sequence <= MaxSequence
  /\ daemon' = [daemon EXCEPT ![h].pc = "waiting", ![h].port = port]

\* Faulty: the sequence number is not advanced.
ReplyAcceptedSameSequence(h, result) ==
  /\ daemon[h].pc = "waiting"
  /\ LooksAccepted(result)
  /\ daemon' = [daemon EXCEPT ![h].pc = "sleeping", ![h].port = 0]

\* recv() returns a reply that passes for an acceptance: a snapshot goes out.
ReplyAccepted(h, result) ==
  /\ daemon[h].pc = "waiting"
  /\ LooksAccepted(result)
  /\ daemon' = [daemon EXCEPT ![h].pc = "sleeping", ![h].port = 0, ![h].sequence = @ + 1]

ReplyRejected(h, result) ==
  /\ daemon[h].pc = "waiting"
  /\ ~ LooksAccepted(result)
  /\ daemon' = [daemon EXCEPT ![h].pc = "sleeping", ![h].port = 0]

\* SO_RCVTIMEO expires.
ReplyTimeout(h) ==
  /\ daemon[h].pc = "waiting"
  /\ daemon' = [daemon EXCEPT ![h].pc = "sleeping", ![h].port = 0]

Wake(h) ==
  /\ daemon[h].pc = "sleeping"
  /\ daemon' = [daemon EXCEPT ![h].pc = "resolving"]
=============================================================================
