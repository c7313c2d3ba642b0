--------------------------- MODULE TelemetrySystem ---------------------------
(***************************************************************************)
(* Daemons and dashboard joined by UDP.  The network holds every datagram  *)
(* ever sent and may deliver any of them at any time, any number of times  *)
(* or never: loss, duplication, delay and reordering.  A reply reaches the *)
(* socket that is bound to its destination port when it is delivered,      *)
(* which need not be the socket that sent the hello.                       *)
(*                                                                         *)
(* UdpTelemetryReceiver::processPendingDatagrams() handles one datagram    *)
(* after the other on the GUI thread.  Its packet counters are statistics  *)
(* and left out; what it cannot decode changes nothing else.               *)
(***************************************************************************)
EXTENDS RemoteDeviceRegistry, DashboardDaemon

VARIABLE network

vars == <<devices, storage, diagnostic, daemon, network>>

\* A datagram and the endpoint at the daemon's side of it: the source of a
\* hello or a snapshot, the destination of a reply.
Datagram(type, body, address, port) ==
  [type |-> type, body |-> body, address |-> address, port |-> port]

Datagrams ==
  [type: {"hello"}, body: Hello, address: Addresses, port: Ports] \cup
  [type: {"snapshot"}, body: Snapshot, address: Addresses, port: Ports] \cup
  [type: {"result"}, body: RegistrationResult, address: Addresses, port: Ports]

Init ==
  /\ RegistryInit
  /\ DaemonInit
  /\ network = {}
-----------------------------------------------------------------------------
(* The dashboard.  rest is what the network keeps of the datagrams in flight. *)

ResultOf(hello, reason) ==
  [id |-> hello.id, instance |-> hello.instance, accepted |-> reason = "", reason |-> reason]

ReceiveHello(m, rest) ==
  /\ m.type = "hello"
  /\ \E reason \in Reasons :
       /\ RegisterHello(m.body, m.address, m.port, reason)
       /\ network' = rest \cup {Datagram("result", ResultOf(m.body, reason), m.address, m.port)}
  /\ UNCHANGED daemon

ReceiveSnapshot(m, rest) ==
  /\ m.type = "snapshot"
  /\ \E accepted \in BOOLEAN : AcceptSnapshot(m.body, m.address, m.port, accepted)
  /\ network' = rest
  /\ UNCHANGED daemon

Dashboard ==
  \/ \E m \in network : ReceiveHello(m, network) \/ ReceiveSnapshot(m, network)
  \/ /\ \/ FreshnessTimer
        \/ \E id \in DeviceIds : ForgetDevice(id)
        \/ Restart
        \/ Tick
     /\ UNCHANGED <<daemon, network>>
-----------------------------------------------------------------------------
(* The daemons *)

DaemonSendHello(h, port) ==
  /\ network' = network \cup {Datagram("hello", HelloOf(h), h, port)}
  /\ SendHello(h, port)
  /\ UNCHANGED registryVars

AddressedTo(m, h) ==
  m.type = "result" /\ m.address = h /\ m.port = daemon[h].port

DaemonReceive(m, h, rest) ==
  /\ AddressedTo(m, h)
  /\ \/ /\ ReplyAccepted(h, m.body)
        /\ \E metrics \in {daemon[h].sequence, NoMetrics} :
             network' = rest \cup {Datagram("snapshot", SnapshotOf(h, metrics), h, m.port)}
     \/ /\ ReplyRejected(h, m.body)
        /\ network' = rest
  /\ UNCHANGED registryVars

DaemonOnly(h) ==
  /\ Start(h) \/ Crash(h) \/ ResolveFails(h) \/ ReplyTimeout(h) \/ Wake(h)
  /\ UNCHANGED <<devices, storage, diagnostic, network>>

Daemon(h) ==
  \/ \E port \in Ports : DaemonSendHello(h, port)
  \/ \E m \in network : DaemonReceive(m, h, network)
  \/ DaemonOnly(h)

Next ==
  \/ Dashboard
  \/ \E h \in Addresses : Daemon(h)

Spec == Init /\ [][Next]_vars
-----------------------------------------------------------------------------
(* Properties *)

\* Type invariant of the composed system.
TypeOK ==
  /\ RegistryTypeOK
  /\ daemon \in [Addresses -> DaemonType]
  /\ network \subseteq Datagrams

\* Everything the dashboard shows of a device was measured by one process
\* of a host with that identity: some daemon sent a snapshot with that instance, sequence
\* number, metrics and source address.
ShownDataWasSent ==
  \A i \in DOMAIN devices :
    devices[i].sequence # None =>
      \E m \in network :
        /\ m.type = "snapshot"
        /\ m.address = devices[i].address
        /\ m.body.id = devices[i].id
        /\ m.body.instance = devices[i].instance
        /\ m.body.sequence = devices[i].sequence
        /\ m.body.metrics = devices[i].metrics

\* A sequence number of an instance names one measurement: across crashes,
\* late replies and retries no daemon sends two different snapshots under it.
SequenceNamesOneSnapshot ==
  \A m, n \in network :
    (/\ m.type = "snapshot" /\ n.type = "snapshot"
     /\ m.body.instance = n.body.instance
     /\ m.body.sequence = n.body.sequence) => m = n

\* The life of a device as the registry records it.
LifeOf(id) ==
  IF Unknown(devices, id)
  THEN [state |-> "Unregistered", instance |-> NoInstance, sequence |-> None]
  ELSE LET d == devices[CHOOSE i \in DOMAIN devices : devices[i].id = id]
       IN [state |-> d.state, instance |-> d.instance, sequence |-> d.sequence]

Lifecycle == INSTANCE DeviceLifecycle WITH life <- [id \in DeviceIds |-> LifeOf(id)]

\* On any network the registry and the daemons implement the promised
\* lifecycle: in particular, a device becomes fresher, or shows other data, only by a
\* newer snapshot of the process it is registered to.
FollowsLifecycle == Lifecycle!Spec
-----------------------------------------------------------------------------
(* What the documents say, and what the code does not do *)

\* "The daemon waits for accepted registration before snapshots": a snapshot
\* is sent only in answer to an acceptance of the sending instance.
SnapshotNeedsAcceptance ==
  [][\A s \in network' \ network :
       s.type = "snapshot" =>
         \E m \in network :
           /\ m.type = "result"
           /\ m.body.accepted
           /\ m.body.instance = s.body.instance]_vars

\* "explicit rejection [is] fatal": a daemon that gets a rejection stops.
RejectionIsFatal ==
  [][\A h \in Addresses :
       (\E m \in network : AddressedTo(m, h) /\ ReplyRejected(h, m.body)) =>
         daemon'[h].pc = "stopped"]_vars

\* "A new instance from the same IP replaces the old instance": once a newer
\* process of a host is registered, an older one of that host is not registered again.
NewInstanceStaysRegistered ==
  [][\A i \in DOMAIN devices, j \in DOMAIN devices' :
       (/\ devices[i].id = devices'[j].id
        /\ devices[i].address = devices'[j].address
        /\ NoInstance \notin {devices[i].instance, devices'[j].instance}) =>
         devices'[j].instance[2] >= devices[i].instance[2]]_vars
=============================================================================
