------------------------ MODULE TelemetrySystemProofs ------------------------
(***************************************************************************)
(* What holds of daemons and dashboard on any network, for any number of   *)
(* hosts, devices, processes and sequence numbers: the registry alone      *)
(* already keeps its own invariants (RemoteDeviceRegistryProofs); here it  *)
(* is shown what the daemons add, namely that what arrives was sent by the *)
(* host it claims to come from.                                            *)
(***************************************************************************)
EXTENDS TelemetrySystem, RemoteDeviceRegistryProofs

\* A process that runs has been started, and one that waits still has a number to use.
DaemonsInv(dm) ==
  /\ dm \in [Addresses -> DaemonType]
  /\ \A h \in Addresses :
       /\ dm[h].pc # "stopped" => dm[h].starts >= 1
       /\ dm[h].pc = "waiting" => dm[h].sequence <= MaxSequence

\* The instance, interval and identity of a process of a host.
OfHost(h, id, interval, instance, starts) ==
  /\ h \in Addresses
  /\ id = Identity[h]
  /\ interval = Interval[h]
  /\ \E n \in 1..starts : instance = <<h, n>>

\* A hello or a snapshot was sent by a process of the host it came from, and the running
\* process has not reached the number of its next snapshot.
SentBy(m, dm) ==
  /\ OfHost(m.address, m.body.id, m.body.interval, m.body.instance, dm[m.address].starts)
  /\ m.type = "snapshot" /\ m.body.instance = <<m.address, dm[m.address].starts>> =>
       m.body.sequence < dm[m.address].sequence

MessagesInv(net, dm) ==
  /\ net \subseteq Datagrams
  /\ \A m \in net : m.type # "result" => SentBy(m, dm)

\* No two snapshots share instance and sequence number.
NamesOneSnapshot(net) ==
  \A m, n \in net :
    (/\ m.type = "snapshot" /\ n.type = "snapshot"
     /\ m.body.instance = n.body.instance
     /\ m.body.sequence = n.body.sequence) => m = n

\* A snapshot in the network stands behind what is shown.
BackedBy(d, net) ==
  d.sequence # None =>
    \E m \in net :
      /\ m.type = "snapshot"
      /\ m.address = d.address
      /\ m.body.id = d.id
      /\ m.body.instance = d.instance
      /\ m.body.sequence = d.sequence
      /\ m.body.metrics = d.metrics

\* A registered device is a process of the host at its address.
Registered(d) ==
  d.instance # NoInstance =>
    /\ d.address \in Addresses
    /\ d.interval = Interval[d.address]
    /\ \E n \in Nat : d.instance = <<d.address, n>>

\* No device is shown staler than its data is.
NotShownStaler(d) ==
  d.age # None =>
    /\ d.state = "Stale" => d.age >= d.interval * StaleIntervals
    /\ d.state = "Offline" => d.age >= d.interval * OfflineIntervals

DevicesInv(ds, net) ==
  \A i \in DOMAIN ds : Registered(ds[i]) /\ NotShownStaler(ds[i]) /\ BackedBy(ds[i], net)

\* The inductive invariant.
SystemInv ==
  /\ RegistryInv
  /\ DaemonsInv(daemon)
  /\ MessagesInv(network, daemon)
  /\ NamesOneSnapshot(network)
  /\ DevicesInv(devices, network)
-----------------------------------------------------------------------------
(* Daemons and messages *)

LEMMA MessageTypes ==
  ASSUME NEW m \in Datagrams
  PROVE  /\ m.address \in Addresses /\ m.port \in Ports
         /\ m.type \in {"hello", "snapshot", "result"}
         /\ m.type = "hello" => m.body \in Hello
         /\ m.type = "snapshot" => m.body \in Snapshot
BY DEF Datagrams

\* A process never goes back to an earlier start or sequence number.
Grows(dm, dn) ==
  \A h \in Addresses :
    /\ dn[h].starts >= dm[h].starts
    /\ dn[h].starts = dm[h].starts => dn[h].sequence >= dm[h].sequence

LEMMA DaemonNumbers ==
  ASSUME NEW d \in DaemonType
  PROVE  d.starts \in Nat /\ d.starts <= MaxStarts /\ d.sequence \in Nat /\ d.sequence <= MaxSequence + 1
BY ProtocolAssumption, DaemonAssumption DEF DaemonType

\* A step of one process.
LEMMA OneProcess ==
  ASSUME NEW dm, DaemonsInv(dm), NEW h \in Addresses, NEW d \in DaemonType,
         d.pc # "stopped" => d.starts >= 1,
         d.pc = "waiting" => d.sequence <= MaxSequence,
         d.starts >= dm[h].starts,
         d.starts = dm[h].starts => d.sequence >= dm[h].sequence,
         NEW dn, dn = [dm EXCEPT ![h] = d]
  PROVE  DaemonsInv(dn) /\ Grows(dm, dn)
<1>1. dm \in [Addresses -> DaemonType]
  BY DEF DaemonsInv
<1>2. \A g \in Addresses : dm[g].starts \in Nat /\ dm[g].sequence \in Nat
  BY <1>1, DaemonNumbers
<1>3. dn \in [Addresses -> DaemonType] /\ \A g \in Addresses : dn[g] = IF g = h THEN d ELSE dm[g]
  BY <1>1
<1> QED
  BY <1>1, <1>2, <1>3 DEF DaemonsInv, Grows

LEMMA StartedProcess ==
  ASSUME DaemonsInv(daemon), NEW h \in Addresses, Start(h)
  PROVE  DaemonsInv(daemon') /\ Grows(daemon, daemon')
<1> DEFINE d == [pc |-> "resolving", starts |-> daemon[h].starts + 1, sequence |-> 0, port |-> 0]
<1>1. daemon[h] \in DaemonType /\ daemon[h].starts < MaxStarts /\ daemon' = [daemon EXCEPT ![h] = d]
  BY DEF Start, DaemonsInv
<1>2. d \in DaemonType /\ d.starts > daemon[h].starts /\ d.starts >= 1 /\ d.pc = "resolving"
  BY <1>1, ProtocolAssumption, DaemonAssumption DEF DaemonType
<1>3. daemon[h].starts \in Nat /\ d.starts \in Nat
  BY <1>1, <1>2, DaemonNumbers
<1> HIDE DEF d
<1>4. d.starts >= daemon[h].starts /\ d.starts # daemon[h].starts
  BY <1>2, <1>3
<1> QED
  BY <1>1, <1>2, <1>4, OneProcess

\* Every other step of a process keeps its instance and its number, or takes the next.
LEMMA RunningProcess ==
  ASSUME DaemonsInv(daemon), NEW h \in Addresses,
         \/ Crash(h)
         \/ ResolveFails(h)
         \/ \E port \in Ports : SendHello(h, port)
         \/ \E result : ReplyAccepted(h, result) \/ ReplyRejected(h, result)
         \/ ReplyTimeout(h)
         \/ Wake(h)
  PROVE  DaemonsInv(daemon') /\ Grows(daemon, daemon')
<1>1. daemon \in [Addresses -> DaemonType] /\ daemon[h] \in DaemonType
  BY DEF DaemonsInv
<1>2. /\ daemon[h].pc # "stopped" => daemon[h].starts >= 1
      /\ daemon[h].pc = "waiting" => daemon[h].sequence <= MaxSequence
  BY DEF DaemonsInv
<1>3. daemon[h].starts \in Nat /\ daemon[h].sequence \in Nat /\ MaxSequence \in Nat
  BY <1>1, DaemonNumbers, ProtocolAssumption
<1> DEFINE Next1(pc, port, sequence) ==
      [daemon[h] EXCEPT !.pc = pc, !.port = port, !.sequence = sequence]
<1>4. ASSUME NEW pc \in {"stopped", "resolving", "waiting", "sleeping"}, NEW port \in Ports \cup {0},
             NEW sequence \in {daemon[h].sequence, daemon[h].sequence + 1},
             pc # "stopped" => daemon[h].pc # "stopped",
             pc = "waiting" => sequence <= MaxSequence,
             sequence <= MaxSequence + 1,
             daemon' = [daemon EXCEPT ![h] = Next1(pc, port, sequence)]
      PROVE  DaemonsInv(daemon') /\ Grows(daemon, daemon')
  <2> DEFINE d == Next1(pc, port, sequence)
  <2>1. d \in DaemonType /\ d.pc = pc /\ d.starts = daemon[h].starts /\ d.sequence = sequence
    <3>1. sequence \in 0..(MaxSequence + 1)
      BY <1>3, <1>4
    <3> QED
      BY <1>1, <3>1 DEF DaemonType
  <2>2. daemon' = [daemon EXCEPT ![h] = d]
    BY <1>4
  <2> HIDE DEF d
  <2>3. d.starts >= daemon[h].starts /\ d.sequence >= daemon[h].sequence
    BY <1>3, <1>4, <2>1
  <2>4. /\ d.pc # "stopped" => d.starts >= 1
        /\ d.pc = "waiting" => d.sequence <= MaxSequence
    BY <1>2, <1>4, <2>1
  <2> QED
    BY <2>1, <2>2, <2>3, <2>4, OneProcess
<1>5. CASE Crash(h)
  <2>1. daemon' = [daemon EXCEPT ![h] = Next1("stopped", 0, daemon[h].sequence)]
    BY <1>1, <1>5 DEF Crash, DaemonType
  <2> QED
    BY <1>1, <1>4, <2>1, DaemonNumbers
<1>6. CASE ResolveFails(h) \/ Wake(h)
  <2>1. PICK pc \in {"resolving", "sleeping"} :
          daemon' = [daemon EXCEPT ![h] = Next1(pc, daemon[h].port, daemon[h].sequence)]
    BY <1>1, <1>6 DEF ResolveFails, Wake, DaemonType
  <2>2. daemon[h].pc # "stopped" /\ daemon[h].port \in Ports \cup {0}
    BY <1>1, <1>6 DEF ResolveFails, Wake, DaemonType
  <2> HIDE DEF Next1
  <2> QED
    BY <1>1, <1>4, <2>1, <2>2, DaemonNumbers
<1>7. CASE \E port \in Ports : SendHello(h, port)
  <2>1. PICK port \in Ports : SendHello(h, port)
    BY <1>7
  <2>2. daemon' = [daemon EXCEPT ![h] = Next1("waiting", port, daemon[h].sequence)]
    BY <1>1, <2>1 DEF SendHello, DaemonType
  <2>3. daemon[h].pc # "stopped" /\ daemon[h].sequence <= MaxSequence
    BY <2>1 DEF SendHello
  <2> HIDE DEF Next1
  <2> QED
    BY <1>1, <1>4, <2>2, <2>3, DaemonNumbers
<1>8. CASE \E result : ReplyAccepted(h, result)
  <2>1. daemon' = [daemon EXCEPT ![h] = Next1("sleeping", 0, daemon[h].sequence + 1)]
    BY <1>1, <1>8 DEF ReplyAccepted, DaemonType
  <2>2. daemon[h].pc = "waiting"
    BY <1>8 DEF ReplyAccepted
  <2>3. daemon[h].sequence + 1 <= MaxSequence + 1
    BY <1>2, <1>3, <2>2
  <2> HIDE DEF Next1
  <2> QED
    BY <1>4, <2>1, <2>2, <2>3
<1>9. CASE ReplyTimeout(h) \/ \E result : ReplyRejected(h, result)
  <2>1. daemon' = [daemon EXCEPT ![h] = Next1("sleeping", 0, daemon[h].sequence)]
    BY <1>1, <1>9 DEF ReplyTimeout, ReplyRejected, DaemonType
  <2>2. daemon[h].pc = "waiting"
    BY <1>9 DEF ReplyTimeout, ReplyRejected
  <2> HIDE DEF Next1
  <2> QED
    BY <1>1, <1>4, <2>1, <2>2, DaemonNumbers
<1> QED
  BY <1>5, <1>6, <1>7, <1>8, <1>9

\* What was sent stays true of the sender.
LEMMA StillSent ==
  ASSUME NEW dm, DaemonsInv(dm), NEW dn, DaemonsInv(dn), Grows(dm, dn),
         NEW m \in Datagrams, m.type # "result", SentBy(m, dm)
  PROVE  SentBy(m, dn)
<1> DEFINE h == m.address
<1>1. h \in Addresses /\ dm[h] \in DaemonType /\ dn[h] \in DaemonType
  BY MessageTypes DEF DaemonsInv
<1>2. /\ dm[h].starts \in Nat /\ dn[h].starts \in Nat
      /\ dm[h].sequence \in Nat /\ dn[h].sequence \in Nat
  BY <1>1, DaemonNumbers
<1>3. /\ dn[h].starts >= dm[h].starts
      /\ dn[h].starts = dm[h].starts => dn[h].sequence >= dm[h].sequence
  BY <1>1 DEF Grows
<1>4. PICK n \in 1..dm[h].starts : m.body.instance = <<h, n>>
  BY DEF SentBy, OfHost
<1>5. n \in 1..dn[h].starts
  BY <1>2, <1>3
<1>6. m.type = "snapshot" => m.body.sequence \in Nat
  BY MessageTypes, ProtocolAssumption DEF Snapshot, Sequences
<1>7. ASSUME m.type = "snapshot", m.body.instance = <<h, dn[h].starts>>
      PROVE  m.body.sequence < dn[h].sequence
  <2>1. n = dn[h].starts
    BY <1>4, <1>7
  <2>2. dn[h].starts = dm[h].starts
    BY <1>2, <1>3, <2>1
  <2>3. m.body.sequence < dm[h].sequence
    BY <1>7, <2>2 DEF SentBy
  <2> QED
    BY <1>2, <1>3, <1>6, <1>7, <2>2, <2>3
<1> QED
  BY <1>1, <1>4, <1>5, <1>7 DEF SentBy, OfHost

LEMMA RunningInstance ==
  ASSUME DaemonsInv(daemon), NEW h \in Addresses, daemon[h].pc # "stopped"
  PROVE  /\ Instance(h) \in Instances
         /\ OfHost(h, Identity[h], Interval[h], Instance(h), daemon[h].starts)
<1>1. daemon[h].starts \in 1..MaxStarts /\ daemon[h].starts \in Nat
  BY DaemonNumbers, DaemonAssumption DEF DaemonsInv
<1>2. Instance(h) = <<h, daemon[h].starts>> /\ daemon[h].starts \in 1..daemon[h].starts
  BY <1>1 DEF Instance
<1> QED
  BY <1>1, <1>2, DaemonAssumption DEF OfHost

\* Sending keeps what holds of the messages.
LEMMA SendKeepsMessages ==
  ASSUME NEW net, NEW dm, NEW dn, MessagesInv(net, dm), DaemonsInv(dm), DaemonsInv(dn),
         Grows(dm, dn), NEW m \in Datagrams, m.type # "result" => SentBy(m, dn)
  PROVE  MessagesInv(net \cup {m}, dn)
BY StillSent DEF MessagesInv

LEMMA WaitKeepsMessages ==
  ASSUME NEW net, NEW dm, NEW dn, MessagesInv(net, dm), DaemonsInv(dm), DaemonsInv(dn), Grows(dm, dn)
  PROVE  MessagesInv(net, dn)
BY StillSent DEF MessagesInv

\* What a step of the processes and of the network must do for the invariant.
NetworkStep ==
  /\ DaemonsInv(daemon')
  /\ MessagesInv(network', daemon')
  /\ NamesOneSnapshot(network')
  /\ network \subseteq network'

LEMMA SendHelloStep ==
  ASSUME SystemInv, NEW h \in Addresses, NEW port \in Ports, DaemonSendHello(h, port)
  PROVE  NetworkStep
<1> DEFINE m == Datagram("hello", HelloOf(h), h, port)
<1>1. DaemonsInv(daemon) /\ MessagesInv(network, daemon) /\ NamesOneSnapshot(network)
  BY DEF SystemInv
<1>2. SendHello(h, port) /\ network' = network \cup {m} /\ daemon[h].pc # "stopped"
  BY DEF DaemonSendHello, SendHello
<1>3. DaemonsInv(daemon') /\ Grows(daemon, daemon')
  BY <1>1, <1>2, RunningProcess
<1>4. /\ Instance(h) \in Instances
      /\ OfHost(h, Identity[h], Interval[h], Instance(h), daemon[h].starts)
  BY <1>1, <1>2, RunningInstance
<1>5. HelloOf(h) \in Hello
  BY <1>4, DaemonAssumption DEF HelloOf, Hello
<1>6. /\ m \in Datagrams /\ m.type = "hello" /\ m.address = h
      /\ m.body.id = Identity[h] /\ m.body.interval = Interval[h] /\ m.body.instance = Instance(h)
  BY <1>5 DEF Datagram, Datagrams, HelloOf
<1> HIDE DEF m
<1>7. SentBy(m, daemon)
  BY <1>4, <1>6 DEF SentBy
<1>8. SentBy(m, daemon')
  BY <1>1, <1>3, <1>6, <1>7, StillSent
<1>9. MessagesInv(network', daemon')
  BY <1>1, <1>2, <1>3, <1>6, <1>8, SendKeepsMessages
<1>10. NamesOneSnapshot(network')
  BY <1>1, <1>2, <1>6 DEF NamesOneSnapshot
<1> QED
  BY <1>2, <1>3, <1>9, <1>10 DEF NetworkStep

\* The snapshot that goes out has a number no snapshot of the process had before.
LEMMA ReplyStep ==
  ASSUME SystemInv, NEW h \in Addresses, NEW r \in network, DaemonReceive(r, h, network)
  PROVE  NetworkStep
<1>1. DaemonsInv(daemon) /\ MessagesInv(network, daemon) /\ NamesOneSnapshot(network)
  BY DEF SystemInv
<1>2. CASE ReplyRejected(h, r.body) /\ network' = network
  <2>1. DaemonsInv(daemon') /\ Grows(daemon, daemon')
    BY <1>1, <1>2, RunningProcess
  <2> QED
    BY <1>1, <1>2, <2>1, WaitKeepsMessages DEF NetworkStep
<1>3. CASE /\ ReplyAccepted(h, r.body)
           /\ \E metrics \in {daemon[h].sequence, NoMetrics} :
                network' = network \cup {Datagram("snapshot", SnapshotOf(h, metrics), h, r.port)}
  <2>1. PICK metrics \in {daemon[h].sequence, NoMetrics} :
               network' = network \cup {Datagram("snapshot", SnapshotOf(h, metrics), h, r.port)}
    BY <1>3
  <2> DEFINE m == Datagram("snapshot", SnapshotOf(h, metrics), h, r.port)
  <2>2. DaemonsInv(daemon') /\ Grows(daemon, daemon')
    BY <1>1, <1>3, RunningProcess
  <2>3. daemon[h].pc = "waiting"
    BY <1>3 DEF ReplyAccepted
  <2>4. /\ Instance(h) \in Instances
        /\ OfHost(h, Identity[h], Interval[h], Instance(h), daemon[h].starts)
    BY <1>1, <2>3, RunningInstance
  <2>5. daemon \in [Addresses -> DaemonType] /\ daemon[h].sequence \in Nat
        /\ daemon[h].sequence \in Sequences
    BY <1>1, <2>3, DaemonNumbers, ProtocolAssumption DEF DaemonsInv, Sequences
  <2>6. r.port \in Ports
    BY <1>1, MessageTypes DEF MessagesInv
  <2>7. SnapshotOf(h, metrics) \in Snapshot
    BY <2>1, <2>4, <2>5, DaemonAssumption DEF SnapshotOf, Snapshot
  <2>8. /\ m \in Datagrams /\ m.type = "snapshot" /\ m.address = h
        /\ m.body.id = Identity[h] /\ m.body.interval = Interval[h]
        /\ m.body.instance = Instance(h) /\ m.body.sequence = daemon[h].sequence
    BY <2>6, <2>7 DEF Datagram, Datagrams, SnapshotOf
  <2> HIDE DEF m
  <2>9. network' = network \cup {m}
    BY <2>1 DEF m
  <2>10. daemon'[h].starts = daemon[h].starts /\ daemon'[h].sequence = daemon[h].sequence + 1
    BY <1>3, <2>5 DEF ReplyAccepted, DaemonType
  <2>11. SentBy(m, daemon')
    BY <2>4, <2>5, <2>8, <2>10 DEF SentBy
  <2>12. MessagesInv(network', daemon')
    BY <1>1, <2>2, <2>8, <2>9, <2>11, SendKeepsMessages
  <2>13. ASSUME NEW n \in network, n.type = "snapshot", n.body.instance = m.body.instance
         PROVE  n.body.sequence # m.body.sequence
    <3>1. n \in Datagrams /\ SentBy(n, daemon)
      BY <1>1, <2>13 DEF MessagesInv
    <3>2. n.body.instance = <<n.address, daemon[n.address].starts>> =>
            n.body.sequence < daemon[n.address].sequence
      BY <2>13, <3>1 DEF SentBy
    <3>3. \E k : n.body.instance = <<n.address, k>>
      BY <3>1 DEF SentBy, OfHost
    <3>4. n.address = h
      BY <2>8, <2>13, <3>3 DEF Instance
    <3>5. n.body.sequence < daemon[h].sequence
      BY <2>8, <2>13, <3>2, <3>4 DEF Instance
    <3>6. n.body.sequence \in Nat
      BY <2>13, <3>1, MessageTypes, ProtocolAssumption DEF Snapshot, Sequences
    <3> QED
      BY <2>5, <2>8, <3>5, <3>6
  <2>14. NamesOneSnapshot(network')
    BY <1>1, <2>9, <2>13 DEF NamesOneSnapshot
  <2> QED
    BY <2>2, <2>9, <2>12, <2>14 DEF NetworkStep
<1> QED
  BY <1>2, <1>3 DEF DaemonReceive

LEMMA ProcessStep ==
  ASSUME SystemInv, NEW h \in Addresses, DaemonOnly(h)
  PROVE  NetworkStep
<1>1. DaemonsInv(daemon) /\ MessagesInv(network, daemon) /\ NamesOneSnapshot(network)
  BY DEF SystemInv
<1>2. DaemonsInv(daemon') /\ Grows(daemon, daemon')
  BY <1>1, StartedProcess, RunningProcess DEF DaemonOnly
<1>3. network' = network
  BY DEF DaemonOnly
<1> QED
  BY <1>1, <1>2, <1>3, WaitKeepsMessages DEF NetworkStep

LEMMA DashboardNetworkStep ==
  ASSUME SystemInv, Dashboard
  PROVE  NetworkStep
<1>1. DaemonsInv(daemon) /\ MessagesInv(network, daemon) /\ NamesOneSnapshot(network)
  BY DEF SystemInv
<1>2. ASSUME NEW m \in network, ReceiveHello(m, network)
      PROVE  NetworkStep
  <2>1. PICK reason \in Reasons :
          network' = network \cup {Datagram("result", ResultOf(m.body, reason), m.address, m.port)}
    BY <1>2 DEF ReceiveHello
  <2>2. daemon' = daemon /\ m.type = "hello"
    BY <1>2 DEF ReceiveHello
  <2> DEFINE accepted == reason = ""
  <2> DEFINE r == Datagram("result", ResultOf(m.body, reason), m.address, m.port)
  <2>3. m.body \in Hello /\ m.address \in Addresses /\ m.port \in Ports
    BY <1>1, <2>2, MessageTypes DEF MessagesInv
  <2>4. accepted \in BOOLEAN
    OBVIOUS
  <2>5. ResultOf(m.body, reason) =
          [id |-> m.body.id, instance |-> m.body.instance, accepted |-> accepted, reason |-> reason]
    BY DEF ResultOf
  <2> HIDE DEF accepted
  <2>6. ResultOf(m.body, reason) \in RegistrationResult
    BY <2>3, <2>4, <2>5 DEF RegistrationResult, Hello
  <2>7. r \in Datagrams /\ r.type = "result"
    BY <2>3, <2>6 DEF Datagram, Datagrams
  <2> HIDE DEF r
  <2>8. network' = network \cup {r}
    BY <2>1 DEF r
  <2>9. MessagesInv(network', daemon')
    BY <1>1, <2>2, <2>7, <2>8 DEF MessagesInv
  <2>10. NamesOneSnapshot(network')
    BY <1>1, <2>7, <2>8 DEF NamesOneSnapshot
  <2> QED
    BY <1>1, <2>2, <2>8, <2>9, <2>10 DEF NetworkStep
<1>3. CASE UNCHANGED <<daemon, network>>
  BY <1>1, <1>3 DEF NetworkStep
<1> QED
  BY <1>2, <1>3 DEF Dashboard, ReceiveSnapshot
-----------------------------------------------------------------------------
(* The registry *)

\* Every step of the system is a step of the registry or leaves it alone.
LEMMA StepsOfRegistry ==
  ASSUME SystemInv, [Next]_vars
  PROVE  [RegistryNext]_registryVars
<1>1. \A m \in network : m \in Datagrams
  BY DEF SystemInv, MessagesInv
<1>2. ASSUME NEW m \in network, ReceiveHello(m, network)
      PROVE  RegistryNext
  BY <1>1, <1>2, MessageTypes DEF ReceiveHello, RegistryNext
<1>3. ASSUME NEW m \in network, ReceiveSnapshot(m, network)
      PROVE  RegistryNext
  BY <1>1, <1>3, MessageTypes DEF ReceiveSnapshot, RegistryNext
<1>4. CASE FreshnessTimer \/ (\E id \in DeviceIds : ForgetDevice(id)) \/ Restart \/ Tick
  BY <1>4 DEF RegistryNext
<1>5. ASSUME NEW h \in Addresses, Daemon(h)
      PROVE  UNCHANGED registryVars
  BY <1>5 DEF Daemon, DaemonSendHello, DaemonReceive, DaemonOnly, registryVars
<1>6. CASE UNCHANGED vars
  BY <1>6 DEF vars, registryVars
<1> QED
  BY <1>2, <1>3, <1>4, <1>5, <1>6 DEF Next, Dashboard

\* Only time passes for a device: it may be shown as what its age says.
Waits(d, e) ==
  /\ e.interval = d.interval
  /\ e.instance = d.instance
  /\ e.address = d.address
  /\ e.sequence = d.sequence
  /\ e.metrics = d.metrics
  /\ e.age = None <=> d.age = None
  /\ e.age >= d.age
  /\ \/ e.state = d.state
     \/ d.age # None /\ e.state = StateAt(d.age, d.interval)

\* A process has introduced itself.
Introduced(e) ==
  /\ e.state = "Registered"
  /\ e.instance \in Instances
  /\ Registered(e)
  /\ e.sequence = None
  /\ e.age = None

\* The registered process has delivered a newer snapshot.
Delivered(d, e, net) ==
  /\ d.instance \in Instances
  /\ e.interval = d.interval
  /\ e.instance = d.instance
  /\ e.address = d.address
  /\ e.sequence > d.sequence
  /\ e.state = "Online"
  /\ BackedBy(e, net)

OnlyStored(e) == Reloaded(e) /\ e.state = "Offline"

DeviceStep(e) ==
  \/ OnlyStored(e)
  \/ Unknown(devices, e.id) /\ Introduced(e)
  \/ \E i \in DOMAIN devices :
       /\ devices[i].id = e.id
       /\ \/ Waits(devices[i], e)
          \/ Introduced(e) /\ e.instance # devices[i].instance
          \/ Delivered(devices[i], e, network)

\* How the table may change in one step, device by device.
TableStep == \A j \in DOMAIN devices' : DeviceStep(devices'[j])

LEMMA FreshWaits ==
  ASSUME NEW d \in Device, DeviceConsistent(d)
  PROVE  Freshened(d).id = d.id /\ Waits(d, Freshened(d))
<1>1. d.age \in Int
  BY DeviceNumbers
<1>2. CASE d.age = None
  BY <1>1, <1>2 DEF Waits, Freshened
<1>3. CASE d.age # None
  <2> DEFINE st == StateAt(d.age, d.interval)
  <2>1. Freshened(d) = [d EXCEPT !.state = st]
    BY <1>3 DEF Freshened
  <2> HIDE DEF st
  <2>2. /\ Freshened(d).id = d.id /\ Freshened(d).interval = d.interval
        /\ Freshened(d).instance = d.instance /\ Freshened(d).address = d.address
        /\ Freshened(d).sequence = d.sequence /\ Freshened(d).metrics = d.metrics
        /\ Freshened(d).age = d.age /\ Freshened(d).state = st
    BY <2>1 DEF Device
  <2> QED
    BY <1>1, <1>3, <2>2 DEF Waits, st
<1> QED
  BY <1>2, <1>3

\* A hello from the network is of a process of the sending host.
LEMMA HelloOfHost ==
  ASSUME SystemInv, NEW m \in network, m.type = "hello"
  PROVE  /\ m.body \in Hello /\ m.address \in Addresses /\ m.port \in Ports
         /\ m.body.interval = Interval[m.address]
         /\ \E n \in Nat : m.body.instance = <<m.address, n>>
<1>1. m \in Datagrams /\ SentBy(m, daemon) /\ DaemonsInv(daemon)
  BY DEF SystemInv, MessagesInv
<1>2. m.body \in Hello /\ m.address \in Addresses /\ m.port \in Ports
  BY <1>1, MessageTypes
<1>3. daemon[m.address].starts \in Nat
  BY <1>1, <1>2, DaemonNumbers DEF DaemonsInv
<1>4. 1..daemon[m.address].starts \subseteq Nat
  BY <1>3
<1> QED
  BY <1>1, <1>2, <1>4 DEF SentBy, OfHost

LEMMA HelloTableStep ==
  ASSUME SystemInv, NEW m \in network, ReceiveHello(m, network)
  PROVE  TableStep
<1> DEFINE fresh == UpdateFreshness(devices)
<1> DEFINE hello == m.body
<1>1. /\ hello \in Hello /\ m.address \in Addresses /\ m.port \in Ports
      /\ hello.interval = Interval[m.address]
      /\ \E n \in Nat : hello.instance = <<m.address, n>>
  BY HelloOfHost DEF ReceiveHello
<1>2. PICK reason \in Reasons : RegisterHello(hello, m.address, m.port, reason)
  BY DEF ReceiveHello
<1>3. /\ GoodTable(devices) /\ devices \in Seq(Device) /\ DOMAIN devices = 1..Len(devices)
      /\ Len(devices) \in Nat
      /\ \A i \in DOMAIN devices : devices[i] \in Device /\ DeviceConsistent(devices[i])
      /\ \A i \in DOMAIN devices : Registered(devices[i])
  BY DEF SystemInv, RegistryInv, GoodTable, DevicesInv
<1>4. /\ DOMAIN fresh = DOMAIN devices /\ Len(fresh) = Len(devices) /\ GoodTable(fresh)
      /\ fresh \in Seq(Device)
      /\ \A i \in DOMAIN devices : fresh[i] = Freshened(devices[i])
  BY <1>3, FreshTable DEF GoodTable
<1> HIDE DEF fresh, hello
<1>5. \A i \in DOMAIN devices : fresh[i].id = devices[i].id /\ Waits(devices[i], fresh[i])
  BY <1>3, <1>4, FreshWaits
<1>6. \A i \in DOMAIN devices : DeviceStep(fresh[i])
  BY <1>5 DEF DeviceStep
<1>7. CASE devices' = fresh
  BY <1>4, <1>6, <1>7 DEF TableStep
<1>8. ASSUME NEW i \in DOMAIN fresh, devices' = [fresh EXCEPT ![i] =
               Reregistered(fresh[i], hello, m.address, m.port)]
      PROVE  TableStep
  <2> DEFINE d == fresh[i]
  <2> DEFINE e == Reregistered(d, hello, m.address, m.port)
  <2>1. d \in Device /\ DeviceConsistent(d)
    BY <1>4 DEF GoodTable
  <2>2. d = fresh[i] /\ e = Reregistered(d, hello, m.address, m.port)
    OBVIOUS
  <2> HIDE DEF d
  <2>3. /\ e \in Device /\ e.id = d.id /\ e.instance = hello.instance /\ e.address = m.address
        /\ d.instance = hello.instance => e.sequence = d.sequence
    BY <1>1, <2>1, ReregisteredDevice
  <2>4. CASE d.instance = hello.instance
    <3>1. e = [d EXCEPT !.interval = hello.interval, !.info = hello.info,
                        !.address = m.address, !.port = m.port]
      BY <2>4 DEF Reregistered
    <3> HIDE DEF e
    <3>2. /\ e.interval = hello.interval /\ e.metrics = d.metrics /\ e.age = d.age
          /\ e.state = d.state /\ e.sequence = d.sequence
      BY <2>1, <3>1 DEF Device
    <3>3. Waits(devices[i], d) /\ Registered(devices[i]) /\ devices[i].id = d.id
          /\ i \in DOMAIN devices
      BY <1>3, <1>4, <1>5, <1>8, <2>2
    <3>4. d.instance # NoInstance
      BY <1>1, <2>4, ProtocolAssumption DEF Hello
    <3>5. /\ devices[i].instance = d.instance /\ devices[i].address = d.address
          /\ devices[i].interval = d.interval
      BY <3>3 DEF Waits
    <3>6. /\ d.interval = Interval[d.address]
          /\ \E n \in Nat : d.instance = <<d.address, n>>
      BY <3>3, <3>4, <3>5 DEF Registered
    <3>7. d.address = m.address
      BY <1>1, <2>4, <3>6
    <3>8. e.interval = d.interval /\ e.address = d.address
      BY <1>1, <2>3, <3>2, <3>6, <3>7
    <3>9. Waits(devices[i], e)
      BY <2>3, <2>4, <3>2, <3>3, <3>8 DEF Waits
    <3>10. DeviceStep(e)
      BY <2>3, <3>3, <3>9 DEF DeviceStep
    <3> QED
      BY <1>4, <1>6, <1>8, <2>2, <3>10 DEF TableStep
  <2>5. CASE d.instance # hello.instance
    <3>1. e = [[d EXCEPT !.interval = hello.interval, !.info = hello.info,
                         !.address = m.address, !.port = m.port]
                EXCEPT !.instance = hello.instance, !.sequence = None,
                       !.metrics = NoMetrics, !.state = "Registered", !.age = None]
      BY <2>5 DEF Reregistered
    <3> HIDE DEF e
    <3>2. /\ e.interval = hello.interval /\ e.age = None
          /\ e.state = "Registered" /\ e.sequence = None
      BY <2>1, <3>1 DEF Device
    <3>3. e.instance \in Instances
      BY <1>1, <2>3 DEF Hello
    <3>4. Introduced(e)
      BY <1>1, <2>3, <3>2, <3>3 DEF Introduced, Registered
    <3>5. devices[i].id = d.id /\ devices[i].instance = d.instance /\ i \in DOMAIN devices
      BY <1>4, <1>5, <1>8, <2>2 DEF Waits
    <3>6. DeviceStep(e)
      BY <2>3, <2>5, <3>4, <3>5 DEF DeviceStep
    <3> QED
      BY <1>4, <1>6, <1>8, <2>2, <3>6 DEF TableStep
  <2> QED
    BY <2>4, <2>5
<1>9. ASSUME Unknown(fresh, hello.id), devices' = Append(fresh, NewDevice(hello, m.address, m.port))
      PROVE  TableStep
  <2> DEFINE e == NewDevice(hello, m.address, m.port)
  <2>1. /\ e.id = hello.id /\ e.interval = hello.interval /\ e.instance = hello.instance
        /\ e.address = m.address /\ e.state = "Registered" /\ e.sequence = None /\ e.age = None
    BY DEF NewDevice
  <2> HIDE DEF e
  <2>2. e.instance \in Instances
    BY <1>1, <2>1 DEF Hello
  <2>3. Introduced(e)
    BY <1>1, <2>1, <2>2 DEF Introduced, Registered
  <2>4. Unknown(devices, e.id)
    BY <1>4, <1>5, <1>9, <2>1 DEF Unknown
  <2>5. DeviceStep(e)
    BY <2>3, <2>4 DEF DeviceStep
  <2>6. \A j \in DOMAIN devices' : j \in DOMAIN fresh \/ j = Len(fresh) + 1
    BY <1>3, <1>4, <1>9
  <2>7. \A j \in DOMAIN fresh : devices'[j] = fresh[j]
    BY <1>3, <1>4, <1>9
  <2>8. devices'[Len(fresh) + 1] = e
    BY <1>3, <1>4, <1>9 DEF e
  <2> QED
    BY <1>4, <1>6, <2>5, <2>6, <2>7, <2>8 DEF TableStep
<1> QED
  BY <1>2, <1>7, <1>8, <1>9 DEF RegisterHello, fresh

LEMMA SnapshotTableStep ==
  ASSUME SystemInv, NEW m \in network, ReceiveSnapshot(m, network)
  PROVE  TableStep
<1> DEFINE snapshot == m.body
<1>1. m \in Datagrams /\ m.type = "snapshot" /\ snapshot \in Snapshot
  BY MessageTypes DEF SystemInv, MessagesInv, ReceiveSnapshot
<1>2. /\ devices \in Seq(Device)
      /\ \A i \in DOMAIN devices : devices[i] \in Device /\ DeviceConsistent(devices[i])
  BY DEF SystemInv, RegistryInv, GoodTable
<1>3. \A i \in DOMAIN devices : DeviceStep(devices[i])
  <2>1. ASSUME NEW i \in DOMAIN devices
        PROVE  Waits(devices[i], devices[i])
    BY <1>2, DeviceNumbers DEF Waits
  <2> QED
    BY <2>1 DEF DeviceStep
<1> HIDE DEF snapshot
<1>4. CASE UNCHANGED registryVars
  BY <1>3, <1>4 DEF TableStep, registryVars
<1>5. ASSUME NEW i \in DOMAIN devices,
             FirstMatch(devices, i, snapshot.id),
             Acceptable(devices[i], snapshot, m.address, m.port),
             devices' = [devices EXCEPT ![i] =
               [@ EXCEPT !.sequence = snapshot.sequence, !.info = snapshot.info,
                         !.metrics = snapshot.metrics, !.age = 0, !.state = "Online"]]
      PROVE  TableStep
  <2> DEFINE d == devices[i]
  <2> DEFINE e == [d EXCEPT !.sequence = snapshot.sequence, !.info = snapshot.info,
                            !.metrics = snapshot.metrics, !.age = 0, !.state = "Online"]
  <2>1. d \in Device /\ d.sequence \in Int /\ d.id = snapshot.id
    BY <1>2, <1>5, DeviceNumbers DEF FirstMatch
  <2>2. devices' = [devices EXCEPT ![i] = e]
    BY <1>5
  <2> HIDE DEF d
  <2>3. /\ e.id = d.id /\ e.interval = d.interval /\ e.instance = d.instance
        /\ e.address = d.address /\ e.sequence = snapshot.sequence
        /\ e.metrics = snapshot.metrics /\ e.age = 0 /\ e.state = "Online"
    BY <2>1 DEF Device
  <2> HIDE DEF e
  <2>4. /\ snapshot.sequence \in Nat /\ snapshot.instance \in Instances
    BY <1>1, ProtocolAssumption DEF Snapshot, Sequences
  <2>5. /\ d.instance = snapshot.instance /\ d.address = m.address
        /\ d.sequence = None \/ snapshot.sequence > d.sequence
    BY <1>5 DEF Acceptable, d
  <2>6. e.sequence > d.sequence
    BY <2>1, <2>3, <2>4, <2>5 DEF None
  <2>7. BackedBy(e, network)
    BY <1>1, <2>1, <2>3, <2>5 DEF BackedBy, snapshot
  <2>8. Delivered(d, e, network)
    BY <2>3, <2>4, <2>5, <2>6, <2>7 DEF Delivered
  <2>9. DeviceStep(e)
    BY <2>3, <2>8 DEF DeviceStep, d
  <2> QED
    BY <1>2, <1>3, <2>2, <2>9 DEF TableStep
<1> QED
  BY <1>4, <1>5 DEF ReceiveSnapshot, AcceptSnapshot, snapshot

\* The freshness timer, time, the user and a restart.
LEMMA OtherTableStep ==
  ASSUME SystemInv,
         \/ FreshnessTimer
         \/ \E id \in DeviceIds : ForgetDevice(id)
         \/ Restart
         \/ Tick
         \/ UNCHANGED devices
  PROVE  TableStep
<1>1. /\ GoodTable(devices) /\ devices \in Seq(Device) /\ DOMAIN devices = 1..Len(devices)
      /\ Len(devices) \in Nat
      /\ \A i \in DOMAIN devices : devices[i] \in Device /\ DeviceConsistent(devices[i])
  BY DEF SystemInv, RegistryInv, GoodTable
<1>2. \A i \in DOMAIN devices : DeviceStep(devices[i])
  <2>1. ASSUME NEW i \in DOMAIN devices
        PROVE  Waits(devices[i], devices[i])
    BY <1>1, DeviceNumbers DEF Waits
  <2> QED
    BY <2>1 DEF DeviceStep
<1>3. CASE FreshnessTimer
  <2>1. /\ DOMAIN devices' = DOMAIN devices
        /\ \A i \in DOMAIN devices : devices'[i] = Freshened(devices[i])
    BY <1>1, <1>3, FreshTable DEF FreshnessTimer
  <2>2. \A i \in DOMAIN devices : DeviceStep(Freshened(devices[i]))
    BY <1>1, FreshWaits DEF DeviceStep
  <2> QED
    BY <2>1, <2>2 DEF TableStep
<1>4. CASE \E id \in DeviceIds : ForgetDevice(id)
  <2>1. PICK i \in DOMAIN devices : devices' = RemoveAt(devices, i)
    BY <1>4 DEF ForgetDevice
  <2>2. /\ DOMAIN devices' = 1..(Len(devices) - 1)
        /\ \A j \in 1..(Len(devices) - 1) :
             devices'[j] = IF j < i THEN devices[j] ELSE devices[j + 1]
    BY <1>1, <2>1, RemoveFromTable
  <2>3. ASSUME NEW j \in 1..(Len(devices) - 1)
        PROVE  DeviceStep(devices'[j])
    <3>1. j \in DOMAIN devices /\ j + 1 \in DOMAIN devices
      BY <1>1
    <3> QED
      BY <1>2, <2>2, <3>1
  <2> QED
    BY <2>2, <2>3 DEF TableStep
<1>5. CASE Restart
  <2>1. PICK file \in {storage} \cup Damaged(storage) : devices' = <<>> \/ Load(file)
    BY <1>5 DEF Restart
  <2>2. CASE devices' = <<>>
    BY <2>2 DEF TableStep
  <2>3. CASE Load(file) /\ devices' # <<>>
    <3>1. devices' = [i \in 1..Len(file.entries) |-> LoadedDevice(file.entries[i])]
      BY <2>3 DEF Load
    <3>2. \A e : OnlyStored(LoadedDevice(e))
      BY DEF OnlyStored, Reloaded, LoadedDevice
    <3> QED
      BY <3>1, <3>2 DEF TableStep, DeviceStep
  <2> QED
    BY <2>1, <2>2, <2>3
<1>6. CASE Tick
  <2>1. /\ DOMAIN devices' = DOMAIN devices
        /\ \A i \in DOMAIN devices : devices'[i] = Aged(devices[i])
    BY <1>1, <1>6 DEF Tick
  <2>2. ASSUME NEW i \in DOMAIN devices
        PROVE  Aged(devices[i]).id = devices[i].id /\ Waits(devices[i], Aged(devices[i]))
    <3> DEFINE d == devices[i]
    <3>1. d \in Device /\ d.age \in Int /\ d.age \in (0..MaxAge) \cup {None}
      BY <1>1, DeviceNumbers DEF Device
    <3> HIDE DEF d
    <3>2. CASE Aged(d) = d
      BY <3>1, <3>2 DEF Waits, d
    <3>3. CASE Aged(d) # d
      <4>1. Aged(d) = [d EXCEPT !.age = d.age + 1] /\ d.age # None
        BY <3>3 DEF Aged
      <4>2. d.age \in Nat
        BY <3>1, <4>1, ConstantFacts
      <4>3. /\ Aged(d).id = d.id /\ Aged(d).interval = d.interval
            /\ Aged(d).instance = d.instance /\ Aged(d).address = d.address
            /\ Aged(d).sequence = d.sequence /\ Aged(d).metrics = d.metrics
            /\ Aged(d).age = d.age + 1 /\ Aged(d).state = d.state
        BY <3>1, <4>1 DEF Device
      <4>4. d.age + 1 # None /\ d.age + 1 >= d.age
        BY <4>2 DEF None
      <4> QED
        BY <4>1, <4>3, <4>4 DEF Waits, d
    <3> QED
      BY <3>2, <3>3
  <2>3. \A i \in DOMAIN devices : DeviceStep(Aged(devices[i]))
    BY <2>2 DEF DeviceStep
  <2> QED
    BY <2>1, <2>3 DEF TableStep
<1>7. CASE UNCHANGED devices
  BY <1>2, <1>7 DEF TableStep
<1> QED
  BY <1>3, <1>4, <1>5, <1>6, <1>7

LEMMA EveryTableStep ==
  ASSUME SystemInv, [Next]_vars
  PROVE  TableStep
<1>1. ASSUME NEW h \in Addresses, Daemon(h)
      PROVE  UNCHANGED devices
  BY <1>1 DEF Daemon, DaemonSendHello, DaemonReceive, DaemonOnly, registryVars
<1> QED
  BY <1>1, HelloTableStep, SnapshotTableStep, OtherTableStep DEF Next, Dashboard, vars

\* What stands behind a device stays: the network forgets nothing.
LEMMA DevicesInvStep ==
  ASSUME SystemInv, RegistryInv', TableStep, network \subseteq network'
  PROVE  DevicesInv(devices', network')
<1> SUFFICES ASSUME NEW j \in DOMAIN devices'
             PROVE  /\ Registered(devices'[j]) /\ NotShownStaler(devices'[j])
                    /\ BackedBy(devices'[j], network')
  BY DEF DevicesInv
<1> DEFINE e == devices'[j]
<1>1. e \in Device /\ e.age \in Int
  BY DeviceNumbers DEF RegistryInv, GoodTable
<1>2. DeviceStep(e)
  BY DEF TableStep
<1> HIDE DEF e
<1>3. CASE OnlyStored(e)
  BY <1>3 DEF OnlyStored, Reloaded, Registered, NotShownStaler, BackedBy, e
<1>4. CASE Introduced(e)
  BY <1>4 DEF Introduced, NotShownStaler, BackedBy, e
<1>5. ASSUME NEW i \in DOMAIN devices, devices[i].id = e.id, Waits(devices[i], e)
      PROVE  Registered(e) /\ NotShownStaler(e) /\ BackedBy(e, network')
  <2> DEFINE d == devices[i]
  <2>1. d \in Device /\ d.age \in Int /\ d.interval \in Nat
    BY DeviceNumbers DEF SystemInv, RegistryInv, GoodTable
  <2>2. Registered(d) /\ NotShownStaler(d) /\ BackedBy(d, network)
    BY DEF SystemInv, DevicesInv
  <2> HIDE DEF d
  <2>3. Waits(d, e) /\ d.id = e.id
    BY <1>5 DEF d
  <2>4. Registered(e) /\ BackedBy(e, network')
    BY <2>2, <2>3 DEF Waits, Registered, BackedBy
  <2>5. NotShownStaler(e)
    <3> DEFINE stale == d.interval * StaleIntervals
    <3> DEFINE offline == d.interval * OfflineIntervals
    <3>1. stale \in Int /\ offline \in Int
      BY <2>1, RegistryAssumption
    <3>2. e.age >= d.age /\ e.interval = d.interval /\ (e.age = None <=> d.age = None)
      BY <2>3 DEF Waits
    <3>3. d.age # None => /\ d.state = "Stale" => d.age >= stale
                          /\ d.state = "Offline" => d.age >= offline
      BY <2>2 DEF NotShownStaler
    <3>4. /\ StateAt(d.age, d.interval) = "Stale" => d.age >= stale
          /\ StateAt(d.age, d.interval) = "Offline" => d.age >= offline
      BY DEF StateAt
    <3>5. e.state = d.state \/ (d.age # None /\ e.state = StateAt(d.age, d.interval))
      BY <2>3 DEF Waits
    <3>6. d.age # None => /\ e.state = "Stale" => d.age >= stale
                          /\ e.state = "Offline" => d.age >= offline
      BY <3>3, <3>4, <3>5
    <3>7. e.age # None => /\ e.state = "Stale" => e.age >= e.interval * StaleIntervals
                          /\ e.state = "Offline" => e.age >= e.interval * OfflineIntervals
      <4>1. /\ e.interval * StaleIntervals = stale /\ e.interval * OfflineIntervals = offline
        BY <3>2
      <4> HIDE DEF stale, offline
      <4> QED
        BY <1>1, <2>1, <3>1, <3>2, <3>6, <4>1
    <3> QED
      BY <3>7 DEF NotShownStaler
  <2> QED
    BY <2>4, <2>5
<1>6. ASSUME NEW i \in DOMAIN devices, devices[i].id = e.id, Delivered(devices[i], e, network)
      PROVE  Registered(e) /\ NotShownStaler(e) /\ BackedBy(e, network')
  <2>1. Registered(devices[i])
    BY DEF SystemInv, DevicesInv
  <2> QED
    BY <1>6, <2>1 DEF Delivered, Registered, NotShownStaler, BackedBy
<1> QED
  BY <1>2, <1>3, <1>4, <1>5, <1>6 DEF DeviceStep, e
-----------------------------------------------------------------------------
(* The inductive invariant *)

LEMMA SystemInvInitially ==
  ASSUME Init
  PROVE  SystemInv
<1>1. devices = <<>> /\ network = {} /\ RegistryInit /\ DaemonInit
  BY DEF Init, RegistryInit
<1>2. RegistryInv
  BY <1>1, EmptyTable DEF RegistryInit, RegistryInv, RegistryTypeOK, GoodTable
<1>3. DaemonsInv(daemon)
  BY <1>1, ProtocolAssumption, DaemonAssumption DEF DaemonInit, DaemonsInv, DaemonType
<1> QED
  BY <1>1, <1>2, <1>3 DEF SystemInv, MessagesInv, NamesOneSnapshot, DevicesInv

LEMMA SystemInvInductive ==
  ASSUME SystemInv, [Next]_vars
  PROVE  SystemInv'
<1>1. RegistryInv'
  BY StepsOfRegistry, RegistryInvInductive DEF SystemInv
<1>2. NetworkStep
  <2>1. CASE UNCHANGED vars
    BY <2>1 DEF vars, NetworkStep, SystemInv
  <2> QED
    BY <2>1, DashboardNetworkStep, SendHelloStep, ReplyStep, ProcessStep DEF Next, Daemon
<1>3. DevicesInv(devices', network')
  BY <1>1, <1>2, EveryTableStep, DevicesInvStep DEF NetworkStep
<1> QED
  BY <1>1, <1>2, <1>3 DEF SystemInv, NetworkStep

LEMMA SystemInvariant == Spec => []SystemInv
<1>1. Init => SystemInv
  BY SystemInvInitially
<1>2. SystemInv /\ [Next]_vars => SystemInv'
  BY SystemInvInductive
<1> QED
  BY <1>1, <1>2, PTL DEF Spec
-----------------------------------------------------------------------------
(* Theorems *)

\* Type correctness of daemons, dashboard and everything in the network.
THEOREM SystemTypeCorrect == Spec => []TypeOK
<1>1. SystemInv => TypeOK
  BY DEF SystemInv, RegistryInv, DaemonsInv, MessagesInv, TypeOK
<1> QED
  BY <1>1, SystemInvariant, PTL

\* With real daemons and a network that loses, repeats, delays and reorders, the registry
\* still behaves as its own specification says, so that every theorem of
\* RemoteDeviceRegistryProofs holds of the composed system.
THEOREM SystemImplementsRegistry == Spec => RegistrySafety
<1>1. Init => RegistryInit
  BY DEF Init
<1>2. SystemInv /\ [Next]_vars => [RegistryNext]_registryVars
  BY StepsOfRegistry
<1> QED
  BY <1>1, <1>2, SystemInvariant, PTL DEF Spec, RegistrySafety

\* Everything shown of a device was measured by the process it is registered to.
THEOREM SystemShownDataWasSent == Spec => []ShownDataWasSent
<1>1. SystemInv => ShownDataWasSent
  BY DEF SystemInv, DevicesInv, BackedBy, ShownDataWasSent
<1> QED
  BY <1>1, SystemInvariant, PTL

\* Across crashes, late replies and retries no daemon sends two different snapshots
\* under one sequence number of one instance.
THEOREM SystemSequenceNamesOneSnapshot == Spec => []SequenceNamesOneSnapshot
<1>1. SystemInv => SequenceNamesOneSnapshot
  BY DEF SystemInv, NamesOneSnapshot, SequenceNamesOneSnapshot
<1> QED
  BY <1>1, SystemInvariant, PTL
-----------------------------------------------------------------------------
(* The lifecycle of a device *)

\* The life of a device in a given table.
LifeIn(ds, id) ==
  IF Unknown(ds, id)
  THEN [state |-> "Unregistered", instance |-> NoInstance, sequence |-> None]
  ELSE LET d == ds[CHOOSE i \in DOMAIN ds : ds[i].id = id]
       IN [state |-> d.state, instance |-> d.instance, sequence |-> d.sequence]

LEMMA LifeOfDevice ==
  ASSUME NEW ds, GoodTable(ds), NEW i \in DOMAIN ds
  PROVE  LifeIn(ds, ds[i].id) =
           [state |-> ds[i].state, instance |-> ds[i].instance, sequence |-> ds[i].sequence]
<1> DEFINE id == ds[i].id
<1> DEFINE k == CHOOSE k \in DOMAIN ds : ds[k].id = id
<1>1. k \in DOMAIN ds /\ ds[k].id = id
  OBVIOUS
<1>2. k = i
  BY <1>1 DEF GoodTable, DistinctAndBounded
<1>3. ~ Unknown(ds, id)
  BY DEF Unknown
<1>4. LifeIn(ds, id) = [state |-> ds[k].state, instance |-> ds[k].instance, sequence |-> ds[k].sequence]
  BY <1>3 DEF LifeIn
<1> QED
  BY <1>2, <1>4

\* One step in the life of one device.
LifeStep(old, new) ==
  \/ new = old
  \/ Lifecycle!Register(old, new)
  \/ Lifecycle!Update(old, new)
  \/ Lifecycle!Decay(old, new)
  \/ Lifecycle!Reload(new)
  \/ Lifecycle!Forget(new)

\* Freshness only decays: a device is never shown staler than its age.
LEMMA WaitingIsDecay ==
  ASSUME NEW d \in Device, DeviceConsistent(d), NotShownStaler(d), NEW e, Waits(d, e),
         NEW old, old = [state |-> d.state, instance |-> d.instance, sequence |-> d.sequence],
         NEW new, new = [state |-> e.state, instance |-> e.instance, sequence |-> e.sequence]
  PROVE  LifeStep(old, new)
<1>1. e.instance = d.instance /\ e.sequence = d.sequence
  BY DEF Waits
<1>2. CASE e.state = d.state
  BY <1>1, <1>2 DEF LifeStep
<1>3. CASE e.state # d.state
  <2>1. d.age # None /\ e.state = StateAt(d.age, d.interval)
    BY <1>3 DEF Waits
  <2>2. d.state # "Registered" /\ d.state \in {"Registered", "Online", "Stale", "Offline"}
    BY <2>1 DEF DeviceConsistent, Device, States
  <2>3. d.state = "Offline" => e.state = "Offline"
    BY <2>1 DEF NotShownStaler, StateAt
  <2>4. d.state = "Stale" => e.state \in {"Stale", "Offline"}
    BY <2>1 DEF NotShownStaler, StateAt
  <2>5. e.state \in {"Online", "Stale", "Offline"}
    BY <2>1 DEF StateAt
  <2>6. <<d.state, e.state>> \in
          {<<"Online", "Stale">>, <<"Online", "Offline">>, <<"Stale", "Offline">>}
    BY <1>3, <2>2, <2>3, <2>4, <2>5
  <2>7. new = [old EXCEPT !.state = new.state] /\ old.state = d.state /\ new.state = e.state
    BY <1>1
  <2> QED
    BY <2>6, <2>7 DEF LifeStep, Lifecycle!Decay
<1> QED
  BY <1>2, <1>3

LEMMA LifeStepOfDevice ==
  ASSUME SystemInv, RegistryInv', TableStep, NEW id \in DeviceIds
  PROVE  LifeStep(LifeIn(devices, id), LifeIn(devices', id))
<1> DEFINE old == LifeIn(devices, id)
<1> DEFINE new == LifeIn(devices', id)
<1> SUFFICES LifeStep(old, new)
  OBVIOUS
<1>1. GoodTable(devices) /\ GoodTable(devices')
  BY DEF SystemInv, RegistryInv
<1>2. CASE Unknown(devices', id)
  <2>1. new = [state |-> "Unregistered", instance |-> NoInstance, sequence |-> None]
    BY <1>2 DEF LifeIn
  <2> QED
    BY <2>1 DEF LifeStep, Lifecycle!Forget, Lifecycle!Unregistered, Lifecycle!Life,
                Lifecycle!None, None
<1>3. CASE ~ Unknown(devices', id)
  <2>1. PICK j \in DOMAIN devices' : devices'[j].id = id
    BY <1>3 DEF Unknown
  <2> DEFINE e == devices'[j]
  <2>2. DeviceStep(e) /\ e.id = id
    BY <2>1 DEF TableStep
  <2>3. new = [state |-> e.state, instance |-> e.instance, sequence |-> e.sequence]
    BY <1>1, <2>1, LifeOfDevice
  <2> HIDE DEF e, old, new
  <2>4. CASE OnlyStored(e)
    BY <2>3, <2>4 DEF OnlyStored, Reloaded, LifeStep, Lifecycle!Reload, Lifecycle!Life,
                      Lifecycle!None, None
  <2>5. ASSUME Introduced(e), old.instance # e.instance
        PROVE  LifeStep(old, new)
    BY <2>3, <2>5 DEF Introduced, LifeStep, Lifecycle!Register, Lifecycle!Life,
                      Lifecycle!None, None
  <2>6. CASE Unknown(devices, id) /\ Introduced(e)
    <3>1. old.instance = NoInstance
      BY <2>6 DEF LifeIn, old
    <3> QED
      BY <2>5, <2>6, <3>1, ProtocolAssumption DEF Introduced
  <2>7. ASSUME NEW i \in DOMAIN devices, devices[i].id = id,
               \/ Waits(devices[i], e)
               \/ Introduced(e) /\ e.instance # devices[i].instance
               \/ Delivered(devices[i], e, network)
        PROVE  LifeStep(old, new)
    <3> DEFINE d == devices[i]
    <3>1. d \in Device /\ DeviceConsistent(d) /\ NotShownStaler(d)
      BY <1>1 DEF SystemInv, DevicesInv, GoodTable
    <3>2. old = [state |-> d.state, instance |-> d.instance, sequence |-> d.sequence]
      BY <1>1, <2>7, LifeOfDevice DEF old
    <3> HIDE DEF d
    <3>3. CASE Waits(d, e)
      BY <2>3, <3>1, <3>2, <3>3, WaitingIsDecay
    <3>4. CASE Introduced(e) /\ e.instance # d.instance
      BY <2>5, <3>2, <3>4
    <3>5. CASE Delivered(d, e, network)
      BY <2>3, <3>2, <3>5 DEF Delivered, LifeStep, Lifecycle!Update, Lifecycle!Life
    <3> QED
      BY <2>7, <3>3, <3>4, <3>5 DEF d
  <2> QED
    BY <2>2, <2>4, <2>6, <2>7 DEF DeviceStep, old, new
<1> QED
  BY <1>2, <1>3

\* Daemons, network and dashboard implement the promised lifecycle of a device: it is
\* registered by a hello of another process, becomes fresher only by a newer snapshot of
\* that process, and decays, is reloaded or forgotten otherwise.
THEOREM SystemFollowsLifecycle == Spec => FollowsLifecycle
<1>1. \A id : LifeOf(id) = LifeIn(devices, id)
  BY DEF LifeOf, LifeIn
<1>2. \A id : LifeOf(id)' = LifeIn(devices', id)
  BY DEF LifeOf, LifeIn, Unknown
<1>3. Init => Lifecycle!Init
  <2> SUFFICES ASSUME Init PROVE Lifecycle!Init
    OBVIOUS
  <2>1. devices = <<>>
    BY DEF Init, RegistryInit
  <2>2. \A id : LifeOf(id) = [state |-> "Unregistered", instance |-> NoInstance, sequence |-> None]
    BY <2>1 DEF LifeOf, Unknown
  <2> QED
    BY <2>2 DEF Lifecycle!Init, Lifecycle!Unregistered, Lifecycle!Life, Lifecycle!None, None
<1>4. SystemInv /\ SystemInv' /\ [Next]_vars =>
        [Lifecycle!Next]_([id \in DeviceIds |-> LifeOf(id)])
  <2> SUFFICES ASSUME SystemInv, SystemInv', [Next]_vars
               PROVE  Lifecycle!Next
    OBVIOUS
  <2>1. RegistryInv' /\ TableStep
    BY EveryTableStep DEF SystemInv
  <2>2. \A id \in DeviceIds : LifeStep(LifeIn(devices, id), LifeIn(devices', id))
    BY <2>1, LifeStepOfDevice
  <2> QED
    BY <1>1, <1>2, <2>2 DEF Lifecycle!Next, LifeStep
<1> QED
  BY <1>3, <1>4, SystemInvariant, PTL DEF Spec, FollowsLifecycle, Lifecycle!Spec
=============================================================================
