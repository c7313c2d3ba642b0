------------------------ MODULE TelemetryTimingProofs ------------------------
(***************************************************************************)
(* The telemetry system against the clock, for any number of hosts (with   *)
(* identities of their own or cloned ones), any intervals, delays and      *)
(* thresholds that fit together, and any number of faults.                 *)
(*                                                                         *)
(* A step of the system is to each host one of a few things: its process   *)
(* moves, a datagram from or to it is handled, a second passes, or nothing *)
(* that concerns it happens.  The invariant is a conjunction over hosts of *)
(* what holds of the process p, its remaining wait w, the mail M from and  *)
(* to the host and the devices D shown at its address.                     *)
(***************************************************************************)
EXTENDS TelemetryTiming, TelemetrySystemProofs

\* The delays that the thresholds must leave room for.  The code's are 2, 10, 3 and 10.
DelaysFit == ReplySeconds > 0 /\ RetrySeconds > 0 /\ StaleIntervals > 1

Mail(net, h) == {m \in net : m.address = h}
DevicesAt(ds, h) == {ds[i] : i \in {j \in DOMAIN ds : ds[j].address = h}}

NoHandshake(M) == \A m \in M : m.type = "snapshot"

\* The only hello a waiting process has in flight.
HelloFrom(h, p) ==
  Datagram("hello",
    [id |-> Identity[h], instance |-> <<h, p.starts>>, interval |-> Interval[h], info |-> Info[h]],
    h, p.port)

Fits(d, s) == Acceptable(d, s.body, s.address, s.port)

DeviceOf(h, p, d) ==
  /\ d.id = Identity[h]
  /\ d.instance = <<h, p.starts>>
  /\ d.interval = Interval[h]
  /\ d.sequence < p.sequence
  /\ NotShownStaler(d)

SnapshotFrom(h, p, s) ==
  /\ s.body.id = Identity[h]
  /\ s.body.instance = <<h, p.starts>>
  /\ s.body.interval = Interval[h]
  /\ s.body.sequence < p.sequence

HelloBy(h, p, m) ==
  m.body = [id |-> Identity[h], instance |-> <<h, p.starts>>, interval |-> Interval[h],
            info |-> Info[h]]

\* What holds of a host at any time, whatever faults there were.
HostInv(h, p, w, M, D) ==
  /\ p.pc = "stopped" => M = {} /\ D = {}
  /\ p.pc = "waiting" => w <= ReplySeconds
  /\ p.pc = "sleeping" => w <= MissedTurn(h)
  /\ \A m \in M : m.type = "hello" => HelloBy(h, p, m)
  /\ \A m \in M : m.type = "snapshot" => SnapshotFrom(h, p, m)
  /\ \A d \in D : DeviceOf(h, p, d)

\* The handshake in flight is what a waiting process waits for; an accepted one leaves
\* the registered port right, a rejected one means that the host is not shown.
UndisturbedMail(p, w, M, D) ==
  /\ p.pc = "resolving" => M = {}
  /\ p.pc = "waiting" =>
       /\ w = ReplySeconds
       /\ \E m \in M :
            /\ M = {m}
            /\ m.type \in {"hello", "result"}
            /\ m.port = p.port
            /\ m.type = "result" /\ m.body.accepted => \A d \in D : d.port = m.port
            /\ m.type = "result" /\ ~ m.body.accepted => D = {}

\* Without a fault, data is at most an interval old when the next snapshot replaces it.
UndisturbedAge(h, p, w, M, D) ==
  /\ p.pc \in {"resolving", "waiting"} /\ p.sequence <= MaxSequence =>
       \A d \in D : d.age <= Interval[h]
  /\ p.pc = "sleeping" =>
       \/ /\ M = {}
          /\ p.sequence <= MaxSequence =>
               \A d \in D : d.age # None => d.age + w <= Interval[h]
       \/ \E s \in M :
            /\ M = {s}
            /\ s.type = "snapshot"
            /\ w = Interval[h]
            /\ \A d \in D : Fits(d, s)
            /\ p.sequence <= MaxSequence => \A d \in D : d.age <= Interval[h]

Undisturbed(h, p, w, M, D) ==
  UndisturbedMail(p, w, M, D) /\ UndisturbedAge(h, p, w, M, D)

\* After one fault a late snapshot may meet the handshake of the next turn, or a repeated
\* handshake the snapshot of its own turn.
DisturbedMail(h, p, w, M, D) ==
  /\ p.pc = "resolving" \/ (p.pc = "sleeping" /\ w = 0) => NoHandshake(M)
  /\ p.pc = "waiting" =>
       /\ \A m \in M : m.type = "hello" => m = HelloFrom(h, p)
       /\ \A m \in M : m.type = "result" =>
            /\ m.port = p.port
            /\ m.body.accepted => \A d \in D : d.port = p.port
            /\ ~ m.body.accepted => \A d \in D : d.age = None
            /\ \A s \in M : s.type = "snapshot" =>
                 /\ ~ m.body.accepted => D = {}
                 /\ \A n \in M : n.type # "hello"

\* The next snapshot comes before the data is older than a missed turn makes it.
InTime(h, p, w, M, d) ==
  /\ p.pc = "resolving" => d.age <= MissedTurn(h)
  /\ p.pc = "waiting" =>
       \/ d.age + w + RetrySeconds <= MissedTurn(h)
       \/ d.age <= MissedTurn(h) /\ w > 0 /\ ~ NoHandshake(M)
  /\ p.pc = "sleeping" =>
       \/ d.age + w <= MissedTurn(h)
       \/ /\ d.age <= MissedTurn(h)
          /\ \E s \in M :
               /\ s.type = "snapshot"
               /\ Fits(d, s)
               /\ \A m \in M : m.type = "hello" => m.port = s.port

DisturbedAge(h, p, w, M, D) ==
  p.sequence <= MaxSequence => \A d \in D : d.age # None => InTime(h, p, w, M, d)

Disturbed(h, p, w, M, D) ==
  DisturbedMail(h, p, w, M, D) /\ DisturbedAge(h, p, w, M, D)

SomeAddress(ds) == \A i \in DOMAIN ds : ds[i].address \in Addresses

TimingTypes ==
  /\ RegistryInv
  /\ DaemonsInv(daemon)
  /\ network \subseteq Datagrams
  /\ SomeAddress(devices)
  /\ wait \in [Addresses -> Nat]
  /\ faults \in 0..MaxFaults

Sound(h) == HostInv(h, daemon[h], wait[h], Mail(network, h), DevicesAt(devices, h))
Calm(h) == Undisturbed(h, daemon[h], wait[h], Mail(network, h), DevicesAt(devices, h))
Shaken(h) == Disturbed(h, daemon[h], wait[h], Mail(network, h), DevicesAt(devices, h))

\* The inductive invariant.
TimingInv ==
  /\ TimingTypes
  /\ \A h \in Addresses : Sound(h)
  /\ faults = MaxFaults => \A h \in Addresses : Calm(h)
  /\ faults = MaxFaults - 1 => \A h \in Addresses : Shaken(h)
-----------------------------------------------------------------------------
(* Facts about one host *)

HostTyped(h, p, w, M, D) ==
  /\ p \in DaemonType
  /\ w \in Nat
  /\ M \subseteq Datagrams /\ \A m \in M : m.address = h
  /\ D \subseteq Device /\ \A d \in D : d.address = h /\ DeviceConsistent(d)

LEMMA DelayNumbers ==
  ASSUME NEW h \in Addresses
  PROVE  /\ Interval[h] \in Nat /\ Interval[h] > 0
         /\ ReplySeconds \in Nat /\ RetrySeconds \in Nat
         /\ MissedTurn(h) \in Nat
         /\ MissedTurn(h) >= Interval[h] + Interval[h]
         /\ MissedTurn(h) >= Interval[h] + ReplySeconds + RetrySeconds
<1>1. Interval[h] \in Nat /\ Interval[h] > 0
  BY DaemonAssumption, ProtocolAssumption DEF Intervals
<1>2. ReplySeconds \in Nat /\ RetrySeconds \in Nat
  BY TimingAssumption
<1> QED
  BY <1>1, <1>2 DEF MissedTurn

LEMMA HostNumbers ==
  ASSUME NEW h \in Addresses, NEW p, NEW w, NEW M, NEW D, HostTyped(h, p, w, M, D)
  PROVE  /\ p.sequence \in Nat /\ w \in Nat /\ MaxSequence \in Nat
         /\ p.pc \in {"stopped", "resolving", "waiting", "sleeping"}
         /\ \A d \in D : /\ d \in Device /\ d.age \in Int /\ d.sequence \in Int
                         /\ d.interval \in Nat
                         /\ d.age >= None
                         /\ d.sequence = None <=> d.age = None
         /\ \A m \in M : m.type = "snapshot" => m.body.sequence \in Nat
         /\ \A m \in M : m.type \in {"hello", "snapshot", "result"}
<1>1. p.sequence \in Nat /\ w \in Nat /\ MaxSequence \in Nat
  BY DaemonNumbers, ProtocolAssumption DEF HostTyped
<1>2. p.pc \in {"stopped", "resolving", "waiting", "sleeping"}
  BY DEF HostTyped, DaemonType
<1>3. ASSUME NEW d \in D
      PROVE  /\ d \in Device /\ d.age \in Int /\ d.sequence \in Int /\ d.interval \in Nat
             /\ d.age >= None
             /\ d.sequence = None <=> d.age = None
  <2>1. d \in Device /\ DeviceConsistent(d)
    BY DEF HostTyped
  <2>2. d.age \in Int /\ d.sequence \in Int /\ d.interval \in Nat
    BY <2>1, DeviceNumbers
  <2>3. d.age >= None
    BY <2>1, ConstantFacts DEF Device, None
  <2>4. d.sequence = None <=> d.age = None
    BY <2>1 DEF DeviceConsistent
  <2> QED
    BY <2>1, <2>2, <2>3, <2>4
<1>4. ASSUME NEW m \in M, m.type = "snapshot"
      PROVE  m.body.sequence \in Nat
  BY <1>4, MessageTypes, ProtocolAssumption DEF HostTyped, Snapshot, Sequences
<1>5. \A m \in M : m.type \in {"hello", "snapshot", "result"}
  BY MessageTypes DEF HostTyped
<1> QED
  BY <1>1, <1>2, <1>3, <1>4, <1>5

\* A device of the same registration, shown as before or as its age says.
Kept(d, e) ==
  /\ e.id = d.id
  /\ e.instance = d.instance
  /\ e.address = d.address
  /\ e.interval = d.interval
  /\ e.sequence = d.sequence
  /\ e.age = None <=> d.age = None
  /\ e.age >= d.age
  /\ \/ e.state = d.state
     \/ d.age # None /\ e.state = StateAt(d.age, d.interval)

Stays(d, e) == Kept(d, e) /\ e.port = d.port /\ e.age = d.age

\* Only the display of a host changed, or another host took its identity over.
Thinned(D, E) == \A e \in E : \E d \in D : Stays(d, e)

LEMMA KeptDevice ==
  ASSUME NEW h, NEW p, NEW d \in Device, NEW e \in Device, DeviceOf(h, p, d), Kept(d, e)
  PROVE  DeviceOf(h, p, e)
<1> DEFINE stale == d.interval * StaleIntervals
<1> DEFINE offline == d.interval * OfflineIntervals
<1>1. d.age \in Int /\ e.age \in Int /\ d.interval \in Nat
  BY DeviceNumbers
<1>2. stale \in Int /\ offline \in Int
  BY <1>1, RegistryAssumption
<1>3. d.age # None => /\ d.state = "Stale" => d.age >= stale
                      /\ d.state = "Offline" => d.age >= offline
  BY DEF DeviceOf, NotShownStaler
<1>4. /\ StateAt(d.age, d.interval) = "Stale" => d.age >= stale
      /\ StateAt(d.age, d.interval) = "Offline" => d.age >= offline
  BY DEF StateAt
<1>5. d.age # None => /\ e.state = "Stale" => d.age >= stale
                      /\ e.state = "Offline" => d.age >= offline
  BY <1>3, <1>4 DEF Kept
<1>6. /\ e.interval * StaleIntervals = stale /\ e.interval * OfflineIntervals = offline
  BY DEF Kept
<1>7. e.age >= d.age /\ (e.age = None <=> d.age = None)
  BY DEF Kept
<1> HIDE DEF stale, offline
<1>8. e.age # None => /\ e.state = "Stale" => e.age >= stale
                      /\ e.state = "Offline" => e.age >= offline
  BY <1>1, <1>2, <1>5, <1>7
<1>9. NotShownStaler(e)
  BY <1>6, <1>8 DEF NotShownStaler
<1> QED
  BY <1>9 DEF DeviceOf, Kept

LEMMA ThinnedDevices ==
  ASSUME NEW h, NEW p, NEW D, NEW E, D \subseteq Device, E \subseteq Device, Thinned(D, E),
         \A d \in D : DeviceOf(h, p, d)
  PROVE  \A e \in E : DeviceOf(h, p, e)
BY KeptDevice DEF Thinned, Stays

LEMMA StaysFits ==
  ASSUME NEW d, NEW e, NEW s, Stays(d, e)
  PROVE  Fits(e, s) <=> Fits(d, s)
BY DEF Stays, Kept, Fits, Acceptable

\* The three parts of the invariant carry over when nothing concerns the host.
LEMMA IdleHost ==
  ASSUME NEW h \in Addresses, NEW p, NEW w, NEW M, NEW D, NEW E,
         HostTyped(h, p, w, M, D), HostTyped(h, p, w, M, E), Thinned(D, E)
  PROVE  /\ HostInv(h, p, w, M, D) => HostInv(h, p, w, M, E)
         /\ Undisturbed(h, p, w, M, D) => Undisturbed(h, p, w, M, E)
         /\ Disturbed(h, p, w, M, D) => Disturbed(h, p, w, M, E)
<1>1. ASSUME HostInv(h, p, w, M, D)
      PROVE  HostInv(h, p, w, M, E)
  <2>1. \A e \in E : DeviceOf(h, p, e)
    BY <1>1, ThinnedDevices DEF HostInv, HostTyped
  <2>2. D = {} => E = {}
    BY DEF Thinned
  <2> QED
    BY <1>1, <2>1, <2>2 DEF HostInv
<1>2. \A e \in E : \E d \in D : d.port = e.port /\ d.age = e.age /\ \A s : Fits(d, s) <=> Fits(e, s)
  BY StaysFits DEF Thinned, Stays
<1>3. ASSUME Undisturbed(h, p, w, M, D)
      PROVE  Undisturbed(h, p, w, M, E)
  <2>1. UndisturbedMail(p, w, M, E)
    BY <1>2, <1>3 DEF Undisturbed, UndisturbedMail
  <2>2. UndisturbedAge(h, p, w, M, E)
    BY <1>2, <1>3 DEF Undisturbed, UndisturbedAge
  <2> QED
    BY <2>1, <2>2 DEF Undisturbed
<1>4. ASSUME Disturbed(h, p, w, M, D)
      PROVE  Disturbed(h, p, w, M, E)
  <2>1. DisturbedMail(h, p, w, M, E)
    BY <1>2, <1>4 DEF Disturbed, DisturbedMail
  <2>2. \A e \in E : \E d \in D : d.age = e.age /\ (InTime(h, p, w, M, d) => InTime(h, p, w, M, e))
    BY <1>2 DEF InTime
  <2>3. DisturbedAge(h, p, w, M, E)
    BY <1>4, <2>2 DEF Disturbed, DisturbedAge
  <2> QED
    BY <2>1, <2>3 DEF Disturbed
<1> QED
  BY <1>1, <1>3, <1>4

\* What holds without faults holds after one.
LEMMA UndisturbedIsDisturbed ==
  ASSUME NEW h \in Addresses, NEW p, NEW w, NEW M, NEW D,
         DelaysFit, HostTyped(h, p, w, M, D), HostInv(h, p, w, M, D), Undisturbed(h, p, w, M, D)
  PROVE  Disturbed(h, p, w, M, D)
<1>1. /\ Interval[h] \in Nat /\ Interval[h] > 0
      /\ ReplySeconds \in Nat /\ RetrySeconds \in Nat
      /\ MissedTurn(h) \in Nat /\ MissedTurn(h) >= Interval[h] + Interval[h]
  BY DelayNumbers
<1>2. /\ p.sequence \in Nat /\ w \in Nat /\ MaxSequence \in Nat
      /\ \A d \in D : d.age \in Int
  BY HostNumbers
<1>3. UndisturbedMail(p, w, M, D) /\ UndisturbedAge(h, p, w, M, D)
  BY DEF Undisturbed
<1>4. DisturbedMail(h, p, w, M, D)
  <2>1. p.pc = "resolving" => NoHandshake(M)
    BY <1>3 DEF UndisturbedMail, NoHandshake
  <2>2. p.pc = "sleeping" => NoHandshake(M)
    BY <1>3 DEF UndisturbedAge, NoHandshake
  <2>3. CASE p.pc = "waiting"
    <3>1. PICK m \in M :
            /\ M = {m}
            /\ m.type \in {"hello", "result"}
            /\ m.port = p.port
            /\ m.type = "result" /\ m.body.accepted => \A d \in D : d.port = m.port
            /\ m.type = "result" /\ ~ m.body.accepted => D = {}
      BY <1>3, <2>3 DEF UndisturbedMail
    <3>2. m.type = "hello" => m = HelloFrom(h, p)
      <4>1. m \in Datagrams /\ m.address = h
        BY DEF HostTyped
      <4>2. m.type = "hello" => HelloBy(h, p, m)
        BY DEF HostInv
      <4> QED
        BY <3>1, <4>1, <4>2 DEF HelloBy, HelloFrom, Datagram, Datagrams
    <3> QED
      BY <2>3, <3>1, <3>2 DEF DisturbedMail
  <2> QED
    BY <2>1, <2>2, <2>3 DEF DisturbedMail
<1>5. ASSUME p.sequence <= MaxSequence, NEW d \in D, d.age # None
      PROVE  InTime(h, p, w, M, d)
  <2>1. CASE p.pc = "waiting"
    <3>1. w > 0 /\ ~ NoHandshake(M)
      BY <1>1, <1>3, <2>1 DEF UndisturbedMail, NoHandshake, DelaysFit
    <3>2. d.age <= Interval[h]
      BY <1>3, <1>5, <2>1 DEF UndisturbedAge
    <3> QED
      BY <1>1, <1>2, <2>1, <3>1, <3>2 DEF InTime
  <2>2. CASE p.pc = "sleeping"
    <3>1. CASE d.age + w <= Interval[h]
      BY <1>1, <1>2, <2>2, <3>1 DEF InTime
    <3>2. CASE ~ (d.age + w <= Interval[h])
      <4>1. PICK s \in M : /\ M = {s}
                           /\ s.type = "snapshot"
                           /\ \A x \in D : Fits(x, s)
                           /\ \A x \in D : x.age <= Interval[h]
        BY <1>3, <1>5, <2>2, <3>2 DEF UndisturbedAge
      <4>2. d.age <= MissedTurn(h)
        BY <1>1, <1>2, <4>1
      <4> QED
        BY <2>2, <4>1, <4>2 DEF InTime
    <3> QED
      BY <3>1, <3>2
  <2>3. CASE p.pc = "resolving"
    BY <1>1, <1>2, <1>3, <1>5, <2>3 DEF UndisturbedAge, InTime
  <2> QED
    BY <2>1, <2>2, <2>3 DEF InTime
<1> QED
  BY <1>4, <1>5 DEF Disturbed, DisturbedAge
-----------------------------------------------------------------------------
(* Steps of the host's own process *)

\* The process of a host moves on: same instance, same or next sequence number.
SameProcess(p, q) == q.starts = p.starts /\ q.sequence >= p.sequence

LEMMA ProcessGoesOn ==
  ASSUME NEW h \in Addresses, NEW p, NEW q, NEW w, NEW M, NEW D, SameProcess(p, q),
         HostTyped(h, p, w, M, D), q \in DaemonType, HostInv(h, p, w, M, D)
  PROVE  /\ \A m \in M : m.type = "hello" => HelloBy(h, q, m)
         /\ \A m \in M : m.type = "snapshot" => SnapshotFrom(h, q, m)
         /\ \A d \in D : DeviceOf(h, q, d)
<1>1. p.sequence \in Nat /\ q.sequence \in Nat
  BY HostNumbers, DaemonNumbers
<1>2. \A m \in M : m.type = "hello" => HelloBy(h, q, m)
  BY DEF HostInv, HelloBy, SameProcess
<1>3. ASSUME NEW m \in M, m.type = "snapshot"
      PROVE  SnapshotFrom(h, q, m)
  <2>1. SnapshotFrom(h, p, m) /\ m.body.sequence \in Nat
    BY <1>3, HostNumbers DEF HostInv
  <2> QED
    BY <1>1, <2>1 DEF SnapshotFrom, SameProcess
<1>4. ASSUME NEW d \in D
      PROVE  DeviceOf(h, q, d)
  <2>1. DeviceOf(h, p, d) /\ d.sequence \in Int
    BY HostNumbers DEF HostInv
  <2> QED
    BY <1>1, <2>1 DEF DeviceOf, SameProcess
<1> QED
  BY <1>2, <1>3, <1>4

LEMMA StartedHost ==
  ASSUME NEW h \in Addresses, NEW p, NEW q, NEW w, NEW M, NEW D,
         HostInv(h, p, w, M, D), p.pc = "stopped", q.pc = "resolving"
  PROVE  /\ HostInv(h, q, w, M, D)
         /\ Undisturbed(h, q, w, M, D)
         /\ Disturbed(h, q, w, M, D)
<1>1. M = {} /\ D = {}
  BY DEF HostInv
<1> QED
  BY <1>1 DEF HostInv, Undisturbed, UndisturbedMail, UndisturbedAge, Disturbed, DisturbedMail,
              DisturbedAge, NoHandshake

LEMMA HelloSentHost ==
  ASSUME NEW h \in Addresses, NEW p, NEW q, NEW w, NEW v, NEW M, NEW N, NEW D,
         DelaysFit, HostTyped(h, p, w, M, D), HostTyped(h, q, v, N, D), HostInv(h, p, w, M, D),
         p.pc = "resolving", q.pc = "waiting", SameProcess(p, q), q.sequence = p.sequence,
         v = ReplySeconds, N = M \cup {HelloFrom(h, q)}
  PROVE  /\ HostInv(h, q, v, N, D)
         /\ Undisturbed(h, p, w, M, D) => Undisturbed(h, q, v, N, D)
         /\ Disturbed(h, p, w, M, D) => Disturbed(h, q, v, N, D)
<1> DEFINE m == HelloFrom(h, q)
<1>1. m.type = "hello" /\ m.port = q.port /\ HelloBy(h, q, m)
  BY DEF HelloFrom, Datagram, HelloBy
<1>2. m = HelloFrom(h, q) /\ N = M \cup {m}
  OBVIOUS
<1> HIDE DEF m
<1>3. ReplySeconds \in Nat /\ v > 0 /\ v <= ReplySeconds
  BY DelayNumbers DEF DelaysFit
<1>4. HostInv(h, q, v, N, D)
  <2>1. /\ \A n \in M : n.type = "hello" => HelloBy(h, q, n)
        /\ \A n \in M : n.type = "snapshot" => SnapshotFrom(h, q, n)
        /\ \A d \in D : DeviceOf(h, q, d)
    BY ProcessGoesOn DEF HostTyped
  <2> QED
    BY <1>1, <1>2, <1>3, <2>1 DEF HostInv
<1>5. ASSUME Undisturbed(h, p, w, M, D)
      PROVE  Undisturbed(h, q, v, N, D)
  <2>1. M = {} /\ N = {m}
    BY <1>2, <1>5 DEF Undisturbed, UndisturbedMail
  <2>2. UndisturbedMail(q, v, N, D)
    BY <1>1, <2>1 DEF UndisturbedMail
  <2>3. UndisturbedAge(h, q, v, N, D)
    BY <1>5 DEF Undisturbed, UndisturbedAge
  <2> QED
    BY <2>2, <2>3 DEF Undisturbed
<1>6. ASSUME Disturbed(h, p, w, M, D)
      PROVE  Disturbed(h, q, v, N, D)
  <2>1. NoHandshake(M)
    BY <1>6 DEF Disturbed, DisturbedMail
  <2>2. DisturbedMail(h, q, v, N, D)
    BY <1>1, <1>2, <2>1 DEF DisturbedMail, NoHandshake
  <2>3. ~ NoHandshake(N)
    BY <1>1, <1>2 DEF NoHandshake
  <2>4. DisturbedAge(h, q, v, N, D)
    BY <1>3, <1>6, <2>3 DEF Disturbed, DisturbedAge, InTime
  <2> QED
    BY <2>2, <2>4 DEF Disturbed
<1> QED
  BY <1>4, <1>5, <1>6

\* The reply is given up.  Without a fault it is always there in time.
LEMMA TimedOutHost ==
  ASSUME NEW h \in Addresses, NEW p, NEW q, NEW w, NEW v, NEW M, NEW D,
         DelaysFit, HostTyped(h, p, w, M, D), HostTyped(h, q, v, M, D), HostInv(h, p, w, M, D),
         p.pc = "waiting", w = 0, q.pc = "sleeping", SameProcess(p, q), q.sequence = p.sequence,
         v = RetrySeconds
  PROVE  /\ HostInv(h, q, v, M, D)
         /\ ~ Undisturbed(h, p, w, M, D)
         /\ Disturbed(h, p, w, M, D) => Disturbed(h, q, v, M, D)
<1>1. /\ Interval[h] \in Nat /\ ReplySeconds \in Nat /\ RetrySeconds \in Nat
      /\ MissedTurn(h) \in Nat
      /\ MissedTurn(h) >= Interval[h] + ReplySeconds + RetrySeconds
  BY DelayNumbers
<1>2. v > 0 /\ v <= MissedTurn(h)
  BY <1>1 DEF DelaysFit
<1>3. HostInv(h, q, v, M, D)
  <2>1. /\ \A n \in M : n.type = "hello" => HelloBy(h, q, n)
        /\ \A n \in M : n.type = "snapshot" => SnapshotFrom(h, q, n)
        /\ \A d \in D : DeviceOf(h, q, d)
    BY ProcessGoesOn DEF HostTyped
  <2> QED
    BY <1>2, <2>1 DEF HostInv
<1>4. ~ Undisturbed(h, p, w, M, D)
  BY DEF Undisturbed, UndisturbedMail, DelaysFit
<1>5. ASSUME Disturbed(h, p, w, M, D)
      PROVE  Disturbed(h, q, v, M, D)
  <2>1. DisturbedMail(h, q, v, M, D)
    BY <1>2 DEF DisturbedMail
  <2>2. ASSUME q.sequence <= MaxSequence, NEW d \in D, d.age # None
        PROVE  InTime(h, q, v, M, d)
    <3>1. d.age \in Int
      BY HostNumbers
    <3>2. InTime(h, p, w, M, d)
      BY <1>5, <2>2 DEF Disturbed, DisturbedAge
    <3>3. d.age + w + RetrySeconds <= MissedTurn(h)
      BY <3>2 DEF InTime
    <3>4. d.age + v <= MissedTurn(h)
      BY <1>1, <3>1, <3>3
    <3> QED
      BY <3>4 DEF InTime
  <2> QED
    BY <2>1, <2>2 DEF Disturbed, DisturbedAge
<1> QED
  BY <1>3, <1>4, <1>5

LEMMA WokenHost ==
  ASSUME NEW h \in Addresses, NEW p, NEW q, NEW w, NEW M, NEW D,
         HostTyped(h, p, w, M, D), HostTyped(h, q, w, M, D), HostInv(h, p, w, M, D),
         p.pc = "sleeping", w = 0, q.pc = "resolving", SameProcess(p, q), q.sequence = p.sequence
  PROVE  /\ HostInv(h, q, w, M, D)
         /\ Undisturbed(h, p, w, M, D) => Undisturbed(h, q, w, M, D)
         /\ Disturbed(h, p, w, M, D) => Disturbed(h, q, w, M, D)
<1>1. Interval[h] \in Nat /\ Interval[h] > 0 /\ MissedTurn(h) \in Nat
  BY DelayNumbers
<1>2. \A d \in D : d.age \in Int
  BY HostNumbers
<1>3. HostInv(h, q, w, M, D)
  <2>1. /\ \A n \in M : n.type = "hello" => HelloBy(h, q, n)
        /\ \A n \in M : n.type = "snapshot" => SnapshotFrom(h, q, n)
        /\ \A d \in D : DeviceOf(h, q, d)
    BY ProcessGoesOn DEF HostTyped
  <2> QED
    BY <2>1 DEF HostInv
<1>4. ASSUME Undisturbed(h, p, w, M, D)
      PROVE  Undisturbed(h, q, w, M, D)
  <2>1. /\ M = {}
        /\ p.sequence <= MaxSequence =>
             \A d \in D : d.age # None => d.age + w <= Interval[h]
    BY <1>1, <1>4 DEF Undisturbed, UndisturbedAge
  <2>2. ASSUME p.sequence <= MaxSequence, NEW d \in D
        PROVE  d.age <= Interval[h]
    <3>1. CASE d.age = None
      BY <1>1, <3>1 DEF None
    <3>2. CASE d.age # None
      BY <1>1, <1>2, <2>1, <2>2, <3>2
    <3> QED
      BY <3>1, <3>2
  <2> QED
    BY <2>1, <2>2 DEF Undisturbed, UndisturbedMail, UndisturbedAge
<1>5. ASSUME Disturbed(h, p, w, M, D)
      PROVE  Disturbed(h, q, w, M, D)
  <2>1. DisturbedMail(h, q, w, M, D)
    BY <1>5 DEF Disturbed, DisturbedMail
  <2>2. ASSUME q.sequence <= MaxSequence, NEW d \in D, d.age # None
        PROVE  InTime(h, q, w, M, d)
    <3>1. InTime(h, p, w, M, d)
      BY <1>5, <2>2 DEF Disturbed, DisturbedAge
    <3>2. d.age <= MissedTurn(h)
      BY <1>1, <1>2, <3>1 DEF InTime
    <3> QED
      BY <3>2 DEF InTime
  <2> QED
    BY <2>1, <2>2 DEF Disturbed, DisturbedAge
<1> QED
  BY <1>3, <1>4, <1>5

\* A failed lookup costs a host one interval.
LEMMA LookupFailedHost ==
  ASSUME NEW h \in Addresses, NEW p, NEW q, NEW w, NEW v, NEW M, NEW D,
         HostTyped(h, p, w, M, D), HostTyped(h, q, v, M, D), HostInv(h, p, w, M, D),
         p.pc = "resolving", q.pc = "sleeping", SameProcess(p, q), q.sequence = p.sequence,
         v = Interval[h]
  PROVE  /\ HostInv(h, q, v, M, D)
         /\ Undisturbed(h, p, w, M, D) => Disturbed(h, q, v, M, D)
<1>1. /\ Interval[h] \in Nat /\ Interval[h] > 0 /\ MissedTurn(h) \in Nat
      /\ MissedTurn(h) >= Interval[h] + Interval[h]
  BY DelayNumbers
<1>2. v > 0 /\ v <= MissedTurn(h)
  BY <1>1
<1>3. HostInv(h, q, v, M, D)
  <2>1. /\ \A n \in M : n.type = "hello" => HelloBy(h, q, n)
        /\ \A n \in M : n.type = "snapshot" => SnapshotFrom(h, q, n)
        /\ \A d \in D : DeviceOf(h, q, d)
    BY ProcessGoesOn DEF HostTyped
  <2> QED
    BY <1>2, <2>1 DEF HostInv
<1>4. ASSUME Undisturbed(h, p, w, M, D)
      PROVE  Disturbed(h, q, v, M, D)
  <2>1. DisturbedMail(h, q, v, M, D)
    BY <1>2 DEF DisturbedMail
  <2>2. ASSUME q.sequence <= MaxSequence, NEW d \in D, d.age # None
        PROVE  InTime(h, q, v, M, d)
    <3>1. d.age <= Interval[h] /\ d.age \in Int
      BY <1>4, <2>2, HostNumbers DEF Undisturbed, UndisturbedAge
    <3>2. d.age + v <= MissedTurn(h)
      BY <1>1, <3>1
    <3> QED
      BY <3>2 DEF InTime
  <2> QED
    BY <2>1, <2>2 DEF Disturbed, DisturbedAge
<1> QED
  BY <1>3, <1>4
-----------------------------------------------------------------------------
(* Time and lost datagrams *)

\* A datagram of the host is gone: a reply that no socket waits for, or any one at the
\* cost of a fault.
LEMMA DroppedHost ==
  ASSUME NEW h \in Addresses, NEW p, NEW w, NEW M, NEW N, NEW D, NEW m \in M,
         DelaysFit, HostTyped(h, p, w, M, D), HostInv(h, p, w, M, D), N = M \ {m}
  PROVE  /\ HostInv(h, p, w, N, D)
         /\ Undisturbed(h, p, w, M, D) => Disturbed(h, p, w, N, D)
         /\ m.type = "result" /\ m.port # p.port =>
              /\ Undisturbed(h, p, w, M, D) => Undisturbed(h, p, w, N, D)
              /\ Disturbed(h, p, w, M, D) => Disturbed(h, p, w, N, D)
<1>1. /\ Interval[h] \in Nat /\ Interval[h] > 0
      /\ ReplySeconds \in Nat /\ RetrySeconds \in Nat
      /\ MissedTurn(h) \in Nat /\ MissedTurn(h) >= Interval[h] + Interval[h]
      /\ MissedTurn(h) >= Interval[h] + ReplySeconds + RetrySeconds
  BY DelayNumbers
<1>2. HostInv(h, p, w, N, D)
  BY DEF HostInv
<1>3. ASSUME Undisturbed(h, p, w, M, D)
      PROVE  Disturbed(h, p, w, N, D)
  <2>1. DisturbedMail(h, p, w, N, D)
    <3>1. Disturbed(h, p, w, M, D)
      BY <1>3, UndisturbedIsDisturbed
    <3> QED
      BY <3>1 DEF Disturbed, DisturbedMail, NoHandshake
  <2>2. ASSUME p.sequence <= MaxSequence, NEW d \in D, d.age # None
        PROVE  InTime(h, p, w, N, d)
    <3>1. d.age \in Int /\ w \in Nat
      BY HostNumbers
    <3>2. CASE p.pc = "waiting"
      <4>1. d.age <= Interval[h] /\ w = ReplySeconds
        BY <1>3, <2>2, <3>2 DEF Undisturbed, UndisturbedMail, UndisturbedAge
      <4>2. d.age + w + RetrySeconds <= MissedTurn(h)
        BY <1>1, <3>1, <4>1
      <4> QED
        BY <3>2, <4>2 DEF InTime
    <3>3. CASE p.pc = "sleeping"
      <4>1. \/ d.age + w <= Interval[h]
            \/ w = Interval[h] /\ d.age <= Interval[h]
        BY <1>3, <2>2, <3>3 DEF Undisturbed, UndisturbedAge
      <4>2. d.age + w <= MissedTurn(h)
        BY <1>1, <3>1, <4>1
      <4> QED
        BY <3>3, <4>2 DEF InTime
    <3>4. p.pc # "resolving"
      BY <1>3 DEF Undisturbed, UndisturbedMail
    <3> QED
      BY <3>2, <3>3, <3>4 DEF InTime
  <2> QED
    BY <2>1, <2>2 DEF Disturbed, DisturbedAge
<1>4. ASSUME m.type = "result", m.port # p.port, Undisturbed(h, p, w, M, D)
      PROVE  FALSE
  BY <1>4 DEF Undisturbed, UndisturbedMail, UndisturbedAge, HostInv, HostTyped, DaemonType
<1>5. ASSUME m.type = "result", m.port # p.port, Disturbed(h, p, w, M, D)
      PROVE  Disturbed(h, p, w, N, D)
  <2>1. p.pc # "waiting"
    BY <1>5 DEF Disturbed, DisturbedMail
  <2>2. DisturbedMail(h, p, w, N, D)
    BY <1>5, <2>1 DEF Disturbed, DisturbedMail, NoHandshake
  <2>3. \A s \in M : s.type = "snapshot" => s \in N
    BY <1>5
  <2>4. \A d \in D : InTime(h, p, w, M, d) => InTime(h, p, w, N, d)
    BY <2>1, <2>3 DEF InTime
  <2>5. DisturbedAge(h, p, w, N, D)
    BY <1>5, <2>4 DEF Disturbed, DisturbedAge
  <2> QED
    BY <2>2, <2>5 DEF Disturbed
<1> QED
  BY <1>2, <1>3, <1>4, <1>5

\* A second has passed for a device.
Older(d, e) ==
  /\ Kept(d, e)
  /\ e.port = d.port
  /\ e.age <= d.age + 1

\* The processes that are due hold the clock back; others lose a second of their wait.
LEMMA OlderHost ==
  ASSUME NEW h \in Addresses, NEW p, NEW w, NEW v, NEW M, NEW D, NEW E,
         DelaysFit, HostTyped(h, p, w, M, D), HostTyped(h, p, v, M, E), HostInv(h, p, w, M, D),
         \/ w > 0 /\ p.pc \in {"waiting", "sleeping"}
         \/ p.sequence > MaxSequence /\ p.pc = "resolving",
         v = IF w > 0 THEN w - 1 ELSE 0,
         \A e \in E : \E d \in D : Older(d, e)
  PROVE  /\ HostInv(h, p, v, M, E)
         /\ Undisturbed(h, p, w, M, D) => Disturbed(h, p, v, M, E)
         /\ M = {} =>
              /\ Undisturbed(h, p, w, M, D) => Undisturbed(h, p, v, M, E)
              /\ Disturbed(h, p, w, M, D) => Disturbed(h, p, v, M, E)
<1>1. /\ Interval[h] \in Nat /\ Interval[h] > 0
      /\ ReplySeconds \in Nat /\ RetrySeconds \in Nat
      /\ MissedTurn(h) \in Nat /\ MissedTurn(h) >= Interval[h] + Interval[h]
      /\ MissedTurn(h) >= Interval[h] + ReplySeconds + RetrySeconds
  BY DelayNumbers
<1>2. /\ w \in Nat /\ v \in Nat /\ p.sequence \in Nat /\ MaxSequence \in Nat
      /\ \A d \in D : d.age \in Int
      /\ \A e \in E : e.age \in Int
  BY HostNumbers
<1>3. v <= w /\ (w > 0 => v = w - 1)
  BY <1>2
<1>4. \A e \in E : \E d \in D :
        /\ d.port = e.port /\ e.age <= d.age + 1 /\ (d.age = None <=> e.age = None)
  BY DEF Older, Kept
<1>5. D = {} => E = {}
  BY <1>4
<1>6. HostInv(h, p, v, M, E)
  <2>1. \A e \in E : DeviceOf(h, p, e)
    BY KeptDevice DEF HostInv, HostTyped, Older
  <2>2. /\ p.pc = "waiting" => v <= ReplySeconds
        /\ p.pc = "sleeping" => v <= MissedTurn(h)
    BY <1>1, <1>2, <1>3 DEF HostInv
  <2> QED
    BY <1>5, <2>1, <2>2 DEF HostInv
<1>7. ASSUME DisturbedMail(h, p, w, M, D), p.pc = "sleeping" => NoHandshake(M)
      PROVE  DisturbedMail(h, p, v, M, E)
  BY <1>4, <1>5, <1>7 DEF DisturbedMail
<1>8. p.sequence <= MaxSequence => w > 0 /\ p.pc \in {"waiting", "sleeping"}
  BY <1>2
<1>9. ASSUME Undisturbed(h, p, w, M, D)
      PROVE  Disturbed(h, p, v, M, E)
  <2>1. p.pc = "sleeping" => NoHandshake(M)
    BY <1>9 DEF Undisturbed, UndisturbedAge, NoHandshake
  <2>2. DisturbedMail(h, p, v, M, E)
    BY <1>7, <1>9, <2>1, UndisturbedIsDisturbed DEF Disturbed
  <2>3. ASSUME p.sequence <= MaxSequence, NEW e \in E, e.age # None
        PROVE  InTime(h, p, v, M, e)
    <3>1. PICK d \in D : e.age <= d.age + 1 /\ d.age # None
      BY <1>4, <2>3
    <3>2. e.age \in Int /\ d.age \in Int /\ v = w - 1
      BY <1>2, <1>3, <1>8, <2>3
    <3>3. CASE p.pc = "waiting"
      <4>1. d.age <= Interval[h] /\ w = ReplySeconds
        BY <1>9, <2>3, <3>3 DEF Undisturbed, UndisturbedMail, UndisturbedAge
      <4>2. e.age + v + RetrySeconds <= MissedTurn(h)
        BY <1>1, <1>2, <3>1, <3>2, <4>1
      <4> QED
        BY <3>3, <4>2 DEF InTime
    <3>4. CASE p.pc = "sleeping"
      <4>1. \/ d.age + w <= Interval[h]
            \/ w = Interval[h] /\ d.age <= Interval[h]
        BY <1>9, <2>3, <3>1, <3>4 DEF Undisturbed, UndisturbedAge
      <4>2. e.age + v <= MissedTurn(h)
        BY <1>1, <1>2, <3>1, <3>2, <4>1
      <4> QED
        BY <3>4, <4>2 DEF InTime
    <3> QED
      BY <1>8, <2>3, <3>3, <3>4
  <2> QED
    BY <2>2, <2>3 DEF Disturbed, DisturbedAge
<1>10. ASSUME M = {}, Undisturbed(h, p, w, M, D)
       PROVE  Undisturbed(h, p, v, M, E)
  <2>1. UndisturbedMail(p, v, M, E)
    BY <1>10 DEF Undisturbed, UndisturbedMail
  <2>2. ASSUME p.sequence <= MaxSequence, NEW e \in E, e.age # None
        PROVE  p.pc = "sleeping" /\ e.age + v <= Interval[h]
    <3>1. PICK d \in D : e.age <= d.age + 1 /\ d.age # None
      BY <1>4, <2>2
    <3>2. p.pc = "sleeping"
      BY <1>8, <1>10, <2>2 DEF Undisturbed, UndisturbedMail
    <3>3. d.age + w <= Interval[h]
      BY <1>10, <2>2, <3>1, <3>2 DEF Undisturbed, UndisturbedAge
    <3>4. e.age \in Int /\ d.age \in Int /\ v = w - 1
      BY <1>2, <1>3, <1>8, <2>2
    <3>5. e.age + v <= Interval[h]
      BY <1>1, <1>2, <3>1, <3>3, <3>4
    <3> QED
      BY <3>2, <3>5
  <2>3. UndisturbedAge(h, p, v, M, E)
    <3>1. p.pc = "waiting" => FALSE
      BY <1>10 DEF Undisturbed, UndisturbedMail
    <3>2. p.pc = "resolving" => ~ (p.sequence <= MaxSequence)
      BY <1>8
    <3> QED
      BY <1>10, <2>2, <3>1, <3>2 DEF UndisturbedAge
  <2> QED
    BY <2>1, <2>3 DEF Undisturbed
<1>11. ASSUME M = {}, Disturbed(h, p, w, M, D)
       PROVE  Disturbed(h, p, v, M, E)
  <2>1. NoHandshake(M)
    BY <1>11 DEF NoHandshake
  <2>2. DisturbedMail(h, p, v, M, E)
    BY <1>7, <1>11, <2>1 DEF Disturbed
  <2>3. ASSUME p.sequence <= MaxSequence, NEW e \in E, e.age # None
        PROVE  InTime(h, p, v, M, e)
    <3>1. PICK d \in D : e.age <= d.age + 1 /\ d.age # None
      BY <1>4, <2>3
    <3>2. e.age \in Int /\ d.age \in Int /\ v = w - 1
      BY <1>2, <1>3, <1>8, <2>3
    <3>3. InTime(h, p, w, M, d)
      BY <1>11, <2>3, <3>1 DEF Disturbed, DisturbedAge
    <3>4. CASE p.pc = "waiting"
      <4>1. d.age + w + RetrySeconds <= MissedTurn(h)
        BY <2>1, <3>3, <3>4 DEF InTime
      <4>2. e.age + v + RetrySeconds <= MissedTurn(h)
        BY <1>1, <1>2, <3>1, <3>2, <4>1
      <4> QED
        BY <3>4, <4>2 DEF InTime
    <3>5. CASE p.pc = "sleeping"
      <4>1. d.age + w <= MissedTurn(h)
        BY <1>11, <3>3, <3>5 DEF InTime
      <4>2. e.age + v <= MissedTurn(h)
        BY <1>1, <1>2, <3>1, <3>2, <4>1
      <4> QED
        BY <3>5, <4>2 DEF InTime
    <3> QED
      BY <1>8, <2>3, <3>4, <3>5
  <2> QED
    BY <2>2, <2>3 DEF Disturbed, DisturbedAge
<1> QED
  BY <1>6, <1>9, <1>10, <1>11
-----------------------------------------------------------------------------
(* Datagrams handled *)

\* A device of the host as a hello leaves it: moved to the hello's port, or new.
Greeted(h, p, D, e, port) ==
  /\ e.port = port
  /\ \/ \E d \in D : Kept(d, e) /\ e.age = d.age
     \/ e.age = None /\ DeviceOf(h, p, e)

\* A hello of the host is answered, and the hello gone or, as a fault, still there.
LEMMA GreetedHost ==
  ASSUME NEW h \in Addresses, NEW p, NEW w, NEW M, NEW N, NEW R, NEW D, NEW E, NEW m \in M, NEW r,
         DelaysFit, HostTyped(h, p, w, M, D), HostTyped(h, p, w, N, E), HostInv(h, p, w, M, D),
         m.type = "hello", r.type = "result", r.port = m.port,
         R \in {M, M \ {m}}, N = R \cup {r},
         r.body.accepted => \A e \in E : Greeted(h, p, D, e, m.port),
         ~ r.body.accepted => D = {} /\ E = {}
  PROVE  /\ HostInv(h, p, w, N, E)
         /\ Undisturbed(h, p, w, M, D) => Disturbed(h, p, w, N, E)
         /\ R = M \ {m} =>
              /\ Undisturbed(h, p, w, M, D) => Undisturbed(h, p, w, N, E)
              /\ Disturbed(h, p, w, M, D) => Disturbed(h, p, w, N, E)
<1>1. /\ Interval[h] \in Nat /\ Interval[h] > 0 /\ ReplySeconds \in Nat
      /\ MissedTurn(h) \in Nat /\ MissedTurn(h) >= Interval[h] + Interval[h]
  BY DelayNumbers
<1>2. /\ p.sequence \in Nat /\ w \in Nat /\ MaxSequence \in Nat
      /\ \A d \in D : d.age \in Int
      /\ \A e \in E : e.age \in Int
  BY HostNumbers
<1>3. HostInv(h, p, w, N, E)
  <2>1. \A e \in E : DeviceOf(h, p, e)
    BY KeptDevice DEF HostInv, HostTyped, Greeted
  <2>2. p.pc # "stopped"
    BY DEF HostInv
  <2> QED
    BY <2>1, <2>2 DEF HostInv
<1>4. \A e \in E : e.age # None => \E d \in D : Kept(d, e) /\ e.age = d.age /\ e.port = m.port
  BY DEF Greeted
<1>5. \A e \in E : r.body.accepted /\ e.port = m.port
  BY DEF Greeted
<1>6. ASSUME Undisturbed(h, p, w, M, D)
      PROVE  /\ p.pc = "waiting" /\ M = {m} /\ m.port = p.port /\ w = ReplySeconds
             /\ p.sequence <= MaxSequence => \A e \in E : e.age <= Interval[h]
  <2>1. p.pc = "waiting" /\ M = {m} /\ m.port = p.port /\ w = ReplySeconds
    BY <1>6, HostNumbers DEF Undisturbed, UndisturbedMail, UndisturbedAge, HostInv
  <2>2. p.sequence <= MaxSequence => \A d \in D : d.age <= Interval[h]
    BY <1>6, <2>1 DEF Undisturbed, UndisturbedAge
  <2>3. ASSUME p.sequence <= MaxSequence, NEW e \in E
        PROVE  e.age <= Interval[h]
    BY <1>1, <1>4, <2>2, <2>3 DEF None
  <2> QED
    BY <2>1, <2>3
<1>7. ASSUME Undisturbed(h, p, w, M, D), R = M \ {m}
      PROVE  Undisturbed(h, p, w, N, E)
  <2>1. N = {r}
    BY <1>6, <1>7
  <2>2. UndisturbedMail(p, w, N, E)
    BY <1>5, <1>6, <1>7, <2>1 DEF UndisturbedMail
  <2>3. UndisturbedAge(h, p, w, N, E)
    BY <1>6, <1>7 DEF UndisturbedAge
  <2> QED
    BY <2>2, <2>3 DEF Undisturbed
<1>8. ASSUME Undisturbed(h, p, w, M, D)
      PROVE  Disturbed(h, p, w, N, E)
  <2>1. m = HelloFrom(h, p)
    BY <1>6, <1>8, UndisturbedIsDisturbed DEF Disturbed, DisturbedMail
  <2>2. N \subseteq {m, r} /\ r \in N
    BY <1>6, <1>8
  <2>3. DisturbedMail(h, p, w, N, E)
    BY <1>5, <1>6, <1>8, <2>1, <2>2 DEF DisturbedMail
  <2>4. ASSUME p.sequence <= MaxSequence, NEW e \in E, e.age # None
        PROVE  InTime(h, p, w, N, e)
    <3>1. e.age <= MissedTurn(h) /\ w > 0
      BY <1>1, <1>2, <1>6, <1>8, <2>4 DEF DelaysFit
    <3>2. ~ NoHandshake(N)
      BY <2>2 DEF NoHandshake
    <3> QED
      BY <1>6, <1>8, <3>1, <3>2 DEF InTime
  <2> QED
    BY <2>3, <2>4 DEF Disturbed, DisturbedAge
<1>9. ASSUME Disturbed(h, p, w, M, D), R = M \ {m}
      PROVE  Disturbed(h, p, w, N, E)
  <2>1. DisturbedMail(h, p, w, M, D)
    BY <1>9 DEF Disturbed
  <2>2. p.pc # "resolving" /\ ~ (p.pc = "sleeping" /\ w = 0)
    BY <2>1 DEF DisturbedMail, NoHandshake
  <2>3. CASE p.pc = "waiting"
    <3>1. \A n \in N : n.type # "hello"
      BY <1>9, <2>1, <2>3 DEF DisturbedMail
    <3>2. m.port = p.port
      <4>1. m = HelloFrom(h, p)
        BY <2>1, <2>3 DEF DisturbedMail
      <4> QED
        BY <4>1 DEF HelloFrom, Datagram
    <3>3. ASSUME NEW n \in M, n.type = "result"
          PROVE  /\ n.port = p.port
                 /\ \A e \in E : e.port = p.port
                 /\ ~ n.body.accepted => \A e \in E : e.age = None
                 /\ \A s \in M : s.type # "snapshot"
      <4>1. /\ n.port = p.port
            /\ ~ n.body.accepted => \A d \in D : d.age = None
            /\ \A s \in M : s.type # "snapshot"
        BY <2>1, <2>3, <3>3 DEF DisturbedMail
      <4> QED
        BY <1>4, <1>5, <3>2, <4>1
    <3>4. DisturbedMail(h, p, w, N, E)
      BY <1>5, <1>9, <2>3, <3>1, <3>2, <3>3 DEF DisturbedMail
    <3>5. ASSUME p.sequence <= MaxSequence, NEW e \in E, e.age # None
          PROVE  InTime(h, p, w, N, e)
      <4>1. PICK d \in D : e.age = d.age
        BY <1>4, <3>5
      <4>2. InTime(h, p, w, M, d)
        BY <1>9, <3>5, <4>1 DEF Disturbed, DisturbedAge
      <4>3. ~ NoHandshake(N)
        BY DEF NoHandshake
      <4> QED
        BY <2>3, <4>1, <4>2, <4>3 DEF InTime
    <3> QED
      BY <3>4, <3>5 DEF Disturbed, DisturbedAge
  <2>4. CASE p.pc = "sleeping"
    <3>1. DisturbedMail(h, p, w, N, E)
      BY <2>2, <2>4 DEF DisturbedMail
    <3>2. ASSUME p.sequence <= MaxSequence, NEW e \in E, e.age # None
          PROVE  InTime(h, p, w, N, e)
      <4>1. PICK d \in D : Kept(d, e) /\ e.age = d.age /\ e.port = m.port
        BY <1>4, <3>2
      <4>2. InTime(h, p, w, M, d)
        BY <1>9, <3>2, <4>1 DEF Disturbed, DisturbedAge
      <4>3. CASE d.age + w <= MissedTurn(h)
        BY <2>4, <4>1, <4>3 DEF InTime
      <4>4. CASE /\ d.age <= MissedTurn(h)
                 /\ \E s \in M : /\ s.type = "snapshot"
                                 /\ Fits(d, s)
                                 /\ \A n \in M : n.type = "hello" => n.port = s.port
        <5>1. PICK s \in M : /\ s.type = "snapshot"
                             /\ Fits(d, s)
                             /\ \A n \in M : n.type = "hello" => n.port = s.port
          BY <4>4
        <5>2. Fits(e, s)
          BY <4>1, <5>1 DEF Fits, Acceptable, Kept
        <5>3. s \in N /\ \A n \in N : n.type = "hello" => n.port = s.port
          BY <1>9, <5>1
        <5> QED
          BY <2>4, <4>1, <4>4, <5>1, <5>2, <5>3 DEF InTime
      <4> QED
        BY <2>4, <4>2, <4>3, <4>4 DEF InTime
    <3> QED
      BY <3>1, <3>2 DEF Disturbed, DisturbedAge
  <2>5. p.pc # "stopped"
    BY DEF HostInv
  <2> QED
    BY <2>2, <2>3, <2>4, <2>5, HostNumbers
<1> QED
  BY <1>3, <1>7, <1>8, <1>9

\* The device has taken the snapshot over.
RefreshedBy(d, e, s) ==
  /\ e.id = d.id /\ e.instance = d.instance /\ e.interval = d.interval
  /\ e.sequence = s.body.sequence
  /\ e.age = 0
  /\ e.state = "Online"

\* A snapshot of the host has arrived: a device it fits has new data.
LEMMA UpdatedHost ==
  ASSUME NEW h \in Addresses, NEW p, NEW w, NEW M, NEW N, NEW D, NEW E, NEW s \in M,
         DelaysFit, HostTyped(h, p, w, M, D), HostTyped(h, p, w, N, E), HostInv(h, p, w, M, D),
         s.type = "snapshot", N \in {M, M \ {s}},
         \A e \in E : \E d \in D : \/ Fits(d, s) /\ RefreshedBy(d, e, s) /\ e.port = d.port
                                   \/ ~ Fits(d, s) /\ e = d
  PROVE  /\ HostInv(h, p, w, N, E)
         /\ Undisturbed(h, p, w, M, D) => Disturbed(h, p, w, N, E)
         /\ N = M \ {s} =>
              /\ Undisturbed(h, p, w, M, D) => Undisturbed(h, p, w, N, E)
              /\ Disturbed(h, p, w, M, D) => Disturbed(h, p, w, N, E)
<1>1. /\ Interval[h] \in Nat /\ Interval[h] > 0
      /\ ReplySeconds \in Nat /\ RetrySeconds \in Nat
      /\ MissedTurn(h) \in Nat /\ MissedTurn(h) >= Interval[h] + Interval[h]
      /\ MissedTurn(h) >= Interval[h] + ReplySeconds + RetrySeconds
  BY DelayNumbers
<1>2. /\ p.sequence \in Nat /\ w \in Nat /\ MaxSequence \in Nat
      /\ \A d \in D : d.age \in Int
      /\ \A e \in E : e.age \in Int
  BY HostNumbers
<1>3. /\ p.pc = "waiting" => w <= ReplySeconds
      /\ p.pc = "sleeping" => w <= MissedTurn(h)
      /\ p.pc # "stopped"
      /\ SnapshotFrom(h, p, s)
      /\ \A d \in D : DeviceOf(h, p, d)
  BY DEF HostInv
<1>4. HostInv(h, p, w, N, E)
  <2>1. ASSUME NEW d \in D, NEW e \in E, RefreshedBy(d, e, s)
        PROVE  DeviceOf(h, p, e)
    <3>1. NotShownStaler(e)
      BY <2>1 DEF RefreshedBy, NotShownStaler
    <3> QED
      BY <1>3, <2>1, <3>1 DEF RefreshedBy, DeviceOf, SnapshotFrom
  <2>2. \A e \in E : DeviceOf(h, p, e)
    BY <1>3, <2>1
  <2> QED
    BY <1>3, <2>2 DEF HostInv
<1>5. \A e \in E : \E d \in D : d.port = e.port /\ (e.age = 0 \/ (~ Fits(d, s) /\ e = d))
  BY DEF RefreshedBy
<1>6. ASSUME Undisturbed(h, p, w, M, D)
      PROVE  /\ p.pc = "sleeping" /\ M = {s} /\ w = Interval[h]
             /\ \A e \in E : e.age = 0
  <2>1. p.pc = "sleeping"
    BY <1>3, <1>6, HostNumbers DEF Undisturbed, UndisturbedMail
  <2>2. M = {s} /\ w = Interval[h] /\ \A d \in D : Fits(d, s)
    BY <1>6, <2>1 DEF Undisturbed, UndisturbedAge
  <2> QED
    BY <1>5, <2>1, <2>2
<1>7. ASSUME Undisturbed(h, p, w, M, D), N = M \ {s}
      PROVE  Undisturbed(h, p, w, N, E)
  <2>1. N = {}
    BY <1>6, <1>7
  <2>2. \A e \in E : e.age + w <= Interval[h]
    BY <1>1, <1>2, <1>6, <1>7
  <2> QED
    BY <1>6, <1>7, <2>1, <2>2 DEF Undisturbed, UndisturbedMail, UndisturbedAge
<1>8. ASSUME Undisturbed(h, p, w, M, D)
      PROVE  Disturbed(h, p, w, N, E)
  <2>1. w # 0
    BY <1>1, <1>6, <1>8
  <2>2. DisturbedMail(h, p, w, N, E)
    BY <1>6, <1>8, <2>1 DEF DisturbedMail
  <2>3. \A e \in E : e.age + w <= MissedTurn(h)
    BY <1>1, <1>2, <1>6, <1>8
  <2> QED
    BY <1>6, <1>8, <2>2, <2>3 DEF Disturbed, DisturbedAge, InTime
<1>9. ASSUME Disturbed(h, p, w, M, D), N = M \ {s}
      PROVE  Disturbed(h, p, w, N, E)
  <2>1. DisturbedMail(h, p, w, M, D)
    BY <1>9 DEF Disturbed
  <2>2. DisturbedMail(h, p, w, N, E)
    <3>1. NoHandshake(M) => NoHandshake(N)
      BY <1>9 DEF NoHandshake
    <3>2. ASSUME p.pc = "waiting", NEW m \in M, m.type = "result", ~ m.body.accepted
          PROVE  E = {}
      BY <1>5, <2>1, <3>2 DEF DisturbedMail
    <3>3. ASSUME p.pc = "waiting", NEW m \in M, m.type = "result", m.body.accepted
          PROVE  \A e \in E : e.port = p.port
      BY <1>5, <2>1, <3>3 DEF DisturbedMail
    <3> QED
      BY <1>9, <2>1, <3>1, <3>2, <3>3 DEF DisturbedMail
  <2>3. ASSUME p.sequence <= MaxSequence, NEW e \in E, e.age # None
        PROVE  InTime(h, p, w, N, e)
    <3>1. CASE e.age = 0
      <4>1. /\ 0 <= MissedTurn(h)
            /\ p.pc = "waiting" => 0 + w + RetrySeconds <= MissedTurn(h)
            /\ p.pc = "sleeping" => 0 + w <= MissedTurn(h)
        BY <1>1, <1>2, <1>3
      <4> QED
        BY <3>1, <4>1 DEF InTime
    <3>2. CASE e \in D /\ ~ Fits(e, s)
      <4>1. InTime(h, p, w, M, e)
        BY <1>9, <2>3, <3>2 DEF Disturbed, DisturbedAge
      <4>2. ~ NoHandshake(M) => ~ NoHandshake(N)
        BY <1>9 DEF NoHandshake
      <4> QED
        BY <1>9, <3>2, <4>1, <4>2 DEF InTime
    <3> QED
      BY <1>5, <3>1, <3>2
  <2> QED
    BY <2>2, <2>3 DEF Disturbed, DisturbedAge
<1> QED
  BY <1>4, <1>7, <1>8, <1>9

\* The snapshot a process sends fits the device whose port the reply was sent to.
LEMMA OwnSnapshotFits ==
  ASSUME NEW h, NEW p, NEW d, NEW s, DeviceOf(h, p, d), d.address = h,
         d.sequence \in Int, p.sequence \in Int,
         s.body.instance = <<h, p.starts>>, s.body.interval = Interval[h],
         s.body.sequence = p.sequence, s.address = h, s.port = d.port
  PROVE  Fits(d, s)
BY DEF Fits, Acceptable, DeviceOf

\* The process takes the reply for an acceptance, and sends the snapshot of its turn.
Taken(h, p, q, v, r) ==
  /\ r.type = "result" /\ r.port = p.port
  /\ p.pc = "waiting" /\ q.pc = "sleeping"
  /\ q.starts = p.starts /\ q.sequence = p.sequence + 1
  /\ v = Interval[h]

SentNow(h, p, r, s) ==
  /\ s.type = "snapshot" /\ s.address = h /\ s.port = r.port
  /\ s.body.id = Identity[h] /\ s.body.instance = <<h, p.starts>>
  /\ s.body.interval = Interval[h] /\ s.body.sequence = p.sequence

\* A reply that passes for an acceptance makes the process send a snapshot.
LEMMA TakenHost ==
  ASSUME NEW h \in Addresses, NEW p, NEW q, NEW w, NEW v, NEW M, NEW N, NEW R, NEW D,
         NEW r \in M, NEW s, DelaysFit,
         HostTyped(h, p, w, M, D), HostTyped(h, q, v, N, D), HostInv(h, p, w, M, D),
         Taken(h, p, q, v, r), SentNow(h, p, r, s), R \in {M, M \ {r}}, N = R \cup {s}
  PROVE  /\ HostInv(h, q, v, N, D)
         /\ Undisturbed(h, p, w, M, D) => Disturbed(h, q, v, N, D)
         /\ R = M \ {r} =>
              /\ Undisturbed(h, p, w, M, D) => Undisturbed(h, q, v, N, D)
              /\ Disturbed(h, p, w, M, D) => Disturbed(h, q, v, N, D)
<1> USE DEF Taken, SentNow
<1>1. /\ Interval[h] \in Nat /\ Interval[h] > 0
      /\ ReplySeconds \in Nat /\ RetrySeconds \in Nat
      /\ MissedTurn(h) \in Nat /\ MissedTurn(h) >= Interval[h] + Interval[h]
  BY DelayNumbers
<1>2. /\ p.sequence \in Nat /\ q.sequence \in Nat /\ w \in Nat /\ MaxSequence \in Nat
      /\ \A d \in D : d.age \in Int /\ d.sequence \in Int
  BY HostNumbers
<1>3. SameProcess(p, q) /\ v > 0 /\ v <= MissedTurn(h)
  BY <1>1, <1>2 DEF SameProcess
<1>4. HostInv(h, q, v, N, D)
  <2>1. /\ \A n \in M : n.type = "hello" => HelloBy(h, q, n)
        /\ \A n \in M : n.type = "snapshot" => SnapshotFrom(h, q, n)
        /\ \A d \in D : DeviceOf(h, q, d)
    BY <1>3, ProcessGoesOn DEF HostTyped
  <2>2. SnapshotFrom(h, q, s)
    BY <1>2 DEF SnapshotFrom
  <2> QED
    BY <1>3, <2>1, <2>2 DEF HostInv
<1>5. ASSUME NEW d \in D, d.port = p.port
      PROVE  Fits(d, s)
  <2>1. DeviceOf(h, p, d) /\ d.address = h
    BY DEF HostInv, HostTyped
  <2> QED
    BY <1>2, <1>5, <2>1, OwnSnapshotFits
<1>6. q.sequence <= MaxSequence => p.sequence <= MaxSequence
  BY <1>2
<1>7. ASSUME Undisturbed(h, p, w, M, D)
      PROVE  /\ M = {r}
             /\ \A d \in D : Fits(d, s)
             /\ q.sequence <= MaxSequence => \A d \in D : d.age <= Interval[h]
  <2>1. /\ M = {r}
        /\ \A d \in D : d.port = r.port
    BY <1>7 DEF Undisturbed, UndisturbedMail
  <2>2. q.sequence <= MaxSequence => \A d \in D : d.age <= Interval[h]
    BY <1>6, <1>7 DEF Undisturbed, UndisturbedAge
  <2> QED
    BY <1>5, <2>1, <2>2
<1>8. ASSUME Undisturbed(h, p, w, M, D), R = M \ {r}
      PROVE  Undisturbed(h, q, v, N, D)
  <2>1. N = {s}
    BY <1>7, <1>8
  <2> QED
    BY <1>7, <1>8, <2>1 DEF Undisturbed, UndisturbedMail, UndisturbedAge
<1>9. ASSUME Disturbed(h, p, w, M, D)
      PROVE  Disturbed(h, q, v, N, D)
  <2>1. DisturbedMail(h, q, v, N, D)
    BY <1>3 DEF DisturbedMail
  <2>2. DisturbedMail(h, p, w, M, D)
    BY <1>9 DEF Disturbed
  <2>3. \A m \in N : m.type = "hello" => m.port = s.port
    BY <2>2 DEF DisturbedMail, HelloFrom, Datagram
  <2>4. ASSUME q.sequence <= MaxSequence, NEW d \in D, d.age # None
        PROVE  InTime(h, q, v, N, d)
    <3>1. d.port = p.port
      BY <2>2, <2>4 DEF DisturbedMail
    <3>2. Fits(d, s) /\ s \in N
      BY <1>5, <3>1
    <3>3. InTime(h, p, w, M, d)
      BY <1>6, <1>9, <2>4 DEF Disturbed, DisturbedAge
    <3>4. d.age <= MissedTurn(h)
      <4>1. CASE d.age + w + RetrySeconds <= MissedTurn(h)
        BY <1>1, <1>2, <4>1
      <4> QED
        BY <3>3, <4>1 DEF InTime
    <3> QED
      BY <2>3, <3>2, <3>4 DEF InTime
  <2> QED
    BY <2>1, <2>4 DEF Disturbed, DisturbedAge
<1>10. Undisturbed(h, p, w, M, D) => Disturbed(h, q, v, N, D)
  BY <1>9, UndisturbedIsDisturbed
<1> QED
  BY <1>4, <1>8, <1>9, <1>10

\* A reply that does not: the host is not shown, so nothing gets old.
LEMMA RefusedHost ==
  ASSUME NEW h \in Addresses, NEW p, NEW q, NEW w, NEW v, NEW M, NEW N, NEW D,
         NEW r \in M, DelaysFit,
         HostTyped(h, p, w, M, D), HostTyped(h, q, v, N, D), HostInv(h, p, w, M, D),
         r.type = "result", ~ r.body.accepted, p.pc = "waiting", q.pc = "sleeping",
         q.starts = p.starts, q.sequence = p.sequence, v = RetrySeconds,
         N \in {M, M \ {r}}
  PROVE  /\ HostInv(h, q, v, N, D)
         /\ Undisturbed(h, p, w, M, D) => Disturbed(h, q, v, N, D)
         /\ N = M \ {r} =>
              /\ Undisturbed(h, p, w, M, D) => Undisturbed(h, q, v, N, D)
              /\ Disturbed(h, p, w, M, D) => Disturbed(h, q, v, N, D)
<1>1. /\ Interval[h] \in Nat /\ ReplySeconds \in Nat /\ RetrySeconds \in Nat
      /\ MissedTurn(h) \in Nat
      /\ MissedTurn(h) >= Interval[h] + ReplySeconds + RetrySeconds
  BY DelayNumbers
<1>2. v > 0 /\ v <= MissedTurn(h)
  BY <1>1 DEF DelaysFit
<1>3. SameProcess(p, q)
  BY HostNumbers DEF SameProcess
<1>4. HostInv(h, q, v, N, D)
  <2>1. /\ \A n \in M : n.type = "hello" => HelloBy(h, q, n)
        /\ \A n \in M : n.type = "snapshot" => SnapshotFrom(h, q, n)
        /\ \A d \in D : DeviceOf(h, q, d)
    BY <1>3, ProcessGoesOn DEF HostTyped
  <2> QED
    BY <1>2, <2>1 DEF HostInv
<1>5. ASSUME Undisturbed(h, p, w, M, D), N = M \ {r}
      PROVE  Undisturbed(h, q, v, N, D)
  <2>1. M = {r} /\ D = {}
    BY <1>5 DEF Undisturbed, UndisturbedMail
  <2>2. N = {}
    BY <1>5, <2>1
  <2> QED
    BY <2>1, <2>2 DEF Undisturbed, UndisturbedMail, UndisturbedAge
<1>6. ASSUME Disturbed(h, p, w, M, D)
      PROVE  Disturbed(h, q, v, N, D)
  <2>1. \A d \in D : d.age = None
    BY <1>6 DEF Disturbed, DisturbedMail
  <2> QED
    BY <1>2, <2>1 DEF Disturbed, DisturbedMail, DisturbedAge
<1>7. Undisturbed(h, p, w, M, D) => Disturbed(h, q, v, N, D)
  BY <1>6, UndisturbedIsDisturbed
<1> QED
  BY <1>4, <1>5, <1>6, <1>7
-----------------------------------------------------------------------------
(* The registry, address by address *)

LEMMA DeviceAtAddress ==
  ASSUME NEW ds, NEW h, NEW e
  PROVE  e \in DevicesAt(ds, h) <=> \E i \in DOMAIN ds : e = ds[i] /\ e.address = h
BY DEF DevicesAt

LEMMA FreshStays ==
  ASSUME NEW d \in Device, DeviceConsistent(d)
  PROVE  Stays(d, Freshened(d))
<1>1. d.age \in Int
  BY DeviceNumbers
<1>2. CASE d.age = None
  BY <1>1, <1>2 DEF Freshened, Stays, Kept
<1>3. CASE d.age # None
  <2> DEFINE st == StateAt(d.age, d.interval)
  <2>1. Freshened(d) = [d EXCEPT !.state = st]
    BY <1>3 DEF Freshened
  <2> HIDE DEF st
  <2>2. /\ Freshened(d).id = d.id /\ Freshened(d).interval = d.interval
        /\ Freshened(d).instance = d.instance /\ Freshened(d).address = d.address
        /\ Freshened(d).port = d.port /\ Freshened(d).sequence = d.sequence
        /\ Freshened(d).age = d.age /\ Freshened(d).state = st
    BY <2>1 DEF Device
  <2> QED
    BY <1>1, <1>3, <2>2 DEF Stays, Kept, st
<1> QED
  BY <1>2, <1>3

\* The table as every hello and the freshness timer see it.
LEMMA FreshAddresses ==
  ASSUME RegistryInv, SomeAddress(devices), NEW fresh, fresh = UpdateFreshness(devices)
  PROVE  /\ GoodTable(devices) /\ GoodTable(fresh)
         /\ DOMAIN fresh = DOMAIN devices /\ Len(fresh) = Len(devices)
         /\ \A i \in DOMAIN devices :
              devices[i] \in Device /\ fresh[i] \in Device /\ Stays(devices[i], fresh[i])
         /\ SomeAddress(fresh)
<1>1. GoodTable(devices)
  BY DEF RegistryInv
<1>2. /\ GoodTable(fresh) /\ DOMAIN fresh = DOMAIN devices /\ Len(fresh) = Len(devices)
      /\ \A i \in DOMAIN devices : fresh[i] = Freshened(devices[i])
  BY <1>1, FreshTable
<1>3. \A i \in DOMAIN devices : devices[i] \in Device /\ DeviceConsistent(devices[i])
  BY <1>1 DEF GoodTable
<1>4. \A i \in DOMAIN devices : fresh[i] \in Device
  BY <1>2 DEF GoodTable
<1>5. \A i \in DOMAIN devices : Stays(devices[i], fresh[i])
  BY <1>2, <1>3, FreshStays
<1>6. SomeAddress(fresh)
  BY <1>2, <1>5 DEF SomeAddress, Stays, Kept
<1> QED
  BY <1>1, <1>2, <1>3, <1>4, <1>5, <1>6

LEMMA FreshThinned ==
  ASSUME RegistryInv, SomeAddress(devices), NEW fresh, fresh = UpdateFreshness(devices), NEW h
  PROVE  Thinned(DevicesAt(devices, h), DevicesAt(fresh, h))
<1> SUFFICES ASSUME NEW e \in DevicesAt(fresh, h)
             PROVE  \E d \in DevicesAt(devices, h) : Stays(d, e)
  BY DEF Thinned
<1>1. PICK i \in DOMAIN fresh : e = fresh[i] /\ e.address = h
  BY DeviceAtAddress
<1>2. i \in DOMAIN devices /\ Stays(devices[i], e)
  BY <1>1, FreshAddresses
<1>3. devices[i] \in DevicesAt(devices, h)
  BY <1>1, <1>2, DeviceAtAddress DEF Stays, Kept
<1> QED
  BY <1>2, <1>3

\* A second passes for every device.
LEMMA TickOlder ==
  ASSUME RegistryInv, SomeAddress(devices), Tick, NEW h
  PROVE  /\ SomeAddress(devices')
         /\ \A e \in DevicesAt(devices', h) : \E d \in DevicesAt(devices, h) : Older(d, e)
<1>1. /\ GoodTable(devices) /\ DOMAIN devices = 1..Len(devices) /\ Len(devices) \in Nat
      /\ \A i \in DOMAIN devices : devices[i] \in Device
  BY DEF RegistryInv, GoodTable
<1>2. DOMAIN devices' = DOMAIN devices /\ \A i \in DOMAIN devices : devices'[i] = Aged(devices[i])
  BY <1>1 DEF Tick
<1>3. ASSUME NEW i \in DOMAIN devices
      PROVE  Older(devices[i], Aged(devices[i]))
  <2> DEFINE d == devices[i]
  <2>1. d \in Device /\ d.age \in Int /\ d.age \in (0..MaxAge) \cup {None}
    BY <1>1, DeviceNumbers DEF Device
  <2> HIDE DEF d
  <2>2. CASE Aged(d) = d
    BY <2>1, <2>2 DEF Older, Kept, d
  <2>3. CASE Aged(d) # d
    <3>1. Aged(d) = [d EXCEPT !.age = d.age + 1] /\ d.age # None
      BY <2>3 DEF Aged
    <3>2. d.age \in Nat
      BY <2>1, <3>1, ConstantFacts
    <3>3. /\ Aged(d).id = d.id /\ Aged(d).interval = d.interval
          /\ Aged(d).instance = d.instance /\ Aged(d).address = d.address
          /\ Aged(d).port = d.port /\ Aged(d).sequence = d.sequence
          /\ Aged(d).age = d.age + 1 /\ Aged(d).state = d.state
      BY <2>1, <3>1 DEF Device
    <3>4. d.age + 1 # None /\ d.age + 1 >= d.age /\ d.age + 1 <= d.age + 1
      BY <3>2 DEF None
    <3> QED
      BY <3>1, <3>3, <3>4 DEF Older, Kept, d
  <2> QED
    BY <2>2, <2>3
<1>4. SomeAddress(devices')
  BY <1>2, <1>3 DEF SomeAddress, Older, Kept
<1>5. ASSUME NEW e \in DevicesAt(devices', h)
      PROVE  \E d \in DevicesAt(devices, h) : Older(d, e)
  <2>1. PICK i \in DOMAIN devices' : e = devices'[i] /\ e.address = h
    BY DeviceAtAddress
  <2>2. i \in DOMAIN devices /\ Older(devices[i], e)
    BY <1>2, <1>3, <2>1
  <2>3. devices[i] \in DevicesAt(devices, h)
    BY <2>1, <2>2, DeviceAtAddress DEF Older, Kept
  <2> QED
    BY <2>2, <2>3
<1> QED
  BY <1>4, <1>5

\* Every device belongs to the process of the host at its address.
AllOf(ds, dm) == \A i \in DOMAIN ds : DeviceOf(ds[i].address, dm[ds[i].address], ds[i])

\* A snapshot concerns the device of its sender, and only that one.
LEMMA SnapshotReplaces ==
  ASSUME RegistryInv, SomeAddress(devices), AllOf(devices, daemon),
         NEW s \in Datagrams, s.type = "snapshot",
         SnapshotFrom(s.address, daemon[s.address], s),
         NEW accepted, AcceptSnapshot(s.body, s.address, s.port, accepted)
  PROVE  /\ SomeAddress(devices')
         /\ \A h : h # s.address => DevicesAt(devices', h) = DevicesAt(devices, h)
         /\ \A e \in DevicesAt(devices', s.address) : \E d \in DevicesAt(devices, s.address) :
              \/ Fits(d, s) /\ RefreshedBy(d, e, s) /\ e.port = d.port
              \/ ~ Fits(d, s) /\ e = d
<1> DEFINE a == s.address
<1>1. /\ GoodTable(devices)
      /\ \A i \in DOMAIN devices : devices[i] \in Device
      /\ \A i, j \in DOMAIN devices : devices[i].id = devices[j].id => i = j
  BY DEF RegistryInv, GoodTable, DistinctAndBounded
<1>2. ASSUME NEW i \in DOMAIN devices, devices[i].address = a
      PROVE  devices[i].id = s.body.id
  BY <1>2 DEF AllOf, DeviceOf, SnapshotFrom
<1>3. ASSUME NEW i \in DOMAIN devices,
             FirstMatch(devices, i, s.body.id),
             Acceptable(devices[i], s.body, a, s.port),
             devices' = [devices EXCEPT ![i] =
               [@ EXCEPT !.sequence = s.body.sequence, !.info = s.body.info,
                         !.metrics = s.body.metrics, !.age = 0, !.state = "Online"]]
      PROVE  /\ SomeAddress(devices')
             /\ \A h : h # a => DevicesAt(devices', h) = DevicesAt(devices, h)
             /\ \A e \in DevicesAt(devices', a) : \E d \in DevicesAt(devices, a) :
                  \/ Fits(d, s) /\ RefreshedBy(d, e, s) /\ e.port = d.port
                  \/ ~ Fits(d, s) /\ e = d
  <2> DEFINE d == devices[i]
  <2> DEFINE e == [d EXCEPT !.sequence = s.body.sequence, !.info = s.body.info,
                            !.metrics = s.body.metrics, !.age = 0, !.state = "Online"]
  <2>1. d \in Device /\ d.address = a /\ Fits(d, s) /\ d.id = s.body.id
    BY <1>1, <1>3 DEF Acceptable, Fits, FirstMatch
  <2>2. devices' = [devices EXCEPT ![i] = e]
    BY <1>3
  <2>3. d = devices[i]
    OBVIOUS
  <2> HIDE DEF d
  <2>4. e.address = a /\ e.port = d.port /\ RefreshedBy(d, e, s)
    BY <2>1 DEF Device, RefreshedBy
  <2> HIDE DEF e
  <2>5. /\ DOMAIN devices' = DOMAIN devices
        /\ devices'[i] = e
        /\ \A j \in DOMAIN devices : j # i => devices'[j] = devices[j]
    BY <2>2
  <2>6. SomeAddress(devices')
    BY <2>1, <2>3, <2>4, <2>5 DEF SomeAddress
  <2>7. ASSUME NEW h, h # a
        PROVE  DevicesAt(devices', h) = DevicesAt(devices, h)
    <3>1. ASSUME NEW x
          PROVE  x \in DevicesAt(devices', h) <=> x \in DevicesAt(devices, h)
      <4>1. x \in DevicesAt(devices', h) <=> \E j \in DOMAIN devices' : x = devices'[j] /\ x.address = h
        BY DeviceAtAddress
      <4>2. x \in DevicesAt(devices, h) <=> \E j \in DOMAIN devices : x = devices[j] /\ x.address = h
        BY DeviceAtAddress
      <4> QED
        BY <2>1, <2>3, <2>4, <2>5, <2>7, <4>1, <4>2
    <3> QED
      BY <3>1
  <2>8. ASSUME NEW x \in DevicesAt(devices', a)
        PROVE  x = e
    <3>1. PICK j \in DOMAIN devices' : x = devices'[j] /\ x.address = a
      BY DeviceAtAddress
    <3>2. CASE j # i
      <4>1. devices[j].id = s.body.id /\ j \in DOMAIN devices
        BY <1>2, <2>5, <3>1, <3>2
      <4> QED
        BY <1>1, <2>1, <2>3, <3>2, <4>1
    <3> QED
      BY <2>5, <3>1, <3>2
  <2>9. d \in DevicesAt(devices, a)
    BY <2>1, <2>3, DeviceAtAddress
  <2> QED
    BY <2>1, <2>4, <2>6, <2>7, <2>8, <2>9
<1>4. ASSUME UNCHANGED registryVars,
             \/ Unknown(devices, s.body.id)
             \/ \E i \in DOMAIN devices :
                  /\ FirstMatch(devices, i, s.body.id)
                  /\ ~ Acceptable(devices[i], s.body, a, s.port)
      PROVE  /\ devices' = devices
             /\ \A e \in DevicesAt(devices, a) : ~ Fits(e, s)
  <2>1. devices' = devices
    BY <1>4 DEF registryVars
  <2>2. ASSUME NEW e \in DevicesAt(devices, a)
        PROVE  ~ Fits(e, s)
    <3>1. PICK j \in DOMAIN devices : e = devices[j] /\ e.address = a
      BY DeviceAtAddress
    <3>2. devices[j].id = s.body.id
      BY <1>2, <3>1
    <3>3. PICK i \in DOMAIN devices : /\ FirstMatch(devices, i, s.body.id)
                                      /\ ~ Acceptable(devices[i], s.body, a, s.port)
      BY <1>4, <3>2 DEF Unknown
    <3>4. i = j
      BY <1>1, <3>2, <3>3 DEF FirstMatch
    <3> QED
      BY <3>1, <3>3, <3>4 DEF Fits
  <2> QED
    BY <2>1, <2>2
<1> QED
  BY <1>3, <1>4 DEF AcceptSnapshot

\* A hello concerns the device with the host's identity.  Accepted, it moves that device to
\* the hello's host and port, perhaps away from another host; rejected, its host is not shown.
LEMMA HelloGreets ==
  ASSUME RegistryInv, DaemonsInv(daemon), SomeAddress(devices), AllOf(devices, daemon),
         NEW m \in Datagrams, m.type = "hello", HelloBy(m.address, daemon[m.address], m),
         NEW reason, RegisterHello(m.body, m.address, m.port, reason)
  PROVE  /\ SomeAddress(devices')
         /\ \A h : h # m.address => Thinned(DevicesAt(devices, h), DevicesAt(devices', h))
         /\ reason = "" =>
              \A e \in DevicesAt(devices', m.address) :
                Greeted(m.address, daemon[m.address], DevicesAt(devices, m.address), e, m.port)
         /\ reason # "" => DevicesAt(devices, m.address) = {} /\ DevicesAt(devices', m.address) = {}
<1> DEFINE a == m.address
<1> DEFINE hello == m.body
<1> DEFINE fresh == UpdateFreshness(devices)
<1>1. a \in Addresses /\ m.port \in Ports /\ hello \in Hello
  BY MessageTypes
<1>2. /\ hello.id = Identity[a] /\ hello.instance = <<a, daemon[a].starts>>
      /\ hello.interval = Interval[a]
  BY DEF HelloBy
<1>3. fresh = UpdateFreshness(devices)
  OBVIOUS
<1> HIDE DEF fresh
<1>4. /\ GoodTable(devices) /\ GoodTable(fresh)
      /\ DOMAIN fresh = DOMAIN devices /\ Len(fresh) = Len(devices)
      /\ \A i \in DOMAIN devices :
           devices[i] \in Device /\ fresh[i] \in Device /\ Stays(devices[i], fresh[i])
      /\ SomeAddress(fresh)
  BY <1>3, FreshAddresses
<1>5. \A h : Thinned(DevicesAt(devices, h), DevicesAt(fresh, h))
  BY <1>3, FreshThinned
<1>6. \A i, j \in DOMAIN fresh : fresh[i].id = fresh[j].id => i = j
  BY <1>4 DEF GoodTable, DistinctAndBounded
<1>7. ASSUME NEW i \in DOMAIN fresh, fresh[i].address = a
      PROVE  fresh[i].id = hello.id
  <2>1. DeviceOf(devices[i].address, daemon[devices[i].address], devices[i])
    BY <1>4 DEF AllOf
  <2> QED
    BY <1>2, <1>4, <1>7, <2>1 DEF DeviceOf, Stays, Kept
<1> HIDE DEF a, hello
<1>8. ASSUME DevicesAt(fresh, a) = {}
      PROVE  DevicesAt(devices, a) = {}
  <2>1. ASSUME NEW d \in DevicesAt(devices, a)
        PROVE  FALSE
    <3>1. PICK i \in DOMAIN devices : d = devices[i] /\ d.address = a
      BY DeviceAtAddress
    <3>2. fresh[i].address = a /\ i \in DOMAIN fresh
      BY <1>4, <3>1 DEF Stays, Kept
    <3>3. fresh[i] \in DevicesAt(fresh, a)
      BY <3>2, DeviceAtAddress
    <3> QED
      BY <1>8, <3>3
  <2> QED
    BY <2>1
<1> DEFINE Goal ==
      /\ SomeAddress(devices')
      /\ \A h : h # a => Thinned(DevicesAt(devices, h), DevicesAt(devices', h))
      /\ reason = "" =>
           \A e \in DevicesAt(devices', a) :
             Greeted(a, daemon[a], DevicesAt(devices, a), e, m.port)
      /\ reason # "" => DevicesAt(devices, a) = {} /\ DevicesAt(devices', a) = {}
<1>9. ASSUME devices' = fresh, reason # "",
             \/ Unknown(fresh, hello.id)
             \/ \E i \in DOMAIN fresh : FirstMatch(fresh, i, hello.id) /\ Clashes(fresh[i], hello, a)
      PROVE  Goal
  <2>1. ASSUME NEW e \in DevicesAt(fresh, a)
        PROVE  FALSE
    <3>1. PICK j \in DOMAIN fresh : e = fresh[j] /\ e.address = a
      BY DeviceAtAddress
    <3>2. fresh[j].id = hello.id
      BY <1>7, <3>1
    <3>3. PICK i \in DOMAIN fresh : FirstMatch(fresh, i, hello.id) /\ Clashes(fresh[i], hello, a)
      BY <1>9, <3>2 DEF Unknown
    <3>4. i = j
      BY <1>6, <3>2, <3>3 DEF FirstMatch
    <3> QED
      BY <3>1, <3>3, <3>4 DEF Clashes
  <2>2. DevicesAt(fresh, a) = {}
    BY <2>1
  <2> QED
    BY <1>4, <1>5, <1>8, <1>9, <2>2
<1>10. ASSUME NEW i \in DOMAIN fresh, FirstMatch(fresh, i, hello.id), reason = "",
              devices' = [fresh EXCEPT ![i] = Reregistered(fresh[i], hello, a, m.port)]
       PROVE  Goal
  <2> DEFINE d == fresh[i]
  <2> DEFINE e == Reregistered(d, hello, a, m.port)
  <2>1. d \in Device /\ d.id = hello.id /\ i \in DOMAIN devices /\ Stays(devices[i], d)
    BY <1>4, <1>10 DEF FirstMatch
  <2>2. d = fresh[i] /\ e = Reregistered(d, hello, a, m.port) /\ devices' = [fresh EXCEPT ![i] = e]
    BY <1>10
  <2> HIDE DEF d
  <2>3. e.address = a /\ e.port = m.port
        /\ Greeted(a, daemon[a], DevicesAt(devices, a), e, m.port)
    <3>1. CASE d.instance = hello.instance
      <4>1. e = [d EXCEPT !.interval = hello.interval, !.info = hello.info,
                          !.address = a, !.port = m.port]
        BY <3>1 DEF Reregistered
      <4> HIDE DEF e
      <4>2. /\ e.id = d.id /\ e.instance = d.instance /\ e.interval = hello.interval
            /\ e.address = a /\ e.port = m.port /\ e.sequence = d.sequence
            /\ e.state = d.state /\ e.age = d.age
        BY <2>1, <4>1 DEF Device
      <4>3. DeviceOf(devices[i].address, daemon[devices[i].address], devices[i])
        BY <2>1 DEF AllOf
      <4>4. devices[i].instance = d.instance /\ devices[i].interval = d.interval
            /\ devices[i].address = d.address
        BY <2>1 DEF Stays, Kept
      <4>5. devices[i].address = a
        BY <1>2, <3>1, <4>3, <4>4 DEF DeviceOf, a, hello
      <4>6. e.interval = devices[i].interval
        BY <1>2, <4>2, <4>3, <4>5 DEF DeviceOf, a, hello
      <4>7. Kept(devices[i], e) /\ e.age = devices[i].age
        BY <2>1, <4>2, <4>4, <4>5, <4>6 DEF Stays, Kept
      <4>8. devices[i] \in DevicesAt(devices, a)
        BY <2>1, <4>5, DeviceAtAddress
      <4> QED
        BY <4>2, <4>7, <4>8 DEF Greeted
    <3>2. CASE d.instance # hello.instance
      <4>1. e = [[d EXCEPT !.interval = hello.interval, !.info = hello.info,
                           !.address = a, !.port = m.port]
                  EXCEPT !.instance = hello.instance, !.sequence = None,
                         !.metrics = NoMetrics, !.state = "Registered", !.age = None]
        BY <3>2 DEF Reregistered
      <4> HIDE DEF e
      <4>2. /\ e.id = d.id /\ e.instance = hello.instance /\ e.interval = hello.interval
            /\ e.address = a /\ e.port = m.port /\ e.sequence = None
            /\ e.age = None
        BY <2>1, <4>1 DEF Device
      <4>3. daemon[a].sequence \in Nat
        BY <1>1, DaemonNumbers DEF DaemonsInv, a
      <4>4. None < daemon[a].sequence
        BY <4>3 DEF None
      <4>5. DeviceOf(a, daemon[a], e)
        BY <1>2, <2>1, <4>2, <4>4 DEF DeviceOf, NotShownStaler, a, hello
      <4> QED
        BY <4>2, <4>5 DEF Greeted
    <3> QED
      BY <3>1, <3>2
  <2> HIDE DEF e
  <2>4. /\ DOMAIN devices' = DOMAIN fresh
        /\ devices'[i] = e
        /\ \A j \in DOMAIN fresh : j # i => devices'[j] = fresh[j]
    BY <2>2
  <2>5. SomeAddress(devices')
    BY <1>1, <1>4, <2>3, <2>4 DEF SomeAddress, a
  <2>6. ASSUME NEW h, h # a
        PROVE  Thinned(DevicesAt(devices, h), DevicesAt(devices', h))
    <3>1. ASSUME NEW x \in DevicesAt(devices', h)
          PROVE  x \in DevicesAt(fresh, h)
      <4>1. PICK j \in DOMAIN devices' : x = devices'[j] /\ x.address = h
        BY DeviceAtAddress
      <4>2. j # i
        BY <2>3, <2>4, <2>6, <4>1
      <4> QED
        BY <2>4, <4>1, <4>2, DeviceAtAddress
    <3> QED
      BY <1>5, <3>1 DEF Thinned
  <2>7. ASSUME NEW x \in DevicesAt(devices', a)
        PROVE  x = e
    <3>1. PICK j \in DOMAIN devices' : x = devices'[j] /\ x.address = a
      BY DeviceAtAddress
    <3>2. CASE j # i
      <4>1. fresh[j].id = hello.id /\ j \in DOMAIN fresh
        BY <1>7, <2>4, <3>1, <3>2
      <4> QED
        BY <1>6, <2>1, <2>2, <3>2, <4>1
    <3> QED
      BY <2>4, <3>1, <3>2
  <2> QED
    BY <1>10, <2>3, <2>5, <2>6, <2>7
<1>11. ASSUME Unknown(fresh, hello.id), reason = "",
              devices' = Append(fresh, NewDevice(hello, a, m.port))
       PROVE  Goal
  <2> DEFINE e == NewDevice(hello, a, m.port)
  <2>1. /\ e.id = hello.id /\ e.interval = hello.interval /\ e.instance = hello.instance
        /\ e.address = a /\ e.port = m.port /\ e.sequence = None /\ e.age = None
    BY DEF NewDevice
  <2>2. devices' = Append(fresh, e)
    BY <1>11
  <2> HIDE DEF e
  <2>3. daemon[a].sequence \in Nat
    BY <1>1, DaemonNumbers DEF DaemonsInv, a
  <2>4. None < daemon[a].sequence
    BY <2>3 DEF None
  <2>5. DeviceOf(a, daemon[a], e)
    BY <1>2, <2>1, <2>4 DEF DeviceOf, NotShownStaler, a, hello
  <2>6. Greeted(a, daemon[a], DevicesAt(devices, a), e, m.port)
    BY <2>1, <2>5 DEF Greeted
  <2>7. fresh \in Seq(Device) /\ Len(fresh) \in Nat /\ DOMAIN fresh = 1..Len(fresh)
    BY <1>4 DEF GoodTable
  <2>8. /\ \A j \in DOMAIN devices' : j \in DOMAIN fresh \/ j = Len(fresh) + 1
        /\ \A j \in DOMAIN fresh : devices'[j] = fresh[j]
        /\ devices'[Len(fresh) + 1] = e
    BY <2>2, <2>7
  <2>9. SomeAddress(devices')
    BY <1>1, <1>4, <2>1, <2>8 DEF SomeAddress, a
  <2>10. ASSUME NEW h, h # a
         PROVE  Thinned(DevicesAt(devices, h), DevicesAt(devices', h))
    <3>1. ASSUME NEW x \in DevicesAt(devices', h)
          PROVE  x \in DevicesAt(fresh, h)
      <4>1. PICK j \in DOMAIN devices' : x = devices'[j] /\ x.address = h
        BY DeviceAtAddress
      <4>2. j # Len(fresh) + 1
        BY <2>1, <2>8, <2>10, <4>1
      <4> QED
        BY <2>8, <4>1, <4>2, DeviceAtAddress
    <3> QED
      BY <1>5, <3>1 DEF Thinned
  <2>11. ASSUME NEW x \in DevicesAt(devices', a)
         PROVE  x = e
    <3>1. PICK j \in DOMAIN devices' : x = devices'[j] /\ x.address = a
      BY DeviceAtAddress
    <3>2. CASE j \in DOMAIN fresh
      <4>1. fresh[j].id = hello.id
        BY <1>7, <2>8, <3>1, <3>2
      <4> QED
        BY <1>11, <3>2, <4>1 DEF Unknown
    <3> QED
      BY <2>8, <3>1, <3>2
  <2> QED
    BY <1>11, <2>6, <2>9, <2>10, <2>11
<1>12. Goal
  <2> HIDE DEF Goal
  <2>1. RegisterHello(hello, a, m.port, reason)
    BY DEF a, hello
  <2> QED
    BY <1>3, <1>9, <1>10, <1>11, <2>1 DEF RegisterHello
<1> QED
  BY <1>12 DEF a
-----------------------------------------------------------------------------
(* Steps of the system, host by host *)

\* What a step without a fault, and what any step, does to a host.
Quiet(h) ==
  /\ Sound(h)'
  /\ Calm(h) => Calm(h)'
  /\ Shaken(h) => Shaken(h)'
Struck(h) == Sound(h)' /\ (Calm(h) => Shaken(h)')

LEMMA TypedHost ==
  ASSUME NEW ds, GoodTable(ds), NEW dm, DaemonsInv(dm), NEW net, net \subseteq Datagrams,
         NEW wt \in [Addresses -> Nat], NEW h \in Addresses
  PROVE  HostTyped(h, dm[h], wt[h], Mail(net, h), DevicesAt(ds, h))
<1>1. dm[h] \in DaemonType /\ wt[h] \in Nat
  BY DEF DaemonsInv
<1>2. Mail(net, h) \subseteq Datagrams /\ \A m \in Mail(net, h) : m.address = h
  BY DEF Mail
<1>3. ASSUME NEW d \in DevicesAt(ds, h)
      PROVE  d \in Device /\ d.address = h /\ DeviceConsistent(d)
  <2>1. PICK i \in DOMAIN ds : d = ds[i] /\ d.address = h
    BY DeviceAtAddress
  <2> QED
    BY <2>1 DEF GoodTable
<1> QED
  BY <1>1, <1>2, <1>3 DEF HostTyped

LEMMA TypedHosts ==
  ASSUME TimingTypes, TimingTypes', NEW h \in Addresses
  PROVE  /\ HostTyped(h, daemon[h], wait[h], Mail(network, h), DevicesAt(devices, h))
         /\ HostTyped(h, daemon'[h], wait'[h], Mail(network', h), DevicesAt(devices', h))
<1>1. GoodTable(devices) /\ GoodTable(devices')
  BY DEF TimingTypes, RegistryInv
<1>2. /\ DaemonsInv(daemon) /\ network \subseteq Datagrams /\ wait \in [Addresses -> Nat]
      /\ DaemonsInv(daemon') /\ network' \subseteq Datagrams /\ wait' \in [Addresses -> Nat]
  BY DEF TimingTypes
<1> QED
  BY <1>1, <1>2, TypedHost

LEMMA AllDevicesOf ==
  ASSUME TimingTypes, \A h \in Addresses : Sound(h)
  PROVE  AllOf(devices, daemon)
<1> SUFFICES ASSUME NEW i \in DOMAIN devices
             PROVE  DeviceOf(devices[i].address, daemon[devices[i].address], devices[i])
  BY DEF AllOf
<1> DEFINE h == devices[i].address
<1>1. h \in Addresses /\ devices[i] \in DevicesAt(devices, h)
  BY DeviceAtAddress DEF TimingTypes, SomeAddress
<1>2. Sound(h)
  BY <1>1
<1> QED
  BY <1>1, <1>2 DEF Sound, HostInv

\* A host that a step does not concern.
Untroubled(h) ==
  /\ daemon'[h] = daemon[h]
  /\ wait'[h] = wait[h]
  /\ Mail(network', h) = Mail(network, h)
  /\ Thinned(DevicesAt(devices, h), DevicesAt(devices', h))

LEMMA UntroubledHost ==
  ASSUME DelaysFit, TimingTypes, TimingTypes', NEW h \in Addresses, Sound(h), Untroubled(h)
  PROVE  Quiet(h) /\ Struck(h)
<1> DEFINE p == daemon[h]
<1> DEFINE w == wait[h]
<1> DEFINE M == Mail(network, h)
<1> DEFINE D == DevicesAt(devices, h)
<1> DEFINE E == DevicesAt(devices', h)
<1>1. HostTyped(h, p, w, M, D) /\ HostTyped(h, p, w, M, E) /\ Thinned(D, E)
  BY TypedHosts DEF Untroubled
<1>2. /\ Sound(h) <=> HostInv(h, p, w, M, D)
      /\ Calm(h) <=> Undisturbed(h, p, w, M, D)
      /\ Shaken(h) <=> Disturbed(h, p, w, M, D)
      /\ Sound(h)' <=> HostInv(h, p, w, M, E)
      /\ Calm(h)' <=> Undisturbed(h, p, w, M, E)
      /\ Shaken(h)' <=> Disturbed(h, p, w, M, E)
  BY DEF Sound, Calm, Shaken, Untroubled
<1> HIDE DEF p, w, M, D, E
<1>3. /\ HostInv(h, p, w, M, D) => HostInv(h, p, w, M, E)
      /\ Undisturbed(h, p, w, M, D) => Undisturbed(h, p, w, M, E)
      /\ Disturbed(h, p, w, M, D) => Disturbed(h, p, w, M, E)
  BY <1>1, IdleHost
<1>4. Undisturbed(h, p, w, M, E) /\ HostInv(h, p, w, M, E) => Disturbed(h, p, w, M, E)
  BY <1>1, UndisturbedIsDisturbed
<1> QED
  BY <1>2, <1>3, <1>4 DEF Quiet, Struck

LEMMA ThinnedSelf ==
  ASSUME TimingTypes, NEW h
  PROVE  Thinned(DevicesAt(devices, h), DevicesAt(devices, h))
<1> SUFFICES ASSUME NEW d \in DevicesAt(devices, h)
             PROVE  Stays(d, d)
  BY DEF Thinned
<1>1. d \in Device
  BY DeviceAtAddress DEF TimingTypes, RegistryInv, GoodTable
<1>2. d.age \in Int
  BY <1>1, DeviceNumbers
<1> QED
  BY <1>2 DEF Stays, Kept

LEMMA TypesAfter ==
  ASSUME TimingTypes, [RegistryNext]_registryVars, DaemonsInv(daemon'),
         network' \subseteq Datagrams, SomeAddress(devices'), wait' \in [Addresses -> Nat],
         NoFault \/ Fault
  PROVE  TimingTypes'
<1>1. RegistryInv'
  BY RegistryInvInductive DEF TimingTypes
<1>2. faults' \in 0..MaxFaults
  BY TimingAssumption DEF TimingTypes, NoFault, Fault
<1> QED
  BY <1>1, <1>2 DEF TimingTypes

\* The hello of a running process.
LEMMA HelloSent ==
  ASSUME TimingTypes, NEW h \in Addresses, NEW port \in Ports, SendHello(h, port)
  PROVE  /\ Datagram("hello", HelloOf(h), h, port) \in Datagrams
         /\ Datagram("hello", HelloOf(h), h, port) = HelloFrom(h, daemon'[h])
<1>1. DaemonsInv(daemon) /\ daemon[h].pc # "stopped" /\ daemon \in [Addresses -> DaemonType]
  BY DEF TimingTypes, SendHello, DaemonsInv
<1>2. Instance(h) \in Instances
  BY <1>1, RunningInstance
<1>3. HelloOf(h) \in Hello
  BY <1>2, DaemonAssumption DEF HelloOf, Hello
<1>4. Datagram("hello", HelloOf(h), h, port) \in Datagrams
  BY <1>3 DEF Datagram, Datagrams
<1>5. daemon'[h].starts = daemon[h].starts /\ daemon'[h].port = port
  BY <1>1 DEF SendHello, DaemonType
<1> QED
  BY <1>4, <1>5 DEF HelloFrom, HelloOf, Instance

\* The process moves by itself.
LEMMA ProcessTypes ==
  ASSUME TimingTypes, NEW h \in Addresses, TDaemon(h) \/ TResolveFails(h)
  PROVE  /\ TimingTypes'
         /\ \A g \in Addresses : g # h => Untroubled(g)
<1>1. /\ DaemonsInv(daemon) /\ network \subseteq Datagrams /\ wait \in [Addresses -> Nat]
      /\ SomeAddress(devices) /\ daemon \in [Addresses -> DaemonType]
  BY DEF TimingTypes, DaemonsInv
<1>2. UNCHANGED registryVars
  BY DEF TDaemon, TResolveFails, DaemonSendHello, registryVars
<1>3. devices' = devices
  BY <1>2 DEF registryVars
<1>4. DaemonsInv(daemon')
  BY <1>1, StartedProcess, RunningProcess DEF TDaemon, TResolveFails, DaemonSendHello
<1>5. network' \subseteq Datagrams
  BY <1>1, HelloSent DEF TDaemon, TResolveFails, DaemonSendHello
<1>6. wait' \in [Addresses -> Nat]
  BY <1>1, DelayNumbers DEF TDaemon, TResolveFails
<1>7. NoFault \/ Fault
  BY DEF TDaemon, TResolveFails
<1>8. TimingTypes'
  BY <1>1, <1>2, <1>3, <1>4, <1>5, <1>6, <1>7, TypesAfter
<1>9. ASSUME NEW g \in Addresses, g # h
      PROVE  Untroubled(g)
  <2>1. daemon'[g] = daemon[g]
    BY <1>1, <1>9 DEF TDaemon, TResolveFails, DaemonSendHello, Start, SendHello, ReplyTimeout, Wake,
                      ResolveFails
  <2>2. wait'[g] = wait[g]
    BY <1>1, <1>9 DEF TDaemon, TResolveFails
  <2>3. Mail(network', g) = Mail(network, g)
    <3>1. \A body, port : Datagram("hello", body, h, port).address = h
      BY DEF Datagram
    <3>2. CASE network' = network
      BY <3>2
    <3>3. CASE \E port \in Ports : DaemonSendHello(h, port)
      <4>1. PICK n : network' = network \cup {n} /\ n.address = h
        BY <3>1, <3>3 DEF DaemonSendHello
      <4> QED
        BY <1>9, <4>1 DEF Mail
    <3> QED
      BY <3>2, <3>3 DEF TDaemon, TResolveFails
  <2>4. Thinned(DevicesAt(devices, g), DevicesAt(devices', g))
    BY <1>3, ThinnedSelf
  <2> QED
    BY <2>1, <2>2, <2>3, <2>4 DEF Untroubled
<1> QED
  BY <1>8, <1>9

LEMMA ProcessHost ==
  ASSUME DelaysFit, TimingTypes, NEW h \in Addresses, Sound(h), TDaemon(h), TimingTypes'
  PROVE  Quiet(h)
<1> DEFINE p == daemon[h]
<1> DEFINE q == daemon'[h]
<1> DEFINE w == wait[h]
<1> DEFINE v == wait'[h]
<1> DEFINE M == Mail(network, h)
<1> DEFINE N == Mail(network', h)
<1> DEFINE D == DevicesAt(devices, h)
<1>1. devices' = devices
  BY DEF TDaemon, DaemonSendHello, registryVars
<1>2. HostTyped(h, p, w, M, D) /\ HostTyped(h, q, v, N, D)
  BY <1>1, TypedHosts
<1>3. /\ daemon \in [Addresses -> DaemonType] /\ wait \in [Addresses -> Nat]
      /\ p \in DaemonType
  BY DEF TimingTypes, DaemonsInv
<1>4. /\ Sound(h) <=> HostInv(h, p, w, M, D)
      /\ Calm(h) <=> Undisturbed(h, p, w, M, D)
      /\ Shaken(h) <=> Disturbed(h, p, w, M, D)
      /\ Sound(h)' <=> HostInv(h, q, v, N, D)
      /\ Calm(h)' <=> Undisturbed(h, q, v, N, D)
      /\ Shaken(h)' <=> Disturbed(h, q, v, N, D)
  BY <1>1 DEF Sound, Calm, Shaken
<1>5. p.sequence \in Nat
  BY <1>3, DaemonNumbers
<1>6. HostInv(h, p, w, M, D)
  BY <1>4
<1>7. CASE Start(h) /\ UNCHANGED <<network, wait>>
  <2>1. p.pc = "stopped" /\ q.pc = "resolving" /\ N = M /\ v = w
    BY <1>3, <1>7 DEF Start
  <2> HIDE DEF p, q, w, v, M, N, D
  <2>2. /\ HostInv(h, q, w, M, D)
        /\ Undisturbed(h, q, w, M, D)
        /\ Disturbed(h, q, w, M, D)
    BY <1>6, <2>1, StartedHost
  <2> QED
    BY <1>4, <2>1, <2>2 DEF Quiet
<1>8. CASE /\ \E port \in Ports : DaemonSendHello(h, port)
           /\ wait' = [wait EXCEPT ![h] = ReplySeconds]
  <2>1. PICK port \in Ports : DaemonSendHello(h, port)
    BY <1>8
  <2>2. SendHello(h, port) /\ network' = network \cup {Datagram("hello", HelloOf(h), h, port)}
    BY <2>1 DEF DaemonSendHello
  <2>3. network' = network \cup {HelloFrom(h, q)}
    BY <2>2, HelloSent
  <2>4. HelloFrom(h, q).address = h
    BY DEF HelloFrom, Datagram
  <2>5. N = M \cup {HelloFrom(h, q)}
    BY <2>3, <2>4 DEF Mail
  <2>6. /\ p.pc = "resolving" /\ q.pc = "waiting" /\ q.starts = p.starts /\ q.sequence = p.sequence
        /\ v = ReplySeconds
    BY <1>3, <1>8, <2>2 DEF SendHello, DaemonType
  <2>7. SameProcess(p, q)
    BY <1>5, <2>6 DEF SameProcess
  <2> HIDE DEF p, q, w, v, M, N, D
  <2>8. /\ HostInv(h, q, v, N, D)
        /\ Undisturbed(h, p, w, M, D) => Undisturbed(h, q, v, N, D)
        /\ Disturbed(h, p, w, M, D) => Disturbed(h, q, v, N, D)
    BY <1>2, <1>6, <2>5, <2>6, <2>7, HelloSentHost
  <2> QED
    BY <1>4, <2>8 DEF Quiet
<1>9. CASE /\ wait[h] = 0 /\ ReplyTimeout(h)
           /\ wait' = [wait EXCEPT ![h] = RetrySeconds] /\ UNCHANGED network
  <2>1. /\ p.pc = "waiting" /\ w = 0 /\ q.pc = "sleeping" /\ q.starts = p.starts
        /\ q.sequence = p.sequence /\ v = RetrySeconds /\ N = M
    BY <1>3, <1>9 DEF ReplyTimeout, DaemonType
  <2>2. SameProcess(p, q)
    BY <1>5, <2>1 DEF SameProcess
  <2> HIDE DEF p, q, w, v, M, N, D
  <2>3. /\ HostInv(h, q, v, M, D)
        /\ ~ Undisturbed(h, p, w, M, D)
        /\ Disturbed(h, p, w, M, D) => Disturbed(h, q, v, M, D)
    BY <1>2, <1>6, <2>1, <2>2, TimedOutHost
  <2> QED
    BY <1>4, <2>1, <2>3 DEF Quiet
<1>10. CASE wait[h] = 0 /\ Wake(h) /\ UNCHANGED <<network, wait>>
  <2>1. /\ p.pc = "sleeping" /\ w = 0 /\ q.pc = "resolving" /\ q.starts = p.starts
        /\ q.sequence = p.sequence /\ v = w /\ N = M
    BY <1>3, <1>10 DEF Wake, DaemonType
  <2>2. SameProcess(p, q)
    BY <1>5, <2>1 DEF SameProcess
  <2> HIDE DEF p, q, w, v, M, N, D
  <2>3. /\ HostInv(h, q, w, M, D)
        /\ Undisturbed(h, p, w, M, D) => Undisturbed(h, q, w, M, D)
        /\ Disturbed(h, p, w, M, D) => Disturbed(h, q, w, M, D)
    BY <1>2, <1>6, <2>1, <2>2, WokenHost
  <2> QED
    BY <1>4, <2>1, <2>3 DEF Quiet
<1> QED
  BY <1>7, <1>8, <1>9, <1>10 DEF TDaemon

LEMMA LookupHost ==
  ASSUME TimingTypes, NEW h \in Addresses, Sound(h), TResolveFails(h), TimingTypes'
  PROVE  Struck(h)
<1> DEFINE p == daemon[h]
<1> DEFINE q == daemon'[h]
<1> DEFINE w == wait[h]
<1> DEFINE v == wait'[h]
<1> DEFINE M == Mail(network, h)
<1> DEFINE D == DevicesAt(devices, h)
<1>1. devices' = devices /\ network' = network
  BY DEF TResolveFails
<1>2. HostTyped(h, p, w, M, D) /\ HostTyped(h, q, v, M, D)
  BY <1>1, TypedHosts
<1>3. /\ daemon \in [Addresses -> DaemonType] /\ wait \in [Addresses -> Nat]
      /\ p \in DaemonType
  BY DEF TimingTypes, DaemonsInv
<1>4. /\ Sound(h) <=> HostInv(h, p, w, M, D)
      /\ Calm(h) <=> Undisturbed(h, p, w, M, D)
      /\ Sound(h)' <=> HostInv(h, q, v, M, D)
      /\ Shaken(h)' <=> Disturbed(h, q, v, M, D)
  BY <1>1 DEF Sound, Calm, Shaken
<1>5. p.sequence \in Nat
  BY <1>3, DaemonNumbers
<1>6. /\ p.pc = "resolving" /\ q.pc = "sleeping" /\ q.starts = p.starts
      /\ q.sequence = p.sequence /\ v = Interval[h]
  BY <1>3 DEF TResolveFails, ResolveFails, DaemonType
<1>7. SameProcess(p, q)
  BY <1>5, <1>6 DEF SameProcess
<1> HIDE DEF p, q, w, v, M, D
<1>8. /\ HostInv(h, q, v, M, D)
      /\ Undisturbed(h, p, w, M, D) => Disturbed(h, q, v, M, D)
  BY <1>2, <1>4, <1>6, <1>7, LookupFailedHost
<1> QED
  BY <1>4, <1>8 DEF Struck

\* A hello reaches the dashboard.
LEMMA HelloDelivered ==
  ASSUME DelaysFit, TimingTypes, \A h \in Addresses : Sound(h), NoFault \/ Fault,
         NEW m \in network, NEW rest \in {network, network \ {m}},
         ReceiveHello(m, rest), UNCHANGED wait
  PROVE  /\ TimingTypes'
         /\ \A h \in Addresses : Struck(h) /\ (rest = network \ {m} => Quiet(h))
<1> DEFINE a == m.address
<1>1. /\ RegistryInv /\ DaemonsInv(daemon) /\ network \subseteq Datagrams
      /\ wait \in [Addresses -> Nat] /\ SomeAddress(devices)
  BY DEF TimingTypes
<1>2. /\ m \in Datagrams /\ m.type = "hello" /\ m.body \in Hello /\ a \in Addresses
      /\ m.port \in Ports
  BY <1>1, MessageTypes DEF ReceiveHello
<1>3. PICK reason \in Reasons :
        /\ RegisterHello(m.body, a, m.port, reason)
        /\ network' = rest \cup {Datagram("result", ResultOf(m.body, reason), a, m.port)}
  BY DEF ReceiveHello
<1> DEFINE accepted == reason = ""
<1> DEFINE r == Datagram("result", ResultOf(m.body, reason), a, m.port)
<1>4. accepted \in BOOLEAN
  OBVIOUS
<1>5. ResultOf(m.body, reason) =
        [id |-> m.body.id, instance |-> m.body.instance, accepted |-> accepted, reason |-> reason]
  BY DEF ResultOf
<1> HIDE DEF accepted
<1>6. ResultOf(m.body, reason) \in RegistrationResult /\ ResultOf(m.body, reason).accepted = accepted
  BY <1>2, <1>4, <1>5 DEF RegistrationResult, Hello
<1>7. /\ r \in Datagrams /\ r.type = "result" /\ r.address = a /\ r.port = m.port
      /\ r.body.accepted = accepted
  BY <1>2, <1>6 DEF Datagram, Datagrams
<1>8. network' = rest \cup {r} /\ daemon' = daemon
  BY <1>3 DEF ReceiveHello
<1> HIDE DEF r
<1>9. Sound(a)
  BY <1>2
<1>10. HelloBy(a, daemon[a], m)
  BY <1>2, <1>9 DEF Sound, HostInv, Mail
<1>11. AllOf(devices, daemon)
  BY AllDevicesOf
<1>12. /\ SomeAddress(devices')
       /\ \A h : h # a => Thinned(DevicesAt(devices, h), DevicesAt(devices', h))
       /\ reason = "" =>
            \A e \in DevicesAt(devices', a) :
              Greeted(a, daemon[a], DevicesAt(devices, a), e, m.port)
       /\ reason # "" => DevicesAt(devices, a) = {} /\ DevicesAt(devices', a) = {}
  BY <1>1, <1>2, <1>3, <1>10, <1>11, HelloGreets
<1>13. TimingTypes'
  <2>1. RegistryNext
    BY <1>2, <1>3 DEF RegistryNext
  <2> QED
    BY <1>1, <1>7, <1>8, <1>12, <2>1, TypesAfter
<1> HIDE DEF a
<1>14. ASSUME NEW h \in Addresses, h # a
       PROVE  Quiet(h) /\ Struck(h)
  <2>1. Mail(network', h) = Mail(network, h)
    BY <1>7, <1>8, <1>14 DEF Mail, a
  <2>2. Untroubled(h)
    BY <1>8, <1>12, <1>14, <2>1 DEF Untroubled
  <2> QED
    BY <1>13, <2>2, UntroubledHost
<1>15. Struck(a) /\ (rest = network \ {m} => Quiet(a))
  <2> DEFINE p == daemon[a]
  <2> DEFINE w == wait[a]
  <2> DEFINE M == Mail(network, a)
  <2> DEFINE N == Mail(network', a)
  <2> DEFINE R == Mail(rest, a)
  <2> DEFINE D == DevicesAt(devices, a)
  <2> DEFINE E == DevicesAt(devices', a)
  <2>1. HostTyped(a, p, w, M, D) /\ HostTyped(a, p, w, N, E)
    BY <1>2, <1>8, <1>13, TypedHosts DEF a
  <2>2. m \in M /\ R \in {M, M \ {m}} /\ N = R \cup {r} /\ (rest = network \ {m} => R = M \ {m})
    BY <1>7, <1>8 DEF Mail, a
  <2>3. /\ Sound(a) <=> HostInv(a, p, w, M, D)
        /\ Calm(a) <=> Undisturbed(a, p, w, M, D)
        /\ Shaken(a) <=> Disturbed(a, p, w, M, D)
        /\ Sound(a)' <=> HostInv(a, p, w, N, E)
        /\ Calm(a)' <=> Undisturbed(a, p, w, N, E)
        /\ Shaken(a)' <=> Disturbed(a, p, w, N, E)
    BY <1>8 DEF Sound, Calm, Shaken, a
  <2>4. /\ r.body.accepted => \A e \in E : Greeted(a, p, D, e, m.port)
        /\ ~ r.body.accepted => D = {} /\ E = {}
    BY <1>7, <1>12 DEF accepted
  <2>5. HostInv(a, p, w, M, D) /\ a \in Addresses
    BY <1>2, <1>9, <2>3 DEF a
  <2> HIDE DEF p, w, M, N, R, D, E
  <2>6. /\ HostInv(a, p, w, N, E)
        /\ Undisturbed(a, p, w, M, D) => Disturbed(a, p, w, N, E)
        /\ R = M \ {m} =>
             /\ Undisturbed(a, p, w, M, D) => Undisturbed(a, p, w, N, E)
             /\ Disturbed(a, p, w, M, D) => Disturbed(a, p, w, N, E)
    BY <1>2, <1>7, <2>1, <2>2, <2>4, <2>5, GreetedHost
  <2> QED
    BY <2>2, <2>3, <2>6 DEF Quiet, Struck
<1> QED
  BY <1>13, <1>14, <1>15

\* A snapshot reaches the dashboard.
LEMMA SnapshotDelivered ==
  ASSUME DelaysFit, TimingTypes, \A h \in Addresses : Sound(h), NoFault \/ Fault,
         NEW s \in network, NEW rest \in {network, network \ {s}},
         ReceiveSnapshot(s, rest), UNCHANGED wait
  PROVE  /\ TimingTypes'
         /\ \A h \in Addresses : Struck(h) /\ (rest = network \ {s} => Quiet(h))
<1> DEFINE a == s.address
<1>1. /\ RegistryInv /\ DaemonsInv(daemon) /\ network \subseteq Datagrams
      /\ wait \in [Addresses -> Nat] /\ SomeAddress(devices)
  BY DEF TimingTypes
<1>2. /\ s \in Datagrams /\ s.type = "snapshot" /\ s.body \in Snapshot /\ a \in Addresses
      /\ s.port \in Ports
  BY <1>1, MessageTypes DEF ReceiveSnapshot
<1>3. PICK accepted \in BOOLEAN : AcceptSnapshot(s.body, a, s.port, accepted)
  BY DEF ReceiveSnapshot
<1>4. network' = rest /\ daemon' = daemon
  BY DEF ReceiveSnapshot
<1>5. Sound(a)
  BY <1>2
<1>6. SnapshotFrom(a, daemon[a], s)
  BY <1>2, <1>5 DEF Sound, HostInv, Mail
<1>7. AllOf(devices, daemon)
  BY AllDevicesOf
<1>8. /\ SomeAddress(devices')
      /\ \A h : h # a => DevicesAt(devices', h) = DevicesAt(devices, h)
      /\ \A e \in DevicesAt(devices', a) : \E d \in DevicesAt(devices, a) :
           \/ Fits(d, s) /\ RefreshedBy(d, e, s) /\ e.port = d.port
           \/ ~ Fits(d, s) /\ e = d
  BY <1>1, <1>2, <1>3, <1>6, <1>7, SnapshotReplaces
<1>9. TimingTypes'
  <2>1. RegistryNext
    BY <1>2, <1>3 DEF RegistryNext
  <2> QED
    BY <1>1, <1>4, <1>8, <2>1, TypesAfter
<1> HIDE DEF a
<1>10. ASSUME NEW h \in Addresses, h # a
       PROVE  Quiet(h) /\ Struck(h)
  <2>1. Mail(network', h) = Mail(network, h)
    BY <1>4, <1>10 DEF Mail, a
  <2>2. Thinned(DevicesAt(devices, h), DevicesAt(devices', h))
    BY <1>8, <1>10, ThinnedSelf
  <2>3. Untroubled(h)
    BY <1>4, <2>1, <2>2 DEF Untroubled
  <2> QED
    BY <1>9, <2>3, UntroubledHost
<1>11. Struck(a) /\ (rest = network \ {s} => Quiet(a))
  <2> DEFINE p == daemon[a]
  <2> DEFINE w == wait[a]
  <2> DEFINE M == Mail(network, a)
  <2> DEFINE N == Mail(network', a)
  <2> DEFINE D == DevicesAt(devices, a)
  <2> DEFINE E == DevicesAt(devices', a)
  <2>1. HostTyped(a, p, w, M, D) /\ HostTyped(a, p, w, N, E)
    BY <1>2, <1>4, <1>9, TypedHosts DEF a
  <2>2. s \in M /\ N \in {M, M \ {s}} /\ (rest = network \ {s} => N = M \ {s})
    BY <1>4 DEF Mail, a
  <2>3. /\ Sound(a) <=> HostInv(a, p, w, M, D)
        /\ Calm(a) <=> Undisturbed(a, p, w, M, D)
        /\ Shaken(a) <=> Disturbed(a, p, w, M, D)
        /\ Sound(a)' <=> HostInv(a, p, w, N, E)
        /\ Calm(a)' <=> Undisturbed(a, p, w, N, E)
        /\ Shaken(a)' <=> Disturbed(a, p, w, N, E)
    BY <1>4 DEF Sound, Calm, Shaken, a
  <2>4. \A e \in E : \E d \in D : \/ Fits(d, s) /\ RefreshedBy(d, e, s) /\ e.port = d.port
                                  \/ ~ Fits(d, s) /\ e = d
    BY <1>8
  <2>5. HostInv(a, p, w, M, D) /\ a \in Addresses
    BY <1>2, <1>5, <2>3 DEF a
  <2> HIDE DEF p, w, M, N, D, E
  <2>6. /\ HostInv(a, p, w, N, E)
        /\ Undisturbed(a, p, w, M, D) => Disturbed(a, p, w, N, E)
        /\ N = M \ {s} =>
             /\ Undisturbed(a, p, w, M, D) => Undisturbed(a, p, w, N, E)
             /\ Disturbed(a, p, w, M, D) => Disturbed(a, p, w, N, E)
    BY <1>2, <2>1, <2>2, <2>4, <2>5, UpdatedHost
  <2> QED
    BY <2>2, <2>3, <2>6 DEF Quiet, Struck
<1> QED
  BY <1>9, <1>10, <1>11

\* A reply reaches the socket that is bound to its port.
LEMMA ReplyDelivered ==
  ASSUME DelaysFit, TimingTypes, \A g \in Addresses : Sound(g), NoFault \/ Fault,
         NEW r \in network, NEW rest \in {network, network \ {r}},
         NEW h \in Addresses, TDaemonReceive(r, h, rest)
  PROVE  /\ TimingTypes'
         /\ \A g \in Addresses : Struck(g) /\ (rest = network \ {r} => Quiet(g))
<1> DEFINE p == daemon[h]
<1> DEFINE q == daemon'[h]
<1> DEFINE w == wait[h]
<1> DEFINE v == wait'[h]
<1> DEFINE M == Mail(network, h)
<1> DEFINE N == Mail(network', h)
<1> DEFINE R == Mail(rest, h)
<1> DEFINE D == DevicesAt(devices, h)
<1>1. /\ RegistryInv /\ DaemonsInv(daemon) /\ network \subseteq Datagrams
      /\ wait \in [Addresses -> Nat] /\ SomeAddress(devices)
      /\ daemon \in [Addresses -> DaemonType] /\ p \in DaemonType
  BY DEF TimingTypes, DaemonsInv
<1>2. /\ r.type = "result" /\ r.address = h /\ r.port = p.port /\ r.port \in Ports
      /\ devices' = devices /\ UNCHANGED registryVars
  BY <1>1, MessageTypes DEF TDaemonReceive, DaemonReceive, AddressedTo, registryVars
<1>3. p.sequence \in Nat
  BY <1>1, DaemonNumbers
<1>4. r \in M /\ R \in {M, M \ {r}} /\ (rest = network \ {r} => R = M \ {r})
  BY <1>2 DEF Mail
<1>5. DaemonsInv(daemon')
  BY <1>1, RunningProcess DEF TDaemonReceive, DaemonReceive
<1>6. wait' \in [Addresses -> Nat] /\ \A g \in Addresses : g # h => wait'[g] = wait[g]
  BY <1>1, DelayNumbers DEF TDaemonReceive
<1>7. \A g \in Addresses : g # h => daemon'[g] = daemon[g]
  BY <1>1 DEF TDaemonReceive, DaemonReceive, ReplyAccepted, ReplyRejected
<1>8. ASSUME network' \subseteq Datagrams, \A g \in Addresses : g # h => Mail(network', g) = Mail(network, g)
      PROVE  /\ TimingTypes'
             /\ \A g \in Addresses : g # h => Quiet(g) /\ Struck(g)
  <2>1. TimingTypes'
    BY <1>1, <1>2, <1>5, <1>6, <1>8, TypesAfter
  <2>2. \A g \in Addresses : g # h => Untroubled(g)
    BY <1>2, <1>6, <1>7, <1>8, ThinnedSelf DEF Untroubled
  <2> QED
    BY <2>1, <2>2, UntroubledHost
<1>9. /\ Sound(h) <=> HostInv(h, p, w, M, D)
      /\ Calm(h) <=> Undisturbed(h, p, w, M, D)
      /\ Shaken(h) <=> Disturbed(h, p, w, M, D)
      /\ Sound(h)' <=> HostInv(h, q, v, N, D)
      /\ Calm(h)' <=> Undisturbed(h, q, v, N, D)
      /\ Shaken(h)' <=> Disturbed(h, q, v, N, D)
  BY <1>2 DEF Sound, Calm, Shaken
<1>10. HostInv(h, p, w, M, D)
  BY <1>9
<1>11. ASSUME TimingTypes'
       PROVE  HostTyped(h, p, w, M, D) /\ HostTyped(h, q, v, N, D)
  BY <1>2, <1>11, TypedHosts
<1>12. ASSUME NEW metrics \in {daemon[h].sequence, NoMetrics}, ReplyAccepted(h, r.body),
              network' = rest \cup {Datagram("snapshot", SnapshotOf(h, metrics), h, r.port)}
       PROVE  /\ TimingTypes'
              /\ \A g \in Addresses : Struck(g) /\ (rest = network \ {r} => Quiet(g))
  <2> DEFINE s == Datagram("snapshot", SnapshotOf(h, metrics), h, r.port)
  <2>1. /\ p.pc = "waiting" /\ q.pc = "sleeping" /\ q.starts = p.starts
        /\ q.sequence = p.sequence + 1 /\ v = Interval[h]
    BY <1>1, <1>12 DEF ReplyAccepted, TDaemonReceive, DaemonType
  <2>2. Instance(h) \in Instances
    BY <1>1, <2>1, RunningInstance
  <2>3. p.sequence \in Sequences
    BY <1>1, <1>3, <2>1, ProtocolAssumption DEF DaemonsInv, Sequences
  <2>4. SnapshotOf(h, metrics) \in Snapshot
    BY <1>12, <2>2, <2>3, DaemonAssumption DEF SnapshotOf, Snapshot
  <2>5. /\ s \in Datagrams /\ s.type = "snapshot" /\ s.address = h /\ s.port = r.port
        /\ s.body.id = Identity[h] /\ s.body.interval = Interval[h]
        /\ s.body.instance = <<h, p.starts>> /\ s.body.sequence = p.sequence
    BY <1>2, <2>4 DEF Datagram, Datagrams, SnapshotOf, Instance
  <2>6. network' = rest \cup {s}
    BY <1>12
  <2> HIDE DEF s
  <2>7. /\ network' \subseteq Datagrams
        /\ \A g \in Addresses : g # h => Mail(network', g) = Mail(network, g)
        /\ N = R \cup {s}
    BY <1>1, <1>2, <2>5, <2>6 DEF Mail
  <2>8. /\ TimingTypes'
        /\ \A g \in Addresses : g # h => Quiet(g) /\ Struck(g)
    BY <1>8, <2>7
  <2>9. Taken(h, p, q, v, r)
    BY <1>2, <2>1 DEF Taken
  <2>10. SentNow(h, p, r, s)
    BY <2>5 DEF SentNow
  <2>11. HostTyped(h, p, w, M, D) /\ HostTyped(h, q, v, N, D)
    BY <1>11, <2>8
  <2> HIDE DEF p, q, w, v, M, N, R, D
  <2>12. /\ HostInv(h, q, v, N, D)
         /\ Undisturbed(h, p, w, M, D) => Disturbed(h, q, v, N, D)
         /\ R = M \ {r} =>
              /\ Undisturbed(h, p, w, M, D) => Undisturbed(h, q, v, N, D)
              /\ Disturbed(h, p, w, M, D) => Disturbed(h, q, v, N, D)
    BY <1>4, <1>10, <2>7, <2>11, <2>9, <2>10, TakenHost
  <2>13. Struck(h) /\ (rest = network \ {r} => Quiet(h))
    BY <1>4, <1>9, <2>12 DEF Quiet, Struck
  <2> QED
    BY <2>8, <2>13
<1>13. ASSUME ReplyRejected(h, r.body), network' = rest
       PROVE  /\ TimingTypes'
              /\ \A g \in Addresses : Struck(g) /\ (rest = network \ {r} => Quiet(g))
  <2>1. /\ p.pc = "waiting" /\ q.pc = "sleeping" /\ q.starts = p.starts
        /\ q.sequence = p.sequence /\ v = RetrySeconds /\ ~ r.body.accepted
    BY <1>1, <1>13 DEF ReplyRejected, TDaemonReceive, LooksAccepted, DaemonType
  <2>2. /\ network' \subseteq Datagrams
        /\ \A g \in Addresses : g # h => Mail(network', g) = Mail(network, g)
        /\ N = R
    BY <1>1, <1>2, <1>13 DEF Mail
  <2>3. /\ TimingTypes'
        /\ \A g \in Addresses : g # h => Quiet(g) /\ Struck(g)
    BY <1>8, <2>2
  <2>4. HostTyped(h, p, w, M, D) /\ HostTyped(h, q, v, N, D)
    BY <1>11, <2>3
  <2> HIDE DEF p, q, w, v, M, N, R, D
  <2>5. /\ HostInv(h, q, v, N, D)
        /\ Undisturbed(h, p, w, M, D) => Disturbed(h, q, v, N, D)
        /\ N = M \ {r} =>
             /\ Undisturbed(h, p, w, M, D) => Undisturbed(h, q, v, N, D)
             /\ Disturbed(h, p, w, M, D) => Disturbed(h, q, v, N, D)
    BY <1>2, <1>4, <1>10, <2>1, <2>2, <2>4, RefusedHost
  <2>6. Struck(h) /\ (rest = network \ {r} => Quiet(h))
    BY <1>4, <1>9, <2>2, <2>5 DEF Quiet, Struck
  <2> QED
    BY <2>3, <2>6
<1> QED
  BY <1>12, <1>13 DEF TDaemonReceive, DaemonReceive

\* A datagram disappears: lost, or a reply to a closed socket.
LEMMA DatagramGone ==
  ASSUME DelaysFit, TimingTypes, \A h \in Addresses : Sound(h), NoFault \/ Fault,
         NEW m \in network, Undeliverable(m) \/ Lose(m)
  PROVE  /\ TimingTypes'
         /\ \A h \in Addresses : Struck(h) /\ (Undeliverable(m) => Quiet(h))
<1> DEFINE a == m.address
<1>1. /\ network \subseteq Datagrams /\ wait \in [Addresses -> Nat] /\ SomeAddress(devices)
      /\ DaemonsInv(daemon)
  BY DEF TimingTypes
<1>2. a \in Addresses
  BY <1>1, MessageTypes
<1>3. /\ devices' = devices /\ daemon' = daemon /\ wait' = wait /\ network' = network \ {m}
      /\ UNCHANGED registryVars
  BY DEF Undeliverable, Lose, registryVars
<1>4. TimingTypes'
  BY <1>1, <1>3, TypesAfter
<1> HIDE DEF a
<1>5. ASSUME NEW h \in Addresses, h # a
      PROVE  Quiet(h) /\ Struck(h)
  <2>1. Mail(network', h) = Mail(network, h)
    BY <1>3, <1>5 DEF Mail, a
  <2>2. Untroubled(h)
    BY <1>3, <2>1, ThinnedSelf DEF Untroubled
  <2> QED
    BY <1>4, <2>2, UntroubledHost
<1>6. Struck(a) /\ (Undeliverable(m) => Quiet(a))
  <2> DEFINE p == daemon[a]
  <2> DEFINE w == wait[a]
  <2> DEFINE M == Mail(network, a)
  <2> DEFINE N == Mail(network', a)
  <2> DEFINE D == DevicesAt(devices, a)
  <2>1. HostTyped(a, p, w, M, D)
    BY <1>2, <1>4, TypedHosts
  <2>2. m \in M /\ N = M \ {m}
    BY <1>3 DEF Mail, a
  <2>3. /\ Sound(a) <=> HostInv(a, p, w, M, D)
        /\ Calm(a) <=> Undisturbed(a, p, w, M, D)
        /\ Shaken(a) <=> Disturbed(a, p, w, M, D)
        /\ Sound(a)' <=> HostInv(a, p, w, N, D)
        /\ Calm(a)' <=> Undisturbed(a, p, w, N, D)
        /\ Shaken(a)' <=> Disturbed(a, p, w, N, D)
    BY <1>3 DEF Sound, Calm, Shaken, a
  <2>4. HostInv(a, p, w, M, D)
    BY <1>2, <2>3
  <2>5. Undeliverable(m) => m.type = "result" /\ m.port # p.port
    BY <1>2 DEF Undeliverable, AddressedTo, a
  <2> HIDE DEF p, w, M, N, D
  <2>6. /\ HostInv(a, p, w, N, D)
        /\ Undisturbed(a, p, w, M, D) => Disturbed(a, p, w, N, D)
        /\ m.type = "result" /\ m.port # p.port =>
             /\ Undisturbed(a, p, w, M, D) => Undisturbed(a, p, w, N, D)
             /\ Disturbed(a, p, w, M, D) => Disturbed(a, p, w, N, D)
    BY <1>2, <2>1, <2>2, <2>4, DroppedHost
  <2> QED
    BY <2>3, <2>5, <2>6 DEF Quiet, Struck
<1> QED
  BY <1>4, <1>5, <1>6

\* The freshness timer changes at most how devices are shown.
LEMMA TimerHosts ==
  ASSUME DelaysFit, TimingTypes, \A h \in Addresses : Sound(h), TFreshnessTimer
  PROVE  TimingTypes' /\ \A h \in Addresses : Quiet(h)
<1>1. /\ RegistryInv /\ SomeAddress(devices) /\ DaemonsInv(daemon) /\ network \subseteq Datagrams
      /\ wait \in [Addresses -> Nat]
  BY DEF TimingTypes
<1>2. /\ devices' = UpdateFreshness(devices) /\ daemon' = daemon /\ network' = network
      /\ wait' = wait /\ NoFault /\ RegistryNext
  BY DEF TFreshnessTimer, FreshnessTimer, RegistryNext
<1>3. SomeAddress(devices')
  BY <1>1, <1>2, FreshAddresses
<1>4. TimingTypes'
  BY <1>1, <1>2, <1>3, TypesAfter
<1>5. ASSUME NEW h \in Addresses
      PROVE  Quiet(h)
  <2>1. Thinned(DevicesAt(devices, h), DevicesAt(devices', h))
    BY <1>1, <1>2, FreshThinned
  <2>2. Untroubled(h)
    BY <1>2, <2>1 DEF Untroubled
  <2> QED
    BY <1>4, <2>2, UntroubledHost
<1> QED
  BY <1>4, <1>5

\* A second passes; it is a fault when a datagram is still in flight.
LEMMA TickHosts ==
  ASSUME DelaysFit, TimingTypes, \A h \in Addresses : Sound(h), TTick
  PROVE  /\ TimingTypes'
         /\ \A h \in Addresses : Struck(h) /\ (network = {} => Quiet(h))
<1>1. /\ RegistryInv /\ SomeAddress(devices) /\ DaemonsInv(daemon) /\ network \subseteq Datagrams
      /\ wait \in [Addresses -> Nat]
  BY DEF TimingTypes
<1>2. /\ Tick /\ RegistryNext /\ daemon' = daemon /\ network' = network /\ (NoFault \/ Fault)
      /\ wait' = [h \in Addresses |-> IF wait[h] > 0 THEN wait[h] - 1 ELSE 0]
  BY DEF TTick, RegistryNext
<1>3. SomeAddress(devices')
  BY <1>1, <1>2, TickOlder
<1>4. wait' \in [Addresses -> Nat]
  <2>1. ASSUME NEW h \in Addresses
        PROVE  (IF wait[h] > 0 THEN wait[h] - 1 ELSE 0) \in Nat
    <3>1. wait[h] \in Nat
      BY <1>1
    <3> QED
      BY <3>1
  <2> QED
    BY <1>2, <2>1
<1>5. TimingTypes'
  BY <1>1, <1>2, <1>3, <1>4, TypesAfter
<1>6. ASSUME NEW h \in Addresses
      PROVE  Struck(h) /\ (network = {} => Quiet(h))
  <2> DEFINE p == daemon[h]
  <2> DEFINE w == wait[h]
  <2> DEFINE v == wait'[h]
  <2> DEFINE M == Mail(network, h)
  <2> DEFINE D == DevicesAt(devices, h)
  <2> DEFINE E == DevicesAt(devices', h)
  <2>1. HostTyped(h, p, w, M, D) /\ HostTyped(h, p, v, M, E)
    BY <1>2, <1>5, TypedHosts
  <2>2. /\ Sound(h) <=> HostInv(h, p, w, M, D)
        /\ Calm(h) <=> Undisturbed(h, p, w, M, D)
        /\ Shaken(h) <=> Disturbed(h, p, w, M, D)
        /\ Sound(h)' <=> HostInv(h, p, v, M, E)
        /\ Calm(h)' <=> Undisturbed(h, p, v, M, E)
        /\ Shaken(h)' <=> Disturbed(h, p, v, M, E)
    BY <1>2 DEF Sound, Calm, Shaken
  <2>3. HostInv(h, p, w, M, D)
    BY <2>2
  <2>4. \/ w > 0 /\ p.pc \in {"waiting", "sleeping"}
        \/ p.sequence > MaxSequence /\ p.pc = "resolving"
    BY DEF TTick, Exhausted
  <2>5. v = IF w > 0 THEN w - 1 ELSE 0
    BY <1>2
  <2>6. \A e \in E : \E d \in D : Older(d, e)
    BY <1>1, <1>2, TickOlder
  <2>7. network = {} => M = {}
    BY DEF Mail
  <2> HIDE DEF p, w, v, M, D, E
  <2>8. /\ HostInv(h, p, v, M, E)
        /\ Undisturbed(h, p, w, M, D) => Disturbed(h, p, v, M, E)
        /\ M = {} =>
             /\ Undisturbed(h, p, w, M, D) => Undisturbed(h, p, v, M, E)
             /\ Disturbed(h, p, w, M, D) => Disturbed(h, p, v, M, E)
    BY <2>1, <2>3, <2>4, <2>5, <2>6, OlderHost
  <2> QED
    BY <2>2, <2>7, <2>8 DEF Quiet, Struck
<1> QED
  BY <1>5, <1>6
-----------------------------------------------------------------------------
(* The inductive invariant *)

LEMMA TimingInvInitially ==
  ASSUME TInit
  PROVE  TimingInv
<1>1. devices = <<>> /\ network = {} /\ RegistryInit /\ DaemonInit
  BY DEF TInit, Init, RegistryInit
<1>2. RegistryInv /\ DaemonsInv(daemon)
  BY SystemInvInitially DEF TInit, SystemInv
<1>3. wait = [h \in Addresses |-> 0] /\ faults = MaxFaults
  BY DEF TInit
<1>4. TimingTypes
  BY <1>1, <1>2, <1>3, TimingAssumption DEF TimingTypes, SomeAddress
<1>5. ASSUME NEW h \in Addresses
      PROVE  Sound(h) /\ Calm(h)
  <2>1. daemon[h].pc = "stopped" /\ Mail(network, h) = {} /\ DevicesAt(devices, h) = {}
    BY <1>1 DEF DaemonInit, Mail, DevicesAt
  <2>2. Sound(h)
    BY <2>1 DEF Sound, HostInv
  <2>3. Calm(h)
    BY <2>1 DEF Calm, Undisturbed, UndisturbedMail, UndisturbedAge
  <2> QED
    BY <2>2, <2>3
<1>6. faults # MaxFaults - 1
  BY <1>3, TimingAssumption
<1> QED
  BY <1>4, <1>5, <1>6 DEF TimingInv

\* What a step does to all hosts when it uses up no fault, and when it does.
AllQuiet == UNCHANGED faults /\ \A h \in Addresses : Quiet(h)
AllStruck == faults' = faults - 1 /\ \A h \in Addresses : Struck(h)

LEMMA ProgressQuiet ==
  ASSUME DelaysFit, TimingTypes, \A h \in Addresses : Sound(h), Progress
  PROVE  TimingTypes' /\ AllQuiet
<1>1. ASSUME NEW h \in Addresses, TDaemon(h)
      PROVE  TimingTypes' /\ AllQuiet
  <2>1. TimingTypes' /\ \A g \in Addresses : g # h => Untroubled(g)
    BY <1>1, ProcessTypes
  <2>2. Quiet(h)
    BY <1>1, <2>1, ProcessHost
  <2>3. \A g \in Addresses : g # h => Quiet(g)
    BY <2>1, UntroubledHost
  <2>4. UNCHANGED faults
    BY <1>1 DEF TDaemon, NoFault
  <2> QED
    BY <2>1, <2>2, <2>3, <2>4 DEF AllQuiet
<1>2. ASSUME NEW m \in network, Deliver(m, network \ {m}) \/ Undeliverable(m), NoFault
      PROVE  TimingTypes' /\ AllQuiet
  <2> DEFINE rest == network \ {m}
  <2>1. rest \in {network, network \ {m}} /\ rest = network \ {m}
    OBVIOUS
  <2> HIDE DEF rest
  <2>2. CASE ReceiveHello(m, rest) /\ UNCHANGED wait
    <3>1. TimingTypes' /\ \A h \in Addresses : Quiet(h)
      BY <1>2, <2>1, <2>2, HelloDelivered
    <3> QED
      BY <1>2, <3>1 DEF AllQuiet, NoFault
  <2>3. CASE ReceiveSnapshot(m, rest) /\ UNCHANGED wait
    <3>1. TimingTypes' /\ \A h \in Addresses : Quiet(h)
      BY <1>2, <2>1, <2>3, SnapshotDelivered
    <3> QED
      BY <1>2, <3>1 DEF AllQuiet, NoFault
  <2>4. ASSUME NEW h \in Addresses, TDaemonReceive(m, h, rest)
        PROVE  TimingTypes' /\ AllQuiet
    <3>1. TimingTypes' /\ \A g \in Addresses : Quiet(g)
      BY <1>2, <2>1, <2>4, ReplyDelivered
    <3> QED
      BY <1>2, <3>1 DEF AllQuiet, NoFault
  <2>5. CASE Undeliverable(m)
    <3>1. TimingTypes' /\ \A h \in Addresses : Quiet(h)
      BY <1>2, <2>5, DatagramGone
    <3> QED
      BY <1>2, <3>1 DEF AllQuiet, NoFault
  <2> QED
    BY <1>2, <2>1, <2>2, <2>3, <2>4, <2>5 DEF Deliver
<1>3. CASE TFreshnessTimer
  BY <1>3, TimerHosts DEF AllQuiet, TFreshnessTimer, NoFault
<1>4. CASE network = {} /\ TTick
  BY <1>4, TickHosts DEF AllQuiet, TTick, NoFault
<1> QED
  BY <1>1, <1>2, <1>3, <1>4 DEF Progress

LEMMA DisturbanceStrikes ==
  ASSUME DelaysFit, TimingTypes, \A h \in Addresses : Sound(h), Disturbance
  PROVE  TimingTypes' /\ AllStruck
<1>1. ASSUME NEW h \in Addresses, TResolveFails(h)
      PROVE  TimingTypes' /\ AllStruck
  <2>1. TimingTypes' /\ \A g \in Addresses : g # h => Untroubled(g)
    BY <1>1, ProcessTypes
  <2>2. Struck(h)
    BY <1>1, <2>1, LookupHost
  <2>3. \A g \in Addresses : g # h => Struck(g)
    BY <2>1, UntroubledHost
  <2>4. faults' = faults - 1
    BY <1>1 DEF TResolveFails, Fault
  <2> QED
    BY <2>1, <2>2, <2>3, <2>4 DEF AllStruck
<1>2. ASSUME NEW m \in network, Deliver(m, network) \/ Lose(m), Fault
      PROVE  TimingTypes' /\ AllStruck
  <2>1. network \in {network, network \ {m}}
    OBVIOUS
  <2>2. CASE ReceiveHello(m, network) /\ UNCHANGED wait
    <3>1. TimingTypes' /\ \A h \in Addresses : Struck(h)
      BY <1>2, <2>1, <2>2, HelloDelivered
    <3> QED
      BY <1>2, <3>1 DEF AllStruck, Fault
  <2>3. CASE ReceiveSnapshot(m, network) /\ UNCHANGED wait
    <3>1. TimingTypes' /\ \A h \in Addresses : Struck(h)
      BY <1>2, <2>1, <2>3, SnapshotDelivered
    <3> QED
      BY <1>2, <3>1 DEF AllStruck, Fault
  <2>4. ASSUME NEW h \in Addresses, TDaemonReceive(m, h, network)
        PROVE  TimingTypes' /\ AllStruck
    <3>1. TimingTypes' /\ \A g \in Addresses : Struck(g)
      BY <1>2, <2>1, <2>4, ReplyDelivered
    <3> QED
      BY <1>2, <3>1 DEF AllStruck, Fault
  <2>5. CASE Lose(m)
    <3>1. TimingTypes' /\ \A h \in Addresses : Struck(h)
      BY <1>2, <2>5, DatagramGone
    <3> QED
      BY <1>2, <3>1 DEF AllStruck, Fault
  <2> QED
    BY <1>2, <2>1, <2>2, <2>3, <2>4, <2>5 DEF Deliver
<1>3. CASE network # {} /\ TTick
  BY <1>3, TickHosts DEF AllStruck, TTick, Fault
<1> QED
  BY <1>1, <1>2, <1>3 DEF Disturbance

LEMMA TimingInvInductive ==
  ASSUME DelaysFit, TimingInv, [TNext]_timingVars
  PROVE  TimingInv'
<1>1. /\ TimingTypes /\ \A h \in Addresses : Sound(h)
      /\ faults = MaxFaults => \A h \in Addresses : Calm(h)
      /\ faults = MaxFaults - 1 => \A h \in Addresses : Shaken(h)
  BY DEF TimingInv
<1>2. faults \in Int /\ faults <= MaxFaults /\ MaxFaults \in Nat
  BY <1>1, TimingAssumption DEF TimingTypes
<1>3. ASSUME TimingTypes', AllQuiet
      PROVE  TimingInv'
  BY <1>1, <1>3 DEF AllQuiet, Quiet, TimingInv
<1>4. ASSUME TimingTypes', AllStruck
      PROVE  TimingInv'
  <2>1. /\ faults' # MaxFaults
        /\ faults' = MaxFaults - 1 => faults = MaxFaults
    BY <1>2, <1>4 DEF AllStruck
  <2>2. \A h \in Addresses : Sound(h)' /\ (Calm(h) => Shaken(h)')
    BY <1>4 DEF AllStruck, Struck
  <2> QED
    BY <1>1, <1>4, <2>1, <2>2 DEF TimingInv
<1>5. CASE UNCHANGED timingVars
  <2>1. /\ devices' = devices /\ daemon' = daemon /\ network' = network /\ wait' = wait
        /\ UNCHANGED faults /\ UNCHANGED registryVars
    BY <1>5 DEF timingVars, vars, registryVars
  <2>2. TimingTypes'
    BY <1>1, <2>1, TypesAfter DEF TimingTypes, NoFault
  <2>3. \A h \in Addresses : Untroubled(h)
    BY <1>1, <2>1, ThinnedSelf DEF Untroubled
  <2>4. \A h \in Addresses : Quiet(h)
    BY <1>1, <2>2, <2>3, UntroubledHost
  <2> QED
    BY <1>3, <2>1, <2>2, <2>4 DEF AllQuiet
<1> QED
  BY <1>1, <1>3, <1>4, <1>5, ProgressQuiet, DisturbanceStrikes DEF TNext

LEMMA TimingInvariant ==
  ASSUME DelaysFit
  PROVE  TSpec => []TimingInv
<1>1. TInit => TimingInv
  BY TimingInvInitially
<1>2. TimingInv /\ [TNext]_timingVars => TimingInv'
  BY TimingInvInductive
<1> QED
  BY <1>1, <1>2, PTL DEF TSpec
-----------------------------------------------------------------------------
(* What is shown of a host whose process still sends snapshots *)

\* A device of the running process of a host is one at its address.
LEMMA OwnDevice ==
  ASSUME TimingTypes, \A h \in Addresses : Sound(h), NEW h \in Addresses,
         NEW i \in DOMAIN devices, devices[i].instance = Instance(h)
  PROVE  /\ devices[i] \in DevicesAt(devices, h)
         /\ devices[i].age \in Int /\ DeviceConsistent(devices[i])
         /\ devices[i].interval = Interval[h] /\ NotShownStaler(devices[i])
<1> DEFINE d == devices[i]
<1> DEFINE a == d.address
<1>1. d \in Device /\ DeviceConsistent(d) /\ a \in Addresses
  BY DEF TimingTypes, RegistryInv, GoodTable, SomeAddress
<1>2. d.age \in Int
  BY <1>1, DeviceNumbers
<1>3. DeviceOf(a, daemon[a], d)
  BY AllDevicesOf DEF AllOf
<1>4. a = h
  BY <1>3 DEF DeviceOf, Instance
<1>5. d \in DevicesAt(devices, h)
  BY <1>4, DeviceAtAddress
<1>6. d.interval = Interval[h] /\ NotShownStaler(d)
  BY <1>3, <1>4 DEF DeviceOf
<1> QED
  BY <1>1, <1>2, <1>5, <1>6

\* A device shown as stale or offline has data, of the age that the state stands for.
LEMMA ShownDevice ==
  ASSUME TimingTypes, \A h \in Addresses : Sound(h), NEW h \in Addresses,
         NEW i \in DOMAIN devices, devices[i].instance = Instance(h),
         devices[i].state \in {"Stale", "Offline"}
  PROVE  /\ devices[i] \in DevicesAt(devices, h)
         /\ devices[i].age \in Int /\ devices[i].age # None
         /\ devices[i].state = "Stale" => devices[i].age >= Interval[h] * StaleIntervals
         /\ devices[i].state = "Offline" => devices[i].age >= Interval[h] * OfflineIntervals
<1> DEFINE d == devices[i]
<1>1. /\ d \in DevicesAt(devices, h) /\ d.age \in Int /\ DeviceConsistent(d)
      /\ d.interval = Interval[h] /\ NotShownStaler(d)
  BY OwnDevice
<1>2. d.instance # NoInstance
  <2>1. d.address \in Addresses
    BY <1>1 DEF DevicesAt
  <2>2. d.address # NoAddress
    BY <2>1, RegistryAssumption
  <2> QED
    BY <1>1, <2>2 DEF DeviceConsistent
<1>3. d.age # None
  BY <1>1, <1>2 DEF DeviceConsistent
<1> QED
  BY <1>1, <1>3 DEF NotShownStaler

\* The age of what is shown of a host, without a fault and after one.
LEMMA DataAge ==
  ASSUME DelaysFit, TimingTypes, NEW h \in Addresses, Sound(h), ~ Exhausted(h),
         NEW d \in DevicesAt(devices, h), d.age # None
  PROVE  /\ Calm(h) => d.age <= Interval[h]
         /\ Shaken(h) => d.age <= MissedTurn(h)
<1> DEFINE p == daemon[h]
<1> DEFINE w == wait[h]
<1> DEFINE M == Mail(network, h)
<1> DEFINE D == DevicesAt(devices, h)
<1>1. HostTyped(h, p, w, M, D)
  BY TypedHost DEF TimingTypes, RegistryInv
<1>2. /\ HostInv(h, p, w, M, D)
      /\ Calm(h) => Undisturbed(h, p, w, M, D)
      /\ Shaken(h) => Disturbed(h, p, w, M, D)
  BY DEF Sound, Calm, Shaken
<1>3. d \in D /\ ~ (p.sequence > MaxSequence)
  BY DEF Exhausted
<1> HIDE DEF p, w, M, D
<1>4. /\ p.sequence \in Nat /\ w \in Nat /\ MaxSequence \in Nat /\ d.age \in Int
      /\ p.pc \in {"stopped", "resolving", "waiting", "sleeping"}
  BY <1>1, <1>3, HostNumbers
<1>5. /\ Interval[h] \in Nat /\ ReplySeconds \in Nat /\ RetrySeconds \in Nat
      /\ MissedTurn(h) \in Nat
  BY DelayNumbers
<1>6. p.sequence <= MaxSequence
  BY <1>3, <1>4
<1>7. p.pc # "stopped"
  BY <1>2, <1>3 DEF HostInv
<1>8. ASSUME Undisturbed(h, p, w, M, D)
      PROVE  d.age <= Interval[h]
  <2>1. d.age <= Interval[h] \/ d.age + w <= Interval[h]
    BY <1>3, <1>4, <1>6, <1>7, <1>8 DEF Undisturbed, UndisturbedAge
  <2> QED
    BY <1>4, <1>5, <2>1
<1>9. ASSUME Disturbed(h, p, w, M, D)
      PROVE  d.age <= MissedTurn(h)
  <2>1. InTime(h, p, w, M, d)
    BY <1>3, <1>6, <1>9 DEF Disturbed, DisturbedAge
  <2>2. \/ d.age <= MissedTurn(h)
        \/ d.age + w <= MissedTurn(h)
        \/ d.age + w + RetrySeconds <= MissedTurn(h)
    BY <1>4, <1>7, <2>1 DEF InTime
  <2> QED
    BY <1>4, <1>5, <2>2
<1> QED
  BY <1>2, <1>8, <1>9

\* The thresholds of StateAt leave room for an interval.
LEMMA Thresholds ==
  ASSUME DelaysFit, NEW h \in Addresses
  PROVE  /\ Interval[h] * StaleIntervals \in Int /\ Interval[h] * OfflineIntervals \in Int
         /\ Interval[h] < Interval[h] * StaleIntervals
         /\ Interval[h] < Interval[h] * OfflineIntervals
<1>1. Interval[h] \in Nat /\ Interval[h] > 0
  BY DelayNumbers
<1>2. StaleIntervals \in Nat /\ OfflineIntervals \in Nat /\ StaleIntervals >= 2 /\ OfflineIntervals >= 3
  BY RegistryAssumption DEF DelaysFit
<1>3. \A x, y \in Nat : x > 0 /\ y >= 2 => x * y \in Int /\ x < x * y
  OBVIOUS
<1> QED
  BY <1>1, <1>2, <1>3

\* Without faults, the turn of hello, reply and snapshot in run() repeats often enough that
\* a device which is online never becomes stale again.  However many hosts there are, with
\* whatever intervals and identities, this needs no more than delays that are not zero and
\* a device that is not stale after a single interval already.
THEOREM TimingHealthyStaysOnline ==
  ASSUME DelaysFit
  PROVE  TSpec => []HealthyDeviceStaysOnline
<1>1. ASSUME TimingInv
      PROVE  HealthyDeviceStaysOnline
  <2> SUFFICES ASSUME faults = MaxFaults, NEW h \in Addresses, ~ Exhausted(h),
                      NEW i \in DOMAIN devices, devices[i].instance = Instance(h),
                      devices[i].state \in {"Stale", "Offline"}
               PROVE  FALSE
    BY DEF HealthyDeviceStaysOnline, ShownAs
  <2> DEFINE age == devices[i].age
  <2>1. /\ age \in Int
        /\ age >= Interval[h] * StaleIntervals \/ age >= Interval[h] * OfflineIntervals
    BY <1>1, ShownDevice DEF TimingInv
  <2>2. age <= Interval[h]
    BY <1>1, ShownDevice, DataAge DEF TimingInv
  <2>3. Interval[h] \in Int
    BY DelayNumbers
  <2> DEFINE stale == Interval[h] * StaleIntervals
  <2> DEFINE offline == Interval[h] * OfflineIntervals
  <2>4. stale \in Int /\ offline \in Int /\ Interval[h] < stale /\ Interval[h] < offline
    BY Thresholds
  <2> HIDE DEF age, stale, offline
  <2> QED
    BY <2>1, <2>2, <2>3, <2>4 DEF stale, offline
<1> QED
  BY <1>1, TimingInvariant, PTL

\* A single fault (a lost, repeated or late datagram, or a failed name lookup) costs a device
\* one missed turn of run() and no more, for any number of hosts with any intervals, the
\* default of one second included: data gets no older than an interval with the reply timeout
\* and the long sleep, or with a second interval, and the device is shown offline only if
\* that reaches the threshold of updateFreshness().
THEOREM TimingOneFaultCostsOneTurn ==
  ASSUME DelaysFit
  PROVE  TSpec => []OneFaultCostsOneTurn
<1>1. ASSUME TimingInv
      PROVE  OneFaultCostsOneTurn
  <2> SUFFICES ASSUME faults >= MaxFaults - 1, NEW h \in Addresses, NEW i \in DOMAIN devices,
                      ~ Exhausted(h), devices[i].instance = Instance(h)
               PROVE  /\ devices[i].age <= MissedTurn(h)
                      /\ devices[i].state = "Offline" =>
                           OfflineIntervals * Interval[h] <= MissedTurn(h)
    BY DEF OneFaultCostsOneTurn
  <2> DEFINE age == devices[i].age
  <2> DEFINE offline == Interval[h] * OfflineIntervals
  <2>1. Interval[h] \in Nat /\ MissedTurn(h) \in Nat /\ Interval[h] <= MissedTurn(h)
    BY DelayNumbers DEF MissedTurn
  <2>2. faults = MaxFaults \/ faults = MaxFaults - 1
    BY <1>1, TimingAssumption DEF TimingInv, TimingTypes
  <2>3. Calm(h) \/ Shaken(h)
    BY <1>1, <2>2 DEF TimingInv
  <2>4. /\ Sound(h) /\ TimingTypes
        /\ devices[i] \in DevicesAt(devices, h) /\ age \in Int
    BY <1>1, OwnDevice DEF TimingInv
  <2>5. age <= MissedTurn(h)
    <3>1. CASE age = None
      BY <2>1, <3>1 DEF None
    <3>2. CASE age # None
      <4>1. age <= Interval[h] \/ age <= MissedTurn(h)
        BY <2>3, <2>4, <3>2, DataAge
      <4> HIDE DEF age
      <4> QED
        BY <2>1, <2>4, <4>1
    <3> QED
      BY <3>1, <3>2
  <2>6. ASSUME devices[i].state = "Offline"
        PROVE  OfflineIntervals * Interval[h] <= MissedTurn(h)
    <3>1. age >= offline
      BY <1>1, <2>6, ShownDevice DEF TimingInv
    <3>2. offline \in Int /\ offline = OfflineIntervals * Interval[h]
      BY <2>1, Thresholds, RegistryAssumption
    <3> HIDE DEF age, offline
    <3> QED
      BY <2>1, <2>4, <2>5, <3>1, <3>2
  <2> QED
    BY <2>5, <2>6
<1> QED
  BY <1>1, TimingInvariant, PTL
-----------------------------------------------------------------------------
(* The registry inside it *)

LEMMA TimedStepsOfRegistry ==
  ASSUME TimingInv, [TNext]_timingVars
  PROVE  [RegistryNext]_registryVars
<1>1. \A m \in network : m \in Datagrams
  BY DEF TimingInv, TimingTypes
<1>2. ASSUME NEW m \in network, NEW rest, Deliver(m, rest)
      PROVE  [RegistryNext]_registryVars
  <2>1. CASE ReceiveHello(m, rest)
    BY <1>1, <2>1, MessageTypes DEF ReceiveHello, RegistryNext
  <2>2. CASE ReceiveSnapshot(m, rest)
    BY <1>1, <2>2, MessageTypes DEF ReceiveSnapshot, RegistryNext
  <2>3. ASSUME NEW h \in Addresses, TDaemonReceive(m, h, rest)
        PROVE  UNCHANGED registryVars
    BY <2>3 DEF TDaemonReceive, DaemonReceive
  <2> QED
    BY <1>2, <2>1, <2>2, <2>3 DEF Deliver
<1>3. ASSUME NEW m \in network, Undeliverable(m) \/ Lose(m)
      PROVE  UNCHANGED registryVars
  BY <1>3 DEF Undeliverable, Lose, registryVars
<1>4. ASSUME NEW h \in Addresses, TDaemon(h) \/ TResolveFails(h)
      PROVE  UNCHANGED registryVars
  BY <1>4 DEF TDaemon, TResolveFails, DaemonSendHello, registryVars
<1>5. CASE TFreshnessTimer \/ TTick
  BY <1>5 DEF TFreshnessTimer, TTick, RegistryNext
<1>6. CASE UNCHANGED timingVars
  BY <1>6 DEF timingVars, vars, registryVars
<1> QED
  BY <1>2, <1>3, <1>4, <1>5, <1>6 DEF TNext, Progress, Disturbance

\* Held against the clock the registry is still the one of its own specification: every
\* theorem of RemoteDeviceRegistryProofs holds while the daemons, their delays and the
\* freshness timer keep time, whatever faults there are.
THEOREM TimingImplementsRegistry ==
  ASSUME DelaysFit
  PROVE  TSpec => RegistrySafety
<1>1. TInit => RegistryInit
  BY DEF TInit, Init
<1>2. TimingInv /\ [TNext]_timingVars => [RegistryNext]_registryVars
  BY TimedStepsOfRegistry
<1> QED
  BY <1>1, <1>2, TimingInvariant, PTL DEF TSpec, RegistrySafety
=============================================================================
