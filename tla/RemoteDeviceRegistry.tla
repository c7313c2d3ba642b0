------------------------ MODULE RemoteDeviceRegistry ------------------------
(***************************************************************************)
(* The dashboard's registry of remote devices                              *)
(* (src/telemetry/remote_device_registry.cpp).  The registry lives on the  *)
(* GUI thread: every operation runs to completion, so each is one action.  *)
(* What races are the operations themselves: hellos and snapshots in any   *)
(* order, the freshness timer, the user forgetting a device, and the       *)
(* process dying and reloading its file.                                   *)
(*                                                                         *)
(* Data.  display_name and last_snapshot_utc are left out: no operation    *)
(* reads them.  The metrics of a snapshot are named by the snapshot's      *)
(* sequence number, so that stale metrics can be told from current ones.   *)
(* Time advances in ticks of one second; the time of a device's last       *)
(* snapshot is kept as its age, and an age beyond the largest threshold is *)
(* not told apart from the threshold.                                      *)
(***************************************************************************)
EXTENDS TelemetryProtocol, SequencesExt

CONSTANTS
  NoAddress,        \* the null QHostAddress
  MaximumDevices,   \* maximumDevices (64)
  StaleIntervals,   \* a device is stale after this many intervals (3)
  OfflineIntervals  \* and offline after this many (10)

ASSUME RegistryAssumption ==
  /\ NoAddress \notin Addresses
  /\ MaximumDevices \in Nat \ {0}
  /\ StaleIntervals \in Nat \ {0}
  /\ OfflineIntervals \in Nat
  /\ StaleIntervals < OfflineIntervals

VARIABLES
  devices,     \* devices_, in display order
  storage,     \* remote-devices.cbor as it is on disk
  diagnostic   \* diagnostic_

registryVars == <<devices, storage, diagnostic>>
-----------------------------------------------------------------------------
None == -1  \* no snapshot yet: last_sequence is nullopt, last_snapshot_ms is -1
States == {"Registered", "Online", "Stale", "Offline"}
MaxAge == OfflineIntervals * MaxInterval

Device ==
  [id: DeviceIds, interval: Intervals, info: SystemInfos, state: States,
   instance: Instances \cup {NoInstance}, address: Addresses \cup {NoAddress},
   port: Ports \cup {0}, sequence: Sequences \cup {None},
   metrics: Sequences \cup {NoMetrics}, age: (0..MaxAge) \cup {None}]

\* What persist() writes of a device.
Entry == [id: DeviceIds, interval: Intervals, info: SystemInfos]

RegistryInit ==
  /\ devices = <<>>
  /\ storage = [kind |-> "missing", entries |-> <<>>]
  /\ diagnostic = "none"
-----------------------------------------------------------------------------
(* Freshness *)

\* Faulty: stale as soon as one interval has passed.
StateAtImpatient(age, interval) ==
  IF age >= interval * OfflineIntervals THEN "Offline"
  ELSE IF age >= interval THEN "Stale"
  ELSE "Online"

\* Faulty: offline already at the age at which a device is stale.
StateAtSkipsStale(age, interval) ==
  IF age >= interval * StaleIntervals THEN "Offline" ELSE "Online"

StateAt(age, interval) ==
  IF age >= interval * OfflineIntervals THEN "Offline"
  ELSE IF age >= interval * StaleIntervals THEN "Stale"
  ELSE "Online"

\* Faulty: a device without a snapshot is taken for one of age -1.
FreshenedAlways(d) == [d EXCEPT !.state = StateAt(d.age, d.interval)]

Freshened(d) ==
  IF d.age = None THEN d ELSE [d EXCEPT !.state = StateAt(d.age, d.interval)]

UpdateFreshness(ds) == [i \in 1..Len(ds) |-> Freshened(ds[i])]

Aged(d) ==
  IF d.age = None \/ d.age = MaxAge THEN d ELSE [d EXCEPT !.age = @ + 1]
-----------------------------------------------------------------------------
(* Persistence *)

\* The loops over devices_ stop at the first item with the wanted id.
FirstMatch(ds, i, id) ==
  /\ ds[i].id = id
  /\ \A j \in 1..(i - 1) : ds[j].id # id

Unknown(ds, id) == \A i \in DOMAIN ds : ds[i].id # id

Saved(ds) ==
  [i \in 1..Len(ds) |-> [id |-> ds[i].id, interval |-> ds[i].interval, info |-> ds[i].info]]

\* Faulty: a failed save is not reported.
PersistSilently(ds) ==
  \/ /\ storage' = [kind |-> "saved", entries |-> Saved(ds)]
     /\ UNCHANGED diagnostic
  \/ UNCHANGED <<storage, diagnostic>>

\* persist(): QSaveFile replaces the file as a whole or leaves it alone.
Persist(ds) ==
  \/ /\ storage' = [kind |-> "saved", entries |-> Saved(ds)]
     /\ UNCHANGED diagnostic
  \/ /\ diagnostic' = "persist failed"
     /\ UNCHANGED storage

\* Faulty: repeated identities in the file are not looked for.
LoadableWithRepeats(file) ==
  file.kind # "garbage" /\ Len(file.entries) <= MaximumDevices

Loadable(file) ==
  /\ file.kind # "garbage"
  /\ Len(file.entries) <= MaximumDevices
  /\ \A i, j \in DOMAIN file.entries : file.entries[i].id = file.entries[j].id => i = j

LoadedDevice(e) ==
  [id |-> e.id, interval |-> e.interval, info |-> e.info, state |-> "Offline",
   instance |-> NoInstance, address |-> NoAddress, port |-> 0,
   sequence |-> None, metrics |-> NoMetrics, age |-> None]

\* load(): all entries, or nothing and a diagnostic.
Load(file) ==
  IF Loadable(file)
  THEN /\ devices' = [i \in 1..Len(file.entries) |-> LoadedDevice(file.entries[i])]
       /\ diagnostic' = "none"
  ELSE /\ devices' = <<>>
       /\ diagnostic' = "corrupt"

\* What may have happened to a good file while the dashboard was down: it no longer
\* parses, or it holds an identity twice and perhaps too many entries.
Damaged(file) ==
  {[kind |-> "garbage", entries |-> <<>>]} \cup
  {[kind |-> file.kind, entries |-> Append(file.entries, file.entries[i])] :
     i \in {k \in DOMAIN file.entries : Loadable(file)}}
-----------------------------------------------------------------------------
(* Operations *)

\* Faulty: only a device that is shown as online defends its identity.
ClashesOnline(d, hello, address) ==
  /\ d.state = "Online"
  /\ d.instance # hello.instance
  /\ d.address # NoAddress
  /\ d.address # address

\* duplicate_device_id: the identity is in use by another process elsewhere.
Clashes(d, hello, address) ==
  /\ d.state # "Offline"
  /\ d.instance # hello.instance
  /\ d.address # NoAddress
  /\ d.address # address

\* Faulty: the interval is stored in milliseconds.
ReregisteredInMilliseconds(d, hello, address, port) ==
  [d EXCEPT !.interval = hello.interval * 1000, !.info = hello.info,
            !.address = address, !.port = port]

\* Faulty: the fields of the previous instance are not reset.
ReregisteredWithoutReset(d, hello, address, port) ==
  [d EXCEPT !.interval = hello.interval, !.info = hello.info, !.address = address,
            !.port = port, !.instance = hello.instance,
            !.state = IF @ = "Offline" THEN "Registered" ELSE @]

\* Faulty: a hello of the registered instance counts as fresh data.
ReregisteredAsFresh(d, hello, address, port) ==
  LET moved == [d EXCEPT !.interval = hello.interval, !.info = hello.info,
                         !.address = address, !.port = port]
  IN IF d.instance = hello.instance
     THEN [moved EXCEPT !.age = IF @ = None THEN @ ELSE 0]
     ELSE [moved EXCEPT !.instance = hello.instance, !.sequence = None,
                        !.metrics = NoMetrics, !.state = "Registered", !.age = None]

\* Faulty: a known instance keeps the port it first registered with.
ReregisteredOldPort(d, hello, address, port) ==
  LET moved == [d EXCEPT !.interval = hello.interval, !.info = hello.info, !.address = address]
  IN IF d.instance = hello.instance
     THEN moved
     ELSE [moved EXCEPT !.port = port, !.instance = hello.instance, !.sequence = None,
                        !.metrics = NoMetrics, !.state = "Registered", !.age = None]

Reregistered(d, hello, address, port) ==
  LET moved == [d EXCEPT !.interval = hello.interval, !.info = hello.info,
                         !.address = address, !.port = port]
  IN IF d.instance = hello.instance
     THEN moved
     ELSE [moved EXCEPT !.instance = hello.instance, !.sequence = None,
                        !.metrics = NoMetrics, !.state = "Registered", !.age = None]

NewDevice(hello, address, port) ==
  [id |-> hello.id, interval |-> hello.interval, info |-> hello.info,
   state |-> "Registered", instance |-> hello.instance, address |-> address,
   port |-> port, sequence |-> None, metrics |-> NoMetrics, age |-> None]

\* registerHello(): reason is its return value, "" on acceptance.
RegisterHello(hello, address, port, reason) ==
  LET fresh == UpdateFreshness(devices)
  IN \/ \E i \in DOMAIN fresh :
          /\ FirstMatch(fresh, i, hello.id)
          /\ Clashes(fresh[i], hello, address)
          /\ reason = "duplicate_device_id"
          /\ devices' = fresh
          /\ UNCHANGED <<storage, diagnostic>>
     \/ \E i \in DOMAIN fresh :
          /\ FirstMatch(fresh, i, hello.id)
          /\ ~ Clashes(fresh[i], hello, address)
          /\ reason = ""
          /\ devices' = [fresh EXCEPT ![i] = Reregistered(fresh[i], hello, address, port)]
          /\ Persist(devices')
     \/ /\ Unknown(fresh, hello.id)
        /\ Len(fresh) >= MaximumDevices
        /\ reason = "registry_full"
        /\ devices' = fresh
        /\ UNCHANGED <<storage, diagnostic>>
     \/ /\ Unknown(fresh, hello.id)
        /\ Len(fresh) < MaximumDevices
        /\ reason = ""
        /\ devices' = Append(fresh, NewDevice(hello, address, port))
        /\ Persist(devices')

\* Faulty: a repeated sequence number is accepted.
AcceptableRepeated(d, snapshot, address, port) ==
  /\ d.instance = snapshot.instance
  /\ d.address = address
  /\ d.port = port
  /\ d.interval = snapshot.interval
  /\ d.sequence = None \/ snapshot.sequence >= d.sequence

\* Faulty: the instance is not compared.
AcceptableAnyInstance(d, snapshot, address, port) ==
  /\ d.address = address
  /\ d.port = port
  /\ d.interval = snapshot.interval
  /\ d.sequence = None \/ snapshot.sequence > d.sequence

Acceptable(d, snapshot, address, port) ==
  /\ d.instance = snapshot.instance
  /\ d.address = address
  /\ d.port = port
  /\ d.interval = snapshot.interval
  /\ d.sequence = None \/ snapshot.sequence > d.sequence

\* acceptSnapshot(): accepted is its return value.
AcceptSnapshot(snapshot, address, port, accepted) ==
  \/ \E i \in DOMAIN devices :
       /\ FirstMatch(devices, i, snapshot.id)
       /\ Acceptable(devices[i], snapshot, address, port)
       /\ accepted = TRUE
       /\ devices' = [devices EXCEPT ![i] =
            [@ EXCEPT !.sequence = snapshot.sequence, !.info = snapshot.info,
                      !.metrics = snapshot.metrics, !.age = 0, !.state = "Online"]]
       /\ Persist(devices')
  \/ /\ Unknown(devices, snapshot.id) \/ \E i \in DOMAIN devices :
          FirstMatch(devices, i, snapshot.id) /\ ~ Acceptable(devices[i], snapshot, address, port)
     /\ accepted = FALSE
     /\ UNCHANGED registryVars

\* The freshness_timer_ callback.
FreshnessTimer ==
  /\ devices' = UpdateFreshness(devices)
  /\ UNCHANGED <<storage, diagnostic>>

ForgetDevice(id) ==
  \E i \in DOMAIN devices :
    /\ FirstMatch(devices, i, id)
    /\ devices' = RemoveAt(devices, i)
    /\ Persist(devices')

\* The dashboard process ends at any point and starts again.
Restart ==
  /\ \E file \in {storage} \cup Damaged(storage) :
       /\ storage' = file
       /\ \/ Load(file)
          \/ /\ file.kind # "missing"  \* open() fails
             /\ devices' = <<>>
             /\ diagnostic' = "unreadable"

\* One second passes.
Tick ==
  /\ devices' = [i \in 1..Len(devices) |-> Aged(devices[i])]
  /\ UNCHANGED <<storage, diagnostic>>

RegistryNext ==
  \/ \E hello \in Hello, address \in Addresses, port \in Ports, reason \in Reasons :
       RegisterHello(hello, address, port, reason)
  \/ \E snapshot \in Snapshot, address \in Addresses, port \in Ports, accepted \in BOOLEAN :
       AcceptSnapshot(snapshot, address, port, accepted)
  \/ FreshnessTimer
  \/ \E id \in DeviceIds : ForgetDevice(id)
  \/ Restart
  \/ Tick

RegistrySafety == RegistryInit /\ [][RegistryNext]_registryVars

\* Time passes, and the Qt timer keeps firing while the dashboard runs.
RegistrySpec ==
  /\ RegistrySafety
  /\ WF_registryVars(Tick)
  /\ WF_registryVars(FreshnessTimer)
-----------------------------------------------------------------------------
(* Properties *)

\* Type invariant of the registry's members and of its file.
RegistryTypeOK ==
  /\ devices \in Seq(Device)
  /\ storage.kind \in {"missing", "saved", "garbage"}
  /\ storage.entries \in Seq(Entry)
  /\ storage = [kind |-> storage.kind, entries |-> storage.entries]
  /\ diagnostic \in {"none", "persist failed", "unreadable", "corrupt"}

\* No sequence of hellos, removals and reloads registers an identity twice
\* or goes over maximumDevices: every loop over devices_ may stop at its first hit.
DevicesDistinctAndBounded ==
  /\ Len(devices) <= MaximumDevices
  /\ \A i, j \in DOMAIN devices : devices[i].id = devices[j].id => i = j

DeviceConsistent(d) ==
  /\ d.sequence = None <=> d.age = None
  /\ d.metrics \in {NoMetrics, d.sequence}
  /\ d.instance = NoInstance <=> d.address = NoAddress
  /\ d.instance = NoInstance => d.state = "Offline" /\ d.sequence = None
  /\ d.instance # NoInstance => (d.state = "Registered" <=> d.sequence = None)

\* The live fields of a device describe one registration: a state that shows
\* data has a snapshot of the registered instance behind it, the metrics are
\* those of the last accepted snapshot or absent, and a device that waits for its first
\* snapshot or was only read from disk shows nothing of an earlier one.
RegistrationConsistent == \A i \in DOMAIN devices : DeviceConsistent(devices[i])

\* While no diagnostic is shown, a restart would bring back exactly the devices
\* on screen: every operation that changes a persisted field also saves.
DiskMatchesMemory ==
  diagnostic = "none" => storage.entries = Saved(devices)

\* Within one registration of one process, the registry never goes back to an older
\* snapshot, and the age of the data restarts only with a newer one.
SnapshotsOnlyMoveForward ==
  [][\A i \in DOMAIN devices, j \in DOMAIN devices' :
       (devices[i].id = devices'[j].id /\ devices[i].instance = devices'[j].instance) =>
         /\ devices'[j].sequence >= devices[i].sequence
         /\ devices'[j].age < devices[i].age => devices'[j].sequence > devices[i].sequence
    ]_registryVars

\* A process at another address takes an identity over only if the data of
\* the one that had it is OfflineIntervals old by the clock, even when the timer has
\* not yet shown it as offline.
TakeoverOnlyWhenOffline ==
  [][\A i \in DOMAIN devices, j \in DOMAIN devices' :
       LET old == devices[i]
           new == devices'[j]
       IN (/\ old.id = new.id
           /\ NoAddress \notin {old.address, new.address}
           /\ old.address # new.address
           /\ old.instance # new.instance)
          => old.age >= old.interval * OfflineIntervals
    ]_registryVars

SnapshotAccepted ==
  \E i \in DOMAIN devices, j \in DOMAIN devices' :
    /\ devices[i].id = devices'[j].id
    /\ devices'[j].sequence > devices[i].sequence

\* Once snapshots stop arriving, no device stays shown as online or stale,
\* whatever hellos still arrive.
SilentDevicesGoOffline ==
  <>[][~ SnapshotAccepted]_registryVars =>
    <>[](\A i \in DOMAIN devices : devices[i].state \in {"Registered", "Offline"})
=============================================================================
