--------------------- MODULE RemoteDeviceRegistryProofs ---------------------
(***************************************************************************)
(* What holds of the registry for any number of devices, addresses,        *)
(* intervals and sequence numbers.                                         *)
(***************************************************************************)
EXTENDS RemoteDeviceRegistry, SequenceTheorems, TLAPS

DistinctAndBounded(ds) ==
  /\ Len(ds) <= MaximumDevices
  /\ \A i, j \in DOMAIN ds : ds[i].id = ds[j].id => i = j

\* A device table the registry may hold.
GoodTable(ds) ==
  /\ ds \in Seq(Device)
  /\ DistinctAndBounded(ds)
  /\ \A i \in DOMAIN ds : DeviceConsistent(ds[i])

\* The inductive invariant.
RegistryInv ==
  /\ RegistryTypeOK
  /\ GoodTable(devices)

LEMMA ConstantFacts ==
  /\ None \notin Sequences
  /\ NoMetrics \notin Sequences
  /\ None # NoMetrics
  /\ MaxAge \in Nat
  /\ Intervals \subseteq Nat
BY ProtocolAssumption, RegistryAssumption DEF None, NoMetrics, Sequences, MaxAge, Intervals

\* updateFreshness() changes nothing of a device but its state.
LEMMA FreshenedDevice ==
  ASSUME NEW d \in Device, DeviceConsistent(d)
  PROVE  /\ Freshened(d) \in Device
         /\ DeviceConsistent(Freshened(d))
         /\ Freshened(d).id = d.id
         /\ Freshened(d).interval = d.interval
         /\ Freshened(d).info = d.info
         /\ Freshened(d).instance = d.instance
         /\ Freshened(d).address = d.address
         /\ Freshened(d).sequence = d.sequence
         /\ Freshened(d).age = d.age
         /\ d.age # None => Freshened(d).state = StateAt(d.age, d.interval)
         /\ d.age = None => Freshened(d) = d
<1>1. StateAt(d.age, d.interval) \in {"Online", "Stale", "Offline"}
  BY DEF StateAt
<1>2. CASE d.age = None
  BY <1>2 DEF Freshened
<1>3. CASE d.age # None
  <2>1. Freshened(d) = [d EXCEPT !.state = StateAt(d.age, d.interval)]
    BY <1>3 DEF Freshened
  <2> DEFINE st == StateAt(d.age, d.interval)
  <2> HIDE DEF st
  <2>2. st \in {"Online", "Stale", "Offline"}
    BY <1>1 DEF st
  <2>3. Freshened(d) = [d EXCEPT !.state = st]
    BY <2>1 DEF st
  <2>4. /\ Freshened(d) \in Device
        /\ Freshened(d).id = d.id
        /\ Freshened(d).interval = d.interval
        /\ Freshened(d).info = d.info
        /\ Freshened(d).instance = d.instance
        /\ Freshened(d).address = d.address
        /\ Freshened(d).sequence = d.sequence
        /\ Freshened(d).metrics = d.metrics
        /\ Freshened(d).age = d.age
        /\ Freshened(d).state = st
    BY <2>2, <2>3 DEF Device, States
  <2>5. d.sequence # None
    BY <1>3 DEF DeviceConsistent
  <2>6. d.instance # NoInstance
    BY <2>5 DEF DeviceConsistent, Device, States
  <2>7. DeviceConsistent(Freshened(d))
    BY <2>2, <2>4, <2>5, <2>6 DEF DeviceConsistent
  <2> QED
    BY <1>3, <2>4, <2>7 DEF st
<1> QED
  BY <1>2, <1>3

LEMMA FreshTable ==
  ASSUME NEW ds, GoodTable(ds)
  PROVE  /\ GoodTable(UpdateFreshness(ds))
         /\ Len(UpdateFreshness(ds)) = Len(ds)
         /\ DOMAIN UpdateFreshness(ds) = DOMAIN ds
         /\ \A i \in DOMAIN ds : UpdateFreshness(ds)[i] = Freshened(ds[i])
         /\ Saved(UpdateFreshness(ds)) = Saved(ds)
<1> DEFINE fs == UpdateFreshness(ds)
<1>1. ds \in Seq(Device) /\ Len(ds) \in Nat /\ DOMAIN ds = 1..Len(ds)
  BY DEF GoodTable
<1>2. \A i \in 1..Len(ds) : /\ Freshened(ds[i]) \in Device
                            /\ DeviceConsistent(Freshened(ds[i]))
                            /\ Freshened(ds[i]).id = ds[i].id
                            /\ Freshened(ds[i]).interval = ds[i].interval
                            /\ Freshened(ds[i]).info = ds[i].info
  BY <1>1, FreshenedDevice DEF GoodTable
<1>3. fs = [i \in 1..Len(ds) |-> Freshened(ds[i])]
  BY DEF UpdateFreshness
<1> HIDE DEF fs
<1>4. fs \in Seq(Device) /\ Len(fs) = Len(ds) /\ DOMAIN fs = 1..Len(ds)
  BY <1>1, <1>2, <1>3
<1>5. \A i \in 1..Len(ds) : fs[i] = Freshened(ds[i])
  BY <1>3
<1>6. Saved(fs) = Saved(ds)
  BY <1>1, <1>2, <1>4, <1>5 DEF Saved
<1>7. GoodTable(fs)
  BY <1>1, <1>2, <1>4, <1>5 DEF GoodTable, DistinctAndBounded
<1> QED
  BY <1>1, <1>4, <1>5, <1>6, <1>7 DEF fs

\* A hello of a known device keeps its identity and starts or keeps one registration.
LEMMA ReregisteredDevice ==
  ASSUME NEW d \in Device, DeviceConsistent(d),
         NEW hello \in Hello, NEW address \in Addresses, NEW port \in Ports
  PROVE  /\ Reregistered(d, hello, address, port) \in Device
         /\ DeviceConsistent(Reregistered(d, hello, address, port))
         /\ Reregistered(d, hello, address, port).id = d.id
         /\ Reregistered(d, hello, address, port).instance = hello.instance
         /\ Reregistered(d, hello, address, port).address = address
         /\ d.instance = hello.instance =>
              /\ Reregistered(d, hello, address, port).sequence = d.sequence
              /\ Reregistered(d, hello, address, port).age = d.age
<1> DEFINE r == Reregistered(d, hello, address, port)
<1>1. hello.instance # NoInstance /\ address # NoAddress
  BY ProtocolAssumption, RegistryAssumption DEF Hello
<1>2. CASE d.instance = hello.instance
  <2>1. r = [d EXCEPT !.interval = hello.interval, !.info = hello.info,
                      !.address = address, !.port = port]
    BY <1>2 DEF Reregistered
  <2> HIDE DEF r
  <2>2. /\ r \in Device
        /\ r.id = d.id
        /\ r.instance = d.instance
        /\ r.address = address
        /\ r.sequence = d.sequence
        /\ r.metrics = d.metrics
        /\ r.state = d.state
        /\ r.age = d.age
    BY <2>1 DEF Device, Hello
  <2>3. DeviceConsistent(r)
    BY <1>1, <1>2, <2>2 DEF DeviceConsistent
  <2> QED
    BY <1>2, <2>2, <2>3 DEF r
<1>3. CASE d.instance # hello.instance
  <2>1. r = [d EXCEPT !.interval = hello.interval, !.info = hello.info,
                      !.address = address, !.port = port,
                      !.instance = hello.instance, !.sequence = None,
                      !.metrics = NoMetrics, !.state = "Registered", !.age = None]
    BY <1>3 DEF Reregistered, Device
  <2> HIDE DEF r
  <2>2. /\ r \in Device
        /\ r.id = d.id
        /\ r.instance = hello.instance
        /\ r.address = address
        /\ r.sequence = None
        /\ r.metrics = NoMetrics
        /\ r.state = "Registered"
        /\ r.age = None
    BY <2>1 DEF Device, Hello, States
  <2>3. DeviceConsistent(r)
    BY <1>1, <2>2 DEF DeviceConsistent
  <2> QED
    BY <1>3, <2>2, <2>3 DEF r
<1> QED
  BY <1>2, <1>3

LEMMA FirstDevice ==
  ASSUME NEW hello \in Hello, NEW address \in Addresses, NEW port \in Ports
  PROVE  /\ NewDevice(hello, address, port) \in Device
         /\ DeviceConsistent(NewDevice(hello, address, port))
         /\ NewDevice(hello, address, port).id = hello.id
BY ProtocolAssumption, RegistryAssumption DEF NewDevice, Device, Hello, DeviceConsistent, States

LEMMA LoadedFromEntry ==
  ASSUME NEW e \in Entry
  PROVE  /\ LoadedDevice(e) \in Device
         /\ DeviceConsistent(LoadedDevice(e))
         /\ LoadedDevice(e).id = e.id
         /\ LoadedDevice(e).interval = e.interval
         /\ LoadedDevice(e).info = e.info
         /\ LoadedDevice(e).instance = NoInstance
         /\ LoadedDevice(e).address = NoAddress
BY ProtocolAssumption, RegistryAssumption DEF LoadedDevice, Device, Entry, DeviceConsistent, States

\* Replacing a device by one with the same identity keeps a table good.
LEMMA ReplaceInTable ==
  ASSUME NEW ds, GoodTable(ds), NEW i \in DOMAIN ds, NEW d \in Device,
         DeviceConsistent(d), d.id = ds[i].id
  PROVE  /\ GoodTable([ds EXCEPT ![i] = d])
         /\ DOMAIN [ds EXCEPT ![i] = d] = DOMAIN ds
         /\ \A j \in DOMAIN ds : [ds EXCEPT ![i] = d][j] = IF j = i THEN d ELSE ds[j]
<1> DEFINE es == [ds EXCEPT ![i] = d]
<1>1. ds \in Seq(Device) /\ DOMAIN ds = 1..Len(ds) /\ Len(ds) \in Nat
  BY DEF GoodTable
<1>2. es \in Seq(Device) /\ Len(es) = Len(ds) /\ DOMAIN es = DOMAIN ds
  BY <1>1, ExceptSeq
<1>3. \A j \in DOMAIN ds : es[j] = IF j = i THEN d ELSE ds[j]
  BY <1>1
<1> HIDE DEF es
<1>4. GoodTable(es)
  BY <1>1, <1>2, <1>3 DEF GoodTable, DistinctAndBounded
<1> QED
  BY <1>2, <1>3, <1>4 DEF es

LEMMA AppendToTable ==
  ASSUME NEW ds, GoodTable(ds), NEW d \in Device, DeviceConsistent(d),
         Unknown(ds, d.id), Len(ds) < MaximumDevices
  PROVE  /\ GoodTable(Append(ds, d))
         /\ DOMAIN Append(ds, d) = 1..(Len(ds) + 1)
         /\ \A j \in DOMAIN ds : Append(ds, d)[j] = ds[j]
         /\ Append(ds, d)[Len(ds) + 1] = d
<1> DEFINE es == Append(ds, d)
<1>1. ds \in Seq(Device) /\ DOMAIN ds = 1..Len(ds) /\ Len(ds) \in Nat
  BY DEF GoodTable
<1>2. /\ es \in Seq(Device)
      /\ Len(es) = Len(ds) + 1
      /\ \A j \in 1..Len(ds) : es[j] = ds[j]
      /\ es[Len(ds) + 1] = d
  BY <1>1, AppendProperties
<1> HIDE DEF es
<1>3. DOMAIN es = 1..(Len(ds) + 1)
  BY <1>1, <1>2
<1>4. \A j \in DOMAIN es : j \in 1..Len(ds) \/ j = Len(ds) + 1
  BY <1>1, <1>3
<1>5. DistinctAndBounded(es)
  <2>1. Len(es) <= MaximumDevices
    BY <1>1, <1>2, ProtocolAssumption, RegistryAssumption
  <2>2. ASSUME NEW j \in DOMAIN es, NEW k \in DOMAIN es, es[j].id = es[k].id
        PROVE  j = k
    BY <1>1, <1>2, <1>4, <2>2 DEF GoodTable, DistinctAndBounded, Unknown
  <2> QED
    BY <2>1, <2>2 DEF DistinctAndBounded
<1>6. \A j \in DOMAIN es : DeviceConsistent(es[j])
  BY <1>1, <1>2, <1>4 DEF GoodTable
<1> QED
  BY <1>1, <1>2, <1>3, <1>5, <1>6 DEF es, GoodTable

LEMMA RemoveAtProperties ==
  ASSUME NEW S, NEW ds \in Seq(S), NEW i \in DOMAIN ds
  PROVE  /\ RemoveAt(ds, i) \in Seq(S)
         /\ Len(RemoveAt(ds, i)) = Len(ds) - 1
         /\ DOMAIN RemoveAt(ds, i) = 1..(Len(ds) - 1)
         /\ \A j \in 1..(Len(ds) - 1) :
              RemoveAt(ds, i)[j] = IF j < i THEN ds[j] ELSE ds[j + 1]
<1> DEFINE es == RemoveAt(ds, i)
<1> DEFINE front == SubSeq(ds, 1, i - 1)
<1> DEFINE back == SubSeq(ds, i + 1, Len(ds))
<1>1. DOMAIN ds = 1..Len(ds) /\ Len(ds) \in Nat /\ i \in 1..Len(ds)
  OBVIOUS
<1>2. /\ front \in Seq(S)
      /\ Len(front) = i - 1
      /\ \A j \in 1..(i - 1) : front[j] = ds[j]
  BY <1>1
<1>3. /\ back \in Seq(S)
      /\ Len(back) = Len(ds) - i
      /\ \A j \in 1..(Len(ds) - i) : back[j] = ds[i + j]
  BY <1>1
<1>4. es = front \o back
  BY DEF RemoveAt
<1> HIDE DEF es, front, back
<1>5. /\ es \in Seq(S)
      /\ Len(es) = Len(ds) - 1
      /\ DOMAIN es = 1..(Len(ds) - 1)
      /\ \A j \in 1..(Len(ds) - 1) : es[j] = IF j <= i - 1 THEN front[j] ELSE back[j - (i - 1)]
  <2>1. /\ es \in Seq(S)
        /\ Len(es) = Len(front) + Len(back)
        /\ \A j \in 1..(Len(front) + Len(back)) :
             es[j] = IF j <= Len(front) THEN front[j] ELSE back[j - Len(front)]
    BY <1>2, <1>3, <1>4, ConcatProperties
  <2>2. Len(front) + Len(back) = Len(ds) - 1
    BY <1>1, <1>2, <1>3
  <2> QED
    BY <1>2, <2>1, <2>2
<1>6. \A j \in 1..(Len(ds) - 1) : es[j] = IF j < i THEN ds[j] ELSE ds[j + 1]
  <2> TAKE j \in 1..(Len(ds) - 1)
  <2>1. CASE j < i
    <3>1. j <= i - 1 /\ j \in 1..(i - 1)
      BY <1>1, <2>1
    <3>2. es[j] = front[j]
      BY <1>5, <3>1
    <3> QED
      BY <1>2, <2>1, <3>1, <3>2
  <2>2. CASE ~ (j < i)
    <3>1. j - (i - 1) \in 1..(Len(ds) - i) /\ i + (j - (i - 1)) = j + 1
      BY <1>1, <2>2
    <3>2. ~ (j <= i - 1)
      BY <1>1, <2>2
    <3>3. es[j] = back[j - (i - 1)]
      BY <1>5, <3>2
    <3> QED
      BY <1>3, <3>1, <3>3, <2>2
  <2> QED
    BY <2>1, <2>2
<1> QED
  BY <1>5, <1>6 DEF es

LEMMA RemoveFromTable ==
  ASSUME NEW ds, GoodTable(ds), NEW i \in DOMAIN ds
  PROVE  /\ GoodTable(RemoveAt(ds, i))
         /\ DOMAIN RemoveAt(ds, i) = 1..(Len(ds) - 1)
         /\ \A j \in 1..(Len(ds) - 1) :
              RemoveAt(ds, i)[j] = IF j < i THEN ds[j] ELSE ds[j + 1]
<1> DEFINE es == RemoveAt(ds, i)
<1>1. ds \in Seq(Device) /\ DOMAIN ds = 1..Len(ds) /\ Len(ds) \in Nat /\ i \in 1..Len(ds)
  BY DEF GoodTable
<1>2. /\ es \in Seq(Device)
      /\ Len(es) = Len(ds) - 1
      /\ DOMAIN es = 1..(Len(ds) - 1)
      /\ \A j \in 1..(Len(ds) - 1) : es[j] = IF j < i THEN ds[j] ELSE ds[j + 1]
  BY <1>1, RemoveAtProperties
<1> HIDE DEF es
<1> DEFINE old(j) == IF j < i THEN j ELSE j + 1
<1>3. ASSUME NEW j \in DOMAIN es
      PROVE  old(j) \in DOMAIN ds /\ es[j] = ds[old(j)]
  BY <1>1, <1>2, <1>3
<1>4. DistinctAndBounded(es)
  <2>1. Len(es) <= MaximumDevices
    BY <1>1, <1>2, ProtocolAssumption, RegistryAssumption DEF GoodTable, DistinctAndBounded
  <2>2. ASSUME NEW j \in DOMAIN es, NEW k \in DOMAIN es, es[j].id = es[k].id
        PROVE  j = k
    <3>1. old(j) \in DOMAIN ds /\ es[j] = ds[old(j)]
      BY <1>3
    <3>2. old(k) \in DOMAIN ds /\ es[k] = ds[old(k)]
      BY <1>3
    <3> HIDE DEF old
    <3>3. old(j) = old(k)
      BY <2>2, <3>1, <3>2 DEF GoodTable, DistinctAndBounded
    <3> USE DEF old
    <3> QED
      BY <1>1, <1>2, <3>3
  <2> QED
    BY <2>1, <2>2 DEF DistinctAndBounded
<1>5. \A j \in DOMAIN es : DeviceConsistent(es[j])
  <2> HIDE DEF old
  <2> QED
    BY <1>3 DEF GoodTable
<1> QED
  BY <1>2, <1>4, <1>5 DEF es, GoodTable
-----------------------------------------------------------------------------
LEMMA SavedTyped ==
  ASSUME NEW ds \in Seq(Device)
  PROVE  /\ Saved(ds) \in Seq(Entry)
         /\ Len(Saved(ds)) = Len(ds)
         /\ \A i \in DOMAIN ds : Saved(ds)[i] =
              [id |-> ds[i].id, interval |-> ds[i].interval, info |-> ds[i].info]
<1> DEFINE entry(i) == [id |-> ds[i].id, interval |-> ds[i].interval, info |-> ds[i].info]
<1>1. Len(ds) \in Nat /\ DOMAIN ds = 1..Len(ds)
  OBVIOUS
<1>2. ASSUME NEW i \in 1..Len(ds)
      PROVE  entry(i) \in Entry
  <2>1. ds[i] \in Device
    BY <1>1
  <2> QED
    BY <2>1 DEF Device, Entry
<1>3. Saved(ds) = [i \in 1..Len(ds) |-> entry(i)]
  BY DEF Saved
<1> HIDE DEF entry
<1>4. /\ Saved(ds) \in Seq(Entry)
      /\ Len(Saved(ds)) = Len(ds)
      /\ \A i \in DOMAIN ds : Saved(ds)[i] = entry(i)
  BY <1>1, <1>2, <1>3
<1> QED
  BY <1>4 DEF entry

LEMMA PersistTyped ==
  ASSUME RegistryTypeOK, devices' \in Seq(Device), Persist(devices')
  PROVE  RegistryTypeOK'
<1>1. Saved(devices') \in Seq(Entry)
  BY SavedTyped
<1>2. CASE storage' = [kind |-> "saved", entries |-> Saved(devices')] /\ UNCHANGED diagnostic
  BY <1>1, <1>2 DEF RegistryTypeOK
<1>3. CASE diagnostic' = "persist failed" /\ UNCHANGED storage
  BY <1>3 DEF RegistryTypeOK
<1> QED
  BY <1>2, <1>3 DEF Persist

LEMMA HelloKeepsInv ==
  ASSUME RegistryInv,
         NEW hello \in Hello, NEW address \in Addresses, NEW port \in Ports, NEW reason,
         RegisterHello(hello, address, port, reason)
  PROVE  RegistryInv'
<1> DEFINE fresh == UpdateFreshness(devices)
<1>1. GoodTable(fresh) /\ DOMAIN fresh = 1..Len(fresh) /\ Len(fresh) \in Nat
  BY FreshTable DEF RegistryInv, GoodTable
<1> HIDE DEF fresh
<1>2. SUFFICES GoodTable(devices') /\ (Persist(devices') \/ UNCHANGED <<storage, diagnostic>>)
  <2>1. CASE Persist(devices')
    BY <1>2, <2>1, PersistTyped DEF RegistryInv, GoodTable
  <2>2. CASE UNCHANGED <<storage, diagnostic>>
    BY <1>2, <2>2 DEF RegistryInv, RegistryTypeOK, GoodTable
  <2> QED
    BY <1>2, <2>1, <2>2
<1>3. CASE devices' = fresh /\ UNCHANGED <<storage, diagnostic>>
  BY <1>1, <1>3
<1>4. ASSUME NEW i \in DOMAIN fresh,
             devices' = [fresh EXCEPT ![i] = Reregistered(fresh[i], hello, address, port)],
             Persist(devices')
      PROVE  GoodTable(devices')
  <2> DEFINE r == Reregistered(fresh[i], hello, address, port)
  <2>1. fresh[i] \in Device /\ DeviceConsistent(fresh[i])
    BY <1>1 DEF GoodTable
  <2>2. r \in Device /\ DeviceConsistent(r) /\ r.id = fresh[i].id
    BY <2>1, ReregisteredDevice
  <2> HIDE DEF r
  <2>3. GoodTable([fresh EXCEPT ![i] = r])
    BY <1>1, <2>2, ReplaceInTable
  <2> QED
    BY <1>4, <2>3 DEF r
<1>5. CASE /\ Unknown(fresh, hello.id)
           /\ Len(fresh) < MaximumDevices
           /\ devices' = Append(fresh, NewDevice(hello, address, port))
           /\ Persist(devices')
  <2>1. GoodTable(Append(fresh, NewDevice(hello, address, port)))
    BY <1>1, <1>5, FirstDevice, AppendToTable
  <2> QED
    BY <1>5, <2>1
<1> QED
  BY <1>3, <1>4, <1>5 DEF RegisterHello, fresh

LEMMA SnapshotKeepsInv ==
  ASSUME RegistryInv,
         NEW snapshot \in Snapshot, NEW address \in Addresses, NEW port \in Ports, NEW accepted,
         AcceptSnapshot(snapshot, address, port, accepted)
  PROVE  RegistryInv'
<1>1. CASE UNCHANGED registryVars
  BY <1>1 DEF RegistryInv, RegistryTypeOK, GoodTable, DistinctAndBounded, registryVars
<1>2. ASSUME NEW i \in DOMAIN devices,
             Acceptable(devices[i], snapshot, address, port),
             devices' = [devices EXCEPT ![i] =
               [@ EXCEPT !.sequence = snapshot.sequence, !.info = snapshot.info,
                         !.metrics = snapshot.metrics, !.age = 0, !.state = "Online"]],
             Persist(devices')
      PROVE  RegistryInv'
  <2> DEFINE d == [devices[i] EXCEPT !.sequence = snapshot.sequence, !.info = snapshot.info,
                                     !.metrics = snapshot.metrics, !.age = 0,
                                     !.state = "Online"]
  <2>1. /\ devices[i] \in Device
        /\ DeviceConsistent(devices[i])
        /\ devices[i].instance = snapshot.instance
    BY <1>2 DEF RegistryInv, GoodTable, Acceptable
  <2>2. /\ snapshot.sequence \in Sequences
        /\ snapshot.info \in SystemInfos
        /\ snapshot.metrics \in {snapshot.sequence, NoMetrics}
        /\ snapshot.instance \in Instances
    BY DEF Snapshot
  <2>3. 0 \in 0..MaxAge /\ 0 # None /\ snapshot.sequence # None
    BY <2>2, ConstantFacts DEF None
  <2>4. /\ d \in Device
        /\ d.id = devices[i].id
        /\ d.sequence = snapshot.sequence
        /\ d.metrics = snapshot.metrics
        /\ d.age = 0
        /\ d.state = "Online"
        /\ d.instance = snapshot.instance
        /\ d.address = devices[i].address
    BY <2>1, <2>2, <2>3 DEF Device, States
  <2>5. snapshot.instance # NoInstance
    BY <2>2, ProtocolAssumption, RegistryAssumption
  <2> HIDE DEF d
  <2>6. DeviceConsistent(d)
    BY <2>1, <2>2, <2>3, <2>4, <2>5 DEF DeviceConsistent
  <2>7. devices' = [devices EXCEPT ![i] = d]
    BY <1>2 DEF d
  <2>8. GoodTable(devices')
    BY <2>4, <2>6, <2>7, ReplaceInTable DEF RegistryInv
  <2> QED
    BY <1>2, <2>8, PersistTyped DEF RegistryInv, GoodTable
<1> QED
  BY <1>1, <1>2 DEF AcceptSnapshot

LEMMA AgedTable ==
  ASSUME NEW ds, GoodTable(ds)
  PROVE  /\ GoodTable([i \in 1..Len(ds) |-> Aged(ds[i])])
         /\ Saved([i \in 1..Len(ds) |-> Aged(ds[i])]) = Saved(ds)
<1> DEFINE es == [i \in 1..Len(ds) |-> Aged(ds[i])]
<1>1. ds \in Seq(Device) /\ Len(ds) \in Nat /\ DOMAIN ds = 1..Len(ds)
  BY DEF GoodTable
<1>2. ASSUME NEW d \in Device, DeviceConsistent(d)
      PROVE  /\ Aged(d) \in Device /\ DeviceConsistent(Aged(d))
             /\ Aged(d).id = d.id /\ Aged(d).interval = d.interval /\ Aged(d).info = d.info
  <2>1. CASE d.age = None \/ d.age = MaxAge
    BY <1>2, <2>1 DEF Aged
  <2>2. CASE ~ (d.age = None \/ d.age = MaxAge)
    <3>1. d.age \in 0..MaxAge /\ d.age # MaxAge
      BY <2>2 DEF Device
    <3>2. d.age + 1 \in 0..MaxAge /\ d.age + 1 # None
      BY <3>1, ConstantFacts DEF None
    <3>3. Aged(d) = [d EXCEPT !.age = d.age + 1]
      BY <2>2 DEF Aged
    <3> DEFINE older == d.age + 1
    <3> HIDE DEF older
    <3>4. Aged(d) = [d EXCEPT !.age = older] /\ older \in 0..MaxAge /\ older # None
      BY <3>2, <3>3 DEF older
    <3>5. /\ Aged(d) \in Device
          /\ Aged(d).id = d.id
          /\ Aged(d).interval = d.interval
          /\ Aged(d).info = d.info
          /\ Aged(d).sequence = d.sequence
          /\ Aged(d).metrics = d.metrics
          /\ Aged(d).instance = d.instance
          /\ Aged(d).address = d.address
          /\ Aged(d).state = d.state
          /\ Aged(d).age = older
      BY <3>4 DEF Device
    <3> QED
      BY <1>2, <2>2, <3>4, <3>5 DEF DeviceConsistent
  <2> QED
    BY <2>1, <2>2
<1>3. \A i \in 1..Len(ds) : /\ Aged(ds[i]) \in Device
                            /\ DeviceConsistent(Aged(ds[i]))
                            /\ Aged(ds[i]).id = ds[i].id
                            /\ Aged(ds[i]).interval = ds[i].interval
                            /\ Aged(ds[i]).info = ds[i].info
  BY <1>1, <1>2 DEF GoodTable
<1>4. /\ es \in Seq(Device)
      /\ Len(es) = Len(ds)
      /\ DOMAIN es = 1..Len(ds)
      /\ \A i \in 1..Len(ds) : es[i] = Aged(ds[i])
  BY <1>1, <1>3
<1> HIDE DEF es
<1>5. GoodTable(es)
  BY <1>1, <1>3, <1>4 DEF GoodTable, DistinctAndBounded
<1>6. Saved(es) = Saved(ds)
  BY <1>1, <1>3, <1>4 DEF Saved
<1> QED
  BY <1>5, <1>6 DEF es

\* A file that loads gives a good table that would be saved as the same file.
LEMMA LoadedTable ==
  ASSUME NEW file, file.entries \in Seq(Entry), Loadable(file),
         NEW ds, ds = [i \in 1..Len(file.entries) |-> LoadedDevice(file.entries[i])]
  PROVE  GoodTable(ds) /\ Saved(ds) = file.entries
<1> DEFINE es == file.entries
<1>1. es \in Seq(Entry) /\ Len(es) \in Nat /\ DOMAIN es = 1..Len(es)
  OBVIOUS
<1>2. \A i \in 1..Len(es) : /\ LoadedDevice(es[i]) \in Device
                            /\ DeviceConsistent(LoadedDevice(es[i]))
                            /\ LoadedDevice(es[i]).id = es[i].id
                            /\ LoadedDevice(es[i]).interval = es[i].interval
                            /\ LoadedDevice(es[i]).info = es[i].info
  BY <1>1, LoadedFromEntry
<1>3. /\ ds \in Seq(Device)
      /\ Len(ds) = Len(es)
      /\ DOMAIN ds = 1..Len(es)
      /\ \A i \in 1..Len(es) : ds[i] = LoadedDevice(es[i])
  BY <1>1, <1>2
<1>4. Len(es) <= MaximumDevices /\ \A i, j \in DOMAIN es : es[i].id = es[j].id => i = j
  BY DEF Loadable
<1> HIDE DEF es
<1>5. GoodTable(ds)
  <2>1. ASSUME NEW i \in DOMAIN ds, NEW j \in DOMAIN ds, ds[i].id = ds[j].id
        PROVE  i = j
    <3>1. ds[i].id = es[i].id /\ ds[j].id = es[j].id
      BY <1>2, <1>3
    <3> QED
      BY <1>1, <1>3, <1>4, <2>1, <3>1
  <2>2. DistinctAndBounded(ds)
    BY <1>3, <1>4, <2>1 DEF DistinctAndBounded
  <2>3. \A i \in DOMAIN ds : DeviceConsistent(ds[i])
    BY <1>2, <1>3
  <2> QED
    BY <1>3, <2>2, <2>3 DEF GoodTable
<1>6. Saved(ds) = es
  <2>1. Saved(ds) \in Seq(Entry) /\ Len(Saved(ds)) = Len(es)
    BY <1>3, SavedTyped
  <2>2. ASSUME NEW i \in 1..Len(es)
        PROVE  Saved(ds)[i] = es[i]
    <3>1. Saved(ds)[i] = [id |-> ds[i].id, interval |-> ds[i].interval, info |-> ds[i].info]
      BY <1>3, SavedTyped
    <3>2. Saved(ds)[i] = [id |-> es[i].id, interval |-> es[i].interval, info |-> es[i].info]
      BY <1>2, <1>3, <3>1
    <3>3. es[i] \in Entry
      BY <1>1
    <3>4. es[i] = [id |-> es[i].id, interval |-> es[i].interval, info |-> es[i].info]
      BY <3>3 DEF Entry
    <3> QED
      BY <3>2, <3>4
  <2> QED
    BY <1>1, <2>1, <2>2, SeqEqual
<1> QED
  BY <1>5, <1>6 DEF es

LEMMA EmptyTable == GoodTable(<<>>) /\ Saved(<<>>) = <<>>
BY ProtocolAssumption, RegistryAssumption DEF GoodTable, DistinctAndBounded, Saved

LEMMA RestartKeepsInv ==
  ASSUME RegistryInv, Restart
  PROVE  RegistryInv'
<1>1. PICK file \in {storage} \cup Damaged(storage) :
         /\ storage' = file
         /\ \/ Load(file)
            \/ devices' = <<>> /\ diagnostic' = "unreadable"
  BY DEF Restart
<1>2. /\ file.kind \in {"missing", "saved", "garbage"}
      /\ file.entries \in Seq(Entry)
      /\ file = [kind |-> file.kind, entries |-> file.entries]
  <2>1. CASE file = storage
    BY <2>1 DEF RegistryInv, RegistryTypeOK
  <2>2. CASE file = [kind |-> "garbage", entries |-> <<>>]
    BY <2>2
  <2>3. ASSUME NEW i \in DOMAIN storage.entries,
               file = [kind |-> storage.kind,
                       entries |-> Append(storage.entries, storage.entries[i])]
        PROVE  /\ file.kind \in {"missing", "saved", "garbage"}
               /\ file.entries \in Seq(Entry)
               /\ file = [kind |-> file.kind, entries |-> file.entries]
    <3>1. /\ storage.kind \in {"missing", "saved", "garbage"}
          /\ storage.entries \in Seq(Entry)
      BY DEF RegistryInv, RegistryTypeOK
    <3>2. Append(storage.entries, storage.entries[i]) \in Seq(Entry)
      BY <2>3, <3>1
    <3> QED
      BY <2>3, <3>1, <3>2
  <2> QED
    BY <1>1, <2>1, <2>2, <2>3 DEF Damaged
<1>3. CASE Load(file) /\ Loadable(file)
  <2>1. devices' = [i \in 1..Len(file.entries) |-> LoadedDevice(file.entries[i])]
    BY <1>3 DEF Load
  <2>2. GoodTable(devices')
    BY <1>2, <1>3, <2>1, LoadedTable
  <2> QED
    BY <1>1, <1>2, <1>3, <2>2 DEF RegistryInv, RegistryTypeOK, GoodTable, Load
<1>4. CASE devices' = <<>> /\ diagnostic' \in {"unreadable", "corrupt"}
  BY <1>1, <1>2, <1>4, EmptyTable DEF RegistryInv, RegistryTypeOK, GoodTable
<1> QED
  BY <1>1, <1>3, <1>4 DEF Load

LEMMA RegistryInvInductive ==
  ASSUME RegistryInv, [RegistryNext]_registryVars
  PROVE  RegistryInv'
<1>1. CASE UNCHANGED registryVars
  BY <1>1 DEF RegistryInv, RegistryTypeOK, GoodTable, DistinctAndBounded, registryVars
<1>2. ASSUME NEW hello \in Hello, NEW address \in Addresses, NEW port \in Ports,
             NEW reason \in Reasons, RegisterHello(hello, address, port, reason)
      PROVE  RegistryInv'
  BY <1>2, HelloKeepsInv
<1>3. ASSUME NEW snapshot \in Snapshot, NEW address \in Addresses, NEW port \in Ports,
             NEW accepted \in BOOLEAN, AcceptSnapshot(snapshot, address, port, accepted)
      PROVE  RegistryInv'
  BY <1>3, SnapshotKeepsInv
<1>4. CASE FreshnessTimer
  BY <1>4, FreshTable DEF FreshnessTimer, RegistryInv, RegistryTypeOK, GoodTable
<1>5. ASSUME NEW id \in DeviceIds, ForgetDevice(id)
      PROVE  RegistryInv'
  <2>1. PICK i \in DOMAIN devices : devices' = RemoveAt(devices, i) /\ Persist(devices')
    BY <1>5 DEF ForgetDevice
  <2>2. GoodTable(devices')
    BY <2>1, RemoveFromTable DEF RegistryInv
  <2> QED
    BY <2>1, <2>2, PersistTyped DEF RegistryInv, GoodTable
<1>6. CASE Restart
  BY <1>6, RestartKeepsInv
<1>7. CASE Tick
  BY <1>7, AgedTable DEF Tick, RegistryInv, RegistryTypeOK, GoodTable
<1> QED
  BY <1>1, <1>2, <1>3, <1>4, <1>5, <1>6, <1>7 DEF RegistryNext

LEMMA RegistryInvHolds == RegistrySafety => []RegistryInv
<1>1. RegistryInit => RegistryInv
  BY EmptyTable DEF RegistryInit, RegistryInv, RegistryTypeOK, GoodTable
<1>2. RegistryInv /\ [RegistryNext]_registryVars => RegistryInv'
  BY RegistryInvInductive
<1> QED
  BY <1>1, <1>2, PTL DEF RegistrySafety

\* Type correctness of the registry and of its file, for every configuration.
THEOREM RegistryTypeCorrect == RegistrySafety => []RegistryTypeOK
<1>1. RegistryInv => RegistryTypeOK
  BY DEF RegistryInv
<1> QED
  BY <1>1, RegistryInvHolds, PTL

\* devices_ never holds an identity twice nor more than maximumDevices entries.
THEOREM RegistryDistinctAndBounded == RegistrySafety => []DevicesDistinctAndBounded
<1>1. RegistryInv => DevicesDistinctAndBounded
  BY DEF RegistryInv, GoodTable, DistinctAndBounded, DevicesDistinctAndBounded
<1> QED
  BY <1>1, RegistryInvHolds, PTL

\* The live fields of every device describe one registration.
THEOREM RegistryConsistent == RegistrySafety => []RegistrationConsistent
<1>1. RegistryInv => RegistrationConsistent
  BY DEF RegistryInv, GoodTable, RegistrationConsistent
<1> QED
  BY <1>1, RegistryInvHolds, PTL

LEMMA DiskStep ==
  ASSUME RegistryInv, DiskMatchesMemory, [RegistryNext]_registryVars
  PROVE  DiskMatchesMemory'
<1>1. CASE UNCHANGED registryVars
  BY <1>1 DEF DiskMatchesMemory, registryVars
<1>2. CASE Persist(devices')
  BY <1>2 DEF Persist, DiskMatchesMemory
<1>3. CASE Saved(devices') = Saved(devices) /\ UNCHANGED <<storage, diagnostic>>
  BY <1>3 DEF DiskMatchesMemory
<1>4. Saved(UpdateFreshness(devices)) = Saved(devices)
  BY FreshTable DEF RegistryInv
<1>5. ASSUME NEW hello \in Hello, NEW address \in Addresses, NEW port \in Ports,
             NEW reason \in Reasons, RegisterHello(hello, address, port, reason)
      PROVE  DiskMatchesMemory'
  BY <1>2, <1>3, <1>4, <1>5 DEF RegisterHello
<1>6. ASSUME NEW snapshot \in Snapshot, NEW address \in Addresses, NEW port \in Ports,
             NEW accepted \in BOOLEAN, AcceptSnapshot(snapshot, address, port, accepted)
      PROVE  DiskMatchesMemory'
  BY <1>1, <1>2, <1>6 DEF AcceptSnapshot
<1>7. CASE FreshnessTimer
  BY <1>3, <1>4, <1>7 DEF FreshnessTimer
<1>8. ASSUME NEW id \in DeviceIds, ForgetDevice(id)
      PROVE  DiskMatchesMemory'
  BY <1>2, <1>8 DEF ForgetDevice
<1>9. CASE Restart
  <2>1. PICK file \in {storage} \cup Damaged(storage) :
           storage' = file /\ (Load(file) \/ diagnostic' = "unreadable")
    BY <1>9 DEF Restart
  <2>2. CASE Load(file) /\ Loadable(file)
    <3>1. RegistryTypeOK'
      BY <1>9, RestartKeepsInv DEF RegistryInv
    <3>2. file.entries \in Seq(Entry)
      BY <2>1, <3>1 DEF RegistryTypeOK
    <3>3. Saved(devices') = file.entries
      BY <2>2, <3>2, LoadedTable DEF Load
    <3> QED
      BY <2>1, <3>3 DEF DiskMatchesMemory
  <2>3. CASE diagnostic' \in {"unreadable", "corrupt"}
    BY <2>3 DEF DiskMatchesMemory
  <2> QED
    BY <2>1, <2>2, <2>3 DEF Load
<1>10. CASE Tick
  BY <1>3, <1>10, AgedTable DEF Tick, RegistryInv
<1> QED
  BY <1>1, <1>5, <1>6, <1>7, <1>8, <1>9, <1>10 DEF RegistryNext

\* As long as the registry reports no problem, its file holds what it shows.
THEOREM RegistryDiskMatchesMemory == RegistrySafety => []DiskMatchesMemory
<1>1. RegistryInit => DiskMatchesMemory
  BY EmptyTable DEF RegistryInit, DiskMatchesMemory
<1>2. RegistryInv /\ DiskMatchesMemory /\ [RegistryNext]_registryVars => DiskMatchesMemory'
  BY DiskStep
<1> QED
  BY <1>1, <1>2, RegistryInvHolds, PTL DEF RegistrySafety
-----------------------------------------------------------------------------
(* The ways a device may change in one step. *)

Untouched(old, new) ==
  /\ new.instance = old.instance
  /\ new.address = old.address
  /\ new.sequence = old.sequence
  /\ new.age >= old.age

Moved(old, new) ==
  /\ new.instance = old.instance
  /\ new.sequence = old.sequence
  /\ new.age = old.age

Replaced(old, new) ==
  /\ new.instance # old.instance
  /\ \/ new.address = old.address
     \/ old.address = NoAddress
     \/ old.age >= old.interval * OfflineIntervals

Refreshed(old, new) ==
  /\ new.instance = old.instance
  /\ new.address = old.address
  /\ new.sequence > old.sequence

Reloaded(new) ==
  /\ new.instance = NoInstance
  /\ new.address = NoAddress
  /\ new.sequence = None
  /\ new.age = None

Evolves(old, new) ==
  \/ Untouched(old, new)
  \/ Moved(old, new)
  \/ Replaced(old, new)
  \/ Refreshed(old, new)
  \/ Reloaded(new)

EvolvesStep ==
  \A i \in DOMAIN devices, j \in DOMAIN devices' :
    devices[i].id = devices'[j].id => Evolves(devices[i], devices'[j])

LEMMA DeviceNumbers ==
  ASSUME NEW d \in Device
  PROVE  d.sequence \in Int /\ d.age \in Int /\ d.interval \in Nat
<1>1. /\ d.sequence \in Sequences \cup {None}
      /\ d.age \in (0..MaxAge) \cup {None}
      /\ d.interval \in Intervals
  BY DEF Device
<1>2. Sequences \subseteq Int /\ 0..MaxAge \subseteq Int /\ None \in Int
  BY ConstantFacts, ProtocolAssumption, RegistryAssumption DEF Sequences, None
<1> QED
  BY <1>1, <1>2, ConstantFacts

LEMMA FreshenedUntouched ==
  ASSUME NEW d \in Device, DeviceConsistent(d)
  PROVE  Untouched(d, Freshened(d))
BY FreshenedDevice, DeviceNumbers DEF Untouched

LEMMA HelloEvolves ==
  ASSUME RegistryInv,
         NEW hello \in Hello, NEW address \in Addresses, NEW port \in Ports, NEW reason,
         RegisterHello(hello, address, port, reason)
  PROVE  EvolvesStep
<1> DEFINE fresh == UpdateFreshness(devices)
<1>1. /\ DOMAIN fresh = DOMAIN devices
      /\ DOMAIN devices = 1..Len(devices)
      /\ Len(devices) \in Nat
      /\ Len(fresh) = Len(devices)
      /\ GoodTable(fresh)
      /\ \A i \in DOMAIN devices : devices[i] \in Device /\ DeviceConsistent(devices[i])
      /\ \A i \in DOMAIN devices : fresh[i] = Freshened(devices[i])
      /\ \A i \in DOMAIN devices : fresh[i].id = devices[i].id
      /\ \A i, j \in DOMAIN devices : devices[i].id = devices[j].id => i = j
  BY FreshTable, FreshenedDevice DEF RegistryInv, GoodTable, DistinctAndBounded
<1>2. ASSUME NEW i \in DOMAIN devices, NEW j \in DOMAIN devices,
             devices[i].id = fresh[j].id
      PROVE  i = j /\ Untouched(devices[i], fresh[j])
  <2>1. i = j
    BY <1>1, <1>2
  <2> QED
    BY <1>1, <2>1, FreshenedUntouched
<1> HIDE DEF fresh
<1>3. CASE devices' = fresh
  BY <1>1, <1>2, <1>3 DEF EvolvesStep, Evolves
<1>4. ASSUME NEW k \in DOMAIN fresh,
             ~ Clashes(fresh[k], hello, address),
             devices' = [fresh EXCEPT ![k] = Reregistered(fresh[k], hello, address, port)]
      PROVE  EvolvesStep
  <2> DEFINE r == Reregistered(fresh[k], hello, address, port)
  <2> DEFINE old == devices[k]
  <2>1. fresh[k] \in Device /\ DeviceConsistent(fresh[k]) /\ fresh[k] = Freshened(old)
        /\ old \in Device /\ DeviceConsistent(old)
    BY <1>1 DEF GoodTable
  <2>2. /\ fresh[k].instance = old.instance
        /\ fresh[k].address = old.address
        /\ fresh[k].sequence = old.sequence
        /\ fresh[k].age = old.age
        /\ old.age # None => fresh[k].state = StateAt(old.age, old.interval)
    BY <2>1, FreshenedDevice
  <2>3. /\ r.instance = hello.instance
        /\ r.address = address
        /\ r.id = fresh[k].id
        /\ old.instance = hello.instance => r.sequence = old.sequence /\ r.age = old.age
    BY <2>1, <2>2, ReregisteredDevice
  <2> HIDE DEF r
  <2>4. Evolves(old, r)
    <3>1. CASE old.instance = hello.instance
      BY <2>3, <3>1 DEF Evolves, Moved
    <3>2. CASE old.instance # hello.instance /\ (old.address = address \/ old.address = NoAddress)
      BY <2>3, <3>2 DEF Evolves, Replaced
    <3>3. CASE old.instance # hello.instance /\ old.address # address /\ old.address # NoAddress
      <4>1. fresh[k].state = "Offline"
        BY <1>4, <2>2, <3>3 DEF Clashes
      <4>2. fresh[k].sequence # None
        BY <2>1, <2>2, <3>3, <4>1 DEF DeviceConsistent
      <4>3. old.age # None
        BY <2>1, <2>2, <4>2 DEF DeviceConsistent
      <4>4. StateAt(old.age, old.interval) = "Offline"
        BY <2>2, <4>1, <4>3
      <4>5. old.age >= old.interval * OfflineIntervals
        BY <4>4 DEF StateAt
      <4> QED
        BY <2>3, <3>3, <4>5 DEF Evolves, Replaced
    <3> QED
      BY <3>1, <3>2, <3>3
  <2>5. /\ DOMAIN devices' = DOMAIN devices
        /\ \A j \in DOMAIN devices : devices'[j] = IF j = k THEN r ELSE fresh[j]
    BY <1>1, <1>4 DEF r
  <2>6. ASSUME NEW i \in DOMAIN devices, NEW j \in DOMAIN devices',
               devices[i].id = devices'[j].id
        PROVE  Evolves(devices[i], devices'[j])
    <3>1. CASE j = k
      BY <1>1, <2>3, <2>4, <2>5, <2>6, <3>1
    <3>2. CASE j # k
      BY <1>2, <2>5, <2>6, <3>2 DEF Evolves
    <3> QED
      BY <3>1, <3>2
  <2> QED
    BY <2>6 DEF EvolvesStep
<1>5. CASE /\ Unknown(fresh, hello.id)
           /\ Len(fresh) < MaximumDevices
           /\ devices' = Append(fresh, NewDevice(hello, address, port))
  <2> DEFINE n == NewDevice(hello, address, port)
  <2>1. n \in Device /\ DeviceConsistent(n) /\ n.id = hello.id
    BY FirstDevice
  <2> HIDE DEF n
  <2>2. /\ DOMAIN devices' = 1..(Len(devices) + 1)
        /\ \A j \in DOMAIN devices : devices'[j] = fresh[j]
        /\ devices'[Len(devices) + 1] = n
    BY <1>1, <1>5, <2>1, AppendToTable DEF n
  <2>3. ASSUME NEW i \in DOMAIN devices, NEW j \in DOMAIN devices',
               devices[i].id = devices'[j].id
        PROVE  Evolves(devices[i], devices'[j])
    <3>1. CASE j \in DOMAIN devices
      BY <1>2, <2>2, <2>3, <3>1 DEF Evolves
    <3>2. CASE j = Len(devices) + 1
      <4>1. devices[i].id = hello.id
        BY <2>1, <2>2, <2>3, <3>2
      <4> QED
        BY <1>1, <1>5, <4>1 DEF Unknown
    <3> QED
      BY <1>1, <2>2, <3>1, <3>2
  <2> QED
    BY <2>3 DEF EvolvesStep
<1> QED
  BY <1>3, <1>4, <1>5 DEF RegisterHello, fresh

LEMMA SnapshotEvolves ==
  ASSUME RegistryInv,
         NEW snapshot \in Snapshot, NEW address \in Addresses, NEW port \in Ports, NEW accepted,
         AcceptSnapshot(snapshot, address, port, accepted)
  PROVE  EvolvesStep
<1>1. /\ devices \in Seq(Device)
      /\ \A i \in DOMAIN devices : devices[i] \in Device
      /\ \A i, j \in DOMAIN devices : devices[i].id = devices[j].id => i = j
  BY DEF RegistryInv, GoodTable, DistinctAndBounded
<1>2. ASSUME NEW i \in DOMAIN devices
      PROVE  Untouched(devices[i], devices[i])
  BY <1>1, DeviceNumbers DEF Untouched
<1>3. CASE UNCHANGED registryVars
  BY <1>1, <1>2, <1>3 DEF registryVars, EvolvesStep, Evolves
<1>4. ASSUME NEW k \in DOMAIN devices,
             Acceptable(devices[k], snapshot, address, port),
             devices' = [devices EXCEPT ![k] =
               [@ EXCEPT !.sequence = snapshot.sequence, !.info = snapshot.info,
                         !.metrics = snapshot.metrics, !.age = 0, !.state = "Online"]]
      PROVE  EvolvesStep
  <2> DEFINE d == [devices[k] EXCEPT !.sequence = snapshot.sequence, !.info = snapshot.info,
                                     !.metrics = snapshot.metrics, !.age = 0,
                                     !.state = "Online"]
  <2>1. devices[k] \in Device
    BY <1>1
  <2>2. /\ d.id = devices[k].id
        /\ d.instance = devices[k].instance
        /\ d.address = devices[k].address
        /\ d.sequence = snapshot.sequence
    BY <2>1 DEF Device
  <2>3. snapshot.sequence > devices[k].sequence
    <3>1. snapshot.sequence \in Nat
      BY ProtocolAssumption, RegistryAssumption DEF Snapshot, Sequences
    <3> QED
      BY <1>4, <3>1 DEF Acceptable, None
  <2>4. Evolves(devices[k], d)
    BY <2>2, <2>3 DEF Evolves, Refreshed
  <2>5. /\ DOMAIN devices' = DOMAIN devices
        /\ \A j \in DOMAIN devices : devices'[j] = IF j = k THEN d ELSE devices[j]
    BY <1>1, <1>4
  <2> HIDE DEF d
  <2> QED
    BY <1>1, <1>2, <2>2, <2>4, <2>5 DEF EvolvesStep, Evolves
<1> QED
  BY <1>3, <1>4 DEF AcceptSnapshot

LEMMA StepEvolves ==
  ASSUME RegistryInv, [RegistryNext]_registryVars
  PROVE  EvolvesStep
<1>1. /\ devices \in Seq(Device)
      /\ DOMAIN devices = 1..Len(devices)
      /\ Len(devices) \in Nat
      /\ \A i \in DOMAIN devices : devices[i] \in Device /\ DeviceConsistent(devices[i])
      /\ \A i, j \in DOMAIN devices : devices[i].id = devices[j].id => i = j
  BY DEF RegistryInv, GoodTable, DistinctAndBounded
<1>2. ASSUME NEW i \in DOMAIN devices
      PROVE  Untouched(devices[i], devices[i])
  BY <1>1, DeviceNumbers DEF Untouched
<1>3. CASE UNCHANGED registryVars
  BY <1>1, <1>2, <1>3 DEF registryVars, EvolvesStep, Evolves
<1>4. ASSUME NEW hello \in Hello, NEW address \in Addresses, NEW port \in Ports,
             NEW reason \in Reasons, RegisterHello(hello, address, port, reason)
      PROVE  EvolvesStep
  BY <1>4, HelloEvolves
<1>5. ASSUME NEW snapshot \in Snapshot, NEW address \in Addresses, NEW port \in Ports,
             NEW accepted \in BOOLEAN, AcceptSnapshot(snapshot, address, port, accepted)
      PROVE  EvolvesStep
  BY <1>5, SnapshotEvolves
<1>6. CASE FreshnessTimer
  <2>1. /\ DOMAIN devices' = DOMAIN devices
        /\ \A i \in DOMAIN devices : devices'[i] = Freshened(devices[i])
    BY <1>6, FreshTable DEF FreshnessTimer, RegistryInv
  <2>2. \A i \in DOMAIN devices : /\ Freshened(devices[i]).id = devices[i].id
                                  /\ Untouched(devices[i], Freshened(devices[i]))
    BY <1>1, FreshenedDevice, FreshenedUntouched
  <2> QED
    BY <1>1, <2>1, <2>2 DEF EvolvesStep, Evolves
<1>7. ASSUME NEW id \in DeviceIds, ForgetDevice(id)
      PROVE  EvolvesStep
  <2>1. PICK k \in DOMAIN devices : devices' = RemoveAt(devices, k)
    BY <1>7 DEF ForgetDevice
  <2>2. /\ DOMAIN devices' = 1..(Len(devices) - 1)
        /\ \A j \in 1..(Len(devices) - 1) :
             devices'[j] = IF j < k THEN devices[j] ELSE devices[j + 1]
    BY <2>1, RemoveFromTable DEF RegistryInv
  <2>3. ASSUME NEW j \in DOMAIN devices'
        PROVE  \E m \in DOMAIN devices : devices'[j] = devices[m]
    <3>1. j \in DOMAIN devices /\ j + 1 \in DOMAIN devices
      BY <1>1, <2>2
    <3> QED
      BY <2>2, <3>1
  <2> QED
    BY <1>1, <1>2, <2>3 DEF EvolvesStep, Evolves
<1>8. CASE Restart
  <2>1. PICK file \in {storage} \cup Damaged(storage) :
           storage' = file /\ (Load(file) \/ devices' = <<>>)
    BY <1>8 DEF Restart
  <2>2. CASE devices' = <<>>
    BY <2>2 DEF EvolvesStep
  <2>3. CASE devices' = [i \in 1..Len(file.entries) |-> LoadedDevice(file.entries[i])]
    <3>1. RegistryTypeOK'
      BY <1>8, RestartKeepsInv DEF RegistryInv
    <3>2. file.entries \in Seq(Entry)
      BY <2>1, <3>1 DEF RegistryTypeOK
    <3>3. ASSUME NEW j \in DOMAIN devices'
          PROVE  Reloaded(devices'[j])
      <4>1. devices'[j] = LoadedDevice(file.entries[j])
        BY <2>3, <3>3
      <4> QED
        BY <4>1 DEF LoadedDevice, Reloaded
    <3> QED
      BY <3>3 DEF EvolvesStep, Evolves
  <2> QED
    BY <2>1, <2>2, <2>3 DEF Load
<1>9. CASE Tick
  <2>1. ASSUME NEW i \in DOMAIN devices
        PROVE  Aged(devices[i]).id = devices[i].id /\ Untouched(devices[i], Aged(devices[i]))
    <3>1. devices[i] \in Device /\ devices[i].age \in Int /\ devices[i].sequence \in Int
      BY <1>1, DeviceNumbers
    <3>2. CASE Aged(devices[i]) = devices[i]
      BY <1>2, <3>2
    <3>3. CASE Aged(devices[i]) = [devices[i] EXCEPT !.age = devices[i].age + 1]
      BY <3>1, <3>3 DEF Untouched, Device
    <3> QED
      BY <3>2, <3>3 DEF Aged
  <2>2. /\ DOMAIN devices' = DOMAIN devices
        /\ \A i \in DOMAIN devices : devices'[i] = Aged(devices[i])
    BY <1>1, <1>9 DEF Tick
  <2> QED
    BY <1>1, <2>1, <2>2 DEF EvolvesStep, Evolves
<1> QED
  BY <1>3, <1>4, <1>5, <1>6, <1>7, <1>8, <1>9 DEF RegistryNext

\* Within one registration an older snapshot never replaces a newer one, and
\* only a newer one restarts the age of the data.
THEOREM RegistrySnapshotsOnlyMoveForward == RegistrySafety => SnapshotsOnlyMoveForward
<1>1. RegistryInv /\ RegistryInv' /\ [RegistryNext]_registryVars =>
        [\A i \in DOMAIN devices, j \in DOMAIN devices' :
           (devices[i].id = devices'[j].id /\ devices[i].instance = devices'[j].instance) =>
             /\ devices'[j].sequence >= devices[i].sequence
             /\ devices'[j].age < devices[i].age => devices'[j].sequence > devices[i].sequence
        ]_registryVars
  <2> SUFFICES ASSUME RegistryInv, RegistryInv', [RegistryNext]_registryVars,
                      NEW i \in DOMAIN devices, NEW j \in DOMAIN devices',
                      devices[i].id = devices'[j].id,
                      devices[i].instance = devices'[j].instance
               PROVE  /\ devices'[j].sequence >= devices[i].sequence
                      /\ devices'[j].age < devices[i].age =>
                           devices'[j].sequence > devices[i].sequence
    OBVIOUS
  <2> DEFINE old == devices[i]
  <2> DEFINE new == devices'[j]
  <2>1. Evolves(old, new)
    BY StepEvolves DEF EvolvesStep
  <2>2. old \in Device /\ DeviceConsistent(old) /\ new \in Device
    BY DEF RegistryInv, GoodTable
  <2>3. old.sequence \in Int /\ old.age \in Int /\ new.sequence \in Int /\ new.age \in Int
    BY <2>2, DeviceNumbers
  <2>4. CASE Reloaded(new)
    BY <2>2, <2>3, <2>4 DEF Reloaded, DeviceConsistent
  <2> HIDE DEF old, new
  <2>5. CASE Untouched(old, new) \/ Moved(old, new) \/ Replaced(old, new) \/ Refreshed(old, new)
    BY <2>3, <2>5 DEF Untouched, Moved, Replaced, Refreshed, old, new
  <2> QED
    BY <2>1, <2>4, <2>5 DEF Evolves, old, new
<1> QED
  BY <1>1, RegistryInvHolds, PTL DEF RegistrySafety, SnapshotsOnlyMoveForward

\* registerHello() hands an identity to another address only when its data
\* is OfflineIntervals old by the clock.
THEOREM RegistryTakeoverOnlyWhenOffline == RegistrySafety => TakeoverOnlyWhenOffline
<1>1. RegistryInv /\ RegistryInv' /\ [RegistryNext]_registryVars =>
        [\A i \in DOMAIN devices, j \in DOMAIN devices' :
           LET old == devices[i]
               new == devices'[j]
           IN (/\ old.id = new.id
               /\ NoAddress \notin {old.address, new.address}
               /\ old.address # new.address
               /\ old.instance # new.instance)
              => old.age >= old.interval * OfflineIntervals
        ]_registryVars
  <2> SUFFICES ASSUME RegistryInv, [RegistryNext]_registryVars,
                      NEW i \in DOMAIN devices, NEW j \in DOMAIN devices',
                      devices[i].id = devices'[j].id,
                      NoAddress \notin {devices[i].address, devices'[j].address},
                      devices[i].address # devices'[j].address,
                      devices[i].instance # devices'[j].instance
               PROVE  devices[i].age >= devices[i].interval * OfflineIntervals
    OBVIOUS
  <2>1. Evolves(devices[i], devices'[j])
    BY StepEvolves DEF EvolvesStep
  <2> QED
    BY <2>1 DEF Evolves, Untouched, Moved, Replaced, Refreshed, Reloaded
<1> QED
  BY <1>1, RegistryInvHolds, PTL DEF RegistrySafety, TakeoverOnlyWhenOffline
=============================================================================
