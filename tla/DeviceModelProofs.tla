-------------------------- MODULE DeviceModelProofs --------------------------
(***************************************************************************)
(* The overview shows what the registry holds, for any number of devices.  *)
(* The invariant behind it is the strongest one there is: after every      *)
(* operation the view is as if it had just been attached.                  *)
(***************************************************************************)
EXTENDS DeviceModel, RemoteDeviceRegistryProofs

Shows(v, ds) ==
  /\ DOMAIN v = {"rows", "structured", "at"}
  /\ v.rows = Rows(ds)
  /\ v.structured = FALSE
  /\ v.at = 0

LEMMA AttachedShows ==
  ASSUME NEW ds
  PROVE  Shows(Attached(ds), ds)
BY DEF Attached, Shows

LEMMA RowsOfTable ==
  ASSUME NEW ds \in Seq(Device)
  PROVE  /\ DOMAIN Rows(ds) = DOMAIN ds /\ DOMAIN ds = 1..Len(ds)
         /\ Len(Rows(ds)) = Len(ds) /\ Len(ds) \in Nat
         /\ \A i \in DOMAIN ds : Rows(ds)[i] = Row(ds[i])
         /\ Rows(ds) \in Seq({Row(d) : d \in Device})
BY DEF Rows

LEMMA RowsEqual ==
  ASSUME NEW S, NEW rows \in Seq(S), NEW ds, Len(ds) = Len(rows),
         \A j \in 1..Len(rows) : rows[j] = Row(ds[j])
  PROVE  rows = Rows(ds)
<1>1. rows = [j \in 1..Len(rows) |-> rows[j]]
  OBVIOUS
<1>2. Rows(ds) = [j \in 1..Len(rows) |-> Row(ds[j])]
  BY DEF Rows
<1> QED
  BY <1>1, <1>2

\* The signals of updateFreshness() announce every row that it changes.
LEMMA FreshnessIsShown ==
  ASSUME RegistryInv, Shows(view, devices)
  PROVE  Shows(FreshnessShown(view), UpdateFreshness(devices))
<1> DEFINE fresh == UpdateFreshness(devices)
<1> DEFINE shown == [i \in DOMAIN Rows(devices) |->
      IF Freshened(devices[i]).state # devices[i].state
      THEN Row(Freshened(devices[i])) ELSE Rows(devices)[i]]
<1>1. devices \in Seq(Device) /\ GoodTable(devices)
  BY DEF RegistryInv, GoodTable
<1>2. FreshnessShown(view) = [view EXCEPT !.rows = shown]
  BY DEF FreshnessShown, Shows
<1>3. \A i \in DOMAIN devices : Rows(devices)[i] = Row(devices[i])
  BY <1>1, RowsOfTable
<1>4. ASSUME NEW i \in DOMAIN devices
      PROVE  shown[i] = Row(Freshened(devices[i]))
  <2>1. DOMAIN Rows(devices) = DOMAIN devices
    BY <1>1, RowsOfTable
  <2>2. devices[i] \in Device
    BY <1>1
  <2>3. CASE Freshened(devices[i]).state = devices[i].state
    <3>1. Freshened(devices[i]) = devices[i] \/
            Freshened(devices[i]) = [devices[i] EXCEPT !.state = StateAt(devices[i].age, devices[i].interval)]
      BY DEF Freshened
    <3>2. /\ Freshened(devices[i]).id = devices[i].id /\ Freshened(devices[i]).info = devices[i].info
          /\ Freshened(devices[i]).metrics = devices[i].metrics
      BY <2>2, <3>1 DEF Device
    <3>3. Row(Freshened(devices[i])) = Row(devices[i])
      BY <2>3, <3>2 DEF Row
    <3> QED
      BY <1>3, <2>1, <2>3, <3>3
  <2>4. CASE Freshened(devices[i]).state # devices[i].state
    BY <2>1, <2>4
  <2> QED
    BY <2>3, <2>4
<1>5. shown = Rows(fresh)
  <2>1. DOMAIN shown = DOMAIN devices /\ DOMAIN devices = 1..Len(devices)
    BY <1>1, RowsOfTable
  <2>2. Len(fresh) = Len(devices) /\ \A i \in DOMAIN devices : fresh[i] = Freshened(devices[i])
    BY <1>1, FreshTable
  <2>3. Rows(fresh) = [i \in 1..Len(devices) |-> Row(fresh[i])]
    BY <2>2 DEF Rows
  <2>4. shown = [i \in 1..Len(devices) |-> Row(fresh[i])]
    <3>1. shown = [i \in 1..Len(devices) |-> shown[i]]
      BY <2>1
    <3> HIDE DEF shown
    <3> QED
      BY <1>4, <2>1, <2>2, <3>1
  <2> QED
    BY <2>3, <2>4
<1> HIDE DEF shown
<1> QED
  BY <1>2, <1>5 DEF Shows

\* One row is announced and no other device has changed.
LEMMA ChangeIsShown ==
  ASSUME NEW ds \in Seq(Device), NEW es \in Seq(Device), NEW i \in DOMAIN ds, NEW id,
         DOMAIN es = DOMAIN ds, \A j \in DOMAIN ds : j # i => es[j] = ds[j],
         \A j, k \in DOMAIN es : es[j].id = es[k].id => j = k, es[i].id = id,
         NEW v, Shows(v, ds)
  PROVE  Shows(RemoteChanged(v, es, id), es)
<1> DEFINE shown == [j \in DOMAIN Rows(ds) |->
      IF FirstMatch(es, j, id) THEN Row(es[j]) ELSE Rows(ds)[j]]
<1>1. RemoteChanged(v, es, id) = [v EXCEPT !.rows = shown]
  BY DEF RemoteChanged, Shows
<1>2. /\ DOMAIN Rows(ds) = DOMAIN ds /\ DOMAIN ds = 1..Len(ds) /\ Len(ds) \in Nat
      /\ \A j \in DOMAIN ds : Rows(ds)[j] = Row(ds[j])
  BY RowsOfTable
<1>3. ASSUME NEW j \in DOMAIN ds
      PROVE  FirstMatch(es, j, id) <=> j = i
  <2>1. \A k \in 1..(j - 1) : k \in DOMAIN es /\ k # j
    BY <1>2
  <2> QED
    BY <2>1 DEF FirstMatch
<1>4. \A j \in DOMAIN ds : shown[j] = Row(es[j])
  BY <1>2, <1>3
<1>5. shown = [j \in 1..Len(ds) |-> Row(es[j])]
  <2>1. shown = [j \in 1..Len(ds) |-> shown[j]]
    BY <1>2
  <2> HIDE DEF shown
  <2> QED
    BY <1>2, <1>4, <2>1
<1>6. Len(es) = Len(ds)
  BY <1>2
<1>7. shown = Rows(es)
  BY <1>5, <1>6 DEF Rows
<1> HIDE DEF shown
<1> QED
  BY <1>1, <1>7 DEF Shows

\* An insertion at the end, announced before and after, with the signal that follows it.
LEMMA AdditionIsShown ==
  ASSUME NEW ds \in Seq(Device), NEW d \in Device, NEW es, es = Append(ds, d),
         NEW u, Shows(u, ds)
  PROVE  Shows(DevicesChanged(Added(AboutToChange(u, Len(ds) + 1), es), es), es)
<1> DEFINE n == Len(ds) + 1
<1> DEFINE v == AboutToChange(u, n)
<1> DEFINE w == Added(v, es)
<1> DEFINE rows == InsertAt(Rows(ds), n, Row(d))
<1>1. /\ DOMAIN Rows(ds) = 1..Len(ds) /\ Len(Rows(ds)) = Len(ds) /\ Len(ds) \in Nat
      /\ \A j \in 1..Len(ds) : Rows(ds)[j] = Row(ds[j])
      /\ Rows(ds) \in Seq({Row(c) : c \in Device})
  BY RowsOfTable
<1>2. es[n] = d /\ Len(es) = n /\ \A j \in 1..Len(ds) : es[j] = ds[j]
  BY <1>1
<1>3. /\ DOMAIN v = {"rows", "structured", "at"}
      /\ v.rows = Rows(ds) /\ v.structured = TRUE /\ v.at = n
  BY DEF AboutToChange, Shows
<1>4. /\ DOMAIN w = {"rows", "structured", "at"}
      /\ w.rows = rows /\ w.structured = TRUE /\ w.at = 0
  <2>1. w = [v EXCEPT !.rows = InsertAt(v.rows, v.at, Row(es[v.at])), !.at = 0]
    BY DEF Added
  <2>2. InsertAt(v.rows, v.at, Row(es[v.at])) = rows
    BY <1>2, <1>3
  <2> HIDE DEF v, w, rows
  <2> QED
    BY <1>3, <2>1, <2>2
<1>5. DevicesChanged(w, es) = [w EXCEPT !.structured = FALSE]
  <2> HIDE DEF w, rows
  <2> QED
    BY <1>4 DEF DevicesChanged
<1>6. rows = Append(Rows(ds), Row(d))
  <2> DEFINE r == Row(d)
  <2> DEFINE old == Rows(ds)
  <2>1. r \in {Row(c) : c \in Device} /\ old \in Seq({Row(c) : c \in Device}) /\ Len(old) = Len(ds)
    BY <1>1
  <2>2. rows = SubSeq(old, 1, n - 1) \o <<r>> \o SubSeq(old, n, Len(old))
    BY DEF InsertAt
  <2> HIDE DEF r, old
  <2>3. SubSeq(old, 1, n - 1) = old
    BY <1>1, <2>1
  <2>4. SubSeq(old, n, Len(old)) = <<>>
    BY <1>1, <2>1
  <2>5. old \o <<r>> \o <<>> = Append(old, r)
    BY <2>1
  <2> QED
    BY <2>2, <2>3, <2>4, <2>5 DEF r, old
<1>7. Append(Rows(ds), Row(d)) = Rows(es)
  <2> DEFINE old == Rows(ds)
  <2> DEFINE r == Row(d)
  <2> DEFINE S == {Row(c) : c \in Device}
  <2>1. old \in Seq(S) /\ r \in S /\ Len(old) = Len(ds) /\ Row(es[n]) = r
        /\ \A j \in 1..Len(ds) : old[j] = Row(es[j])
    BY <1>1, <1>2
  <2> HIDE DEF old, r, S
  <2>2. /\ Append(old, r) \in Seq(S) /\ Len(Append(old, r)) = n
        /\ \A j \in 1..n : Append(old, r)[j] = Row(es[j])
    BY <1>1, <2>1, AppendProperties
  <2> QED
    BY <1>2, <2>2, RowsEqual DEF old, r
<1> HIDE DEF w, rows
<1> QED
  BY <1>4, <1>5, <1>6, <1>7 DEF Shows, w

\* A removal, announced before and after, with the signal that follows it.
LEMMA RemovalIsShown ==
  ASSUME NEW ds \in Seq(Device), NEW i \in DOMAIN ds, NEW es, es = RemoveAt(ds, i),
         NEW u, Shows(u, ds)
  PROVE  Shows(DevicesChanged(Removed(AboutToChange(u, i)), es), es)
<1> DEFINE v == AboutToChange(u, i)
<1> DEFINE w == Removed(v)
<1> DEFINE rows == RemoveAt(Rows(ds), i)
<1>1. /\ DOMAIN v = {"rows", "structured", "at"}
      /\ v.rows = Rows(ds) /\ v.structured = TRUE /\ v.at = i
  BY DEF AboutToChange, Shows
<1>2. w = [v EXCEPT !.rows = rows, !.at = 0]
  <2> HIDE DEF v
  <2> QED
    BY <1>1 DEF Removed
<1>3. /\ DOMAIN w = {"rows", "structured", "at"}
      /\ w.rows = rows /\ w.structured = TRUE /\ w.at = 0
  <2> HIDE DEF v, w, rows
  <2> QED
    BY <1>1, <1>2
<1>4. DevicesChanged(w, es) = [w EXCEPT !.structured = FALSE]
  <2> HIDE DEF w, rows
  <2> QED
    BY <1>3 DEF DevicesChanged
<1>5. rows = Rows(es)
  <2> DEFINE old == Rows(ds)
  <2> DEFINE S == {Row(c) : c \in Device}
  <2>1. /\ old \in Seq(S) /\ DOMAIN old = DOMAIN ds /\ Len(old) = Len(ds)
        /\ DOMAIN ds = 1..Len(ds) /\ Len(ds) \in Nat
        /\ \A j \in DOMAIN ds : old[j] = Row(ds[j])
    BY RowsOfTable
  <2>2. rows = RemoveAt(old, i)
    OBVIOUS
  <2> HIDE DEF old, S, rows
  <2>3. /\ rows \in Seq(S) /\ Len(rows) = Len(ds) - 1
        /\ \A j \in 1..(Len(ds) - 1) : rows[j] = IF j < i THEN old[j] ELSE old[j + 1]
    BY <2>1, <2>2, RemoveAtProperties
  <2>4. /\ Len(es) = Len(ds) - 1
        /\ \A j \in 1..(Len(ds) - 1) : es[j] = IF j < i THEN ds[j] ELSE ds[j + 1]
    BY RemoveAtProperties
  <2>5. ASSUME NEW j \in 1..(Len(ds) - 1)
        PROVE  rows[j] = Row(es[j])
    <3>1. j \in DOMAIN ds /\ j + 1 \in DOMAIN ds
      BY <2>1
    <3> QED
      BY <2>1, <2>3, <2>4, <3>1
  <2> QED
    BY <2>3, <2>4, <2>5, RowsEqual
<1> HIDE DEF w, rows
<1> QED
  BY <1>3, <1>4, <1>5 DEF Shows, w
-----------------------------------------------------------------------------
(* The steps *)

LEMMA HelloStepShown ==
  ASSUME RegistryInv, Shows(view, devices),
         NEW hello \in Hello, NEW address \in Addresses, NEW port \in Ports, NEW reason,
         HelloShown(hello, address, port, reason)
  PROVE  Shows(view', devices')
<1> DEFINE fresh == UpdateFreshness(devices)
<1> DEFINE v == FreshnessShown(view)
<1>1. GoodTable(devices)
  BY DEF RegistryInv
<1>2. /\ GoodTable(fresh) /\ fresh \in Seq(Device) /\ Len(fresh) = Len(devices)
      /\ DOMAIN fresh = DOMAIN devices
      /\ \A i \in DOMAIN devices : fresh[i] = Freshened(devices[i])
  BY <1>1, FreshTable DEF GoodTable
<1>3. Shows(v, fresh)
  BY FreshnessIsShown
<1>4. \A id : Unknown(devices, id) <=> Unknown(fresh, id)
  <2>1. \A i \in DOMAIN devices : fresh[i].id = devices[i].id
    BY <1>1, <1>2, FreshenedDevice DEF GoodTable
  <2> QED
    BY <1>2, <2>1 DEF Unknown
<1>5. RegistryInv'
  BY HelloKeepsInv DEF HelloShown
<1>6. view' = IF reason # "" THEN v
              ELSE IF Unknown(fresh, hello.id)
              THEN DevicesChanged(Added(AboutToChange(v, Len(fresh) + 1), devices'), devices')
              ELSE RemoteChanged(v, devices', hello.id)
  BY <1>2, <1>4 DEF HelloShown
<1> HIDE DEF fresh, v
<1>7. CASE devices' = fresh /\ reason # ""
  BY <1>3, <1>6, <1>7
<1>8. ASSUME NEW i \in DOMAIN fresh, FirstMatch(fresh, i, hello.id), reason = "",
             devices' = [fresh EXCEPT ![i] = Reregistered(fresh[i], hello, address, port)]
      PROVE  Shows(view', devices')
  <2>1. ~ Unknown(fresh, hello.id)
    BY <1>8 DEF FirstMatch, Unknown
  <2>2. view' = RemoteChanged(v, devices', hello.id)
    BY <1>6, <1>8, <2>1
  <2>3. /\ devices' \in Seq(Device) /\ DOMAIN devices' = DOMAIN fresh
        /\ \A j \in DOMAIN fresh : j # i => devices'[j] = fresh[j]
        /\ \A j, k \in DOMAIN devices' : devices'[j].id = devices'[k].id => j = k
    BY <1>2, <1>5, <1>8 DEF RegistryInv, GoodTable, DistinctAndBounded
  <2>4. devices'[i].id = hello.id
    <3> DEFINE d == fresh[i]
    <3>1. d \in Device /\ DeviceConsistent(d) /\ d.id = hello.id
      <4>1. fresh \in Seq(Device) /\ \A j \in DOMAIN fresh : DeviceConsistent(fresh[j])
        BY <1>2 DEF GoodTable
      <4>2. fresh[i].id = hello.id
        BY <1>8 DEF FirstMatch
      <4> QED
        BY <4>1, <4>2
    <3>2. Reregistered(d, hello, address, port).id = d.id
      BY <3>1, ReregisteredDevice
    <3>3. devices'[i] = Reregistered(d, hello, address, port)
      BY <1>2, <1>8
    <3> QED
      BY <3>1, <3>2, <3>3
  <2> QED
    BY <1>2, <1>3, <2>2, <2>3, <2>4, ChangeIsShown
<1>9. ASSUME Unknown(fresh, hello.id), reason = "",
             devices' = Append(fresh, NewDevice(hello, address, port))
      PROVE  Shows(view', devices')
  <2>1. NewDevice(hello, address, port) \in Device
    BY FirstDevice
  <2>2. view' = DevicesChanged(Added(AboutToChange(v, Len(fresh) + 1), devices'), devices')
    BY <1>6, <1>9
  <2> QED
    BY <1>2, <1>3, <1>9, <2>1, <2>2, AdditionIsShown
<1> QED
  BY <1>7, <1>8, <1>9 DEF HelloShown, RegisterHello, fresh

LEMMA SnapshotStepShown ==
  ASSUME RegistryInv, Shows(view, devices),
         NEW snapshot \in Snapshot, NEW address \in Addresses, NEW port \in Ports,
         NEW accepted \in BOOLEAN, SnapshotShown(snapshot, address, port, accepted)
  PROVE  Shows(view', devices')
<1>1. GoodTable(devices) /\ devices \in Seq(Device)
  BY DEF RegistryInv, GoodTable
<1>2. RegistryInv'
  BY SnapshotKeepsInv DEF SnapshotShown
<1>3. CASE accepted = FALSE /\ UNCHANGED registryVars
  BY <1>3 DEF SnapshotShown, registryVars
<1>4. ASSUME accepted = TRUE, NEW i \in DOMAIN devices, FirstMatch(devices, i, snapshot.id),
             devices' = [devices EXCEPT ![i] =
               [@ EXCEPT !.sequence = snapshot.sequence, !.info = snapshot.info,
                         !.metrics = snapshot.metrics, !.age = 0, !.state = "Online"]]
      PROVE  Shows(view', devices')
  <2>1. view' = RemoteChanged(view, devices', snapshot.id)
    BY <1>4 DEF SnapshotShown
  <2>2. /\ devices' \in Seq(Device) /\ DOMAIN devices' = DOMAIN devices
        /\ \A j \in DOMAIN devices : j # i => devices'[j] = devices[j]
        /\ \A j, k \in DOMAIN devices' : devices'[j].id = devices'[k].id => j = k
    BY <1>1, <1>2, <1>4 DEF RegistryInv, GoodTable, DistinctAndBounded
  <2>3. devices'[i].id = snapshot.id
    <3> DEFINE d == devices[i]
    <3>1. d \in Device /\ d.id = snapshot.id
      BY <1>1, <1>4 DEF FirstMatch
    <3>2. devices'[i] = [d EXCEPT !.sequence = snapshot.sequence, !.info = snapshot.info,
                                  !.metrics = snapshot.metrics, !.age = 0, !.state = "Online"]
      BY <1>1, <1>4
    <3> HIDE DEF d
    <3> QED
      BY <3>1, <3>2 DEF Device
  <2> QED
    BY <1>1, <2>1, <2>2, <2>3, ChangeIsShown
<1> QED
  BY <1>3, <1>4 DEF SnapshotShown, AcceptSnapshot

LEMMA RemovalStepShown ==
  ASSUME RegistryInv, Shows(view, devices), NEW id \in DeviceIds, RemovalShown(id)
  PROVE  Shows(view', devices')
<1>1. devices \in Seq(Device) /\ DOMAIN devices = 1..Len(devices) /\ Len(devices) \in Nat
  BY DEF RegistryInv, GoodTable
<1>2. PICK i \in DOMAIN devices :
        /\ FirstMatch(devices, i, id)
        /\ view' = DevicesChanged(Removed(AboutToChange(view, i)), devices')
  BY DEF RemovalShown
<1>3. PICK j \in DOMAIN devices : FirstMatch(devices, j, id) /\ devices' = RemoveAt(devices, j)
  BY DEF RemovalShown, ForgetDevice
<1>4. i = j
  BY <1>2, <1>3 DEF FirstMatch, RegistryInv, GoodTable, DistinctAndBounded
<1> QED
  BY <1>1, <1>2, <1>3, <1>4, RemovalIsShown

\* Time changes no row.
LEMMA TickStepShown ==
  ASSUME RegistryInv, Shows(view, devices), TickShown
  PROVE  Shows(view', devices')
<1>1. /\ devices \in Seq(Device) /\ DOMAIN devices = 1..Len(devices) /\ Len(devices) \in Nat
      /\ \A i \in DOMAIN devices : devices[i] \in Device
  BY DEF RegistryInv, GoodTable
<1>2. devices' = [i \in 1..Len(devices) |-> Aged(devices[i])] /\ view' = view
  BY DEF TickShown, Tick
<1>3. \A d \in Device : Row(Aged(d)) = Row(d)
  <2> TAKE d \in Device
  <2>1. Aged(d) = d \/ Aged(d) = [d EXCEPT !.age = d.age + 1]
    BY DEF Aged
  <2>2. /\ Aged(d).id = d.id /\ Aged(d).state = d.state
        /\ Aged(d).info = d.info /\ Aged(d).metrics = d.metrics
    BY <2>1 DEF Device
  <2> QED
    BY <2>2 DEF Row
<1>4. Rows(devices') = Rows(devices)
  <2>1. Len(devices') = Len(devices) /\ \A i \in 1..Len(devices) : Row(devices'[i]) = Row(devices[i])
    BY <1>1, <1>2, <1>3
  <2> QED
    BY <2>1 DEF Rows
<1> QED
  BY <1>2, <1>4 DEF Shows

LEMMA ModelStepShown ==
  ASSUME RegistryInv, Shows(view, devices), [ModelNext]_modelVars
  PROVE  RegistryInv' /\ Shows(view', devices')
<1>1. RegistryInv'
  <2>1. [RegistryNext]_registryVars
    BY DEF ModelNext, HelloShown, SnapshotShown, TimerShown, RemovalShown, RestartShown, TickShown,
           RegistryNext, modelVars, registryVars
  <2> QED
    BY <2>1, RegistryInvInductive
<1>2. CASE TimerShown
  BY <1>1, <1>2, FreshnessIsShown DEF TimerShown, FreshnessTimer
<1>3. CASE RestartShown
  BY <1>1, <1>3, AttachedShows DEF RestartShown
<1>4. CASE UNCHANGED modelVars
  BY <1>1, <1>4 DEF modelVars, registryVars
<1> QED
  BY <1>1, <1>2, <1>3, <1>4, HelloStepShown, SnapshotStepShown, RemovalStepShown, TickStepShown
     DEF ModelNext

\* The overview always shows exactly what the registry holds, in its order, and no
\* announced insertion or removal is left half done, for any number of devices.
THEOREM ModelViewFollowsRegistry == ModelSpec => []ViewFollowsRegistry
<1>1. ModelInit => RegistryInv /\ Shows(view, devices)
  BY EmptyTable, AttachedShows DEF ModelInit, RegistryInit, RegistryInv, RegistryTypeOK, GoodTable
<1>2. RegistryInv /\ Shows(view, devices) /\ [ModelNext]_modelVars
        => RegistryInv' /\ Shows(view, devices)'
  BY ModelStepShown
<1>3. Shows(view, devices) => ViewFollowsRegistry
  BY DEF Shows, ViewFollowsRegistry
<1> QED
  BY <1>1, <1>2, <1>3, PTL DEF ModelSpec
=============================================================================
