----------------------------- MODULE DeviceModel -----------------------------
(***************************************************************************)
(* The list model of the dashboard's device overview                       *)
(* (src/dashboard/device_model.cpp): row 0 is the local machine, the other *)
(* rows are the devices of the registry, read anew whenever data() is      *)
(* called.  A view copies a row when it is inserted and again only when    *)
(* the model says that it changed, so what is on screen depends on every   *)
(* registry operation emitting the right signals in the right order.       *)
(*                                                                         *)
(* Each action below is a registry operation together with the handlers    *)
(* its signals run, in the order in which they are emitted.                *)
(*                                                                         *)
(* Data.  A row is what data() takes from a device: identity, state,       *)
(* system information and metrics; formatting is left out, and so is the   *)
(* row's number, which no handler announces.  The local row is left out:   *)
(* its two handlers announce row 0 and touch no other.                     *)
(***************************************************************************)
EXTENDS RemoteDeviceRegistry

VARIABLE view  \* what the attached view shows of the devices, and the members of DeviceModel

modelVars == <<registryVars, view>>

\* data() of the row of a device.
Row(d) == [id |-> d.id, state |-> d.state, info |-> d.info, metrics |-> d.metrics]

Rows(ds) == [i \in 1..Len(ds) |-> Row(ds[i])]

\* A view attached to a new model reads every row.  structured is
\* structured_registry_change_; at is the row of a begun insertion or removal.
Attached(ds) == [rows |-> Rows(ds), structured |-> FALSE, at |-> 0]

ModelInit ==
  /\ RegistryInit
  /\ view = Attached(devices)
-----------------------------------------------------------------------------
(* Handlers of the registry's signals; ds is devices_ at the time of the signal *)

\* Faulty: the row of a device is taken for its index in the registry.
RemoteChangedOffByOne(v, ds, id) ==
  [v EXCEPT !.rows =
     [i \in DOMAIN @ |-> IF i > 1 /\ FirstMatch(ds, i, id) THEN Row(ds[i - 1]) ELSE @[i]]]

\* deviceChanged
RemoteChanged(v, ds, id) ==
  [v EXCEPT !.rows = [i \in DOMAIN @ |-> IF FirstMatch(ds, i, id) THEN Row(ds[i]) ELSE @[i]]]

\* deviceAboutToBeAdded and deviceAboutToBeRemoved
AboutToChange(v, i) == [v EXCEPT !.structured = TRUE, !.at = i]

\* deviceAdded: endInsertRows() makes the view read the new row.
Added(v, ds) == [v EXCEPT !.rows = InsertAt(@, v.at, Row(ds[v.at])), !.at = 0]

\* deviceRemoved
Removed(v) == [v EXCEPT !.rows = RemoveAt(@, v.at), !.at = 0]

\* devicesChanged: a reset unless the rows have been inserted or removed already.
DevicesChanged(v, ds) ==
  IF v.structured THEN [v EXCEPT !.structured = FALSE] ELSE [v EXCEPT !.rows = Rows(ds)]

\* The deviceChanged signals of updateFreshness(), one for every state that changes.
FreshnessShown(v) ==
  [v EXCEPT !.rows = [i \in DOMAIN @ |->
     IF Freshened(devices[i]).state # devices[i].state
     THEN Row(Freshened(devices[i])) ELSE @[i]]]
-----------------------------------------------------------------------------
(* Registry operations with their signals *)

HelloShown(hello, address, port, reason) ==
  /\ RegisterHello(hello, address, port, reason)
  /\ view' = LET v == FreshnessShown(view)
             IN IF reason # "" THEN v
                ELSE IF Unknown(devices, hello.id)
                THEN DevicesChanged(Added(AboutToChange(v, Len(devices) + 1), devices'), devices')
                ELSE RemoteChanged(v, devices', hello.id)

SnapshotShown(snapshot, address, port, accepted) ==
  /\ AcceptSnapshot(snapshot, address, port, accepted)
  /\ view' = IF accepted THEN RemoteChanged(view, devices', snapshot.id) ELSE view

TimerShown == FreshnessTimer /\ view' = FreshnessShown(view)

RemovalShown(id) ==
  \E i \in DOMAIN devices :
    /\ FirstMatch(devices, i, id)
    /\ ForgetDevice(id)
    /\ view' = DevicesChanged(Removed(AboutToChange(view, i)), devices')

RestartShown ==
  /\ Restart
  /\ view' = Attached(devices')

TickShown == Tick /\ UNCHANGED view

ModelNext ==
  \/ \E hello \in Hello, address \in Addresses, port \in Ports, reason \in Reasons :
       HelloShown(hello, address, port, reason)
  \/ \E snapshot \in Snapshot, address \in Addresses, port \in Ports, accepted \in BOOLEAN :
       SnapshotShown(snapshot, address, port, accepted)
  \/ TimerShown
  \/ \E id \in DeviceIds : RemovalShown(id)
  \/ RestartShown
  \/ TickShown

ModelSpec == ModelInit /\ [][ModelNext]_modelVars
-----------------------------------------------------------------------------
(* Properties *)

\* After every operation the view shows exactly what the registry holds: no operation
\* changes a device, its place or the freshness of another device without announcing
\* the right row, and no announcement is left half done.
ViewFollowsRegistry ==
  /\ view.rows = Rows(devices)
  /\ ~ view.structured
=============================================================================
