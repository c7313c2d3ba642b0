--------------------------- MODULE DeviceLifecycle ---------------------------
(***************************************************************************)
(* What the dashboard promises about a remote device, whatever happens on  *)
(* the network: the states of docs/specs/018-udp-cbor-telemetry.md and the *)
(* ways between them, with the process and the snapshot behind what is     *)
(* shown.  Several devices may change in one step.                         *)
(***************************************************************************)
EXTENDS Integers

CONSTANTS DeviceIds, Instances, NoInstance

VARIABLE life

None == -1

Life(state, instance, sequence) ==
  [state |-> state, instance |-> instance, sequence |-> sequence]

Unregistered == Life("Unregistered", NoInstance, None)

\* A process introduces itself: nothing of another process stays visible.
Register(old, new) ==
  \E i \in Instances \ {old.instance} : new = Life("Registered", i, None)

\* The registered process delivers a newer snapshot.  There is no other way to
\* become online, nor to show other data.
Update(old, new) ==
  /\ old.instance \in Instances
  /\ new.sequence > old.sequence
  /\ new = Life("Online", old.instance, new.sequence)

\* Silence only makes a device staler.
Decay(old, new) ==
  /\ <<old.state, new.state>> \in
       {<<"Online", "Stale">>, <<"Online", "Offline">>, <<"Stale", "Offline">>}
  /\ new = [old EXCEPT !.state = new.state]

\* The dashboard restarts and remembers the device but nothing live of it.
Reload(new) == new = Life("Offline", NoInstance, None)

\* The user forgets the device, or its record is lost.
Forget(new) == new = Unregistered

Init == life = [id \in DeviceIds |-> Unregistered]

Next ==
  \A id \in DeviceIds :
    LET old == life[id]
        new == life'[id]
    IN \/ new = old
       \/ Register(old, new)
       \/ Update(old, new)
       \/ Decay(old, new)
       \/ Reload(new)
       \/ Forget(new)

Spec == Init /\ [][Next]_life
=============================================================================
