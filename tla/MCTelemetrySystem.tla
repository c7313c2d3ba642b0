-------------------------- MODULE MCTelemetrySystem --------------------------
(***************************************************************************)
(* Instances of the composed telemetry system.                             *)
(***************************************************************************)
EXTENDS TelemetrySystem

CONSTANTS d1, h1, h2, s1

MCInstances == Addresses \X (1..MaxStarts)
MCInterval == [h \in Addresses |-> 1]
MCTwoIntervals == [h \in Addresses |-> IF h = h1 THEN 1 ELSE 2]
MCInfo == [h \in Addresses |-> s1]

\* Two hosts were installed from one disk image.
MCClonedIdentity == [h \in Addresses |-> d1]

\* The starts that count as used up: either one host restarts and the other is never
\* switched on, or both hosts run once.
MCStarts ==
  {[h \in Addresses |-> IF h = h1 THEN 0 ELSE MaxStarts], [h \in Addresses |-> MaxStarts - 1]}

MCInit ==
  /\ \E starts \in MCStarts :
       daemon = [h \in Addresses |->
                   [pc |-> "stopped", starts |-> starts[h], sequence |-> 0, port |-> 0]]
  /\ RegistryInit
  /\ network = {}

MCSpec == MCInit /\ [][Next]_vars
=============================================================================
