-------------------------- MODULE MCTelemetryTiming --------------------------
(***************************************************************************)
(* One host with the delays and thresholds of the code, either h1 with the *)
(* default interval of one second or h2 with an interval of two.           *)
(***************************************************************************)
EXTENDS TelemetryTiming

CONSTANTS d1, h1, h2, s1

MCInstances == Addresses \X (1..MaxStarts)
MCIdentity == [h \in Addresses |-> d1]
MCInterval == [h \in Addresses |-> IF h = h1 THEN 1 ELSE 2]
MCInfo == [h \in Addresses |-> s1]

\* The other host has used up its turns and been forgotten.
MCInit ==
  /\ \E on \in Addresses :
       daemon = [h \in Addresses |->
         IF h = on THEN [pc |-> "stopped", starts |-> 0, sequence |-> 0, port |-> 0]
         ELSE [pc |-> "resolving", starts |-> MaxStarts, sequence |-> MaxSequence + 1, port |-> 0]]
  /\ RegistryInit
  /\ network = {}
  /\ wait = [h \in Addresses |-> 0]
  /\ faults = MaxFaults
  /\ silent = [h \in Addresses |-> None]

MCSpec == MCInit /\ [][TNext]_timingVars /\ WF_timingVars(Progress)
=============================================================================
