----------------------------- MODULE DaemonHost -----------------------------
(***************************************************************************)
(* A host with its daemon: every process first comes by the identity and   *)
(* then collects metrics, and forgets the counters when it ends.           *)
(***************************************************************************)
EXTENDS DaemonIdentity, DaemonCollector

hostVars == <<identityVars, collectorVars>>

HostInit == IdentityInit /\ CollectorInit

\* What a host does while no process collects makes no difference to a later one: the
\* counters only count from its first collection.
Restarted ==
  /\ host' = Idle
  /\ collector' = Forgotten
  /\ since' = [busy |-> 0, net |-> [i \in Interfaces |-> Zero]]
  /\ snapshot' = <<>>

IdentityStep ==
  /\ \/ \E pid \in Pids : Start(pid)
     \/ ReadIdentity
     \/ OpenTmp
     \/ WriteTmp
     \/ Rename
     \/ WriteBack
  /\ UNCHANGED collectorVars

IdentityFault == (ReadFails \/ CreationFails) /\ UNCHANGED collectorVars

ProcessEnds == (Crash \/ PowerFailure) /\ Restarted

Collects(r) == process.stage = "running" /\ Collect(r) /\ UNCHANGED identityVars

HostMoves ==
  /\ process.stage = "running" /\ snapshot = <<>>
  /\ HostStep
  /\ UNCHANGED identityVars

CollectStep == HostMoves \/ \E r \in Readings : Collects(r)

\* The datagram reaches the dashboard or is lost.
Delivered ==
  /\ snapshot # <<>>
  /\ snapshot' = <<>>
  /\ UNCHANGED <<identityVars, host, collector, since>>

HostNext == IdentityStep \/ IdentityFault \/ ProcessEnds \/ CollectStep \/ Delivered

HostSpec == HostInit /\ [][HostNext]_hostVars /\ IdentityProgress
=============================================================================
