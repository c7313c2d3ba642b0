--------------------------- MODULE TelemetryTiming ---------------------------
(***************************************************************************)
(* The telemetry system against the clock.  The delays are those of run()  *)
(* in daemon/src/daemon.cpp: a reply is awaited for ReplySeconds, a turn   *)
(* that looks registered is followed by a sleep of one interval, any other *)
(* by a sleep of RetrySeconds.  Processes and the freshness timer keep up  *)
(* with the clock and datagrams arrive within the second they were sent    *)
(* in; every exception is a fault, and there are at most MaxFaults:        *)
(* a datagram lost, delivered twice, or delayed past a tick, or a failed   *)
(* name lookup.  Daemons start once and the dashboard does not restart.    *)
(***************************************************************************)
EXTENDS TelemetrySystem

CONSTANTS
  ReplySeconds,  \* SO_RCVTIMEO of the daemon's socket (2)
  RetrySeconds,  \* sleep after a turn without acceptance (10)
  MaxFaults

ASSUME TimingAssumption ==
  /\ ReplySeconds \in Nat
  /\ RetrySeconds \in Nat
  /\ MaxFaults \in Nat

VARIABLES
  wait,    \* seconds until the daemon of each host gives up waiting or sleeping
  faults,  \* faults that may still happen
  silent   \* seconds since the last snapshot each daemon sent, None before the first

timingVars == <<vars, wait, faults, silent>>

MaxSilent == OfflineIntervals * MaxInterval + RetrySeconds + ReplySeconds

TInit ==
  /\ Init
  /\ wait = [h \in Addresses |-> 0]
  /\ faults = MaxFaults
  /\ silent = [h \in Addresses |-> None]

Fault == faults > 0 /\ faults' = faults - 1
NoFault == UNCHANGED faults
-----------------------------------------------------------------------------
Exhausted(h) == daemon[h].sequence > MaxSequence

TDaemon(h) ==
  \/ /\ Start(h)
     /\ NoFault
     /\ UNCHANGED <<devices, storage, diagnostic, network, wait, silent>>
  \/ /\ \E port \in Ports : DaemonSendHello(h, port)
     /\ wait' = [wait EXCEPT ![h] = ReplySeconds]
     /\ NoFault
     /\ UNCHANGED silent
  \/ /\ wait[h] = 0
     /\ ReplyTimeout(h)
     /\ wait' = [wait EXCEPT ![h] = RetrySeconds]
     /\ NoFault
     /\ UNCHANGED <<devices, storage, diagnostic, network, silent>>
  \/ /\ wait[h] = 0
     /\ Wake(h)
     /\ NoFault
     /\ UNCHANGED <<devices, storage, diagnostic, network, wait, silent>>

TResolveFails(h) ==
  /\ ResolveFails(h)
  /\ Fault
  /\ wait' = [wait EXCEPT ![h] = Interval[h]]
  /\ UNCHANGED <<devices, storage, diagnostic, network, silent>>

TDaemonReceive(m, h, rest) ==
  /\ DaemonReceive(m, h, rest)
  /\ IF LooksAccepted(m.body)
     THEN /\ wait' = [wait EXCEPT ![h] = Interval[h]]
          /\ silent' = [silent EXCEPT ![h] = 0]
     ELSE /\ wait' = [wait EXCEPT ![h] = RetrySeconds]
          /\ UNCHANGED silent

Deliver(m, rest) ==
  \/ ReceiveHello(m, rest) /\ UNCHANGED <<wait, silent>>
  \/ ReceiveSnapshot(m, rest) /\ UNCHANGED <<wait, silent>>
  \/ \E h \in Addresses : TDaemonReceive(m, h, rest)

\* A reply whose socket is closed goes nowhere.
Undeliverable(m) ==
  /\ m.type = "result"
  /\ ~ \E h \in Addresses : AddressedTo(m, h)
  /\ network' = network \ {m}
  /\ UNCHANGED <<devices, storage, diagnostic, daemon, wait, silent>>

Lose(m) ==
  /\ network' = network \ {m}
  /\ UNCHANGED <<devices, storage, diagnostic, daemon, wait, silent>>

TFreshnessTimer ==
  /\ FreshnessTimer
  /\ NoFault
  /\ UNCHANGED <<daemon, network, wait, silent>>

\* A second passes once everyone has done what was due.
TTick ==
  /\ devices = UpdateFreshness(devices)
  /\ \A h \in Addresses :
       \/ wait[h] > 0 /\ daemon[h].pc \in {"waiting", "sleeping"}
       \/ Exhausted(h) /\ daemon[h].pc = "resolving"
  /\ IF network = {} THEN NoFault ELSE Fault
  /\ Tick
  /\ wait' = [h \in Addresses |-> IF wait[h] > 0 THEN wait[h] - 1 ELSE 0]
  /\ silent' = [h \in Addresses |->
       IF silent[h] \in {None, MaxSilent} THEN silent[h] ELSE silent[h] + 1]
  /\ UNCHANGED <<daemon, network>>

Progress ==
  \/ \E h \in Addresses : TDaemon(h)
  \/ \E m \in network : (Deliver(m, network \ {m}) \/ Undeliverable(m)) /\ NoFault
  \/ TFreshnessTimer
  \/ network = {} /\ TTick

Disturbance ==
  \/ \E h \in Addresses : TResolveFails(h)
  \/ \E m \in network : (Deliver(m, network) \/ Lose(m)) /\ Fault
  \/ network # {} /\ TTick

TNext == Progress \/ Disturbance

\* Processes run, datagrams that are not lost arrive and time passes.
TSpec == TInit /\ [][TNext]_timingVars /\ WF_timingVars(Progress)
-----------------------------------------------------------------------------
(* Properties *)

ShownAs(h, states) ==
  \E i \in DOMAIN devices :
    devices[i].instance = Instance(h) /\ devices[i].state \in states

\* Without faults the turn of hello, reply and snapshot repeats often enough
\* that a device never leaves the online state again.
HealthyDeviceStaysOnline ==
  faults = MaxFaults =>
    \A h \in Addresses : ~ Exhausted(h) => ~ ShownAs(h, {"Stale", "Offline"})

\* The longest time between two snapshots when a single turn is missed: an interval, and then
\* the sleep of another one after a failed lookup or the reply timeout with the long sleep.
MissedTurn(h) ==
  Interval[h] + IF Interval[h] > ReplySeconds + RetrySeconds
                THEN Interval[h] ELSE ReplySeconds + RetrySeconds

\* A single fault costs a device one missed turn and no more, whatever its interval: late
\* hellos, replies and snapshots do not add to it.  It is shown as offline for it only where
\* a missed turn reaches the offline threshold.  With the delays of run() that is so for an
\* interval of one second, the default, where 1 + 2 + 10 seconds exceed ten intervals, and
\* for no longer interval.
OneFaultCostsOneTurn ==
  faults >= MaxFaults - 1 =>
    \A h \in Addresses, i \in DOMAIN devices :
      ~ Exhausted(h) /\ devices[i].instance = Instance(h) =>
        /\ devices[i].age <= MissedTurn(h)
        /\ devices[i].state = "Offline" => OfflineIntervals * Interval[h] <= MissedTurn(h)

\* Whatever faults happened, once they are over and nothing of them is in
\* flight, the snapshot of the next turn is accepted: stale hellos, endpoints and
\* sequence numbers leave nothing behind that keeps a device out.
SnapshotsGetThrough ==
  \A h \in Addresses, n \in Sequences :
    (faults = 0 /\ network = {} /\ daemon[h].pc = "resolving" /\ daemon[h].sequence = n)
      ~> \E i \in DOMAIN devices :
           devices[i].instance = Instance(h) /\ devices[i].sequence >= n

\* "hello every ten seconds until accepted and then complete snapshots at the
\* configured interval": after the first acceptance a snapshot leaves every interval, give
\* or take the wait for a reply.
SnapshotCadence ==
  \A h \in Addresses :
    ~ Exhausted(h) => silent[h] <= Interval[h] + ReplySeconds
=============================================================================
