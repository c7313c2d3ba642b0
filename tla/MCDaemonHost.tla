---------------------------- MODULE MCDaemonHost ----------------------------
(***************************************************************************)
(* A host with three network interfaces and four mount points, one of each *)
(* with a name that is no text of the protocol, and with no, one or        *)
(* several graphics processors, two cards of one vendor among them.        *)
(***************************************************************************)
EXTENDS DaemonHost

CONSTANTS Disk, Longest, Intel, AMD  \* names; Longest, like the number 3, is no text

Reading ==
  [stat |-> TRUE, net |-> Interfaces \X Directions,
   total |-> 2, available |-> 1, swapTotal |-> 2, swapAvailable |-> 1,
   uptime |-> "finite", load |-> {"finite"}, cpuZones |-> {"finite"}, gpuZones |-> {"finite"},
   mounts |-> {[point |-> 0, device |-> Disk]},
   volume |-> [p \in 0..3 |-> [total |-> 2, available |-> 1]],
   v3d |-> "none", clock |-> None, stats |-> <<>>, cards |-> <<>>]

Kinds == {"absent", "finite", "negative", "infinite"}

Amounts == {None} \cup 0..(WireMax + 1)

\* Cards with a clock, without a metric, and with a usage of 100% or beyond it.
Cards ==
  {[vendor |-> Intel, clock |-> WireMax, percent |-> None],
   [vendor |-> Intel, clock |-> 0, percent |-> None],
   [vendor |-> AMD, clock |-> WireMax + 1, percent |-> 100],
   [vendor |-> AMD, clock |-> None, percent |-> 101]}

\* The statistics of a graphics processor that runs, whose counter falls behind the
\* time, goes back or gets ahead of it.
Stats == {<<>>, [time |-> 1, run |-> 0], [time |-> 1, run |-> 1], [time |-> 2, run |-> 0],
          [time |-> 2, run |-> 1], [time |-> 2, run |-> 3]}

\* What is set against the counters of the previous collection.
CounterReadings ==
  {[Reading EXCEPT !.stat = FALSE]} \cup
  {[Reading EXCEPT !.net = n \cup ((Interfaces \ Listed) \X Directions)] :
     n \in SUBSET (Listed \X Directions)} \cup
  {[Reading EXCEPT !.v3d = "platform", !.stats = s] : s \in Stats}

\* Each source of a collection in all its forms, with the others in order.
MCReadings ==
  CounterReadings \cup
  {[Reading EXCEPT !.total = t, !.available = a] : t \in Amounts, a \in Amounts} \cup
  {[Reading EXCEPT !.swapTotal = t, !.swapAvailable = a] : t \in Amounts, a \in Amounts} \cup
  {[Reading EXCEPT !.uptime = u] : u \in Kinds} \cup
  {[Reading EXCEPT !.load = l] : l \in SUBSET Kinds} \cup
  {[Reading EXCEPT !.cpuZones = z] : z \in SUBSET Kinds} \cup
  {[Reading EXCEPT !.mounts = m \cup {[point |-> 1, device |-> Disk]}] :
     m \in SUBSET ([point: {0}, device: {Disk, Longest}] \cup [point: {2, 3}, device: {Disk}])} \cup
  {[Reading EXCEPT !.volume[0] = [total |-> t, available |-> a]] :
     t \in 0..(WireMax + 1), a \in 0..(WireMax + 1)} \cup
  {[Reading EXCEPT !.v3d = v, !.clock = c] : v \in {"devfreq", "platform"}, c \in Amounts} \cup
  {[Reading EXCEPT !.v3d = "platform", !.gpuZones = z] : z \in SUBSET Kinds} \cup
  {[Reading EXCEPT !.cards = c] : c \in UNION {[1..n -> Cards] : n \in 1..3}}

\* Collecting reads nothing of the identity and changes nothing of it: it is explored
\* while the file holds one identity, at rest, only.
AtRest ==
  /\ file = CHOOSE id \in Uuids : TRUE
  /\ onDisk = {file}
  /\ tmp = {}

\* Nothing is computed from the counters of the processor, of the network and of the
\* graphics processor together: they move one at a time only.  Those of an interface that
\* is not listed are never read.
OneSource ==
  /\ \/ host.busy = 0 /\ host.idle = 0 /\ collector.gpu = <<>>
     \/ (\A i \in Interfaces : host.net[i] = Zero) /\ collector.gpu = <<>>
     \/ host = Idle
  /\ \A i \in Interfaces \ Listed : host.net[i] = Zero

\* Nothing else of what the files hold is set against an earlier collection: it varies in
\* the first collection of a process only.
MCCollects ==
  \/ \E r \in CounterReadings : Collects(r)
  \/ host = Idle /\ collector = Forgotten /\ \E r \in Readings : Collects(r)

MCNext ==
  \/ IdentityStep \/ IdentityFault \/ ProcessEnds \/ Delivered
  \/ AtRest /\ (HostMoves \/ MCCollects) /\ OneSource'

MCSpec == HostInit /\ [][MCNext]_hostVars /\ IdentityProgress
=============================================================================
