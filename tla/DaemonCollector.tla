--------------------------- MODULE DaemonCollector ---------------------------
(***************************************************************************)
(* Collector::metrics() of daemon/src/daemon.cpp: one collection reads     *)
(* /proc, /sys and the file systems, derives rates and ratios from         *)
(* counters it remembers of the previous collection, and yields the        *)
(* metrics of a snapshot.                                                  *)
(*                                                                         *)
(* The host changes between collections as hosts do: counters grow, iowait *)
(* and with it the idle counter goes back, interfaces vanish and come back *)
(* with counters at 0, files are unreadable at times, mounts are repeated, *)
(* amounts are 0, inconsistent or beyond the wire's range, numbers are     *)
(* infinite or negative, names do not fit a text of the protocol, and two  *)
(* graphics cards are of one vendor.                                       *)
(*                                                                         *)
(* Data.  As in the decoder, a number is told by its kind.  A rate is kept *)
(* as the difference it is computed from; all rates of a collection are    *)
(* over the same time.  Mount points are numbers in their order, 0 is /;   *)
(* the lines of mountinfo that do not parse, or name no device, are no     *)
(* mounts.                                                                 *)
(***************************************************************************)
EXTENDS DeviceSnapshotCodec, FiniteSetsExt

CONSTANTS
  Interfaces,  \* network interfaces, numbered in the order of directory_entries()
  Readings,    \* what the files may hold, apart from the counters of host
  V3D,         \* the name of the graphics processor of a Raspberry Pi
  MaxTicks,    \* bound on the busy counter explored
  MaxCount,    \* bound on the other counters explored
  Word         \* 2^64, for counters

ASSUME CollectorAssumption ==
  /\ Interfaces \subseteq Nat /\ IsFiniteSet(Interfaces)
  /\ {MaxTicks, MaxCount, Word} \subseteq Nat
  /\ Word > MaxTicks + MaxCount
  /\ V3D \in Texts

\* What has been parsed: numbers, lists, and nothing where a file does not say.
ASSUME ReadingsAssumption ==
  \A r \in Readings :
    /\ {r.total, r.available, r.swapTotal, r.swapAvailable, r.clock} \subseteq Nat \cup {None}
    /\ IsFiniteSet(r.mounts)
    /\ \A m \in r.mounts :
         m.point \in Nat /\ {r.volume[m.point].total, r.volume[m.point].available} \subseteq Nat
    /\ r.stats # <<>> => {r.stats.time, r.stats.run} \subseteq Nat
    /\ Len(r.cards) \in Nat /\ DOMAIN r.cards = 1..Len(r.cards)
    /\ \A k \in DOMAIN r.cards :
         /\ r.cards[k].vendor \in Texts
         /\ {r.cards[k].clock, r.cards[k].percent} \subseteq Nat \cup {None}

VARIABLES
  host,       \* the counters of the kernel
  collector,  \* previous_cpu_, previous_network_ and previous_gpu_
  since,      \* what happened since they were read; properties only
  snapshot    \* the metrics on their way to the dashboard, <<>> when there are none

collectorVars == <<host, collector, since, snapshot>>

Directions == {"rx", "tx"}
Zero == [d \in Directions |-> 0]
Gone == [d \in Directions |-> None]

Idle == [busy |-> 0, idle |-> 0, net |-> [i \in Interfaces |-> Zero]]

Forgotten == [cpu |-> <<>>, net |-> [i \in Interfaces |-> Gone], gpu |-> <<>>]

CollectorInit ==
  /\ host = Idle
  /\ collector = Forgotten
  /\ since = [busy |-> 0, net |-> [i \in Interfaces |-> Zero]]
  /\ snapshot = <<>>
-----------------------------------------------------------------------------
(* The host, between two collections *)

Works ==
  /\ host.busy < MaxTicks
  /\ host' = [host EXCEPT !.busy = @ + 1]
  /\ since' = [since EXCEPT !.busy = @ + 1]

Idles ==
  /\ \E idle \in {host.idle - 1, host.idle + 1} \cap 0..MaxCount :
       host' = [host EXCEPT !.idle = idle]
  /\ UNCHANGED since

Transfers(i, d) ==
  /\ host.net[i][d] \in 0..(MaxCount - 1)
  /\ since.net[i][d] < MaxCount
  /\ host' = [host EXCEPT !.net[i][d] = @ + 1]
  /\ since' = [since EXCEPT !.net[i][d] = @ + 1]

\* An interface vanishes or is created anew.
Replugs(i) ==
  /\ host' = [host EXCEPT !.net[i] = IF @ = Gone THEN Zero ELSE Gone]
  /\ UNCHANGED since

HostStep ==
  /\ Works \/ Idles \/ (\E i \in Interfaces : Replugs(i) \/ \E d \in Directions : Transfers(i, d))
  /\ UNCHANGED <<collector, snapshot>>
-----------------------------------------------------------------------------
(* One collection, from what the files hold *)

\* usage_ratio as busy of total ticks; the idle difference is unsigned, the ratio clamped.
CpuUsage(r) ==
  IF ~ r.stat \/ collector.cpu = <<>> THEN NoRatio
  ELSE LET total == host.busy + host.idle - (collector.cpu.busy + collector.cpu.idle)
           idle == (host.idle - collector.cpu.idle) % Word
       IN IF total <= 0 THEN NoRatio
          ELSE [part |-> IF idle > total THEN 0 ELSE total - idle, whole |-> total]

\* A number of which one that is finite and not negative was found.
Number(found) == IF "finite" \in found THEN "finite" ELSE "absent"

\* The load averages are kept together or not at all.
Load(r) == IF r.load = {"finite"} THEN "finite" ELSE "absent"

Within(value) == IF value <= WireMax THEN value ELSE None

\* An amount that would be more than the whole is erased.
Share(available, total) ==
  IF PartOf(Within(available), total) THEN Within(available) ELSE None

\* Only the total of the main memory must be positive.
MemoryTotal(r) == IF r.total = 0 THEN None ELSE Within(r.total)

Counter(r, i, d) == IF <<i, d>> \in r.net THEN host.net[i][d] ELSE None

Both(r, i) == \A d \in Directions : Counter(r, i, d) # None

HasRates(r, i) ==
  /\ Both(r, i)
  /\ collector.net[i] # Gone
  /\ \A d \in Directions : host.net[i][d] >= collector.net[i][d]

\* An interface with nothing but its name is left out.
Useful(r, i) == HasRates(r, i) \/ \E d \in Directions : Counter(r, i, d) \in 0..WireMax

\* An interface whose name is no text is skipped before its counters are read.
Listed == Interfaces \cap Texts

\* The loop stops at the limit.
Visited(r) ==
  {i \in Listed : Cardinality({j \in Listed : j < i /\ Useful(r, j)}) < MaxInterfaces}

\* Faulty: the counters of an interface that is missing once are kept.
NextNetworkKeeping(r) ==
  [i \in Interfaces |-> IF Both(r, i) THEN host.net[i] ELSE collector.net[i]]

\* next_network
NextNetwork(r) ==
  [i \in Interfaces |-> IF i \in Visited(r) /\ Both(r, i) THEN host.net[i] ELSE Gone]

Interface(r, i) ==
  [name |-> i, rx |-> Within(Counter(r, i, "rx")), tx |-> Within(Counter(r, i, "tx")),
   rates |-> IF HasRates(r, i)
             THEN [d \in Directions |-> (host.net[i][d] - collector.net[i][d]) % Word] ELSE Gone]

\* Numbers in their order; no sort of the library has a definition that proofs can use.
InOrder(S) ==
  CHOOSE s \in [1..Cardinality(S) -> S] : \A j, k \in DOMAIN s : j < k => s[j] < s[k]

NetworkInterfaces(r) ==
  LET order == InOrder({i \in Visited(r) : Useful(r, i)})
  IN [k \in DOMAIN order |-> Interface(r, order[k])]

FirstOf(s, n) == SubSeq(s, 1, IF Len(s) < n THEN Len(s) ELSE n)

Mounts(r) == {m \in r.mounts : {m.point, m.device} \subseteq Texts}

\* Of several mounts at one point an unstable sort leaves any one first.
StorageVolume(r, p) ==
  [name |-> p, device |-> (CHOOSE m \in Mounts(r) : m.point = p).device,
   total |-> r.volume[p].total, available |-> r.volume[p].available]

\* Repeated mount points are taken once; / comes first, so that the limit spares it.
StorageVolumes(r) ==
  LET usable == {p \in {m.point : m \in Mounts(r)} :
                   r.volume[p].total \in 1..WireMax /\ r.volume[p].available <= r.volume[p].total}
      order == InOrder(usable)
  IN FirstOf([k \in DOMAIN order |-> StorageVolume(r, order[k])], MaxVolumes)

\* Faulty: statistics that grow faster than the time give more than 1.
GpuUsageUnclamped(r) ==
  IF r.stats = <<>> \/ collector.gpu = <<>> THEN NoRatio
  ELSE [part |-> r.stats.run - collector.gpu.run, whole |-> r.stats.time - collector.gpu.time]

\* Time run of the time passed, from gpu_stats of the platform device; clamped.
GpuUsage(r) ==
  IF r.v3d # "platform" \/ r.stats = <<>> \/ collector.gpu = <<>> THEN NoRatio
  ELSE LET run == r.stats.run - collector.gpu.run
           time == r.stats.time - collector.gpu.time
       IN IF time <= 0 \/ run < 0 THEN NoRatio
          ELSE [part |-> IF run > time THEN time ELSE run, whole |-> time]

Clock(hertz) == IF hertz \in 1..WireMax THEN hertz ELSE None

\* Amounts of graphics memory and the clock of that memory are never sent.
GpuEntry(name, usage, clock, temperature) ==
  [name |-> name, usage |-> usage, clock |-> Clock(clock), temperature |-> temperature,
   total |-> None, used |-> None, memoryClock |-> None]

\* A card has the name of its vendor.
CardEntry(c) ==
  GpuEntry(c.vendor, IF c.percent \in 0..100 THEN [part |-> c.percent, whole |-> 100] ELSE NoRatio,
           c.clock, "absent")

HasMetric(c) == CardEntry(c).usage # NoRatio \/ CardEntry(c).clock # None

\* The processor of a Raspberry Pi, or the graphics cards of known vendors, those
\* with a metric first.
Gpus(r) ==
  IF r.v3d # "none" THEN <<GpuEntry(V3D, GpuUsage(r), r.clock, Number(r.gpuZones))>>
  ELSE LET cards(metric) == InOrder({k \in DOMAIN r.cards : HasMetric(r.cards[k]) = metric})
           order == cards(TRUE) \o cards(FALSE)
       IN FirstOf([k \in DOMAIN order |-> CardEntry(r.cards[order[k]])], MaxGpus)

Metrics(r) ==
  [usage |-> CpuUsage(r), temperature |-> Number(r.cpuZones),
   uptime |-> Number({r.uptime}), load |-> Load(r),
   total |-> MemoryTotal(r), available |-> Share(r.available, MemoryTotal(r)),
   swapTotal |-> Within(r.swapTotal), swapAvailable |-> Share(r.swapAvailable, Within(r.swapTotal)),
   interfaces |-> NetworkInterfaces(r), volumes |-> StorageVolumes(r), gpus |-> Gpus(r)]

\* metrics()
Collect(r) ==
  /\ snapshot = <<>>
  /\ snapshot' = Metrics(r)
  /\ collector' = [cpu |-> IF r.stat THEN [busy |-> host.busy, idle |-> host.idle]
                           ELSE collector.cpu,
                   net |-> NextNetwork(r),
                   gpu |-> IF r.v3d = "platform" THEN r.stats ELSE collector.gpu]
  /\ since' = [busy |-> IF r.stat THEN 0 ELSE since.busy, net |-> [i \in Interfaces |-> Zero]]
  /\ UNCHANGED host
-----------------------------------------------------------------------------
(* Properties *)

\* Whatever a host reports, the dashboard decodes the metrics of its snapshot unless two
\* graphics cards in them are of one vendor: the collector clamps, erases or skips every
\* other value and entry that metricsFromMap() would reject the whole snapshot for, of
\* amounts, ratios, numbers, names and lists alike.
RejectedOnlyForRepeatedCard ==
  snapshot # <<>> /\ ~ MetricsFromMap(snapshot) =>
    \E j, k \in DOMAIN snapshot.gpus : j # k /\ snapshot.gpus[j].name = snapshot.gpus[k].name

\* No rate and no usage of the processor exceeds what happened since the collection it is
\* measured from, although counters go back, interfaces vanish and return, files are
\* unreadable for one collection, and the process restarts (previous_network_,
\* previous_cpu_).  It is an upper bound: where idle went back, the unsigned difference
\* makes the usage 0 and so understates it.
NeverOverstated ==
  [][snapshot = <<>> /\ snapshot' # <<>> =>
       /\ snapshot'.usage.part <= since.busy
       /\ \A k \in DOMAIN snapshot'.interfaces, d \in Directions :
            LET interface == snapshot'.interfaces[k]
            IN interface.rates[d] <= since.net[interface.name][d]]_collectorVars
-----------------------------------------------------------------------------
(* What the documentation says and the program does not do *)

\* The wire contract (docs/specs/018-udp-cbor-telemetry.md) holds for what the daemon
\* sends: "Named collection entries must be non-empty and unique", with the ranges and
\* relationships next to it.  Two cards of one vendor have one name, and the dashboard
\* rejects every snapshot of such a host.
SnapshotsDecode ==
  snapshot # <<>> => MetricsFromMap(snapshot)
=============================================================================
