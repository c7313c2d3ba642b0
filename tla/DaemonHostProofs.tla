-------------------------- MODULE DaemonHostProofs --------------------------
(***************************************************************************)
(* What holds of a host and its daemon for any identities, process         *)
(* numbers, interfaces and counters, whichever call fails and wherever a   *)
(* process dies.                                                           *)
(***************************************************************************)
EXTENDS DaemonHost, FiniteSetTheorems, SequenceTheorems, WellFoundedInduction, TLAPS

HostSafety == HostInit /\ [][HostNext]_hostVars

-----------------------------------------------------------------------------
(* The identity *)

Creating == process.stage \in {"creating", "opened", "written"}

\* While an identity is being created, none is in use; one that is written has been flushed,
\* so that neither the file nor the disk ever holds what does not parse.
IdentityInv ==
  /\ DOMAIN process = {"stage", "pid", "id", "flushed"}
  /\ process.stage \in Stages
  /\ used \subseteq Uuids
  /\ \A id \in used : file = id
  /\ process.stage = "running" => process.id = file
  /\ Creating => used = {} /\ process.id \in Uuids
  /\ process.stage = "written" => process.flushed = TRUE
  /\ file \in Uuids \cup {Nothing}
  /\ onDisk \subseteq Uuids \cup {Nothing}

LEMMA NoProcessFields ==
  /\ DOMAIN NoProcess = {"stage", "pid", "id", "flushed"}
  /\ NoProcess.stage = "down"
BY DEF NoProcess

LEMMA EndKeepsIdentity ==
  ASSUME IdentityInv, process' = NoProcess, used' = used, file' = file, onDisk' = onDisk
  PROVE  IdentityInv'
BY NoProcessFields DEF IdentityInv, Stages, Creating

LEMMA IdentityStepKeepsInv ==
  ASSUME IdentityInv, [HostNext]_hostVars
  PROVE  IdentityInv'
<1>1. ASSUME NEW pid \in Pids, Start(pid)
      PROVE  IdentityInv'
  BY <1>1, NoProcessFields DEF Start, IdentityInv, Stages, Creating
<1>2. CASE ReadIdentity
  <2>1. CASE file \in Uuids /\ Running(file)
    BY <1>2, <2>1 DEF ReadIdentity, Running, IdentityInv, Stages, Creating
  <2>2. CASE file = Garbage /\ Throws
    BY <1>2, <2>2, EndKeepsIdentity DEF ReadIdentity, Throws
  <2>3. CASE file = Nothing /\ Creates /\ UNCHANGED used
    <3>1. used = {}
      BY <2>3, IdentityAssumption DEF IdentityInv
    <3> QED
      BY <1>2, <2>3, <3>1 DEF ReadIdentity, Creates, IdentityInv, Stages, Creating
  <2> QED
    BY <1>2, <2>1, <2>2, <2>3 DEF ReadIdentity
<1>3. CASE ReadFails
  BY <1>3 DEF ReadFails, Creates, IdentityInv, Stages, Creating
<1>4. CASE OpenTmp
  BY <1>4 DEF OpenTmp, IdentityInv, Stages, Creating
<1>5. CASE WriteTmp
  BY <1>5 DEF WriteTmp, IdentityInv, Stages, Creating
<1>6. CASE Rename
  <2>1. /\ process.stage = "written" /\ file' = process.id /\ process.flushed = TRUE
        /\ onDisk' = onDisk \cup {process.id} /\ used = {} /\ used' = {process.id}
        /\ process' = [process EXCEPT !.stage = "running", !.id = process.id]
        /\ process.id \in Uuids
    BY <1>6 DEF Rename, Running, IdentityInv, Creating
  <2> QED
    BY <2>1 DEF IdentityInv, Stages, Creating
<1>7. CASE CreationFails
  BY <1>7, EndKeepsIdentity DEF CreationFails, Throws
<1>8. CASE Crash
  BY <1>8, EndKeepsIdentity DEF Crash
<1>9. CASE WriteBack
  BY <1>9 DEF WriteBack, IdentityInv, Creating
<1>10. CASE PowerFailure
  <2>1. PICK content \in onDisk : /\ file' = content /\ onDisk' = {content}
                                  /\ used' = IF content = file THEN used ELSE {}
    BY <1>10 DEF PowerFailure
  <2>2. process' = NoProcess
    BY <1>10 DEF PowerFailure
  <2> QED
    BY <2>1, <2>2, NoProcessFields DEF IdentityInv, Stages, Creating
<1>11. CASE UNCHANGED identityVars
  BY <1>11 DEF identityVars, IdentityInv, Creating
<1> QED
  BY <1>1, <1>2, <1>3, <1>4, <1>5, <1>6, <1>7, <1>8, <1>9, <1>10, <1>11
     DEF HostNext, IdentityStep, IdentityFault, ProcessEnds, CollectStep, Collects, HostMoves,
         Delivered, hostVars

LEMMA IdentityInvariant == HostSafety => []IdentityInv
<1>1. HostInit => IdentityInv
  BY NoProcessFields DEF HostInit, IdentityInit, IdentityInv, Stages, Creating
<1>2. IdentityInv /\ [HostNext]_hostVars => IdentityInv'
  BY IdentityStepKeepsInv
<1> QED
  BY <1>1, <1>2, PTL DEF HostSafety

\* All processes of a host run with one identity, the one in the file, whichever call
\* fails and wherever a process dies.
THEOREM HostOneIdentity == HostSpec => []OneIdentity
<1>1. IdentityInv => OneIdentity
  BY DEF IdentityInv, OneIdentity
<1> QED
  BY <1>1, IdentityInvariant, PTL DEF HostSpec, HostSafety

\* No reader ever finds the file with anything but a whole identity or nothing: the
\* temporary file is flushed before it is renamed, so that no later process refuses to
\* start ("invalid persisted device identity").
FileParses == file # Garbage /\ Garbage \notin onDisk

\* Kills, failed calls and power failures never leave a file that does not parse.
THEOREM HostFileParses == HostSpec => []FileParses
<1>1. IdentityInv => FileParses
  BY IdentityAssumption DEF IdentityInv, FileParses
<1> QED
  BY <1>1, IdentityInvariant, PTL DEF HostSpec, HostSafety
-----------------------------------------------------------------------------
(* The counters *)

NetCounters == {Gone} \cup [Directions -> 0..MaxCount]

\* What happened since the collection that is remembered is at least what the counters
\* have grown by; an interface that has been away counts from 0.
CountersInv ==
  /\ host \in [busy: 0..MaxTicks, idle: 0..MaxCount, net: [Interfaces -> NetCounters]]
  /\ since \in [busy: Nat, net: [Interfaces -> [Directions -> Nat]]]
  /\ DOMAIN collector = {"cpu", "net", "gpu"}
  /\ collector.gpu # <<>> => collector.gpu.time \in Nat /\ collector.gpu.run \in Nat
  /\ collector.net \in [Interfaces -> NetCounters]
  /\ collector.cpu # <<>> =>
       /\ collector.cpu \in [busy: 0..MaxTicks, idle: 0..MaxCount]
       /\ host.busy - collector.cpu.busy <= since.busy
  /\ \A i \in Interfaces, d \in Directions :
       host.net[i] # Gone /\ collector.net[i] # Gone =>
         host.net[i][d] - collector.net[i][d] <= since.net[i][d]

LEMMA CounterTypes ==
  /\ MaxTicks \in Nat /\ MaxCount \in Nat /\ Word \in Nat /\ Word > MaxTicks + MaxCount
  /\ Interfaces \subseteq Nat /\ IsFiniteSet(Interfaces)
  /\ Zero \in [Directions -> 0..MaxCount] /\ Zero \in [Directions -> Nat]
  /\ \A d \in Directions : Zero[d] = 0 /\ Gone[d] = -1
  /\ Gone \notin [Directions -> 0..MaxCount]
BY CollectorAssumption DEF Zero, Gone, Directions, None

LEMMA RestartedCounters ==
  ASSUME Restarted
  PROVE  CountersInv'
BY CounterTypes DEF Restarted, Idle, Forgotten, CountersInv, NetCounters

LEMMA HostStepKeepsCounters ==
  ASSUME CountersInv, HostStep
  PROVE  CountersInv'
<1>1. UNCHANGED collector
  BY DEF HostStep
<1>2. CASE Works
  <2>1. /\ host.busy < MaxTicks
        /\ host' = [host EXCEPT !.busy = host.busy + 1]
        /\ since' = [since EXCEPT !.busy = since.busy + 1]
    BY <1>2 DEF Works
  <2>2. /\ host.busy \in 0..MaxTicks /\ since.busy \in Nat
        /\ host.busy + 1 \in 0..MaxTicks /\ since.busy + 1 \in Nat
    BY <2>1, CounterTypes DEF CountersInv
  <2>3. /\ host'.busy = host.busy + 1 /\ host'.net = host.net
        /\ since'.busy = since.busy + 1 /\ since'.net = since.net
        /\ host' \in [busy: 0..MaxTicks, idle: 0..MaxCount, net: [Interfaces -> NetCounters]]
        /\ since' \in [busy: Nat, net: [Interfaces -> [Directions -> Nat]]]
    BY <2>1, <2>2 DEF CountersInv
  <2>4. collector.cpu # <<>> => host'.busy - collector.cpu.busy <= since'.busy
    <3> SUFFICES ASSUME collector.cpu # <<>>
                 PROVE  host'.busy - collector.cpu.busy <= since'.busy
      OBVIOUS
    <3>1. collector.cpu.busy \in 0..MaxTicks /\ host.busy - collector.cpu.busy <= since.busy
      BY DEF CountersInv
    <3>2. collector.cpu.busy \in Nat
      BY <3>1, CounterTypes
    <3>3. host.busy \in Nat
      BY <2>2, CounterTypes
    <3>4. (host.busy + 1) - collector.cpu.busy <= since.busy + 1
      BY <2>2, <3>1, <3>2, <3>3
    <3> QED
      BY <2>3, <3>4
  <2> QED
    BY <1>1, <2>3, <2>4 DEF CountersInv
<1>3. CASE Idles
  <2>1. PICK idle \in 0..MaxCount : host' = [host EXCEPT !.idle = idle]
    BY <1>3 DEF Idles
  <2>2. since' = since
    BY <1>3 DEF Idles
  <2> QED
    BY <1>1, <2>1, <2>2 DEF CountersInv
<1>4. ASSUME NEW i \in Interfaces, Replugs(i)
      PROVE  CountersInv'
  <2> DEFINE new == IF host.net[i] = Gone THEN Zero ELSE Gone
  <2>1. /\ host' = [host EXCEPT !.net = [host.net EXCEPT ![i] = new]]
        /\ since' = since
    BY <1>4 DEF Replugs
  <2>2. new \in NetCounters /\ (new # Gone => new = Zero)
    BY CounterTypes DEF NetCounters
  <2> HIDE DEF new
  <2>3. /\ host'.busy = host.busy /\ host'.net \in [Interfaces -> NetCounters]
        /\ host' \in [busy: 0..MaxTicks, idle: 0..MaxCount, net: [Interfaces -> NetCounters]]
        /\ host'.net[i] = new /\ \A j \in Interfaces \ {i} : host'.net[j] = host.net[j]
    BY <2>1, <2>2 DEF CountersInv
  <2>4. ASSUME NEW j \in Interfaces, NEW d \in Directions,
               host'.net[j] # Gone, collector.net[j] # Gone
        PROVE  host'.net[j][d] - collector.net[j][d] <= since.net[j][d]
    <3>1. CASE j = i
      <4>1. host'.net[j][d] = 0 /\ since.net[j][d] \in Nat
        BY <2>2, <2>3, <2>4, <3>1, CounterTypes DEF CountersInv
      <4>2. collector.net[j][d] \in 0..MaxCount
        BY <2>4 DEF CountersInv, NetCounters
      <4> QED
        BY <4>1, <4>2, CounterTypes
    <3>2. CASE j # i
      BY <2>3, <2>4, <3>2 DEF CountersInv
    <3> QED
      BY <3>1, <3>2
  <2> QED
    BY <1>1, <2>1, <2>3, <2>4 DEF CountersInv
<1>5. ASSUME NEW i \in Interfaces, NEW d \in Directions, Transfers(i, d)
      PROVE  CountersInv'
  <2> DEFINE counted == [host.net[i] EXCEPT ![d] = @ + 1]
             moved == [since.net[i] EXCEPT ![d] = @ + 1]
  <2>1. /\ host' = [host EXCEPT !.net = [host.net EXCEPT ![i] = counted]]
        /\ since' = [since EXCEPT !.net = [since.net EXCEPT ![i] = moved]]
        /\ host.net[i][d] \in 0..(MaxCount - 1)
    BY <1>5 DEF Transfers
  <2>2. host.net[i] # Gone /\ host.net[i] \in [Directions -> 0..MaxCount]
    <3>1. host.net[i] \in NetCounters
      BY DEF CountersInv
    <3>2. host.net[i][d] # -1
      BY <2>1, CounterTypes
    <3>3. host.net[i] # Gone
      BY <3>2, CounterTypes
    <3> QED
      BY <3>1, <3>3 DEF NetCounters
  <2>3. counted \in [Directions -> 0..MaxCount] /\ moved \in [Directions -> Nat]
    <3>1. host.net[i][d] + 1 \in 0..MaxCount
      BY <2>1, CounterTypes
    <3>2. since.net[i] \in [Directions -> Nat]
      BY DEF CountersInv
    <3> QED
      BY <2>2, <3>1, <3>2
  <2>4. \A e \in Directions : counted[e] - host.net[i][e] = moved[e] - since.net[i][e]
    BY <2>2, CounterTypes DEF CountersInv
  <2> HIDE DEF counted, moved
  <2>5. /\ host'.busy = host.busy /\ since'.busy = since.busy
        /\ host' \in [busy: 0..MaxTicks, idle: 0..MaxCount, net: [Interfaces -> NetCounters]]
        /\ since' \in [busy: Nat, net: [Interfaces -> [Directions -> Nat]]]
        /\ host'.net[i] = counted /\ \A j \in Interfaces \ {i} : host'.net[j] = host.net[j]
        /\ since'.net[i] = moved /\ \A j \in Interfaces \ {i} : since'.net[j] = since.net[j]
    BY <2>1, <2>3 DEF CountersInv, NetCounters
  <2>6. ASSUME NEW j \in Interfaces, NEW e \in Directions,
               host'.net[j] # Gone, collector.net[j] # Gone
        PROVE  host'.net[j][e] - collector.net[j][e] <= since'.net[j][e]
    <3>1. CASE j = i
      <4>1. host.net[i][e] - collector.net[i][e] <= since.net[i][e]
        BY <2>2, <2>6, <3>1 DEF CountersInv
      <4>2. collector.net[i][e] \in 0..MaxCount
        BY <2>6, <3>1 DEF CountersInv, NetCounters
      <4>3. /\ counted[e] \in Int /\ host.net[i][e] \in Int
            /\ moved[e] \in Int /\ since.net[i][e] \in Int
        BY <2>2, <2>3, CounterTypes DEF CountersInv
      <4>4. counted[e] - collector.net[i][e] <= moved[e]
        BY <2>4, <4>1, <4>2, <4>3, CounterTypes
      <4> QED
        BY <2>5, <3>1, <4>4
    <3>2. CASE j # i
      BY <2>5, <2>6, <3>2 DEF CountersInv
    <3> QED
      BY <3>1, <3>2
  <2> QED
    BY <1>1, <2>5, <2>6 DEF CountersInv
<1> QED
  BY <1>2, <1>3, <1>4, <1>5 DEF HostStep
-----------------------------------------------------------------------------
(* A collection *)

LEMMA SmallDifference ==
  ASSUME NEW n \in Nat, NEW w \in Nat, n < w
  PROVE  n % w = n
OBVIOUS

LEMMA WrappedDifference ==
  ASSUME NEW n \in Nat, NEW w \in Nat, 0 < n, n < w
  PROVE  (0 - n) % w = w - n
OBVIOUS

LEMMA CollectKeepsCounters ==
  ASSUME CountersInv, NEW r \in Readings, Collect(r)
  PROVE  CountersInv'
<1>1. /\ host' = host
      /\ since' = [busy |-> IF r.stat THEN 0 ELSE since.busy, net |-> [i \in Interfaces |-> Zero]]
      /\ collector' = [cpu |-> IF r.stat THEN [busy |-> host.busy, idle |-> host.idle]
                               ELSE collector.cpu,
                       net |-> NextNetwork(r),
                       gpu |-> IF r.v3d = "platform" THEN r.stats ELSE collector.gpu]
  BY DEF Collect
<1>2. /\ \A i \in Interfaces : NextNetwork(r)[i] \in {Gone, host.net[i]}
      /\ NextNetwork(r) \in [Interfaces -> NetCounters]
  BY DEF NextNetwork, CountersInv, NetCounters
<1>3. /\ DOMAIN collector' = {"cpu", "net", "gpu"} /\ collector'.net = NextNetwork(r)
      /\ since' \in [busy: Nat, net: [Interfaces -> [Directions -> Nat]]]
      /\ \A i \in Interfaces : since'.net[i] = Zero
  BY <1>1, CounterTypes DEF CountersInv
<1>4. collector'.cpu # <<>> =>
        /\ collector'.cpu \in [busy: 0..MaxTicks, idle: 0..MaxCount]
        /\ host'.busy - collector'.cpu.busy <= since'.busy
  <2>1. CASE r.stat
    BY <1>1, <2>1, CounterTypes DEF CountersInv
  <2>2. CASE ~ r.stat
    BY <1>1, <2>2 DEF CountersInv
  <2> QED
    BY <2>1, <2>2
<1>5. ASSUME NEW i \in Interfaces, NEW d \in Directions,
             host'.net[i] # Gone, collector'.net[i] # Gone
      PROVE  host'.net[i][d] - collector'.net[i][d] <= since'.net[i][d]
  <2>1. collector'.net[i] = host.net[i] /\ host'.net[i] = host.net[i]
    BY <1>1, <1>2, <1>3, <1>5
  <2>2. host.net[i][d] \in 0..MaxCount
    BY <1>1, <1>5 DEF CountersInv, NetCounters
  <2> QED
    BY <1>3, <2>1, <2>2, CounterTypes
<1>6. collector'.gpu # <<>> => collector'.gpu.time \in Nat /\ collector'.gpu.run \in Nat
  BY <1>1, ReadingsAssumption DEF CountersInv
<1> QED
  BY <1>1, <1>2, <1>3, <1>4, <1>5, <1>6 DEF CountersInv

\* The idle counter may have gone back: its difference then wraps to more than the total
\* can be, and the usage is 0.
LEMMA UsageIsBusy ==
  ASSUME CountersInv, NEW r
  PROVE  CpuUsage(r).part <= since.busy /\ Ratio(CpuUsage(r))
<1>1. since.busy \in Nat /\ None = -1
  BY DEF CountersInv, None
<1>2. CASE ~ r.stat \/ collector.cpu = <<>>
  BY <1>1, <1>2 DEF CpuUsage, NoRatio, Ratio
<1>3. CASE ~ (~ r.stat \/ collector.cpu = <<>>)
  <2> DEFINE busy == host.busy - collector.cpu.busy
             grown == host.idle - collector.cpu.idle
             total == host.busy + host.idle - (collector.cpu.busy + collector.cpu.idle)
             idle == (host.idle - collector.cpu.idle) % Word
  <2>1. /\ host.busy \in 0..MaxTicks /\ host.idle \in 0..MaxCount
        /\ collector.cpu.busy \in 0..MaxTicks /\ collector.cpu.idle \in 0..MaxCount
        /\ busy <= since.busy
    BY <1>3 DEF CountersInv
  <2>2. /\ busy \in Int /\ grown \in Int /\ busy <= MaxTicks
        /\ grown <= MaxCount /\ 0 - grown <= MaxCount /\ total = busy + grown
    BY <2>1, CounterTypes
  <2>3. idle = grown % Word
    OBVIOUS
  <2>4. /\ total <= 0 => CpuUsage(r) = NoRatio
        /\ ~ (total <= 0) => /\ CpuUsage(r).part = IF idle > total THEN 0 ELSE total - idle
                            /\ CpuUsage(r).whole = total
    BY <1>3 DEF CpuUsage
  <2>5. busy <= since.busy
    BY <2>1
  <2> HIDE DEF busy, grown, total, idle
  <2>6. CASE total <= 0
    BY <1>1, <2>4, <2>6 DEF NoRatio, Ratio
  <2>7. CASE ~ (total <= 0) /\ 0 <= grown
    <3>1. idle = grown
      BY <2>2, <2>3, <2>7, CounterTypes, SmallDifference
    <3> QED
      BY <1>1, <2>2, <2>4, <2>5, <2>7, <3>1 DEF Ratio
  <2>8. CASE ~ (total <= 0) /\ ~ (0 <= grown)
    <3>1. idle = Word + grown
      <4> DEFINE back == 0 - grown
      <4>1. back \in Nat /\ 0 < back /\ back < Word /\ grown = 0 - back
        BY <2>2, <2>8, CounterTypes
      <4> HIDE DEF back
      <4>2. (0 - back) % Word = Word - back
        BY <4>1, CounterTypes, WrappedDifference
      <4>3. idle = Word - back
        BY <2>3, <4>1, <4>2
      <4> QED
        BY <2>2, <4>1, <4>3, CounterTypes
    <3>2. idle > total
      BY <2>2, <2>8, <3>1, CounterTypes
    <3> QED
      BY <1>1, <2>2, <2>4, <2>8, <3>2 DEF Ratio
  <2> QED
    BY <2>6, <2>7, <2>8
<1> QED
  BY <1>2, <1>3

LEMMA RatesAreTraffic ==
  ASSUME CountersInv, NEW r, NEW i \in Interfaces, NEW d \in Directions
  PROVE  Interface(r, i).rates[d] <= since.net[i][d] /\ Interface(r, i).name = i
<1>1. since.net[i][d] \in Nat
  BY DEF CountersInv
<1>2. CASE ~ HasRates(r, i)
  BY <1>1, <1>2, CounterTypes DEF Interface
<1>3. CASE HasRates(r, i)
  <2> DEFINE difference == host.net[i][d] - collector.net[i][d]
  <2>1. /\ collector.net[i] # Gone /\ host.net[i][d] >= collector.net[i][d]
        /\ host.net[i] # Gone
    <3>1. host.net[i][d] # None
      BY <1>3 DEF HasRates, Both, Counter
    <3> QED
      BY <1>3, <3>1, CounterTypes DEF HasRates, None
  <2>2. host.net[i][d] \in 0..MaxCount /\ collector.net[i][d] \in 0..MaxCount
    BY <2>1 DEF CountersInv, NetCounters
  <2>3. difference \in Nat /\ difference < Word /\ difference <= since.net[i][d]
    <3>1. difference <= since.net[i][d]
      BY <2>1 DEF CountersInv
    <3> QED
      BY <2>1, <2>2, <3>1, CounterTypes
  <2>4. difference % Word = difference
    <3> HIDE DEF difference
    <3> QED
      BY <2>3, CounterTypes, SmallDifference
  <2>5. Interface(r, i).rates[d] = difference % Word /\ Interface(r, i).name = i
    BY <1>3 DEF Interface
  <2> QED
    BY <2>3, <2>4, <2>5
<1> QED
  BY <1>2, <1>3
-----------------------------------------------------------------------------
(* The order of the interfaces *)

Orders(s) == \A j, k \in DOMAIN s : j < k => s[j] < s[k]

Orderable(S) == \E s \in [1..Cardinality(S) -> S] : Orders(s)

LEMMA LeastNumber ==
  ASSUME NEW S \in SUBSET Nat, S # {}
  PROVE  \E least \in S : \A n \in S : least <= n
<1>1. PICK least \in S : \A n \in S : ~ (<<n, least>> \in OpToRel(<, Nat))
  BY NatLessThanWellFounded, WFMin
<1>2. \A n \in S : ~ (n < least)
  BY <1>1 DEF OpToRel
<1> QED
  BY <1>2

\* Put the least number in front of the others in their order.
LEMMA OneMoreOrderable ==
  ASSUME NEW S \in SUBSET Nat, IsFiniteSet(S), NEW least \in S, \A n \in S : least <= n,
         Orderable(S \ {least})
  PROVE  Orderable(S)
<1> DEFINE rest == S \ {least}
           size == Cardinality(rest)
<1>1. IsFiniteSet(rest) /\ size \in Nat /\ Cardinality(S) = size + 1
  <2>1. IsFiniteSet(rest) /\ size = Cardinality(S) - 1
    BY FS_RemoveElement
  <2>2. Cardinality(S) \in Nat
    BY FS_CardinalityType
  <2>3. size \in Nat
    BY <2>1, FS_CardinalityType
  <2> HIDE DEF rest, size
  <2> QED
    BY <2>1, <2>2, <2>3
<1>2. PICK s \in [1..size -> rest] : Orders(s)
  BY DEF Orderable
<1>3. \A j, k \in 1..size : s[j] \in rest /\ (j < k => s[j] < s[k])
  BY <1>2 DEF Orders
<1>4. \A n \in rest : n \in Nat /\ least < n
  OBVIOUS
<1> HIDE DEF rest, size
<1> DEFINE longer == [k \in 1..(size + 1) |-> IF k = 1 THEN least ELSE s[k - 1]]
<1>5. \A k \in 1..(size + 1) : k # 1 => k - 1 \in 1..size
  BY <1>1
<1>6. longer \in [1..(size + 1) -> S]
  BY <1>3, <1>5 DEF rest
<1>7. ASSUME NEW j \in 1..(size + 1), NEW k \in 1..(size + 1), j < k
      PROVE  longer[j] < longer[k]
  <2>1. k # 1 /\ k - 1 \in 1..size /\ longer[k] = s[k - 1]
    BY <1>1, <1>5, <1>7
  <2>2. CASE j = 1
    BY <1>3, <1>4, <2>1, <2>2
  <2>3. CASE j # 1
    <3>1. j - 1 \in 1..size /\ j - 1 < k - 1 /\ longer[j] = s[j - 1]
      BY <1>1, <1>5, <1>7, <2>3
    <3> QED
      BY <1>3, <2>1, <3>1
  <2> QED
    BY <2>2, <2>3
<1>8. Orders(longer)
  BY <1>7 DEF Orders
<1> HIDE DEF longer
<1> QED
  BY <1>1, <1>6, <1>8 DEF Orderable

LEMMA FiniteOrderable ==
  ASSUME NEW S \in SUBSET Nat, IsFiniteSet(S)
  PROVE  Orderable(S)
<1> DEFINE bad == {n \in Nat : \E T \in SUBSET Nat :
                     IsFiniteSet(T) /\ Cardinality(T) = n /\ ~ Orderable(T)}
<1> SUFFICES ASSUME ~ Orderable(S)
             PROVE  FALSE
  OBVIOUS
<1>1. Cardinality(S) \in bad
  BY FS_CardinalityType
<1>2. PICK n \in bad : \A m \in bad : n <= m
  <2>1. bad \in SUBSET Nat /\ bad # {}
    BY <1>1
  <2> HIDE DEF bad
  <2> QED
    BY <2>1, LeastNumber
<1>3. PICK T \in SUBSET Nat : IsFiniteSet(T) /\ Cardinality(T) = n /\ ~ Orderable(T)
  OBVIOUS
<1>4. CASE T = {}
  <2>1. Cardinality(T) = 0
    BY <1>4, FS_EmptySet
  <2> DEFINE none == [k \in 1..0 |-> k]
  <2>2. none \in [1..0 -> T] /\ Orders(none)
    BY DEF Orders
  <2> HIDE DEF none
  <2> QED
    BY <1>3, <2>1, <2>2 DEF Orderable
<1>5. CASE T # {}
  <2>1. PICK least \in T : \A m \in T : least <= m
    BY <1>5, LeastNumber
  <2> DEFINE U == T \ {least}
  <2>2. IsFiniteSet(U) /\ Cardinality(U) = n - 1 /\ n \in Nat /\ n - 1 \in Nat
    <3>1. IsFiniteSet(U) /\ Cardinality(U) = Cardinality(T) - 1
      BY <1>3, FS_RemoveElement
    <3>2. Cardinality(U) \in Nat
      BY <3>1, FS_CardinalityType
    <3> QED
      BY <1>3, <3>1, <3>2
  <2>3. n - 1 \notin bad
    BY <1>2, <2>2
  <2>4. Orderable(U)
    BY <2>2, <2>3
  <2> QED
    BY <1>3, <2>1, <2>4, OneMoreOrderable
<1> QED
  BY <1>4, <1>5

LEMMA InOrderHoldsElements ==
  ASSUME NEW S \in SUBSET Nat, IsFiniteSet(S)
  PROVE  InOrder(S) \in [1..Cardinality(S) -> S] /\ Orders(InOrder(S))
BY FiniteOrderable DEF Orderable, Orders, InOrder
-----------------------------------------------------------------------------
(* Nothing is overstated *)

LEMMA CollectedIsTrue ==
  ASSUME CountersInv, NEW r, Collect(r)
  PROVE  /\ snapshot'.usage.part <= since.busy
         /\ \A k \in DOMAIN snapshot'.interfaces, d \in Directions :
              LET interface == snapshot'.interfaces[k]
              IN interface.rates[d] <= since.net[interface.name][d]
<1> DEFINE reported == {i \in Visited(r) : Useful(r, i)}
           order == InOrder(reported)
<1>1. reported \in SUBSET Interfaces
  BY DEF Visited, Listed
<1>2. reported \in SUBSET Nat /\ IsFiniteSet(reported)
  BY <1>1, CounterTypes, FS_Subset
<1>3. /\ snapshot'.usage = CpuUsage(r)
      /\ snapshot'.interfaces = [k \in DOMAIN order |-> Interface(r, order[k])]
  BY DEF Collect, Metrics, NetworkInterfaces
<1> HIDE DEF reported
<1>4. \A k \in DOMAIN order : order[k] \in Interfaces
  BY <1>1, <1>2, InOrderHoldsElements
<1> HIDE DEF order
<1>5. ASSUME NEW k \in DOMAIN snapshot'.interfaces, NEW d \in Directions
      PROVE  snapshot'.interfaces[k].rates[d] <= since.net[snapshot'.interfaces[k].name][d]
  <2>1. snapshot'.interfaces[k] = Interface(r, order[k]) /\ order[k] \in Interfaces
    BY <1>3, <1>4
  <2> QED
    BY <2>1, RatesAreTraffic
<1> QED
  BY <1>3, <1>5, UsageIsBusy

LEMMA StepKeepsCounters ==
  ASSUME CountersInv, [HostNext]_hostVars
  PROVE  CountersInv'
<1>1. CASE UNCHANGED <<host, collector, since>>
  BY <1>1 DEF CountersInv
<1>2. CASE ProcessEnds
  BY <1>2, RestartedCounters DEF ProcessEnds
<1>3. ASSUME NEW r \in Readings, Collect(r)
      PROVE  CountersInv'
  BY <1>3, CollectKeepsCounters
<1>4. CASE HostStep
  BY <1>4, HostStepKeepsCounters
<1> QED
  BY <1>1, <1>2, <1>3, <1>4
     DEF HostNext, IdentityStep, IdentityFault, CollectStep, Collects, HostMoves, Delivered,
         hostVars, collectorVars

\* No rate and no usage exceeds what happened since the collection it is measured from,
\* whichever interfaces vanish or return and however often the process restarts.
THEOREM HostNeverOverstated == HostSpec => NeverOverstated
<1> DEFINE True == snapshot = <<>> /\ snapshot' # <<>> =>
                     /\ snapshot'.usage.part <= since.busy
                     /\ \A k \in DOMAIN snapshot'.interfaces, d \in Directions :
                          LET interface == snapshot'.interfaces[k]
                          IN interface.rates[d] <= since.net[interface.name][d]
<1>1. HostInit => CountersInv
  BY CounterTypes DEF HostInit, CollectorInit, Idle, Forgotten, CountersInv, NetCounters
<1>2. CountersInv /\ [HostNext]_hostVars => CountersInv'
  BY StepKeepsCounters
<1>3. ASSUME CountersInv, [HostNext]_hostVars
      PROVE  [True]_collectorVars
  <2>1. CASE snapshot' \in {snapshot, <<>>}
    BY <2>1
  <2>2. ASSUME NEW r \in Readings, Collect(r)
        PROVE  True
    BY <1>3, <2>2, CollectedIsTrue
  <2>3. \/ snapshot' \in {snapshot, <<>>}
        \/ \E r \in Readings : Collect(r)
    BY <1>3 DEF HostNext, IdentityStep, IdentityFault, CollectStep, Collects, HostMoves,
                Delivered, ProcessEnds, Restarted, HostStep, hostVars, collectorVars
  <2> QED
    BY <2>1, <2>2, <2>3
<1> QED
  BY <1>1, <1>2, <1>3, PTL DEF HostSpec, NeverOverstated
-----------------------------------------------------------------------------
(* What the decoder accepts *)

\* No two entries have one name.
Distinct(s) == \A j, k \in 1..Len(s) : s[j].name = s[k].name => j = k

IsList(s) == Len(s) \in Nat /\ DOMAIN s = 1..Len(s)

LEMMA SeqIsList ==
  ASSUME NEW S, NEW s \in Seq(S)
  PROVE  IsList(s)
BY LenProperties DEF IsList

LEMMA FirstOfList ==
  ASSUME NEW s, IsList(s), NEW n \in Nat
  PROVE  /\ IsList(FirstOf(s, n)) /\ Len(FirstOf(s, n)) <= n /\ Len(FirstOf(s, n)) <= Len(s)
         /\ \A i \in 1..Len(FirstOf(s, n)) : FirstOf(s, n)[i] = s[i]
<1> DEFINE m == IF Len(s) < n THEN Len(s) ELSE n
           elements == {s[i] : i \in 1..m}
           first == SubSeq(s, 1, m)
<1>1. m \in Nat /\ m <= n /\ m <= Len(s)
  BY DEF IsList
<1>2. \A i \in 1..m : s[i] \in elements
  OBVIOUS
<1>3. FirstOf(s, n) = first
  BY DEF FirstOf
<1> HIDE DEF m, elements
<1>4. /\ first \in Seq(elements) /\ Len(first) = IF 1 <= m THEN m - 1 + 1 ELSE 0
      /\ \A i \in 1..(m - 1 + 1) : first[i] = s[1 + i - 1]
  BY <1>1, <1>2, SubSeqProperties
<1> HIDE DEF first
<1>5. Len(first) = m
  BY <1>1, <1>4
<1>6. \A i \in 1..m : first[i] = s[i]
  <2> TAKE i \in 1..m
  <2>1. i \in 1..(m - 1 + 1) /\ 1 + i - 1 = i
    BY <1>1
  <2> QED
    BY <1>4, <2>1
<1>7. IsList(first)
  BY <1>4, SeqIsList
<1> QED
  BY <1>1, <1>3, <1>5, <1>6, <1>7

LEMMA FirstNamed ==
  ASSUME NEW s, IsList(s), Distinct(s), \A k \in 1..Len(s) : s[k].name \in Texts, NEW n \in Nat
  PROVE  Named(FirstOf(s, n), n)
<1> DEFINE first == FirstOf(s, n)
<1>1. /\ IsList(first) /\ Len(first) <= n /\ Len(first) <= Len(s)
      /\ \A i \in 1..Len(first) : first[i] = s[i]
  BY FirstOfList
<1> HIDE DEF first
<1>2. \A i \in 1..Len(first) : i \in 1..Len(s)
  BY <1>1 DEF IsList
<1>3. \A i \in DOMAIN first : first[i].name \in Texts
  BY <1>1, <1>2 DEF IsList
<1>4. ASSUME NEW j \in 1..Len(first), NEW k \in 1..Len(first), first[j].name = first[k].name
      PROVE  j = k
  BY <1>1, <1>2, <1>4 DEF Distinct
<1>5. Named(first, n)
  BY <1>1, <1>3, <1>4 DEF Named, NamesDiffer, IsInjective, IsList
<1> QED
  BY <1>5 DEF first

\* InOrder(S) is a list of the elements of S without repetition.
LEMMA InOrderList ==
  ASSUME NEW S \in SUBSET Nat, IsFiniteSet(S)
  PROVE  /\ InOrder(S) \in Seq(S) /\ IsList(InOrder(S)) /\ Len(InOrder(S)) = Cardinality(S)
         /\ \A j, k \in 1..Cardinality(S) : j < k => InOrder(S)[j] < InOrder(S)[k]
         /\ \A j, k \in 1..Cardinality(S) : InOrder(S)[j] = InOrder(S)[k] => j = k
<1> DEFINE s == InOrder(S)
           n == Cardinality(S)
<1>1. n \in Nat
  BY FS_CardinalityType
<1>2. s \in [1..n -> S] /\ Orders(s)
  BY InOrderHoldsElements
<1> HIDE DEF s, n
<1>3. s \in Seq(S) /\ Len(s) = n
  BY <1>1, <1>2
<1>4. \A j, k \in 1..n : j < k => s[j] < s[k]
  BY <1>2 DEF Orders
<1>5. ASSUME NEW j \in 1..n, NEW k \in 1..n, s[j] = s[k]
      PROVE  j = k
  <2>1. s[j] \in Nat /\ s[k] \in Nat
    BY <1>2
  <2> QED
    BY <1>1, <1>4, <1>5, <2>1
<1>6. IsList(s)
  BY <1>3, SeqIsList
<1> QED
  BY <1>3, <1>4, <1>5, <1>6 DEF s, n

\* Amounts of memory, of swap as of the main one.
LEMMA MemoryDecodes ==
  ASSUME NEW total \in Nat \cup {None}, NEW available \in Nat \cup {None}
  PROVE  /\ Integral(Within(total)) /\ Within(total) \in Nat \cup {None}
         /\ Integral(Share(available, total)) /\ PartOf(Share(available, total), total)
<1>1. WireMax \in Nat /\ None = -1
  BY CodecAssumption DEF None
<1> QED
  BY <1>1 DEF Share, Within, PartOf, Integral

LEMMA NumbersDecode ==
  ASSUME NEW r
  PROVE  /\ \A found : Finite(Number(found))
         /\ Finite(Load(r))
BY DEF Finite, Number, Load

LEMMA InterfacesDecode ==
  ASSUME CountersInv, NEW r
  PROVE  /\ Named(NetworkInterfaces(r), MaxInterfaces)
         /\ \A k \in DOMAIN NetworkInterfaces(r) :
              Integral(NetworkInterfaces(r)[k].rx) /\ Integral(NetworkInterfaces(r)[k].tx)
<1> DEFINE reported == {i \in Visited(r) : Useful(r, i)}
           order == InOrder(reported)
           n == Cardinality(reported)
           list == [k \in DOMAIN order |-> Interface(r, order[k])]
<1>1. list = NetworkInterfaces(r)
  BY DEF NetworkInterfaces
<1>2. reported \in SUBSET Interfaces /\ reported \in SUBSET Nat /\ IsFiniteSet(reported)
  BY CounterTypes, FS_Subset DEF Visited, Listed
<1>3. \A i \in reported :
        /\ Useful(r, i)
        /\ i \in Listed
        /\ Cardinality({j \in Listed : j < i /\ Useful(r, j)}) < MaxInterfaces
  BY DEF Visited
<1> HIDE DEF reported
<1>4. /\ order \in Seq(reported) /\ IsList(order) /\ Len(order) = n /\ n \in Nat
      /\ \A j, k \in 1..n : j < k => order[j] < order[k]
      /\ \A j, k \in 1..n : order[j] = order[k] => j = k
  BY <1>2, InOrderList, FS_CardinalityType
<1> HIDE DEF order
<1>5. /\ DOMAIN order = 1..n /\ \A k \in 1..n : order[k] \in reported
  BY <1>4, LenProperties
<1>6. MaxInterfaces \in Nat /\ MaxInterfaces > 0 /\ WireMax \in Nat
  BY CodecAssumption
<1>7. n <= MaxInterfaces
  <2> SUFFICES ASSUME n > MaxInterfaces
               PROVE  FALSE
    BY <1>4, <1>6
  <2> DEFINE last == order[n]
             before == {j \in Listed : j < last /\ Useful(r, j)}
             rest == reported \ {last}
  <2>1. n \in 1..n /\ last \in reported
    BY <1>4, <1>5, <1>6
  <2>2. IsFiniteSet(rest) /\ Cardinality(rest) = n - 1
    BY <1>2, <2>1, FS_RemoveElement
  <2>3. \A i \in reported : \E k \in 1..n : order[k] = i
    <3>1. order \in Injection(1..n, reported)
      BY <1>4, <1>5 DEF Injection, IsInjective
    <3>2. /\ IsFiniteSet(1..n) /\ Cardinality(1..n) = n
      BY <1>4, FS_Interval
    <3>3. order \in Surjection(1..n, reported)
      BY <1>2, <3>1, <3>2, FS_Injection
    <3> QED
      BY <3>3 DEF Surjection
  <2>4. rest \in SUBSET before
    <3> SUFFICES ASSUME NEW i \in rest
                 PROVE  i \in before
      OBVIOUS
    <3>1. PICK k \in 1..n : order[k] = i
      BY <2>3
    <3>2. k # n
      BY <3>1
    <3>3. k < n
      BY <1>4, <3>2
    <3>4. i < last
      BY <1>4, <2>1, <3>1, <3>3
    <3> QED
      BY <1>2, <1>3, <3>4
  <2>5. IsFiniteSet(before) /\ Cardinality(before) \in Nat
    BY CounterTypes, FS_Subset, FS_CardinalityType DEF Listed
  <2>6. n - 1 <= Cardinality(before)
    BY <2>2, <2>4, <2>5, FS_Subset
  <2>7. Cardinality(before) < MaxInterfaces
    BY <1>3, <2>1
  <2> HIDE DEF before
  <2> QED
    BY <1>4, <1>6, <2>5, <2>6, <2>7
<1>8. \A k \in 1..n : list[k] = Interface(r, order[k])
  BY <1>5
<1>9. DOMAIN list = 1..n /\ Len(list) = n
  BY <1>4, <1>5
<1> HIDE DEF list
<1>10. ASSUME NEW k \in 1..n
       PROVE  list[k].name = order[k] /\ Integral(list[k].rx) /\ Integral(list[k].tx)
  <2>1. order[k] \in Interfaces
    BY <1>2, <1>5
  <2>2. \A d \in Directions : Counter(r, order[k], d) \in Nat \cup {None}
    <3> TAKE d \in Directions
    <3>1. host.net[order[k]] = Gone \/ host.net[order[k]] \in [Directions -> 0..MaxCount]
      BY <2>1 DEF CountersInv, NetCounters
    <3>2. host.net[order[k]][d] \in Nat \cup {None}
      BY <3>1, CounterTypes DEF None
    <3> QED
      BY <3>2 DEF Counter
  <2>3. \A d \in Directions : Integral(Within(Counter(r, order[k], d)))
    BY <1>6, <2>2 DEF Within, Integral, None
  <2> QED
    <3>1. list[k] = Interface(r, order[k])
      BY <1>8
    <3>2. /\ list[k].name = order[k]
          /\ list[k].rx = Within(Counter(r, order[k], "rx"))
          /\ list[k].tx = Within(Counter(r, order[k], "tx"))
      BY <3>1 DEF Interface
    <3>3. "rx" \in Directions /\ "tx" \in Directions
      BY DEF Directions
    <3> QED
      BY <2>3, <3>2, <3>3
<1>11. \A k \in 1..n : order[k] \in Texts
  BY <1>3, <1>5 DEF Listed
<1>12. Named(list, MaxInterfaces)
  BY <1>4, <1>7, <1>9, <1>10, <1>11 DEF Named, NamesDiffer, IsInjective
<1> QED
  BY <1>1, <1>9, <1>10, <1>12

LEMMA VolumesDecode ==
  ASSUME NEW r \in Readings
  PROVE  /\ Named(StorageVolumes(r), MaxVolumes)
         /\ \A k \in DOMAIN StorageVolumes(r) : Volume(StorageVolumes(r)[k])
<1> DEFINE points == {m.point : m \in Mounts(r)}
           usable == {p \in points :
                        r.volume[p].total \in 1..WireMax /\ r.volume[p].available <= r.volume[p].total}
           order == InOrder(usable)
           n == Cardinality(usable)
           list == [k \in DOMAIN order |-> StorageVolume(r, order[k])]
           first == FirstOf(list, MaxVolumes)
<1>1. first = StorageVolumes(r)
  BY DEF StorageVolumes
<1>2. MaxVolumes \in Nat /\ WireMax \in Nat
  BY CodecAssumption
<1>3. usable \in SUBSET Nat /\ IsFiniteSet(usable)
  <2>1. IsFiniteSet(r.mounts) /\ \A m \in r.mounts : m.point \in Nat
    BY ReadingsAssumption
  <2>2. IsFiniteSet(Mounts(r)) /\ \A m \in Mounts(r) : m.point \in Nat
    BY <2>1, FS_Subset DEF Mounts
  <2>3. points \in SUBSET Nat /\ IsFiniteSet(points)
    <3> DEFINE at == [m \in Mounts(r) |-> m.point]
    <3>1. at \in Surjection(Mounts(r), points)
      BY DEF Surjection
    <3> QED
      BY <2>2, <3>1, FS_Surjection
  <2> QED
    BY <2>3, FS_Subset
<1>4. ASSUME NEW p \in usable
      PROVE  p \in Texts /\ Volume(StorageVolume(r, p))
  <2> DEFINE m == CHOOSE m \in Mounts(r) : m.point = p
  <2>1. m \in Mounts(r) /\ m.point = p
    OBVIOUS
  <2>2. StorageVolume(r, p) = [name |-> p, device |-> m.device,
                               total |-> r.volume[p].total, available |-> r.volume[p].available]
    BY DEF StorageVolume
  <2> HIDE DEF m
  <2>3. m.device \in Texts /\ p \in Texts /\ m \in r.mounts
    BY <2>1 DEF Mounts
  <2>4. /\ r.volume[p].total \in 1..WireMax /\ r.volume[p].available \in Nat
        /\ r.volume[p].available <= r.volume[p].total
    BY <2>1, <2>3, ReadingsAssumption
  <2>5. /\ Integral(r.volume[p].total) /\ Integral(r.volume[p].available)
        /\ PartOf(r.volume[p].available, r.volume[p].total)
    BY <1>2, <2>4 DEF Integral, PartOf
  <2> QED
    BY <2>2, <2>3, <2>5 DEF Volume
<1> HIDE DEF usable
<1>5. /\ order \in Seq(usable) /\ IsList(order) /\ Len(order) = n /\ n \in Nat
      /\ \A j, k \in 1..n : order[j] = order[k] => j = k
  BY <1>3, InOrderList, FS_CardinalityType
<1> HIDE DEF order
<1>6. /\ DOMAIN order = 1..n /\ \A k \in 1..n : order[k] \in usable
  BY <1>5, LenProperties
<1>7. /\ DOMAIN list = 1..n /\ Len(list) = n
      /\ \A k \in 1..n : list[k] = StorageVolume(r, order[k])
  BY <1>5, <1>6
<1> HIDE DEF list
<1>8. /\ IsList(list)
      /\ \A k \in 1..n : list[k].name = order[k] /\ list[k].name \in Texts /\ Volume(list[k])
  BY <1>4, <1>5, <1>6, <1>7 DEF IsList, StorageVolume
<1>9. Distinct(list)
  BY <1>5, <1>7, <1>8 DEF Distinct
<1>10. /\ IsList(first) /\ Len(first) <= n
       /\ \A k \in 1..Len(first) : first[k] = list[k]
       /\ Named(first, MaxVolumes)
  BY <1>2, <1>7, <1>8, <1>9, FirstOfList, FirstNamed
<1> HIDE DEF first
<1>11. \A k \in DOMAIN first : k \in 1..Len(first) /\ k \in 1..n
  BY <1>5, <1>10 DEF IsList
<1> QED
  BY <1>1, <1>8, <1>10, <1>11

\* The clamped usage of a Raspberry Pi's graphics processor.
LEMMA GpuUsageIsRatio ==
  ASSUME CountersInv, NEW r \in Readings
  PROVE  Ratio(GpuUsage(r))
<1>1. CASE r.v3d # "platform" \/ r.stats = <<>> \/ collector.gpu = <<>>
  BY <1>1 DEF GpuUsage, Ratio
<1>2. CASE ~ (r.v3d # "platform" \/ r.stats = <<>> \/ collector.gpu = <<>>)
  <2> DEFINE run == r.stats.run - collector.gpu.run
             time == r.stats.time - collector.gpu.time
  <2>1. r.stats.run \in Nat /\ r.stats.time \in Nat
    BY <1>2, ReadingsAssumption
  <2>2. run \in Int /\ time \in Int
    BY <1>2, <2>1 DEF CountersInv
  <2>3. /\ time <= 0 \/ run < 0 => GpuUsage(r) = NoRatio
        /\ ~ (time <= 0 \/ run < 0) => /\ GpuUsage(r).part = IF run > time THEN time ELSE run
                                      /\ GpuUsage(r).whole = time
    BY <1>2 DEF GpuUsage
  <2> HIDE DEF run, time
  <2> QED
    BY <2>2, <2>3 DEF Ratio
<1> QED
  BY <1>1, <1>2

LEMMA EntryDecodes ==
  ASSUME NEW name \in Texts, NEW usage, Ratio(usage), NEW clock,
         NEW temperature, Finite(temperature)
  PROVE  /\ GpuEntry(name, usage, clock, temperature).name \in Texts
         /\ Gpu(GpuEntry(name, usage, clock, temperature))
<1>1. Integral(Clock(clock)) /\ Integral(None)
  BY CodecAssumption DEF Integral, Clock
<1> QED
  BY <1>1 DEF GpuEntry, Gpu, PartOf

LEMMA CardDecodes ==
  ASSUME NEW c, c.vendor \in Texts
  PROVE  CardEntry(c).name \in Texts /\ Gpu(CardEntry(c))
<1> DEFINE usage == IF c.percent \in 0..100 THEN [part |-> c.percent, whole |-> 100] ELSE NoRatio
<1>1. Ratio(usage)
  BY DEF Ratio
<1>2. Finite("absent")
  BY DEF Finite
<1> HIDE DEF usage
<1>3. CardEntry(c) = GpuEntry(c.vendor, usage, c.clock, "absent")
  BY DEF CardEntry, usage
<1> QED
  BY <1>1, <1>2, <1>3, EntryDecodes

\* Everything about the graphics processors but that no two have one name.
LEMMA GpusDecode ==
  ASSUME CountersInv, NEW r \in Readings
  PROVE  /\ Len(Gpus(r)) <= MaxGpus
         /\ \A k \in DOMAIN Gpus(r) : Gpus(r)[k].name \in Texts /\ Gpu(Gpus(r)[k])
<1>1. MaxGpus \in Nat /\ MaxGpus > 0 /\ V3D \in Texts
  BY CodecAssumption, CollectorAssumption
<1>2. CASE r.v3d # "none"
  <2> DEFINE entry == GpuEntry(V3D, GpuUsage(r), r.clock, Number(r.gpuZones))
  <2>1. Gpus(r) = <<entry>>
    BY <1>2 DEF Gpus
  <2>2. entry.name \in Texts /\ Gpu(entry)
    BY <1>1, EntryDecodes, GpuUsageIsRatio, NumbersDecode
  <2> HIDE DEF entry
  <2> QED
    BY <1>1, <2>1, <2>2
<1>3. CASE r.v3d = "none"
  <2> DEFINE chosen(metric) == {k \in DOMAIN r.cards : HasMetric(r.cards[k]) = metric}
             with == InOrder(chosen(TRUE))
             without == InOrder(chosen(FALSE))
             order == with \o without
             list == [k \in DOMAIN order |-> CardEntry(r.cards[order[k]])]
             first == FirstOf(list, MaxGpus)
             indices == DOMAIN r.cards
  <2>1. Gpus(r) = first
    BY <1>3 DEF Gpus
  <2>2. /\ indices \in SUBSET Nat /\ IsFiniteSet(indices)
        /\ \A k \in indices : r.cards[k].vendor \in Texts
    <3>1. /\ Len(r.cards) \in Nat /\ DOMAIN r.cards = 1..Len(r.cards)
          /\ \A k \in DOMAIN r.cards : r.cards[k].vendor \in Texts
      BY ReadingsAssumption
    <3> QED
      BY <3>1, FS_Interval
  <2>3. chosen(TRUE) \in SUBSET indices /\ chosen(FALSE) \in SUBSET indices
    OBVIOUS
  <2> DEFINE some == chosen(TRUE)
             other == chosen(FALSE)
  <2>4. /\ with = InOrder(some) /\ some \in SUBSET indices
        /\ without = InOrder(other) /\ other \in SUBSET indices
    BY <2>3
  <2> HIDE DEF some, other, chosen, indices, with, without
  <2>5. /\ some \in SUBSET Nat /\ IsFiniteSet(some)
        /\ other \in SUBSET Nat /\ IsFiniteSet(other)
    BY <2>2, <2>4, FS_Subset
  <2>6. with \in Seq(indices) /\ without \in Seq(indices)
    <3>1. with \in Seq(some) /\ without \in Seq(other)
      BY <2>4, <2>5, InOrderList
    <3> QED
      BY <2>4, <3>1
  <2>7. order \in Seq(indices)
    BY <2>6, ConcatProperties
  <2> HIDE DEF order
  <2>8. /\ DOMAIN order = 1..Len(order) /\ Len(order) \in Nat
        /\ \A k \in DOMAIN order : order[k] \in indices
    BY <2>7, LenProperties
  <2>9. /\ DOMAIN list = 1..Len(order) /\ Len(list) = Len(order)
        /\ \A k \in 1..Len(order) : list[k] = CardEntry(r.cards[order[k]])
    BY <2>8
  <2> HIDE DEF list
  <2>10. \A k \in 1..Len(list) : list[k].name \in Texts /\ Gpu(list[k])
    BY <2>2, <2>8, <2>9, CardDecodes
  <2>11. IsList(list)
    BY <2>8, <2>9 DEF IsList
  <2>12. /\ IsList(first) /\ Len(first) <= MaxGpus /\ Len(first) <= Len(list)
         /\ \A k \in 1..Len(first) : first[k] = list[k]
    BY <1>1, <2>11, FirstOfList
  <2> HIDE DEF first
  <2>13. \A k \in DOMAIN first : k \in 1..Len(first) /\ k \in 1..Len(list)
    BY <2>11, <2>12 DEF IsList
  <2> QED
    BY <2>1, <2>10, <2>12, <2>13
<1> QED
  BY <1>2, <1>3

\* What one collection yields is decoded unless two entries for graphics processors have
\* one name.
LEMMA MetricsDecode ==
  ASSUME CountersInv, NEW r \in Readings, NamesDiffer(Gpus(r))
  PROVE  MetricsFromMap(Metrics(r))
<1> DEFINE m == Metrics(r)
<1>1. /\ m.usage = CpuUsage(r) /\ m.temperature = Number(r.cpuZones)
      /\ m.uptime = Number({r.uptime}) /\ m.load = Load(r)
      /\ m.total = MemoryTotal(r) /\ m.available = Share(r.available, MemoryTotal(r))
      /\ m.swapTotal = Within(r.swapTotal)
      /\ m.swapAvailable = Share(r.swapAvailable, Within(r.swapTotal))
      /\ m.interfaces = NetworkInterfaces(r) /\ m.volumes = StorageVolumes(r) /\ m.gpus = Gpus(r)
  BY DEF Metrics
<1> HIDE DEF m
<1>2. Ratio(m.usage)
  BY <1>1, UsageIsBusy
<1>3. \A kind \in {m.temperature, m.uptime, m.load} : Finite(kind)
  BY <1>1, NumbersDecode
<1>4. /\ Integral(m.total) /\ Integral(m.available) /\ PartOf(m.available, m.total)
  <2>1. r.total \in Nat \cup {None} /\ r.available \in Nat \cup {None}
    BY ReadingsAssumption
  <2>2. MemoryTotal(r) \in Nat \cup {None} /\ Integral(MemoryTotal(r))
    <3>1. Integral(None)
      BY DEF Integral
    <3> QED
      BY <2>1, <3>1, MemoryDecodes DEF MemoryTotal
  <2> QED
    BY <1>1, <2>1, <2>2, MemoryDecodes
<1>5. /\ Integral(m.swapTotal) /\ Integral(m.swapAvailable) /\ PartOf(m.swapAvailable, m.swapTotal)
  <2>1. r.swapTotal \in Nat \cup {None} /\ r.swapAvailable \in Nat \cup {None}
    BY ReadingsAssumption
  <2>2. Within(r.swapTotal) \in Nat \cup {None} /\ Integral(Within(r.swapTotal))
    BY <2>1, MemoryDecodes
  <2> QED
    BY <1>1, <2>1, <2>2, MemoryDecodes
<1>6. /\ Named(m.interfaces, MaxInterfaces)
      /\ \A i \in DOMAIN m.interfaces : Integral(m.interfaces[i].rx) /\ Integral(m.interfaces[i].tx)
  BY <1>1, InterfacesDecode
<1>7. Named(m.volumes, MaxVolumes) /\ \A i \in DOMAIN m.volumes : Volume(m.volumes[i])
  BY <1>1, VolumesDecode
<1>8. Named(m.gpus, MaxGpus) /\ \A i \in DOMAIN m.gpus : Gpu(m.gpus[i])
  BY <1>1, GpusDecode DEF Named
<1>9. MetricsFromMap(m)
  BY <1>2, <1>3, <1>4, <1>5, <1>6, <1>7, <1>8 DEF MetricsFromMap
<1> QED
  BY <1>9 DEF m

\* Whatever a host reports, the dashboard decodes the metrics of its snapshot unless two
\* graphics cards in them are of one vendor: nothing else that the decoder tests is
\* passed on by the collector.
THEOREM HostRejectedOnlyForCards == HostSpec => []RejectedOnlyForRepeatedCard
<1> DEFINE Decodes == RejectedOnlyForRepeatedCard
<1>1. HostInit => CountersInv /\ Decodes
  BY CounterTypes DEF HostInit, CollectorInit, Idle, Forgotten, CountersInv, NetCounters,
                      RejectedOnlyForRepeatedCard
<1>2. CountersInv /\ Decodes /\ [HostNext]_hostVars => CountersInv' /\ Decodes'
  <2> SUFFICES ASSUME CountersInv, Decodes, [HostNext]_hostVars
               PROVE  CountersInv' /\ Decodes'
    OBVIOUS
  <2>1. ASSUME snapshot' \in {snapshot, <<>>}
        PROVE  Decodes'
    BY <2>1 DEF RejectedOnlyForRepeatedCard
  <2>2. ASSUME NEW r \in Readings, Collect(r)
        PROVE  Decodes'
    <3> SUFFICES ASSUME ~ MetricsFromMap(Metrics(r))
                 PROVE  \E j, k \in DOMAIN Metrics(r).gpus :
                          j # k /\ Metrics(r).gpus[j].name = Metrics(r).gpus[k].name
      BY <2>2 DEF Collect, RejectedOnlyForRepeatedCard
    <3>1. ~ NamesDiffer(Gpus(r))
      BY MetricsDecode
    <3>2. Metrics(r).gpus = Gpus(r)
      BY DEF Metrics
    <3> QED
      BY <3>1, <3>2 DEF NamesDiffer, IsInjective
  <2>3. \/ snapshot' \in {snapshot, <<>>}
        \/ \E r \in Readings : Collect(r)
    BY DEF HostNext, IdentityStep, IdentityFault, CollectStep, Collects, HostMoves, Delivered,
           ProcessEnds, Restarted, HostStep, hostVars, collectorVars
  <2> QED
    BY <2>1, <2>2, <2>3, StepKeepsCounters
<1> QED
  BY <1>1, <1>2, PTL DEF HostSpec
=============================================================================
