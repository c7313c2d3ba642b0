------------------------ MODULE ResourceHistoryProofs ------------------------
(***************************************************************************)
(* What holds of the local metrics service, its history and its chart for  *)
(* any window, any clock, any metrics and any number of collections.       *)
(***************************************************************************)
EXTENDS ResourceHistorySeries, SequenceTheorems, WellFoundedInduction, TLAPS

HistorySafety == HistoryInit /\ [][HistoryNext]_historyVars
-----------------------------------------------------------------------------
(* The service *)

ServiceFields ==
  {"state", "pending", "posted", "workers", "finished", "started", "elapsed"}

\* A result is either being collected or waits to be delivered, never both.
CollectingInv(s) ==
  /\ DOMAIN s = ServiceFields
  /\ s.elapsed \in Nat
  /\ s.finished \in BOOLEAN
  /\ s.workers \in {0, 1}
  /\ (s.state = "Collecting") <=> (s.workers = 1 \/ s.finished = TRUE)
  /\ s.workers = 1 => s.finished = FALSE

LEMMA RefreshKeepsCollecting ==
  ASSUME NEW s, CollectingInv(s)
  PROVE  CollectingInv(Refreshed(s)) /\ Refreshed(s).elapsed = s.elapsed
<1>1. CASE s.state = "Collecting"
  BY <1>1 DEF CollectingInv, Refreshed, ServiceFields
<1>2. CASE s.state # "Collecting"
  <2>1. s.workers = 0
    BY <1>2 DEF CollectingInv
  <2> DEFINE r == Refreshed(s)
  <2>2. /\ DOMAIN r = ServiceFields
        /\ r.state = "Collecting" /\ r.workers = 1 /\ r.finished = FALSE
        /\ r.elapsed = s.elapsed
    BY <1>2, <2>1 DEF CollectingInv, Refreshed, ServiceFields
  <2> HIDE DEF r
  <2>3. CollectingInv(r) /\ r.elapsed = s.elapsed
    BY <2>2 DEF CollectingInv
  <2> QED
    BY <2>3 DEF r
<1> QED
  BY <1>1, <1>2

LEMMA CompletedKeepsCollecting ==
  ASSUME NEW s, CollectingInv(s), s.finished = TRUE, NEW at \in Nat
  PROVE  CollectingInv(Completed(s, at)) /\ Completed(s, at).elapsed = at
BY DEF CollectingInv, Completed, ServiceFields

LEMMA WorkerKeepsCollecting ==
  ASSUME CollectingInv(service), WorkerReturns
  PROVE  CollectingInv(service') /\ service'.elapsed = service.elapsed
BY DEF CollectingInv, WorkerReturns, ServiceFields

LEMMA TimerKeepsCollecting ==
  ASSUME CollectingInv(service), TimerTimeout \/ QueuedRefresh
  PROVE  CollectingInv(service') /\ service'.elapsed = service.elapsed
<1>1. CASE TimerTimeout
  BY <1>1, RefreshKeepsCollecting DEF TimerTimeout
<1>2. CASE QueuedRefresh
  <2> DEFINE s == [service EXCEPT !.posted = FALSE]
  <2>1. CollectingInv(s) /\ s.elapsed = service.elapsed
    BY DEF CollectingInv, ServiceFields
  <2>2. service' = Refreshed(s)
    BY <1>2 DEF QueuedRefresh
  <2> HIDE DEF s
  <2> QED
    BY <2>1, <2>2, RefreshKeepsCollecting
<1> QED
  BY <1>1, <1>2
-----------------------------------------------------------------------------
(* Loops over the leading samples *)

LEMMA LeastNumber ==
  ASSUME NEW S \in SUBSET Nat, S # {}
  PROVE  \E least \in S : \A n \in S : least <= n
<1>1. PICK least \in S : \A n \in S : ~ (<<n, least>> \in OpToRel(<, Nat))
  BY NatLessThanWellFounded, WFMin
<1>2. \A n \in S : ~ (n < least)
  BY <1>1 DEF OpToRel
<1> QED
  BY <1>2

\* Such a loop stops, at the first sample that is not before the time.
LEMMA LeadingBeforeStops ==
  ASSUME NEW samples \in Seq(Sample), NEW time \in Int
  PROVE  /\ LeadingBefore(samples, time) \in 0..Len(samples)
         /\ \A i \in 1..LeadingBefore(samples, time) : samples[i].at < time
<1> DEFINE Stops(n) == /\ \A i \in 1..n : samples[i].at < time
                       /\ n < Len(samples) => samples[n + 1].at >= time
           inside == {i \in 1..Len(samples) : samples[i].at >= time}
<1>0. \A i \in 1..Len(samples) : samples[i].at \in Nat
  <2>1. \A i \in 1..Len(samples) : samples[i] \in Sample
    OBVIOUS
  <2> QED
    BY <2>1 DEF Sample
<1>1. \E n \in 0..Len(samples) : Stops(n)
  <2>1. CASE inside = {}
    BY <1>0, <2>1
  <2>2. CASE inside # {}
    <3>1. inside \in SUBSET Nat
      OBVIOUS
    <3>2. PICK least \in inside : \A n \in inside : least <= n
      BY <2>2, <3>1, LeastNumber
    <3>3. \A i \in 1..(least - 1) : samples[i].at < time
      BY <1>0, <3>2
    <3>4. Stops(least - 1)
      BY <1>0, <3>2, <3>3
    <3> QED
      BY <3>2, <3>4
  <2> QED
    BY <2>1, <2>2
<1>2. LeadingBefore(samples, time) = CHOOSE n \in 0..Len(samples) : Stops(n)
  BY DEF LeadingBefore
<1> HIDE DEF Stops
<1>3. /\ LeadingBefore(samples, time) \in 0..Len(samples)
      /\ Stops(LeadingBefore(samples, time))
  BY <1>1, <1>2
<1> QED
  BY <1>3 DEF Stops
-----------------------------------------------------------------------------
(* What the chart has of the samples seen *)

Sorted(samples) ==
  \A i, j \in 1..Len(samples) : i <= j => samples[i].at <= samples[j].at

\* The retained prefix and the samples of the model are the end of all samples; one that
\* is missing is older than a retained sample left of the window that ends at current.
Renders(prefix, samples, all, current) ==
  /\ prefix \in Seq(Sample) /\ samples \in Seq(Sample) /\ all \in Seq(Sample)
  /\ Len(prefix) + Len(samples) <= Len(all)
  /\ \A i \in 1..Len(prefix) : prefix[i] = all[Len(all) - Len(samples) - Len(prefix) + i]
  /\ \A i \in 1..Len(samples) : samples[i] = all[Len(all) - Len(samples) + i]
  /\ Len(prefix) + Len(samples) < Len(all) =>
       Len(prefix) > 0 /\ prefix[1].at < current - Window

LEMMA SampleAt ==
  ASSUME NEW samples \in Seq(Sample), NEW i \in 1..Len(samples)
  PROVE  samples[i] \in Sample /\ samples[i].at \in Nat
<1>1. samples[i] \in Sample
  OBVIOUS
<1> QED
  BY <1>1 DEF Sample

LEMMA WindowIsNumber == Window \in Nat /\ Window > 0
BY ServiceAssumption

LEMMA RendersLater ==
  ASSUME NEW prefix, NEW samples, NEW all, NEW current \in Nat, NEW later \in Nat,
         Renders(prefix, samples, all, current),
         later >= current \/ Len(prefix) + Len(samples) = Len(all)
  PROVE  Renders(prefix, samples, all, later)
<1>1. /\ prefix \in Seq(Sample) /\ samples \in Seq(Sample) /\ all \in Seq(Sample)
      /\ Len(prefix) \in Nat /\ Len(samples) \in Nat /\ Len(all) \in Nat
  BY DEF Renders
<1>2. Len(prefix) > 0 => prefix[1].at \in Nat
  BY <1>1, SampleAt
<1> QED
  BY <1>1, <1>2, WindowIsNumber DEF Renders

\* Samples the model removes move to the prefix.
LEMMA RendersCaptured ==
  ASSUME NEW prefix, NEW samples, NEW all, NEW current \in Nat,
         Renders(prefix, samples, all, current), NEW n \in 0..Len(samples)
  PROVE  Renders(prefix \o SubSeq(samples, 1, n), SubSeq(samples, n + 1, Len(samples)),
                 all, current)
<1> DEFINE removed == SubSeq(samples, 1, n)
           rest == SubSeq(samples, n + 1, Len(samples))
           captured == prefix \o removed
<1>1. /\ prefix \in Seq(Sample) /\ samples \in Seq(Sample) /\ all \in Seq(Sample)
      /\ Len(prefix) \in Nat /\ Len(samples) \in Nat /\ Len(all) \in Nat
      /\ Len(prefix) + Len(samples) <= Len(all)
  BY DEF Renders
<1>2. /\ removed \in Seq(Sample) /\ Len(removed) = n
      /\ \A i \in 1..n : removed[i] = samples[i]
  BY <1>1
<1>3. /\ rest \in Seq(Sample) /\ Len(rest) = Len(samples) - n
      /\ \A i \in 1..(Len(samples) - n) : rest[i] = samples[n + i]
  BY <1>1
<1> HIDE DEF removed, rest
<1>4. /\ captured \in Seq(Sample) /\ Len(captured) = Len(prefix) + n
      /\ \A i \in 1..Len(prefix) : captured[i] = prefix[i]
      /\ \A i \in (Len(prefix) + 1)..(Len(prefix) + n) : captured[i] = samples[i - Len(prefix)]
  <2>1. /\ captured \in Seq(Sample) /\ Len(captured) = Len(prefix) + Len(removed)
        /\ \A i \in 1..(Len(prefix) + Len(removed)) :
             captured[i] = IF i <= Len(prefix) THEN prefix[i] ELSE removed[i - Len(prefix)]
    BY <1>1, <1>2, ConcatProperties
  <2> HIDE DEF captured
  <2>2. ASSUME NEW i \in (Len(prefix) + 1)..(Len(prefix) + n)
        PROVE  captured[i] = samples[i - Len(prefix)]
    <3>1. i \in 1..(Len(prefix) + n) /\ ~ (i <= Len(prefix)) /\ i - Len(prefix) \in 1..n
      BY <1>1
    <3> QED
      BY <1>2, <2>1, <3>1
  <2>3. ASSUME NEW i \in 1..Len(prefix)
        PROVE  captured[i] = prefix[i]
    <3>1. i \in 1..(Len(prefix) + n) /\ i <= Len(prefix)
      BY <1>1
    <3> QED
      BY <1>2, <2>1, <3>1
  <2> QED
    BY <1>2, <2>1, <2>2, <2>3
<1> SUFFICES Renders(captured, rest, all, current)
  BY DEF removed, rest
<1> HIDE DEF captured
<1>5. \A i \in 1..Len(rest) : rest[i] = all[Len(all) - Len(rest) + i]
  <2>1. \A i \in 1..(Len(samples) - n) : samples[n + i] = all[Len(all) - Len(samples) + (n + i)]
    BY <1>1 DEF Renders
  <2> QED
    BY <1>1, <1>3, <2>1
<1>6. \A i \in 1..Len(captured) :
        captured[i] = all[Len(all) - Len(rest) - Len(captured) + i]
  <2>1. Len(all) - Len(rest) - Len(captured) = Len(all) - Len(samples) - Len(prefix)
    BY <1>1, <1>3, <1>4
  <2>2. ASSUME NEW i \in 1..Len(prefix)
        PROVE  captured[i] = all[Len(all) - Len(samples) - Len(prefix) + i]
    BY <1>1, <1>4 DEF Renders
  <2>3. ASSUME NEW i \in (Len(prefix) + 1)..(Len(prefix) + n)
        PROVE  captured[i] = all[Len(all) - Len(samples) - Len(prefix) + i]
    <3>1. captured[i] = samples[i - Len(prefix)] /\ i - Len(prefix) \in 1..Len(samples)
      BY <1>1, <1>4
    <3>2. samples[i - Len(prefix)] = all[Len(all) - Len(samples) + (i - Len(prefix))]
      BY <3>1 DEF Renders
    <3>3. Len(all) - Len(samples) + (i - Len(prefix)) = Len(all) - Len(samples) - Len(prefix) + i
      BY <1>1
    <3> QED
      BY <3>1, <3>2, <3>3
  <2>4. \A i \in 1..Len(captured) :
          i \in 1..Len(prefix) \/ i \in (Len(prefix) + 1)..(Len(prefix) + n)
    BY <1>1, <1>4
  <2> QED
    BY <2>1, <2>2, <2>3, <2>4
<1>7. Len(captured) + Len(rest) = Len(prefix) + Len(samples)
  BY <1>1, <1>3, <1>4
<1>8. Len(captured) + Len(rest) < Len(all) =>
        Len(captured) > 0 /\ captured[1].at < current - Window
  <2> SUFFICES ASSUME Len(captured) + Len(rest) < Len(all)
               PROVE  Len(captured) > 0 /\ captured[1].at < current - Window
    OBVIOUS
  <2>1. Len(prefix) > 0 /\ prefix[1].at < current - Window
    BY <1>7 DEF Renders
  <2>2. 1 \in 1..Len(prefix)
    BY <1>1, <2>1
  <2>3. captured[1] = prefix[1] /\ Len(captured) > 0
    BY <1>1, <1>4, <2>2
  <2> QED
    BY <2>1, <2>3
<1> QED
  BY <1>1, <1>3, <1>4, <1>5, <1>6, <1>7, <1>8 DEF Renders

\* Of the samples left of the window all but the last may go.
LEMMA RendersTrimmed ==
  ASSUME NEW prefix, NEW samples, NEW all, NEW current \in Nat,
         Renders(prefix, samples, all, current),
         NEW n \in 0..Len(prefix), \A i \in 1..n : prefix[i].at < current - Window,
         NEW from, from = IF n > 0 THEN n ELSE 1
  PROVE  Renders(SubSeq(prefix, from, Len(prefix)), samples, all, current)
<1> DEFINE kept == SubSeq(prefix, from, Len(prefix))
<1>1. /\ prefix \in Seq(Sample) /\ samples \in Seq(Sample) /\ all \in Seq(Sample)
      /\ Len(prefix) \in Nat /\ Len(samples) \in Nat /\ Len(all) \in Nat
      /\ Len(prefix) + Len(samples) <= Len(all)
      /\ from \in Nat /\ from >= 1 /\ from <= Len(prefix) + 1
      /\ from > Len(prefix) => Len(prefix) = 0 /\ from = 1
      /\ from > 1 => from = n
  BY DEF Renders
<1>2. /\ kept \in Seq(Sample) /\ Len(kept) = Len(prefix) - from + 1
      /\ \A i \in 1..(Len(prefix) - from + 1) : kept[i] = prefix[from + i - 1]
  <2>1. \A i \in from..Len(prefix) : i \in 1..Len(prefix) /\ prefix[i] \in Sample
    BY <1>1
  <2>2. /\ kept \in Seq(Sample)
        /\ Len(kept) = IF from <= Len(prefix) THEN Len(prefix) - from + 1 ELSE 0
        /\ \A i \in 1..(Len(prefix) - from + 1) : kept[i] = prefix[from + i - 1]
    BY <1>1, <2>1, SubSeqProperties
  <2>3. Len(kept) = Len(prefix) - from + 1
    <3>1. CASE from <= Len(prefix)
      BY <2>2, <3>1
    <3>2. CASE ~ (from <= Len(prefix))
      <4>0. from > Len(prefix)
        BY <1>1, <3>2
      <4>1. Len(prefix) = 0 /\ from = 1
        BY <1>1, <4>0
      <4> QED
        BY <2>2, <4>1
    <3> QED
      BY <3>1, <3>2
  <2> QED
    BY <2>2, <2>3
<1> HIDE DEF kept
<1>3. \A i \in 1..Len(kept) : kept[i] = all[Len(all) - Len(samples) - Len(kept) + i]
  <2> SUFFICES ASSUME NEW i \in 1..Len(kept)
               PROVE  kept[i] = all[Len(all) - Len(samples) - Len(kept) + i]
    OBVIOUS
  <2>1. from + i - 1 \in 1..Len(prefix) /\ kept[i] = prefix[from + i - 1]
    BY <1>1, <1>2
  <2>2. prefix[from + i - 1] = all[Len(all) - Len(samples) - Len(prefix) + (from + i - 1)]
    BY <2>1 DEF Renders
  <2>3. Len(all) - Len(samples) - Len(prefix) + (from + i - 1)
          = Len(all) - Len(samples) - Len(kept) + i
    BY <1>1, <1>2
  <2> QED
    BY <2>1, <2>2, <2>3
<1>4. Len(kept) + Len(samples) < Len(all) => Len(kept) > 0 /\ kept[1].at < current - Window
  <2>1. CASE n > 0
    <3>1. kept[1] = prefix[n] /\ Len(kept) > 0
      BY <1>1, <1>2, <2>1
    <3> QED
      BY <2>1, <3>1
  <2>2. CASE n = 0
    <3>1. Len(kept) = Len(prefix) /\ (Len(prefix) > 0 => kept[1] = prefix[1])
      BY <1>1, <1>2, <2>2
    <3> QED
      BY <3>1 DEF Renders
  <2> QED
    BY <2>1, <2>2
<1>5. Renders(kept, samples, all, current)
  BY <1>1, <1>2, <1>3, <1>4 DEF Renders
<1> QED
  BY <1>5 DEF kept

\* A new sample.
LEMMA RendersAppended ==
  ASSUME NEW prefix, NEW samples, NEW all, NEW current \in Nat, NEW sample \in Sample,
         Renders(prefix, samples, all, current)
  PROVE  Renders(prefix, Append(samples, sample), Append(all, sample), current)
<1> DEFINE longer == Append(samples, sample)
           more == Append(all, sample)
<1>1. /\ prefix \in Seq(Sample) /\ samples \in Seq(Sample) /\ all \in Seq(Sample)
      /\ Len(prefix) \in Nat /\ Len(samples) \in Nat /\ Len(all) \in Nat
      /\ Len(prefix) + Len(samples) <= Len(all)
  BY DEF Renders
<1>2. /\ longer \in Seq(Sample) /\ Len(longer) = Len(samples) + 1
      /\ \A i \in 1..Len(samples) : longer[i] = samples[i]
      /\ longer[Len(samples) + 1] = sample
  BY <1>1
<1>3. /\ more \in Seq(Sample) /\ Len(more) = Len(all) + 1
      /\ \A i \in 1..Len(all) : more[i] = all[i]
      /\ more[Len(all) + 1] = sample
  BY <1>1
<1> HIDE DEF longer, more
<1>4. \A i \in 1..Len(prefix) : prefix[i] = more[Len(more) - Len(longer) - Len(prefix) + i]
  <2> SUFFICES ASSUME NEW i \in 1..Len(prefix)
               PROVE  prefix[i] = more[Len(more) - Len(longer) - Len(prefix) + i]
    OBVIOUS
  <2>1. prefix[i] = all[Len(all) - Len(samples) - Len(prefix) + i]
    BY DEF Renders
  <2>2. /\ Len(all) - Len(samples) - Len(prefix) + i \in 1..Len(all)
        /\ Len(more) - Len(longer) - Len(prefix) + i = Len(all) - Len(samples) - Len(prefix) + i
    BY <1>1, <1>2, <1>3
  <2> QED
    BY <1>3, <2>1, <2>2
<1>5. \A i \in 1..Len(longer) : longer[i] = more[Len(more) - Len(longer) + i]
  <2>1. ASSUME NEW i \in 1..Len(samples)
        PROVE  longer[i] = more[Len(more) - Len(longer) + i]
    <3>1. samples[i] = all[Len(all) - Len(samples) + i]
      BY DEF Renders
    <3>2. /\ Len(all) - Len(samples) + i \in 1..Len(all)
          /\ Len(more) - Len(longer) + i = Len(all) - Len(samples) + i
      BY <1>1, <1>2, <1>3
    <3> QED
      BY <1>2, <1>3, <3>1, <3>2
  <2>2. longer[Len(longer)] = more[Len(more) - Len(longer) + Len(longer)]
    BY <1>1, <1>2, <1>3
  <2>3. \A i \in 1..Len(longer) : i \in 1..Len(samples) \/ i = Len(longer)
    BY <1>1, <1>2
  <2> QED
    BY <2>1, <2>2, <2>3
<1>6. Len(prefix) + Len(longer) < Len(more) =>
        Len(prefix) > 0 /\ prefix[1].at < current - Window
  <2>1. Len(prefix) + Len(longer) < Len(more) => Len(prefix) + Len(samples) < Len(all)
    BY <1>1, <1>2, <1>3
  <2> QED
    BY <2>1 DEF Renders
<1>7. Len(prefix) + Len(longer) <= Len(more)
  BY <1>1, <1>2, <1>3
<1>8. Renders(prefix, longer, more, current)
  BY <1>1, <1>2, <1>3, <1>4, <1>5, <1>6, <1>7 DEF Renders
<1> QED
  BY <1>8 DEF longer, more
-----------------------------------------------------------------------------
(* What the curve shows *)

\* metric was measured at time x, between two neighbouring samples.
Between(samples, metric, x) ==
  \E i \in 1..(Len(samples) - 1) :
    /\ metric \in samples[i].known \cap samples[i + 1].known
    /\ samples[i].at <= x /\ x <= samples[i + 1].at

OnCurve(build, metric, x) ==
  \E segment \in Curve(build, metric) : segment.from <= x /\ x <= segment.to

\* Cutting a segment off left of the window changes nothing inside it.
LEMMA ClippedCovers ==
  ASSUME NEW start \in Int, NEW end \in Int, NEW cutoff \in Int, NEW x \in Int, cutoff <= x
  PROVE  (\E segment \in Clipped(start, end, cutoff) : segment.from <= x /\ x <= segment.to)
           <=> (start <= x /\ x <= end)
<1>1. CASE end < cutoff
  BY <1>1 DEF Clipped
<1>2. CASE ~ (end < cutoff)
  <2>1. Clipped(start, end, cutoff)
          = {[from |-> IF start < cutoff THEN cutoff ELSE start, to |-> end]}
    BY <1>2 DEF Clipped
  <2>2. CASE start < cutoff
    BY <2>1, <2>2
  <2>3. CASE ~ (start < cutoff)
    BY <2>1, <2>3
  <2> QED
    BY <2>2, <2>3
<1> QED
  BY <1>1, <1>2

LEMMA CurveCovers ==
  ASSUME NEW build, NEW metric, NEW x \in Int, RenderSamples(build) \in Seq(Sample),
         build.origin \in Nat, build.origin - Window <= x
  PROVE  OnCurve(build, metric, x) <=> Between(RenderSamples(build), metric, x)
<1> DEFINE all == RenderSamples(build)
           joined == {i \in 1..(Len(all) - 1) : metric \in all[i].known \cap all[i + 1].known}
           cutoff == build.origin - Window
<1>1. Curve(build, metric) = UNION {Clipped(all[i].at, all[i + 1].at, cutoff) : i \in joined}
  BY DEF Curve
<1>2. \A i \in joined : all[i].at \in Nat /\ all[i + 1].at \in Nat
  <2> SUFFICES ASSUME NEW i \in joined
               PROVE  all[i].at \in Nat /\ all[i + 1].at \in Nat
    OBVIOUS
  <2>1. Len(all) \in Nat /\ i \in 1..Len(all) /\ i + 1 \in 1..Len(all)
    OBVIOUS
  <2> QED
    BY <2>1, SampleAt
<1>3. cutoff \in Int /\ cutoff <= x
  BY WindowIsNumber
<1> HIDE DEF cutoff, all
<1>4. \A i \in joined :
        (\E segment \in Clipped(all[i].at, all[i + 1].at, cutoff) :
           segment.from <= x /\ x <= segment.to)
          <=> (all[i].at <= x /\ x <= all[i + 1].at)
  <2> HIDE DEF joined
  <2> SUFFICES ASSUME NEW i \in joined
               PROVE  (\E segment \in Clipped(all[i].at, all[i + 1].at, cutoff) :
                         segment.from <= x /\ x <= segment.to)
                        <=> (all[i].at <= x /\ x <= all[i + 1].at)
    OBVIOUS
  <2>1. all[i].at \in Int /\ all[i + 1].at \in Int
    BY <1>2
  <2> QED
    BY <1>3, <2>1, ClippedCovers
<1>5. OnCurve(build, metric, x) <=>
        \E i \in joined : all[i].at <= x /\ x <= all[i + 1].at
  <2> HIDE DEF joined
  <2> QED
    BY <1>1, <1>4 DEF OnCurve
<1>6. Between(all, metric, x) <=> \E i \in joined : all[i].at <= x /\ x <= all[i + 1].at
  BY Zenon DEF Between
<1> QED
  BY <1>5, <1>6 DEF all

\* Inside the window nothing is missing from the end of the samples that is rendered.
LEMMA RendersWindow ==
  ASSUME NEW prefix, NEW samples, NEW all, NEW current \in Nat, NEW metric, NEW x \in Int,
         Renders(prefix, samples, all, current), Sorted(all), current - Window <= x
  PROVE  Between(prefix \o samples, metric, x) <=> Between(all, metric, x)
<1> DEFINE rendered == prefix \o samples
           gap == Len(all) - Len(rendered)
<1>1. /\ prefix \in Seq(Sample) /\ samples \in Seq(Sample) /\ all \in Seq(Sample)
      /\ Len(prefix) \in Nat /\ Len(samples) \in Nat /\ Len(all) \in Nat
      /\ Len(prefix) + Len(samples) <= Len(all)
  BY DEF Renders
<1>2. /\ rendered \in Seq(Sample) /\ Len(rendered) = Len(prefix) + Len(samples)
      /\ \A i \in 1..(Len(prefix) + Len(samples)) :
           rendered[i] = IF i <= Len(prefix) THEN prefix[i] ELSE samples[i - Len(prefix)]
  BY <1>1, ConcatProperties
<1> HIDE DEF rendered
<1>3. gap \in Nat /\ gap = Len(all) - Len(samples) - Len(prefix)
  BY <1>1, <1>2
<1>4. ASSUME NEW i \in 1..Len(rendered)
      PROVE  rendered[i] = all[gap + i]
  <2>1. CASE i <= Len(prefix)
    <3>1. i \in 1..Len(prefix) /\ rendered[i] = prefix[i]
      BY <1>1, <1>2, <2>1
    <3> QED
      BY <1>3, <3>1 DEF Renders
  <2>2. CASE ~ (i <= Len(prefix))
    <3>1. i - Len(prefix) \in 1..Len(samples) /\ rendered[i] = samples[i - Len(prefix)]
      BY <1>1, <1>2, <2>2
    <3>2. samples[i - Len(prefix)] = all[Len(all) - Len(samples) + (i - Len(prefix))]
      BY <3>1 DEF Renders
    <3>3. Len(all) - Len(samples) + (i - Len(prefix)) = gap + i
      BY <1>1, <1>3
    <3> QED
      BY <3>1, <3>2, <3>3
  <2> QED
    BY <2>1, <2>2
<1>5. gap > 0 => Len(rendered) > 0 /\ rendered[1].at < current - Window
  <2> SUFFICES ASSUME gap > 0
               PROVE  Len(rendered) > 0 /\ rendered[1].at < current - Window
    OBVIOUS
  <2>1. Len(prefix) > 0 /\ prefix[1].at < current - Window
    BY <1>1, <1>3 DEF Renders
  <2>2. rendered[1] = prefix[1] /\ Len(rendered) > 0
    BY <1>1, <1>2, <2>1
  <2> QED
    BY <2>1, <2>2
<1>6. Len(rendered) \in Nat /\ Len(all) = gap + Len(rendered)
  BY <1>1, <1>2
<1> HIDE DEF gap
<1>7. ASSUME Between(rendered, metric, x)
      PROVE  Between(all, metric, x)
  <2>1. PICK i \in 1..(Len(rendered) - 1) :
          /\ metric \in rendered[i].known \cap rendered[i + 1].known
          /\ rendered[i].at <= x /\ x <= rendered[i + 1].at
    BY <1>7 DEF Between
  <2>2. /\ i \in 1..Len(rendered) /\ i + 1 \in 1..Len(rendered)
        /\ gap + i \in 1..(Len(all) - 1) /\ gap + (i + 1) = (gap + i) + 1
    BY <1>3, <1>6
  <2>3. rendered[i] = all[gap + i] /\ rendered[i + 1] = all[(gap + i) + 1]
    BY <1>4, <2>2
  <2> QED
    BY <2>1, <2>2, <2>3 DEF Between
<1>8. ASSUME Between(all, metric, x)
      PROVE  Between(rendered, metric, x)
  <2>1. PICK j \in 1..(Len(all) - 1) :
          /\ metric \in all[j].known \cap all[j + 1].known
          /\ all[j].at <= x /\ x <= all[j + 1].at
    BY <1>8 DEF Between
  <2>2. j > gap
    <3> SUFFICES ASSUME ~ (j > gap)
                 PROVE  FALSE
      OBVIOUS
    <3>0. gap > 0 /\ j + 1 <= gap + 1 /\ j + 1 \in 1..Len(all)
      BY <1>1, <1>3
    <3>5. Len(rendered) > 0
      BY <1>5, <3>0
    <3>6. 1 \in 1..Len(rendered) /\ gap + 1 \in 1..Len(all)
      BY <1>3, <1>6, <3>0, <3>5
    <3>1. /\ gap > 0 /\ j + 1 \in 1..Len(all) /\ gap + 1 \in 1..Len(all) /\ j + 1 <= gap + 1
          /\ 1 \in 1..Len(rendered)
      BY <3>0, <3>6
    <3>2. all[j + 1].at <= all[gap + 1].at
      BY <3>1 DEF Sorted
    <3>3. all[gap + 1].at < current - Window
      <4>1. rendered[1] = all[gap + 1]
        BY <1>4, <3>1
      <4> QED
        BY <1>5, <3>1, <4>1
    <3>4. all[j + 1].at \in Nat /\ all[gap + 1].at \in Nat
      BY <1>1, <3>1, SampleAt
    <3> DEFINE late == all[j + 1].at
               first == all[gap + 1].at
    <3>7. /\ late \in Nat /\ first \in Nat
          /\ late <= first /\ first < current - Window /\ x <= late
      BY <2>1, <3>2, <3>3, <3>4
    <3> HIDE DEF late, first
    <3> QED
      BY <3>7, WindowIsNumber
  <2>3. /\ j - gap \in 1..(Len(rendered) - 1)
        /\ j - gap \in 1..Len(rendered) /\ (j - gap) + 1 \in 1..Len(rendered)
        /\ gap + (j - gap) = j /\ gap + ((j - gap) + 1) = j + 1
    BY <1>1, <1>3, <1>6, <2>2
  <2>4. rendered[j - gap] = all[j] /\ rendered[(j - gap) + 1] = all[j + 1]
    BY <1>4, <2>3
  <2> QED
    BY <2>1, <2>3, <2>4 DEF Between
<1> QED
  BY <1>7, <1>8 DEF rendered
-----------------------------------------------------------------------------
(* The operations of the chart *)

ChartFields ==
  {"attached", "samples", "prefix", "hasEnd", "current", "target", "animating", "origin",
   "pending", "look"}

Shape(c) ==
  /\ DOMAIN c = ChartFields
  /\ c.attached \in BOOLEAN /\ c.hasEnd \in BOOLEAN
  /\ c.animating \in BOOLEAN /\ c.pending \in BOOLEAN
  /\ c.current \in Nat /\ c.target \in Nat /\ c.origin \in Nat

\* The animation moves towards the newest of all samples; geometry is never built for a
\* time after the displayed one.
SeriesInv(c, all) ==
  /\ Shape(c)
  /\ Renders(c.prefix, c.samples, all, c.current)
  /\ c.origin <= c.current
  /\ (c.hasEnd = TRUE) <=> (all # <<>>)
  /\ c.hasEnd = TRUE => c.current <= c.target /\ c.target = Last(all).at
  /\ c.animating = TRUE => c.hasEnd = TRUE

\* The chart shows the attached history h; without a model it shows nothing.
ChartInv(c, all, h) ==
  /\ SeriesInv(c, all)
  /\ all # <<>> => c.samples # <<>>
  /\ c.attached = TRUE => c.samples = h
  /\ c.attached = FALSE => all = <<>>

SameBut(r, c) ==
  /\ Shape(r)
  /\ r.attached = c.attached
  /\ r.look = c.look

\* m is c after a move of the window's end towards the newest sample.
MovedTo(m, c, newest) ==
  /\ SameBut(m, c)
  /\ m.prefix = c.prefix /\ m.samples = c.samples
  /\ m.hasEnd = TRUE
  /\ m.target = newest
  /\ m.current <= newest
  /\ c.hasEnd = TRUE => c.current <= m.current

LEMMA MovedForwards ==
  ASSUME NEW c, Shape(c), NEW newest, newest \in Nat, NEW jump,
         c.hasEnd = TRUE => c.current <= c.target /\ c.target <= newest,
         NEW m, m = Moved(c, newest, jump)
  PROVE  MovedTo(m, c, newest)
<1>1. CASE c.hasEnd = FALSE
  <2>1. m = ShownUntil(c, newest)
    BY <1>1 DEF Moved
  <2> QED
    BY <1>1, <2>1 DEF MovedTo, ShownUntil, SameBut, Shape, ChartFields
<1>2. CASE c.hasEnd = TRUE /\ newest = c.target
  <2>1. m = c
    BY <1>2 DEF Moved, Shape
  <2> QED
    BY <1>2, <2>1 DEF MovedTo, SameBut, Shape
<1>3. CASE c.hasEnd = TRUE /\ newest # c.target
  <2>1. c.target < newest
    BY <1>3 DEF Shape
  <2>2. m = [c EXCEPT !.current = IF jump THEN newest ELSE @, !.target = newest,
                      !.animating = ~ jump]
    BY <1>3, <2>1 DEF Moved, Shape
  <2>3. /\ DOMAIN m = ChartFields
        /\ m.attached = c.attached /\ m.look = c.look /\ m.prefix = c.prefix
        /\ m.samples = c.samples /\ m.hasEnd = c.hasEnd /\ m.target = newest
        /\ m.origin = c.origin /\ m.pending = c.pending
        /\ m.current = IF jump THEN newest ELSE c.current
        /\ m.animating = ~ jump
    BY <2>2 DEF Shape, ChartFields
  <2>4. m.current \in Nat /\ c.current <= m.current /\ m.current <= newest
    <3>1. CASE jump
      BY <1>3, <2>1, <2>3, <3>1 DEF Shape
    <3>2. CASE ~ jump
      BY <1>3, <2>1, <2>3, <3>2 DEF Shape
    <3> QED
      BY <3>1, <3>2
  <2>5. m.animating \in BOOLEAN
    BY <2>3
  <2> QED
    BY <1>3, <2>3, <2>4, <2>5 DEF MovedTo, SameBut, Shape
<1> QED
  BY <1>1, <1>2, <1>3 DEF Shape

LEMMA TrimmedRenders ==
  ASSUME NEW c, Shape(c), NEW samples, NEW all, Renders(c.prefix, samples, all, c.current),
         NEW t, t = Trimmed(c)
  PROVE  /\ SameBut(t, c)
         /\ t.hasEnd = c.hasEnd /\ t.animating = c.animating
         /\ t.current = c.current /\ t.target = c.target
         /\ Renders(t.prefix, samples, all, t.current)
<1> DEFINE n == LeadingBefore(c.prefix, c.current - Window)
           from == IF n > 0 THEN n ELSE 1
<1>1. /\ DOMAIN t = ChartFields /\ t.prefix = SubSeq(c.prefix, from, Len(c.prefix))
      /\ t.attached = c.attached /\ t.look = c.look /\ t.hasEnd = c.hasEnd
      /\ t.animating = c.animating /\ t.pending = c.pending
      /\ t.current = c.current /\ t.target = c.target /\ t.origin = c.origin
  BY DEF Trimmed, Shape, ChartFields
<1>2. c.prefix \in Seq(Sample) /\ c.current \in Nat /\ c.current - Window \in Int
  BY WindowIsNumber DEF Renders, Shape
<1>3. n \in 0..Len(c.prefix) /\ \A i \in 1..n : c.prefix[i].at < c.current - Window
  BY <1>2, LeadingBeforeStops
<1> HIDE DEF n
<1>4. Renders(SubSeq(c.prefix, from, Len(c.prefix)), samples, all, c.current)
  BY <1>2, <1>3, RendersTrimmed
<1> QED
  BY <1>1, <1>4 DEF SameBut, Shape

LEMMA LastRendered ==
  ASSUME NEW prefix, NEW samples, NEW all, NEW current, Renders(prefix, samples, all, current),
         samples # <<>>
  PROVE  /\ all # <<>>
         /\ Last(samples) = Last(all)
         /\ Last(samples) \in Sample /\ Last(samples).at \in Nat
<1>1. /\ samples \in Seq(Sample) /\ all \in Seq(Sample) /\ prefix \in Seq(Sample)
      /\ Len(samples) \in Nat /\ Len(all) \in Nat /\ Len(prefix) \in Nat
      /\ Len(samples) > 0 /\ Len(all) > 0
  BY DEF Renders
<1>2. samples[Len(samples)] = all[Len(all) - Len(samples) + Len(samples)]
  BY <1>1 DEF Renders
<1>3. Last(samples) = Last(all)
  BY <1>1, <1>2 DEF Last
<1>4. Last(samples) \in Sample /\ Last(samples).at \in Nat
  BY <1>1, SampleAt DEF Last
<1> QED
  BY <1>1, <1>3, <1>4

\* r is c after the model's samples were cached.
CachedFrom(r, c, samples, all) ==
  /\ SeriesInv(r, all)
  /\ r.samples = samples /\ r.attached = c.attached
  /\ r.pending = TRUE
  /\ r.hasEnd = TRUE
  /\ c.hasEnd = TRUE => c.current <= r.current

LEMMA CachedAnimatedKeeps ==
  ASSUME NEW c, Shape(c), NEW samples, NEW all, NEW jump,
         Renders(c.prefix, samples, all, c.current),
         all # <<>>,
         c.hasEnd = TRUE => c.current <= c.target /\ c.target <= Last(all).at,
         c.hasEnd = FALSE => Len(c.prefix) + Len(samples) = Len(all),
         samples = <<>> => c.hasEnd = TRUE /\ c.target = Last(all).at,
         NEW r, r = CachedAnimated(c, samples, jump)
  PROVE  CachedFrom(r, c, samples, all)
<1> DEFINE m == IF samples = <<>> THEN c ELSE Moved(c, Last(samples).at, jump)
           t == Trimmed(m)
<1>1. /\ SameBut(m, c) /\ m.prefix = c.prefix
      /\ m.hasEnd = TRUE /\ m.target = Last(all).at /\ m.current <= m.target
      /\ c.hasEnd = TRUE => c.current <= m.current
  <2>1. CASE samples = <<>>
    <3>1. m = c
      BY <2>1
    <3> HIDE DEF m
    <3>2. c.current \in Nat
      BY DEF Shape
    <3> QED
      BY <2>1, <3>1, <3>2 DEF SameBut
  <2>2. CASE samples # <<>>
    <3>1. Last(samples) = Last(all) /\ Last(samples).at \in Nat
      BY <2>2, LastRendered
    <3>2. m = Moved(c, Last(samples).at, jump)
      BY <2>2
    <3>3. c.hasEnd = TRUE => c.current <= c.target /\ c.target <= Last(samples).at
      BY <3>1
    <3> HIDE DEF m
    <3>4. /\ SameBut(m, c) /\ m.prefix = c.prefix
          /\ m.hasEnd = TRUE /\ m.target = Last(samples).at /\ m.current <= Last(samples).at
          /\ c.hasEnd = TRUE => c.current <= m.current
      <4> DEFINE newest == Last(samples).at
      <4>1. /\ newest \in Nat /\ m = Moved(c, newest, jump)
            /\ c.hasEnd = TRUE => c.current <= c.target /\ c.target <= newest
        BY <3>1, <3>2, <3>3
      <4> HIDE DEF newest
      <4>2. MovedTo(m, c, newest)
        BY <4>1, MovedForwards
      <4> QED
        BY <4>2 DEF newest, MovedTo
    <3> QED
      BY <3>1, <3>4
  <2> QED
    BY <2>1, <2>2
<1>2. r = Rebuilt([t EXCEPT !.samples = samples])
  BY DEF CachedAnimated
<1> HIDE DEF m
<1>3. Renders(m.prefix, samples, all, m.current)
  <2>1. m.current \in Nat /\ c.current \in Nat
    BY <1>1 DEF SameBut, Shape
  <2>2. m.current >= c.current \/ Len(c.prefix) + Len(samples) = Len(all)
    BY <1>1, <2>1 DEF Shape
  <2> QED
    BY <1>1, <2>1, <2>2, RendersLater
<1>4. /\ SameBut(t, m) /\ t.hasEnd = m.hasEnd /\ t.animating = m.animating
      /\ t.current = m.current /\ t.target = m.target
      /\ Renders(t.prefix, samples, all, t.current)
  BY <1>1, <1>3, TrimmedRenders DEF SameBut
<1> HIDE DEF t
<1>5. /\ DOMAIN r = ChartFields
      /\ r.attached = t.attached /\ r.look = t.look /\ r.samples = samples
      /\ r.prefix = t.prefix /\ r.hasEnd = t.hasEnd /\ r.current = t.current
      /\ r.target = t.target /\ r.animating = t.animating /\ r.origin = t.current
      /\ r.pending = TRUE
  <2>1. DOMAIN t = ChartFields
    BY <1>4 DEF SameBut, Shape
  <2> QED
    BY <1>2, <2>1 DEF Rebuilt, ChartFields
<1>6. Shape(r)
  BY <1>4, <1>5 DEF SameBut, Shape
<1>7. r.origin <= r.current
  BY <1>5, <1>6 DEF Shape
<1>8. SeriesInv(r, all)
  BY <1>1, <1>4, <1>5, <1>6, <1>7 DEF SeriesInv
<1>9. r.attached = c.attached
  BY <1>1, <1>4, <1>5 DEF SameBut
<1> QED
  BY <1>1, <1>4, <1>5, <1>8, <1>9 DEF CachedFrom
\* Samples in the order of their times, none later than t.
Recent(samples, t) ==
  /\ samples \in Seq(Sample)
  /\ Sorted(samples)
  /\ \A i \in 1..Len(samples) : samples[i].at <= t

EndsWith(longer, samples, sample) ==
  /\ Recent(longer, sample.at)
  /\ longer # <<>> /\ Last(longer) = sample /\ Len(longer) = Len(samples) + 1

LEMMA RecentAppended ==
  ASSUME NEW samples, NEW t \in Nat, Recent(samples, t),
         NEW sample \in Sample, t <= sample.at,
         NEW longer, longer = Append(samples, sample)
  PROVE  EndsWith(longer, samples, sample)
<1>1. /\ longer \in Seq(Sample) /\ Len(samples) \in Nat /\ Len(longer) = Len(samples) + 1
      /\ \A i \in 1..Len(samples) : longer[i] = samples[i]
      /\ longer[Len(samples) + 1] = sample
  BY DEF Recent
<1>2. sample.at \in Nat
  BY DEF Sample
<1>3. \A i \in 1..Len(samples) : samples[i].at \in Nat /\ samples[i].at <= sample.at
  BY <1>2, SampleAt DEF Recent
<1>4. ASSUME NEW i \in 1..Len(longer)
      PROVE  longer[i].at \in Nat /\ longer[i].at <= sample.at
  <2>1. CASE i = Len(samples) + 1
    BY <1>1, <1>2, <2>1
  <2>2. CASE i # Len(samples) + 1
    <3>1. i \in 1..Len(samples) /\ longer[i] = samples[i]
      BY <1>1, <2>2
    <3> QED
      BY <1>3, <3>1
  <2> QED
    BY <2>1, <2>2
<1>5. Sorted(longer)
  <2> SUFFICES ASSUME NEW i \in 1..Len(longer), NEW j \in 1..Len(longer), i <= j
               PROVE  longer[i].at <= longer[j].at
    BY DEF Sorted
  <2>1. CASE j = Len(samples) + 1
    BY <1>1, <1>4, <2>1
  <2>2. CASE j # Len(samples) + 1
    <3>1. i \in 1..Len(samples) /\ j \in 1..Len(samples)
      BY <1>1, <2>2
    <3> QED
      BY <1>1, <3>1 DEF Recent, Sorted
  <2> QED
    BY <2>1, <2>2
<1>6. longer # <<>> /\ Last(longer) = sample
  BY <1>1 DEF Last
<1> QED
  BY <1>1, <1>4, <1>5, <1>6 DEF Recent, EndsWith

LEMMA RecentRemaining ==
  ASSUME NEW samples, NEW t \in Nat, Recent(samples, t), NEW n \in 0..Len(samples),
         NEW rest, rest = SubSeq(samples, n + 1, Len(samples))
  PROVE  Recent(rest, t)
<1>1. samples \in Seq(Sample) /\ Len(samples) \in Nat
  BY DEF Recent
<1>2. /\ rest \in Seq(Sample) /\ Len(rest) = Len(samples) - n
      /\ \A i \in 1..(Len(samples) - n) : rest[i] = samples[n + i]
  BY <1>1
<1>3. \A i \in 1..Len(rest) : n + i \in 1..Len(samples) /\ rest[i] = samples[n + i]
  BY <1>1, <1>2
<1>4. Sorted(rest)
  <2> SUFFICES ASSUME NEW i \in 1..Len(rest), NEW j \in 1..Len(rest), i <= j
               PROVE  rest[i].at <= rest[j].at
    BY DEF Sorted
  <2>1. n + i <= n + j
    OBVIOUS
  <2> QED
    BY <1>3, <2>1 DEF Recent, Sorted
<1> QED
  BY <1>2, <1>3, <1>4 DEF Recent

\* r is c after the model has become another one, of which all were seen.
ShowsModel(r, c, model, all) ==
  /\ SeriesInv(r, all)
  /\ r.samples = model /\ r.attached = c.attached /\ r.pending = TRUE
  /\ all # <<>> => model # <<>>

\* The newest of all samples is what the window moves towards, also when the model removes
\* samples before it inserts the new one.
LEMMA AppendedKeeps ==
  ASSUME NEW c, NEW all, NEW t \in Nat, ChartInv(c, all, history), c.attached = TRUE,
         Recent(history, t), Recent(all, t),
         NEW at \in Nat, t <= at, NEW known \in SUBSET Metrics, NEW jump,
         NEW r, r = Appended(c, at, known, jump),
         NEW sample, sample = [at |-> at, known |-> known],
         NEW more, more = Append(all, sample),
         NEW model, model = Append(Remaining(history, at), sample)
  PROVE  ShowsModel(r, c, model, more) /\ (c.hasEnd = TRUE => c.current <= r.current)
<1> DEFINE n == LeadingBefore(history, at - Window)
           removed == SubSeq(history, 1, n)
           rest == SubSeq(history, n + 1, Len(history))
           captured == Captured(c, removed)
           pruned == IF removed = <<>> THEN c ELSE CachedAnimated(captured, rest, jump)
<1>1. /\ removed = Expired(history, at) /\ rest = Remaining(history, at)
      /\ r = CachedAnimated(pruned, Append(rest, sample), jump)
      /\ model = Append(rest, sample)
  BY DEF Appended, Expired, Remaining
<1>2. n \in 0..Len(history)
  <2>1. history \in Seq(Sample) /\ at - Window \in Int
    BY WindowIsNumber DEF Recent
  <2> QED
    BY <2>1, LeadingBeforeStops
<1>3. /\ sample \in Sample /\ sample.at = at
  BY DEF Sample
<1>4. /\ Shape(c) /\ c.samples = history /\ Renders(c.prefix, history, all, c.current)
      /\ c.current \in Nat /\ all \in Seq(Sample) /\ history \in Seq(Sample)
  BY DEF ChartInv, SeriesInv, Shape, Renders
<1> HIDE DEF n
<1>5. /\ SeriesInv(pruned, all) /\ pruned.samples = rest
      /\ pruned.attached = TRUE
      /\ pruned.hasEnd = c.hasEnd
      /\ c.hasEnd = TRUE => c.current <= pruned.current
  <2>1. CASE removed = <<>>
    <3>1. pruned = c
      BY <2>1
    <3>2. n = 0
      <4>1. Len(removed) = n
        BY <1>2, <1>4
      <4> QED
        BY <2>1, <4>1
    <3>3. rest = history
      BY <1>4, <3>2, SubSeqFull
    <3> HIDE DEF pruned, rest
    <3> QED
      BY <1>4, <3>1, <3>3 DEF ChartInv
  <2>2. CASE removed # <<>>
    <3>1. pruned = CachedAnimated(captured, rest, jump)
      BY <2>2
    <3>2. Renders(c.prefix \o removed, rest, all, c.current)
      BY <1>2, <1>4, RendersCaptured
    <3>3. history # <<>>
      <4>1. Len(removed) = n
        BY <1>2, <1>4
      <4>2. n > 0
        BY <1>2, <1>4, <2>2, <4>1
      <4> QED
        BY <1>2, <4>2
    <3>4. all # <<>>
      BY <1>4, <3>3, LastRendered
    <3>5. c.hasEnd = TRUE /\ c.current <= c.target /\ c.target = Last(all).at
      BY <3>4 DEF ChartInv, SeriesInv
    <3> HIDE DEF pruned, rest, removed
    <3>6. /\ DOMAIN captured = ChartFields /\ captured.prefix = c.prefix \o removed
          /\ captured.attached = c.attached /\ captured.hasEnd = c.hasEnd
          /\ captured.animating = c.animating /\ captured.pending = c.pending
          /\ captured.current = c.current /\ captured.target = c.target
          /\ captured.origin = c.origin
      BY <1>4 DEF Captured, Shape, ChartFields
    <3> HIDE DEF captured
    <3>7. Shape(captured)
      BY <1>4, <3>6 DEF Shape
    <3>8. captured.target <= Last(all).at /\ captured.current <= captured.target
      BY <3>5, <3>6, <3>7 DEF Shape
    <3>9. CachedFrom(pruned, captured, rest, all)
      <4>1. Renders(captured.prefix, rest, all, captured.current)
        BY <3>2, <3>6
      <4>2. captured.hasEnd = TRUE /\ captured.target = Last(all).at
        BY <3>5, <3>6
      <4> QED
        BY <3>1, <3>4, <3>7, <3>8, <4>1, <4>2, CachedAnimatedKeeps
    <3> QED
      BY <3>5, <3>6, <3>9 DEF CachedFrom
  <2> QED
    BY <2>1, <2>2
<1> HIDE DEF pruned, rest
<1>6. /\ Recent(more, at) /\ more # <<>> /\ Last(more) = sample
      /\ Len(more) = Len(all) + 1
  <2>1. EndsWith(more, all, sample)
    BY <1>3, RecentAppended
  <2> QED
    BY <1>3, <2>1 DEF EndsWith
<1>7. Renders(pruned.prefix, model, more, pruned.current)
  <2>1. Renders(pruned.prefix, rest, all, pruned.current) /\ pruned.current \in Nat
    BY <1>5 DEF SeriesInv, Shape
  <2> QED
    BY <1>1, <1>3, <2>1, RendersAppended
<1>8. /\ model # <<>> /\ rest \in Seq(Sample) /\ Len(model) = Len(rest) + 1
  <2>1. rest \in Seq(Sample)
    BY <1>5 DEF SeriesInv, Renders
  <2> QED
    BY <1>1, <1>3, <2>1
<1>9. pruned.hasEnd = TRUE => pruned.current <= pruned.target /\ pruned.target <= Last(more).at
  <2> SUFFICES ASSUME pruned.hasEnd = TRUE
               PROVE  pruned.current <= pruned.target /\ pruned.target <= Last(more).at
    OBVIOUS
  <2>1. all # <<>> /\ pruned.current <= pruned.target /\ pruned.target = Last(all).at
    BY <1>5 DEF SeriesInv
  <2>2. Last(all).at <= t /\ Last(all).at \in Nat
    <3>1. Len(all) \in 1..Len(all)
      BY <1>4, <2>1
    <3> QED
      BY <1>4, <3>1, SampleAt DEF Recent, Last
  <2> QED
    BY <1>3, <1>6, <2>1, <2>2
<1>10. pruned.hasEnd = FALSE => Len(pruned.prefix) + Len(model) = Len(more)
  <2> SUFFICES ASSUME pruned.hasEnd = FALSE
               PROVE  Len(pruned.prefix) + Len(model) = Len(more)
    OBVIOUS
  <2>1. Len(all) = 0
    BY <1>5 DEF SeriesInv
  <2>2. Len(pruned.prefix) = 0 /\ Len(rest) = 0
    <3>1. /\ pruned.prefix \in Seq(Sample) /\ Len(pruned.prefix) \in Nat /\ Len(rest) \in Nat
          /\ Len(pruned.prefix) + Len(rest) <= Len(all)
      BY <1>5, <1>8 DEF SeriesInv, Renders
    <3> QED
      BY <2>1, <3>1
  <2> QED
    BY <1>6, <1>8, <2>1, <2>2
<1>11. Shape(pruned)
  BY <1>5 DEF SeriesInv
<1>12. CachedFrom(r, pruned, model, more)
  <2>1. r = CachedAnimated(pruned, model, jump)
    BY <1>1
  <2> QED
    BY <1>6, <1>7, <1>8, <1>9, <1>10, <1>11, <2>1, CachedAnimatedKeeps
<1>13. c.hasEnd = TRUE => c.current <= r.current
  <2>1. c.current \in Nat /\ pruned.current \in Nat /\ r.current \in Nat
    BY <1>4, <1>11, <1>12 DEF CachedFrom, SeriesInv, Shape
  <2> QED
    BY <1>5, <1>12, <2>1 DEF CachedFrom
<1> QED
  BY <1>5, <1>6, <1>8, <1>12, <1>13 DEF CachedFrom, ShowsModel

LEMMA CachedAtOnceKeeps ==
  ASSUME NEW c, Shape(c), c.prefix = <<>>, NEW samples, NEW t, Recent(samples, t),
         NEW r, r = CachedAtOnce(c, samples)
  PROVE  ShowsModel(r, c, samples, samples)
<1> DEFINE stopped == [c EXCEPT !.animating = FALSE, !.hasEnd = FALSE]
           m == IF samples = <<>> THEN stopped ELSE ShownUntil(stopped, Last(samples).at)
           trimmed == Trimmed(m)
<1>1. r = Rebuilt([trimmed EXCEPT !.samples = samples])
  BY DEF CachedAtOnce
<1>2. samples \in Seq(Sample)
  BY DEF Recent
<1>3. /\ DOMAIN stopped = ChartFields /\ stopped.attached = c.attached
      /\ stopped.prefix = <<>> /\ stopped.hasEnd = FALSE /\ stopped.animating = FALSE
      /\ stopped.current = c.current /\ stopped.target = c.target
      /\ stopped.origin = c.origin /\ stopped.pending = c.pending
  BY DEF Shape, ChartFields
<1> HIDE DEF stopped
<1>4. /\ Shape(m) /\ m.prefix = <<>> /\ m.attached = c.attached /\ m.animating = FALSE
      /\ (m.hasEnd = TRUE) <=> (samples # <<>>)
      /\ m.hasEnd = TRUE => m.current <= m.target /\ m.target = Last(samples).at
  <2>1. CASE samples = <<>>
    <3>1. m = stopped
      BY <2>1
    <3> HIDE DEF m
    <3> QED
      BY <1>3, <2>1, <3>1 DEF Shape
  <2>2. CASE samples # <<>>
    <3>1. m = ShownUntil(stopped, Last(samples).at)
      BY <2>2
    <3>2. Last(samples).at \in Nat
      <4>1. Len(samples) \in 1..Len(samples)
        BY <1>2, <2>2
      <4> QED
        BY <1>2, <4>1, SampleAt DEF Last
    <3> HIDE DEF m
    <3>3. /\ DOMAIN m = ChartFields /\ m.prefix = stopped.prefix
          /\ m.attached = stopped.attached /\ m.origin = stopped.origin
          /\ m.pending = stopped.pending /\ m.hasEnd = TRUE /\ m.animating = FALSE
          /\ m.current = Last(samples).at /\ m.target = Last(samples).at
      BY <1>3, <3>1 DEF ShownUntil, ChartFields
    <3>4. m.current \in Nat /\ m.target \in Nat /\ m.current <= m.target
      BY <3>2, <3>3
    <3>5. Shape(m)
      BY <1>3, <3>3, <3>4 DEF Shape
    <3> QED
      BY <1>3, <2>2, <3>3, <3>4, <3>5
  <2> QED
    BY <2>1, <2>2
<1> HIDE DEF m
<1>5. Renders(m.prefix, samples, samples, m.current)
  BY <1>2, <1>4 DEF Renders
<1>6. /\ SameBut(trimmed, m) /\ trimmed.hasEnd = m.hasEnd /\ trimmed.animating = m.animating
      /\ trimmed.current = m.current /\ trimmed.target = m.target
      /\ Renders(trimmed.prefix, samples, samples, trimmed.current)
  BY <1>4, <1>5, TrimmedRenders
<1> HIDE DEF trimmed
<1>7. DOMAIN trimmed = ChartFields
  BY <1>6 DEF SameBut, Shape
<1>8. /\ DOMAIN r = ChartFields
      /\ r.attached = trimmed.attached /\ r.samples = samples
      /\ r.prefix = trimmed.prefix /\ r.hasEnd = trimmed.hasEnd /\ r.current = trimmed.current
      /\ r.target = trimmed.target /\ r.animating = trimmed.animating
      /\ r.origin = trimmed.current /\ r.pending = TRUE
  BY <1>1, <1>7 DEF Rebuilt, ChartFields
<1>9. Shape(r)
  BY <1>6, <1>8 DEF SameBut, Shape
<1>10. r.origin <= r.current
  BY <1>8, <1>9 DEF Shape
<1>11. SeriesInv(r, samples)
  BY <1>4, <1>6, <1>8, <1>9, <1>10 DEF SeriesInv
<1> QED
  BY <1>4, <1>6, <1>8, <1>11 DEF ShowsModel, SameBut
-----------------------------------------------------------------------------
(* The inductive invariant *)

\* Geometry of the current revision is that of the chart's members; when no repaint is
\* due, it stands at the displayed time.
FrameInv(c, f) ==
  /\ f.shown \in BOOLEAN
  /\ f.fresh \in BOOLEAN
  /\ f.fresh = TRUE =>
       /\ (f.shown = TRUE) <=> (c.samples # <<>> /\ c.look # 0)
       /\ f.shown = TRUE =>
            /\ f.build.samples = c.samples /\ f.build.prefix = c.prefix
            /\ f.build.origin = c.origin /\ f.build.look = c.look
  /\ c.pending = FALSE => f.fresh = TRUE
  /\ c.pending = FALSE /\ f.shown = TRUE => f.at = c.current

HistoryInv ==
  /\ CollectingInv(service)
  /\ Recent(history, service.elapsed)
  /\ Recent(seen, service.elapsed)
  /\ ChartInv(chart, seen, history)
  /\ FrameInv(chart, frame)

LEMMA RevisedFrame ==
  ASSUME NEW c, c.pending = TRUE
  PROVE  FrameInv(c, Outdated)
BY DEF FrameInv, Outdated

LEMMA RecentLater ==
  ASSUME NEW samples, NEW t \in Nat, NEW later \in Nat, t <= later, Recent(samples, t)
  PROVE  Recent(samples, later)
<1>1. \A i \in 1..Len(samples) : samples[i].at \in Nat
  BY SampleAt DEF Recent
<1> QED
  BY <1>1 DEF Recent

LEMMA EmptyRecent ==
  ASSUME NEW t
  PROVE  Recent(<<>>, t)
BY DEF Recent, Sorted

LEMMA HistoryInitially ==
  ASSUME HistoryInit
  PROVE  HistoryInv
<1>1. CollectingInv(service) /\ history = <<>> /\ seen = <<>>
  BY DEF HistoryInit, ServiceInit, ChartInit, CollectingInv, ServiceFields
<1>2. PICK look \in Looks :
        chart = [attached |-> FALSE, samples |-> <<>>, prefix |-> <<>>, hasEnd |-> FALSE,
                 current |-> 0, target |-> 0, animating |-> FALSE, origin |-> 0,
                 pending |-> TRUE, look |-> look]
  BY DEF HistoryInit, ChartInit
<1>3. /\ DOMAIN chart = ChartFields /\ chart.attached = FALSE /\ chart.samples = <<>>
      /\ chart.prefix = <<>> /\ chart.hasEnd = FALSE /\ chart.current = 0
      /\ chart.target = 0 /\ chart.animating = FALSE /\ chart.origin = 0 /\ chart.pending = TRUE
  BY <1>2 DEF ChartFields
<1>4. ChartInv(chart, seen, history)
  <2>1. Renders(<<>>, <<>>, <<>>, 0)
    BY DEF Renders
  <2>2. Shape(chart)
    <3>1. chart.current \in Nat /\ chart.target \in Nat /\ chart.origin \in Nat
      BY <1>3
    <3>2. /\ chart.attached \in BOOLEAN /\ chart.hasEnd \in BOOLEAN
          /\ chart.animating \in BOOLEAN /\ chart.pending \in BOOLEAN
      BY <1>3, Zenon
    <3> QED
      BY <1>3, <3>1, <3>2 DEF Shape
  <2> QED
    <3>1. SeriesInv(chart, <<>>)
      BY <1>3, <2>1, <2>2 DEF SeriesInv
    <3> QED
      BY <1>1, <1>3, <3>1 DEF ChartInv
<1>5. frame.fresh = TRUE /\ frame.shown = FALSE
  BY DEF HistoryInit, ChartInit, Outdated
<1>6. FrameInv(chart, frame)
  BY <1>3, <1>5 DEF FrameInv
<1> QED
  BY <1>1, <1>4, <1>6, EmptyRecent DEF HistoryInv

\* The displayed time moves forwards while an animation runs.
LEMMA AnimationKeeps ==
  ASSUME HistoryInv, AnimationStep \/ AnimationFinished
  PROVE  /\ HistoryInv'
         /\ chart'.attached = chart.attached
         /\ chart.current <= chart'.current
<1>1. /\ Shape(chart) /\ chart.animating = TRUE /\ chart.hasEnd = TRUE
      /\ chart.current <= chart.target /\ chart.target = Last(seen).at
      /\ chart.origin <= chart.current /\ seen # <<>>
      /\ Renders(chart.prefix, chart.samples, seen, chart.current)
  BY DEF HistoryInv, ChartInv, SeriesInv, Shape, AnimationStep, AnimationFinished
<1>2. PICK at \in Nat, animating \in BOOLEAN :
        /\ chart.current <= at /\ at <= chart.target
        /\ chart' = [chart EXCEPT !.current = at, !.animating = animating, !.pending = TRUE]
  <2>1. CASE AnimationStep
    <3>1. PICK at \in chart.current..chart.target :
            chart' = [chart EXCEPT !.current = at, !.pending = TRUE]
      BY <2>1 DEF AnimationStep
    <3>2. /\ at \in Nat /\ chart.current <= at /\ at <= chart.target
      BY <1>1 DEF Shape
    <3>3. chart' = [chart EXCEPT !.current = at, !.animating = chart.animating, !.pending = TRUE]
      BY <1>1, <3>1 DEF Shape, ChartFields
    <3>4. chart.animating \in BOOLEAN
      BY <1>1 DEF Shape
    <3> QED
      BY <3>2, <3>3, <3>4
  <2>2. CASE AnimationFinished
    <3>1. chart.target \in Nat /\ chart.target <= chart.target
      BY <1>1 DEF Shape
    <3>2. chart' = [chart EXCEPT !.current = chart.target, !.animating = FALSE, !.pending = TRUE]
      BY <2>2 DEF AnimationFinished
    <3> QED
      BY <1>1, <3>1, <3>2
  <2> QED
    BY <2>1, <2>2
<1>3. /\ DOMAIN chart' = ChartFields
      /\ chart'.attached = chart.attached /\ chart'.samples = chart.samples
      /\ chart'.prefix = chart.prefix /\ chart'.hasEnd = chart.hasEnd
      /\ chart'.current = at /\ chart'.target = chart.target
      /\ chart'.animating = animating /\ chart'.origin = chart.origin
      /\ chart'.pending = TRUE /\ chart'.look = chart.look
  BY <1>1, <1>2 DEF Shape, ChartFields
<1>4. Shape(chart')
  BY <1>1, <1>3 DEF Shape
<1>5. Renders(chart'.prefix, chart'.samples, seen, chart'.current)
  <2>1. chart.current \in Nat /\ at >= chart.current
    BY <1>1, <1>2 DEF Shape
  <2>2. Renders(chart.prefix, chart.samples, seen, at)
    BY <1>1, <2>1, RendersLater
  <2> QED
    BY <1>3, <2>2
<1>6. chart'.origin <= chart'.current
  BY <1>1, <1>2, <1>3, <1>4 DEF Shape
<1>7. SeriesInv(chart', seen)
  BY <1>1, <1>2, <1>3, <1>4, <1>5, <1>6 DEF SeriesInv
<1>8. /\ service' = service /\ history' = history /\ frame' = frame /\ seen' = seen
  BY DEF AnimationStep, AnimationFinished
<1>9. ChartInv(chart', seen', history')
  BY <1>3, <1>7, <1>8 DEF HistoryInv, ChartInv
<1>10. FrameInv(chart', frame')
  BY <1>3, <1>8 DEF HistoryInv, FrameInv
<1> QED
  BY <1>2, <1>3, <1>8, <1>9, <1>10 DEF HistoryInv

LEMMA PaintKeeps ==
  ASSUME HistoryInv, Paint
  PROVE  /\ HistoryInv'
         /\ chart'.attached = chart.attached
         /\ chart'.current = chart.current
<1> DEFINE build == IF frame.fresh THEN frame.build ELSE Rebuild
<1>1. /\ Shape(chart) /\ chart.pending = TRUE
      /\ chart' = [chart EXCEPT !.pending = FALSE]
      /\ service' = service /\ history' = history /\ seen' = seen
  BY DEF HistoryInv, ChartInv, SeriesInv, Shape, Paint
<1>2. /\ DOMAIN chart' = ChartFields
      /\ chart'.attached = chart.attached /\ chart'.samples = chart.samples
      /\ chart'.prefix = chart.prefix /\ chart'.hasEnd = chart.hasEnd
      /\ chart'.current = chart.current /\ chart'.target = chart.target
      /\ chart'.animating = chart.animating /\ chart'.origin = chart.origin
      /\ chart'.pending = FALSE /\ chart'.look = chart.look
  BY <1>1 DEF Shape, ChartFields
<1>3. Shape(chart')
  BY <1>1, <1>2 DEF Shape
<1>4. ChartInv(chart', seen', history')
  BY <1>1, <1>2, <1>3 DEF HistoryInv, ChartInv, SeriesInv
<1>5. FrameInv(chart', frame')
  <2>1. CASE Drawable
    <3>1. frame' = [fresh |-> TRUE, shown |-> TRUE, build |-> build,
                    at |-> build.origin + (chart.current - chart.origin)]
      BY <2>1 DEF Paint
    <3>2. /\ build.samples = chart.samples /\ build.prefix = chart.prefix
          /\ build.origin = chart.origin /\ build.look = chart.look
      <4>1. CASE frame.fresh = TRUE
        <5>1. build = frame.build
          BY <4>1
        <5>2. frame.shown = TRUE
          BY <2>1, <4>1 DEF Drawable, HistoryInv, FrameInv
        <5> HIDE DEF build
        <5> QED
          BY <4>1, <5>1, <5>2 DEF HistoryInv, FrameInv
      <4>2. CASE frame.fresh = FALSE
        <5>1. build = Rebuild
          BY <4>2
        <5> QED
          BY <5>1 DEF Rebuild
      <4> QED
        BY <4>1, <4>2 DEF HistoryInv, FrameInv
    <3> HIDE DEF build
    <3>3. /\ frame'.fresh = TRUE /\ frame'.shown = TRUE /\ frame'.build = build
          /\ frame'.at = chart.current
      <4>1. build.origin + (chart.current - chart.origin) = chart.current
        BY <1>1, <3>2 DEF Shape
      <4> QED
        BY <3>1, <4>1
    <3> QED
      BY <1>2, <2>1, <3>2, <3>3 DEF FrameInv, Drawable
  <2>2. CASE ~ Drawable
    <3>1. frame' = [Outdated EXCEPT !.fresh = TRUE]
      BY <2>2 DEF Paint
    <3>2. frame'.fresh = TRUE /\ frame'.shown = FALSE
      BY <3>1 DEF Outdated
    <3> QED
      BY <1>2, <2>2, <3>2 DEF FrameInv, Drawable
  <2> QED
    BY <2>1, <2>2
<1> QED
  BY <1>1, <1>2, <1>4, <1>5 DEF HistoryInv

LEMMA ServiceKeeps ==
  ASSUME HistoryInv, TimerStep \/ ServiceStep \/ CollectionFailed
  PROVE  HistoryInv' /\ chart' = chart
<1>1. /\ history' = history /\ chart' = chart /\ frame' = frame /\ seen' = seen
  BY DEF TimerStep, ServiceStep, CollectionFailed, TimerTimeout, QueuedRefresh,
         WorkerReturns, CollectionThrows
<1>2. CollectingInv(service') /\ service'.elapsed = service.elapsed
  <2>0. CollectingInv(service) /\ service.elapsed \in Nat
    BY DEF HistoryInv, CollectingInv
  <2>1. CASE TimerStep
    BY <2>0, <2>1, TimerKeepsCollecting DEF TimerStep
  <2>2. CASE ServiceStep
    BY <2>0, <2>2, TimerKeepsCollecting, WorkerKeepsCollecting DEF ServiceStep
  <2>3. CASE CollectionFailed
    <3>1. service.finished = TRUE /\ service' = Completed(service, service.elapsed)
      BY <2>0, <2>3 DEF CollectionFailed, CollectionThrows, ResultDelivered, CollectingInv
    <3> QED
      BY <2>0, <3>1, CompletedKeepsCollecting
  <2> QED
    BY <2>1, <2>2, <2>3
<1> QED
  BY <1>1, <1>2 DEF HistoryInv

LEMMA CollectedKeeps ==
  ASSUME HistoryInv, Collected
  PROVE  /\ HistoryInv'
         /\ chart'.attached = chart.attached
         /\ chart.hasEnd = TRUE => chart.current <= chart'.current
<1>1. PICK step \in Steps, known \in SUBSET Metrics, jump \in BOOLEAN :
        LET at == service.elapsed + step
        IN /\ CollectionFinished(at, known)
           /\ IF chart.attached
              THEN /\ chart' = Appended(chart, at, known, jump)
                   /\ frame' = RevisionPassed(frame)
                   /\ seen' = Append(seen, [at |-> at, known |-> known])
              ELSE UNCHANGED <<chart, frame, seen>>
  BY DEF Collected
<1> DEFINE at == service.elapsed + step
           sample == [at |-> at, known |-> known]
<1>2. /\ service.elapsed \in Nat /\ at \in Nat /\ service.elapsed <= at
      /\ sample \in Sample /\ sample.at = at
  <2>1. service.elapsed \in Nat /\ step \in Nat
    BY ServiceAssumption DEF HistoryInv, CollectingInv
  <2>2. at \in Nat /\ service.elapsed <= at
    BY <2>1
  <2> HIDE DEF at
  <2> QED
    BY <2>1, <2>2 DEF Sample
<1> HIDE DEF at
<1>3. /\ CollectionFinished(at, known)
      /\ chart.attached = TRUE =>
           /\ chart' = Appended(chart, at, known, jump)
           /\ frame' = RevisionPassed(frame)
           /\ seen' = Append(seen, sample)
      /\ chart.attached = FALSE => chart' = chart /\ frame' = frame /\ seen' = seen
  BY <1>1 DEF at
<1> HIDE DEF sample
<1>4. CollectingInv(service') /\ service'.elapsed = at
  <2>1. service.finished = TRUE /\ service' = Completed(service, at)
    BY <1>3 DEF CollectionFinished, ResultDelivered, HistoryInv, CollectingInv
  <2> QED
    BY <1>2, <2>1, CompletedKeepsCollecting DEF HistoryInv
<1>5. history' = Append(Remaining(history, at), sample)
  BY <1>3 DEF CollectionFinished, sample
<1>6. Recent(history', at)
  <2> DEFINE n == LeadingBefore(history, at - Window)
             rest == SubSeq(history, n + 1, Len(history))
  <2>1. n \in 0..Len(history)
    <3>1. history \in Seq(Sample) /\ at - Window \in Int
      BY <1>2, WindowIsNumber DEF HistoryInv, Recent
    <3> QED
      BY <3>1, LeadingBeforeStops
  <2>2. rest = Remaining(history, at)
    BY DEF Remaining
  <2> HIDE DEF n
  <2>3. Recent(rest, service.elapsed)
    BY <1>2, <2>1, RecentRemaining DEF HistoryInv
  <2> HIDE DEF rest
  <2> QED
    BY <1>2, <1>5, <2>2, <2>3, RecentAppended DEF EndsWith
<1>7. chart.attached \in BOOLEAN
  BY DEF HistoryInv, ChartInv, SeriesInv, Shape
<1>8. CASE chart.attached = TRUE
  <2>1. Recent(seen', at)
    BY <1>2, <1>3, <1>8, RecentAppended DEF HistoryInv, EndsWith
  <2>2. /\ ShowsModel(chart', chart, history', seen')
        /\ chart.hasEnd = TRUE => chart.current <= chart'.current
    <3>1. sample = [at |-> at, known |-> known]
      BY DEF sample
    <3>2. /\ ChartInv(chart, seen, history)
          /\ Recent(history, service.elapsed) /\ Recent(seen, service.elapsed)
      BY DEF HistoryInv
    <3> DEFINE r == chart'
               more == seen'
               model == history'
               t == service.elapsed
    <3>3. /\ r = Appended(chart, at, known, jump)
          /\ more = Append(seen, sample)
          /\ model = Append(Remaining(history, at), sample)
          /\ ChartInv(chart, seen, history) /\ chart.attached = TRUE
          /\ t \in Nat /\ Recent(history, t) /\ Recent(seen, t)
          /\ at \in Nat /\ t <= at
      BY <1>2, <1>3, <1>5, <1>8, <3>2
    <3> HIDE DEF r, more, model, t
    <3>4. known \in SUBSET Metrics
      OBVIOUS
    <3>5. ShowsModel(r, chart, model, more) /\ (chart.hasEnd = TRUE => chart.current <= r.current)
      BY ONLY <3>1, <3>3, <3>4, AppendedKeeps
    <3> QED
      BY <3>5 DEF r, more, model
  <2>3. ChartInv(chart', seen', history')
    BY <1>8, <2>2 DEF ShowsModel, ChartInv
  <2>4. FrameInv(chart', frame')
    BY <1>3, <1>8, <2>2, RevisedFrame DEF ShowsModel, RevisionPassed
  <2> QED
    BY <1>4, <1>6, <2>1, <2>2, <2>3, <2>4 DEF HistoryInv, ShowsModel
<1>9. CASE chart.attached = FALSE
  <2>1. chart' = chart /\ frame' = frame /\ seen' = seen
    BY <1>3, <1>9
  <2>2. Recent(seen', at)
    BY <1>2, <2>1, RecentLater DEF HistoryInv
  <2>3. ChartInv(chart', seen', history')
    BY <1>9, <2>1 DEF HistoryInv, ChartInv
  <2>4. chart.current <= chart'.current
    BY <2>1 DEF HistoryInv, ChartInv, SeriesInv, Shape
  <2> QED
    BY <1>4, <1>6, <2>1, <2>2, <2>3, <2>4 DEF HistoryInv
<1> QED
  BY <1>7, <1>8, <1>9

LEMMA SetModelKeeps ==
  ASSUME HistoryInv, NEW attach \in BOOLEAN, SetModel(attach)
  PROVE  HistoryInv' /\ chart'.attached # chart.attached
<1> DEFINE c == [chart EXCEPT !.attached = attach, !.samples = <<>>, !.prefix = <<>>]
           model == IF attach THEN history ELSE <<>>
<1>1. /\ chart' = CachedAtOnce(c, model) /\ seen' = model /\ frame' = Outdated
      /\ service' = service /\ history' = history /\ chart.attached # attach
  BY DEF SetModel, RevisionPassed
<1>2. Shape(chart)
  BY DEF HistoryInv, ChartInv, SeriesInv
<1>3. /\ DOMAIN c = ChartFields /\ c.attached = attach /\ c.prefix = <<>>
      /\ c.hasEnd = chart.hasEnd /\ c.animating = chart.animating /\ c.pending = chart.pending
      /\ c.current = chart.current /\ c.target = chart.target /\ c.origin = chart.origin
  BY <1>2 DEF Shape, ChartFields
<1> HIDE DEF c
<1>4. Shape(c)
  BY <1>2, <1>3 DEF Shape
<1>5. Recent(model, service.elapsed)
  BY EmptyRecent DEF HistoryInv
<1>6. ShowsModel(chart', c, model, model)
  <2> HIDE DEF model
  <2> QED
    BY <1>1, <1>3, <1>4, <1>5, CachedAtOnceKeeps
<1>7. /\ SeriesInv(chart', model) /\ chart'.samples = model
      /\ chart'.attached = attach /\ chart'.pending = TRUE
  BY <1>3, <1>6 DEF ShowsModel
<1>8. ChartInv(chart', seen', history')
  <2>1. CASE attach = TRUE
    BY <1>1, <1>7, <2>1 DEF ChartInv
  <2>2. CASE attach = FALSE
    BY <1>1, <1>7, <2>2 DEF ChartInv
  <2> QED
    BY <2>1, <2>2
<1>9. FrameInv(chart', frame')
  BY <1>1, <1>7, RevisedFrame
<1> HIDE DEF model
<1> QED
  BY <1>1, <1>5, <1>7, <1>8, <1>9 DEF HistoryInv

LEMMA LookKeeps ==
  ASSUME HistoryInv, SceneReleased \/ \E look \in Looks : SetLook(look)
  PROVE  /\ HistoryInv'
         /\ chart'.attached = chart.attached
         /\ chart'.current = chart.current
<1>1. Shape(chart) /\ chart.origin <= chart.current
  BY DEF HistoryInv, ChartInv, SeriesInv
<1>2. /\ service' = service /\ history' = history /\ seen' = seen /\ frame' = Outdated
  BY DEF SceneReleased, SetLook, RevisionPassed
<1>3. /\ DOMAIN chart' = ChartFields
      /\ chart'.attached = chart.attached /\ chart'.samples = chart.samples
      /\ chart'.prefix = chart.prefix /\ chart'.hasEnd = chart.hasEnd
      /\ chart'.current = chart.current /\ chart'.target = chart.target
      /\ chart'.animating = chart.animating
      /\ chart'.origin \in {chart.origin, chart.current}
      /\ chart'.pending = TRUE
  <2>1. CASE SceneReleased
    BY <1>1, <2>1 DEF SceneReleased, Shape, ChartFields
  <2>2. CASE \E look \in Looks : SetLook(look)
    <3>1. PICK look \in Looks : SetLook(look)
      BY <2>2
    <3> QED
      BY <1>1, <3>1 DEF SetLook, Rebuilt, Shape, ChartFields
  <2> QED
    BY <2>1, <2>2
<1>4. chart'.origin \in Nat /\ chart'.origin <= chart'.current
  BY <1>1, <1>3 DEF Shape
<1>5. Shape(chart')
  BY <1>1, <1>3, <1>4 DEF Shape
<1>6. ChartInv(chart', seen', history')
  BY <1>2, <1>3, <1>4, <1>5 DEF HistoryInv, ChartInv, SeriesInv
<1>7. FrameInv(chart', frame')
  BY <1>2, <1>3, RevisedFrame
<1> QED
  BY <1>2, <1>3, <1>6, <1>7 DEF HistoryInv

LEMMA HistoryStepKeeps ==
  ASSUME HistoryInv, [HistoryNext]_historyVars
  PROVE  /\ HistoryInv'
         /\ (chart.attached = chart'.attached /\ chart.hasEnd = TRUE) =>
              chart.current <= chart'.current
<1>0. chart.current \in Nat
  BY DEF HistoryInv, ChartInv, SeriesInv, Shape
<1>1. CASE TimerStep \/ ServiceStep \/ CollectionFailed
  BY <1>0, <1>1, ServiceKeeps
<1>2. CASE Collected
  BY <1>2, CollectedKeeps
<1>3. ASSUME NEW attach \in BOOLEAN, SetModel(attach)
      PROVE  HistoryInv' /\ chart.attached # chart'.attached
  BY <1>3, SetModelKeeps
<1>4. CASE SceneReleased \/ \E look \in Looks : SetLook(look)
  BY <1>0, <1>4, LookKeeps
<1>5. CASE AnimationStep \/ AnimationFinished
  BY <1>5, AnimationKeeps
<1>6. CASE Paint
  BY <1>0, <1>6, PaintKeeps
<1>7. CASE UNCHANGED historyVars
  BY <1>0, <1>7 DEF historyVars, HistoryInv
<1> QED
  BY <1>1, <1>2, <1>3, <1>4, <1>5, <1>6, <1>7 DEF HistoryNext

LEMMA HistoryInvariant == HistorySafety => []HistoryInv
<1>1. HistoryInit => HistoryInv
  BY HistoryInitially
<1>2. HistoryInv /\ [HistoryNext]_historyVars => HistoryInv'
  BY HistoryStepKeeps
<1> QED
  BY <1>1, <1>2, PTL DEF HistorySafety
-----------------------------------------------------------------------------
(* Theorems *)

\* However timer, queued refreshes, the worker and its result interleave, the
\* collector has one user at a time.
THEOREM HistoryOneCollection == HistorySpec => []OneCollection
<1>1. HistoryInv => OneCollection
  BY DEF HistoryInv, CollectingInv, OneCollection
<1> QED
  BY <1>1, HistoryInvariant, PTL DEF HistorySpec, HistorySafety

\* What the scene shows is the displayed window of what was measured: for any window, any
\* times of the samples and any order of removals, interrupted transitions and paints.
LEMMA InvariantFrame ==
  ASSUME HistoryInv
  PROVE  FrameIsTruthful
<1> SUFFICES ASSUME ~ chart.pending
             PROVE  /\ frame.shown <=> (seen # <<>> /\ chart.look # 0)
                    /\ frame.shown =>
                         /\ frame.build.look = chart.look
                         /\ frame.at = chart.current
                         /\ \A metric \in Metrics :
                              /\ VisibleTimes(frame, metric) = MeasuredTimes(metric)
                              /\ MarkerShown(frame, metric) <=>
                                   \/ chart.current \in MeasuredTimes(metric)
                                   \/ metric \in Last(seen).known /\ Last(seen).at = chart.current
  BY DEF FrameIsTruthful
<1>1. /\ Shape(chart) /\ chart.origin <= chart.current
      /\ Renders(chart.prefix, chart.samples, seen, chart.current)
      /\ Sorted(seen)
      /\ seen # <<>> => chart.samples # <<>>
  BY DEF HistoryInv, ChartInv, SeriesInv, Recent
<1>2. chart.pending = FALSE /\ chart.current \in Nat /\ chart.origin \in Nat
  BY <1>1 DEF Shape
<1>3. chart.samples # <<>> => seen # <<>> /\ Last(chart.samples) = Last(seen)
  BY <1>1, LastRendered
<1>4. /\ frame.shown \in BOOLEAN
      /\ (frame.shown = TRUE) <=> (chart.samples # <<>> /\ chart.look # 0)
      /\ frame.shown = TRUE =>
           /\ frame.build.samples = chart.samples /\ frame.build.prefix = chart.prefix
           /\ frame.build.origin = chart.origin /\ frame.build.look = chart.look
           /\ frame.at = chart.current
  BY <1>2 DEF HistoryInv, FrameInv
<1>5. frame.shown <=> (seen # <<>> /\ chart.look # 0)
  BY <1>1, <1>3, <1>4
<1>6. ASSUME frame.shown, NEW metric \in Metrics
      PROVE  /\ VisibleTimes(frame, metric) = MeasuredTimes(metric)
             /\ MarkerShown(frame, metric) <=>
                  \/ chart.current \in MeasuredTimes(metric)
                  \/ metric \in Last(seen).known /\ Last(seen).at = chart.current
  <2>1. /\ frame.build.samples = chart.samples /\ frame.build.prefix = chart.prefix
        /\ frame.build.origin = chart.origin /\ frame.at = chart.current
        /\ chart.samples # <<>>
    BY <1>4, <1>6
  <2>2. /\ RenderSamples(frame.build) = chart.prefix \o chart.samples
        /\ RenderSamples(frame.build) \in Seq(Sample)
    <3>1. chart.prefix \in Seq(Sample) /\ chart.samples \in Seq(Sample)
      BY <1>1 DEF Renders
    <3>2. RenderSamples(frame.build) = chart.prefix \o chart.samples
      BY <2>1 DEF RenderSamples
    <3> QED
      BY <3>1, <3>2, ConcatProperties
  <2>3. \A x \in (chart.current - Window)..chart.current :
          OnCurve(frame.build, metric, x) <=> Between(seen, metric, x)
    <3> SUFFICES ASSUME NEW x \in (chart.current - Window)..chart.current
                 PROVE  OnCurve(frame.build, metric, x) <=> Between(seen, metric, x)
      OBVIOUS
    <3>1. /\ x \in Int /\ chart.current - Window <= x
          /\ frame.build.origin \in Nat /\ frame.build.origin - Window <= x
      BY <1>1, <1>2, <2>1, WindowIsNumber
    <3>2. OnCurve(frame.build, metric, x) <=> Between(chart.prefix \o chart.samples, metric, x)
      BY <2>2, <3>1, CurveCovers
    <3>3. Between(chart.prefix \o chart.samples, metric, x) <=> Between(seen, metric, x)
      BY <1>1, <1>2, <3>1, RendersWindow
    <3> QED
      BY <3>2, <3>3
  <2>4. VisibleTimes(frame, metric)
          = {x \in (chart.current - Window)..chart.current : OnCurve(frame.build, metric, x)}
    BY <2>1 DEF VisibleTimes, OnCurve
  <2>5. MeasuredTimes(metric)
          = {x \in (chart.current - Window)..chart.current : Between(seen, metric, x)}
    BY DEF MeasuredTimes, Between
  <2>6. VisibleTimes(frame, metric) = MeasuredTimes(metric)
    BY <2>3, <2>4, <2>5
  <2>7. chart.current \in (chart.current - Window)..chart.current
    BY <1>2, WindowIsNumber
  <2>8. OnCurve(frame.build, metric, frame.at) <=> chart.current \in MeasuredTimes(metric)
    BY <2>1, <2>3, <2>5, <2>7
  <2>9. frame.at \in Endpoint(frame.build, metric)
          <=> metric \in Last(seen).known /\ Last(seen).at = chart.current
    BY <1>3, <2>1 DEF Endpoint
  <2>10. MarkerShown(frame, metric) <=>
           OnCurve(frame.build, metric, frame.at) \/ frame.at \in Endpoint(frame.build, metric)
    BY DEF MarkerShown, OnCurve
  <2> QED
    BY <2>6, <2>8, <2>9, <2>10
<1> QED
  BY <1>4, <1>5, <1>6

\* The picture on the screen is exactly what was measured whenever no repaint is due.
THEOREM HistoryFrameIsTruthful == HistorySpec => []FrameIsTruthful
BY HistoryInvariant, InvariantFrame, PTL DEF HistorySpec, HistorySafety

\* While a model stays attached the displayed time never goes back and never
\* passes the newest sample.
THEOREM HistoryNeverScrollsBack == HistorySpec => NeverScrollsBack
<1>1. ASSUME HistoryInv, [HistoryNext]_historyVars
      PROVE  [(chart.attached /\ chart'.attached /\ chart.hasEnd) =>
                /\ chart'.current >= chart.current
                /\ chart'.current <= Last(seen').at]_historyVars
  <2> SUFFICES ASSUME chart.attached, chart'.attached, chart.hasEnd, HistoryNext
               PROVE  /\ chart'.current >= chart.current
                      /\ chart'.current <= Last(seen').at
    BY <1>1
  <2>1. /\ HistoryInv'
        /\ (chart.attached = chart'.attached /\ chart.hasEnd = TRUE) =>
              chart.current <= chart'.current
    BY <1>1, HistoryStepKeeps
  <2>2. /\ Shape(chart) /\ Shape(chart') /\ SeriesInv(chart', seen')
        /\ chart.hasEnd = TRUE => seen # <<>>
    BY <1>1, <2>1 DEF HistoryInv, ChartInv, SeriesInv
  <2>3. chart.attached = TRUE /\ chart'.attached = TRUE /\ chart.hasEnd = TRUE
    BY <2>2 DEF Shape
  <2>4. chart'.current >= chart.current
    BY <2>1, <2>2, <2>3 DEF Shape
  <2>5. seen' # <<>>
    <3>0. seen # <<>> /\ seen \in Seq(Sample)
      BY <1>1, <2>2, <2>3 DEF HistoryInv, Recent
    <3>1. ~ \E attach \in BOOLEAN : SetModel(attach)
      BY <1>1, <2>3, SetModelKeeps
    <3>2. CASE Collected
      <4>1. seen' = seen \/ \E sample : seen' = Append(seen, sample)
        BY <3>2 DEF Collected
      <4> QED
        BY <3>0, <4>1
    <3>3. CASE ~ Collected
      <4>1. seen' = seen
        BY <3>1, <3>3 DEF HistoryNext, TimerStep, ServiceStep, CollectionFailed, SetLook,
           AnimationStep, AnimationFinished, SceneReleased, Paint
      <4> QED
        BY <3>0, <4>1
    <3> QED
      BY <3>2, <3>3
  <2> QED
    BY <2>2, <2>4, <2>5 DEF SeriesInv, Shape
<1> QED
  BY <1>1, HistoryInvariant, PTL DEF HistorySpec, HistorySafety, NeverScrollsBack
=============================================================================
