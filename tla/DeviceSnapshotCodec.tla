------------------------- MODULE DeviceSnapshotCodec -------------------------
(***************************************************************************)
(* What the dashboard's decoder accepts as the metrics of a snapshot       *)
(* (metricsFromMap() of src/protocol/device_snapshot.cpp).                 *)
(*                                                                         *)
(* Data.  Metrics are a record with one field for every value of a         *)
(* daemon's metrics that the decoder tests: amounts are integers with None *)
(* for an absent one, a ratio is the part and the whole it is computed     *)
(* from, a floating-point number is told by its kind ("absent", "finite",  *)
(* "negative", or "infinite" for what is no number too), and a text is a   *)
(* name that is in Texts or not.  The three load averages are sent         *)
(* together and are one field.  Rates are not tested: a difference of two  *)
(* counters over a positive time is finite.  The daemon sends no list of   *)
(* logical processors, and always sends the type that the decoder expects. *)
(* WireMax stands for the largest integer that a CBOR value may carry as   *)
(* an int64, and the limits for 64, 64 and 16 entries.                     *)
(***************************************************************************)
EXTENDS Integers, Sequences, SequencesExt

CONSTANTS
  WireMax,        \* kWireMaximum, 2^63 - 1
  MaxVolumes,     \* entries of storage_volumes
  MaxInterfaces,  \* of network_interfaces
  MaxGpus,        \* of gpus
  Texts           \* the names of 1 to 256 bytes of UTF-8, validText()

ASSUME CodecAssumption == {WireMax, MaxVolumes, MaxInterfaces, MaxGpus} \subseteq Nat \ {0}

None == -1

NoRatio == [part |-> None, whole |-> None]

\* integer(): absent, or within 64 bits with a sign.
Integral(value) == value \in {None} \cup 0..WireMax

\* number()
Finite(kind) == kind # "infinite"

\* number() of a ratio: absent, or between 0 and 1.
Ratio(usage) == usage = NoRatio \/ usage.part \in 0..usage.whole

\* The check of an amount that is a part of another, when both are there.
PartOf(available, total) == None \in {available, total} \/ available <= total

NamesDiffer(entries) == IsInjective([i \in DOMAIN entries |-> entries[i].name])

\* named(): no more entries than the limit, with valid names and no name twice.
Named(entries, limit) ==
  /\ Len(entries) <= limit
  /\ \A i \in DOMAIN entries : entries[i].name \in Texts
  /\ NamesDiffer(entries)

Volume(v) ==
  /\ v.device \in Texts
  /\ Integral(v.total) /\ Integral(v.available) /\ PartOf(v.available, v.total)

Gpu(g) ==
  /\ Ratio(g.usage)
  /\ \A amount \in {g.total, g.used, g.clock, g.memoryClock} : Integral(amount)
  /\ Finite(g.temperature)
  /\ PartOf(g.used, g.total)

MetricsFromMap(m) ==
  /\ Ratio(m.usage)
  /\ \A kind \in {m.temperature, m.uptime, m.load} : Finite(kind)
  /\ \A amount \in {m.total, m.available, m.swapTotal, m.swapAvailable} : Integral(amount)
  /\ PartOf(m.available, m.total) /\ PartOf(m.swapAvailable, m.swapTotal)
  /\ Named(m.volumes, MaxVolumes)
  /\ \A i \in DOMAIN m.volumes : Volume(m.volumes[i])
  /\ Named(m.interfaces, MaxInterfaces)
  /\ \A i \in DOMAIN m.interfaces : Integral(m.interfaces[i].rx) /\ Integral(m.interfaces[i].tx)
  /\ Named(m.gpus, MaxGpus)
  /\ \A i \in DOMAIN m.gpus : Gpu(m.gpus[i])
=============================================================================
