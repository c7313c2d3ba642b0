------------------------ MODULE ProjectsServiceProofs ------------------------
(***************************************************************************)
(* What holds of the projects service for any repositories, runs and       *)
(* pages, any number of requests in flight and any order of replies.       *)
(*                                                                         *)
(* Handlers call each other deeply, so the proof does not follow calls:    *)
(* it first says what each operator leaves of the members it is given      *)
(* (Keeps), then that the handler of every reply has one of a few outcomes *)
(* (Outcome), and shows once for each outcome that starting the waiting    *)
(* requests and dropping unused objects (Settled) restores ProjectsInv.    *)
(***************************************************************************)
EXTENDS ProjectsService, SequenceTheorems, FiniteSetTheorems, WellFoundedInduction, TLAPS
-----------------------------------------------------------------------------
(* Sequences of anything, and how many requests of a kind they hold *)

IsSeq(q) == \E S : q \in Seq(S)

CountOf(q, kinds) == Cardinality(OfKind(q, kinds))

LEMMA SeqLength ==
  ASSUME NEW q, IsSeq(q)
  PROVE  Len(q) \in Nat /\ DOMAIN q = 1..Len(q) /\ (q = <<>> <=> Len(q) = 0)
<1>1. PICK S : q \in Seq(S)
  BY DEF IsSeq
<1> QED
  BY <1>1, EmptySeq, LenProperties

(* q is a followed by b. *)
Joined(q, a, b) ==
    /\ IsSeq(q)
    /\ Len(q) = Len(a) + Len(b)
    /\ \A i \in 1..Len(a) : q[i] = a[i]
    /\ \A i \in 1..Len(b) : q[Len(a) + i] = b[i]

(* p is q from its m-th to its n-th element. *)
PartOf(p, q, m, n) ==
    /\ IsSeq(p)
    /\ Len(p) = n - m + 1
    /\ \A i \in 1..Len(p) : m + i - 1 \in 1..Len(q) /\ p[i] = q[m + i - 1]

LEMMA SeqConcat ==
  ASSUME NEW a, NEW b, IsSeq(a), IsSeq(b), NEW q, q = a \o b
  PROVE  Joined(q, a, b)
<1>1. PICK S : a \in Seq(S)
  BY DEF IsSeq
<1>2. PICK T : b \in Seq(T)
  BY DEF IsSeq
<1>3. a \in Seq(S \cup T) /\ b \in Seq(S \cup T)
  <2>1. S \subseteq S \cup T /\ T \subseteq S \cup T
    OBVIOUS
  <2> QED
    BY <1>1, <1>2, <2>1, SeqMonotonic
<1>4. Len(a) \in Nat /\ Len(b) \in Nat
  BY SeqLength
<1>5. /\ q \in Seq(S \cup T)
      /\ Len(q) = Len(a) + Len(b)
      /\ \A i \in 1..(Len(a) + Len(b)) : q[i] = IF i <= Len(a) THEN a[i] ELSE b[i - Len(a)]
  BY <1>3, ConcatProperties
<1>6. ASSUME NEW i \in 1..Len(a)
      PROVE  q[i] = a[i]
  <2>1. i \in 1..(Len(a) + Len(b)) /\ i <= Len(a)
    BY <1>4
  <2> QED
    BY <1>5, <2>1
<1>7. ASSUME NEW i \in 1..Len(b)
      PROVE  q[Len(a) + i] = b[i]
  <2>1. /\ Len(a) + i \in 1..(Len(a) + Len(b)) /\ ~ (Len(a) + i <= Len(a))
        /\ (Len(a) + i) - Len(a) = i
    BY <1>4
  <2> QED
    BY <1>5, <2>1
<1> QED
  BY <1>5, <1>6, <1>7 DEF IsSeq, Joined

LEMMA SeqPart ==
  ASSUME NEW q, IsSeq(q), NEW m \in Nat, NEW n \in Nat, 1 <= m, m <= n + 1, n <= Len(q),
         NEW p, p = SubSeq(q, m, n)
  PROVE  PartOf(p, q, m, n)
<1>1. PICK S : q \in Seq(S)
  BY DEF IsSeq
<1>2. Len(q) \in Nat
  BY SeqLength
<1>3. \A i \in m..n : q[i] \in S
  <2>1. \A i \in m..n : i \in 1..Len(q)
    BY <1>2
  <2> QED
    BY <1>1, <2>1, ElementOfSeq
<1>4. /\ p \in Seq(S)
      /\ Len(p) = IF m <= n THEN n - m + 1 ELSE 0
      /\ \A i \in 1..(n - m + 1) : p[i] = q[m + i - 1]
  BY <1>3, SubSeqProperties
<1>5. Len(p) = n - m + 1
  <2>1. CASE m <= n
    BY <1>4, <2>1
  <2>2. CASE ~ (m <= n)
    <3>1. n - m + 1 = 0
      BY <2>2
    <3> QED
      BY <1>4, <2>2, <3>1
  <2> QED
    BY <2>1, <2>2
<1>6. \A i \in 1..(n - m + 1) : m + i - 1 \in 1..Len(q)
  BY <1>2
<1> QED
  BY <1>4, <1>5, <1>6 DEF IsSeq, PartOf

LEMMA SplitSeq ==
  ASSUME NEW q, IsSeq(q), NEW n \in Nat, n <= Len(q)
  PROVE  q = SubSeq(q, 1, n) \o SubSeq(q, n + 1, Len(q))
<1>1. PICK S : q \in Seq(S)
  BY DEF IsSeq
<1>2. Len(q) \in Nat
  BY SeqLength
<1>3. SubSeq(q, 1, n) \o SubSeq(q, n + 1, Len(q)) = SubSeq(q, 1, Len(q))
  <2>1. 1 \in 1..Len(q) + 1 /\ n \in 1 - 1..Len(q) /\ Len(q) \in n..Len(q)
    BY <1>2
  <2> QED
    BY <1>1, <2>1, ConcatAdjacentSubSeq
<1> QED
  BY <1>1, <1>3, SubSeqFull

LEMMA CountIsNumber ==
  ASSUME NEW q, IsSeq(q), NEW kinds
  PROVE  /\ CountOf(q, kinds) \in Nat
         /\ IsFiniteSet(OfKind(q, kinds))
         /\ CountOf(q, kinds) = 0 <=> OfKind(q, kinds) = {}
<1>1. Len(q) \in Nat /\ OfKind(q, kinds) \in SUBSET (1..Len(q))
  BY SeqLength DEF OfKind
<1>2. IsFiniteSet(1..Len(q))
  BY <1>1, FS_Interval
<1>3. IsFiniteSet(OfKind(q, kinds))
  BY <1>1, <1>2, FS_Subset
<1> QED
  BY <1>3, FS_CardinalityType, FS_EmptySet DEF CountOf

LEMMA CountConcat ==
  ASSUME NEW a, NEW b, IsSeq(a), IsSeq(b), NEW kinds
  PROVE  CountOf(a \o b, kinds) = CountOf(a, kinds) + CountOf(b, kinds)
<1> DEFINE q == a \o b
           A == OfKind(a, kinds)
           B == OfKind(b, kinds)
           shift == [i \in B |-> Len(a) + i]
           C == {Len(a) + i : i \in B}
<1>1. /\ Len(a) \in Nat /\ Len(b) \in Nat
      /\ DOMAIN a = 1..Len(a) /\ DOMAIN b = 1..Len(b)
  BY SeqLength
<1>0. q = a \o b
  OBVIOUS
<1> HIDE DEF q
<1>2. /\ IsSeq(q) /\ Len(q) = Len(a) + Len(b)
      /\ \A i \in 1..Len(a) : q[i] = a[i]
      /\ \A i \in 1..Len(b) : q[Len(a) + i] = b[i]
  <2>1. Joined(q, a, b)
    BY <1>0, SeqConcat, Zenon
  <2> QED
    BY <2>1 DEF Joined
<1>3. DOMAIN q = 1..(Len(a) + Len(b))
  BY <1>2, SeqLength
<1>4. A \subseteq 1..Len(a) /\ B \subseteq 1..Len(b)
  BY <1>1 DEF OfKind
<1>5. OfKind(q, kinds) = A \cup C
  <2>1. ASSUME NEW i \in OfKind(q, kinds)
        PROVE  i \in A \cup C
    <3>1. i \in 1..(Len(a) + Len(b)) /\ q[i].kind \in kinds
      BY <1>3 DEF OfKind
    <3>2. CASE i <= Len(a)
      <4>1. i \in 1..Len(a)
        BY <1>1, <3>1, <3>2
      <4> QED
        BY <1>1, <1>2, <3>1, <4>1 DEF OfKind
    <3>3. CASE ~ (i <= Len(a))
      <4>1. i - Len(a) \in 1..Len(b) /\ Len(a) + (i - Len(a)) = i
        BY <1>1, <3>1, <3>3
      <4>2. b[i - Len(a)].kind \in kinds
        BY <1>2, <3>1, <4>1
      <4>3. i - Len(a) \in B
        BY <1>1, <4>1, <4>2 DEF OfKind
      <4> QED
        BY <4>1, <4>3
    <3> QED
      BY <3>2, <3>3
  <2>2. ASSUME NEW i \in A
        PROVE  i \in OfKind(q, kinds)
    <3>1. i \in 1..Len(a) /\ a[i].kind \in kinds /\ i \in 1..(Len(a) + Len(b))
      BY <1>1 DEF OfKind
    <3> QED
      BY <1>2, <1>3, <3>1 DEF OfKind
  <2>3. ASSUME NEW i \in B
        PROVE  Len(a) + i \in OfKind(q, kinds)
    <3>1. i \in 1..Len(b) /\ b[i].kind \in kinds /\ Len(a) + i \in 1..(Len(a) + Len(b))
      BY <1>1 DEF OfKind
    <3> QED
      BY <1>2, <1>3, <3>1 DEF OfKind
  <2> HIDE DEF A, B
  <2> QED
    BY <2>1, <2>2, <2>3
<1>6. IsFiniteSet(A) /\ IsFiniteSet(B)
  BY CountIsNumber
<1> HIDE DEF A, B
<1>7. IsFiniteSet(C) /\ Cardinality(C) = Cardinality(B)
  <2>1. shift \in [B -> C] /\ \A i \in B : shift[i] = Len(a) + i
    OBVIOUS
  <2>2. \A i, j \in B : shift[i] = shift[j] => i = j
    BY <1>1, <1>4, <2>1
  <2>3. shift \in Bijection(B, C)
    BY <2>1, <2>2 DEF Bijection, Injection, Surjection, IsInjective
  <2> QED
    BY <1>6, <2>3, FS_Bijection DEF ExistsBijection
<1>8. A \cap C = {}
  BY <1>1, <1>4
<1>9. Cardinality(A \cup C) = Cardinality(A) + Cardinality(C)
  <2>1. Cardinality(A) \in Nat /\ Cardinality(C) \in Nat
    BY <1>6, <1>7, FS_CardinalityType
  <2> HIDE DEF C
  <2>2. Cardinality(A \cup C) = Cardinality(A) + Cardinality(C) - Cardinality(A \cap C)
    BY <1>6, <1>7, FS_Union
  <2> QED
    BY <1>8, <2>1, <2>2, FS_EmptySet
<1> QED
  BY <1>5, <1>7, <1>9 DEF CountOf, A, B, q
-----------------------------------------------------------------------------
(* The members of the service, and what a step leaves alone *)

Members == {"token", "state", "stale", "counting", "count", "interval", "pollLeft", "queue", "active",
            "cells", "pendingRuns", "projects", "selectedIndex", "selectedKey", "stages", "history",
            "pendingRunners", "runnerCell", "runnerIds", "onlineIds", "total", "online"}

(* r differs from s at most in the members F. *)
Keeps(r, s, F) == DOMAIN r = Members /\ \A f \in Members \ F : r[f] = s[f]

(* A service whose queue works: never more requests in flight than allowed. *)
Able(s) ==
    /\ DOMAIN s = Members
    /\ IsSeq(s.active) /\ IsSeq(s.queue)
    /\ Len(s.active) <= MaxConcurrent
    /\ s.count \in Nat

(* The requests of r are those of s and the new ones. *)
Adds(r, s, new) ==
    /\ Able(r)
    /\ Outstanding(r) = Outstanding(s) \cup ToSet(new)
    /\ \A kinds : HowMany(r, kinds) = HowMany(s, kinds) + CountOf(new, kinds)

Slots(s) ==
    /\ Len(s.active) <= MaxConcurrent
    /\ s.queue # <<>> => Len(s.active) = MaxConcurrent

QueueMembers == {"active", "queue", "count"}

LEMMA EmptyCount ==
  /\ IsSeq(<<>>) /\ ToSet(<<>>) = {}
  /\ \A kinds : CountOf(<<>>, kinds) = 0
<1>1. IsSeq(<<>>)
  BY EmptySeq DEF IsSeq
<1>2. DOMAIN <<>> = {}
  BY <1>1, SeqLength, EmptySeq
<1> QED
  BY <1>1, <1>2, FS_EmptySet DEF ToSet, CountOf, OfKind

LEMMA ToSetConcat ==
  ASSUME NEW a, NEW b, IsSeq(a), IsSeq(b)
  PROVE  ToSet(a \o b) = ToSet(a) \cup ToSet(b)
<1> DEFINE q == a \o b
<1>0. q = a \o b
  OBVIOUS
<1> HIDE DEF q
<1>1. /\ Len(a) \in Nat /\ Len(b) \in Nat
      /\ DOMAIN a = 1..Len(a) /\ DOMAIN b = 1..Len(b)
  BY SeqLength
<1>2. /\ IsSeq(q) /\ Len(q) = Len(a) + Len(b)
      /\ \A i \in 1..Len(a) : q[i] = a[i]
      /\ \A i \in 1..Len(b) : q[Len(a) + i] = b[i]
  <2>1. Joined(q, a, b)
    BY <1>0, SeqConcat, Zenon
  <2> QED
    BY <2>1 DEF Joined
<1>3. DOMAIN q = 1..(Len(a) + Len(b))
  BY <1>2, SeqLength
<1>4. ASSUME NEW i \in 1..(Len(a) + Len(b))
      PROVE  q[i] \in ToSet(a) \cup ToSet(b)
  <2>1. CASE i <= Len(a)
    <3>1. i \in 1..Len(a)
      BY <1>1, <2>1
    <3> QED
      BY <1>1, <1>2, <3>1 DEF ToSet
  <2>2. CASE ~ (i <= Len(a))
    <3>1. i - Len(a) \in 1..Len(b) /\ Len(a) + (i - Len(a)) = i
      BY <1>1, <2>2
    <3> QED
      BY <1>1, <1>2, <3>1 DEF ToSet
  <2> QED
    BY <2>1, <2>2
<1>5. ASSUME NEW i \in 1..Len(a)
      PROVE  a[i] \in ToSet(q)
  <2>1. i \in 1..(Len(a) + Len(b))
    BY <1>1
  <2> QED
    BY <1>2, <1>3, <2>1 DEF ToSet
<1>6. ASSUME NEW i \in 1..Len(b)
      PROVE  b[i] \in ToSet(q)
  <2>1. Len(a) + i \in 1..(Len(a) + Len(b))
    BY <1>1
  <2> QED
    BY <1>2, <1>3, <2>1 DEF ToSet
<1>7. ToSet(q) = ToSet(a) \cup ToSet(b)
  <2>1. ToSet(q) = {q[i] : i \in 1..(Len(a) + Len(b))}
    BY <1>3 DEF ToSet
  <2>2. ToSet(a) = {a[i] : i \in 1..Len(a)} /\ ToSet(b) = {b[i] : i \in 1..Len(b)}
    BY <1>1 DEF ToSet
  <2>3. ToSet(q) \subseteq ToSet(a) \cup ToSet(b)
    BY <1>4, <2>1
  <2>4. ToSet(a) \subseteq ToSet(q) /\ ToSet(b) \subseteq ToSet(q)
    BY <1>5, <1>6, <2>2
  <2> QED
    BY <2>3, <2>4
<1> QED
  BY <1>0, <1>7

LEMMA StartRequestsEffect ==
  ASSUME NEW s, Able(s), NEW r, r = StartRequests(s)
  PROVE  Keeps(r, s, QueueMembers) /\ Adds(r, s, <<>>) /\ Slots(r)
<1> DEFINE room == MaxConcurrent - Len(s.active)
           n == IF room < Len(s.queue) THEN room ELSE Len(s.queue)
           counted == IF s.count + n < MaxCount THEN s.count + n ELSE MaxCount
           started == SubSeq(s.queue, 1, n)
           left == SubSeq(s.queue, n + 1, Len(s.queue))
           c == IF s.counting THEN counted ELSE s.count
<1>1. r = [s EXCEPT !.active = s.active \o started, !.queue = left, !.count = c]
  BY Zenon DEF StartRequests
<1>2. /\ DOMAIN s = Members /\ IsSeq(s.active) /\ IsSeq(s.queue) /\ Len(s.active) <= MaxConcurrent
      /\ s.count \in Nat
  BY DEF Able
<1>3. Len(s.active) \in Nat /\ Len(s.queue) \in Nat /\ MaxConcurrent \in Nat /\ MaxCount \in Nat
  BY <1>2, SeqLength, SizesAreNumbers
<1>4. n \in Nat /\ n <= Len(s.queue) /\ n <= room /\ (n < Len(s.queue) => n = room)
  <2>0. room \in Int /\ room >= 0
    BY <1>2, <1>3
  <2> HIDE DEF room
  <2>1. CASE room < Len(s.queue)
    BY <1>3, <2>0, <2>1
  <2>2. CASE ~ (room < Len(s.queue))
    BY <1>3, <2>0, <2>2
  <2> QED
    BY <2>1, <2>2
<1>5. c \in Nat
  BY <1>2, <1>3, <1>4
<1> HIDE DEF c, counted, n
<1>6. PartOf(started, s.queue, 1, n) /\ PartOf(left, s.queue, n + 1, Len(s.queue))
  <2>1. started = SubSeq(s.queue, 1, n) /\ left = SubSeq(s.queue, n + 1, Len(s.queue))
    OBVIOUS
  <2>2. 1 \in Nat /\ n + 1 \in Nat /\ 1 <= 1 /\ 1 <= n + 1 /\ n + 1 <= Len(s.queue) + 1 /\ Len(s.queue) <= Len(s.queue)
    BY <1>3, <1>4
  <2> HIDE DEF started, left
  <2> QED
    BY <1>2, <1>3, <1>4, <2>1, <2>2, SeqPart, Zenon
<1>7. /\ IsSeq(started) /\ Len(started) = n
      /\ IsSeq(left) /\ Len(left) = Len(s.queue) - n
  BY <1>3, <1>4, <1>6 DEF PartOf
<1>8. s.queue = started \o left
  BY <1>2, <1>4, SplitSeq
<1> HIDE DEF started, left
<1>9. DOMAIN r = Members /\ r.active = s.active \o started /\ r.queue = left /\ r.count = c
  BY <1>1, <1>2 DEF Members
<1>10. Keeps(r, s, QueueMembers)
  BY <1>1, <1>2 DEF Keeps, QueueMembers
<1>11. Joined(r.active, s.active, started)
  BY <1>2, <1>7, <1>9, SeqConcat, Zenon
<1>12. IsSeq(r.active) /\ Len(r.active) = Len(s.active) + n
  BY <1>7, <1>11 DEF Joined
<1>13. Able(r)
  BY <1>3, <1>4, <1>5, <1>7, <1>9, <1>12 DEF Able
<1>14. Slots(r)
  <2>1. left # <<>> => n = room
    BY <1>3, <1>4, <1>7, SeqLength
  <2> QED
    BY <1>3, <1>4, <1>9, <1>12, <2>1 DEF Slots
<1>15. ToSet(r.active) = ToSet(s.active) \cup ToSet(started)
  BY <1>2, <1>7, <1>9, ToSetConcat
<1>16. ToSet(s.queue) = ToSet(started) \cup ToSet(left)
  BY <1>7, <1>8, ToSetConcat
<1>17. Outstanding(r) = Outstanding(s) \cup ToSet(<<>>)
  BY <1>9, <1>15, <1>16, EmptyCount DEF Outstanding
<1>18. ASSUME NEW kinds
       PROVE  HowMany(r, kinds) = HowMany(s, kinds) + CountOf(<<>>, kinds)
  <2>1. CountOf(r.active, kinds) = CountOf(s.active, kinds) + CountOf(started, kinds)
    BY <1>2, <1>7, <1>9, CountConcat
  <2>2. CountOf(s.queue, kinds) = CountOf(started, kinds) + CountOf(left, kinds)
    BY <1>7, <1>8, CountConcat
  <2>3. /\ CountOf(s.active, kinds) \in Nat /\ CountOf(started, kinds) \in Nat
        /\ CountOf(left, kinds) \in Nat
    BY <1>2, <1>7, CountIsNumber
  <2>4. HowMany(r, kinds) = CountOf(r.active, kinds) + CountOf(left, kinds)
    BY <1>9 DEF HowMany, CountOf
  <2>5. HowMany(s, kinds) = CountOf(s.active, kinds) + CountOf(s.queue, kinds)
    BY DEF HowMany, CountOf
  <2> QED
    BY <2>1, <2>2, <2>3, <2>4, <2>5, EmptyCount
<1> QED
  BY <1>10, <1>13, <1>14, <1>17, <1>18 DEF Adds

LEMMA RequestEffect ==
  ASSUME NEW s, Able(s), NEW new, IsSeq(new), NEW r, r = Request(s, new)
  PROVE  Keeps(r, s, QueueMembers) /\ Adds(r, s, new) /\ Slots(r)
<1> DEFINE q == s.queue \o new
           t == [s EXCEPT !.queue = q]
<1>1. r = StartRequests(t)
  BY DEF Request
<1>2. DOMAIN s = Members /\ IsSeq(s.active) /\ IsSeq(s.queue) /\ Len(s.active) <= MaxConcurrent
  BY DEF Able
<1>3. q = s.queue \o new
  OBVIOUS
<1> HIDE DEF q
<1>4. Joined(q, s.queue, new)
  BY <1>2, <1>3, SeqConcat, Zenon
<1>5. IsSeq(q)
  BY <1>4 DEF Joined
<1>6. DOMAIN t = Members /\ t.active = s.active /\ t.queue = q /\ t.count = s.count
  BY <1>2 DEF Members
<1>7. Keeps(t, s, {"queue"})
  BY <1>2 DEF Keeps
<1> HIDE DEF t
<1>8. Able(t)
  BY <1>2, <1>5, <1>6 DEF Able
<1>9. Keeps(r, t, QueueMembers) /\ Adds(r, t, <<>>) /\ Slots(r)
  BY <1>1, <1>8, StartRequestsEffect
<1>10. Keeps(r, s, QueueMembers)
  BY <1>7, <1>9 DEF Keeps, QueueMembers
<1>11. Outstanding(t) = Outstanding(s) \cup ToSet(new)
  <2>1. ToSet(q) = ToSet(s.queue) \cup ToSet(new)
    BY <1>2, <1>3, ToSetConcat
  <2> QED
    BY <1>6, <2>1 DEF Outstanding
<1>12. ASSUME NEW kinds
       PROVE  HowMany(r, kinds) = HowMany(s, kinds) + CountOf(new, kinds)
  <2>1. CountOf(q, kinds) = CountOf(s.queue, kinds) + CountOf(new, kinds)
    BY <1>2, <1>3, CountConcat
  <2>2. /\ CountOf(s.active, kinds) \in Nat /\ CountOf(s.queue, kinds) \in Nat
        /\ CountOf(new, kinds) \in Nat
    BY <1>2, CountIsNumber
  <2>3. HowMany(r, kinds) = HowMany(t, kinds) + 0
    BY <1>9, EmptyCount DEF Adds
  <2>4. HowMany(t, kinds) = CountOf(s.active, kinds) + CountOf(q, kinds)
    BY <1>6 DEF HowMany, CountOf
  <2>5. HowMany(s, kinds) = CountOf(s.active, kinds) + CountOf(s.queue, kinds)
    BY DEF HowMany, CountOf
  <2> QED
    BY <2>1, <2>2, <2>3, <2>4, <2>5
<1> QED
  BY <1>9, <1>10, <1>11, <1>12, EmptyCount DEF Adds

(* s without its i-th request in flight, which was r. *)
Removes(e, s, r) ==
    /\ Able(e)
    /\ Len(e.active) < MaxConcurrent
    /\ Outstanding(s) = Outstanding(e) \cup {r}
    /\ \A kinds : HowMany(s, kinds) = HowMany(e, kinds) + (IF r.kind \in kinds THEN 1 ELSE 0)

LEMMA CountOne ==
  ASSUME NEW x, NEW kinds
  PROVE  /\ IsSeq(<<x>>) /\ ToSet(<<x>>) = {x} /\ Len(<<x>>) = 1
         /\ CountOf(<<x>>, kinds) = IF x.kind \in kinds THEN 1 ELSE 0
<1>1. <<x>> \in Seq({x}) /\ Len(<<x>>) = 1 /\ DOMAIN <<x>> = {1} /\ <<x>>[1] = x
  OBVIOUS
<1>2. IsSeq(<<x>>)
  BY <1>1 DEF IsSeq
<1>3. OfKind(<<x>>, kinds) = IF x.kind \in kinds THEN {1} ELSE {}
  BY <1>1 DEF OfKind
<1>4. CountOf(<<x>>, kinds) = IF x.kind \in kinds THEN 1 ELSE 0
  BY <1>3, FS_Singleton, FS_EmptySet DEF CountOf
<1>5. ToSet(<<x>>) = {x}
  BY <1>1 DEF ToSet
<1> QED
  BY <1>1, <1>2, <1>4, <1>5

LEMMA RemovalEffect ==
  ASSUME NEW s, Able(s), NEW i \in 1..Len(s.active),
         NEW e, DOMAIN e = Members, e.active = RemoveAt(s.active, i), e.queue = s.queue, e.count = s.count
  PROVE  Removes(e, s, s.active[i])
<1> DEFINE a == s.active
           before == SubSeq(a, 1, i - 1)
           after == SubSeq(a, i + 1, Len(a))
           rest == SubSeq(a, i, Len(a))
           one == <<a[i]>>
<1>1. IsSeq(a) /\ IsSeq(s.queue) /\ Len(a) <= MaxConcurrent /\ Len(a) \in Nat /\ s.count \in Nat
  BY SeqLength DEF Able
<1>2. e.active = before \o after
  BY DEF RemoveAt
<1>3. a = before \o rest
  <2>1. i - 1 \in Nat /\ i - 1 <= Len(a) /\ (i - 1) + 1 = i
    BY <1>1
  <2> HIDE DEF a
  <2>2. a = SubSeq(a, 1, i - 1) \o SubSeq(a, (i - 1) + 1, Len(a))
    BY <1>1, <2>1, SplitSeq
  <2> QED
    BY <2>1, <2>2
<1>4. rest = one \o after
  <2>1. PICK S : a \in Seq(S)
    BY <1>1 DEF IsSeq
  <2>2. i \in 1..Len(a) /\ Len(a) \in i..Len(a)
    BY <1>1
  <2> HIDE DEF a
  <2> QED
    BY <2>1, <2>2, SubSeqRecursiveFirst
<1>5. /\ PartOf(before, a, 1, i - 1) /\ PartOf(after, a, i + 1, Len(a)) /\ PartOf(rest, a, i, Len(a))
  <2>1. /\ before = SubSeq(a, 1, i - 1) /\ after = SubSeq(a, i + 1, Len(a))
        /\ rest = SubSeq(a, i, Len(a))
    OBVIOUS
  <2>2. /\ 1 \in Nat /\ i \in Nat /\ i + 1 \in Nat /\ i - 1 \in Nat
        /\ 1 <= 1 /\ 1 <= i /\ 1 <= i + 1
        /\ 1 <= (i - 1) + 1 /\ i <= Len(a) + 1 /\ i + 1 <= Len(a) + 1
        /\ i - 1 <= Len(a) /\ Len(a) <= Len(a)
    BY <1>1
  <2> HIDE DEF a, before, after, rest
  <2> QED
    BY <1>1, <2>1, <2>2, SeqPart, Zenon
<1>6. /\ IsSeq(before) /\ Len(before) = i - 1
      /\ IsSeq(after) /\ Len(after) = Len(a) - i
      /\ IsSeq(rest)
  BY <1>1, <1>5 DEF PartOf
<1>7. IsSeq(one)
  BY CountOne
<1> HIDE DEF a, before, after, rest, one
<1>8. Joined(e.active, before, after)
  BY <1>2, <1>6, SeqConcat, Zenon
<1>9. IsSeq(e.active) /\ Len(e.active) = Len(a) - 1
  BY <1>1, <1>6, <1>8 DEF Joined
<1>10. Able(e) /\ Len(e.active) < MaxConcurrent
  BY <1>1, <1>9, SizesAreNumbers DEF Able
<1>11. Outstanding(s) = Outstanding(e) \cup {a[i]}
  <2>1. ToSet(a) = ToSet(before) \cup ToSet(rest)
    BY <1>3, <1>6, ToSetConcat
  <2>2. ToSet(rest) = ToSet(one) \cup ToSet(after)
    BY <1>4, <1>6, <1>7, ToSetConcat
  <2>3. ToSet(e.active) = ToSet(before) \cup ToSet(after)
    BY <1>2, <1>6, ToSetConcat
  <2>4. ToSet(one) = {a[i]}
    BY CountOne DEF one
  <2> QED
    BY <2>1, <2>2, <2>3, <2>4 DEF Outstanding, a
<1>12. ASSUME NEW kinds
       PROVE  HowMany(s, kinds) = HowMany(e, kinds) + (IF a[i].kind \in kinds THEN 1 ELSE 0)
  <2>1. CountOf(a, kinds) = CountOf(before, kinds) + CountOf(rest, kinds)
    BY <1>3, <1>6, CountConcat
  <2>2. CountOf(rest, kinds) = CountOf(one, kinds) + CountOf(after, kinds)
    BY <1>4, <1>6, <1>7, CountConcat
  <2>3. CountOf(e.active, kinds) = CountOf(before, kinds) + CountOf(after, kinds)
    BY <1>2, <1>6, CountConcat
  <2>4. CountOf(one, kinds) = IF a[i].kind \in kinds THEN 1 ELSE 0
    BY CountOne DEF one
  <2>5. /\ CountOf(before, kinds) \in Nat /\ CountOf(after, kinds) \in Nat
        /\ CountOf(s.queue, kinds) \in Nat
    BY <1>1, <1>6, CountIsNumber
  <2>6. HowMany(s, kinds) = CountOf(a, kinds) + CountOf(s.queue, kinds)
    BY DEF HowMany, CountOf, a
  <2>7. HowMany(e, kinds) = CountOf(e.active, kinds) + CountOf(s.queue, kinds)
    BY DEF HowMany, CountOf
  <2> QED
    BY <2>1, <2>2, <2>3, <2>4, <2>5, <2>6, <2>7
<1> QED
  BY <1>10, <1>11, <1>12 DEF Removes, a
-----------------------------------------------------------------------------
(* What the parts of a handler do *)

Listings == {"repos", "private"}
Details == {"runners", "jobs", "artifacts"}

(* r has the requests of s and perhaps some that are not part of a refresh. *)
Grows(r, s) ==
    /\ Able(r)
    /\ Outstanding(s) \subseteq Outstanding(r)
    /\ \A q \in Outstanding(r) : q \in Outstanding(s) \/ q.kind \in Details
    /\ HowMany(r, Listings) = HowMany(s, Listings)
    /\ HowMany(r, {"runs"}) = HowMany(s, {"runs"})

(* Every request finds the object it shares with others. *)
HasCell(s, q) == q.cell \in DOMAIN s.cells /\ DOMAIN s.cells[q.cell] = {"rows", "failed"}
Celled(s) == \A q \in Outstanding(s) : q.kind \in {"runs", "runners"} => HasCell(s, q)

IsList(p) == IsSeq(p) /\ \A i \in 1..Len(p) : DOMAIN p[i] = {"key", "run", "jobs", "size"}

SelectionHolds(s) == s.projects # <<>> => HasSelection(s) /\ SelectedRow(s).key = s.selectedKey

DetailsHold(s) ==
    HasSelection(s) =>
        /\ s.history = [key |-> SelectedRow(s).key, run |-> SelectedRow(s).run]
        /\ \/ s.stages \in {NothingShown, s.history}
           \/ AboutRun("jobs", SelectedRow(s).key, SelectedRow(s).run) \in Outstanding(s)

RunnerMembers == {"pendingRunners", "runnerCell", "runnerIds", "onlineIds", "total", "online", "cells"}
EndMembers == {"stale", "counting", "state", "interval", "pollLeft"}

LEMMA GrowsFromAdds ==
  ASSUME NEW s, Able(s), NEW new, IsSeq(new), \A q \in ToSet(new) : q.kind \in Details,
         NEW r, Adds(r, s, new)
  PROVE  Grows(r, s)
<1>1. ASSUME NEW kinds, kinds \cap Details = {}
      PROVE  HowMany(r, kinds) = HowMany(s, kinds)
  <2>1. OfKind(new, kinds) = {}
    BY <1>1 DEF OfKind, ToSet
  <2>2. CountOf(new, kinds) = 0
    BY <2>1, CountIsNumber
  <2>3. HowMany(s, kinds) \in Nat
    <3>1. CountOf(s.active, kinds) \in Nat /\ CountOf(s.queue, kinds) \in Nat
      BY CountIsNumber DEF Able
    <3> QED
      BY <3>1 DEF HowMany, CountOf
  <2> QED
    BY <2>2, <2>3 DEF Adds
<1>2. Listings \cap Details = {} /\ {"runs"} \cap Details = {}
  BY DEF Listings, Details
<1> QED
  BY <1>1, <1>2 DEF Grows, Adds

LEMMA SameQueue ==
  ASSUME NEW s, Able(s), NEW r, DOMAIN r = Members,
         r.active = s.active, r.queue = s.queue, r.count = s.count
  PROVE  /\ Able(r) /\ Grows(r, s) /\ Outstanding(r) = Outstanding(s)
         /\ \A kinds : HowMany(r, kinds) = HowMany(s, kinds)
<1>1. Able(r)
  BY DEF Able
<1>2. Outstanding(r) = Outstanding(s) /\ \A kinds : HowMany(r, kinds) = HowMany(s, kinds)
  BY DEF Outstanding, HowMany
<1> QED
  BY <1>1, <1>2 DEF Grows

LEMMA NewCellEffect ==
  ASSUME NEW s, Celled(s), NEW c, NEW r, r.cells = WithCell(s.cells, c),
         \A q \in Outstanding(r) : q \in Outstanding(s) \/ q.cell = c
  PROVE  Celled(r)
<1> DEFINE cells == WithCell(s.cells, c)
<1>1. /\ DOMAIN cells = DOMAIN s.cells \cup {c} /\ cells[c] = EmptyCell
      /\ \A d \in DOMAIN s.cells : d # c => cells[d] = s.cells[d]
  BY DEF WithCell
<1>2. DOMAIN EmptyCell = {"rows", "failed"}
  BY DEF EmptyCell
<1> HIDE DEF cells
<1>3. r.cells = cells
  BY DEF cells
<1> SUFFICES ASSUME NEW q \in Outstanding(r), q.kind \in {"runs", "runners"}
             PROVE  HasCell(r, q)
  BY DEF Celled
<1>4. CASE q.cell = c
  BY <1>1, <1>2, <1>3, <1>4 DEF HasCell
<1>5. CASE q.cell # c
  <2>1. HasCell(s, q)
    BY <1>5 DEF Celled
  <2> QED
    BY <1>1, <1>3, <1>5, <2>1 DEF HasCell
<1> QED
  BY <1>4, <1>5

LEMMA LoadRunnersEffect ==
  ASSUME NEW s, Able(s), Celled(s), IsList(s.projects), NEW r, r = LoadRunners(s)
  PROVE  Keeps(r, s, RunnerMembers \cup QueueMembers) /\ Grows(r, s) /\ Celled(r)
<1> DEFINE c == FreeCell(s)
           cleared == [s EXCEPT !.online = Unknown, !.total = Unknown, !.runnerIds = {}, !.onlineIds = {}]
           cells == WithCell(s.cells, c)
           t == [cleared EXCEPT !.pendingRunners = Len(s.projects), !.cells = cells, !.runnerCell = c]
           new == [i \in 1..Len(s.projects) |-> AboutRepo("runners", s.projects[i].key, c)]
<1>1. DOMAIN s = Members
  BY DEF Able
<1>2. Keeps(cleared, s, RunnerMembers)
  BY <1>1 DEF Keeps, RunnerMembers
<1>3. /\ DOMAIN cleared = Members /\ cleared.active = s.active /\ cleared.queue = s.queue
      /\ cleared.count = s.count /\ cleared.cells = s.cells
  BY <1>1 DEF Members
<1> HIDE DEF cleared
<1>4. Grows(cleared, s) /\ Outstanding(cleared) = Outstanding(s)
  BY <1>3, SameQueue
<1>5. CASE ~s.token \/ s.projects = <<>>
  <2>1. r = cleared
    BY <1>5 DEF LoadRunners, cleared
  <2>2. Celled(cleared)
    BY <1>3, <1>4 DEF Celled, HasCell
  <2> QED
    BY <1>2, <1>4, <2>1, <2>2 DEF Keeps
<1>6. CASE ~ (~s.token \/ s.projects = <<>>)
  <2>1. r = Request(t, new)
    BY <1>3, <1>6 DEF LoadRunners, cleared
  <2>2. Keeps(t, cleared, RunnerMembers)
    BY <1>3 DEF Keeps, RunnerMembers
  <2>3. /\ DOMAIN t = Members /\ t.active = s.active /\ t.queue = s.queue /\ t.count = s.count
        /\ t.cells = cells
    BY <1>3 DEF Members
  <2> HIDE DEF t
  <2>4. Able(t) /\ Outstanding(t) = Outstanding(s) /\ (\A kinds : HowMany(t, kinds) = HowMany(s, kinds))
    BY <2>3, SameQueue
  <2>5. Len(s.projects) \in Nat
    BY SeqLength DEF IsList
  <2>6. /\ IsSeq(new)
        /\ \A q \in ToSet(new) : q.kind = "runners" /\ q.cell = c
    <3>1. new \in Seq({AboutRepo("runners", s.projects[i].key, c) : i \in 1..Len(s.projects)})
      BY <2>5
    <3>2. ASSUME NEW q \in ToSet(new)
          PROVE  q.kind = "runners" /\ q.cell = c
      <4>1. PICK i \in 1..Len(s.projects) : q = AboutRepo("runners", s.projects[i].key, c)
        BY DEF ToSet
      <4> HIDE DEF c
      <4> QED
        BY <4>1 DEF AboutRepo
    <3> QED
      BY <3>1, <3>2 DEF IsSeq
  <2> HIDE DEF new
  <2>7. Keeps(r, t, QueueMembers) /\ Adds(r, t, new)
    BY <2>1, <2>4, <2>6, RequestEffect
  <2>8. Grows(r, t)
    BY <2>4, <2>6, <2>7, GrowsFromAdds DEF Details
  <2>9. Grows(r, s)
    BY <2>4, <2>8 DEF Grows
  <2>10. Keeps(r, s, RunnerMembers \cup QueueMembers)
    BY <1>2, <2>2, <2>7 DEF Keeps
  <2>11. r.cells = cells
    BY <2>3, <2>7 DEF Keeps, QueueMembers, Members
  <2>12. \A q \in Outstanding(r) : q \in Outstanding(s) \/ q.cell = c
    BY <2>4, <2>6, <2>7 DEF Adds
  <2> HIDE DEF c
  <2>13. Celled(r)
    BY <2>11, <2>12, NewCellEffect
  <2> QED
    BY <2>9, <2>10, <2>13
<1> QED
  BY <1>5, <1>6

LEMMA LeastNumber ==
  ASSUME NEW S \in SUBSET Nat, S # {}
  PROVE  \E least \in S : \A n \in S : least <= n
<1>1. PICK least \in S : \A n \in S : ~ (<<n, least>> \in OpToRel(<, Nat))
  BY NatLessThanWellFounded, WFMin
<1>2. \A n \in S : ~ (n < least)
  BY <1>1 DEF OpToRel
<1> QED
  BY <1>2

LEMMA HighestIsMember ==
  ASSUME NEW n \in Nat, NEW S \in SUBSET (1..n), S # {}
  PROVE  Highest(S) \in S
<1> DEFINE mirror == {n - i : i \in S}
<1>1. mirror \in SUBSET Nat /\ mirror # {}
  <2>1. PICK k \in S : TRUE
    OBVIOUS
  <2>2. n - k \in mirror
    OBVIOUS
  <2>3. \A i \in S : n - i \in Nat
    OBVIOUS
  <2> QED
    BY <2>2, <2>3
<1>2. PICK least \in mirror : \A m \in mirror : least <= m
  BY <1>1, LeastNumber
<1>3. PICK i \in S : least = n - i
  BY <1>2
<1>4. ASSUME NEW j \in S
      PROVE  j <= i
  <2>1. n - i <= n - j
    BY <1>2, <1>3
  <2> QED
    BY <2>1
<1> QED
  BY <1>4 DEF Highest

LEMMA PollIntervalIsNumber ==
  ASSUME NEW token, NEW count \in Nat
  PROVE  PollInterval(token, count) \in Nat
<1> DEFINE measured == IF count < 1 THEN 1 ELSE count
           product == measured * Hour
           budgeted == (product + Budget - 1) \div Budget
<1>1. AuthenticatedPoll \in Nat /\ AnonymousPoll \in Nat /\ Hour \in Nat /\ Budget \in Nat /\ Budget > 0
  BY SizesAreNumbers
<1>2. measured \in Nat
  <2>1. CASE count < 1
    BY <2>1
  <2>2. CASE ~ (count < 1)
    BY <2>2
  <2> QED
    BY <2>1, <2>2
<1> HIDE DEF measured
<1>3. product \in Int
  BY <1>1, <1>2
<1>4. PollInterval(token, count)
        = IF token THEN AuthenticatedPoll ELSE IF budgeted > AnonymousPoll THEN budgeted ELSE AnonymousPoll
  BY DEF PollInterval, measured
<1> HIDE DEF product
<1>5. budgeted \in Int
  BY <1>1, <1>3
<1> HIDE DEF budgeted
<1> QED
  BY <1>1, <1>4, <1>5

LEMMA FinishRefreshEffect ==
  ASSUME NEW s, Able(s), Celled(s), IsList(s.projects), NEW r, r = FinishRefresh(s)
  PROVE  /\ Keeps(r, s, RunnerMembers \cup QueueMembers \cup EndMembers)
         /\ Grows(r, s) /\ Celled(r)
         /\ r.state \in {"ready", "empty"} /\ r.stale = FALSE /\ r.counting = FALSE
         /\ r.interval \in Nat /\ r.pollLeft = r.interval
<1> DEFINE state == IF s.projects = <<>> THEN "empty" ELSE "ready"
           interval == PollInterval(s.token, s.count)
           ended == [s EXCEPT !.stale = FALSE, !.counting = FALSE, !.state = state]
           t == [ended EXCEPT !.interval = interval, !.pollLeft = interval]
<1>1. DOMAIN s = Members /\ s.count \in Nat
  BY DEF Able
<1>2. r = LoadRunners(t)
  BY DEF FinishRefresh, SetInterval
<1>3. interval \in Nat
  BY <1>1, PollIntervalIsNumber
<1>4. state \in {"ready", "empty"}
  OBVIOUS
<1> HIDE DEF state, interval
<1>5. /\ DOMAIN t = Members /\ t.active = s.active /\ t.queue = s.queue /\ t.count = s.count
      /\ t.cells = s.cells /\ t.projects = s.projects
  BY <1>1 DEF Members
<1>6. t.state = state /\ t.stale = FALSE /\ t.counting = FALSE /\ t.interval = interval /\ t.pollLeft = interval
  BY <1>1 DEF Members
<1>7. Keeps(t, s, EndMembers)
  BY <1>1 DEF Keeps, EndMembers
<1> HIDE DEF ended, t
<1>8. Able(t) /\ Grows(t, s) /\ Outstanding(t) = Outstanding(s)
  BY <1>5, SameQueue
<1>9. Celled(t)
  BY <1>5, <1>8 DEF Celled, HasCell
<1>10. Keeps(r, t, RunnerMembers \cup QueueMembers) /\ Grows(r, t) /\ Celled(r)
  BY <1>2, <1>5, <1>8, <1>9, LoadRunnersEffect
<1>11. Keeps(r, s, RunnerMembers \cup QueueMembers \cup EndMembers)
  BY <1>7, <1>10 DEF Keeps
<1>12. Grows(r, s)
  BY <1>8, <1>10 DEF Grows
<1>13. /\ r.state = t.state /\ r.stale = t.stale /\ r.counting = t.counting
       /\ r.interval = t.interval /\ r.pollLeft = t.pollLeft
  BY <1>10 DEF Keeps, RunnerMembers, QueueMembers, Members
<1> QED
  BY <1>3, <1>4, <1>6, <1>10, <1>11, <1>12, <1>13

LEMMA LoadSelectedDetailsEffect ==
  ASSUME NEW s, Able(s), Celled(s), NEW r, r = LoadSelectedDetails(s)
  PROVE  /\ Keeps(r, s, QueueMembers \cup {"stages", "history"})
         /\ Grows(r, s) /\ Celled(r) /\ DetailsHold(r)
         /\ HasSelection(s) => Slots(r)
<1> DEFINE blank == [s EXCEPT !.stages = NothingShown, !.history = NothingShown]
           row == SelectedRow(s)
           shown == [key |-> row.key, run |-> row.run]
           t == [s EXCEPT !.history = shown]
           jobs == AboutRun("jobs", row.key, row.run)
           artifacts == AboutRun("artifacts", row.key, row.run)
           new == <<jobs, artifacts>>
<1>1. DOMAIN s = Members
  BY DEF Able
<1>2. CASE ~HasSelection(s)
  <2>1. r = blank
    BY <1>2 DEF LoadSelectedDetails
  <2>2. Keeps(r, s, {"stages", "history"})
    BY <1>1, <2>1 DEF Keeps
  <2>3. /\ DOMAIN r = Members /\ r.active = s.active /\ r.queue = s.queue /\ r.count = s.count
        /\ r.cells = s.cells /\ r.projects = s.projects /\ r.selectedIndex = s.selectedIndex
    BY <2>2 DEF Keeps, Members
  <2>4. Grows(r, s) /\ Outstanding(r) = Outstanding(s)
    BY <2>3, SameQueue
  <2>5. Celled(r)
    BY <2>3, <2>4 DEF Celled, HasCell
  <2>6. ~HasSelection(r)
    BY <1>2, <2>3 DEF HasSelection
  <2> QED
    BY <1>2, <2>2, <2>4, <2>5, <2>6 DEF Keeps, DetailsHold
<1>3. CASE HasSelection(s)
  <2>1. r = Request(t, new)
    BY <1>3 DEF LoadSelectedDetails
  <2>2. Keeps(t, s, {"history"})
    BY <1>1 DEF Keeps
  <2>3. /\ DOMAIN t = Members /\ t.active = s.active /\ t.queue = s.queue /\ t.count = s.count
        /\ t.cells = s.cells /\ t.history = shown
    BY <1>1 DEF Members
  <2> HIDE DEF t
  <2>4. Able(t) /\ Outstanding(t) = Outstanding(s) /\ (\A kinds : HowMany(t, kinds) = HowMany(s, kinds))
    BY <2>3, SameQueue
  <2>5. jobs.kind = "jobs" /\ artifacts.kind = "artifacts"
    BY DEF AboutRun
  <2> HIDE DEF jobs, artifacts
  <2>6. IsSeq(new) /\ ToSet(new) = {jobs, artifacts}
    <3>1. new \in Seq({jobs, artifacts}) /\ DOMAIN new = {1, 2} /\ new[1] = jobs /\ new[2] = artifacts
      OBVIOUS
    <3> HIDE DEF new
    <3> QED
      BY <3>1 DEF IsSeq, ToSet
  <2> HIDE DEF new
  <2>7. Keeps(r, t, QueueMembers) /\ Adds(r, t, new) /\ Slots(r)
    BY <2>1, <2>4, <2>6, RequestEffect
  <2>8. Grows(r, t)
    BY <2>4, <2>5, <2>6, <2>7, GrowsFromAdds DEF Details
  <2>9. Grows(r, s)
    BY <2>4, <2>8 DEF Grows
  <2>10. Keeps(r, s, QueueMembers \cup {"stages", "history"})
    BY <2>2, <2>7 DEF Keeps
  <2>11. /\ r.cells = s.cells /\ r.projects = s.projects /\ r.selectedIndex = s.selectedIndex
         /\ r.history = shown
    BY <2>2, <2>3, <2>7 DEF Keeps, QueueMembers, Members
  <2>12. Outstanding(r) = Outstanding(s) \cup {jobs, artifacts}
    BY <2>4, <2>6, <2>7 DEF Adds
  <2>13. Celled(r)
    BY <2>5, <2>11, <2>12 DEF Celled, HasCell
  <2>14. DetailsHold(r)
    <3>1. SelectedRow(r) = row
      BY <2>11 DEF SelectedRow
    <3> QED
      BY <2>11, <2>12, <3>1 DEF DetailsHold, jobs
  <2> QED
    BY <2>7, <2>9, <2>10, <2>13, <2>14
<1> QED
  BY <1>2, <1>3

(* h is s with a new list of projects shown. *)
Refreshed(h, s) ==
    /\ Grows(h, s) /\ Celled(h)
    /\ h.pendingRuns = s.pendingRuns
    /\ h.state \in {"ready", "empty"} /\ h.stale = FALSE /\ h.counting = FALSE
    /\ h.interval \in Nat /\ h.pollLeft = h.interval
    /\ IsList(h.projects) /\ SelectionHolds(h) /\ DetailsHold(h)
    /\ h.selectedKey # s.selectedKey => RowsOf(h.projects, s.selectedKey) = {}

(* h is s with the refresh given up. *)
Failed(h, s) ==
    /\ Keeps(h, s, {"counting", "stale", "state"})
    /\ h.counting = FALSE
    /\ h.state \in {"ready", "error"} /\ h.stale \in BOOLEAN
    /\ h.stale = TRUE \/ h.state = "error"

(* h is s with one more listing asked for. *)
ListsMore(h, s) ==
    /\ Keeps(h, s, QueueMembers) /\ Able(h) /\ Slots(h)
    /\ Outstanding(s) \subseteq Outstanding(h)
    /\ \A q \in Outstanding(h) : q \in Outstanding(s) \/ q.kind \in Listings
    /\ HowMany(h, Listings) = HowMany(s, Listings) + 1
    /\ HowMany(h, {"runs"}) = HowMany(s, {"runs"})

(* h is s with the runs of some repositories asked for. *)
AsksRuns(h, s) ==
    /\ Keeps(h, s, QueueMembers \cup {"pendingRuns", "cells"}) /\ Able(h)
    /\ Celled(h)
    /\ Outstanding(s) \subseteq Outstanding(h)
    /\ h.pendingRuns \in Nat \ {0}
    /\ HowMany(h, Listings) = HowMany(s, Listings)
    /\ HowMany(h, {"runs"}) = HowMany(s, {"runs"}) + h.pendingRuns
    /\ \E c : \A q \in Outstanding(h) : q \in Outstanding(s) \/ (q.kind = "runs" /\ q.cell = c)

LEMMA HowManyIsNumber ==
  ASSUME NEW s, Able(s), NEW kinds
  PROVE  /\ HowMany(s, kinds) \in Nat
         /\ HowMany(s, kinds) = 0 <=> \A q \in Outstanding(s) : q.kind \notin kinds
<1>1. IsSeq(s.active) /\ IsSeq(s.queue)
  BY DEF Able
<1>2. /\ CountOf(s.active, kinds) \in Nat /\ CountOf(s.queue, kinds) \in Nat
      /\ CountOf(s.active, kinds) = 0 <=> OfKind(s.active, kinds) = {}
      /\ CountOf(s.queue, kinds) = 0 <=> OfKind(s.queue, kinds) = {}
  BY <1>1, CountIsNumber
<1>3. /\ OfKind(s.active, kinds) = {} <=> \A q \in ToSet(s.active) : q.kind \notin kinds
      /\ OfKind(s.queue, kinds) = {} <=> \A q \in ToSet(s.queue) : q.kind \notin kinds
  BY DEF OfKind, ToSet
<1>4. HowMany(s, kinds) = CountOf(s.active, kinds) + CountOf(s.queue, kinds)
  BY DEF HowMany, CountOf
<1> QED
  BY <1>2, <1>3, <1>4 DEF Outstanding

LEMMA RetainedIsList ==
  ASSUME NEW rows, NEW previous, NEW p, p = Retained(rows, previous)
  PROVE  IsList(p)
<1>1. PICK n : n = Len(rows)
  OBVIOUS
<1>2. n \in Nat
  BY <1>1
<1> DEFINE Kept(i, metric) ==
             LET before == RowsOf(previous, rows[i].key)
                 old == previous[Lowest(before)]
             IN  IF before # {} /\ old[metric] # NoRun THEN old[metric] ELSE rows[i][metric]
           Row(i) == [key |-> rows[i].key, run |-> rows[i].run,
                      jobs |-> Kept(i, "jobs"), size |-> Kept(i, "size")]
<1>3. p = [i \in 1..n |-> Row(i)]
  BY <1>1 DEF Retained
<1> HIDE DEF Kept
<1>4. \A i \in 1..n : DOMAIN Row(i) = {"key", "run", "jobs", "size"}
  OBVIOUS
<1> HIDE DEF Row
<1>5. p \in Seq({Row(i) : i \in 1..n}) /\ Len(p) = n
  BY <1>2, <1>3
<1>6. \A i \in 1..n : p[i] = Row(i)
  BY <1>3
<1> QED
  BY <1>4, <1>5, <1>6 DEF IsList, IsSeq

LEMMA ShowRunsEffect ==
  ASSUME NEW s, Able(s), Celled(s), NEW rows, NEW h, h = ShowRuns(s, rows)
  PROVE  Refreshed(h, s)
<1> DEFINE shown == Retained(LatestFirst(rows), s.projects)
           same == RowsOf(shown, s.selectedKey)
           index == IF same = {} THEN 1 ELSE Highest(same)
           key == IF shown = <<>> THEN NoRepo ELSE shown[index].key
           replaced == [s EXCEPT !.projects = shown, !.selectedIndex = index, !.selectedKey = key]
           finished == FinishRefresh(replaced)
<1>1. h = LoadSelectedDetails(finished)
  BY DEF ShowRuns
<1>2. IsList(shown)
  BY RetainedIsList
<1> HIDE DEF shown
<1>3. Len(shown) \in Nat /\ (shown = <<>> <=> Len(shown) = 0)
  BY <1>2, SeqLength DEF IsList
<1>4. same \in SUBSET (1..Len(shown)) /\ \A i \in same : shown[i].key = s.selectedKey
  BY DEF RowsOf
<1>5. same # {} => index \in same
  BY <1>3, <1>4, HighestIsMember
<1>6. shown # <<>> => index \in 1..Len(shown) /\ shown[index].key = key
  <2>1. CASE same = {}
    BY <1>3, <2>1
  <2>2. CASE same # {}
    BY <1>4, <1>5, <2>2
  <2> QED
    BY <2>1, <2>2
<1>7. key # s.selectedKey => same = {}
  BY <1>3, <1>4, <1>5
<1> HIDE DEF index, key
<1>8. DOMAIN s = Members
  BY DEF Able
<1>9. /\ DOMAIN replaced = Members /\ replaced.active = s.active /\ replaced.queue = s.queue
      /\ replaced.count = s.count /\ replaced.cells = s.cells /\ replaced.pendingRuns = s.pendingRuns
  BY <1>8 DEF Members
<1>10. replaced.projects = shown /\ replaced.selectedIndex = index /\ replaced.selectedKey = key
  BY <1>8 DEF Members
<1> HIDE DEF replaced
<1>11. Able(replaced) /\ Grows(replaced, s) /\ Outstanding(replaced) = Outstanding(s)
  BY <1>9, SameQueue
<1>12. Celled(replaced)
  BY <1>9, <1>11 DEF Celled, HasCell
<1>13. /\ Keeps(finished, replaced, RunnerMembers \cup QueueMembers \cup EndMembers)
       /\ Grows(finished, replaced) /\ Celled(finished)
       /\ finished.state \in {"ready", "empty"} /\ finished.stale = FALSE /\ finished.counting = FALSE
       /\ finished.interval \in Nat /\ finished.pollLeft = finished.interval
  BY <1>2, <1>10, <1>11, <1>12, FinishRefreshEffect
<1> HIDE DEF finished
<1>14. Able(finished)
  BY <1>13 DEF Grows
<1>15. /\ Keeps(h, finished, QueueMembers \cup {"stages", "history"})
       /\ Grows(h, finished) /\ Celled(h) /\ DetailsHold(h)
  BY <1>1, <1>13, <1>14, LoadSelectedDetailsEffect
<1>16. Grows(h, s)
  BY <1>11, <1>13, <1>15 DEF Grows
<1>17. /\ h.state = finished.state /\ h.stale = finished.stale /\ h.counting = finished.counting
       /\ h.interval = finished.interval /\ h.pollLeft = finished.pollLeft
       /\ h.projects = finished.projects /\ h.selectedIndex = finished.selectedIndex
       /\ h.selectedKey = finished.selectedKey /\ h.pendingRuns = finished.pendingRuns
  BY <1>15 DEF Keeps, QueueMembers, Members
<1>18. /\ finished.projects = shown /\ finished.selectedIndex = index
       /\ finished.selectedKey = key /\ finished.pendingRuns = s.pendingRuns
  BY <1>9, <1>10, <1>13 DEF Keeps, RunnerMembers, QueueMembers, EndMembers, Members
<1>19. SelectionHolds(h)
  BY <1>6, <1>17, <1>18 DEF SelectionHolds, HasSelection, SelectedRow
<1>20. h.selectedKey # s.selectedKey => RowsOf(h.projects, s.selectedKey) = {}
  BY <1>7, <1>17, <1>18
<1> QED
  BY <1>2, <1>13, <1>15, <1>16, <1>17, <1>18, <1>19, <1>20 DEF Refreshed

LEMMA DiscoverEffect ==
  ASSUME NEW s, Able(s), NEW kind \in Listings, NEW page, NEW found,
         NEW h, h = Discover(s, kind, page, found)
  PROVE  ListsMore(h, s)
<1> DEFINE one == Listing(kind, page, found)
           new == <<one>>
<1>1. h = Request(s, new) /\ one.kind = kind
  BY DEF Discover, Listing
<1> HIDE DEF one
<1>2. /\ IsSeq(new) /\ ToSet(new) = {one}
      /\ CountOf(new, Listings) = 1 /\ CountOf(new, {"runs"}) = 0
  <2>1. /\ IsSeq(new) /\ ToSet(new) = {one}
        /\ CountOf(new, Listings) = IF one.kind \in Listings THEN 1 ELSE 0
        /\ CountOf(new, {"runs"}) = IF one.kind \in {"runs"} THEN 1 ELSE 0
    BY CountOne
  <2>2. one.kind \in Listings /\ one.kind \notin {"runs"}
    BY <1>1 DEF Listings
  <2> HIDE DEF new
  <2> QED
    BY <2>1, <2>2
<1> HIDE DEF new
<1>3. Keeps(h, s, QueueMembers) /\ Adds(h, s, new) /\ Slots(h)
  BY <1>1, <1>2, RequestEffect
<1>4. HowMany(s, {"runs"}) \in Nat
  BY HowManyIsNumber
<1> QED
  BY <1>1, <1>2, <1>3, <1>4 DEF ListsMore, Adds

LEMMA FailRefreshEffect ==
  ASSUME NEW s, DOMAIN s = Members, NEW h, h = FailRefresh(s)
  PROVE  Failed(h, s)
<1>1. Keeps(h, s, {"counting", "stale", "state"})
  BY DEF FailRefresh, Keeps
<1>2. /\ h.counting = FALSE /\ h.stale = (s.projects # <<>>)
      /\ h.state = IF s.projects # <<>> THEN "ready" ELSE "error"
  BY DEF FailRefresh, Members
<1> QED
  BY <1>1, <1>2 DEF Failed

LEMMA LoadRunsEffect ==
  ASSUME NEW s, Able(s), Celled(s), NEW found, NEW h, h = LoadRuns(s, found)
  PROVE  Refreshed(h, s) \/ AsksRuns(h, s)
<1> DEFINE c == FreeCell(s)
           n == Len(found)
           emptied == [s EXCEPT !.projects = <<>>]
           cells == WithCell(s.cells, c)
           t == [s EXCEPT !.pendingRuns = n, !.cells = cells]
           new == [i \in 1..n |-> AboutRepo("runs", found[i], c)]
<1>1. DOMAIN s = Members
  BY DEF Able
<1>2. n \in Nat
  OBVIOUS
<1>3. CASE n = 0
  <2>1. h = FinishRefresh(emptied)
    BY <1>3 DEF LoadRuns
  <2>2. /\ DOMAIN emptied = Members /\ emptied.active = s.active /\ emptied.queue = s.queue
        /\ emptied.count = s.count /\ emptied.cells = s.cells /\ emptied.pendingRuns = s.pendingRuns
        /\ emptied.projects = <<>> /\ emptied.selectedKey = s.selectedKey
    BY <1>1 DEF Members
  <2> HIDE DEF emptied
  <2>3. Able(emptied) /\ Grows(emptied, s) /\ Outstanding(emptied) = Outstanding(s)
    BY <2>2, SameQueue
  <2>4. Celled(emptied)
    BY <2>2, <2>3 DEF Celled, HasCell
  <2>5. IsList(<<>>)
    BY EmptyCount DEF IsList
  <2>6. /\ Keeps(h, emptied, RunnerMembers \cup QueueMembers \cup EndMembers)
        /\ Grows(h, emptied) /\ Celled(h)
        /\ h.state \in {"ready", "empty"} /\ h.stale = FALSE /\ h.counting = FALSE
        /\ h.interval \in Nat /\ h.pollLeft = h.interval
    BY <2>1, <2>2, <2>3, <2>4, <2>5, FinishRefreshEffect
  <2>7. h.projects = <<>> /\ h.selectedKey = s.selectedKey /\ h.pendingRuns = s.pendingRuns
    BY <2>2, <2>6 DEF Keeps, RunnerMembers, QueueMembers, EndMembers, Members
  <2>8. Grows(h, s)
    BY <2>3, <2>6 DEF Grows
  <2>9. ~HasSelection(h)
    BY <2>7 DEF HasSelection
  <2> QED
    BY <2>5, <2>6, <2>7, <2>8, <2>9 DEF Refreshed, SelectionHolds, DetailsHold
<1>4. CASE n # 0
  <2>1. h = Request(t, new)
    BY <1>4 DEF LoadRuns
  <2>2. Keeps(t, s, {"pendingRuns", "cells"})
    BY <1>1 DEF Keeps
  <2>3. /\ DOMAIN t = Members /\ t.active = s.active /\ t.queue = s.queue /\ t.count = s.count
        /\ t.cells = cells /\ t.pendingRuns = n
    BY <1>1 DEF Members
  <2> HIDE DEF t
  <2>4. Able(t) /\ Outstanding(t) = Outstanding(s) /\ (\A kinds : HowMany(t, kinds) = HowMany(s, kinds))
    BY <2>3, SameQueue
  <2> HIDE DEF n, c
  <2>5. /\ IsSeq(new)
        /\ DOMAIN new = 1..n
        /\ \A i \in 1..n : new[i].kind = "runs" /\ new[i].cell = c
    <3>1. new \in Seq({AboutRepo("runs", found[i], c) : i \in 1..n})
      BY <1>2
    <3>2. \A i \in 1..n : new[i].kind = "runs" /\ new[i].cell = c
      BY DEF AboutRepo
    <3> QED
      BY <3>1, <3>2 DEF IsSeq
  <2> HIDE DEF new
  <2>6. \A q \in ToSet(new) : q.kind = "runs" /\ q.cell = c
    BY <2>5 DEF ToSet
  <2>7. CountOf(new, {"runs"}) = n /\ CountOf(new, Listings) = 0
    <3>1. OfKind(new, {"runs"}) = 1..n /\ OfKind(new, Listings) = {}
      BY <2>5 DEF OfKind, Listings
    <3>2. Cardinality(1..n) = n
      BY <1>2, FS_Interval
    <3> QED
      BY <3>1, <3>2, FS_EmptySet DEF CountOf
  <2>8. Keeps(h, t, QueueMembers) /\ Adds(h, t, new)
    BY <2>1, <2>4, <2>5, RequestEffect
  <2>9. Keeps(h, s, QueueMembers \cup {"pendingRuns", "cells"})
    BY <2>2, <2>8 DEF Keeps
  <2>10. h.cells = cells /\ h.pendingRuns = n
    BY <2>3, <2>8 DEF Keeps, QueueMembers, Members
  <2>11. \A q \in Outstanding(h) : q \in Outstanding(s) \/ (q.kind = "runs" /\ q.cell = c)
    BY <2>4, <2>6, <2>8 DEF Adds
  <2>12. Celled(h)
    BY <2>10, <2>11, NewCellEffect
  <2>13. /\ HowMany(h, Listings) = HowMany(s, Listings)
         /\ HowMany(h, {"runs"}) = HowMany(s, {"runs"}) + n
    <3>1. HowMany(s, Listings) \in Nat
      BY HowManyIsNumber
    <3> QED
      BY <2>4, <2>7, <2>8, <3>1 DEF Adds
  <2>14. Able(h) /\ Outstanding(s) \subseteq Outstanding(h)
    BY <2>4, <2>8 DEF Adds
  <2> QED
    BY <1>2, <1>4, <2>9, <2>10, <2>11, <2>12, <2>13, <2>14 DEF AsksRuns
<1> QED
  BY <1>3, <1>4

(* The objects of h are those of e, and what has failed stays failed. *)
SameCells(h, e) ==
    /\ DOMAIN h.cells = DOMAIN e.cells
    /\ \A c \in DOMAIN e.cells : /\ DOMAIN h.cells[c] = DOMAIN e.cells[c]
                                 /\ e.cells[c].failed = TRUE => h.cells[c].failed = TRUE

(* h is e with one reply of loadRuns() counted. *)
Counted(h, e) ==
    /\ Keeps(h, e, {"cells", "pendingRuns"}) /\ SameCells(h, e)
    /\ h.pendingRuns = e.pendingRuns - 1

(* What becomes of e when a reply of loadRuns() with the object c has come in. *)
RunsOutcome(h, e, c, missing) ==
    \E t : /\ Counted(t, e)
           /\ missing => t.cells[c].failed = TRUE
           /\ \/ t.pendingRuns # 0 /\ h = t
              \/ t.pendingRuns = 0 /\ t.cells[c].failed = TRUE /\ Failed(h, t)
              \/ t.pendingRuns = 0 /\ t.cells[c].failed # TRUE /\ Refreshed(h, t)

LEMMA SameCelled ==
  ASSUME NEW s, Celled(s), NEW t, SameCells(t, s), Outstanding(t) \subseteq Outstanding(s)
  PROVE  Celled(t)
  BY DEF Celled, SameCells, HasCell

LEMMA RunsCountedEffect ==
  ASSUME NEW e, Able(e), Celled(e), NEW c, NEW x, Keeps(x, e, {"cells"}), SameCells(x, e),
         NEW missing, missing => x.cells[c].failed = TRUE,
         NEW h, h = RunsCounted(x, c)
  PROVE  RunsOutcome(h, e, c, missing)
<1> DEFINE t == [x EXCEPT !.pendingRuns = x.pendingRuns - 1]
<1>1. DOMAIN x = Members
  BY DEF Keeps
<1>2. /\ DOMAIN t = Members /\ t.cells = x.cells /\ t.pendingRuns = x.pendingRuns - 1
      /\ t.active = x.active /\ t.queue = x.queue /\ t.count = x.count
  BY <1>1 DEF Members
<1>3. Keeps(t, e, {"cells", "pendingRuns"})
  BY <1>1 DEF Keeps
<1>4. /\ x.pendingRuns = e.pendingRuns /\ x.active = e.active /\ x.queue = e.queue
      /\ x.count = e.count
  BY DEF Keeps, Members
<1>5. h = IF t.pendingRuns # 0 THEN t
          ELSE IF x.cells[c].failed THEN FailRefresh(t) ELSE ShowRuns(t, x.cells[c].rows)
  BY DEF RunsCounted
<1> HIDE DEF t
<1>6. SameCells(t, e)
  BY <1>2 DEF SameCells
<1>7. Counted(t, e) /\ (missing => t.cells[c].failed = TRUE)
  BY <1>2, <1>3, <1>4, <1>6 DEF Counted
<1>8. Able(t) /\ Outstanding(t) = Outstanding(e)
  BY <1>2, <1>4, SameQueue
<1>9. Celled(t)
  BY <1>6, <1>8, SameCelled
<1>10. CASE t.pendingRuns # 0
  BY <1>5, <1>7, <1>10 DEF RunsOutcome
<1>11. CASE t.pendingRuns = 0 /\ x.cells[c].failed = TRUE
  <2>1. h = FailRefresh(t)
    BY <1>5, <1>11
  <2>2. Failed(h, t)
    BY <1>2, <2>1, FailRefreshEffect
  <2> QED
    BY <1>2, <1>7, <1>11, <2>2 DEF RunsOutcome
<1>12. CASE t.pendingRuns = 0 /\ x.cells[c].failed # TRUE
  <2>1. h = ShowRuns(t, x.cells[c].rows)
    BY <1>5, <1>12
  <2>2. Refreshed(h, t)
    BY <1>8, <1>9, <2>1, ShowRunsEffect
  <2> QED
    BY <1>2, <1>7, <1>12, <2>2 DEF RunsOutcome
<1> QED
  BY <1>10, <1>11, <1>12

LEMMA RunsFoundEffect ==
  ASSUME NEW e, Able(e), Celled(e), NEW r, HasCell(e, r), NEW run, NEW h, h = RunsFound(e, r, run)
  PROVE  RunsOutcome(h, e, r.cell, FALSE)
<1> DEFINE row == [key |-> r.repo, run |-> run, jobs |-> NoRun, size |-> NoRun]
           c == r.cell
           filled == [e EXCEPT !.cells[c].rows = Append(@, row)]
           x == IF run = NoRun THEN e ELSE filled
<1>1. h = RunsCounted(x, c)
  BY DEF RunsFound
<1>2. DOMAIN e = Members /\ c \in DOMAIN e.cells /\ DOMAIN e.cells[c] = {"rows", "failed"}
  BY DEF Able, HasCell
<1>3. Keeps(x, e, {"cells"}) /\ SameCells(x, e)
  <2>1. CASE run = NoRun
    BY <1>2, <2>1 DEF Keeps, SameCells
  <2>2. CASE run # NoRun
    <3> DEFINE rows == Append(e.cells[c].rows, row)
               cell == [e.cells[c] EXCEPT !.rows = rows]
               cells == [e.cells EXCEPT ![c] = cell]
    <3>1. x = [e EXCEPT !.cells = cells]
      BY <1>2, <2>2 DEF Members
    <3> HIDE DEF rows, x
    <3>2. DOMAIN cell = {"rows", "failed"} /\ cell.failed = e.cells[c].failed
      BY <1>2
    <3> HIDE DEF cell
    <3>3. Keeps(x, e, {"cells"}) /\ x.cells = cells
      BY <1>2, <3>1 DEF Keeps, Members
    <3> QED
      BY <1>2, <3>2, <3>3 DEF SameCells
  <2> QED
    BY <2>1, <2>2
<1> HIDE DEF x
<1> QED
  BY <1>1, <1>3, RunsCountedEffect

(* The request's object is marked failed. *)
LEMMA CellFailedEffect ==
  ASSUME NEW e, DOMAIN e = Members, NEW r, HasCell(e, r), NEW x, x = [e EXCEPT !.cells[r.cell].failed = TRUE]
  PROVE  Keeps(x, e, {"cells"}) /\ SameCells(x, e) /\ x.cells[r.cell].failed = TRUE
<1> DEFINE c == r.cell
           cell == [e.cells[c] EXCEPT !.failed = TRUE]
           cells == [e.cells EXCEPT ![c] = cell]
<1>1. c \in DOMAIN e.cells /\ DOMAIN e.cells[c] = {"rows", "failed"}
  BY DEF HasCell
<1>2. x = [e EXCEPT !.cells = cells]
  BY <1>1 DEF Members
<1>3. DOMAIN cell = {"rows", "failed"} /\ cell.failed = TRUE
  BY <1>1
<1> HIDE DEF cell
<1>4. Keeps(x, e, {"cells"}) /\ x.cells = cells
  BY <1>2 DEF Keeps, Members
<1> QED
  BY <1>1, <1>3, <1>4 DEF SameCells

LEMMA RunsMissingEffect ==
  ASSUME NEW e, Able(e), Celled(e), NEW r, HasCell(e, r), NEW h, h = RunsMissing(e, r)
  PROVE  RunsOutcome(h, e, r.cell, TRUE)
<1> DEFINE x == [e EXCEPT !.cells[r.cell].failed = TRUE]
<1>1. h = RunsCounted(x, r.cell)
  BY DEF RunsMissing
<1>2. DOMAIN e = Members
  BY DEF Able
<1>3. Keeps(x, e, {"cells"}) /\ SameCells(x, e) /\ x.cells[r.cell].failed = TRUE
  BY <1>2, CellFailedEffect
<1> HIDE DEF x
<1> QED
  BY <1>1, <1>3, RunsCountedEffect

(* p shows what q shows. *)
SameRows(p, q) ==
    /\ IsList(p) /\ Len(p) = Len(q)
    /\ \A i \in 1..Len(q) : p[i].key = q[i].key /\ p[i].run = q[i].run

(* h is e after a reply r that is not part of a refresh. *)
Quiet(h, e, r) ==
    /\ Keeps(h, e, RunnerMembers \cup {"projects", "stages"}) /\ SameCells(h, e)
    /\ SameRows(h.projects, e.projects)
    /\ \/ h.stages = e.stages /\ ~ (r.kind = "jobs" /\ StillSelected(e, r))
       \/ h.stages = NothingShown
       \/ h.stages = [key |-> r.repo, run |-> r.run] /\ StillSelected(e, r)

LEMMA QuietEffect ==
  ASSUME NEW e, DOMAIN e = Members, IsList(e.projects), NEW r, r.kind # "jobs",
         NEW h, Keeps(h, e, RunnerMembers), SameCells(h, e)
  PROVE  Quiet(h, e, r)
<1>1. h.projects = e.projects /\ h.stages = e.stages
  BY DEF Keeps, RunnerMembers, Members
<1> QED
  BY <1>1 DEF Quiet, Keeps, SameRows

LEMMA RunnersCountedEffect ==
  ASSUME NEW e, DOMAIN e = Members, NEW x, Keeps(x, e, RunnerMembers), SameCells(x, e), NEW c,
         NEW h, h = RunnersCounted(x, c)
  PROVE  Keeps(h, e, RunnerMembers) /\ SameCells(h, e)
<1>1. DOMAIN x = Members
  BY DEF Keeps
<1> DEFINE t == [x EXCEPT !.pendingRunners = x.pendingRunners - 1]
           total == Cardinality(x.runnerIds)
           online == Cardinality(x.onlineIds)
           u == [t EXCEPT !.total = total, !.online = online]
<1>2. h = t \/ h = u
  BY DEF RunnersCounted
<1>3. Keeps(t, e, RunnerMembers) /\ t.cells = x.cells /\ DOMAIN t = Members
  BY <1>1 DEF Keeps, RunnerMembers, Members
<1> HIDE DEF t, total, online
<1>4. Keeps(u, e, RunnerMembers) /\ u.cells = x.cells
  BY <1>3 DEF Keeps, RunnerMembers, Members
<1> HIDE DEF u
<1> QED
  BY <1>2, <1>3, <1>4 DEF SameCells

LEMMA RunnersFoundEffect ==
  ASSUME NEW e, DOMAIN e = Members, NEW r, HasCell(e, r), NEW ids, NEW up, NEW valid,
         NEW h, h = RunnersFound(e, r, ids, up, valid)
  PROVE  Keeps(h, e, RunnerMembers) /\ SameCells(h, e)
<1> DEFINE c == r.cell
           all == e.runnerIds \cup ids
           on == e.onlineIds \cup up
           failed == e.cells[c].failed \/ ~valid
           cell == [e.cells[c] EXCEPT !.failed = failed]
           cells == [e.cells EXCEPT ![c] = cell]
           x == [e EXCEPT !.runnerIds = all, !.onlineIds = on, !.cells = cells]
<1>1. c \in DOMAIN e.cells /\ DOMAIN e.cells[c] = {"rows", "failed"}
  BY DEF HasCell
<1>2. h = RunnersCounted(x, c)
  BY <1>1 DEF RunnersFound, Members
<1>3. e.cells[c].failed = TRUE => failed = TRUE
  OBVIOUS
<1> HIDE DEF failed, all, on
<1>4. DOMAIN cell = {"rows", "failed"} /\ cell.failed = failed
  BY <1>1
<1> HIDE DEF cell
<1>5. DOMAIN cells = DOMAIN e.cells /\ cells[c] = cell /\ \A d \in DOMAIN e.cells : d # c => cells[d] = e.cells[d]
  BY <1>1
<1> HIDE DEF cells
<1>6. Keeps(x, e, RunnerMembers) /\ x.cells = cells
  BY DEF Keeps, RunnerMembers, Members
<1> HIDE DEF x
<1>7. SameCells(x, e)
  BY <1>1, <1>3, <1>4, <1>5, <1>6 DEF SameCells
<1> QED
  BY <1>2, <1>6, <1>7, RunnersCountedEffect

LEMMA RunnersMissingEffect ==
  ASSUME NEW e, DOMAIN e = Members, NEW r, HasCell(e, r), NEW h, h = RunnersMissing(e, r)
  PROVE  Keeps(h, e, RunnerMembers) /\ SameCells(h, e)
<1> DEFINE x == [e EXCEPT !.cells[r.cell].failed = TRUE]
<1>1. h = RunnersCounted(x, r.cell)
  BY DEF RunnersMissing
<1>2. Keeps(x, e, {"cells"}) /\ SameCells(x, e)
  BY CellFailedEffect
<1> HIDE DEF x
<1>3. Keeps(x, e, RunnerMembers)
  BY <1>2 DEF Keeps, RunnerMembers
<1> QED
  BY <1>1, <1>2, <1>3, RunnersCountedEffect

LEMMA WithMetricEffect ==
  ASSUME NEW e, DOMAIN e = Members, IsList(e.projects), NEW r, NEW metric \in {"jobs", "size"},
         NEW h, h = WithMetric(e, r, metric)
  PROVE  Keeps(h, e, {"projects"}) /\ SameRows(h.projects, e.projects)
<1> DEFINE k == Lowest(RowsOf(e.projects, r.repo))
           row == [e.projects[k] EXCEPT ![metric] = r.run]
           p == [e.projects EXCEPT ![k] = row]
           t == [e EXCEPT !.projects = p]
<1>1. h = e \/ h = t
  BY DEF WithMetric, Members
<1>2. SameRows(e.projects, e.projects)
  BY DEF SameRows
<1>3. IsSeq(e.projects) /\ Len(e.projects) \in Nat /\ DOMAIN e.projects = 1..Len(e.projects)
  BY SeqLength DEF IsList
<1> HIDE DEF k
<1>4. SameRows(p, e.projects)
  <2>1. PICK S : e.projects \in Seq(S)
    BY <1>3 DEF IsSeq
  <2>2. k \in 1..Len(e.projects) =>
          /\ DOMAIN row = {"key", "run", "jobs", "size"}
          /\ row.key = e.projects[k].key /\ row.run = e.projects[k].run
    BY DEF IsList
  <2> HIDE DEF row
  <2>3. DOMAIN p = 1..Len(e.projects) /\ \A i \in 1..Len(e.projects) : p[i] = IF i = k THEN row ELSE e.projects[i]
    BY <1>3
  <2>4. p \in Seq(S \cup {row}) /\ Len(p) = Len(e.projects)
    <3>1. \A i \in 1..Len(e.projects) : e.projects[i] \in S
      BY <2>1, ElementOfSeq
    <3>2. p \in [1..Len(e.projects) -> S \cup {row}]
      BY <1>3, <3>1
    <3> HIDE DEF p
    <3> QED
      BY <1>3, <3>2
  <2> HIDE DEF p
  <2> QED
    BY <2>2, <2>3, <2>4 DEF SameRows, IsList, IsSeq
<1> HIDE DEF p
<1>5. Keeps(t, e, {"projects"}) /\ t.projects = p
  BY DEF Keeps, Members
<1>6. Keeps(e, e, {"projects"})
  BY DEF Keeps
<1> HIDE DEF t
<1> QED
  BY <1>1, <1>2, <1>4, <1>5, <1>6

LEMMA JobsFoundEffect ==
  ASSUME NEW e, DOMAIN e = Members, IsList(e.projects), NEW r, NEW h, h = JobsFound(e, r)
  PROVE  Quiet(h, e, r)
<1> DEFINE m == WithMetric(e, r, "jobs")
           shown == [key |-> r.repo, run |-> r.run]
           t == [m EXCEPT !.stages = shown]
<1>1. Keeps(m, e, {"projects"}) /\ SameRows(m.projects, e.projects)
  BY WithMetricEffect
<1>2. h = IF StillSelected(m, r) THEN t ELSE m
  BY DEF JobsFound
<1> HIDE DEF m, shown
<1>3. /\ DOMAIN m = Members /\ m.cells = e.cells /\ m.stages = e.stages
      /\ m.selectedKey = e.selectedKey /\ m.selectedIndex = e.selectedIndex
  BY <1>1 DEF Keeps, Members
<1>4. StillSelected(m, r) <=> StillSelected(e, r)
  BY <1>1, <1>3 DEF StillSelected, HasSelection, SelectedRow, SameRows
<1>5. /\ Keeps(t, e, {"projects", "stages"}) /\ t.cells = e.cells /\ t.stages = shown
      /\ t.projects = m.projects
  BY <1>1, <1>3 DEF Keeps, Members
<1> HIDE DEF t
<1>6. Keeps(m, e, {"projects", "stages"})
  BY <1>1 DEF Keeps
<1>7. /\ Keeps(h, e, {"projects", "stages"}) /\ h.cells = e.cells /\ SameRows(h.projects, e.projects)
      /\ \/ h.stages = e.stages /\ ~StillSelected(e, r)
         \/ h.stages = shown /\ StillSelected(e, r)
  BY <1>1, <1>2, <1>3, <1>4, <1>5, <1>6
<1> QED
  BY <1>7 DEF Quiet, Keeps, SameCells, shown

LEMMA StagesClearedEffect ==
  ASSUME NEW e, DOMAIN e = Members, IsList(e.projects), NEW r,
         NEW h, \/ h = [e EXCEPT !.stages = NothingShown]
                \/ h = e /\ ~ (r.kind = "jobs" /\ StillSelected(e, r))
  PROVE  Quiet(h, e, r)
<1> DEFINE t == [e EXCEPT !.stages = NothingShown]
<1>1. Keeps(t, e, {"stages"}) /\ t.cells = e.cells /\ t.stages = NothingShown /\ t.projects = e.projects
  BY DEF Keeps, Members
<1>2. SameRows(e.projects, e.projects)
  BY DEF SameRows
<1>3. CASE h = t
  <2> HIDE DEF t
  <2>1. Keeps(h, e, RunnerMembers \cup {"projects", "stages"})
    BY <1>1, <1>3 DEF Keeps
  <2>2. SameCells(h, e) /\ SameRows(h.projects, e.projects) /\ h.stages = NothingShown
    BY <1>1, <1>2, <1>3 DEF SameCells
  <2> QED
    BY <2>1, <2>2 DEF Quiet
<1>4. CASE h = e /\ ~ (r.kind = "jobs" /\ StillSelected(e, r))
  BY <1>2, <1>4 DEF Quiet, Keeps, SameCells
<1> QED
  BY <1>3, <1>4

(* What becomes of e when the reply to r has come in; missed are the parts of the refresh that it  *)
(* has failed to bring.                                                                            *)
Outcome(h, e, r, missed) ==
    \/ /\ r.kind \notin Listings /\ r.kind # "runs"
       /\ Quiet(h, e, r) /\ missed \cap {"repos", "runs"} = {}
    \/ /\ r.kind \in Listings /\ missed \cap {"repos", "runs"} = {}
       /\ ListsMore(h, e) \/ AsksRuns(h, e) \/ Refreshed(h, e)
    \/ r.kind \in Listings /\ Failed(h, e)
    \/ /\ r.kind = "runs" /\ "repos" \notin missed
       /\ \E missing : RunsOutcome(h, e, r.cell, missing) /\ ("runs" \in missed => missing = TRUE)

(* A service without the request r, whose reply is being handled. *)
Ready(e, r) ==
    /\ Able(e) /\ Celled(e) /\ IsList(e.projects)
    /\ r.kind \in {"runs", "runners"} => HasCell(e, r)

LEMMA ListingOutcome ==
  ASSUME NEW e, NEW r, Ready(e, r), NEW listed, NEW full, NEW h,
         \/ r.kind = "repos" /\ h = ReposFound(e, r, listed, full)
         \/ r.kind = "private" /\ h = PrivateReposFound(e, r, listed, full)
  PROVE  Outcome(h, e, r, {})
<1>1. Able(e) /\ Celled(e)
  BY DEF Ready
<1>2. \E found, page : \/ h = Discover(e, "repos", page, found)
                       \/ h = Discover(e, "private", page, found)
                       \/ h = LoadRuns(e, found)
  BY Zenon DEF ReposFound, PrivateReposFound
<1>3. "repos" \in Listings /\ "private" \in Listings /\ r.kind \in Listings
  BY DEF Listings
<1>4. ListsMore(h, e) \/ AsksRuns(h, e) \/ Refreshed(h, e)
  BY <1>1, <1>2, <1>3, DiscoverEffect, LoadRunsEffect
<1> QED
  BY <1>3, <1>4 DEF Outcome

LEMMA RunsFoundOutcome ==
  ASSUME NEW e, NEW r, Ready(e, r), r.kind = "runs", NEW run, NEW h, h = RunsFound(e, r, run)
  PROVE  Outcome(h, e, r, {})
<1>1. RunsOutcome(h, e, r.cell, FALSE)
  BY RunsFoundEffect DEF Ready
<1> QED
  BY <1>1 DEF Outcome

LEMMA RunnersFoundOutcome ==
  ASSUME NEW e, NEW r, Ready(e, r), r.kind = "runners", NEW ids, NEW up, NEW valid,
         NEW h, h = RunnersFound(e, r, ids, up, valid)
  PROVE  Outcome(h, e, r, {})
<1>1. DOMAIN e = Members /\ HasCell(e, r) /\ IsList(e.projects)
  BY DEF Ready, Able
<1>2. Keeps(h, e, RunnerMembers) /\ SameCells(h, e)
  BY <1>1, RunnersFoundEffect
<1>3. Quiet(h, e, r)
  BY <1>1, <1>2, QuietEffect
<1> QED
  BY <1>3 DEF Outcome, Listings

LEMMA JobsFoundOutcome ==
  ASSUME NEW e, NEW r, Ready(e, r), r.kind = "jobs", NEW h, h = JobsFound(e, r)
  PROVE  Outcome(h, e, r, {})
<1>1. Quiet(h, e, r)
  BY JobsFoundEffect DEF Ready, Able
<1> QED
  BY <1>1 DEF Outcome, Listings

LEMMA ArtifactsFoundOutcome ==
  ASSUME NEW e, NEW r, Ready(e, r), r.kind = "artifacts", NEW h, h = ArtifactsFound(e, r)
  PROVE  Outcome(h, e, r, {})
<1>1. DOMAIN e = Members /\ IsList(e.projects)
  BY DEF Ready, Able
<1>2. Keeps(h, e, {"projects"}) /\ SameRows(h.projects, e.projects)
  BY <1>1, WithMetricEffect DEF ArtifactsFound
<1>3. h.cells = e.cells /\ h.stages = e.stages
  BY <1>2 DEF Keeps, Members
<1>4. Keeps(h, e, RunnerMembers \cup {"projects", "stages"})
  BY <1>2 DEF Keeps
<1>5. SameCells(h, e)
  BY <1>3 DEF SameCells
<1>6. Quiet(h, e, r)
  BY <1>2, <1>3, <1>4, <1>5 DEF Quiet
<1> QED
  BY <1>6 DEF Outcome, Listings

(* What a failed reply brings short. *)
Lacking(r) == {r.kind} \cap {"repos", "private", "runs"}

(* What a reply that breaks its schema brings short: of listings, one as bad as the public one. *)
Spoiled(r) == IF r.kind = "private" THEN {"repos"} ELSE Lacking(r)

LEMMA UnchangedOutcome ==
  ASSUME NEW e, NEW r, Ready(e, r), r.kind \notin Listings, r.kind # "runs", r.kind # "jobs"
  PROVE  Outcome(e, e, r, Lacking(r))
<1>1. DOMAIN e = Members /\ IsList(e.projects)
  BY DEF Ready, Able
<1>2. Quiet(e, e, r)
  BY <1>1, StagesClearedEffect
<1> QED
  BY <1>2 DEF Outcome, Lacking, Listings

LEMMA InvalidOutcome ==
  ASSUME NEW e, NEW r, Ready(e, r), NEW h, h = AnswerInvalid(e, r)
  PROVE  Outcome(h, e, r, Spoiled(r))
<1>1. DOMAIN e = Members /\ IsList(e.projects) /\ Able(e) /\ Celled(e)
  BY DEF Ready, Able
<1>2. CASE r.kind \in {"repos", "private"}
  <2>1. h = FailRefresh(e)
    BY <1>2 DEF AnswerInvalid
  <2>2. Failed(h, e)
    BY <1>1, <2>1, FailRefreshEffect
  <2> QED
    BY <1>2, <2>2 DEF Outcome, Listings
<1>3. CASE r.kind = "runs"
  <2>1. h = RunsMissing(e, r)
    BY <1>3 DEF AnswerInvalid
  <2>2. RunsOutcome(h, e, r.cell, TRUE)
    BY <1>1, <1>3, <2>1, RunsMissingEffect DEF Ready
  <2> QED
    BY <1>3, <2>2 DEF Outcome, Lacking, Spoiled
<1>4. CASE r.kind = "jobs"
  <2>1. h = JobsInvalid(e, r)
    BY <1>4 DEF AnswerInvalid
  <2>2. Quiet(h, e, r)
    BY <1>1, <2>1, StagesClearedEffect DEF JobsInvalid, StillSelected
  <2> QED
    BY <1>4, <2>2 DEF Outcome, Listings, Lacking, Spoiled
<1>5. CASE r.kind \notin {"repos", "private", "runs", "jobs"}
  <2>1. h = e /\ Spoiled(r) = Lacking(r)
    BY <1>5 DEF AnswerInvalid, Spoiled
  <2> QED
    BY <1>5, <2>1, UnchangedOutcome DEF Listings
<1> QED
  BY <1>2, <1>3, <1>4, <1>5

LEMMA MissingOutcome ==
  ASSUME NEW e, NEW r, Ready(e, r), NEW h, h = AnswerMissing(e, r),
         NEW missed, missed \subseteq Lacking(r)
  PROVE  Outcome(h, e, r, missed)
<1>1. DOMAIN e = Members /\ IsList(e.projects) /\ Able(e) /\ Celled(e)
  BY DEF Ready, Able
<1>2. CASE r.kind = "repos"
  <2>1. h = FailRefresh(e)
    BY <1>2 DEF AnswerMissing
  <2>2. Failed(h, e)
    BY <1>1, <2>1, FailRefreshEffect
  <2> QED
    BY <1>2, <2>2 DEF Outcome, Listings
<1>3. CASE r.kind = "private"
  <2>1. h = LoadRuns(e, r.found)
    BY <1>3 DEF AnswerMissing
  <2>2. AsksRuns(h, e) \/ Refreshed(h, e)
    BY <1>1, <2>1, LoadRunsEffect
  <2> QED
    BY <1>3, <2>2 DEF Outcome, Listings, Lacking
<1>4. CASE r.kind = "runs"
  <2>1. h = RunsMissing(e, r)
    BY <1>4 DEF AnswerMissing
  <2>2. RunsOutcome(h, e, r.cell, TRUE)
    BY <1>1, <1>4, <2>1, RunsMissingEffect DEF Ready
  <2> QED
    BY <1>4, <2>2 DEF Outcome, Lacking
<1>5. CASE r.kind = "runners"
  <2>1. h = RunnersMissing(e, r)
    BY <1>5 DEF AnswerMissing
  <2>2. Keeps(h, e, RunnerMembers) /\ SameCells(h, e)
    BY <1>1, <1>5, <2>1, RunnersMissingEffect DEF Ready
  <2>3. Quiet(h, e, r)
    BY <1>1, <1>5, <2>2, QuietEffect
  <2> QED
    BY <1>5, <2>3 DEF Outcome, Listings, Lacking
<1>6. CASE r.kind = "jobs"
  <2>1. h = JobsMissing(e, r)
    BY <1>6 DEF AnswerMissing
  <2>2. Quiet(h, e, r)
    BY <1>1, <2>1, StagesClearedEffect DEF JobsMissing
  <2> QED
    BY <1>6, <2>2 DEF Outcome, Listings, Lacking
<1>7. CASE r.kind \notin {"repos", "private", "runs", "runners", "jobs"}
  <2>1. h = e
    BY <1>7 DEF AnswerMissing
  <2>2. Quiet(h, e, r)
    BY <1>1, <1>7, <2>1, StagesClearedEffect
  <2> QED
    BY <1>7, <2>2 DEF Outcome, Listings, Lacking
<1> QED
  BY <1>2, <1>3, <1>4, <1>5, <1>6, <1>7
-----------------------------------------------------------------------------
(* The inductive invariant *)

SharesCell(s) ==
    \A q, r \in Outstanding(s) : q.kind = "runs" /\ r.kind = "runs" => q.cell = r.cell

RefreshHolds(s) ==
    /\ HowMany(s, Listings) + s.pendingRuns = 0 <=> s.state # "loading"
    /\ HowMany(s, Listings) <= 1
    /\ HowMany(s, Listings) = 1 => s.pendingRuns = 0
    /\ HowMany(s, {"runs"}) = s.pendingRuns
    /\ SharesCell(s)
    /\ s.counting <=> s.state = "loading"

(* While a refresh is loading, no listing is missing, and if the runs of a repository are, then    *)
(* nothing is left to list and the object shared by the other replies says so.                     *)
MissingIsKnown(s, o) ==
    /\ s.state = "loading" =>
        /\ "repos" \notin o.missed
        /\ "runs" \in o.missed =>
            /\ HowMany(s, Listings) = 0
            /\ \A q \in Outstanding(s) : q.kind = "runs" => s.cells[q.cell].failed = TRUE
    /\ s.state # "loading" /\ o.missed \cap {"repos", "runs"} # {} => s.stale = TRUE \/ s.state = "error"

(* The timer has longer to run than polling has to wait. *)
TimerHolds(s, o) ==
    /\ s.interval \in Nat /\ s.pollLeft \in Nat /\ o.limitLeft \in Nat
    /\ o.limitLeft <= s.pollLeft /\ s.pollLeft <= s.interval

PageHolds(s) == IsList(s.projects) /\ SelectionHolds(s) /\ DetailsHold(s)

ServiceInv(s, o) ==
    /\ Able(s) /\ Slots(s) /\ Celled(s)
    /\ RefreshHolds(s) /\ MissingIsKnown(s, o) /\ TimerHolds(s, o) /\ PageHolds(s)

ProjectsInv == DOMAIN observed = {"missed", "limitLeft"} /\ ServiceInv(service, observed)

(* g is h with the waiting requests started and the objects out of use gone. *)
Settled(g, h) ==
    /\ Keeps(g, h, QueueMembers \cup {"cells"})
    /\ Able(g) /\ Slots(g) /\ Celled(g)
    /\ Outstanding(g) = Outstanding(h)
    /\ \A kinds : HowMany(g, kinds) = HowMany(h, kinds)
    /\ \A q \in Outstanding(h) : q.kind = "runs" => g.cells[q.cell] = h.cells[q.cell]

LEMMA SettledEffect ==
  ASSUME NEW h, Able(h), Celled(h), NEW g, g = Collected(StartRequests(h))
  PROVE  Settled(g, h)
<1> DEFINE t == StartRequests(h)
           cells == [c \in InUse(t) |-> t.cells[c]]
<1>1. Keeps(t, h, QueueMembers) /\ Adds(t, h, <<>>) /\ Slots(t)
  BY StartRequestsEffect
<1>2. g = [t EXCEPT !.cells = cells]
  BY DEF Collected
<1> HIDE DEF t
<1>3. DOMAIN t = Members /\ t.cells = h.cells
  BY <1>1 DEF Keeps, QueueMembers, Members
<1>4. /\ Able(t) /\ Outstanding(t) = Outstanding(h)
      /\ \A kinds : HowMany(t, kinds) = HowMany(h, kinds)
  <2>1. \A kinds : HowMany(h, kinds) \in Nat
    BY HowManyIsNumber
  <2> QED
    BY <1>1, <2>1, EmptyCount DEF Adds
<1>5. /\ DOMAIN g = Members /\ g.active = t.active /\ g.queue = t.queue /\ g.count = t.count
      /\ g.cells = cells
  BY <1>2, <1>3 DEF Members
<1>6. Keeps(g, t, {"cells"})
  BY <1>2, <1>3 DEF Keeps
<1>7. Keeps(g, h, QueueMembers \cup {"cells"})
  BY <1>1, <1>6 DEF Keeps
<1>8. Able(g) /\ Outstanding(g) = Outstanding(t) /\ \A kinds : HowMany(g, kinds) = HowMany(t, kinds)
  BY <1>4, <1>5, SameQueue
<1>9. Slots(g)
  BY <1>1, <1>5 DEF Slots
<1>10. ASSUME NEW q \in Outstanding(h), q.kind \in {"runs", "runners"}
       PROVE  q.cell \in DOMAIN g.cells /\ g.cells[q.cell] = h.cells[q.cell]
  <2>1. q.cell \in InUse(t)
    BY <1>4, <1>10 DEF InUse
  <2> QED
    BY <1>3, <1>5, <2>1
<1>11. Celled(g)
  BY <1>4, <1>8, <1>10 DEF Celled, HasCell
<1> QED
  BY <1>4, <1>7, <1>8, <1>9, <1>10, <1>11 DEF Settled

LEMMA OutcomeIsAble ==
  ASSUME NEW e, NEW r, Ready(e, r), NEW missed, NEW h, Outcome(h, e, r, missed)
  PROVE  Able(h) /\ Celled(h)
<1>1. Able(e) /\ Celled(e) /\ DOMAIN e = Members
  BY DEF Ready, Able
<1>2. ASSUME NEW t, NEW F, Keeps(t, e, F), SameCells(t, e), F \cap QueueMembers = {}
      PROVE  Able(t) /\ Celled(t)
  <2>1. DOMAIN t = Members /\ t.active = e.active /\ t.queue = e.queue /\ t.count = e.count
    BY <1>2 DEF Keeps, QueueMembers, Members
  <2>2. Able(t) /\ Outstanding(t) = Outstanding(e)
    BY <1>1, <2>1, SameQueue
  <2> QED
    BY <1>1, <1>2, <2>2, SameCelled
<1>3. CASE Quiet(h, e, r)
  BY <1>2, <1>3 DEF Quiet, RunnerMembers, QueueMembers
<1>4. CASE ListsMore(h, e)
  <2>1. h.cells = e.cells
    BY <1>4 DEF ListsMore, Keeps, QueueMembers, Members
  <2> QED
    BY <1>1, <1>4, <2>1 DEF ListsMore, Celled, HasCell, Listings
<1>5. CASE AsksRuns(h, e)
  BY <1>5 DEF AsksRuns
<1>6. ASSUME NEW t, Refreshed(h, t)
      PROVE  Able(h) /\ Celled(h)
  BY <1>6 DEF Refreshed, Grows
<1>7. ASSUME NEW t, Able(t), Celled(t), Failed(h, t)
      PROVE  Able(h) /\ Celled(h)
  <2>1. DOMAIN h = Members /\ h.active = t.active /\ h.queue = t.queue /\ h.count = t.count /\ h.cells = t.cells
    BY <1>7 DEF Failed, Keeps, Members
  <2>2. Able(h) /\ Outstanding(h) = Outstanding(t)
    BY <1>7, <2>1, SameQueue
  <2> QED
    BY <1>7, <2>1, <2>2 DEF Celled, HasCell
<1>8. ASSUME NEW missing, RunsOutcome(h, e, r.cell, missing)
      PROVE  Able(h) /\ Celled(h)
  <2>1. PICK t : /\ Counted(t, e)
                 /\ \/ h = t
                    \/ Failed(h, t)
                    \/ Refreshed(h, t)
    BY <1>8 DEF RunsOutcome
  <2>2. Able(t) /\ Celled(t)
    BY <1>2, <2>1 DEF Counted, QueueMembers
  <2> QED
    BY <1>6, <1>7, <2>1, <2>2
<1> QED
  BY <1>1, <1>3, <1>4, <1>5, <1>6, <1>7, <1>8 DEF Outcome
-----------------------------------------------------------------------------
(* A reply keeps the invariant *)

(* The end of the request r, whose reply may ask for a delay: the slot is free and the timer runs  *)
(* at least as long as it would have, and as long as the delay.                                    *)
Ends(e, s, r, delay) ==
    /\ Keeps(e, s, {"active", "interval", "pollLeft"}) /\ Removes(e, s, r)
    /\ delay \in Nat /\ e.interval \in Nat /\ e.pollLeft \in Nat
    /\ e.pollLeft <= e.interval /\ s.pollLeft <= e.pollLeft /\ delay <= e.pollLeft

LEMMA EndedCounts ==
  ASSUME NEW s, Able(s), RefreshHolds(s), NEW e, NEW r, Removes(e, s, r)
  PROVE  /\ HowMany(e, Listings) \in Nat /\ HowMany(e, {"runs"}) \in Nat
         /\ r.kind \in Listings =>
              /\ s.state = "loading" /\ s.pendingRuns = 0
              /\ HowMany(e, Listings) = 0 /\ HowMany(e, {"runs"}) = 0
         /\ r.kind = "runs" =>
              /\ s.state = "loading" /\ HowMany(s, Listings) = 0
              /\ HowMany(e, Listings) = 0 /\ HowMany(e, {"runs"}) = s.pendingRuns - 1
              /\ s.pendingRuns \in Nat
         /\ r.kind \notin Listings /\ r.kind # "runs" =>
              /\ HowMany(e, Listings) = HowMany(s, Listings)
              /\ HowMany(e, {"runs"}) = HowMany(s, {"runs"})
<1>1. HowMany(e, Listings) \in Nat /\ HowMany(e, {"runs"}) \in Nat
  BY HowManyIsNumber DEF Removes
<1>2. /\ HowMany(s, Listings) = HowMany(e, Listings) + (IF r.kind \in Listings THEN 1 ELSE 0)
      /\ HowMany(s, {"runs"}) = HowMany(e, {"runs"}) + (IF r.kind \in {"runs"} THEN 1 ELSE 0)
  BY DEF Removes
<1>3. ~ (r.kind \in Listings /\ r.kind = "runs")
  BY DEF Listings
<1>4. CASE r.kind \in Listings
  BY <1>1, <1>2, <1>3, <1>4 DEF RefreshHolds
<1>5. CASE r.kind = "runs"
  BY <1>1, <1>2, <1>3, <1>5 DEF RefreshHolds
<1>6. CASE r.kind \notin Listings /\ r.kind # "runs"
  BY <1>1, <1>2, <1>6
<1> QED
  BY <1>1, <1>3, <1>4, <1>5, <1>6

LEMMA EndedIsReady ==
  ASSUME NEW s, Able(s), Celled(s), IsList(s.projects), NEW e, NEW r, NEW delay, Ends(e, s, r, delay)
  PROVE  /\ Ready(e, r) /\ Outstanding(e) \subseteq Outstanding(s) /\ DOMAIN e = Members
         /\ e.state = s.state /\ e.stale = s.stale /\ e.counting = s.counting
         /\ e.pendingRuns = s.pendingRuns /\ e.projects = s.projects /\ e.cells = s.cells
<1>1. /\ DOMAIN e = Members
      /\ e.state = s.state /\ e.stale = s.stale /\ e.counting = s.counting
      /\ e.pendingRuns = s.pendingRuns /\ e.projects = s.projects /\ e.cells = s.cells
  BY DEF Ends, Keeps, Members
<1>2. Able(e) /\ Outstanding(s) = Outstanding(e) \cup {r}
  BY DEF Ends, Removes
<1>3. Celled(e) /\ (r.kind \in {"runs", "runners"} => HasCell(e, r))
  BY <1>1, <1>2 DEF Celled, HasCell
<1> QED
  BY <1>1, <1>2, <1>3 DEF Ready

LEMMA RefreshKept ==
  ASSUME NEW s, Able(s), Celled(s), IsList(s.projects), RefreshHolds(s),
         NEW e, NEW r, NEW delay, Ends(e, s, r, delay),
         NEW missed, NEW h, Outcome(h, e, r, missed)
  PROVE  RefreshHolds(h)
<1>1. /\ Able(e) /\ Outstanding(e) \subseteq Outstanding(s) /\ DOMAIN e = Members
      /\ e.state = s.state /\ e.counting = s.counting /\ e.pendingRuns = s.pendingRuns
  BY EndedIsReady DEF Ready
<1>2. Removes(e, s, r)
  BY DEF Ends
<1>3. SharesCell(e)
  BY <1>1 DEF RefreshHolds, SharesCell
<1>4. CASE r.kind \notin Listings /\ r.kind # "runs" /\ Quiet(h, e, r)
  <2>1. /\ DOMAIN h = Members /\ h.active = e.active /\ h.queue = e.queue /\ h.count = e.count
        /\ h.state = e.state /\ h.counting = e.counting /\ h.pendingRuns = e.pendingRuns
    BY <1>4 DEF Quiet, Keeps, RunnerMembers, Members
  <2>2. Outstanding(h) = Outstanding(e) /\ \A kinds : HowMany(h, kinds) = HowMany(e, kinds)
    BY <1>1, <2>1, SameQueue
  <2>3. SharesCell(h)
    BY <1>3, <2>2 DEF SharesCell
  <2>4. HowMany(h, Listings) = HowMany(s, Listings) /\ HowMany(h, {"runs"}) = HowMany(s, {"runs"})
    BY <1>2, <1>4, <2>2, EndedCounts
  <2> QED
    BY <1>1, <2>1, <2>3, <2>4 DEF RefreshHolds
<1>5. CASE r.kind \in Listings
  <2>1. /\ s.state = "loading" /\ s.pendingRuns = 0
        /\ HowMany(e, Listings) = 0 /\ HowMany(e, {"runs"}) = 0
    BY <1>2, <1>5, EndedCounts
  <2>2. \A q \in Outstanding(e) : q.kind # "runs"
    BY <1>1, <2>1, HowManyIsNumber
  <2>3. CASE ListsMore(h, e)
    <3>1. /\ h.state = s.state /\ h.counting = s.counting /\ h.pendingRuns = s.pendingRuns
      BY <1>1, <2>3 DEF ListsMore, Keeps, QueueMembers, Members
    <3>2. SharesCell(h)
      BY <2>2, <2>3 DEF SharesCell, ListsMore, Listings
    <3> QED
      BY <2>1, <2>3, <3>1, <3>2 DEF RefreshHolds, ListsMore
  <2>4. CASE AsksRuns(h, e)
    <3>1. h.state = s.state /\ h.counting = s.counting
      BY <1>1, <2>4 DEF AsksRuns, Keeps, QueueMembers, Members
    <3>2. SharesCell(h)
      BY <2>2, <2>4 DEF SharesCell, AsksRuns
    <3>3. HowMany(h, Listings) = 0 /\ h.pendingRuns \in Nat \ {0} /\ HowMany(h, {"runs"}) = h.pendingRuns
      BY <2>1, <2>4 DEF AsksRuns
    <3> QED
      BY <2>1, <3>1, <3>2, <3>3 DEF RefreshHolds
  <2>5. CASE Refreshed(h, e)
    <3>1. /\ h.pendingRuns = 0 /\ HowMany(h, Listings) = 0 /\ HowMany(h, {"runs"}) = 0
          /\ h.state # "loading" /\ h.counting = FALSE
      BY <1>1, <2>1, <2>5 DEF Refreshed, Grows
    <3>2. SharesCell(h)
      BY <2>2, <2>5 DEF SharesCell, Refreshed, Grows, Details
    <3> QED
      BY <3>1, <3>2 DEF RefreshHolds
  <2>6. CASE Failed(h, e)
    <3>1. /\ DOMAIN h = Members /\ h.active = e.active /\ h.queue = e.queue /\ h.count = e.count
          /\ h.pendingRuns = e.pendingRuns
      BY <2>6 DEF Failed, Keeps, Members
    <3>2. Outstanding(h) = Outstanding(e) /\ \A kinds : HowMany(h, kinds) = HowMany(e, kinds)
      BY <1>1, <3>1, SameQueue
    <3>3. h.state # "loading" /\ h.counting = FALSE
      BY <2>6 DEF Failed
    <3>4. SharesCell(h)
      BY <1>3, <3>2 DEF SharesCell
    <3> QED
      BY <1>1, <2>1, <3>1, <3>2, <3>3, <3>4 DEF RefreshHolds
  <2> QED
    BY <1>5, <2>3, <2>4, <2>5, <2>6 DEF Outcome, Listings
<1>6. CASE r.kind = "runs" /\ \E missing : RunsOutcome(h, e, r.cell, missing)
  <2>1. /\ s.state = "loading" /\ HowMany(e, Listings) = 0 /\ s.pendingRuns \in Nat
        /\ HowMany(e, {"runs"}) = s.pendingRuns - 1 /\ HowMany(e, {"runs"}) \in Nat
    BY <1>2, <1>6, EndedCounts
  <2>2. PICK t : /\ Counted(t, e)
                 /\ \/ t.pendingRuns # 0 /\ h = t
                    \/ t.pendingRuns = 0 /\ Failed(h, t)
                    \/ t.pendingRuns = 0 /\ Refreshed(h, t)
    BY <1>6 DEF RunsOutcome
  <2>3. /\ DOMAIN t = Members /\ t.active = e.active /\ t.queue = e.queue /\ t.count = e.count
        /\ t.state = e.state /\ t.counting = e.counting /\ t.pendingRuns = e.pendingRuns - 1
    BY <2>2 DEF Counted, Keeps, Members
  <2>4. /\ Able(t) /\ Outstanding(t) = Outstanding(e) /\ \A kinds : HowMany(t, kinds) = HowMany(e, kinds)
    BY <1>1, <2>3, SameQueue
  <2>5. /\ HowMany(t, Listings) = 0 /\ HowMany(t, {"runs"}) = t.pendingRuns /\ t.pendingRuns \in Nat
        /\ SharesCell(t)
    BY <1>1, <1>3, <2>1, <2>3, <2>4 DEF SharesCell
  <2>6. CASE t.pendingRuns # 0 /\ h = t
    BY <1>1, <2>1, <2>3, <2>5, <2>6 DEF RefreshHolds
  <2>7. CASE t.pendingRuns = 0 /\ Failed(h, t)
    <3>1. /\ DOMAIN h = Members /\ h.active = t.active /\ h.queue = t.queue /\ h.count = t.count
          /\ h.pendingRuns = t.pendingRuns
      BY <2>7 DEF Failed, Keeps, Members
    <3>2. Outstanding(h) = Outstanding(t) /\ \A kinds : HowMany(h, kinds) = HowMany(t, kinds)
      BY <2>4, <3>1, SameQueue
    <3>3. h.state # "loading" /\ h.counting = FALSE
      BY <2>7 DEF Failed
    <3>4. SharesCell(h)
      BY <2>5, <3>2 DEF SharesCell
    <3> QED
      BY <2>5, <2>7, <3>1, <3>2, <3>3, <3>4 DEF RefreshHolds
  <2>8. CASE t.pendingRuns = 0 /\ Refreshed(h, t)
    <3>1. /\ h.pendingRuns = 0 /\ HowMany(h, Listings) = 0 /\ HowMany(h, {"runs"}) = 0
          /\ h.state # "loading" /\ h.counting = FALSE
      BY <2>5, <2>8 DEF Refreshed, Grows
    <3>2. SharesCell(h)
      BY <2>5, <2>8 DEF SharesCell, Refreshed, Grows, Details
    <3> QED
      BY <3>1, <3>2 DEF RefreshHolds
  <2> QED
    BY <2>2, <2>6, <2>7, <2>8
<1> QED
  BY <1>4, <1>5, <1>6 DEF Outcome

LEMMA MissingKept ==
  ASSUME NEW s, Able(s), Celled(s), IsList(s.projects), RefreshHolds(s), NEW o, MissingIsKnown(s, o),
         NEW e, NEW r, NEW delay, Ends(e, s, r, delay),
         NEW missed, NEW h, Outcome(h, e, r, missed), NEW n, n.missed = o.missed \cup missed
  PROVE  MissingIsKnown(h, n)
<1>1. /\ Able(e) /\ Celled(e) /\ Outstanding(e) \subseteq Outstanding(s) /\ DOMAIN e = Members
      /\ e.state = s.state /\ e.stale = s.stale /\ e.cells = s.cells /\ e.pendingRuns = s.pendingRuns
  BY EndedIsReady DEF Ready
<1>2. Removes(e, s, r) /\ r \in Outstanding(s)
  BY DEF Ends, Removes
<1>3. ASSUME NEW t, Failed(h, t)
      PROVE  MissingIsKnown(h, n)
  BY <1>3 DEF Failed, MissingIsKnown
<1>4. CASE r.kind \notin Listings /\ r.kind # "runs" /\ Quiet(h, e, r) /\ missed \cap {"repos", "runs"} = {}
  <2>1. /\ DOMAIN h = Members /\ h.active = e.active /\ h.queue = e.queue /\ h.count = e.count
        /\ h.state = e.state /\ h.stale = e.stale
    BY <1>4 DEF Quiet, Keeps, RunnerMembers, Members
  <2>2. Outstanding(h) = Outstanding(e) /\ \A kinds : HowMany(h, kinds) = HowMany(e, kinds)
    BY <1>1, <2>1, SameQueue
  <2>3. HowMany(h, Listings) = HowMany(s, Listings)
    BY <1>2, <1>4, <2>2, EndedCounts
  <2>4. "repos" \in n.missed <=> "repos" \in o.missed
    BY <1>4
  <2>5. "runs" \in n.missed <=> "runs" \in o.missed
    BY <1>4
  <2>6. ASSUME NEW q \in Outstanding(h), q.kind = "runs", s.cells[q.cell].failed = TRUE
        PROVE  h.cells[q.cell].failed = TRUE
    <3>1. q.cell \in DOMAIN e.cells
      BY <1>1, <2>2, <2>6 DEF Celled, HasCell
    <3> QED
      BY <1>1, <1>4, <2>6, <3>1 DEF Quiet, SameCells
  <2>7. Outstanding(h) \subseteq Outstanding(s)
    BY <1>1, <2>2
  <2>8. n.missed \cap {"repos", "runs"} # {} => o.missed \cap {"repos", "runs"} # {}
    BY <2>4, <2>5
  <2> QED
    BY <1>1, <2>1, <2>3, <2>4, <2>5, <2>6, <2>7, <2>8 DEF MissingIsKnown
<1>5. CASE r.kind \in Listings
  <2>1. s.state = "loading" /\ HowMany(s, Listings) = 1
    <3>1. s.state = "loading" /\ HowMany(e, Listings) = 0
      BY <1>2, <1>5, EndedCounts
    <3>2. HowMany(s, Listings) = HowMany(e, Listings) + (IF r.kind \in Listings THEN 1 ELSE 0)
      BY <1>2 DEF Removes
    <3> QED
      BY <1>5, <3>1, <3>2
  <2>2. "repos" \notin o.missed /\ "runs" \notin o.missed
    BY <2>1 DEF MissingIsKnown
  <2>3. CASE missed \cap {"repos", "runs"} = {}
    <3>1. "repos" \notin n.missed /\ "runs" \notin n.missed
      BY <2>2, <2>3
    <3> QED
      BY <3>1 DEF MissingIsKnown
  <2> QED
    BY <1>3, <1>5, <2>3 DEF Outcome, Listings
<1>6. ASSUME r.kind = "runs", "repos" \notin missed,
             NEW missing, RunsOutcome(h, e, r.cell, missing), "runs" \in missed => missing = TRUE
      PROVE  MissingIsKnown(h, n)
  <2>1. s.state = "loading" /\ HowMany(e, Listings) = 0
    BY <1>2, <1>6, EndedCounts
  <2>2. PICK t : /\ Counted(t, e)
                 /\ missing => t.cells[r.cell].failed = TRUE
                 /\ \/ t.pendingRuns # 0 /\ h = t
                    \/ t.pendingRuns = 0 /\ t.cells[r.cell].failed = TRUE /\ Failed(h, t)
                    \/ t.pendingRuns = 0 /\ t.cells[r.cell].failed # TRUE /\ Refreshed(h, t)
    BY <1>6 DEF RunsOutcome
  <2>3. r.cell \in DOMAIN e.cells
    BY <1>1, <1>2, <1>6 DEF Celled, HasCell
  <2>4. "repos" \notin n.missed
    BY <1>6, <2>1 DEF MissingIsKnown
  <2>5. "runs" \in n.missed => t.cells[r.cell].failed = TRUE
    <3>1. CASE "runs" \in missed
      BY <1>6, <2>2, <3>1
    <3>2. CASE "runs" \in o.missed
      <4>1. e.cells[r.cell].failed = TRUE
        BY <1>1, <1>2, <1>6, <2>1, <3>2 DEF MissingIsKnown
      <4> QED
        BY <2>2, <2>3, <4>1 DEF Counted, SameCells
    <3> QED
      BY <3>1, <3>2
  <2>6. CASE h = t
    <3>1. /\ DOMAIN t = Members /\ t.active = e.active /\ t.queue = e.queue /\ t.count = e.count
          /\ t.state = e.state
      BY <2>2 DEF Counted, Keeps, Members
    <3>2. /\ Outstanding(t) = Outstanding(e) /\ \A kinds : HowMany(t, kinds) = HowMany(e, kinds)
      BY <1>1, <3>1, SameQueue
    <3>3. \A q \in Outstanding(t) : q.kind = "runs" => q.cell = r.cell
      BY <1>1, <1>2, <1>6, <3>2 DEF RefreshHolds, SharesCell
    <3> QED
      BY <1>1, <2>1, <2>4, <2>5, <2>6, <3>1, <3>2, <3>3 DEF MissingIsKnown
  <2>7. CASE t.cells[r.cell].failed # TRUE /\ Refreshed(h, t)
    <3>1. "runs" \notin n.missed
      BY <2>5, <2>7
    <3> QED
      BY <2>4, <2>7, <3>1 DEF MissingIsKnown, Refreshed
  <2> QED
    BY <1>3, <2>2, <2>6, <2>7
<1> QED
  BY <1>4, <1>5, <1>6 DEF Outcome

LEMMA TimerKept ==
  ASSUME NEW s, Able(s), Celled(s), IsList(s.projects), RefreshHolds(s), NEW o, TimerHolds(s, o),
         NEW e, NEW r, NEW delay, Ends(e, s, r, delay),
         NEW missed, NEW h, Outcome(h, e, r, missed), NEW n,
         n.limitLeft = IF s.state = "loading" /\ h.state \in {"ready", "empty"} /\ ~h.stale THEN 0
                       ELSE IF delay > o.limitLeft THEN delay ELSE o.limitLeft
  PROVE  TimerHolds(h, n)
<1>1. /\ o.limitLeft \in Nat /\ delay \in Nat /\ e.interval \in Nat /\ e.pollLeft \in Nat
      /\ e.pollLeft <= e.interval /\ o.limitLeft <= e.pollLeft /\ delay <= e.pollLeft
  BY DEF TimerHolds, Ends
<1>2. /\ n.limitLeft \in Nat /\ n.limitLeft <= e.pollLeft
  <2>1. n.limitLeft \in {0, delay, o.limitLeft}
    OBVIOUS
  <2> QED
    BY <1>1, <2>1
<1>3. CASE h.interval = e.interval /\ h.pollLeft = e.pollLeft
  BY <1>1, <1>2, <1>3 DEF TimerHolds
<1>4. ASSUME s.state = "loading", NEW t, Refreshed(h, t)
      PROVE  TimerHolds(h, n)
  <2>1. /\ h.state \in {"ready", "empty"} /\ h.stale = FALSE /\ h.interval \in Nat
        /\ h.pollLeft = h.interval
    BY <1>4 DEF Refreshed
  <2>2. n.limitLeft = 0
    BY <1>4, <2>1
  <2> QED
    BY <2>1, <2>2 DEF TimerHolds
<1>5. Removes(e, s, r)
  BY DEF Ends
<1>6. CASE Quiet(h, e, r)
  <2>1. h.interval = e.interval /\ h.pollLeft = e.pollLeft
    BY <1>6 DEF Quiet, Keeps, RunnerMembers, Members
  <2> QED
    BY <1>3, <2>1
<1>7. CASE ListsMore(h, e)
  <2>1. h.interval = e.interval /\ h.pollLeft = e.pollLeft
    BY <1>7 DEF ListsMore, Keeps, QueueMembers, Members
  <2> QED
    BY <1>3, <2>1
<1>8. CASE AsksRuns(h, e)
  <2>1. h.interval = e.interval /\ h.pollLeft = e.pollLeft
    BY <1>8 DEF AsksRuns, Keeps, QueueMembers, Members
  <2> QED
    BY <1>3, <2>1
<1>9. CASE Failed(h, e)
  <2>1. h.interval = e.interval /\ h.pollLeft = e.pollLeft
    BY <1>9 DEF Failed, Keeps, Members
  <2> QED
    BY <1>3, <2>1
<1>10. CASE r.kind \in Listings /\ Refreshed(h, e)
  <2>1. s.state = "loading"
    BY <1>5, <1>10, EndedCounts
  <2> QED
    BY <1>4, <1>10, <2>1
<1>11. ASSUME r.kind = "runs", NEW missing, RunsOutcome(h, e, r.cell, missing)
       PROVE  TimerHolds(h, n)
  <2>1. PICK t : Counted(t, e) /\ (h = t \/ Failed(h, t) \/ Refreshed(h, t))
    BY <1>11 DEF RunsOutcome
  <2>2. t.interval = e.interval /\ t.pollLeft = e.pollLeft
    BY <2>1 DEF Counted, Keeps, Members
  <2>3. CASE h = t
    BY <1>3, <2>2, <2>3
  <2>4. CASE Failed(h, t)
    <3>1. h.interval = t.interval /\ h.pollLeft = t.pollLeft
      BY <2>4 DEF Failed, Keeps, Members
    <3> QED
      BY <1>3, <2>2, <3>1
  <2>5. CASE Refreshed(h, t)
    <3>1. s.state = "loading"
      BY <1>5, <1>11, EndedCounts
    <3> QED
      BY <1>4, <2>5, <3>1
  <2> QED
    BY <2>1, <2>3, <2>4, <2>5
<1> QED
  BY <1>6, <1>7, <1>8, <1>9, <1>10, <1>11 DEF Outcome

(* A new list is shown at once and by a refresh that succeeds; the selection leaves a project only *)
(* when the list no longer has it; and no reply begins a refresh.                                  *)
PageMoves(g, s) ==
    /\ \/ SameRows(g.projects, s.projects)
       \/ s.state = "loading" /\ g.state \in {"ready", "empty"} /\ g.stale = FALSE
    /\ g.selectedKey # s.selectedKey => RowsOf(g.projects, s.selectedKey) = {}
    /\ g.state = "loading" => s.state = "loading"

(* The page is left alone. *)
PageStays(h, e) ==
    /\ h.projects = e.projects /\ h.selectedIndex = e.selectedIndex /\ h.selectedKey = e.selectedKey
    /\ h.history = e.history /\ h.stages = e.stages

LEMMA PageKept ==
  ASSUME NEW s, Able(s), Celled(s), RefreshHolds(s), PageHolds(s),
         NEW e, NEW r, NEW delay, Ends(e, s, r, delay),
         NEW missed, NEW h, Outcome(h, e, r, missed)
  PROVE  PageHolds(h) /\ PageMoves(h, s)
<1>0. IsList(s.projects) /\ SelectionHolds(s) /\ DetailsHold(s)
  BY DEF PageHolds
<1>1. /\ Able(e) /\ Outstanding(e) \subseteq Outstanding(s) /\ DOMAIN e = Members
      /\ e.state = s.state
  BY <1>0, EndedIsReady DEF Ready
<1>2. Removes(e, s, r) /\ Outstanding(s) = Outstanding(e) \cup {r}
  BY DEF Ends, Removes
<1>3. PageStays(e, s)
  BY DEF Ends, Keeps, Members, PageStays
<1>4. SameRows(s.projects, s.projects)
  BY <1>0 DEF SameRows
<1> DEFINE row == SelectedRow(s)
           jobs == AboutRun("jobs", row.key, row.run)
<1>5. jobs.kind = "jobs" /\ jobs.repo = row.key /\ jobs.run = row.run
  BY DEF AboutRun
<1>6. ASSUME PageStays(h, s), r.kind # "jobs", Outstanding(e) \subseteq Outstanding(h),
             h.state = "loading" => s.state = "loading"
      PROVE  PageHolds(h) /\ PageMoves(h, s)
  <2>1. /\ h.projects = s.projects /\ h.selectedIndex = s.selectedIndex /\ h.selectedKey = s.selectedKey
        /\ h.history = s.history /\ h.stages = s.stages
    BY <1>6 DEF PageStays
  <2>2. jobs \in Outstanding(s) => jobs \in Outstanding(h)
    BY <1>2, <1>5, <1>6
  <2>3. HasSelection(h) = HasSelection(s) /\ SelectedRow(h) = row
    BY <2>1 DEF HasSelection, SelectedRow
  <2>4. DetailsHold(h)
    BY <1>0, <2>1, <2>2, <2>3 DEF DetailsHold
  <2>5. SelectionHolds(h) /\ IsList(h.projects)
    BY <1>0, <2>1, <2>3 DEF SelectionHolds
  <2> QED
    BY <1>4, <1>6, <2>1, <2>4, <2>5 DEF PageHolds, PageMoves
<1>7. ASSUME s.state = "loading", NEW t, Refreshed(h, t), t.selectedKey = s.selectedKey
      PROVE  PageHolds(h) /\ PageMoves(h, s)
  BY <1>7 DEF Refreshed, PageHolds, PageMoves
<1>8. CASE Quiet(h, e, r)
  <2>1. /\ DOMAIN h = Members /\ h.active = e.active /\ h.queue = e.queue /\ h.count = e.count
        /\ h.state = e.state /\ h.selectedIndex = e.selectedIndex /\ h.selectedKey = e.selectedKey
        /\ h.history = e.history
    BY <1>8 DEF Quiet, Keeps, RunnerMembers, Members
  <2>2. Outstanding(h) = Outstanding(e)
    BY <1>1, <2>1, SameQueue
  <2>3. /\ SameRows(h.projects, s.projects)
        /\ \/ h.stages = s.stages /\ ~ (r.kind = "jobs" /\ StillSelected(e, r))
           \/ h.stages = NothingShown
           \/ h.stages = [key |-> r.repo, run |-> r.run] /\ StillSelected(e, r)
    BY <1>3, <1>8 DEF Quiet, PageStays
  <2>4. /\ e.projects = s.projects /\ e.selectedIndex = s.selectedIndex
        /\ e.selectedKey = s.selectedKey /\ e.history = s.history
    BY <1>3 DEF PageStays
  <2>5. StillSelected(e, r) <=> s.selectedKey = r.repo /\ HasSelection(s) /\ row.run = r.run
    BY <2>4 DEF StillSelected, HasSelection, SelectedRow
  <2>6. Len(s.projects) \in Nat /\ (s.projects = <<>> <=> Len(s.projects) = 0)
    BY <1>0, SeqLength DEF IsList
  <2>7. HasSelection(s) => row.key = s.selectedKey
    BY <1>0, <2>6 DEF SelectionHolds, HasSelection
  <2>8. /\ HasSelection(h) = HasSelection(s)
        /\ HasSelection(s) => SelectedRow(h).key = row.key /\ SelectedRow(h).run = row.run
    BY <2>1, <2>3, <2>4 DEF HasSelection, SelectedRow, SameRows
  <2>9. IsList(h.projects)
    BY <2>3 DEF SameRows
  <2>10. SelectionHolds(h)
    <3>1. Len(h.projects) \in Nat /\ (h.projects = <<>> <=> Len(h.projects) = 0)
      BY <2>9, SeqLength DEF IsList
    <3>2. h.projects # <<>> => s.projects # <<>>
      BY <2>3, <2>6, <3>1 DEF SameRows
    <3> QED
      BY <1>0, <2>1, <2>4, <2>8, <3>2 DEF SelectionHolds
  <2>11. DetailsHold(h)
    <3> SUFFICES ASSUME HasSelection(h)
                 PROVE  /\ h.history = [key |-> SelectedRow(h).key, run |-> SelectedRow(h).run]
                        /\ \/ h.stages \in {NothingShown, h.history}
                           \/ AboutRun("jobs", SelectedRow(h).key, SelectedRow(h).run) \in Outstanding(h)
      BY DEF DetailsHold
    <3>1. HasSelection(s) /\ SelectedRow(h).key = row.key /\ SelectedRow(h).run = row.run
      BY <2>8
    <3>2. h.history = [key |-> row.key, run |-> row.run] /\ s.history = h.history
      BY <1>0, <2>1, <2>4, <3>1 DEF DetailsHold
    <3>3. s.stages \in {NothingShown, s.history} \/ jobs \in Outstanding(s)
      BY <1>0, <3>1 DEF DetailsHold
    <3> HIDE DEF row
    <3>4. CASE h.stages = s.stages /\ ~ (r.kind = "jobs" /\ StillSelected(e, r))
      <4>1. r # jobs
        BY <1>5, <2>5, <2>7, <3>1, <3>4
      <4>2. h.stages \in {NothingShown, h.history} \/ jobs \in Outstanding(h)
        BY <1>2, <2>2, <3>2, <3>3, <3>4, <4>1
      <4> QED
        BY <3>1, <3>2, <4>2
    <3>5. CASE h.stages = NothingShown
      BY <3>1, <3>2, <3>5
    <3>6. CASE h.stages = [key |-> r.repo, run |-> r.run] /\ StillSelected(e, r)
      <4>1. r.repo = row.key /\ r.run = row.run
        BY <2>5, <2>7, <3>1, <3>6
      <4> QED
        BY <3>1, <3>2, <3>6, <4>1
    <3> QED
      BY <2>3, <3>4, <3>5, <3>6
  <2> QED
    BY <1>1, <2>1, <2>3, <2>4, <2>9, <2>10, <2>11 DEF PageHolds, PageMoves
<1>9. CASE r.kind \in Listings
  <2>1. s.state = "loading" /\ r.kind # "jobs"
    BY <1>2, <1>9, EndedCounts DEF Listings
  <2>2. CASE ListsMore(h, e)
    <3>1. PageStays(h, e) /\ Outstanding(e) \subseteq Outstanding(h)
      BY <2>2 DEF ListsMore, Keeps, QueueMembers, Members, PageStays
    <3>2. PageStays(h, s)
      BY <1>3, <3>1 DEF PageStays
    <3> QED
      BY <1>6, <2>1, <3>1, <3>2
  <2>3. CASE AsksRuns(h, e)
    <3>1. PageStays(h, e) /\ Outstanding(e) \subseteq Outstanding(h)
      BY <2>3 DEF AsksRuns, Keeps, QueueMembers, Members, PageStays
    <3>2. PageStays(h, s)
      BY <1>3, <3>1 DEF PageStays
    <3> QED
      BY <1>6, <2>1, <3>1, <3>2
  <2>4. CASE Refreshed(h, e)
    <3>1. e.selectedKey = s.selectedKey
      BY <1>3 DEF PageStays
    <3> QED
      BY <1>7, <2>1, <2>4, <3>1
  <2>5. CASE Failed(h, e)
    <3>1. /\ PageStays(h, e) /\ DOMAIN h = Members
          /\ h.active = e.active /\ h.queue = e.queue /\ h.count = e.count
      BY <2>5 DEF Failed, Keeps, Members, PageStays
    <3>2. PageStays(h, s)
      BY <1>3, <3>1 DEF PageStays
    <3>3. Outstanding(h) = Outstanding(e)
      BY <1>1, <3>1, SameQueue
    <3> QED
      BY <1>6, <2>1, <3>2, <3>3
  <2> QED
    BY <1>8, <1>9, <2>2, <2>3, <2>4, <2>5 DEF Outcome, Listings
<1>10. ASSUME r.kind = "runs", NEW missing, RunsOutcome(h, e, r.cell, missing)
       PROVE  PageHolds(h) /\ PageMoves(h, s)
  <2>1. s.state = "loading" /\ r.kind # "jobs"
    BY <1>2, <1>10, EndedCounts
  <2>2. PICK t : Counted(t, e) /\ (h = t \/ Failed(h, t) \/ Refreshed(h, t))
    BY <1>10 DEF RunsOutcome
  <2>3. /\ PageStays(t, e) /\ DOMAIN t = Members
        /\ t.active = e.active /\ t.queue = e.queue /\ t.count = e.count
    BY <2>2 DEF Counted, Keeps, Members, PageStays
  <2>4. Able(t) /\ Outstanding(t) = Outstanding(e)
    BY <1>1, <2>3, SameQueue
  <2>5. PageStays(t, s)
    BY <1>3, <2>3 DEF PageStays
  <2>6. CASE h = t
    BY <1>6, <2>1, <2>4, <2>5, <2>6
  <2>7. CASE Failed(h, t)
    <3>1. /\ PageStays(h, t) /\ DOMAIN h = Members
          /\ h.active = t.active /\ h.queue = t.queue /\ h.count = t.count
      BY <2>7 DEF Failed, Keeps, Members, PageStays
    <3>2. PageStays(h, s)
      BY <2>5, <3>1 DEF PageStays
    <3>3. Outstanding(h) = Outstanding(e)
      BY <2>4, <3>1, SameQueue
    <3> QED
      BY <1>6, <2>1, <3>2, <3>3
  <2>8. CASE Refreshed(h, t)
    <3>1. t.selectedKey = s.selectedKey
      BY <2>5 DEF PageStays
    <3> QED
      BY <1>7, <2>1, <2>8, <3>1
  <2> QED
    BY <2>2, <2>6, <2>7, <2>8
<1> QED
  BY <1>8, <1>9, <1>10 DEF Outcome

LEMMA SettledKeeps ==
  ASSUME NEW h, NEW g, Settled(g, h), NEW o
  PROVE  /\ RefreshHolds(h) => RefreshHolds(g)
         /\ MissingIsKnown(h, o) => MissingIsKnown(g, o)
         /\ TimerHolds(h, o) => TimerHolds(g, o)
         /\ PageHolds(h) => PageHolds(g)
         /\ \A s : PageMoves(h, s) => PageMoves(g, s)
<1>1. /\ g.state = h.state /\ g.stale = h.stale /\ g.counting = h.counting /\ g.pendingRuns = h.pendingRuns
      /\ g.interval = h.interval /\ g.pollLeft = h.pollLeft /\ PageStays(g, h)
  BY DEF Settled, Keeps, QueueMembers, Members, PageStays
<1>2. /\ Outstanding(g) = Outstanding(h)
      /\ HowMany(g, Listings) = HowMany(h, Listings) /\ HowMany(g, {"runs"}) = HowMany(h, {"runs"})
      /\ \A q \in Outstanding(h) : q.kind = "runs" => g.cells[q.cell] = h.cells[q.cell]
  BY DEF Settled
<1>3. RefreshHolds(h) => RefreshHolds(g)
  BY <1>1, <1>2 DEF RefreshHolds, SharesCell
<1>4. MissingIsKnown(h, o) => MissingIsKnown(g, o)
  BY <1>1, <1>2 DEF MissingIsKnown
<1>5. TimerHolds(h, o) => TimerHolds(g, o)
  BY <1>1 DEF TimerHolds
<1>6. PageHolds(h) => PageHolds(g)
  BY <1>1, <1>2 DEF PageHolds, PageStays, SelectionHolds, DetailsHold, HasSelection, SelectedRow
<1>7. \A s : PageMoves(h, s) => PageMoves(g, s)
  BY <1>1 DEF PageMoves, PageStays
<1> QED
  BY <1>3, <1>4, <1>5, <1>6, <1>7

LEMMA ReplyKeepsInv ==
  ASSUME NEW s, NEW o, ServiceInv(s, o), NEW e, NEW r, NEW delay, Ends(e, s, r, delay),
         NEW missed, NEW h, Outcome(h, e, r, missed),
         NEW g, g = Collected(StartRequests(h)),
         NEW n, n.missed = o.missed \cup missed,
         n.limitLeft = IF s.state = "loading" /\ g.state \in {"ready", "empty"} /\ ~g.stale THEN 0
                       ELSE IF delay > o.limitLeft THEN delay ELSE o.limitLeft
  PROVE  ServiceInv(g, n) /\ PageMoves(g, s)
<1>1. /\ Able(s) /\ Celled(s) /\ RefreshHolds(s) /\ MissingIsKnown(s, o) /\ TimerHolds(s, o)
      /\ PageHolds(s) /\ IsList(s.projects)
  BY DEF ServiceInv, PageHolds
<1>2. Ready(e, r)
  BY <1>1, EndedIsReady
<1>3. Able(h) /\ Celled(h)
  BY <1>2, OutcomeIsAble
<1>4. Settled(g, h)
  BY <1>3, SettledEffect
<1>5. g.state = h.state /\ g.stale = h.stale
  BY <1>4 DEF Settled, Keeps, QueueMembers, Members
<1>6. RefreshHolds(h)
  BY <1>1, RefreshKept
<1>7. MissingIsKnown(h, n)
  BY <1>1, MissingKept
<1>8. TimerHolds(h, n)
  BY <1>1, <1>5, TimerKept
<1>9. PageHolds(h) /\ PageMoves(h, s)
  BY <1>1, PageKept
<1>10. Able(g) /\ Slots(g) /\ Celled(g)
  BY <1>4 DEF Settled
<1> QED
  BY <1>4, <1>6, <1>7, <1>8, <1>9, <1>10, SettledKeeps DEF ServiceInv

LEMMA EndedEffect ==
  ASSUME ServiceInv(service, observed), NEW i \in 1..Len(service.active),
         NEW delay \in Nat, NEW longest \in Nat, longest >= delay, longest >= service.interval,
         NEW e, e = IF delay > 0 THEN SetInterval(Ended(i), longest) ELSE Ended(i)
  PROVE  Ends(e, service, service.active[i], delay)
<1> DEFINE active == RemoveAt(service.active, i)
           x == [service EXCEPT !.active = active]
           y == [x EXCEPT !.interval = longest, !.pollLeft = longest]
<1>1. e = IF delay > 0 THEN y ELSE x
  BY DEF Ended, SetInterval
<1>2. Able(service) /\ DOMAIN service = Members /\ TimerHolds(service, observed)
  BY DEF ServiceInv, Able
<1>3. /\ DOMAIN x = Members /\ x.active = active /\ x.queue = service.queue /\ x.count = service.count
      /\ x.interval = service.interval /\ x.pollLeft = service.pollLeft
  BY <1>2 DEF Members
<1>4. Keeps(x, service, {"active"})
  BY <1>2 DEF Keeps
<1> HIDE DEF x
<1>5. /\ DOMAIN y = Members /\ y.active = active /\ y.queue = service.queue /\ y.count = service.count
      /\ y.interval = longest /\ y.pollLeft = longest
  BY <1>3 DEF Members
<1>6. Keeps(y, x, {"interval", "pollLeft"})
  BY <1>3 DEF Keeps
<1> HIDE DEF y
<1>7. Keeps(e, service, {"active", "interval", "pollLeft"})
  BY <1>1, <1>4, <1>6 DEF Keeps
<1>8. /\ DOMAIN e = Members /\ e.active = RemoveAt(service.active, i) /\ e.queue = service.queue
      /\ e.count = service.count
  BY <1>1, <1>3, <1>5
<1>9. Removes(e, service, service.active[i])
  BY <1>2, <1>8, RemovalEffect
<1>10. /\ e.interval \in Nat /\ e.pollLeft \in Nat
       /\ e.pollLeft <= e.interval /\ service.pollLeft <= e.pollLeft /\ delay <= e.pollLeft
  <2>1. CASE delay > 0
    BY <1>1, <1>2, <1>5, <2>1 DEF TimerHolds
  <2>2. CASE ~ (delay > 0)
    BY <1>1, <1>2, <1>3, <2>2 DEF TimerHolds
  <2> QED
    BY <2>1, <2>2
<1> QED
  BY <1>7, <1>9, <1>10 DEF Ends

LEMMA AnsweredKeepsInv ==
  ASSUME ProjectsInv, NEW i \in 1..Len(service.active), Answered(i)
  PROVE  ProjectsInv' /\ PageMoves(service', service)
<1> DEFINE r == service.active[i]
<1>1. ServiceInv(service, observed) /\ DOMAIN observed = {"missed", "limitLeft"}
  BY DEF ProjectsInv
<1>2. /\ Able(service) /\ Celled(service) /\ IsList(service.projects)
      /\ service.interval \in Nat
  BY <1>1 DEF ServiceInv, PageHolds, TimerHolds
<1>3. ASSUME NEW e, NEW h, NEW missed, NEW delay, Ends(e, service, r, delay), Outcome(h, e, r, missed),
             Handled(h), Observed(missed, delay)
      PROVE  ProjectsInv' /\ PageMoves(service', service)
  <2> DEFINE g == service'
             n == observed'
  <2>1. g = Collected(StartRequests(h))
    BY <1>3 DEF Handled
  <2>2. n = [missed |-> observed.missed \cup missed,
             limitLeft |-> IF service.state = "loading" /\ g.state \in {"ready", "empty"} /\ ~g.stale THEN 0
                           ELSE IF delay > observed.limitLeft THEN delay ELSE observed.limitLeft]
    BY <1>3 DEF Observed
  <2> HIDE DEF g, n
  <2>3. /\ DOMAIN n = {"missed", "limitLeft"}
        /\ n.missed = observed.missed \cup missed
        /\ n.limitLeft = IF service.state = "loading" /\ g.state \in {"ready", "empty"} /\ ~g.stale THEN 0
                         ELSE IF delay > observed.limitLeft THEN delay ELSE observed.limitLeft
    BY <2>2
  <2>4. ServiceInv(g, n) /\ PageMoves(g, service)
    BY <1>1, <1>3, <2>1, <2>3, ReplyKeepsInv
  <2> QED
    BY <2>3, <2>4 DEF ProjectsInv, g, n
<1>4. Ends(Ended(i), service, r, 0)
  BY <1>1, <1>2, EndedEffect
<1>5. Ready(Ended(i), r)
  BY <1>2, <1>4, EndedIsReady
<1> DEFINE e == Ended(i)
<1> HIDE DEF r, e
<1>6. /\ Ends(e, service, r, 0) /\ Ready(e, r)
  BY <1>4, <1>5 DEF e
<1>7. CASE ReposAnswered(i) \/ PrivateReposAnswered(i)
  <2>1. PICK listed, full, h : /\ \/ r.kind = "repos" /\ h = ReposFound(e, r, listed, full)
                                  \/ r.kind = "private" /\ h = PrivateReposFound(e, r, listed, full)
                               /\ Handled(h) /\ Observed({}, 0)
    BY <1>7 DEF ReposAnswered, PrivateReposAnswered, NothingMissed, r, e
  <2>2. Outcome(h, e, r, {})
    BY <1>6, <2>1, ListingOutcome
  <2> QED
    BY <1>3, <1>6, <2>1, <2>2
<1>8. CASE RunsAnswered(i)
  <2>1. PICK run, h : r.kind = "runs" /\ h = RunsFound(e, r, run) /\ Handled(h) /\ Observed({}, 0)
    BY <1>8 DEF RunsAnswered, NothingMissed, r, e
  <2>2. Outcome(h, e, r, {})
    BY <1>6, <2>1, RunsFoundOutcome
  <2> QED
    BY <1>3, <1>6, <2>1, <2>2
<1>9. CASE RunnersAnswered(i)
  <2>1. PICK ids, up, valid, h : /\ r.kind = "runners" /\ h = RunnersFound(e, r, ids, up, valid)
                                 /\ Handled(h) /\ Observed({}, 0)
    BY <1>9 DEF RunnersAnswered, NothingMissed, r, e
  <2>2. Outcome(h, e, r, {})
    BY <1>6, <2>1, RunnersFoundOutcome
  <2> QED
    BY <1>3, <1>6, <2>1, <2>2
<1>10. CASE JobsAnswered(i)
  <2>1. PICK h : r.kind = "jobs" /\ h = JobsFound(e, r) /\ Handled(h) /\ Observed({}, 0)
    BY <1>10 DEF JobsAnswered, NothingMissed, r, e
  <2>2. Outcome(h, e, r, {})
    BY <1>6, <2>1, JobsFoundOutcome
  <2> QED
    BY <1>3, <1>6, <2>1, <2>2
<1>11. CASE ArtifactsAnswered(i)
  <2>1. PICK h : r.kind = "artifacts" /\ h = ArtifactsFound(e, r) /\ Handled(h) /\ Observed({}, 0)
    BY <1>11 DEF ArtifactsAnswered, NothingMissed, r, e
  <2>2. Outcome(h, e, r, {})
    BY <1>6, <2>1, ArtifactsFoundOutcome
  <2> QED
    BY <1>3, <1>6, <2>1, <2>2
<1>12. CASE AnsweredInvalidly(i)
  <2>1. PICK h : h = AnswerInvalid(e, r) /\ Handled(h) /\ Observed(Spoiled(r), 0)
    BY <1>12 DEF AnsweredInvalidly, Missed, Lacking, Spoiled, r, e
  <2>2. Outcome(h, e, r, Spoiled(r))
    BY <1>6, <2>1, InvalidOutcome
  <2> QED
    BY <1>3, <1>6, <2>1, <2>2
<1>13. CASE AnsweredUnreadably(i)
  <2>1. PICK h : h = AnswerMissing(e, r) /\ Handled(h) /\ Observed(Lacking(r), 0)
    BY <1>13 DEF AnsweredUnreadably, Missed, Lacking, r, e
  <2>2. Outcome(h, e, r, Lacking(r))
    BY <1>6, <2>1, MissingOutcome
  <2> QED
    BY <1>3, <1>6, <2>1, <2>2
<1>14. CASE RequestFailed(i)
  <2>1. PICK delay \in Delays :
          LET longest == IF delay > service.interval THEN delay ELSE service.interval
              limited == IF delay > 0 THEN SetInterval(e, longest) ELSE e
          IN  /\ Handled(AnswerMissing(limited, r))
              /\ IF r.kind = "private" THEN Observed({}, delay) ELSE Observed(Lacking(r), delay)
    BY <1>14 DEF RequestFailed, Missed, Lacking, r, e
  <2> DEFINE longest == IF delay > service.interval THEN delay ELSE service.interval
             limited == IF delay > 0 THEN SetInterval(e, longest) ELSE e
             missed == IF r.kind = "private" THEN {} ELSE Lacking(r)
             h == AnswerMissing(limited, r)
  <2>2. Handled(h) /\ Observed(missed, delay)
    BY <2>1
  <2>3. delay \in Nat
    BY <2>1, SizesAreNumbers
  <2>4. longest \in Nat /\ longest >= delay /\ longest >= service.interval
    BY <1>2, <2>3
  <2> HIDE DEF longest
  <2>5. Ends(limited, service, r, delay)
    BY <1>1, <2>3, <2>4, EndedEffect DEF r, e
  <2> HIDE DEF limited
  <2>6. Ready(limited, r)
    BY <1>2, <2>5, EndedIsReady
  <2>7. missed \subseteq Lacking(r)
    OBVIOUS
  <2> HIDE DEF missed
  <2>8. Outcome(h, limited, r, missed)
    BY <2>6, <2>7, MissingOutcome
  <2> HIDE DEF h
  <2> QED
    BY <1>3, <2>2, <2>5, <2>8
<1> QED
  BY <1>7, <1>8, <1>9, <1>10, <1>11, <1>12, <1>13, <1>14 DEF Answered
-----------------------------------------------------------------------------
(* The other steps *)

LEMMA BeginEffect ==
  ASSUME NEW s, Able(s), Celled(s), PageHolds(s), s.pendingRuns = 0,
         HowMany(s, Listings) = 0, HowMany(s, {"runs"}) = 0,
         NEW h, h = Discover([s EXCEPT !.count = 0, !.counting = TRUE, !.state = "loading"], "repos", 1, <<>>)
  PROVE  /\ Able(h) /\ Slots(h) /\ Celled(h) /\ RefreshHolds(h) /\ PageHolds(h) /\ PageStays(h, s)
         /\ h.state = "loading" /\ h.interval = s.interval /\ h.pollLeft = s.pollLeft
<1> DEFINE x == [s EXCEPT !.count = 0, !.counting = TRUE, !.state = "loading"]
<1>1. DOMAIN s = Members
  BY DEF Able
<1>2. /\ DOMAIN x = Members /\ x.active = s.active /\ x.queue = s.queue /\ x.count = 0
      /\ x.counting = TRUE /\ x.state = "loading" /\ x.pendingRuns = s.pendingRuns
      /\ x.interval = s.interval /\ x.pollLeft = s.pollLeft /\ x.cells = s.cells
  BY <1>1 DEF Members
<1>3. PageStays(x, s)
  BY <1>1 DEF Members, PageStays
<1>4. h = Discover(x, "repos", 1, <<>>)
  OBVIOUS
<1> HIDE DEF x
<1>5. Able(x)
  BY <1>2 DEF Able
<1>6. Outstanding(x) = Outstanding(s) /\ \A kinds : HowMany(x, kinds) = HowMany(s, kinds)
  BY <1>2 DEF Outstanding, HowMany
<1>7. ListsMore(h, x)
  BY <1>4, <1>5, DiscoverEffect DEF Listings
<1>8. /\ h.counting = TRUE /\ h.state = "loading" /\ h.pendingRuns = 0
      /\ h.interval = s.interval /\ h.pollLeft = s.pollLeft /\ h.cells = s.cells /\ PageStays(h, s)
  BY <1>2, <1>3, <1>7 DEF ListsMore, Keeps, QueueMembers, Members, PageStays
<1>9. /\ Able(h) /\ Slots(h) /\ Outstanding(s) \subseteq Outstanding(h)
      /\ \A q \in Outstanding(h) : q \in Outstanding(s) \/ q.kind \in Listings
      /\ HowMany(h, Listings) = 1 /\ HowMany(h, {"runs"}) = 0
  BY <1>6, <1>7 DEF ListsMore
<1>10. Celled(h)
  BY <1>8, <1>9 DEF Celled, HasCell, Listings
<1>11. SharesCell(h)
  <2>1. \A q \in Outstanding(h) : q.kind # "runs"
    BY <1>9, HowManyIsNumber
  <2> QED
    BY <2>1 DEF SharesCell
<1>12. RefreshHolds(h)
  BY <1>8, <1>9, <1>11 DEF RefreshHolds
<1>13. PageHolds(h)
  <2>1. /\ h.projects = s.projects /\ h.selectedIndex = s.selectedIndex /\ h.selectedKey = s.selectedKey
        /\ h.history = s.history /\ h.stages = s.stages
    BY <1>8 DEF PageStays
  <2>2. HasSelection(h) = HasSelection(s) /\ SelectedRow(h) = SelectedRow(s)
    BY <2>1 DEF HasSelection, SelectedRow
  <2> QED
    BY <1>9, <2>1, <2>2 DEF PageHolds, SelectionHolds, DetailsHold
<1> QED
  BY <1>8, <1>9, <1>10, <1>12, <1>13

LEMMA InitInv ==
  ASSUME ProjectsInit
  PROVE  ProjectsInv
<1>1. PICK token \in Tokens : service = Refresh(Constructed(token))
  BY DEF ProjectsInit
<1>2. observed = [missed |-> {}, limitLeft |-> 0]
  BY DEF ProjectsInit
<1> DEFINE interval == PollInterval(token, 0)
           s == Constructed(token)
<1>3. /\ DOMAIN s = Members /\ s.active = <<>> /\ s.queue = <<>> /\ s.count = 0 /\ s.state = "loading"
      /\ s.pendingRuns = 0 /\ s.projects = <<>> /\ s.interval = interval /\ s.pollLeft = interval
  <2> HIDE DEF interval
  <2> QED
    BY DEF Constructed, Members, interval
<1>4. interval \in Nat
  BY PollIntervalIsNumber
<1> HIDE DEF s, interval
<1>5. Len(<<>>) = 0 /\ MaxConcurrent \in Nat
  BY SizesAreNumbers
<1>6. Able(s)
  BY <1>3, <1>5, EmptyCount DEF Able
<1>7. Outstanding(s) = {}
  BY <1>3, EmptyCount DEF Outstanding
<1>8. HowMany(s, Listings) = 0 /\ HowMany(s, {"runs"}) = 0 /\ Celled(s)
  BY <1>6, <1>7, HowManyIsNumber DEF Celled
<1>9. PageHolds(s)
  <2>1. IsList(<<>>)
    BY <1>5, EmptyCount DEF IsList
  <2> QED
    BY <1>3, <1>5, <2>1 DEF PageHolds, SelectionHolds, DetailsHold, HasSelection
<1>10. service = Discover([s EXCEPT !.count = 0, !.counting = TRUE, !.state = "loading"], "repos", 1, <<>>)
  <2>1. ~ (Len(s.active) > 0)
    BY <1>3, <1>5
  <2> QED
    BY <1>1, <2>1 DEF Refresh, s
<1>11. /\ Able(service) /\ Slots(service) /\ Celled(service) /\ RefreshHolds(service) /\ PageHolds(service)
       /\ service.state = "loading" /\ service.interval = s.interval /\ service.pollLeft = s.pollLeft
  BY <1>3, <1>6, <1>8, <1>9, <1>10, BeginEffect
<1>12. DOMAIN observed = {"missed", "limitLeft"} /\ observed.missed = {} /\ observed.limitLeft = 0
  BY <1>2
<1>13. MissingIsKnown(service, observed)
  BY <1>11, <1>12 DEF MissingIsKnown
<1>14. TimerHolds(service, observed)
  BY <1>3, <1>4, <1>11, <1>12 DEF TimerHolds
<1> QED
  BY <1>11, <1>12, <1>13, <1>14 DEF ProjectsInv, ServiceInv

(* Steps that leave all but the timer of the service alone. *)
LEMMA TimerOnly ==
  ASSUME NEW s, NEW o, ServiceInv(s, o), NEW g, Keeps(g, s, {"pollLeft"}), NEW n, n.missed = o.missed,
         TimerHolds(g, n)
  PROVE  ServiceInv(g, n) /\ PageStays(g, s)
<1>1. /\ Able(s) /\ Slots(s) /\ Celled(s) /\ RefreshHolds(s) /\ MissingIsKnown(s, o) /\ PageHolds(s)
  BY DEF ServiceInv
<1>2. /\ DOMAIN g = Members /\ g.active = s.active /\ g.queue = s.queue /\ g.count = s.count
      /\ g.cells = s.cells /\ g.state = s.state /\ g.stale = s.stale /\ g.counting = s.counting
      /\ g.pendingRuns = s.pendingRuns
  BY DEF Keeps, Members
<1>3. PageStays(g, s)
  BY DEF Keeps, Members, PageStays
<1>4. /\ Able(g) /\ Outstanding(g) = Outstanding(s)
      /\ HowMany(g, Listings) = HowMany(s, Listings) /\ HowMany(g, {"runs"}) = HowMany(s, {"runs"})
  BY <1>1, <1>2, SameQueue
<1>5. Slots(g) /\ Celled(g)
  BY <1>1, <1>2, <1>4 DEF Slots, Celled, HasCell
<1>6. RefreshHolds(g)
  BY <1>1, <1>2, <1>4 DEF RefreshHolds, SharesCell
<1>7. MissingIsKnown(g, n)
  BY <1>1, <1>2, <1>4 DEF MissingIsKnown
<1>8. PageHolds(g)
  <2>1. /\ g.projects = s.projects /\ g.selectedIndex = s.selectedIndex /\ g.selectedKey = s.selectedKey
        /\ g.history = s.history /\ g.stages = s.stages
    BY <1>3 DEF PageStays
  <2>2. HasSelection(g) = HasSelection(s) /\ SelectedRow(g) = SelectedRow(s)
    BY <2>1 DEF HasSelection, SelectedRow
  <2> QED
    BY <1>1, <1>4, <2>1, <2>2 DEF PageHolds, SelectionHolds, DetailsHold
<1> QED
  BY <1>3, <1>4, <1>5, <1>6, <1>7, <1>8 DEF ServiceInv

LEMMA ClockKeepsInv ==
  ASSUME ProjectsInv, Clock
  PROVE  ProjectsInv' /\ PageStays(service', service) /\ service'.state = service.state
<1> DEFINE g == service'
           n == observed'
           left == IF observed.limitLeft > 0 THEN observed.limitLeft - 1 ELSE 0
<1>1. /\ ServiceInv(service, observed) /\ DOMAIN observed = {"missed", "limitLeft"}
      /\ DOMAIN service = Members /\ TimerHolds(service, observed)
  BY DEF ProjectsInv, ServiceInv, Able
<1>2. /\ service.pollLeft > 0
      /\ g = [service EXCEPT !.pollLeft = service.pollLeft - 1]
      /\ n = [observed EXCEPT !.limitLeft = left]
  BY DEF Clock
<1> HIDE DEF g, n
<1>3. Keeps(g, service, {"pollLeft"}) /\ g.pollLeft = service.pollLeft - 1 /\ g.interval = service.interval
  BY <1>1, <1>2 DEF Keeps, Members
<1>4. DOMAIN n = {"missed", "limitLeft"} /\ n.missed = observed.missed /\ n.limitLeft = left
  BY <1>1, <1>2
<1>5. TimerHolds(g, n)
  BY <1>1, <1>2, <1>3, <1>4 DEF TimerHolds
<1>6. ServiceInv(g, n) /\ PageStays(g, service)
  BY <1>1, <1>3, <1>4, <1>5, TimerOnly
<1>7. g.state = service.state
  BY <1>3 DEF Keeps, Members
<1> QED
  BY <1>4, <1>6, <1>7 DEF ProjectsInv, g, n

LEMMA PollTimerKeepsInv ==
  ASSUME ProjectsInv, PollTimer
  PROVE  ProjectsInv' /\ PageStays(service', service)
<1> DEFINE g == service'
           n == observed'
           x == [service EXCEPT !.pollLeft = service.interval]
           missed == IF service.state = "loading" THEN observed.missed ELSE {}
<1>1. /\ ServiceInv(service, observed) /\ DOMAIN observed = {"missed", "limitLeft"}
      /\ DOMAIN service = Members /\ TimerHolds(service, observed) /\ Able(service)
      /\ Slots(service) /\ RefreshHolds(service) /\ Celled(service) /\ PageHolds(service)
  BY DEF ProjectsInv, ServiceInv, Able
<1>2. /\ service.pollLeft = 0
      /\ g = Refresh(x)
      /\ n = [observed EXCEPT !.missed = missed]
  BY DEF PollTimer
<1> HIDE DEF g, n
<1>3. DOMAIN n = {"missed", "limitLeft"} /\ n.missed = missed /\ n.limitLeft = observed.limitLeft
  BY <1>1, <1>2
<1>4. /\ Keeps(x, service, {"pollLeft"}) /\ x.pollLeft = service.interval /\ x.interval = service.interval
      /\ x.state = service.state /\ x.active = service.active /\ x.pendingRuns = service.pendingRuns
      /\ x.queue = service.queue
  BY <1>1 DEF Keeps, Members
<1> HIDE DEF x
<1>5. TimerHolds(x, n)
  BY <1>1, <1>2, <1>3, <1>4 DEF TimerHolds
<1>6. CASE service.state = "loading"
  <2>1. Len(service.active) > 0
    <3>1. HowMany(service, Listings) + service.pendingRuns # 0 /\ HowMany(service, {"runs"}) = service.pendingRuns
      BY <1>1, <1>6 DEF RefreshHolds
    <3>2. Outstanding(service) # {}
      BY <1>1, <3>1, HowManyIsNumber
    <3>3. /\ Len(service.active) \in Nat /\ (service.active = <<>> <=> Len(service.active) = 0)
          /\ MaxConcurrent \in Nat /\ MaxConcurrent > 0
      BY <1>1, SeqLength, SizesAreNumbers DEF Able
    <3>4. service.active = <<>> => service.queue # <<>>
      BY <3>2, EmptyCount DEF Outstanding
    <3> QED
      BY <1>1, <3>3, <3>4 DEF Slots
  <2>2. g = x
    BY <1>2, <1>4, <1>6, <2>1 DEF Refresh
  <2>3. n.missed = observed.missed
    BY <1>3, <1>6
  <2>4. ServiceInv(x, n) /\ PageStays(x, service)
    BY <1>1, <1>4, <1>5, <2>3, TimerOnly
  <2> QED
    BY <1>3, <2>2, <2>4 DEF ProjectsInv, g, n
<1>7. CASE service.state # "loading"
  <2>1. g = Discover([x EXCEPT !.count = 0, !.counting = TRUE, !.state = "loading"], "repos", 1, <<>>)
    BY <1>2, <1>4, <1>7 DEF Refresh
  <2>2. ServiceInv(x, [observed EXCEPT !.missed = observed.missed]) /\ PageStays(x, service)
    <3> DEFINE same == [observed EXCEPT !.missed = observed.missed]
    <3>1. same.missed = observed.missed /\ same.limitLeft = observed.limitLeft
      BY <1>1
    <3> HIDE DEF same
    <3>2. TimerHolds(x, same)
      BY <1>3, <1>5, <3>1 DEF TimerHolds
    <3>3. ServiceInv(x, same) /\ PageStays(x, service)
      BY <1>1, <1>4, <3>1, <3>2, TimerOnly
    <3> QED
      BY <3>3 DEF same
  <2>3. Able(x) /\ Celled(x) /\ PageHolds(x) /\ RefreshHolds(x)
    BY <2>2 DEF ServiceInv
  <2>4. x.pendingRuns = 0 /\ HowMany(x, Listings) = 0 /\ HowMany(x, {"runs"}) = 0
    <3>1. HowMany(x, Listings) \in Nat /\ HowMany(x, {"runs"}) \in Nat
      BY <2>3, HowManyIsNumber
    <3> QED
      BY <1>4, <1>7, <2>3, <3>1 DEF RefreshHolds
  <2>5. /\ Able(g) /\ Slots(g) /\ Celled(g) /\ RefreshHolds(g) /\ PageHolds(g) /\ PageStays(g, x)
        /\ g.state = "loading" /\ g.interval = x.interval /\ g.pollLeft = x.pollLeft
    BY <2>1, <2>3, <2>4, BeginEffect
  <2>6. MissingIsKnown(g, n)
    BY <1>3, <1>7, <2>5 DEF MissingIsKnown
  <2>7. TimerHolds(g, n)
    BY <1>5, <2>5 DEF TimerHolds
  <2>8. PageStays(g, service)
    BY <2>2, <2>5 DEF PageStays
  <2> QED
    BY <1>3, <2>5, <2>6, <2>7, <2>8 DEF ProjectsInv, ServiceInv, g, n
<1> QED
  BY <1>6, <1>7

LEMMA SelectProjectKeepsInv ==
  ASSUME ProjectsInv, NEW index, SelectProject(index)
  PROVE  /\ ProjectsInv' /\ service'.projects = service.projects /\ service'.state = service.state
<1> DEFINE g == service'
           key == service.projects[index].key
           x == [service EXCEPT !.selectedIndex = index, !.selectedKey = key]
<1>1. /\ ServiceInv(service, observed) /\ DOMAIN observed = {"missed", "limitLeft"}
      /\ DOMAIN service = Members /\ TimerHolds(service, observed) /\ Able(service)
      /\ RefreshHolds(service) /\ MissingIsKnown(service, observed) /\ Celled(service)
      /\ IsList(service.projects)
  BY DEF ProjectsInv, ServiceInv, Able, PageHolds
<1>2. index \in 1..Len(service.projects) /\ g = LoadSelectedDetails(x) /\ observed' = observed
  BY DEF SelectProject
<1> HIDE DEF g, key
<1>3. /\ Keeps(x, service, {"selectedIndex", "selectedKey"})
      /\ x.selectedIndex = index /\ x.selectedKey = key
  BY <1>1 DEF Keeps, Members
<1> HIDE DEF x
<1>4. /\ DOMAIN x = Members /\ x.active = service.active /\ x.queue = service.queue
      /\ x.count = service.count /\ x.cells = service.cells /\ x.projects = service.projects
      /\ x.state = service.state /\ x.stale = service.stale /\ x.counting = service.counting
      /\ x.pendingRuns = service.pendingRuns
      /\ x.interval = service.interval /\ x.pollLeft = service.pollLeft
  BY <1>3 DEF Keeps, Members
<1>5. Able(x) /\ Outstanding(x) = Outstanding(service) /\ \A kinds : HowMany(x, kinds) = HowMany(service, kinds)
  BY <1>1, <1>4, SameQueue
<1>6. Celled(x)
  BY <1>1, <1>4, <1>5 DEF Celled, HasCell
<1>7. HasSelection(x)
  BY <1>2, <1>3, <1>4 DEF HasSelection
<1>8. /\ Keeps(g, x, QueueMembers \cup {"stages", "history"})
      /\ Grows(g, x) /\ Celled(g) /\ DetailsHold(g) /\ Slots(g)
  BY <1>2, <1>5, <1>6, <1>7, LoadSelectedDetailsEffect
<1>9. /\ g.cells = x.cells /\ g.projects = x.projects
      /\ g.selectedIndex = x.selectedIndex /\ g.selectedKey = x.selectedKey
      /\ g.state = x.state /\ g.stale = x.stale /\ g.counting = x.counting
      /\ g.pendingRuns = x.pendingRuns
      /\ g.interval = x.interval /\ g.pollLeft = x.pollLeft
  BY <1>8 DEF Keeps, QueueMembers, Members
<1>10. /\ Able(g)
       /\ \A q \in Outstanding(g) : q \in Outstanding(service) \/ q.kind \in Details
       /\ HowMany(g, Listings) = HowMany(service, Listings)
       /\ HowMany(g, {"runs"}) = HowMany(service, {"runs"})
  BY <1>5, <1>8 DEF Grows
<1>11. RefreshHolds(g)
  BY <1>1, <1>4, <1>9, <1>10 DEF RefreshHolds, SharesCell, Details
<1>12. MissingIsKnown(g, observed)
  BY <1>1, <1>4, <1>9, <1>10 DEF MissingIsKnown, Details
<1>13. TimerHolds(g, observed)
  BY <1>1, <1>4, <1>9 DEF TimerHolds
<1>14. PageHolds(g)
  <2>1. SelectionHolds(g)
    BY <1>2, <1>3, <1>4, <1>9 DEF SelectionHolds, HasSelection, SelectedRow, key
  <2> QED
    BY <1>1, <1>4, <1>8, <1>9, <2>1 DEF PageHolds
<1>15. ServiceInv(g, observed)
  BY <1>8, <1>10, <1>11, <1>12, <1>13, <1>14 DEF ServiceInv
<1> QED
  BY <1>1, <1>2, <1>4, <1>9, <1>15 DEF ProjectsInv, g

LEMMA NextInv ==
  ASSUME ProjectsInv, [ProjectsNext]_projectsVars
  PROVE  ProjectsInv'
<1>1. ASSUME NEW i \in 1..Len(service.active), Answered(i)
      PROVE  ProjectsInv'
  BY <1>1, AnsweredKeepsInv
<1>2. CASE PollTimer
  BY <1>2, PollTimerKeepsInv
<1>3. ASSUME NEW index, SelectProject(index)
      PROVE  ProjectsInv'
  BY <1>3, SelectProjectKeepsInv
<1>4. CASE Clock
  BY <1>4, ClockKeepsInv
<1>5. CASE UNCHANGED projectsVars
  BY <1>5 DEF ProjectsInv, projectsVars
<1> QED
  BY <1>1, <1>2, <1>3, <1>4, <1>5 DEF ProjectsNext

\* The queue, the refresh, the page, the timer and what is known of failures agree in every state.
THEOREM ProjectsInvariant == ProjectsSafety => []ProjectsInv
<1>1. ProjectsInit => ProjectsInv
  BY InitInv
<1>2. ProjectsInv /\ [ProjectsNext]_projectsVars => ProjectsInv'
  BY NextInv
<1> QED
  BY <1>1, <1>2, PTL DEF ProjectsSafety
-----------------------------------------------------------------------------
(* What follows from it *)

\* However many requests the nested handlers of a reply enqueue, startRequests() keeps at most
\* kMaximumConcurrentRequests in flight and lets none wait while there is room.
THEOREM ProjectsSlotsAreUsed == ProjectsSafety => []SlotsAreUsed
<1>1. ProjectsInv => SlotsAreUsed
  BY DEF ProjectsInv, ServiceInv, Slots, SlotsAreUsed
<1> QED
  BY <1>1, ProjectsInvariant, PTL

\* refresh() and the replies of its requests never run two refreshes at once, for any number of
\* repositories and pages: loading means one listing, or exactly the counted run requests.
THEOREM ProjectsOneRefresh == ProjectsSafety => []OneRefresh
<1>1. ProjectsInv => OneRefresh
  BY DEF ProjectsInv, ServiceInv, RefreshHolds, SharesCell, Listings, OneRefresh
<1> QED
  BY <1>1, ProjectsInvariant, PTL

\* selected_index_ and selected_key_ name the same row of any list that a refresh shows.
THEOREM ProjectsSelectionNamesOne == ProjectsSafety => []SelectionNamesOneProject
<1>1. ProjectsInv => SelectionNamesOneProject
  BY DEF ProjectsInv, ServiceInv, PageHolds, SelectionHolds, SelectionNamesOneProject
<1> QED
  BY <1>1, ProjectsInvariant, PTL

\* The stage cards are those of the selected run or its jobs are still being asked for, whatever
\* replies about other runs come late.
THEOREM ProjectsDetailsFollow == ProjectsSafety => []DetailsFollowSelection
<1>1. ProjectsInv => DetailsFollowSelection
  BY DEF ProjectsInv, ServiceInv, PageHolds, DetailsHold, DetailsFollowSelection
<1> QED
  BY <1>1, ProjectsInvariant, PTL

\* A refresh that lacks the public listing or the runs of a repository, or has a listing that
\* breaks its schema, never passes for a good one; one that goes on without a private listing
\* that could not be read does, and is not meant here.
THEOREM ProjectsFailureShows == ProjectsSafety => []FailureNeverLooksFresh
<1>1. ProjectsInv => FailureNeverLooksFresh
  BY DEF ProjectsInv, ServiceInv, MissingIsKnown, FailureNeverLooksFresh
<1> QED
  BY <1>1, ProjectsInvariant, PTL

\* Only selectProject(), or the project's absence from a new list, moves the selection.
THEOREM ProjectsSelectionStays == ProjectsSafety => SelectionStays
<1> DEFINE Moved == service'.selectedKey # service.selectedKey =>
                      \/ \E index \in 1..Len(service.projects) : SelectProject(index)
                      \/ RowsOf(service'.projects, service.selectedKey) = {}
<1>1. ASSUME ProjectsInv, [ProjectsNext]_projectsVars
      PROVE  Moved
  <2>1. ASSUME NEW i \in 1..Len(service.active), Answered(i)
        PROVE  Moved
    BY <1>1, <2>1, AnsweredKeepsInv DEF PageMoves
  <2>2. CASE PollTimer
    BY <1>1, <2>2, PollTimerKeepsInv DEF PageStays
  <2>3. ASSUME NEW index, SelectProject(index)
        PROVE  Moved
    <3>1. index \in 1..Len(service.projects)
      BY <2>3 DEF SelectProject
    <3> QED
      BY <2>3, <3>1
  <2>4. CASE Clock
    BY <1>1, <2>4, ClockKeepsInv DEF PageStays
  <2>5. CASE UNCHANGED projectsVars
    BY <2>5 DEF projectsVars
  <2> QED
    BY <1>1, <2>1, <2>2, <2>3, <2>4, <2>5 DEF ProjectsNext
<1>2. ProjectsInv /\ [ProjectsNext]_projectsVars => [Moved]_projectsVars
  BY <1>1
<1> QED
  BY <1>2, ProjectsInvariant, PTL DEF ProjectsSafety, SelectionStays

\* The list of projects changes only in the step in which a refresh succeeds.
THEOREM ProjectsListChangesAtOnce == ProjectsSafety => ListChangesAtOnce
<1> DEFINE Shows(p) == [i \in 1..Len(p) |-> <<p[i].key, p[i].run>>]
           AtOnce == Shows(service.projects) # Shows(service'.projects)
                       => service.state = "loading" /\ service'.state \in {"ready", "empty"} /\ ~service'.stale
<1>1. ASSUME ProjectsInv, [ProjectsNext]_projectsVars
      PROVE  AtOnce
  <2>1. ASSUME NEW i \in 1..Len(service.active), Answered(i)
        PROVE  AtOnce
    <3>1. PageMoves(service', service)
      BY <1>1, <2>1, AnsweredKeepsInv
    <3>2. CASE SameRows(service'.projects, service.projects)
      <4>1. ASSUME NEW p, NEW q, SameRows(p, q)
            PROVE  Shows(p) = Shows(q)
        BY <4>1 DEF SameRows
      <4> QED
        BY <3>2, <4>1
    <3> QED
      BY <3>1, <3>2 DEF PageMoves
  <2>2. CASE PollTimer
    BY <1>1, <2>2, PollTimerKeepsInv DEF PageStays
  <2>3. ASSUME NEW index, SelectProject(index)
        PROVE  AtOnce
    BY <1>1, <2>3, SelectProjectKeepsInv
  <2>4. CASE Clock
    BY <1>1, <2>4, ClockKeepsInv DEF PageStays
  <2>5. CASE UNCHANGED projectsVars
    BY <2>5 DEF projectsVars
  <2> QED
    BY <1>1, <2>1, <2>2, <2>3, <2>4, <2>5 DEF ProjectsNext
<1>2. ProjectsInv /\ [ProjectsNext]_projectsVars => [AtOnce]_projectsVars
  BY <1>1
<1> QED
  BY <1>2, ProjectsInvariant, PTL DEF ProjectsSafety, ListChangesAtOnce

\* No refresh begins before the longest delay asked for is over, unless one has succeeded since.
THEOREM ProjectsRateLimitDelays == ProjectsSafety => RateLimitDelaysPolling
<1> DEFINE Waits == service.state # "loading" /\ service'.state = "loading" => observed.limitLeft = 0
<1>1. ASSUME ProjectsInv, [ProjectsNext]_projectsVars
      PROVE  Waits
  <2>1. ASSUME NEW i \in 1..Len(service.active), Answered(i)
        PROVE  Waits
    BY <1>1, <2>1, AnsweredKeepsInv DEF PageMoves
  <2>2. CASE PollTimer
    BY <1>1, <2>2 DEF PollTimer, ProjectsInv, ServiceInv, TimerHolds
  <2>3. ASSUME NEW index, SelectProject(index)
        PROVE  Waits
    BY <1>1, <2>3, SelectProjectKeepsInv
  <2>4. CASE Clock
    BY <1>1, <2>4, ClockKeepsInv
  <2>5. CASE UNCHANGED projectsVars
    BY <2>5 DEF projectsVars
  <2> QED
    BY <1>1, <2>1, <2>2, <2>3, <2>4, <2>5 DEF ProjectsNext
<1>2. ProjectsInv /\ [ProjectsNext]_projectsVars => [Waits]_projectsVars
  BY <1>1
<1> QED
  BY <1>2, ProjectsInvariant, PTL DEF ProjectsSafety, RateLimitDelaysPolling
-----------------------------------------------------------------------------
(* Sorting: what Ordered() returns for any finite set and any strict order of it *)

StrictOrder(S, R) ==
    \A x, y, z \in S : /\ <<x, y>> \in R => <<y, x>> \notin R
                       /\ x # y => <<x, y>> \in R \/ <<y, x>> \in R
                       /\ <<x, y>> \in R /\ <<y, z>> \in R => <<x, z>> \in R

(* Each of the first numbers counts those before some element: different elements have different   *)
(* numbers before them, and there are as many numbers as elements.                                 *)
LEMMA PlaceExists ==
  ASSUME NEW S, IsFiniteSet(S), NEW R, StrictOrder(S, R), NEW n \in 1..Cardinality(S)
  PROVE  \E x \in S : Cardinality({y \in S : <<y, x>> \in R}) = n - 1
<1> DEFINE Before(x) == {y \in S : <<y, x>> \in R}
           N == Cardinality(S)
<1>1. N \in Nat
  BY FS_CardinalityType
<1>2. ASSUME NEW x \in S
      PROVE  Cardinality(Before(x)) \in 0..(N - 1)
  <2>1. Before(x) \in SUBSET S /\ Before(x) # S
    BY DEF StrictOrder
  <2>2. /\ IsFiniteSet(Before(x)) /\ Cardinality(Before(x)) <= N
        /\ N = Cardinality(Before(x)) => S = Before(x)
    BY <2>1, FS_Subset
  <2>3. Cardinality(Before(x)) \in Nat
    BY <2>2, FS_CardinalityType
  <2> HIDE DEF N, Before
  <2> QED
    BY <1>1, <2>1, <2>2, <2>3
<1>3. ASSUME NEW x \in S, NEW y \in S, <<x, y>> \in R
      PROVE  Cardinality(Before(x)) # Cardinality(Before(y))
  <2>1. Before(x) \in SUBSET Before(y) /\ x \in Before(y) /\ x \notin Before(x)
    BY <1>3 DEF StrictOrder
  <2>2. IsFiniteSet(Before(y))
    <3>1. Before(y) \in SUBSET S
      OBVIOUS
    <3> QED
      BY <3>1, FS_Subset
  <2>3. Cardinality(Before(y)) = Cardinality(Before(x)) => Before(y) = Before(x)
    BY <2>1, <2>2, FS_Subset
  <2> QED
    BY <2>1, <2>3
<1> SUFFICES ASSUME \A x \in S : Cardinality(Before(x)) # n - 1
             PROVE  FALSE
  OBVIOUS
<1> DEFINE T == (0..(N - 1)) \ {n - 1}
           f == [x \in S |-> Cardinality(Before(x))]
<1>4. f \in [S -> T]
  BY <1>2
<1>5. IsFiniteSet(T) /\ Cardinality(T) < Cardinality(S)
  <2>1. n - 1 \in 0..(N - 1) /\ ~ (0 > N - 1) /\ 0 \in Int /\ N - 1 \in Int
    BY <1>1
  <2> HIDE DEF N
  <2>2. IsFiniteSet(0..(N - 1)) /\ Cardinality(0..(N - 1)) = N - 1 - 0 + 1
    <3>1. /\ IsFiniteSet(0..(N - 1))
          /\ Cardinality(0..(N - 1)) = IF 0 > N - 1 THEN 0 ELSE N - 1 - 0 + 1
      BY <2>1, FS_Interval, Zenon
    <3> QED
      BY <2>1, <3>1
  <2>3. IsFiniteSet(T) /\ Cardinality(T) = Cardinality(0..(N - 1)) - 1
    BY <2>1, <2>2, FS_RemoveElement
  <2> HIDE DEF T
  <2> QED
    BY <1>1, <2>2, <2>3 DEF N
<1>6. PICK x \in S, y \in S : x # y /\ f[x] = f[y]
  <2> HIDE DEF f, T
  <2> QED
    BY <1>4, <1>5, FS_PigeonHole, Zenon
<1>7. <<x, y>> \in R \/ <<y, x>> \in R
  BY <1>6 DEF StrictOrder
<1> QED
  BY <1>3, <1>6, <1>7

LEMMA OrderedElements ==
  ASSUME NEW S, IsFiniteSet(S), NEW R, StrictOrder(S, R)
  PROVE  /\ Cardinality(S) \in Nat
         /\ Ordered(S, R) \in [1..Cardinality(S) -> S]
<1>1. Cardinality(S) \in Nat
  BY FS_CardinalityType
<1>2. ASSUME NEW n \in 1..Cardinality(S)
      PROVE  (CHOOSE x \in S : Cardinality({y \in S : <<y, x>> \in R}) = n - 1) \in S
  <2>1. \E x \in S : Cardinality({y \in S : <<y, x>> \in R}) = n - 1
    BY PlaceExists
  <2> QED
    BY <2>1
<1> QED
  BY <1>1, <1>2 DEF Ordered

(* A listing consists of the repositories listed. *)
LEMMA InKeyOrderKeys ==
  ASSUME NEW keys \in SUBSET Repos
  PROVE  InKeyOrder(keys) \in Seq(Repos)
<1> DEFINE R == {p \in keys \X keys : p[1] < p[2]}
<1>1. IsFiniteSet(keys) /\ keys \subseteq Nat
  BY RepositoriesAreKeys, FS_Subset
<1>2. \A x, y \in keys : <<x, y>> \in R <=> x < y
  OBVIOUS
<1> HIDE DEF R
<1>3. StrictOrder(keys, R)
  <2> SUFFICES ASSUME NEW x \in keys, NEW y \in keys, NEW z \in keys
               PROVE  /\ <<x, y>> \in R => <<y, x>> \notin R
                      /\ x # y => <<x, y>> \in R \/ <<y, x>> \in R
                      /\ <<x, y>> \in R /\ <<y, z>> \in R => <<x, z>> \in R
    BY DEF StrictOrder
  <2>1. x \in Nat /\ y \in Nat /\ z \in Nat
    BY <1>1
  <2>2. /\ <<x, y>> \in R <=> x < y
        /\ <<y, x>> \in R <=> y < x
        /\ <<y, z>> \in R <=> y < z
        /\ <<x, z>> \in R <=> x < z
    BY <1>2
  <2> QED
    BY <2>1, <2>2
<1>4. Cardinality(keys) \in Nat /\ Ordered(keys, R) \in [1..Cardinality(keys) -> keys]
  BY <1>1, <1>3, OrderedElements
<1>5. InKeyOrder(keys) = Ordered(keys, R)
  BY DEF InKeyOrder, R
<1>6. Ordered(keys, R) \in [1..Cardinality(keys) -> Repos]
  BY <1>4
<1> QED
  BY <1>4, <1>5, <1>6

(* Rows of repositories and runs that there are. *)
RowsTyped(rows) ==
    IsSeq(rows) /\ \A i \in 1..Len(rows) : rows[i].key \in Repos /\ rows[i].run \in Runs

LEMMA LatestFirstRows ==
  ASSUME NEW rows, RowsTyped(rows), NEW sorted, sorted = LatestFirst(rows)
  PROVE  RowsTyped(sorted) /\ Len(sorted) = Len(rows)
<1> DEFINE all == 1..Len(rows)
           R == {p \in all \X all : Precedes(rows, p[1], p[2])}
           places == Ordered(all, R)
<1>1. Len(rows) \in Nat /\ IsFiniteSet(all) /\ Cardinality(all) = Len(rows)
  <2>1. Len(rows) \in Nat
    BY SeqLength DEF RowsTyped
  <2>2. /\ IsFiniteSet(1..Len(rows))
        /\ Cardinality(1..Len(rows)) = IF 1 > Len(rows) THEN 0 ELSE Len(rows) - 1 + 1
    BY <2>1, FS_Interval
  <2> QED
    BY <2>1, <2>2
<1>2. \A x, y \in all : <<x, y>> \in R <=> Precedes(rows, x, y)
  OBVIOUS
<1>3. StrictOrder(all, R)
  <2> DEFINE U(i) == UpdatedAt[rows[i].run]
             K(i) == rows[i].key
  <2>1. \A i \in all : U(i) \in Nat /\ K(i) \in Nat
    BY RunsAreNumbers, RepositoriesAreKeys DEF RowsTyped
  <2>2. \A x, y \in all : Earlier(rows[x], rows[y]) <=> (IF U(x) = U(y) THEN K(x) < K(y) ELSE U(x) > U(y))
    BY DEF Earlier
  <2>3. all \subseteq Nat
    BY <1>1
  <2> DEFINE First(x, y) == \/ U(x) > U(y)
                            \/ U(x) = U(y) /\ K(x) < K(y)
                            \/ U(x) = U(y) /\ K(x) = K(y) /\ x < y
  <2> HIDE DEF all, U, K, R
  <2>4. ASSUME NEW x \in all, NEW y \in all
        PROVE  <<x, y>> \in R <=> First(x, y)
    <3>1. U(x) \in Nat /\ U(y) \in Nat /\ K(x) \in Nat /\ K(y) \in Nat /\ x \in Nat /\ y \in Nat
      BY <2>1, <2>3
    <3>2. /\ Earlier(rows[x], rows[y]) <=> (IF U(x) = U(y) THEN K(x) < K(y) ELSE U(x) > U(y))
          /\ Earlier(rows[y], rows[x]) <=> (IF U(y) = U(x) THEN K(y) < K(x) ELSE U(y) > U(x))
      BY <2>2
    <3>3. Precedes(rows, x, y) <=> First(x, y)
      BY <3>1, <3>2 DEF Precedes
    <3> QED
      BY <1>2, <3>3
  <2> SUFFICES ASSUME NEW x \in all, NEW y \in all, NEW z \in all
               PROVE  /\ <<x, y>> \in R => <<y, x>> \notin R
                      /\ x # y => <<x, y>> \in R \/ <<y, x>> \in R
                      /\ <<x, y>> \in R /\ <<y, z>> \in R => <<x, z>> \in R
    BY DEF StrictOrder
  <2>5. /\ U(x) \in Nat /\ U(y) \in Nat /\ U(z) \in Nat
        /\ K(x) \in Nat /\ K(y) \in Nat /\ K(z) \in Nat
        /\ x \in Nat /\ y \in Nat /\ z \in Nat
    BY <2>1, <2>3
  <2>6. /\ <<x, y>> \in R <=> First(x, y)
        /\ <<y, x>> \in R <=> First(y, x)
        /\ <<y, z>> \in R <=> First(y, z)
        /\ <<x, z>> \in R <=> First(x, z)
    <3> HIDE DEF First
    <3> QED
      BY <2>4
  <2> QED
    BY <2>5, <2>6
<1> HIDE DEF R
<1>4. places \in [all -> all]
  BY <1>1, <1>3, OrderedElements
<1>5. sorted = [n \in all |-> rows[places[n]]]
  BY DEF LatestFirst, R
<1> HIDE DEF places
<1>6. sorted \in Seq({rows[i] : i \in all}) /\ Len(sorted) = Len(rows)
  <2>1. sorted \in [1..Len(rows) -> {rows[i] : i \in all}]
    BY <1>4, <1>5
  <2> QED
    BY <1>1, <2>1
<1>7. \A i \in 1..Len(rows) : \E k \in 1..Len(rows) : sorted[i] = rows[k]
  BY <1>4, <1>5
<1> QED
  BY <1>6, <1>7 DEF RowsTyped, IsSeq
-----------------------------------------------------------------------------
(* The metrics that a project shows *)

RunsShown(p) == \A i \in 1..Len(p) : p[i].run \in Runs

(* From p to q no project that shows the same run loses the metrics loaded for it. *)
MetricsKept(p, q) ==
    \A i \in 1..Len(p), j \in 1..Len(q) :
        (p[i].key = q[j].key /\ p[i].run = q[j].run /\ Cardinality(RowsOf(p, p[i].key)) = 1)
          => /\ p[i].jobs = p[i].run => q[j].jobs = p[i].run
             /\ p[i].size = p[i].run => q[j].size = p[i].run

(* q shows the runs of p, and of each metric what p shows or what the run of the row has. *)
Improved(q, p) ==
    /\ Len(q) = Len(p)
    /\ \A i \in 1..Len(p) : /\ q[i].key = p[i].key /\ q[i].run = p[i].run
                            /\ q[i].jobs \in {p[i].jobs, p[i].run}
                            /\ q[i].size \in {p[i].size, p[i].run}

LEMMA OnlyRow ==
  ASSUME NEW p, IsSeq(p), NEW i \in 1..Len(p), Cardinality(RowsOf(p, p[i].key)) = 1
  PROVE  RowsOf(p, p[i].key) = {i} /\ Lowest({i}) = i
<1> DEFINE rows == RowsOf(p, p[i].key)
<1>1. Len(p) \in Nat
  BY SeqLength
<1>2. IsFiniteSet(1..Len(p))
  BY <1>1, FS_Interval
<1>3. rows \in SUBSET (1..Len(p)) /\ {i} \in SUBSET rows
  BY DEF RowsOf
<1>4. IsFiniteSet(rows)
  BY <1>2, <1>3, FS_Subset
<1>5. Cardinality({i}) = 1
  BY FS_Singleton
<1>6. rows = {i}
  <2> HIDE DEF rows
  <2>1. Cardinality(rows) = Cardinality({i}) => rows = {i}
    BY <1>3, <1>4, FS_Subset
  <2> QED
    BY <1>5, <2>1 DEF rows
<1>7. Lowest({i}) = i
  BY <1>1 DEF Lowest
<1> QED
  BY <1>6, <1>7

LEMMA ImprovedKeeps ==
  ASSUME NEW p, IsSeq(p), RunsShown(p), NEW q, Improved(q, p)
  PROVE  RunsShown(q) /\ MetricsKept(p, q)
<1>1. RunsShown(q)
  BY DEF RunsShown, Improved
<1>2. ASSUME NEW i \in 1..Len(p), NEW j \in 1..Len(q), p[i].key = q[j].key, p[i].run = q[j].run,
             Cardinality(RowsOf(p, p[i].key)) = 1
      PROVE  /\ p[i].jobs = p[i].run => q[j].jobs = p[i].run
             /\ p[i].size = p[i].run => q[j].size = p[i].run
  <2>1. j \in RowsOf(p, p[i].key)
    BY <1>2 DEF Improved, RowsOf
  <2>2. j = i
    BY <1>2, <2>1, OnlyRow
  <2> QED
    BY <2>2 DEF Improved
<1> QED
  BY <1>1, <1>2 DEF MetricsKept

LEMMA SameImproved ==
  ASSUME NEW p
  PROVE  Improved(p, p)
BY DEF Improved

(* A refresh takes what was loaded over to the new rows. *)
LEMMA RetainedMetrics ==
  ASSUME NEW p, IsSeq(p), RunsShown(p), NEW rows, RowsTyped(rows), NEW q, q = Retained(rows, p)
  PROVE  RunsShown(q) /\ MetricsKept(p, q)
<1>1. Len(rows) \in Nat
  BY SeqLength DEF RowsTyped
<1> DEFINE Kept(i, metric) ==
             LET before == RowsOf(p, rows[i].key)
                 old == p[Lowest(before)]
             IN  IF before # {} /\ old[metric] # NoRun THEN old[metric] ELSE rows[i][metric]
           Row(i) == [key |-> rows[i].key, run |-> rows[i].run,
                      jobs |-> Kept(i, "jobs"), size |-> Kept(i, "size")]
<1>2. q = [i \in 1..Len(rows) |-> Row(i)]
  BY DEF Retained
<1> HIDE DEF Kept
<1>3. Len(q) = Len(rows) /\ \A j \in 1..Len(q) : q[j] = Row(j)
  BY <1>1, <1>2
<1>4. \A j \in 1..Len(q) : /\ q[j].key = rows[j].key /\ q[j].run = rows[j].run
                           /\ q[j].jobs = Kept(j, "jobs") /\ q[j].size = Kept(j, "size")
  <2> TAKE j \in 1..Len(q)
  <2>1. q[j] = Row(j)
    BY <1>3
  <2> QED
    BY <2>1
<1> HIDE DEF Row
<1>5. RunsShown(q)
  BY <1>3, <1>4 DEF RunsShown, RowsTyped
<1>6. ASSUME NEW i \in 1..Len(p), NEW j \in 1..Len(q), p[i].key = q[j].key, p[i].run = q[j].run,
             Cardinality(RowsOf(p, p[i].key)) = 1
      PROVE  /\ p[i].jobs = p[i].run => q[j].jobs = p[i].run
             /\ p[i].size = p[i].run => q[j].size = p[i].run
  <2>1. p[i].run # NoRun
    BY RunsAreNumbers DEF RunsShown
  <2>2. RowsOf(p, rows[j].key) = {i} /\ Lowest({i}) = i
    <3>1. RowsOf(p, p[i].key) = {i} /\ Lowest({i}) = i
      BY <1>6, OnlyRow
    <3>2. rows[j].key = p[i].key
      BY <1>4, <1>6
    <3> QED
      BY <3>1, <3>2
  <2>3. ASSUME NEW metric, p[i][metric] # NoRun
        PROVE  Kept(j, metric) = p[i][metric]
    BY <2>2, <2>3 DEF Kept
  <2> QED
    BY <1>4, <2>1, <2>3
<1> QED
  BY <1>5, <1>6 DEF MetricsKept

(* A loaded metric is that of the run which its row shows. *)
LEMMA WithMetricImproves ==
  ASSUME NEW e, DOMAIN e = Members, IsList(e.projects), NEW r, NEW metric \in {"jobs", "size"},
         NEW h, h = WithMetric(e, r, metric)
  PROVE  Improved(h.projects, e.projects)
<1> DEFINE p == e.projects
           k == Lowest(RowsOf(p, r.repo))
           row == [p[k] EXCEPT ![metric] = r.run]
           q == [p EXCEPT ![k] = row]
           t == [e EXCEPT !.projects = q]
<1>1. h = e \/ (h = t /\ RowsOf(p, r.repo) # {} /\ p[k].run = r.run)
  BY DEF WithMetric, Members
<1>2. t.projects = q
  BY DEF Members
<1>3. Len(h.projects) = Len(p)
  BY WithMetricEffect DEF SameRows
<1>4. CASE h = e
  BY <1>4, SameImproved
<1>5. CASE h = t /\ RowsOf(p, r.repo) # {} /\ p[k].run = r.run
  <2> HIDE DEF k
  <2>1. \A i \in 1..Len(p) : DOMAIN p[i] = {"key", "run", "jobs", "size"}
    BY DEF IsList
  <2>2. DOMAIN p = 1..Len(p)
    BY SeqLength DEF IsList
  <2>3. \A i \in 1..Len(p) : q[i] = IF i = k THEN row ELSE p[i]
    BY <2>2
  <2>4. k \in 1..Len(p) =>
          /\ row.key = p[k].key /\ row.run = p[k].run
          /\ row.jobs \in {p[k].jobs, p[k].run} /\ row.size \in {p[k].size, p[k].run}
    BY <1>5, <2>1
  <2> HIDE DEF row
  <2>5. \A i \in 1..Len(p) : /\ q[i].key = p[i].key /\ q[i].run = p[i].run
                             /\ q[i].jobs \in {p[i].jobs, p[i].run}
                             /\ q[i].size \in {p[i].size, p[i].run}
    BY <2>3, <2>4
  <2> HIDE DEF q, t
  <2> QED
    BY <1>2, <1>3, <1>5, <2>5 DEF Improved
<1> QED
  BY <1>1, <1>4, <1>5
-----------------------------------------------------------------------------
(* What a reply brings of a list to show, and what it keeps of the one shown *)

CellsTyped(s) == \A c \in DOMAIN s.cells : RowsTyped(s.cells[c].rows)

RequestTyped(q) ==
    /\ q.kind \in Listings => q.found \in Seq(Repos)
    /\ q.kind = "runs" => q.repo \in Repos
RequestsTyped(s) == \A q \in Outstanding(s) : RequestTyped(q)

(* The rows collected so far, the requests that will bring more, and the list shown are about      *)
(* repositories and runs that there are.                                                           *)
MetricsInv(s) == CellsTyped(s) /\ RequestsTyped(s) /\ RunsShown(s.projects)

(* h comes after e and has lost no metric. *)
Carried(h, e) == MetricsInv(h) /\ MetricsKept(e.projects, h.projects)

LEMMA RequestLeaves ==
  ASSUME NEW s, DOMAIN s = Members, NEW new, NEW r, r = Request(s, new)
  PROVE  DOMAIN r = Members /\ r.cells = s.cells /\ r.projects = s.projects
<1> DEFINE q == s.queue \o new
           t == [s EXCEPT !.queue = q]
<1>1. r = StartRequests(t)
  BY DEF Request
<1>2. DOMAIN t = Members /\ t.cells = s.cells /\ t.projects = s.projects
  BY DEF Members
<1> HIDE DEF t
<1>3. PICK a, b, c : r = [t EXCEPT !.active = a, !.queue = b, !.count = c]
  BY <1>1, Zenon DEF StartRequests
<1> QED
  BY <1>2, <1>3 DEF Members

LEMMA NewCellTyped ==
  ASSUME NEW s, CellsTyped(s), NEW c, NEW r, r.cells = WithCell(s.cells, c)
  PROVE  CellsTyped(r)
<1> DEFINE cells == WithCell(s.cells, c)
<1>1. /\ DOMAIN cells = DOMAIN s.cells \cup {c} /\ cells[c] = EmptyCell
      /\ \A d \in DOMAIN s.cells : d # c => cells[d] = s.cells[d]
  BY DEF WithCell
<1>2. EmptyCell.rows = <<>>
  BY DEF EmptyCell
<1>3. RowsTyped(<<>>)
  <2>1. 1..Len(<<>>) = {}
    OBVIOUS
  <2> QED
    BY <2>1, EmptyCount DEF RowsTyped
<1> HIDE DEF cells
<1>4. r.cells = cells
  BY DEF cells
<1> QED
  BY <1>1, <1>2, <1>3, <1>4 DEF CellsTyped

LEMMA GrowsTyped ==
  ASSUME NEW s, RequestsTyped(s), NEW r, Grows(r, s)
  PROVE  RequestsTyped(r)
BY DEF RequestsTyped, RequestTyped, Grows, Details, Listings

LEMMA LoadRunnersTyped ==
  ASSUME NEW s, DOMAIN s = Members, CellsTyped(s), NEW r, r = LoadRunners(s)
  PROVE  DOMAIN r = Members /\ CellsTyped(r) /\ r.projects = s.projects
<1> DEFINE c == FreeCell(s)
           cleared == [s EXCEPT !.online = Unknown, !.total = Unknown, !.runnerIds = {}, !.onlineIds = {}]
           cells == WithCell(s.cells, c)
           t == [cleared EXCEPT !.pendingRunners = Len(s.projects), !.cells = cells, !.runnerCell = c]
           new == [i \in 1..Len(s.projects) |-> AboutRepo("runners", s.projects[i].key, c)]
<1>1. DOMAIN cleared = Members /\ cleared.cells = s.cells /\ cleared.projects = s.projects
  BY DEF Members
<1>2. r = cleared \/ r = Request(t, new)
  BY <1>1 DEF LoadRunners
<1> HIDE DEF cleared
<1>3. DOMAIN t = Members /\ t.cells = cells /\ t.projects = s.projects
  BY <1>1 DEF Members
<1> HIDE DEF t, new
<1>4. CASE r = cleared
  BY <1>1, <1>4 DEF CellsTyped
<1>5. CASE r = Request(t, new)
  <2>1. DOMAIN r = Members /\ r.cells = WithCell(s.cells, c) /\ r.projects = s.projects
    BY <1>3, <1>5, RequestLeaves
  <2> HIDE DEF c
  <2> QED
    BY <2>1, NewCellTyped
<1> QED
  BY <1>2, <1>4, <1>5

LEMMA FinishRefreshTyped ==
  ASSUME NEW s, DOMAIN s = Members, CellsTyped(s), NEW r, r = FinishRefresh(s)
  PROVE  DOMAIN r = Members /\ CellsTyped(r) /\ r.projects = s.projects
<1> DEFINE state == IF s.projects = <<>> THEN "empty" ELSE "ready"
           interval == PollInterval(s.token, s.count)
           ended == [s EXCEPT !.stale = FALSE, !.counting = FALSE, !.state = state]
           t == [ended EXCEPT !.interval = interval, !.pollLeft = interval]
<1>1. r = LoadRunners(t)
  BY DEF FinishRefresh, SetInterval
<1> HIDE DEF state, interval
<1>2. DOMAIN t = Members /\ t.cells = s.cells /\ t.projects = s.projects
  BY DEF Members
<1> HIDE DEF ended, t
<1>3. CellsTyped(t)
  BY <1>2 DEF CellsTyped
<1> QED
  BY <1>1, <1>2, <1>3, LoadRunnersTyped

LEMMA ShowRunsCarries ==
  ASSUME NEW s, Able(s), Celled(s), IsList(s.projects), MetricsInv(s), NEW rows, RowsTyped(rows),
         NEW h, h = ShowRuns(s, rows)
  PROVE  Carried(h, s)
<1> DEFINE sorted == LatestFirst(rows)
           shown == Retained(sorted, s.projects)
           same == RowsOf(shown, s.selectedKey)
           index == IF same = {} THEN 1 ELSE Highest(same)
           key == IF shown = <<>> THEN NoRepo ELSE shown[index].key
           replaced == [s EXCEPT !.projects = shown, !.selectedIndex = index, !.selectedKey = key]
           finished == FinishRefresh(replaced)
<1>1. h = LoadSelectedDetails(finished)
  BY DEF ShowRuns
<1>2. RowsTyped(sorted)
  BY LatestFirstRows
<1>3. RunsShown(shown) /\ MetricsKept(s.projects, shown)
  <2> HIDE DEF sorted
  <2> QED
    BY <1>2, RetainedMetrics DEF IsList, MetricsInv
<1>4. IsList(shown)
  BY RetainedIsList
<1> HIDE DEF shown, index, key
<1>5. /\ DOMAIN s = Members /\ CellsTyped(s) /\ RequestsTyped(s)
  BY DEF Able, MetricsInv
<1>6. /\ DOMAIN replaced = Members /\ replaced.cells = s.cells /\ replaced.projects = shown
      /\ replaced.active = s.active /\ replaced.queue = s.queue /\ replaced.count = s.count
  BY <1>5 DEF Members
<1> HIDE DEF replaced
<1>7. CellsTyped(replaced)
  BY <1>5, <1>6 DEF CellsTyped
<1>8. Able(replaced) /\ Outstanding(replaced) = Outstanding(s)
  BY <1>6, SameQueue
<1>9. Celled(replaced)
  BY <1>6, <1>8 DEF Celled, HasCell
<1>10. CellsTyped(finished) /\ finished.projects = shown
  BY <1>6, <1>7, FinishRefreshTyped
<1>11. Able(finished) /\ Celled(finished)
  BY <1>4, <1>6, <1>8, <1>9, FinishRefreshEffect DEF Grows
<1> HIDE DEF finished
<1>12. Keeps(h, finished, QueueMembers \cup {"stages", "history"})
  BY <1>1, <1>11, LoadSelectedDetailsEffect
<1>13. h.cells = finished.cells /\ h.projects = finished.projects
  BY <1>12 DEF Keeps, QueueMembers, Members
<1>14. CellsTyped(h)
  BY <1>10, <1>13 DEF CellsTyped
<1>15. RequestsTyped(h)
  <2>1. Grows(h, s)
    BY ShowRunsEffect DEF Refreshed
  <2> QED
    BY <1>5, <2>1, GrowsTyped
<1> QED
  BY <1>3, <1>10, <1>13, <1>14, <1>15 DEF Carried, MetricsInv

(* Nothing shown or collected changes. *)
LEMMA SameCarries ==
  ASSUME NEW s, IsList(s.projects), MetricsInv(s), NEW h, h.cells = s.cells, RequestsTyped(h),
         Improved(h.projects, s.projects)
  PROVE  Carried(h, s)
<1>1. RunsShown(h.projects) /\ MetricsKept(s.projects, h.projects)
  BY ImprovedKeeps DEF IsList, MetricsInv
<1> QED
  BY <1>1 DEF Carried, MetricsInv, CellsTyped

LEMMA DiscoverCarries ==
  ASSUME NEW s, Able(s), IsList(s.projects), MetricsInv(s), NEW kind \in Listings, NEW page,
         NEW found \in Seq(Repos), NEW h, h = Discover(s, kind, page, found)
  PROVE  Carried(h, s)
<1> DEFINE one == Listing(kind, page, found)
           new == <<one>>
<1>1. h = Request(s, new) /\ one.kind = kind /\ one.found = found
  BY DEF Discover, Listing
<1> HIDE DEF one
<1>2. IsSeq(new) /\ ToSet(new) = {one}
  BY CountOne
<1> HIDE DEF new
<1>3. Keeps(h, s, QueueMembers) /\ Adds(h, s, new)
  BY <1>1, <1>2, RequestEffect
<1>4. RequestsTyped(h)
  BY <1>1, <1>2, <1>3 DEF Adds, RequestsTyped, RequestTyped, MetricsInv, Listings
<1>5. h.cells = s.cells /\ h.projects = s.projects
  BY <1>3 DEF Keeps, QueueMembers, Members
<1> QED
  BY <1>4, <1>5, SameImproved, SameCarries

LEMMA LoadRunsCarries ==
  ASSUME NEW s, Able(s), Celled(s), IsList(s.projects), MetricsInv(s), NEW found \in Seq(Repos),
         NEW h, h = LoadRuns(s, found)
  PROVE  Carried(h, s)
<1> DEFINE c == FreeCell(s)
           n == Len(found)
           emptied == [s EXCEPT !.projects = <<>>]
           cells == WithCell(s.cells, c)
           t == [s EXCEPT !.pendingRuns = n, !.cells = cells]
           new == [i \in 1..n |-> AboutRepo("runs", found[i], c)]
<1>1. DOMAIN s = Members /\ CellsTyped(s) /\ RequestsTyped(s)
  BY DEF Able, MetricsInv
<1>2. n \in Nat
  OBVIOUS
<1>3. CASE n = 0
  <2>1. h = FinishRefresh(emptied)
    BY <1>3 DEF LoadRuns
  <2>2. /\ DOMAIN emptied = Members /\ emptied.active = s.active /\ emptied.queue = s.queue
        /\ emptied.count = s.count /\ emptied.cells = s.cells /\ emptied.projects = <<>>
    BY <1>1 DEF Members
  <2> HIDE DEF emptied
  <2>3. Able(emptied) /\ Outstanding(emptied) = Outstanding(s)
    BY <2>2, SameQueue
  <2>4. Celled(emptied) /\ CellsTyped(emptied) /\ RequestsTyped(emptied)
    BY <1>1, <2>2, <2>3 DEF Celled, HasCell, CellsTyped, RequestsTyped
  <2>5. Len(<<>>) = 0 /\ IsList(<<>>)
    BY EmptyCount DEF IsList
  <2>6. Grows(h, emptied)
    BY <2>1, <2>2, <2>3, <2>4, <2>5, FinishRefreshEffect
  <2>7. CellsTyped(h) /\ h.projects = <<>>
    BY <2>1, <2>2, <2>4, FinishRefreshTyped
  <2>8. RequestsTyped(h)
    BY <2>4, <2>6, GrowsTyped
  <2>9. RunsShown(<<>>) /\ MetricsKept(s.projects, <<>>)
    BY <2>5 DEF RunsShown, MetricsKept
  <2> QED
    BY <2>7, <2>8, <2>9 DEF Carried, MetricsInv
<1>4. CASE n # 0
  <2>1. h = Request(t, new)
    BY <1>4 DEF LoadRuns
  <2>2. /\ DOMAIN t = Members /\ t.active = s.active /\ t.queue = s.queue /\ t.count = s.count
        /\ t.cells = cells /\ t.projects = s.projects
    BY <1>1 DEF Members
  <2> HIDE DEF t
  <2>3. Able(t) /\ Outstanding(t) = Outstanding(s)
    BY <2>2, SameQueue
  <2>4. \A i \in 1..n : found[i] \in Repos
    BY ElementOfSeq
  <2> HIDE DEF n, c
  <2>5. IsSeq(new) /\ DOMAIN new = 1..n /\ \A i \in 1..n : new[i].kind = "runs" /\ new[i].repo = found[i]
    <3> DEFINE Asked == {AboutRepo("runs", found[i], c) : i \in 1..n}
    <3>1. new \in [1..n -> Asked]
      OBVIOUS
    <3>2. \A i \in 1..n : new[i].kind = "runs" /\ new[i].repo = found[i]
      BY DEF AboutRepo
    <3> HIDE DEF new, Asked
    <3>3. new \in Seq(Asked)
      BY <1>2, <3>1
    <3> QED
      BY <3>1, <3>2, <3>3 DEF IsSeq
  <2> HIDE DEF new
  <2>6. \A q \in ToSet(new) : q.kind = "runs" /\ q.repo \in Repos
    BY <2>4, <2>5 DEF ToSet
  <2>7. Adds(h, t, new)
    BY <2>1, <2>3, <2>5, RequestEffect
  <2>8. RequestsTyped(h)
    BY <1>1, <2>3, <2>6, <2>7 DEF RequestsTyped, RequestTyped, Adds, Listings
  <2>9. h.cells = WithCell(s.cells, c) /\ h.projects = s.projects
    BY <2>1, <2>2, RequestLeaves
  <2>10. CellsTyped(h)
    BY <1>1, <2>9, NewCellTyped
  <2>11. RunsShown(h.projects) /\ MetricsKept(s.projects, h.projects)
    BY <2>9, SameImproved, ImprovedKeeps DEF IsList, MetricsInv
  <2> QED
    BY <2>8, <2>10, <2>11 DEF Carried, MetricsInv
<1> QED
  BY <1>3, <1>4

(* e with one object changed, which collects rows as it should. *)
LEMMA CellChanged ==
  ASSUME NEW e, Able(e), Celled(e), IsList(e.projects), MetricsInv(e),
         NEW c \in DOMAIN e.cells, NEW cell, DOMAIN cell = {"rows", "failed"}, RowsTyped(cell.rows),
         NEW x, Keeps(x, e, RunnerMembers), x.cells = [e.cells EXCEPT ![c] = cell]
  PROVE  /\ Able(x) /\ Celled(x) /\ x.projects = e.projects /\ MetricsInv(x)
         /\ c \in DOMAIN x.cells
<1>1. /\ DOMAIN x = Members /\ x.active = e.active /\ x.queue = e.queue /\ x.count = e.count
      /\ x.projects = e.projects
  BY DEF Keeps, RunnerMembers, Members
<1>2. Able(x) /\ Outstanding(x) = Outstanding(e)
  BY <1>1, SameQueue
<1>3. /\ DOMAIN x.cells = DOMAIN e.cells
      /\ \A d \in DOMAIN e.cells : x.cells[d] = IF d = c THEN cell ELSE e.cells[d]
  OBVIOUS
<1>4. Celled(x)
  BY <1>2, <1>3 DEF Celled, HasCell
<1>5. CellsTyped(x)
  BY <1>3 DEF CellsTyped, MetricsInv
<1>6. RequestsTyped(x)
  BY <1>2 DEF RequestsTyped, MetricsInv
<1> QED
  BY <1>1, <1>2, <1>3, <1>4, <1>5, <1>6 DEF MetricsInv

LEMMA RunsCountedCarries ==
  ASSUME NEW x, Able(x), Celled(x), IsList(x.projects), MetricsInv(x), NEW c \in DOMAIN x.cells,
         NEW h, h = RunsCounted(x, c)
  PROVE  Carried(h, x)
<1> DEFINE t == [x EXCEPT !.pendingRuns = x.pendingRuns - 1]
<1>1. DOMAIN x = Members
  BY DEF Able
<1>2. /\ DOMAIN t = Members /\ t.cells = x.cells /\ t.projects = x.projects
      /\ t.active = x.active /\ t.queue = x.queue /\ t.count = x.count
  BY <1>1 DEF Members
<1>3. h = IF t.pendingRuns # 0 THEN t
          ELSE IF x.cells[c].failed THEN FailRefresh(t) ELSE ShowRuns(t, x.cells[c].rows)
  BY DEF RunsCounted
<1> HIDE DEF t
<1>4. Able(t) /\ Outstanding(t) = Outstanding(x)
  BY <1>2, SameQueue
<1>5. Celled(t) /\ MetricsInv(t) /\ IsList(t.projects) /\ RequestsTyped(t)
  BY <1>2, <1>4 DEF Celled, HasCell, MetricsInv, CellsTyped, RequestsTyped
<1>6. CASE h = t
  BY <1>2, <1>5, <1>6, SameImproved, SameCarries
<1>7. CASE h = FailRefresh(t)
  <2>1. Failed(h, t)
    BY <1>2, <1>7, FailRefreshEffect
  <2>2. /\ h.active = t.active /\ h.queue = t.queue /\ h.cells = t.cells /\ h.projects = t.projects
    BY <2>1 DEF Failed, Keeps, Members
  <2>3. RequestsTyped(h)
    BY <1>5, <2>2 DEF RequestsTyped, Outstanding
  <2> QED
    BY <1>2, <2>2, <2>3, SameImproved, SameCarries
<1>8. CASE h = ShowRuns(t, x.cells[c].rows)
  <2>1. RowsTyped(x.cells[c].rows)
    BY DEF MetricsInv, CellsTyped
  <2>2. Carried(h, t)
    BY <1>4, <1>5, <1>8, <2>1, ShowRunsCarries
  <2> QED
    BY <1>2, <2>2 DEF Carried
<1> QED
  BY <1>3, <1>6, <1>7, <1>8

LEMMA RunsFoundCarries ==
  ASSUME NEW e, Able(e), Celled(e), IsList(e.projects), MetricsInv(e), NEW r, HasCell(e, r),
         r.repo \in Repos, NEW run \in Runs \cup {NoRun}, NEW h, h = RunsFound(e, r, run)
  PROVE  Carried(h, e)
<1> DEFINE row == [key |-> r.repo, run |-> run, jobs |-> NoRun, size |-> NoRun]
           c == r.cell
           filled == [e EXCEPT !.cells[c].rows = Append(@, row)]
           x == IF run = NoRun THEN e ELSE filled
<1>1. h = RunsCounted(x, c)
  BY DEF RunsFound
<1>2. DOMAIN e = Members /\ c \in DOMAIN e.cells /\ DOMAIN e.cells[c] = {"rows", "failed"}
  BY DEF Able, HasCell
<1>3. CASE run = NoRun
  BY <1>1, <1>2, <1>3, RunsCountedCarries
<1>4. CASE run # NoRun
  <2> DEFINE old == e.cells[c].rows
             rows == Append(old, row)
             cell == [e.cells[c] EXCEPT !.rows = rows]
             cells == [e.cells EXCEPT ![c] = cell]
  <2>1. x = [e EXCEPT !.cells = cells]
    BY <1>2, <1>4 DEF Members
  <2>2. row.key \in Repos /\ row.run \in Runs
    BY <1>4
  <2>3. RowsTyped(old)
    BY <1>2 DEF MetricsInv, CellsTyped
  <2> HIDE DEF old, row, x
  <2>4. RowsTyped(rows)
    <3>1. PICK S : old \in Seq(S)
      BY <2>3 DEF RowsTyped, IsSeq
    <3>2. old \in Seq(S \cup {row}) /\ row \in S \cup {row} /\ Len(old) \in Nat
      BY <3>1
    <3>3. /\ rows \in Seq(S \cup {row}) /\ Len(rows) = Len(old) + 1
          /\ \A i \in 1..Len(old) : rows[i] = old[i]
          /\ rows[Len(old) + 1] = row
      BY <3>2, AppendProperties
    <3> HIDE DEF rows
    <3>4. \A i \in 1..Len(rows) : i \in 1..Len(old) \/ i = Len(old) + 1
      BY <3>2, <3>3
    <3>5. \A i \in 1..Len(rows) : rows[i].key \in Repos /\ rows[i].run \in Runs
      BY <2>2, <2>3, <3>3, <3>4 DEF RowsTyped
    <3> QED
      BY <3>3, <3>5 DEF RowsTyped, IsSeq
  <2> HIDE DEF rows
  <2>5. DOMAIN cell = {"rows", "failed"} /\ cell.rows = rows
    BY <1>2
  <2> HIDE DEF cell
  <2>6. Keeps(x, e, RunnerMembers) /\ x.cells = cells
    BY <1>2, <2>1 DEF Keeps, RunnerMembers, Members
  <2>7. Able(x) /\ Celled(x) /\ x.projects = e.projects /\ MetricsInv(x) /\ c \in DOMAIN x.cells
    BY <1>2, <2>4, <2>5, <2>6, CellChanged
  <2>8. Carried(h, x)
    BY <1>1, <2>7, RunsCountedCarries
  <2> QED
    BY <2>7, <2>8 DEF Carried
<1> QED
  BY <1>3, <1>4

(* x is e with what a reply about runners changes. *)
Marked(x, e, r) ==
    \E ids, up, failed : x = [e EXCEPT !.runnerIds = ids, !.onlineIds = up, !.cells[r.cell].failed = failed]

(* The object marked failed keeps its rows. *)
LEMMA CellFailedTyped ==
  ASSUME NEW e, Able(e), Celled(e), IsList(e.projects), MetricsInv(e), NEW r, HasCell(e, r),
         NEW x, Marked(x, e, r)
  PROVE  Able(x) /\ Celled(x) /\ x.projects = e.projects /\ MetricsInv(x) /\ r.cell \in DOMAIN x.cells
<1>0. PICK ids, up, failed :
        x = [e EXCEPT !.runnerIds = ids, !.onlineIds = up, !.cells[r.cell].failed = failed]
  BY DEF Marked
<1> DEFINE c == r.cell
           cell == [e.cells[c] EXCEPT !.failed = failed]
           cells == [e.cells EXCEPT ![c] = cell]
<1>1. DOMAIN e = Members /\ c \in DOMAIN e.cells /\ DOMAIN e.cells[c] = {"rows", "failed"}
  BY DEF HasCell, Able
<1>2. x = [e EXCEPT !.runnerIds = ids, !.onlineIds = up, !.cells = cells]
  BY <1>0, <1>1 DEF Members
<1>3. DOMAIN cell = {"rows", "failed"} /\ cell.rows = e.cells[c].rows
  BY <1>1
<1>4. RowsTyped(cell.rows)
  BY <1>1, <1>3 DEF MetricsInv, CellsTyped
<1> HIDE DEF cell
<1>5. Keeps(x, e, RunnerMembers) /\ x.cells = cells
  BY <1>1, <1>2 DEF Keeps, RunnerMembers, Members
<1>6. c \in DOMAIN e.cells
  BY <1>1
<1> QED
  BY <1>3, <1>4, <1>5, <1>6, CellChanged

LEMMA RunsMissingCarries ==
  ASSUME NEW e, Able(e), Celled(e), IsList(e.projects), MetricsInv(e), NEW r, HasCell(e, r),
         NEW h, h = RunsMissing(e, r)
  PROVE  Carried(h, e)
<1> DEFINE x == [e EXCEPT !.cells[r.cell].failed = TRUE]
<1>1. h = RunsCounted(x, r.cell)
  BY DEF RunsMissing
<1>2. Marked(x, e, r)
  <2>1. x = [e EXCEPT !.runnerIds = e.runnerIds, !.onlineIds = e.onlineIds, !.cells[r.cell].failed = TRUE]
    BY DEF Able, Members
  <2> HIDE DEF x
  <2> QED
    BY <2>1 DEF Marked
<1> HIDE DEF x
<1>3. Able(x) /\ Celled(x) /\ x.projects = e.projects /\ MetricsInv(x) /\ r.cell \in DOMAIN x.cells
  BY <1>2, CellFailedTyped
<1>4. Carried(h, x)
  BY <1>1, <1>3, RunsCountedCarries
<1> QED
  BY <1>3, <1>4 DEF Carried

LEMMA RunnersCountedCarries ==
  ASSUME NEW x, Able(x), IsList(x.projects), MetricsInv(x), NEW c, NEW h, h = RunnersCounted(x, c)
  PROVE  Carried(h, x)
<1>1. DOMAIN x = Members /\ RequestsTyped(x)
  BY DEF Able, MetricsInv
<1> DEFINE t == [x EXCEPT !.pendingRunners = x.pendingRunners - 1]
           total == Cardinality(x.runnerIds)
           online == Cardinality(x.onlineIds)
           u == [t EXCEPT !.total = total, !.online = online]
<1>2. h = t \/ h = u
  BY DEF RunnersCounted
<1>3. /\ DOMAIN t = Members /\ t.cells = x.cells /\ t.projects = x.projects
      /\ t.active = x.active /\ t.queue = x.queue
  BY <1>1 DEF Members
<1> HIDE DEF t, total, online
<1>4. u.cells = x.cells /\ u.projects = x.projects /\ u.active = x.active /\ u.queue = x.queue
  BY <1>3 DEF Members
<1> HIDE DEF u
<1>5. h.cells = x.cells /\ h.projects = x.projects /\ h.active = x.active /\ h.queue = x.queue
  BY <1>2, <1>3, <1>4
<1>6. RequestsTyped(h)
  BY <1>1, <1>5 DEF RequestsTyped, Outstanding
<1> QED
  BY <1>5, <1>6, SameImproved, SameCarries

LEMMA RunnersCarry ==
  ASSUME NEW e, Able(e), Celled(e), IsList(e.projects), MetricsInv(e), NEW r, HasCell(e, r), NEW h,
         \/ h = RunnersMissing(e, r)
         \/ \E ids, up, valid : h = RunnersFound(e, r, ids, up, valid)
  PROVE  Carried(h, e)
<1>1. PICK ids, up, failed :
        h = RunnersCounted([e EXCEPT !.runnerIds = ids, !.onlineIds = up, !.cells[r.cell].failed = failed], r.cell)
  <2>1. CASE h = RunnersMissing(e, r)
    <3> DEFINE x == [e EXCEPT !.cells[r.cell].failed = TRUE]
               y == [e EXCEPT !.runnerIds = e.runnerIds, !.onlineIds = e.onlineIds,
                              !.cells[r.cell].failed = TRUE]
    <3>1. x = y
      BY DEF Able, Members
    <3>2. h = RunnersCounted(x, r.cell)
      BY <2>1 DEF RunnersMissing
    <3>3. h = RunnersCounted(y, r.cell)
      BY <3>1, <3>2
    <3> QED
      BY <3>3
  <2>2. CASE \E ids, up, valid : h = RunnersFound(e, r, ids, up, valid)
    <3>1. PICK ids, up, valid : h = RunnersFound(e, r, ids, up, valid)
      BY <2>2
    <3> DEFINE all == e.runnerIds \cup ids
               on == e.onlineIds \cup up
               failed == e.cells[r.cell].failed \/ ~valid
    <3>2. h = RunnersCounted([e EXCEPT !.runnerIds = all, !.onlineIds = on, !.cells[r.cell].failed = failed], r.cell)
      BY <3>1 DEF RunnersFound, Able, Members
    <3> HIDE DEF all, on, failed
    <3> QED
      BY <3>2
  <2> QED
    BY <2>1, <2>2
<1> DEFINE x == [e EXCEPT !.runnerIds = ids, !.onlineIds = up, !.cells[r.cell].failed = failed]
<1>2. Marked(x, e, r)
  BY DEF Marked
<1>3. h = RunnersCounted(x, r.cell)
  BY <1>1
<1> HIDE DEF x
<1>4. Able(x) /\ x.projects = e.projects /\ MetricsInv(x)
  BY <1>2, CellFailedTyped
<1>5. Carried(h, x)
  BY <1>3, <1>4, RunnersCountedCarries
<1> QED
  BY <1>4, <1>5 DEF Carried

LEMMA MetricCarries ==
  ASSUME NEW e, Able(e), IsList(e.projects), MetricsInv(e), NEW r, NEW h,
         h = JobsFound(e, r) \/ h = ArtifactsFound(e, r)
  PROVE  Carried(h, e)
<1>1. DOMAIN e = Members /\ RequestsTyped(e)
  BY DEF Able, MetricsInv
<1>2. ASSUME NEW metric \in {"jobs", "size"}, NEW m, m = WithMetric(e, r, metric),
             h = m \/ h = [m EXCEPT !.stages = [key |-> r.repo, run |-> r.run]]
      PROVE  Carried(h, e)
  <2>1. Improved(m.projects, e.projects)
    BY <1>1, <1>2, WithMetricImproves
  <2>2. Keeps(m, e, {"projects"})
    BY <1>1, <1>2, WithMetricEffect
  <2>3. DOMAIN m = Members /\ m.active = e.active /\ m.queue = e.queue /\ m.cells = e.cells
    BY <2>2 DEF Keeps, Members
  <2>4. h.active = e.active /\ h.queue = e.queue /\ h.cells = e.cells /\ h.projects = m.projects
    BY <1>2, <2>3 DEF Members
  <2>5. RequestsTyped(h)
    BY <1>1, <2>4 DEF RequestsTyped, Outstanding
  <2> QED
    BY <2>1, <2>4, <2>5, SameCarries
<1>3. CASE h = JobsFound(e, r)
  <2> DEFINE m == WithMetric(e, r, "jobs")
  <2>1. h = m \/ h = [m EXCEPT !.stages = [key |-> r.repo, run |-> r.run]]
    BY <1>3, Zenon DEF JobsFound
  <2> HIDE DEF m
  <2>2. m = WithMetric(e, r, "jobs")
    BY DEF m
  <2> QED
    BY <1>2, <2>1, <2>2
<1>4. CASE h = ArtifactsFound(e, r)
  BY <1>2, <1>4 DEF ArtifactsFound
<1> QED
  BY <1>3, <1>4

(* What neither shows nor collects nor asks for anything. *)
LEMMA IdleCarries ==
  ASSUME NEW e, IsList(e.projects), MetricsInv(e), NEW h, NEW F, Keeps(h, e, F),
         F \cap {"active", "queue", "cells", "projects"} = {}
  PROVE  Carried(h, e)
<1>1. h.active = e.active /\ h.queue = e.queue /\ h.cells = e.cells /\ h.projects = e.projects
  BY DEF Keeps, Members
<1>2. RequestsTyped(h)
  BY <1>1 DEF RequestsTyped, Outstanding, MetricsInv
<1> QED
  BY <1>1, <1>2, SameImproved, SameCarries

LEMMA StagesCarry ==
  ASSUME NEW e, Able(e), IsList(e.projects), MetricsInv(e), NEW r, NEW h,
         h = JobsInvalid(e, r) \/ h = JobsMissing(e, r) \/ h = e
  PROVE  Carried(h, e)
<1>1. h = e \/ h = [e EXCEPT !.stages = NothingShown]
  BY DEF JobsInvalid, JobsMissing
<1>2. Keeps(h, e, {"stages"})
  BY <1>1 DEF Keeps, Able
<1> QED
  BY <1>2, IdleCarries

LEMMA FailureCarries ==
  ASSUME NEW e, Able(e), IsList(e.projects), MetricsInv(e), NEW h, h = FailRefresh(e)
  PROVE  Carried(h, e)
<1>1. Keeps(h, e, {"counting", "stale", "state"})
  BY FailRefreshEffect DEF Able, Failed
<1> QED
  BY <1>1, IdleCarries

LEMMA InvalidCarries ==
  ASSUME NEW e, NEW r, Ready(e, r), MetricsInv(e), NEW h, h = AnswerInvalid(e, r)
  PROVE  Carried(h, e)
<1>1. /\ IsList(e.projects) /\ Able(e) /\ Celled(e)
      /\ r.kind \in {"runs", "runners"} => HasCell(e, r)
  BY DEF Ready
<1>2. CASE r.kind \in {"repos", "private"}
  <2>1. h = FailRefresh(e)
    BY <1>2 DEF AnswerInvalid
  <2> QED
    BY <1>1, <2>1, FailureCarries
<1>3. CASE r.kind = "runs"
  <2>1. h = RunsMissing(e, r)
    BY <1>3 DEF AnswerInvalid
  <2> QED
    BY <1>1, <1>3, <2>1, RunsMissingCarries
<1>4. CASE r.kind \notin {"repos", "private", "runs"}
  <2>1. h = JobsInvalid(e, r) \/ h = e
    BY <1>4 DEF AnswerInvalid
  <2> QED
    BY <1>1, <2>1, StagesCarry
<1> QED
  BY <1>2, <1>3, <1>4

LEMMA MissingCarries ==
  ASSUME NEW e, NEW r, Ready(e, r), MetricsInv(e), RequestTyped(r), NEW h, h = AnswerMissing(e, r)
  PROVE  Carried(h, e)
<1>1. /\ IsList(e.projects) /\ Able(e) /\ Celled(e)
      /\ r.kind \in {"runs", "runners"} => HasCell(e, r)
  BY DEF Ready
<1>2. CASE r.kind = "repos"
  <2>1. h = FailRefresh(e)
    BY <1>2 DEF AnswerMissing
  <2> QED
    BY <1>1, <2>1, FailureCarries
<1>3. CASE r.kind = "private"
  <2>1. h = LoadRuns(e, r.found) /\ r.found \in Seq(Repos)
    BY <1>3 DEF AnswerMissing, RequestTyped, Listings
  <2> QED
    BY <1>1, <2>1, LoadRunsCarries
<1>4. CASE r.kind = "runs"
  <2>1. h = RunsMissing(e, r)
    BY <1>4 DEF AnswerMissing
  <2> QED
    BY <1>1, <1>4, <2>1, RunsMissingCarries
<1>5. CASE r.kind = "runners"
  <2>1. h = RunnersMissing(e, r)
    BY <1>5 DEF AnswerMissing
  <2> QED
    BY <1>1, <1>5, <2>1, RunnersCarry
<1>6. CASE r.kind \notin {"repos", "private", "runs", "runners"}
  <2>1. h = JobsMissing(e, r) \/ h = e
    BY <1>6 DEF AnswerMissing
  <2> QED
    BY <1>1, <2>1, StagesCarry
<1> QED
  BY <1>2, <1>3, <1>4, <1>5, <1>6

LEMMA ListingCarries ==
  ASSUME NEW e, NEW r, Ready(e, r), MetricsInv(e), RequestTyped(r), NEW listed \in SUBSET Repos, NEW full,
         NEW h, \/ r.kind = "repos" /\ h = ReposFound(e, r, listed, full)
                \/ r.kind = "private" /\ h = PrivateReposFound(e, r, listed, full)
  PROVE  Carried(h, e)
<1>1. IsList(e.projects) /\ Able(e) /\ Celled(e)
  BY DEF Ready
<1>2. r.found \in Seq(Repos) /\ {"repos", "private"} = Listings
  BY DEF RequestTyped, Listings
<1>3. \E keys \in SUBSET Repos : \E page :
        LET found == r.found \o InKeyOrder(keys)
        IN  \/ h = Discover(e, "repos", page, found)
            \/ h = Discover(e, "private", page, found)
            \/ h = LoadRuns(e, found)
  <2>1. CASE r.kind = "repos" /\ h = ReposFound(e, r, listed, full)
    BY <2>1, Zenon DEF ReposFound
  <2>2. CASE r.kind = "private" /\ h = PrivateReposFound(e, r, listed, full)
    <3>1. listed \ ToSet(r.found) \in SUBSET Repos
      OBVIOUS
    <3> QED
      BY <2>2, <3>1, Zenon DEF PrivateReposFound
  <2> QED
    BY <2>1, <2>2
<1>4. PICK keys, page :
        LET found == r.found \o InKeyOrder(keys)
        IN  /\ keys \in SUBSET Repos
            /\ \/ h = Discover(e, "repos", page, found)
               \/ h = Discover(e, "private", page, found)
               \/ h = LoadRuns(e, found)
  BY <1>3
<1> DEFINE found == r.found \o InKeyOrder(keys)
<1>5. found \in Seq(Repos)
  BY <1>2, <1>4, InKeyOrderKeys, ConcatProperties
<1>6. \/ h = Discover(e, "repos", page, found)
      \/ h = Discover(e, "private", page, found)
      \/ h = LoadRuns(e, found)
  BY <1>4
<1> HIDE DEF found
<1> QED
  BY <1>1, <1>2, <1>5, <1>6, DiscoverCarries, LoadRunsCarries

LEMMA SettledCarries ==
  ASSUME NEW h, Able(h), Celled(h), NEW s, Carried(h, s), NEW g, g = Collected(StartRequests(h))
  PROVE  Carried(g, s)
<1> DEFINE t == StartRequests(h)
           cells == [c \in InUse(t) |-> t.cells[c]]
<1>1. Keeps(t, h, QueueMembers) /\ Adds(t, h, <<>>)
  BY StartRequestsEffect
<1>2. g = [t EXCEPT !.cells = cells]
  BY DEF Collected
<1> HIDE DEF t
<1>3. DOMAIN t = Members /\ t.cells = h.cells /\ t.projects = h.projects
  BY <1>1 DEF Keeps, QueueMembers, Members
<1>4. Outstanding(t) = Outstanding(h)
  BY <1>1, EmptyCount DEF Adds
<1>5. g.active = t.active /\ g.queue = t.queue /\ g.projects = h.projects /\ g.cells = cells
  BY <1>2, <1>3 DEF Members
<1>6. ASSUME NEW c \in InUse(t)
      PROVE  c \in DOMAIN h.cells
  <2>1. PICK q \in Outstanding(h) : q.kind \in {"runs", "runners"} /\ c = q.cell
    BY <1>4 DEF InUse
  <2> QED
    BY <2>1 DEF Celled, HasCell
<1>7. CellsTyped(g)
  BY <1>3, <1>5, <1>6 DEF CellsTyped, Carried, MetricsInv
<1>8. RequestsTyped(g)
  <2>1. Outstanding(g) = Outstanding(h)
    BY <1>4, <1>5 DEF Outstanding
  <2> QED
    BY <2>1 DEF RequestsTyped, Carried, MetricsInv
<1> QED
  BY <1>5, <1>7, <1>8 DEF Carried, MetricsInv

LEMMA EndedTyped ==
  ASSUME NEW s, Able(s), Celled(s), IsList(s.projects), MetricsInv(s), NEW e, NEW r, NEW delay,
         Ends(e, s, r, delay)
  PROVE  Ready(e, r) /\ MetricsInv(e) /\ RequestTyped(r) /\ e.projects = s.projects
<1>1. Ready(e, r) /\ e.projects = s.projects /\ e.cells = s.cells
  BY EndedIsReady
<1>2. Outstanding(s) = Outstanding(e) \cup {r}
  BY DEF Ends, Removes
<1>3. CellsTyped(e) /\ RequestsTyped(e) /\ RequestTyped(r)
  BY <1>1, <1>2 DEF MetricsInv, CellsTyped, RequestsTyped
<1> QED
  BY <1>1, <1>3 DEF MetricsInv

LEMMA AnsweredCarries ==
  ASSUME ProjectsInv, MetricsInv(service), NEW i \in 1..Len(service.active), Answered(i)
  PROVE  Carried(service', service)
<1> DEFINE r == service.active[i]
<1>1. ServiceInv(service, observed)
  BY DEF ProjectsInv
<1>2. /\ Able(service) /\ Celled(service) /\ IsList(service.projects)
      /\ service.interval \in Nat
  BY <1>1 DEF ServiceInv, PageHolds, TimerHolds
<1>3. ASSUME NEW e, NEW h, NEW missed, NEW delay, Ends(e, service, r, delay), Outcome(h, e, r, missed),
             Carried(h, e), Handled(h)
      PROVE  Carried(service', service)
  <2>1. Ready(e, r) /\ e.projects = service.projects
    BY <1>2, <1>3, EndedTyped
  <2>2. Able(h) /\ Celled(h)
    BY <1>3, <2>1, OutcomeIsAble
  <2>3. Carried(h, service)
    BY <1>3, <2>1 DEF Carried
  <2> DEFINE g == service'
  <2>4. g = Collected(StartRequests(h))
    BY <1>3 DEF Handled
  <2> HIDE DEF g
  <2>5. Carried(g, service)
    BY <2>2, <2>3, <2>4, SettledCarries
  <2> QED
    BY <2>5 DEF g
<1>4. Ends(Ended(i), service, r, 0)
  BY <1>1, <1>2, EndedEffect
<1> DEFINE e == Ended(i)
<1> HIDE DEF r, e
<1>5. Ends(e, service, r, 0)
  BY <1>4 DEF e
<1>6. Ready(e, r) /\ MetricsInv(e) /\ RequestTyped(r) /\ Able(e) /\ Celled(e) /\ IsList(e.projects)
  <2>1. Ready(e, r) /\ MetricsInv(e) /\ RequestTyped(r)
    BY <1>2, <1>5, EndedTyped
  <2> QED
    BY <2>1 DEF Ready
<1>7. CASE ReposAnswered(i) \/ PrivateReposAnswered(i)
  <2>1. PICK listed, full, h :
          /\ listed \in SUBSET Repos
          /\ \/ r.kind = "repos" /\ h = ReposFound(e, r, listed, full)
             \/ r.kind = "private" /\ h = PrivateReposFound(e, r, listed, full)
          /\ Handled(h)
    <3>1. \A found : Pages(found, PublicRepos) \subseteq SUBSET Repos /\ Pages(found, Repos) \subseteq SUBSET Repos
      BY DEF Pages, Repos
    <3> QED
      BY <1>7, <3>1 DEF ReposAnswered, PrivateReposAnswered, r, e
  <2>2. Outcome(h, e, r, {})
    BY <1>6, <2>1, ListingOutcome
  <2>3. Carried(h, e)
    BY <1>6, <2>1, ListingCarries
  <2> QED
    BY <1>3, <1>5, <2>1, <2>2, <2>3
<1>8. CASE RunsAnswered(i)
  <2>1. PICK run, h :
          run \in Runs \cup {NoRun} /\ r.kind = "runs" /\ h = RunsFound(e, r, run) /\ Handled(h)
    BY <1>8 DEF RunsAnswered, r, e
  <2>2. Outcome(h, e, r, {})
    BY <1>6, <2>1, RunsFoundOutcome
  <2>3. HasCell(e, r) /\ r.repo \in Repos
    BY <1>6, <2>1 DEF Ready, RequestTyped
  <2>4. Carried(h, e)
    BY <1>6, <2>1, <2>3, RunsFoundCarries
  <2> QED
    BY <1>3, <1>5, <2>1, <2>2, <2>4
<1>9. CASE RunnersAnswered(i)
  <2>1. PICK ids, up, valid, h : r.kind = "runners" /\ h = RunnersFound(e, r, ids, up, valid) /\ Handled(h)
    BY <1>9 DEF RunnersAnswered, r, e
  <2>2. Outcome(h, e, r, {})
    BY <1>6, <2>1, RunnersFoundOutcome
  <2>3. HasCell(e, r)
    BY <1>6, <2>1 DEF Ready
  <2>4. Carried(h, e)
    BY <1>6, <2>1, <2>3, RunnersCarry
  <2> QED
    BY <1>3, <1>5, <2>1, <2>2, <2>4
<1>10. CASE JobsAnswered(i)
  <2>1. PICK h : r.kind = "jobs" /\ h = JobsFound(e, r) /\ Handled(h)
    BY <1>10 DEF JobsAnswered, r, e
  <2>2. Outcome(h, e, r, {})
    BY <1>6, <2>1, JobsFoundOutcome
  <2>3. Carried(h, e)
    BY <1>6, <2>1, MetricCarries
  <2> QED
    BY <1>3, <1>5, <2>1, <2>2, <2>3
<1>11. CASE ArtifactsAnswered(i)
  <2>1. PICK h : r.kind = "artifacts" /\ h = ArtifactsFound(e, r) /\ Handled(h)
    BY <1>11 DEF ArtifactsAnswered, r, e
  <2>2. Outcome(h, e, r, {})
    BY <1>6, <2>1, ArtifactsFoundOutcome
  <2>3. Carried(h, e)
    BY <1>6, <2>1, MetricCarries
  <2> QED
    BY <1>3, <1>5, <2>1, <2>2, <2>3
<1>12. CASE AnsweredInvalidly(i)
  <2>1. PICK h : h = AnswerInvalid(e, r) /\ Handled(h)
    BY <1>12 DEF AnsweredInvalidly, r, e
  <2>2. Outcome(h, e, r, Spoiled(r))
    BY <1>6, <2>1, InvalidOutcome
  <2>3. Carried(h, e)
    BY <1>6, <2>1, InvalidCarries
  <2> QED
    BY <1>3, <1>5, <2>1, <2>2, <2>3
<1>13. CASE AnsweredUnreadably(i)
  <2>1. PICK h : h = AnswerMissing(e, r) /\ Handled(h)
    BY <1>13 DEF AnsweredUnreadably, r, e
  <2>2. Outcome(h, e, r, Lacking(r))
    BY <1>6, <2>1, MissingOutcome
  <2>3. Carried(h, e)
    BY <1>6, <2>1, MissingCarries
  <2> QED
    BY <1>3, <1>5, <2>1, <2>2, <2>3
<1>14. CASE RequestFailed(i)
  <2>1. PICK delay \in Delays :
          LET longest == IF delay > service.interval THEN delay ELSE service.interval
              limited == IF delay > 0 THEN SetInterval(e, longest) ELSE e
          IN  Handled(AnswerMissing(limited, r))
    BY <1>14 DEF RequestFailed, r, e
  <2> DEFINE longest == IF delay > service.interval THEN delay ELSE service.interval
             limited == IF delay > 0 THEN SetInterval(e, longest) ELSE e
             h == AnswerMissing(limited, r)
  <2>2. Handled(h)
    BY <2>1
  <2>3. delay \in Nat
    BY <2>1, SizesAreNumbers
  <2>4. longest \in Nat /\ longest >= delay /\ longest >= service.interval
    BY <1>2, <2>3
  <2> HIDE DEF longest
  <2>5. Ends(limited, service, r, delay)
    BY <1>1, <2>3, <2>4, EndedEffect DEF r, e
  <2> HIDE DEF limited
  <2>6. Ready(limited, r) /\ MetricsInv(limited) /\ RequestTyped(r)
    BY <1>2, <2>5, EndedTyped
  <2>7. Outcome(h, limited, r, Lacking(r))
    BY <2>6, MissingOutcome
  <2>8. Carried(h, limited)
    BY <2>6, MissingCarries
  <2> HIDE DEF h
  <2> QED
    BY <1>3, <2>2, <2>5, <2>7, <2>8
<1> QED
  BY <1>7, <1>8, <1>9, <1>10, <1>11, <1>12, <1>13, <1>14 DEF Answered

LEMMA RefreshCarries ==
  ASSUME NEW s, Able(s), IsList(s.projects), MetricsInv(s), NEW h, h = Refresh(s)
  PROVE  Carried(h, s)
<1> DEFINE x == [s EXCEPT !.count = 0, !.counting = TRUE, !.state = "loading"]
<1>1. h = s \/ h = Discover(x, "repos", 1, <<>>)
  BY DEF Refresh
<1>2. DOMAIN s = Members
  BY DEF Able
<1>3. CASE h = s
  <2>1. Keeps(h, s, {})
    BY <1>2, <1>3 DEF Keeps
  <2> QED
    BY <2>1, IdleCarries
<1>4. CASE h = Discover(x, "repos", 1, <<>>)
  <2>1. /\ DOMAIN x = Members /\ x.active = s.active /\ x.queue = s.queue /\ x.count = 0
        /\ x.cells = s.cells /\ x.projects = s.projects
    BY <1>2 DEF Members
  <2> HIDE DEF x
  <2>2. Able(x)
    BY <2>1 DEF Able
  <2>3. MetricsInv(x)
    BY <2>1 DEF MetricsInv, CellsTyped, RequestsTyped, Outstanding
  <2>4. "repos" \in Listings /\ <<>> \in Seq(Repos)
    BY EmptySeq DEF Listings
  <2>5. Carried(h, x)
    BY <1>4, <2>1, <2>2, <2>3, <2>4, DiscoverCarries
  <2> QED
    BY <2>1, <2>5 DEF Carried
<1> QED
  BY <1>1, <1>3, <1>4

LEMMA StepCarries ==
  ASSUME ProjectsInv, MetricsInv(service), [ProjectsNext]_projectsVars
  PROVE  Carried(service', service)
<1>1. /\ DOMAIN service = Members /\ Able(service) /\ Celled(service) /\ IsList(service.projects)
      /\ RequestsTyped(service)
  BY DEF ProjectsInv, ServiceInv, Able, PageHolds, MetricsInv
<1> DEFINE g == service'
<1>2. ASSUME NEW i \in 1..Len(service.active), Answered(i)
      PROVE  Carried(g, service)
  BY <1>2, AnsweredCarries
<1>3. CASE PollTimer
  <2> DEFINE x == [service EXCEPT !.pollLeft = service.interval]
  <2>1. g = Refresh(x)
    BY <1>3 DEF PollTimer
  <2>2. /\ DOMAIN x = Members /\ x.active = service.active /\ x.queue = service.queue
        /\ x.count = service.count /\ x.cells = service.cells /\ x.projects = service.projects
    BY <1>1 DEF Members
  <2> HIDE DEF x, g
  <2>3. Able(x) /\ MetricsInv(x)
    BY <1>1, <2>2 DEF Able, MetricsInv, CellsTyped, RequestsTyped, Outstanding
  <2>4. Carried(g, x)
    BY <1>1, <2>1, <2>2, <2>3, RefreshCarries
  <2>5. Carried(g, service)
    BY <2>2, <2>4 DEF Carried
  <2> QED
    BY <2>5 DEF g
<1>4. ASSUME NEW index, SelectProject(index)
      PROVE  Carried(g, service)
  <2> DEFINE key == service.projects[index].key
             x == [service EXCEPT !.selectedIndex = index, !.selectedKey = key]
  <2>1. g = LoadSelectedDetails(x)
    BY <1>4 DEF SelectProject
  <2> HIDE DEF key
  <2>2. /\ DOMAIN x = Members /\ x.active = service.active /\ x.queue = service.queue
        /\ x.count = service.count /\ x.cells = service.cells /\ x.projects = service.projects
    BY <1>1 DEF Members
  <2> HIDE DEF x, g
  <2>3. Able(x) /\ Outstanding(x) = Outstanding(service)
    BY <1>1, <2>2, SameQueue
  <2>4. Celled(x) /\ RequestsTyped(x)
    BY <1>1, <2>2, <2>3 DEF Celled, HasCell, RequestsTyped
  <2>5. Keeps(g, x, QueueMembers \cup {"stages", "history"}) /\ Grows(g, x)
    BY <2>1, <2>3, <2>4, LoadSelectedDetailsEffect
  <2>6. g.cells = service.cells /\ g.projects = service.projects
    BY <2>2, <2>5 DEF Keeps, QueueMembers, Members
  <2>7. RequestsTyped(g)
    BY <2>4, <2>5, GrowsTyped
  <2> QED
    BY <1>1, <2>6, <2>7, SameImproved, SameCarries
<1>5. CASE Clock
  <2>1. g = [service EXCEPT !.pollLeft = service.pollLeft - 1]
    BY <1>5 DEF Clock
  <2> HIDE DEF g
  <2>2. Keeps(g, service, {"pollLeft"})
    BY <1>1, <2>1 DEF Keeps
  <2>3. Carried(g, service)
    BY <1>1, <2>2, IdleCarries
  <2> QED
    BY <2>3 DEF g
<1>6. CASE UNCHANGED projectsVars
  <2>1. g = service
    BY <1>6 DEF projectsVars
  <2> HIDE DEF g
  <2>2. Keeps(g, service, {})
    BY <1>1, <2>1 DEF Keeps
  <2>3. Carried(g, service)
    BY <1>1, <2>2, IdleCarries
  <2> QED
    BY <2>3 DEF g
<1> QED
  BY <1>2, <1>3, <1>4, <1>5, <1>6 DEF ProjectsNext

LEMMA InitTyped ==
  ASSUME ProjectsInit
  PROVE  MetricsInv(service)
<1>1. PICK token \in Tokens : service = Refresh(Constructed(token))
  BY DEF ProjectsInit
<1> DEFINE s == Constructed(token)
           interval == PollInterval(token, 0)
<1>2. /\ DOMAIN s = Members /\ s.active = <<>> /\ s.queue = <<>> /\ s.count = 0
      /\ s.projects = <<>> /\ s.cells = <<>>
  <2> HIDE DEF interval
  <2> QED
    BY DEF Constructed, Members, interval
<1> HIDE DEF s
<1>3. Len(<<>>) = 0 /\ MaxConcurrent \in Nat /\ DOMAIN <<>> = {}
  BY SizesAreNumbers
<1>4. Able(s)
  BY <1>2, <1>3, EmptyCount DEF Able
<1>5. IsList(s.projects) /\ RunsShown(s.projects)
  BY <1>2, <1>3, EmptyCount DEF IsList, RunsShown
<1>6. CellsTyped(s)
  BY <1>2, <1>3 DEF CellsTyped
<1>7. RequestsTyped(s)
  BY <1>2, EmptyCount DEF RequestsTyped, Outstanding
<1>8. service = Refresh(s)
  BY <1>1 DEF s
<1>9. Carried(service, s)
  BY <1>4, <1>5, <1>6, <1>7, <1>8, RefreshCarries DEF MetricsInv
<1> QED
  BY <1>9 DEF Carried

\* However late the replies of a refresh, of its details or of a former selection come, a project
\* that still shows the same run keeps the metrics loaded for it.
THEOREM ProjectsMetricsStay == ProjectsSafety => MetricsStay
<1> DEFINE Typed == MetricsInv(service)
           Kept ==
             \A i \in 1..Len(service.projects), j \in 1..Len(service'.projects) :
                 LET old == service.projects[i]
                     new == service'.projects[j]
                 IN  (/\ old.key = new.key /\ old.run = new.run
                      /\ Cardinality(RowsOf(service.projects, old.key)) = 1)
                     => /\ old.jobs = old.run => new.jobs = old.run
                        /\ old.size = old.run => new.size = old.run
<1>1. ProjectsInit => Typed
  BY InitTyped
<1>2. ASSUME ProjectsInv, Typed, [ProjectsNext]_projectsVars
      PROVE  Typed' /\ Kept
  <2>1. Carried(service', service)
    BY <1>2, StepCarries
  <2>2. MetricsKept(service.projects, service'.projects)
    BY <2>1 DEF Carried
  <2> QED
    BY <2>1, <2>2 DEF Carried, MetricsKept
<1>3. ProjectsInv /\ Typed /\ [ProjectsNext]_projectsVars => Typed' /\ [Kept]_projectsVars
  BY <1>2
<1> QED
  BY <1>1, <1>3, ProjectsInvariant, PTL DEF ProjectsSafety, MetricsStay
=============================================================================
