----------------------------- MODULE BusProofs ------------------------------
(***************************************************************************)
(* Proofs about EventBus, for any number of requests, keys, types and      *)
(* events, and for every ttl, capacity, ring size and filter.              *)
(*                                                                         *)
(* DeliveredOnce is not inductive: an event a request has made and not yet *)
(* published must be nobody else's and not be in the ring or on the bus    *)
(* (Stamped), what the bus has not fanned out must be the end of what was  *)
(* published (Queued), and the ring must hold each event as often as the   *)
(* bus and the ingest pushed it (Carried).  Nor is DuplicatesCaught: an    *)
(* acceptance of the last ttl must be in the store still, or the store     *)
(* have filled up since (Remembered), and what the store holds must be an  *)
(* acceptance (Backed), or the eviction could not be counted.              *)
(***************************************************************************)
EXTENDS EventBus, FiniteSetTheorems, TLAPS

(* Facts about the operators on sequences.                                  *)

LEMMA LastFacts ==
    ASSUME NEW S, NEW s \in Seq(S), NEW n \in Nat
    PROVE  /\ Last(s, n) \in Seq(S)
           /\ Len(Last(s, n)) = IF Len(s) <= n THEN Len(s) ELSE n
           /\ \A i \in 1 .. Len(Last(s, n)) : Last(s, n)[i] = s[Len(s) - Len(Last(s, n)) + i]
<1>1. CASE Len(s) <= n
  BY <1>1 DEF Last
<1>2. CASE ~(Len(s) <= n)
  <2>1. Last(s, n) = SubSeq(s, Len(s) - n + 1, Len(s))
    BY <1>2 DEF Last
  <2> QED
    BY <1>2, <2>1
<1> QED
  BY <1>1, <1>2

(* Keeping the last n and appending keeps the last n of all.                *)
LEMMA LastAppend ==
    ASSUME NEW S, NEW s \in Seq(S), NEW e \in S, NEW n \in Nat
    PROVE  Last(Append(Last(s, n), e), n) = Last(Append(s, e), n)
<1> DEFINE l == Last(s, n)
<1>1. /\ l \in Seq(S) /\ Len(l) = IF Len(s) <= n THEN Len(s) ELSE n
      /\ \A i \in 1 .. Len(l) : l[i] = s[Len(s) - Len(l) + i]
  BY LastFacts
<1> HIDE DEF l
<1> DEFINE p == Append(l, e)
           q == Append(s, e)
<1>2. /\ p \in Seq(S) /\ Len(p) = Len(l) + 1 /\ p[Len(l) + 1] = e
      /\ \A i \in 1 .. Len(l) : p[i] = l[i]
  BY <1>1
<1>3. /\ q \in Seq(S) /\ Len(q) = Len(s) + 1 /\ q[Len(s) + 1] = e
      /\ \A i \in 1 .. Len(s) : q[i] = s[i]
  OBVIOUS
<1> HIDE DEF p, q
<1> DEFINE a == Last(p, n)
           b == Last(q, n)
<1>4. /\ a \in Seq(S) /\ Len(a) = IF Len(p) <= n THEN Len(p) ELSE n
      /\ \A i \in 1 .. Len(a) : a[i] = p[Len(p) - Len(a) + i]
  <2>1. p \in Seq(S)
    BY <1>2
  <2> QED
    BY <2>1, LastFacts
<1>5. /\ b \in Seq(S) /\ Len(b) = IF Len(q) <= n THEN Len(q) ELSE n
      /\ \A i \in 1 .. Len(b) : b[i] = q[Len(q) - Len(b) + i]
  BY <1>3, LastFacts
<1> HIDE DEF a, b
<1>6. Len(l) \in Nat /\ Len(s) \in Nat /\ Len(a) \in Nat
  BY <1>1, <1>4
<1>7. Len(a) = Len(b) /\ Len(a) <= Len(l) + 1 /\ Len(l) <= Len(s)
  BY <1>1, <1>2, <1>3, <1>4, <1>5, <1>6
<1>8. ASSUME NEW i \in 1 .. Len(a) PROVE a[i] = b[i]
  <2> DEFINE x == Len(l) + 1 - Len(a) + i
             y == Len(s) + 1 - Len(a) + i
  <2>1. a[i] = p[x] /\ b[i] = q[y]
    <3>1. Len(p) - Len(a) + i = x /\ Len(q) - Len(b) + i = y
      BY <1>2, <1>3, <1>6, <1>7
    <3> QED
      BY Zenon, <1>4, <1>5, <1>7, <3>1
  <2>2. CASE i = Len(a)
    <3>1. x = Len(l) + 1 /\ y = Len(s) + 1
      BY <1>6, <2>2
    <3> QED
      BY <1>2, <1>3, <2>1, <3>1
  <2>3. CASE i # Len(a)
    <3>1. x \in 1 .. Len(l) /\ y \in 1 .. Len(s) /\ Len(s) - Len(l) + x = y
      BY <1>6, <1>7, <2>3
    <3>2. a[i] = l[x] /\ b[i] = s[y]
      BY Zenon, <1>2, <1>3, <2>1, <3>1
    <3> QED
      BY Zenon, <1>1, <3>1, <3>2
  <2> QED
    BY <2>2, <2>3
<1>9. a = b
  BY <1>4, <1>5, <1>7, <1>8
<1> QED
  BY <1>9 DEF a, b, p, q, l

(* Sequences that agree at every place are the same sequence.              *)
LEMMA SameSeq ==
    ASSUME NEW S, NEW s \in Seq(S), NEW t \in Seq(S),
           Len(s) = Len(t), \A i \in 1 .. Len(s) : s[i] = t[i]
    PROVE  s = t
OBVIOUS

LEMMA PrefixFacts ==
    ASSUME NEW S, NEW s \in Seq(S), NEW n \in 0 .. Len(s)
    PROVE  /\ SubSeq(s, 1, n) \in Seq(S) /\ Len(SubSeq(s, 1, n)) = n
           /\ \A i \in 1 .. n : SubSeq(s, 1, n)[i] = s[i]
           /\ \A e \in S : SubSeq(Append(s, e), 1, n) = SubSeq(s, 1, n)
           /\ n < Len(s) => SubSeq(s, 1, n + 1) = Append(SubSeq(s, 1, n), s[n + 1])
<1> DEFINE p == SubSeq(s, 1, n)
<1>1. p \in Seq(S) /\ Len(p) = n /\ \A i \in 1 .. n : p[i] = s[i]
  OBVIOUS
<1>2. ASSUME NEW e \in S PROVE SubSeq(Append(s, e), 1, n) = p
  <2> DEFINE q == SubSeq(Append(s, e), 1, n)
  <2>1. q \in Seq(S) /\ Len(q) = n /\ \A i \in 1 .. n : q[i] = s[i]
    OBVIOUS
  <2> HIDE DEF p, q
  <2>2. q = p
    BY <1>1, <2>1, SameSeq
  <2> QED
    BY <2>2 DEF q
<1>3. ASSUME n < Len(s) PROVE SubSeq(s, 1, n + 1) = Append(p, s[n + 1])
  <2> DEFINE q == SubSeq(s, 1, n + 1)
             a == Append(p, s[n + 1])
  <2>1. q \in Seq(S) /\ Len(q) = n + 1 /\ \A i \in 1 .. n + 1 : q[i] = s[i]
    BY <1>3
  <2>2. s[n + 1] \in S
    BY <1>3
  <2> HIDE DEF p
  <2>3. a \in Seq(S) /\ Len(a) = n + 1 /\ \A i \in 1 .. n + 1 : a[i] = s[i]
    BY <1>1, <2>2
  <2> HIDE DEF q, a
  <2>4. q = a
    BY <2>1, <2>3, SameSeq
  <2> QED
    BY <2>4 DEF q, a
<1> QED
  BY <1>1, <1>2, <1>3

(* RecentEventsStore.push keeps the newest n, newest first.                 *)
LEMMA PushFacts ==
    ASSUME NEW S, NEW s \in Seq(S), NEW e \in S, NEW n \in Nat
    PROVE  First(<<e>> \o Newest(s, n), n) = Newest(Append(s, e), n)
<1> DEFINE r == Newest(s, n)
           q == Append(s, e)
           p == <<e>> \o r
<1>1. Len(s) \in Nat /\ Len(Last(s, n)) = IF Len(s) <= n THEN Len(s) ELSE n
  BY LastFacts
<1>2. r \in Seq(S) /\ Len(r) = Len(Last(s, n)) /\ \A i \in 1 .. Len(r) : r[i] = s[Len(s) - i + 1]
  <2>1. \A i \in 1 .. Len(Last(s, n)) : s[Len(s) - i + 1] \in S
    BY <1>1
  <2> QED
    BY <1>1, <2>1 DEF Newest
<1>3. /\ q \in Seq(S) /\ Len(q) = Len(s) + 1 /\ q[Len(s) + 1] = e
      /\ \A i \in 1 .. Len(s) : q[i] = s[i]
  OBVIOUS
<1>4. Len(Last(q, n)) = IF Len(q) <= n THEN Len(q) ELSE n
  BY Zenon, <1>3, LastFacts
<1> HIDE DEF r, q
<1>5. /\ p \in Seq(S) /\ Len(p) = Len(r) + 1 /\ p[1] = e
      /\ \A i \in 2 .. Len(p) : p[i] = r[i - 1]
  BY <1>2
<1> HIDE DEF p
<1>6. /\ First(p, n) \in Seq(S) /\ Len(First(p, n)) = IF Len(p) <= n THEN Len(p) ELSE n
      /\ \A i \in 1 .. Len(First(p, n)) : First(p, n)[i] = p[i]
  BY <1>5 DEF First
<1>7. Len(First(p, n)) = Len(Last(q, n))
  BY <1>1, <1>2, <1>3, <1>4, <1>5, <1>6
<1>8. ASSUME NEW i \in 1 .. Len(Last(q, n)) PROVE First(p, n)[i] = q[Len(q) - i + 1]
  <2>1. CASE i = 1
    BY <1>1, <1>3, <1>5, <1>6, <1>7, <2>1
  <2>2. CASE i # 1
    <3>1. i - 1 \in 1 .. Len(r) /\ Len(q) - i + 1 \in 1 .. Len(s) /\ i \in 2 .. Len(p)
          /\ Len(s) - (i - 1) + 1 = Len(q) - i + 1
      BY <1>1, <1>2, <1>3, <1>4, <1>5, <2>2
    <3> QED
      BY ZenonT(60), <1>2, <1>3, <1>5, <1>6, <1>7, <3>1
  <2> QED
    BY <2>1, <2>2
<1>9. Newest(q, n) \in Seq(S) /\ Len(Newest(q, n)) = Len(Last(q, n))
      /\ \A i \in 1 .. Len(Last(q, n)) : Newest(q, n)[i] = q[Len(q) - i + 1]
  <2>1. \A i \in 1 .. Len(Last(q, n)) : q[Len(q) - i + 1] \in S
    BY <1>1, <1>3, <1>4
  <2> QED
    BY <1>1, <1>3, <1>4, <2>1 DEF Newest
<1>10. First(p, n) = Newest(q, n)
  BY <1>6, <1>7, <1>8, <1>9
<1> QED
  BY <1>10 DEF p, q, r

LEMMA PlacesFinite ==
    ASSUME NEW S, NEW s \in Seq(S), NEW e
    PROVE  IsFiniteSet({i \in DOMAIN s : s[i] = e})
<1>1. Len(s) \in Nat /\ DOMAIN s = 1 .. Len(s)
  OBVIOUS
<1>2. IsFiniteSet(1 .. Len(s))
  BY <1>1, FS_Interval
<1>3. {i \in DOMAIN s : s[i] = e} \subseteq 1 .. Len(s)
  BY <1>1
<1> QED
  BY <1>2, <1>3, FS_Subset

LEMMA OccurrencesFacts ==
    ASSUME NEW S, NEW s \in Seq(S), NEW e
    PROVE  /\ Occurrences(s, e) \in Nat
           /\ (\A i \in 1 .. Len(s) : s[i] # e) => Occurrences(s, e) = 0
<1> DEFINE A == {i \in DOMAIN s : s[i] = e}
<1>1. (\A i \in 1 .. Len(s) : s[i] # e) => A = {}
  OBVIOUS
<1>2. IsFiniteSet(A)
  BY Zenon, PlacesFinite
<1>3. Occurrences(s, e) = Cardinality(A)
  BY DEF Occurrences
<1> HIDE DEF A
<1>4. Cardinality(A) \in Nat
  BY <1>2, FS_CardinalityType
<1> QED
  BY Zenon, <1>1, <1>3, <1>4, FS_EmptySet

(* Appending adds to the occurrences of what is appended.                   *)
LEMMA OccurrencesAppend ==
    ASSUME NEW S, NEW s \in Seq(S), NEW x \in S, NEW e
    PROVE  Occurrences(Append(s, x), e) = Occurrences(s, e) + (IF x = e THEN 1 ELSE 0)
<1> DEFINE A == {i \in DOMAIN s : s[i] = e}
           B == {i \in DOMAIN Append(s, x) : Append(s, x)[i] = e}
<1>1. IsFiniteSet(A)
  BY Zenon, PlacesFinite
<1>2. B = A \cup (IF x = e THEN {Len(s) + 1} ELSE {}) /\ Len(s) + 1 \notin A
  <2>1. /\ DOMAIN Append(s, x) = 1 .. Len(s) + 1 /\ Append(s, x)[Len(s) + 1] = x
        /\ \A i \in 1 .. Len(s) : Append(s, x)[i] = s[i]
        /\ DOMAIN s = 1 .. Len(s) /\ Len(s) \in Nat
    OBVIOUS
  <2> QED
    BY <2>1
<1> HIDE DEF A, B
<1>3. Cardinality(A) \in Nat
  BY <1>1, FS_CardinalityType
<1>4. Cardinality(B) = Cardinality(A) + (IF x = e THEN 1 ELSE 0)
  <2>1. CASE x = e
    <3>1. B = A \cup {Len(s) + 1} /\ Len(s) + 1 \notin A
      BY <1>2, <2>1
    <3>2. Cardinality(A \cup {Len(s) + 1}) = Cardinality(A) + 1
      BY Zenon, <1>1, <3>1, FS_AddElement
    <3> QED
      BY <2>1, <3>1, <3>2
  <2>2. CASE x # e
    BY <1>2, <1>3, <2>2
  <2> QED
    BY <2>1, <2>2
<1> QED
  BY Zenon, <1>4 DEF Occurrences, A, B
-----------------------------------------------------------------------------
(***************************************************************************)
(* Delivery: whatever requests, ingests, audits and tasks interleave.      *)
(***************************************************************************)

BusShape ==
    /\ now \in Nat /\ made \in Nat
    /\ work \in [Workers -> Work \cup {NoWork}]
    /\ ready \in Seq(Event) /\ logged \in Seq(Event)
    /\ published \in Seq(Event) /\ shown \in Seq(Event)

(* What is ready is the end of what was published.                          *)
Queued ==
    /\ Len(ready) <= Len(published)
    /\ \A i \in 1 .. Len(ready) : ready[i] = published[Len(published) - Len(ready) + i]

Busy(w) == work[w].pc # "idle"

(* An event is one request's until it is published or pushed, and an id is  *)
(* one event's.                                                             *)
Stamped ==
    /\ \A i \in 1 .. Len(shown) : shown[i].id <= made
    /\ \A i \in 1 .. Len(published) : published[i].id <= made /\ published[i].source # "admin"
    /\ \A w \in Workers : Busy(w) =>
          /\ work[w].event.id <= made
          /\ work[w].event.source = IF work[w].pc = "emit" THEN "handler" ELSE "admin"
    /\ \A v, w \in Workers :
          v # w /\ Busy(v) /\ Busy(w) => work[v].event.id # work[w].event.id
    /\ \A w \in Workers : work[w].pc = "emit" =>
          /\ \A i \in 1 .. Len(shown) : shown[i].id # work[w].event.id
          /\ \A i \in 1 .. Len(published) : published[i].id # work[w].event.id

(* The ring holds e as often as the bus has carried it, and once more if it *)
(* was ingested.                                                            *)
Balanced(ring, out, e) ==
    Occurrences(ring, e) = Occurrences(out, e) + (IF e.source = "ingest" THEN 1 ELSE 0)

Carried ==
    /\ logged = Last(FannedOut, MaxLogged)
    /\ recent = Newest(shown, Capacity)
    /\ \A i \in 1 .. Len(published) : Balanced(shown, FannedOut, published[i])

DeliveryInv == BusShape /\ Queued /\ Stamped /\ Carried

(* What RecentEventsStore.push does to the ring.                            *)
LEMMA ShowFacts ==
    ASSUME BusShape, Carried, NEW e \in Event, Show(e)
    PROVE  /\ shown' \in Seq(Event) /\ recent' = Newest(shown', Capacity)
           /\ \A i \in 1 .. Len(shown') :
                 shown'[i] = e \/ \E j \in 1 .. Len(shown) : shown'[i] = shown[j]
           /\ \A x : /\ Occurrences(shown, x) \in Nat
                     /\ Occurrences(shown', x) = Occurrences(shown, x) + (IF e = x THEN 1 ELSE 0)
<1>1. shown' = Append(shown, e) /\ recent' = First(<<e>> \o Newest(shown, Capacity), Capacity)
  BY DEF Show, Push, Carried
<1>2. shown \in Seq(Event) /\ Capacity \in Nat
  BY BusAssumption DEF BusShape
<1>3. /\ Append(shown, e) \in Seq(Event) /\ Len(Append(shown, e)) = Len(shown) + 1
      /\ Append(shown, e)[Len(shown) + 1] = e /\ Len(shown) \in Nat
      /\ \A i \in 1 .. Len(shown) : Append(shown, e)[i] = shown[i]
  BY <1>2
<1>4. recent' = Newest(shown', Capacity)
  BY Zenon, <1>1, <1>2, PushFacts
<1>5. ASSUME NEW x
      PROVE  /\ Occurrences(shown, x) \in Nat
             /\ Occurrences(shown', x) = Occurrences(shown, x) + (IF e = x THEN 1 ELSE 0)
  <2>1. Occurrences(shown, x) \in Nat
    BY <1>2, OccurrencesFacts
  <2>2. Occurrences(Append(shown, e), x) = Occurrences(shown, x) + (IF e = x THEN 1 ELSE 0)
    BY <1>2, OccurrencesAppend
  <2> QED
    BY Zenon, <1>1, <2>1, <2>2 DEF Occurrences
<1>6. ASSUME NEW i \in 1 .. Len(shown')
      PROVE  shown'[i] = e \/ \E j \in 1 .. Len(shown) : shown'[i] = shown[j]
  BY <1>1, <1>3
<1> QED
  BY <1>1, <1>3, <1>4, <1>5, <1>6

(* The tasks that have run, as a sequence.                                  *)
LEMMA FannedOutFacts ==
    ASSUME BusShape, Queued
    PROVE  /\ FannedOut \in Seq(Event) /\ Len(FannedOut) = Len(published) - Len(ready)
           /\ \A i \in 1 .. Len(FannedOut) : FannedOut[i] = published[i]
           /\ Len(published) \in Nat /\ Len(ready) \in Nat
           /\ Len(FannedOut) \in Nat
           /\ \A x : Occurrences(FannedOut, x) \in Nat
<1>1. Len(published) - Len(ready) \in 0 .. Len(published) /\ published \in Seq(Event)
      /\ Len(published) \in Nat /\ Len(ready) \in Nat
  BY DEF BusShape, Queued
<1>2. /\ FannedOut \in Seq(Event) /\ Len(FannedOut) = Len(published) - Len(ready)
      /\ \A i \in 1 .. Len(FannedOut) : FannedOut[i] = published[i]
  BY <1>1, PrefixFacts DEF FannedOut
<1>3. ASSUME NEW x PROVE Occurrences(FannedOut, x) \in Nat
  BY <1>2, OccurrencesFacts
<1> QED
  BY <1>1, <1>2, <1>3

LEMMA PublishFacts ==
    ASSUME BusShape, Queued, NEW e \in Event, Publish(e)
    PROVE  /\ ready' \in Seq(Event) /\ published' \in Seq(Event) /\ Queued'
           /\ FannedOut' = FannedOut
           /\ \A i \in 1 .. Len(published') :
                 published'[i] = e \/ \E j \in 1 .. Len(published) : published'[i] = published[j]
<1>1. CASE UNCHANGED <<ready, published>>
  BY <1>1 DEF BusShape, Queued, FannedOut
<1>2. CASE ready' = Append(ready, e) /\ published' = Append(published, e)
  <2>1. /\ ready' \in Seq(Event) /\ Len(ready') = Len(ready) + 1 /\ ready'[Len(ready) + 1] = e
        /\ \A i \in 1 .. Len(ready) : ready'[i] = ready[i]
    BY <1>2 DEF BusShape
  <2>2. /\ published' \in Seq(Event) /\ Len(published') = Len(published) + 1
        /\ published'[Len(published) + 1] = e
        /\ \A i \in 1 .. Len(published) : published'[i] = published[i]
    BY <1>2 DEF BusShape
  <2>3. /\ Len(published) \in Nat /\ Len(ready) \in Nat /\ Len(ready) <= Len(published)
        /\ Len(published') - Len(ready') = Len(published) - Len(ready)
    BY <2>1, <2>2 DEF BusShape, Queued
  <2>4. Queued'
    <3> DEFINE n == Len(published) - Len(ready)
    <3>1. ASSUME NEW i \in 1 .. Len(ready') PROVE ready'[i] = published'[n + i]
      <4>1. CASE i = Len(ready) + 1
        BY <2>1, <2>2, <2>3, <4>1
      <4>2. CASE i \in 1 .. Len(ready)
        <5>1. n + i \in 1 .. Len(published) /\ ready[i] = published[n + i]
          BY <2>3, <4>2 DEF Queued
        <5> QED
          BY Zenon, <2>1, <2>2, <4>2, <5>1
      <4> QED
        BY <2>1, <2>3, <4>1, <4>2
    <3> QED
      BY <2>1, <2>2, <2>3, <3>1 DEF Queued
  <2>5. FannedOut' = FannedOut
    <3>1. Len(published) - Len(ready) \in 0 .. Len(published) /\ published \in Seq(Event)
      BY <2>3 DEF BusShape
    <3>2. SubSeq(Append(published, e), 1, Len(published) - Len(ready)) = FannedOut
      BY <3>1, PrefixFacts DEF FannedOut
    <3> QED
      BY <1>2, <2>3, <3>2 DEF FannedOut
  <2>6. \A i \in 1 .. Len(published') :
           published'[i] = e \/ \E j \in 1 .. Len(published) : published'[i] = published[j]
    BY <2>2, <2>3
  <2> QED
    BY <2>1, <2>2, <2>4, <2>5, <2>6
<1> QED
  BY <1>1, <1>2 DEF Publish
-----------------------------------------------------------------------------
LEMMA WorkFacts ==
    ASSUME BusShape, NEW w \in Workers
    PROVE  /\ work[w] = NoWork <=> ~Busy(w)
           /\ Busy(w) => /\ work[w] \in Work /\ work[w].event \in Event
                         /\ work[w].pc \in {"emit", "audit", "push"}
           /\ ~(NoWork.pc \in {"emit", "audit", "push"}) /\ NoWork.pc = "idle"
<1>1. NoWork.pc = "idle"
  BY DEF NoWork
<1>2. work[w] \in Work \/ work[w] = NoWork
  BY DEF BusShape
<1>3. work[w] \in Work => work[w].event \in Event /\ work[w].pc \in {"emit", "audit", "push"}
  BY DEF Work
<1> QED
  BY <1>1, <1>2, <1>3 DEF Busy

LEMMA IdFacts ==
    ASSUME BusShape
    PROVE  /\ \A i \in 1 .. Len(shown) : shown[i] \in Event /\ shown[i].id \in Nat
           /\ \A i \in 1 .. Len(published) : published[i] \in Event /\ published[i].id \in Nat
           /\ \A w \in Workers : Busy(w) => work[w].event.id \in Nat
<1>1. \A e \in Event : e.id \in Nat
  BY DEF Event
<1>2. /\ \A i \in 1 .. Len(shown) : shown[i] \in Event
      /\ \A i \in 1 .. Len(published) : published[i] \in Event
  BY DEF BusShape
<1>3. \A w \in Workers : Busy(w) => work[w].event \in Event
  BY WorkFacts
<1> QED
  BY <1>1, <1>2, <1>3

LEMMA DeliveryInit == BusInit => DeliveryInv
<1> SUFFICES ASSUME BusInit PROVE DeliveryInv
  OBVIOUS
<1>1. \A w \in Workers : work[w] = NoWork /\ NoWork.pc = "idle"
  BY DEF BusInit, NoWork
<1>2. BusShape
  BY DEF BusInit, BusShape
<1>3. Queued /\ Stamped
  BY <1>1 DEF BusInit, Queued, Stamped, Busy
<1>4. Last(<<>>, MaxLogged) = <<>> /\ Last(<<>>, Capacity) = <<>>
  BY BusAssumption DEF Last
<1>5. FannedOut = <<>>
  BY DEF BusInit, FannedOut
<1>6. Newest(<<>>, Capacity) = <<>>
  BY <1>4 DEF Newest
<1>7. Carried
  BY <1>4, <1>5, <1>6 DEF BusInit, Carried
<1> QED
  BY <1>2, <1>3, <1>7 DEF DeliveryInv

LEMMA DeliveryCrash == DeliveryInv /\ BusCrash => DeliveryInv'
<1> SUFFICES ASSUME DeliveryInv, BusCrash PROVE DeliveryInv'
  OBVIOUS
<1>1. \A w \in Workers : work'[w] = NoWork /\ NoWork.pc = "idle"
  BY DEF BusCrash, NoWork
<1>2. BusShape'
  BY DEF BusCrash, BusShape, DeliveryInv
<1>3. Queued' /\ Stamped'
  BY <1>1 DEF BusCrash, Queued, Stamped, Busy
<1>4. Last(<<>>, MaxLogged) = <<>> /\ Last(<<>>, Capacity) = <<>>
  BY BusAssumption DEF Last
<1>5. FannedOut' = <<>>
  BY DEF BusCrash, FannedOut
<1>6. Newest(<<>>, Capacity) = <<>>
  BY <1>4 DEF Newest
<1>7. Carried'
  BY <1>4, <1>5, <1>6 DEF BusCrash, Carried
<1> QED
  BY <1>2, <1>3, <1>7 DEF DeliveryInv

(* Carried depends on the bus and the ring alone.                           *)
LEMMA CarriedUnchanged ==
    ASSUME Carried, Queued, UNCHANGED <<ready, logged, recent, published, shown>>
    PROVE  Carried' /\ Queued' /\ FannedOut' = FannedOut
<1>1. FannedOut' = FannedOut
  BY DEF FannedOut
<1>2. Queued'
  BY DEF Queued
<1>3. Carried'
  BY Zenon, <1>1 DEF Carried
<1> QED
  BY <1>1, <1>2, <1>3

LEMMA DeliveryCommit ==
    ASSUME DeliveryInv, NEW w \in Workers, NEW source \in {"handler", "admin"},
           NEW type \in Types, Commit(w, source, type)
    PROVE  DeliveryInv'
<1> DEFINE e == [id |-> made + 1, type |-> type, source |-> source]
           pc == IF source = "admin" THEN "audit" ELSE "emit"
           new == [pc |-> pc, event |-> e]
<1>1. /\ made' = made + 1 /\ work' = [work EXCEPT ![w] = new]
      /\ UNCHANGED <<now, ready, logged, recent, published, shown>>
      /\ BusShape /\ Queued /\ Stamped /\ Carried /\ made \in Nat
  BY Zenon DEF Commit, DeliveryInv, BusShape
<1>2. e \in Event /\ e.id = made + 1 /\ e.source = source
  BY <1>1 DEF Event
<1> HIDE DEF e
<1>3. pc \in {"audit", "emit"} /\ (source = IF pc = "emit" THEN "handler" ELSE "admin")
  BY Zenon
<1> HIDE DEF pc
<1>4. new \in Work /\ new.pc = pc /\ new.event = e
  BY Zenon, <1>2, <1>3 DEF Work
<1> HIDE DEF new
<1>5. /\ work' \in [Workers -> Work \cup {NoWork}]
      /\ work'[w] = new /\ \A v \in Workers \ {w} : work'[v] = work[v]
  BY Zenon, <1>1, <1>4 DEF BusShape
<1>6. BusShape'
  BY <1>1, <1>5 DEF BusShape
<1>7. /\ \A i \in 1 .. Len(shown) : shown[i].id \in Nat
      /\ \A i \in 1 .. Len(published) : published[i].id \in Nat
      /\ \A v \in Workers : Busy(v) => work[v].event.id \in Nat
  BY Zenon, <1>1, IdFacts
<1>8. Stamped'
  <2>1. /\ \A i \in 1 .. Len(shown') : shown'[i].id <= made'
        /\ \A i \in 1 .. Len(published') :
              published'[i].id <= made' /\ published'[i].source # "admin"
    BY <1>1, <1>7 DEF Stamped
  <2>2. ASSUME NEW v \in Workers, Busy(v)'
        PROVE  /\ work'[v].event.id <= made'
               /\ work'[v].event.source = IF work'[v].pc = "emit" THEN "handler" ELSE "admin"
               /\ v # w => Busy(v) /\ work'[v].event.id <= made
    BY <1>1, <1>2, <1>3, <1>4, <1>5, <1>7, <2>2 DEF Stamped, Busy
  <2>3. ASSUME NEW v \in Workers, NEW u \in Workers, v # u, Busy(v)', Busy(u)'
        PROVE  work'[v].event.id # work'[u].event.id
    <3>1. work'[w].event.id = made + 1
      BY Zenon, <1>2, <1>4, <1>5
    <3>2. CASE v = w \/ u = w
      BY <1>1, <1>5, <1>7, <2>2, <2>3, <3>1, <3>2
    <3>3. CASE v # w /\ u # w
      BY <1>1, <1>5, <2>2, <2>3, <3>3 DEF Stamped
    <3> QED
      BY Zenon, <3>2, <3>3
  <2>4. ASSUME NEW v \in Workers, work'[v].pc = "emit"
        PROVE  /\ \A i \in 1 .. Len(shown') : shown'[i].id # work'[v].event.id
               /\ \A i \in 1 .. Len(published') : published'[i].id # work'[v].event.id
    <3>1. CASE v = w
      BY <1>1, <1>2, <1>4, <1>5, <1>7, <3>1 DEF Stamped
    <3>2. CASE v # w
      BY ZenonT(40), <1>1, <1>5, <2>4, <3>2 DEF Stamped
    <3> QED
      BY Zenon, <3>1, <3>2
  <2> QED
    BY Zenon, <2>1, <2>2, <2>3, <2>4 DEF Stamped
<1> QED
  BY Zenon, <1>1, <1>6, <1>8, CarriedUnchanged DEF DeliveryInv

(* The steps that only publish.                                             *)
LEMMA DeliveryEmit ==
    ASSUME DeliveryInv, NEW w \in Workers, Emit(w)
    PROVE  DeliveryInv'
<1> DEFINE e == work[w].event
<1>1. /\ work[w].pc = "emit" /\ Publish(e) /\ work' = [work EXCEPT ![w] = NoWork]
      /\ UNCHANGED <<now, made, logged, recent, shown>>
      /\ BusShape /\ Queued /\ Stamped /\ Carried
  BY Zenon DEF Emit, DeliveryInv
<1>2. Busy(w) /\ e \in Event
  BY Zenon, <1>1, WorkFacts DEF Busy
<1>3. /\ e.id <= made /\ e.source = "handler"
      /\ \A i \in 1 .. Len(shown) : shown[i].id # e.id
      /\ \A i \in 1 .. Len(published) : published[i].id # e.id
      /\ \A v \in Workers \ {w} : Busy(v) => work[v].event.id # e.id
  BY Zenon, <1>1, <1>2 DEF Stamped
<1> HIDE DEF e
<1>4. /\ ready' \in Seq(Event) /\ published' \in Seq(Event) /\ Queued'
      /\ FannedOut' = FannedOut
      /\ \A i \in 1 .. Len(published') :
            published'[i] = e \/ \E j \in 1 .. Len(published) : published'[i] = published[j]
  BY Zenon, <1>1, <1>2, PublishFacts
<1>5. /\ work' \in [Workers -> Work \cup {NoWork}]
      /\ work'[w] = NoWork /\ NoWork.pc = "idle" /\ \A v \in Workers \ {w} : work'[v] = work[v]
  BY Zenon, <1>1, WorkFacts DEF BusShape
<1>6. BusShape'
  BY Zenon, <1>1, <1>4, <1>5 DEF BusShape
<1>7. \A v \in Workers : work'[v].pc # "idle" => v # w /\ Busy(v) /\ work'[v] = work[v]
  BY ZenonT(40), <1>5 DEF Busy
<1>8. Stamped'
  <2>1. \A i \in 1 .. Len(published') :
           published'[i].id <= made /\ published'[i].source # "admin"
    BY Zenon, <1>1, <1>3, <1>4 DEF Stamped
  <2>2. ASSUME NEW v \in Workers, work'[v].pc = "emit"
        PROVE  /\ \A i \in 1 .. Len(shown) : shown[i].id # work'[v].event.id
               /\ \A i \in 1 .. Len(published') : published'[i].id # work'[v].event.id
    <3>1. v # w /\ Busy(v) /\ work'[v] = work[v] /\ work[v].pc = "emit"
      BY <1>7, <2>2
    <3>2. /\ \A i \in 1 .. Len(shown) : shown[i].id # work[v].event.id
          /\ \A i \in 1 .. Len(published) : published[i].id # work[v].event.id
          /\ e.id # work[v].event.id
      BY <1>1, <1>3, <3>1 DEF Stamped
    <3> QED
      BY Zenon, <1>4, <3>1, <3>2
  <2> QED
    BY <1>1, <1>7, <2>1, <2>2 DEF Stamped, Busy
<1>9. Carried'
  <2>1. Balanced(shown, FannedOut, e)
    <3>1. Occurrences(shown, e) = 0
      BY Zenon, <1>1, <1>3, OccurrencesFacts DEF BusShape
    <3>2. \A i \in 1 .. Len(FannedOut) : FannedOut[i] # e
      BY <1>1, <1>3, FannedOutFacts
    <3>3. Occurrences(FannedOut, e) = 0
      BY Zenon, <1>1, <3>2, FannedOutFacts, OccurrencesFacts
    <3> QED
      BY <1>3, <3>1, <3>3 DEF Balanced
  <2>2. \A i \in 1 .. Len(published') : Balanced(shown, FannedOut, published'[i])
    BY Zenon, <1>1, <1>4, <2>1 DEF Carried
  <2> QED
    BY Zenon, <1>1, <1>4, <2>2 DEF Carried
<1> QED
  BY Zenon, <1>4, <1>6, <1>8, <1>9 DEF DeliveryInv

(* Writing the audit row moves a request on to the ring.                    *)
LEMMA DeliveryAudit ==
    ASSUME DeliveryInv, NEW w \in Workers, NEW ok \in BOOLEAN, WriteAudit(w, ok)
    PROVE  DeliveryInv'
<1> DEFINE new == [pc |-> "push", event |-> work[w].event]
<1>1. /\ work[w].pc = "audit" /\ work' = [work EXCEPT ![w] = new]
      /\ UNCHANGED <<now, made, ready, logged, recent, published, shown>>
      /\ BusShape /\ Queued /\ Stamped /\ Carried
  BY Zenon DEF WriteAudit, DeliveryInv
<1>2. Busy(w) /\ work[w].event \in Event
  BY Zenon, <1>1, WorkFacts DEF Busy
<1>3. new \in Work /\ new.pc = "push" /\ new.event = work[w].event
  BY Zenon, <1>2 DEF Work
<1> HIDE DEF new
<1>4. /\ work' \in [Workers -> Work \cup {NoWork}]
      /\ work'[w] = new /\ \A v \in Workers \ {w} : work'[v] = work[v]
  BY Zenon, <1>1, <1>3 DEF BusShape
<1>5. BusShape'
  BY Zenon, <1>1, <1>4 DEF BusShape
<1>6. \A v \in Workers : /\ Busy(v)' => Busy(v) /\ work'[v].event = work[v].event
                         /\ work'[v].pc = "emit" <=> work[v].pc = "emit"
  BY Zenon, <1>1, <1>2, <1>3, <1>4 DEF Busy
<1>7. Stamped'
  <2>1. \A v \in Workers : Busy(v)' =>
          /\ work'[v].event.id <= made
          /\ work'[v].event.source = IF work'[v].pc = "emit" THEN "handler" ELSE "admin"
    BY <1>1, <1>6 DEF Stamped
  <2>2. \A u, v \in Workers :
          u # v /\ Busy(u)' /\ Busy(v)' => work'[u].event.id # work'[v].event.id
    BY <1>1, <1>6 DEF Stamped
  <2>3. \A v \in Workers : work'[v].pc = "emit" =>
          /\ \A i \in 1 .. Len(shown) : shown[i].id # work'[v].event.id
          /\ \A i \in 1 .. Len(published) : published[i].id # work'[v].event.id
    BY <1>1, <1>3, <1>4 DEF Stamped
  <2> QED
    BY Zenon, <1>1, <2>1, <2>2, <2>3 DEF Stamped
<1> QED
  BY Zenon, <1>1, <1>5, <1>7, CarriedUnchanged DEF DeliveryInv

(* An audit entry in the ring is no event of the bus.                       *)
LEMMA DeliveryPushAudit ==
    ASSUME DeliveryInv, NEW w \in Workers, PushAudit(w)
    PROVE  DeliveryInv'
<1> DEFINE e == work[w].event
<1>1. /\ work[w].pc = "push" /\ Show(e) /\ work' = [work EXCEPT ![w] = NoWork]
      /\ UNCHANGED <<now, made, ready, logged, published>>
      /\ BusShape /\ Queued /\ Stamped /\ Carried
  BY Zenon DEF PushAudit, DeliveryInv
<1>2. Busy(w) /\ e \in Event
  BY Zenon, <1>1, WorkFacts DEF Busy
<1>3. /\ e.id <= made /\ e.source = "admin"
      /\ \A v \in Workers \ {w} : Busy(v) => work[v].event.id # e.id
  BY Zenon, <1>1, <1>2 DEF Stamped
<1> HIDE DEF e
<1>4. /\ shown' \in Seq(Event) /\ recent' = Newest(shown', Capacity)
      /\ \A i \in 1 .. Len(shown') :
            shown'[i] = e \/ \E j \in 1 .. Len(shown) : shown'[i] = shown[j]
      /\ \A x : /\ Occurrences(shown, x) \in Nat
                /\ Occurrences(shown', x) = Occurrences(shown, x) + (IF e = x THEN 1 ELSE 0)
  BY Zenon, <1>1, <1>2, ShowFacts
<1>5. /\ work' \in [Workers -> Work \cup {NoWork}]
      /\ work'[w] = NoWork /\ NoWork.pc = "idle" /\ \A v \in Workers \ {w} : work'[v] = work[v]
  BY Zenon, <1>1, WorkFacts DEF BusShape
<1>6. BusShape' /\ Queued' /\ FannedOut' = FannedOut
  BY Zenon, <1>1, <1>4, <1>5 DEF BusShape, Queued, FannedOut
<1>7. \A v \in Workers : work'[v].pc # "idle" => v # w /\ Busy(v) /\ work'[v] = work[v]
  BY <1>5 DEF Busy
<1>8. Stamped'
  <2>1. \A i \in 1 .. Len(shown') : shown'[i].id <= made
    BY ZenonT(40), <1>1, <1>3, <1>4 DEF Stamped
  <2>2. ASSUME NEW v \in Workers, work'[v].pc = "emit"
        PROVE  /\ \A i \in 1 .. Len(shown') : shown'[i].id # work'[v].event.id
               /\ \A i \in 1 .. Len(published) : published[i].id # work'[v].event.id
    BY <1>1, <1>3, <1>4, <1>7, <2>2 DEF Stamped
  <2> QED
    BY <1>1, <1>7, <2>1, <2>2 DEF Stamped, Busy
<1>9. Carried'
  <2>1. \A i \in 1 .. Len(published) : published[i] # e
    BY Zenon, <1>1, <1>3 DEF Stamped
  <2>2. ASSUME NEW i \in 1 .. Len(published) PROVE Balanced(shown', FannedOut, published[i])
    <3>1. Occurrences(shown', published[i]) = Occurrences(shown, published[i])
      BY <1>4, <2>1
    <3> QED
      BY ZenonT(40), <1>1, <3>1 DEF Carried, Balanced
  <2> QED
    BY Zenon, <1>1, <1>4, <1>6, <2>2 DEF Carried
<1> QED
  BY Zenon, <1>6, <1>8, <1>9 DEF DeliveryInv

(* An ingest pushes its event to the ring and publishes it, if the filter   *)
(* lets it pass.                                                            *)
LEMMA DeliveryIngest ==
    ASSUME DeliveryInv, NEW k \in EventKeys, NEW type \in Types, Ingest(k, type)
    PROVE  DeliveryInv'
<1> DEFINE e == [id |-> made + 1, type |-> type, source |-> "ingest"]
<1>1. /\ made' = made + 1 /\ Show(e) /\ Publish(e) /\ UNCHANGED <<now, work, logged>>
      /\ BusShape /\ Queued /\ Stamped /\ Carried /\ made \in Nat
  BY Zenon DEF Ingest, DeliveryInv, BusShape
<1>2. e \in Event /\ e.id = made + 1 /\ e.source = "ingest"
  BY <1>1 DEF Event
<1> HIDE DEF e
<1>3. /\ ready' \in Seq(Event) /\ published' \in Seq(Event) /\ Queued'
      /\ FannedOut' = FannedOut
      /\ \A i \in 1 .. Len(published') :
            published'[i] = e \/ \E j \in 1 .. Len(published) : published'[i] = published[j]
  BY Zenon, <1>1, <1>2, PublishFacts
<1>4. /\ shown' \in Seq(Event) /\ recent' = Newest(shown', Capacity)
      /\ \A i \in 1 .. Len(shown') :
            shown'[i] = e \/ \E j \in 1 .. Len(shown) : shown'[i] = shown[j]
      /\ \A x : /\ Occurrences(shown, x) \in Nat
                /\ Occurrences(shown', x) = Occurrences(shown, x) + (IF e = x THEN 1 ELSE 0)
  BY ZenonT(40), <1>1, <1>2, ShowFacts
<1>5. BusShape'
  <2>1. shown' \in Seq(Event)
    BY Zenon, <1>4
  <2> QED
    BY <1>1, <1>3, <2>1 DEF BusShape
<1>6. /\ \A i \in 1 .. Len(shown) : shown[i].id \in Nat /\ shown[i].id <= made
      /\ \A i \in 1 .. Len(published) : published[i].id \in Nat /\ published[i].id <= made
      /\ \A v \in Workers : Busy(v) => work[v].event.id \in Nat /\ work[v].event.id <= made
  BY ZenonT(60), <1>1, IdFacts DEF Stamped
<1>7. /\ \A x \in Nat : x <= made => x <= made' /\ x # e.id
      /\ e.id <= made' /\ e.source # "admin"
  BY <1>1, <1>2
<1>8. /\ \A i \in 1 .. Len(shown) : shown[i] # e
      /\ \A i \in 1 .. Len(published) : published[i] # e
  BY Zenon, <1>6, <1>7
<1>9. Stamped'
  <2>1. /\ \A i \in 1 .. Len(shown') : shown'[i].id <= made'
        /\ \A i \in 1 .. Len(published') :
              published'[i].id <= made' /\ published'[i].source # "admin"
    <3>1. \A i \in 1 .. Len(published) : published[i].source # "admin"
      BY Zenon, <1>1 DEF Stamped
    <3>2. ASSUME NEW i \in 1 .. Len(shown') PROVE shown'[i].id <= made'
      <4>1. CASE shown'[i] = e
        BY <1>7, <4>1
      <4>2. ASSUME NEW j \in 1 .. Len(shown), shown'[i] = shown[j] PROVE shown'[i].id <= made'
        BY Zenon, <1>6, <1>7, <4>2
      <4> QED
        BY Zenon, <1>4, <4>1, <4>2
    <3>3. ASSUME NEW i \in 1 .. Len(published')
          PROVE  published'[i].id <= made' /\ published'[i].source # "admin"
      <4>1. CASE published'[i] = e
        BY <1>7, <4>1
      <4>2. ASSUME NEW j \in 1 .. Len(published), published'[i] = published[j]
            PROVE  published'[i].id <= made' /\ published'[i].source # "admin"
        BY Zenon, <1>6, <1>7, <3>1, <4>2
      <4> QED
        BY Zenon, <1>3, <4>1, <4>2
    <3> QED
      BY <3>2, <3>3
  <2>2. ASSUME NEW v \in Workers, work[v].pc = "emit"
        PROVE  /\ \A i \in 1 .. Len(shown') : shown'[i].id # work[v].event.id
               /\ \A i \in 1 .. Len(published') : published'[i].id # work[v].event.id
    <3>1. /\ \A i \in 1 .. Len(shown) : shown[i].id # work[v].event.id
          /\ \A i \in 1 .. Len(published) : published[i].id # work[v].event.id
      BY <1>1, <2>2 DEF Stamped
    <3>2. e.id # work[v].event.id
      BY Zenon, <1>6, <1>7, <2>2 DEF Busy
    <3> QED
      BY ZenonT(40), <1>3, <1>4, <3>1, <3>2
  <2>3. /\ \A v \in Workers : Busy(v) =>
              /\ work[v].event.id <= made'
              /\ work[v].event.source = IF work[v].pc = "emit" THEN "handler" ELSE "admin"
        /\ \A u, v \in Workers :
              u # v /\ Busy(u) /\ Busy(v) => work[u].event.id # work[v].event.id
    BY <1>1, <1>6 DEF Stamped
  <2> QED
    BY <1>1, <2>1, <2>2, <2>3 DEF Stamped, Busy
<1>10. Carried'
  <2>1. Balanced(shown', FannedOut, e)
    <3>1. Occurrences(shown, e) = 0
      BY Zenon, <1>1, <1>8, OccurrencesFacts DEF BusShape
    <3>2. \A i \in 1 .. Len(FannedOut) : FannedOut[i] # e
      <4>1. \A i \in 1 .. Len(FannedOut) : i \in 1 .. Len(published) /\ FannedOut[i] = published[i]
        BY <1>1, FannedOutFacts
      <4> QED
        BY Zenon, <1>8, <4>1
    <3>3. Occurrences(FannedOut, e) = 0
      BY Zenon, <1>1, <3>2, FannedOutFacts, OccurrencesFacts
    <3>4. Occurrences(shown', e) = 1
      BY <1>4, <3>1
    <3> QED
      BY <1>2, <3>3, <3>4 DEF Balanced
  <2>2. ASSUME NEW i \in 1 .. Len(published) PROVE Balanced(shown', FannedOut, published[i])
    <3>1. Occurrences(shown', published[i]) = Occurrences(shown, published[i])
      BY <1>4, <1>8
    <3>2. Balanced(shown, FannedOut, published[i])
      BY Zenon, <1>1 DEF Carried
    <3> QED
      BY Zenon, <3>1, <3>2 DEF Balanced
  <2>3. \A i \in 1 .. Len(published') : Balanced(shown', FannedOut, published'[i])
    BY Zenon, <1>3, <2>1, <2>2
  <2> QED
    BY Zenon, <1>1, <1>3, <1>4, <2>3 DEF Carried
<1> QED
  BY Zenon, <1>3, <1>5, <1>9, <1>10 DEF DeliveryInv

(* A task moves its event from the queue to the logger and the ring.        *)
LEMMA DeliveryFanOut ==
    ASSUME DeliveryInv, NEW ok \in BOOLEAN, FanOut(ok)
    PROVE  DeliveryInv'
<1> DEFINE e == Head(ready)
           n == Len(FannedOut)
<1>1. /\ ready # <<>> /\ ready' = Tail(ready) /\ Show(e)
      /\ logged' = Last(Append(logged, e), MaxLogged)
      /\ UNCHANGED <<now, made, work, published>>
      /\ BusShape /\ Queued /\ Stamped /\ Carried
  BY Zenon DEF FanOut, DeliveryInv
<1>2. /\ e \in Event /\ e = ready[1] /\ ready' \in Seq(Event) /\ Len(ready') = Len(ready) - 1
      /\ \A i \in 1 .. Len(ready') : ready'[i] = ready[i + 1]
      /\ Len(ready) \in Nat /\ Len(ready) > 0
  BY <1>1 DEF BusShape
<1>3. /\ FannedOut \in Seq(Event) /\ n = Len(published) - Len(ready) /\ n \in Nat
      /\ \A i \in 1 .. n : FannedOut[i] = published[i]
      /\ Len(published) \in Nat /\ Len(ready) \in Nat
      /\ \A x : Occurrences(FannedOut, x) \in Nat
  BY Zenon, <1>1, FannedOutFacts
<1>4. e = published[n + 1] /\ n < Len(published)
  BY <1>1, <1>2, <1>3 DEF Queued
<1> HIDE DEF e
<1>5. FannedOut' = Append(FannedOut, e)
  <2>1. Len(published') - Len(ready') = n + 1 /\ n \in 0 .. Len(published)
    BY <1>1, <1>2, <1>3, <1>4
  <2>2. SubSeq(published, 1, n + 1) = Append(SubSeq(published, 1, n), published[n + 1])
    BY Zenon, <1>1, <1>4, <2>1, PrefixFacts DEF BusShape
  <2> QED
    BY Zenon, <1>1, <1>3, <1>4, <2>1, <2>2 DEF FannedOut
<1>6. /\ shown' \in Seq(Event) /\ recent' = Newest(shown', Capacity)
      /\ \A i \in 1 .. Len(shown') :
            shown'[i] = e \/ \E j \in 1 .. Len(shown) : shown'[i] = shown[j]
      /\ \A x : /\ Occurrences(shown, x) \in Nat
                /\ Occurrences(shown', x) = Occurrences(shown, x) + (IF e = x THEN 1 ELSE 0)
  BY Zenon, <1>1, <1>2, ShowFacts
<1>7. logged' = Last(FannedOut', MaxLogged) /\ logged' \in Seq(Event)
  <2>1. MaxLogged \in Nat /\ logged = Last(FannedOut, MaxLogged)
    BY Zenon, <1>1, BusAssumption DEF Carried
  <2>2. Append(FannedOut, e) \in Seq(Event)
    BY <1>2, <1>3
  <2>3. logged' = Last(Append(FannedOut, e), MaxLogged)
    BY <1>1, <1>2, <1>3, <2>1, LastAppend
  <2>4. Last(Append(FannedOut, e), MaxLogged) \in Seq(Event)
    BY Zenon, <2>1, <2>2, LastFacts
  <2> QED
    BY Zenon, <1>5, <2>3, <2>4
<1>8. BusShape'
  BY <1>1, <1>2, <1>6, <1>7 DEF BusShape
<1>9. Queued'
  <2>1. ASSUME NEW i \in 1 .. Len(ready')
        PROVE  ready'[i] = published'[Len(published') - Len(ready') + i]
    <3>1. i + 1 \in 1 .. Len(ready)
      BY <1>2
    <3>2. ready[i + 1] = published[Len(published) - Len(ready) + (i + 1)]
      BY Zenon, <1>1, <3>1 DEF Queued
    <3>3. Len(published) - Len(ready) + (i + 1) = Len(published') - Len(ready') + i
      BY <1>1, <1>2, <1>3
    <3> QED
      BY <1>1, <1>2, <3>2, <3>3
  <2> QED
    BY <1>1, <1>2, <1>3, <2>1 DEF Queued
<1>10. Stamped'
  <2>1. n + 1 \in 1 .. Len(published)
    BY <1>3, <1>4
  <2>2. \A i \in 1 .. Len(shown') : shown'[i].id <= made
    BY Zenon, <1>1, <1>4, <1>6, <2>1 DEF Stamped
  <2>3. ASSUME NEW v \in Workers, work[v].pc = "emit"
        PROVE  \A i \in 1 .. Len(shown') : shown'[i].id # work[v].event.id
    <3>1. /\ \A i \in 1 .. Len(shown) : shown[i].id # work[v].event.id
          /\ e.id # work[v].event.id
      BY Zenon, <1>1, <1>4, <2>1, <2>3 DEF Stamped
    <3> QED
      BY Zenon, <1>6, <3>1
  <2> QED
    BY Zenon, <1>1, <2>2, <2>3 DEF Stamped, Busy
<1>11. Carried'
  <2>1. ASSUME NEW i \in 1 .. Len(published)
        PROVE  Balanced(shown', Append(FannedOut, e), published[i])
    <3>1. Occurrences(Append(FannedOut, e), published[i]) =
             Occurrences(FannedOut, published[i]) + (IF e = published[i] THEN 1 ELSE 0)
      BY <1>2, <1>3, OccurrencesAppend
    <3>2. Balanced(shown, FannedOut, published[i])
      BY Zenon, <1>1 DEF Carried
    <3>3. Occurrences(shown', published[i]) =
             Occurrences(shown, published[i]) + (IF e = published[i] THEN 1 ELSE 0)
      BY Zenon, <1>6
    <3>4. Occurrences(FannedOut, published[i]) \in Nat
      BY <1>3
    <3> QED
      BY <3>1, <3>2, <3>3, <3>4 DEF Balanced
  <2> QED
    BY Zenon, <1>1, <1>5, <1>6, <1>7, <2>1 DEF Carried
<1> QED
  BY Zenon, <1>8, <1>9, <1>10, <1>11 DEF DeliveryInv

LEMMA DeliveryAlways == BusSpec => []DeliveryInv
<1>1. DeliveryInv /\ [BusNext]_busVars => DeliveryInv'
  <2> SUFFICES ASSUME DeliveryInv, [BusNext]_busVars PROVE DeliveryInv'
    BY Zenon
  <2>1. ASSUME now' \in Nat, UNCHANGED <<made, work, ready, logged, recent, published, shown>>
        PROVE  DeliveryInv'
    <3>1. BusShape' /\ Stamped'
      BY Zenon, <2>1 DEF DeliveryInv, BusShape, Stamped, Busy
    <3> QED
      BY Zenon, <2>1, <3>1, CarriedUnchanged DEF DeliveryInv
  <2>2. CASE \E w \in Workers :
               \/ \E source \in {"handler", "admin"}, type \in Types : Commit(w, source, type)
               \/ Report(w)
    BY Zenon, <2>2, DeliveryCommit, DeliveryEmit, DeliveryAudit, DeliveryPushAudit DEF Report
  <2>3. CASE \E k \in EventKeys : IngestDuplicate(k)
    BY Zenon, <2>1, <2>3 DEF IngestDuplicate, DeliveryInv, BusShape
  <2>4. CASE \E k \in EventKeys, type \in Types : Ingest(k, type)
    BY Zenon, <2>4, DeliveryIngest
  <2>5. CASE Deliver
    BY Zenon, <2>5, DeliveryFanOut DEF Deliver
  <2>6. CASE BusCrash
    BY Zenon, <2>6, DeliveryCrash
  <2>7. CASE BusTick
    BY <2>1, <2>7 DEF BusTick, Passes, DeliveryInv, BusShape
  <2>8. CASE UNCHANGED busVars
    BY Zenon, <2>1, <2>8 DEF busVars, DeliveryInv, BusShape
  <2> QED
    BY Zenon, <2>2, <2>3, <2>4, <2>5, <2>6, <2>7, <2>8 DEF BusNext
<1> QED
  BY <1>1, DeliveryInit, PTL DEF BusSpec

(* EventBus._fan_out and the ring: every published event reaches the logger *)
(* and the ring once, in order, whatever raises and however the requests    *)
(* interleave; an ingested one is in the ring twice.                        *)
THEOREM AlwaysDeliveredOnce == BusSpec => []DeliveredOnce
<1>1. DeliveryInv => DeliveredOnce
  <2> SUFFICES ASSUME DeliveryInv PROVE DeliveredOnce
    OBVIOUS
  <2>1. BusShape /\ Queued /\ Carried
    BY Zenon DEF DeliveryInv
  <2> DEFINE all == FannedOut \o ready
             n == Len(FannedOut)
  <2>2. /\ FannedOut \in Seq(Event) /\ n = Len(published) - Len(ready) /\ n \in Nat
        /\ \A i \in 1 .. n : FannedOut[i] = published[i]
        /\ Len(published) \in Nat /\ Len(ready) \in Nat
    BY Zenon, <2>1, FannedOutFacts
  <2>3. /\ all \in Seq(Event) /\ Len(all) = n + Len(ready)
        /\ \A i \in 1 .. n + Len(ready) :
              all[i] = IF i <= n THEN FannedOut[i] ELSE ready[i - n]
    BY <2>1, <2>2 DEF BusShape
  <2> HIDE DEF all
  <2>4. ASSUME NEW i \in 1 .. Len(published) PROVE published[i] = all[i]
    <3>1. CASE i <= n
      BY <2>2, <2>3, <3>1
    <3>2. CASE i > n
      <4>1. i - n \in 1 .. Len(ready) /\ Len(published) - Len(ready) + (i - n) = i
        BY <2>2, <3>2
      <4>2. ready[i - n] = published[i]
        BY Zenon, <2>1, <4>1 DEF Queued
      <4> QED
        BY <2>2, <2>3, <3>2, <4>2
    <3> QED
      BY <2>2, <3>1, <3>2
  <2>5. published = all
    BY <2>1, <2>2, <2>3, <2>4, SameSeq DEF BusShape
  <2>6. DOMAIN published = 1 .. Len(published)
    BY <2>1 DEF BusShape
  <2> QED
    BY Zenon, <2>1, <2>5, <2>6 DEF DeliveredOnce, Carried, Balanced, all
<1> QED
  BY <1>1, DeliveryAlways, PTL
-----------------------------------------------------------------------------
(***************************************************************************)
(* The idempotency store, for every ttl and capacity.                      *)
(***************************************************************************)

Acceptance == [key : EventKeys, at : Nat]

(* The first m acceptances hold max_entries of the ttl before acceptance i  *)
(* and since.                                                               *)
Recent(acc, i, m) == {n \in 1 .. m : acc[n].at > acc[i].at - TTL}

Crowded(acc, i, m) == Cardinality(Recent(acc, i, m)) >= MaxEntries

(* An acceptance of the last ttl is still in the store, or the store has    *)
(* been full since.                                                         *)
Remembered(store, acc, i, m) ==
    now < acc[i].at + TTL =>
        \/ acc[i].key \in DOMAIN store /\ store[acc[i].key] >= acc[i].at
        \/ Crowded(acc, i, m)

(* An entry of the store is an acceptance.                                  *)
Backed(store, acc) ==
    \A k \in DOMAIN store :
        \E n \in 1 .. Len(acc) : acc[n].key = k /\ acc[n].at = store[k]

StoreInv ==
    /\ now \in Nat
    /\ accepted \in Seq(Acceptance)
    /\ \A i \in 1 .. Len(accepted) : accepted[i].at <= now
    /\ Backed(entries, accepted)
    /\ \A i \in 1 .. Len(accepted) : Remembered(entries, accepted, i, Len(accepted))
    /\ DuplicatesCaught

LEMMA AcceptedFacts ==
    ASSUME StoreInv
    PROVE  /\ Len(accepted) \in Nat /\ DOMAIN accepted = 1 .. Len(accepted)
           /\ \A i \in 1 .. Len(accepted) : accepted[i].at \in Nat
           /\ TTL \in Nat /\ MaxEntries \in Nat /\ now \in Nat
           /\ \A k \in DOMAIN entries : entries[k] \in Nat
<1>1. \A a \in Acceptance : a.at \in Nat
  BY Zenon DEF Acceptance
<1>2. /\ Len(accepted) \in Nat /\ DOMAIN accepted = 1 .. Len(accepted)
      /\ \A i \in 1 .. Len(accepted) : accepted[i] \in Acceptance
  BY DEF StoreInv
<1>3. \A k \in DOMAIN entries : entries[k] \in Nat
  BY Zenon, <1>1, <1>2 DEF StoreInv, Backed
<1> QED
  BY <1>1, <1>2, <1>3, BusAssumption DEF StoreInv

LEMMA RecentFinite ==
    ASSUME NEW acc, NEW i, NEW m \in Nat
    PROVE  IsFiniteSet(Recent(acc, i, m)) /\ Cardinality(Recent(acc, i, m)) \in Nat
<1>1. IsFiniteSet(1 .. m)
  BY FS_Interval
<1>2. Recent(acc, i, m) \subseteq 1 .. m
  BY Zenon DEF Recent
<1> QED
  BY Zenon, <1>1, <1>2, FS_Subset, FS_CardinalityType

(* A crowd does not shrink.                                                 *)
LEMMA CrowdedGrows ==
    ASSUME NEW acc, NEW new, NEW m \in Nat, NEW p \in Nat, m <= p, NEW i \in 1 .. m,
           \A n \in 1 .. m : new[n] = acc[n], MaxEntries \in Nat,
           Crowded(acc, i, m)
    PROVE  Crowded(new, i, p)
<1>1. Recent(acc, i, m) \subseteq Recent(new, i, p)
  BY DEF Recent
<1>2. /\ IsFiniteSet(Recent(new, i, p)) /\ Cardinality(Recent(new, i, p)) \in Nat
      /\ Cardinality(Recent(acc, i, m)) \in Nat
  BY Zenon, RecentFinite
<1>3. Cardinality(Recent(acc, i, m)) <= Cardinality(Recent(new, i, p))
  BY ZenonT(40), <1>1, <1>2, FS_Subset
<1> QED
  BY <1>2, <1>3 DEF Crowded

(* Emptying a full store needs a crowd: its entries are that many           *)
(* acceptances, none older than a ttl.                                      *)
LEMMA FullIsCrowded ==
    ASSUME StoreInv, Cardinality(DOMAIN Pruned) >= MaxEntries,
           NEW i \in 1 .. Len(accepted)
    PROVE  Crowded(accepted, i, Len(accepted))
<1> DEFINE m == Len(accepted)
           T == DOMAIN Pruned
           S == {n \in Recent(accepted, i, m) : accepted[n].key \in T}
           f == [n \in S |-> accepted[n].key]
<1>1. /\ m \in Nat /\ TTL \in Nat /\ now \in Nat /\ MaxEntries \in Nat
      /\ \A n \in 1 .. m : accepted[n].at \in Nat /\ accepted[n].at <= now
  BY Zenon, AcceptedFacts DEF StoreInv
<1>2. \A k \in T : k \in DOMAIN entries /\ ~(now - entries[k] >= TTL)
  BY Zenon DEF Pruned, Without
<1>3. ASSUME NEW k \in T PROVE \E n \in S : f[n] = k
  <2>1. PICK n \in 1 .. m : accepted[n].key = k /\ accepted[n].at = entries[k]
    BY Zenon, <1>2 DEF StoreInv, Backed
  <2>2. accepted[n].at > accepted[i].at - TTL
    BY <1>1, <1>2, <2>1
  <2>3. n \in S
    BY Zenon, <2>1, <2>2 DEF Recent
  <2> QED
    BY Zenon, <2>1, <2>3
<1>4. f \in [S -> T]
  BY Zenon
<1>5. f \in Surjection(S, T)
  BY Zenon, <1>3, <1>4 DEF Surjection
<1>6. /\ IsFiniteSet(Recent(accepted, i, m)) /\ Cardinality(Recent(accepted, i, m)) \in Nat
      /\ S \subseteq Recent(accepted, i, m)
  BY Zenon, <1>1, RecentFinite
<1>7. IsFiniteSet(S) /\ Cardinality(S) <= Cardinality(Recent(accepted, i, m))
  BY Zenon, <1>6, FS_Subset
<1> HIDE DEF f, S, T
<1>8. IsFiniteSet(T) /\ Cardinality(T) <= Cardinality(S)
  BY Zenon, <1>5, <1>7, FS_Surjection
<1>9. Cardinality(T) \in Nat /\ Cardinality(S) \in Nat /\ Cardinality(T) >= MaxEntries
  BY Zenon, <1>7, <1>8, FS_CardinalityType DEF T
<1> QED
  BY <1>1, <1>6, <1>7, <1>8, <1>9 DEF Crowded

(* What is_duplicate_and_record looks the key up in.                        *)
LEMMA KeptFacts ==
    ASSUME StoreInv
    PROVE  /\ \A k \in DOMAIN Kept : k \in DOMAIN entries /\ Kept[k] = entries[k]
           /\ \A i \in 1 .. Len(accepted) : Remembered(Kept, accepted, i, Len(accepted))
<1>1. /\ DOMAIN Pruned = {k \in DOMAIN entries : ~(now - entries[k] >= TTL)}
      /\ \A k \in DOMAIN Pruned : Pruned[k] = entries[k]
  BY Zenon DEF Pruned, Without
<1>2. CASE Cardinality(DOMAIN Pruned) >= MaxEntries
  <2>1. Kept = <<>>
    BY <1>2 DEF Kept
  <2>2. \A i \in 1 .. Len(accepted) : Crowded(accepted, i, Len(accepted))
    BY Zenon, <1>2, FullIsCrowded
  <2> QED
    BY <2>1, <2>2 DEF Remembered
<1>3. CASE ~(Cardinality(DOMAIN Pruned) >= MaxEntries)
  <2>1. Kept = Pruned
    BY Zenon, <1>3 DEF Kept
  <2>2. ASSUME NEW i \in 1 .. Len(accepted) PROVE Remembered(Pruned, accepted, i, Len(accepted))
    <3> SUFFICES ASSUME now < accepted[i].at + TTL,
                        accepted[i].key \in DOMAIN entries,
                        entries[accepted[i].key] >= accepted[i].at
                 PROVE  accepted[i].key \in DOMAIN Pruned
      BY Zenon, <1>1 DEF Remembered, StoreInv
    <3>1. /\ now \in Nat /\ TTL \in Nat /\ accepted[i].at \in Nat
          /\ entries[accepted[i].key] \in Nat
      BY Zenon, AcceptedFacts
    <3> QED
      BY <1>1, <3>1
  <2> QED
    BY <1>1, <2>1, <2>2
<1> QED
  BY Zenon, <1>2, <1>3

(* A duplicate only sweeps the store.                                       *)
LEMMA StoreDuplicate ==
    ASSUME StoreInv, NEW k \in EventKeys, IngestDuplicate(k)
    PROVE  StoreInv'
<1>1. entries' = Kept /\ UNCHANGED <<now, accepted>>
  BY Zenon DEF IngestDuplicate
<1>2. Backed(Kept, accepted)
  BY KeptFacts DEF StoreInv, Backed
<1>3. \A i \in 1 .. Len(accepted) : Remembered(Kept, accepted, i, Len(accepted))
  BY Zenon, KeptFacts
<1>4. \A i \in 1 .. Len(accepted) : Remembered(entries, accepted, i, Len(accepted))'
  BY Zenon, <1>1, <1>3 DEF Remembered
<1> QED
  BY <1>1, <1>2, <1>4 DEF StoreInv, DuplicatesCaught

(* An acceptance finds its key swept or the store emptied.                  *)
LEMMA StoreIngest ==
    ASSUME StoreInv, NEW k \in EventKeys, NEW type \in Types, Ingest(k, type)
    PROVE  StoreInv'
<1> DEFINE a == [key |-> k, at |-> now]
           m == Len(accepted)
<1>1. /\ k \notin DOMAIN Kept /\ entries' = With(Kept, k, now)
      /\ accepted' = Append(accepted, a) /\ now' = now
  BY Zenon DEF Ingest
<1>2. /\ m \in Nat /\ DOMAIN accepted = 1 .. m /\ TTL \in Nat /\ MaxEntries \in Nat
      /\ \A i \in 1 .. m : accepted[i].at \in Nat
      /\ now \in Nat /\ accepted \in Seq(Acceptance)
  BY Zenon, AcceptedFacts DEF StoreInv
<1>3. a \in Acceptance /\ a.key = k /\ a.at = now
  BY Zenon, <1>2 DEF Acceptance
<1> HIDE DEF a
<1>4. /\ accepted' \in Seq(Acceptance) /\ Len(accepted') = m + 1 /\ accepted'[m + 1] = a
      /\ \A i \in 1 .. m : accepted'[i] = accepted[i]
      /\ DOMAIN accepted' = 1 .. m + 1
  BY <1>1, <1>2, <1>3
<1>5. /\ DOMAIN entries' = DOMAIN Kept \cup {k} /\ entries'[k] = now
      /\ \A x \in DOMAIN Kept : entries'[x] = Kept[x]
  BY Zenon, <1>1 DEF With
<1>6. /\ \A x \in DOMAIN Kept : x \in DOMAIN entries /\ Kept[x] = entries[x]
      /\ \A i \in 1 .. m : Remembered(Kept, accepted, i, m)
  BY ZenonT(40), KeptFacts
<1> HIDE DEF m
<1>7. \A i \in 1 .. m + 1 : accepted'[i].at <= now
  BY <1>2, <1>3, <1>4, <1>6 DEF StoreInv, m
<1>8. Backed(entries', accepted')
  <2> SUFFICES ASSUME NEW x \in DOMAIN entries'
               PROVE  \E n \in 1 .. m + 1 : accepted'[n].key = x /\ accepted'[n].at = entries'[x]
    BY Zenon, <1>4 DEF Backed
  <2>1. CASE x = k
    BY <1>2, <1>3, <1>4, <1>5, <2>1
  <2>2. CASE x # k
    <3>1. x \in DOMAIN Kept /\ entries'[x] = entries[x] /\ x \in DOMAIN entries
      BY Zenon, <1>5, <1>6, <2>2
    <3>2. PICK n \in 1 .. m : accepted[n].key = x /\ accepted[n].at = entries[x]
      BY Zenon, <3>1 DEF StoreInv, Backed, m
    <3> QED
      BY <1>2, <1>4, <3>1, <3>2
  <2> QED
    BY Zenon, <2>1, <2>2
<1>9. ASSUME NEW i \in 1 .. m, Crowded(accepted, i, m)
      PROVE  Crowded(accepted', i, m) /\ Crowded(accepted', i, m + 1)
  <2>1. m <= m /\ m <= m + 1 /\ m + 1 \in Nat
    BY <1>2
  <2> QED
    BY Zenon, <1>2, <1>4, <1>9, <2>1, CrowdedGrows
<1>10. ASSUME NEW i \in 1 .. m + 1 PROVE Remembered(entries', accepted', i, m + 1)
  <2>1. CASE i = m + 1
    BY <1>2, <1>3, <1>4, <1>5, <2>1 DEF Remembered
  <2>2. CASE i \in 1 .. m
    <3> SUFFICES ASSUME now < accepted[i].at + TTL
                 PROVE  \/ /\ accepted[i].key \in DOMAIN entries'
                           /\ entries'[accepted[i].key] >= accepted[i].at
                        \/ Crowded(accepted', i, m + 1)
      BY Zenon, <1>4, <2>2 DEF Remembered
    <3>1. CASE Crowded(accepted, i, m)
      BY Zenon, <1>9, <2>2, <3>1
    <3>2. CASE accepted[i].key \in DOMAIN Kept /\ Kept[accepted[i].key] >= accepted[i].at
      BY Zenon, <1>5, <3>2
    <3> QED
      BY Zenon, <1>6, <2>2, <3>1, <3>2 DEF Remembered
  <2>3. i = m + 1 \/ i \in 1 .. m
    BY <1>2
  <2> QED
    BY Zenon, <2>1, <2>2, <2>3
<1>11. ASSUME NEW q \in Nat, NEW i \in 1 .. q, Crowded(accepted, i, q),
              \A n \in 1 .. q : accepted'[n] = accepted[n]
       PROVE  Crowded(accepted', i, q)
  <2>1. q <= q /\ MaxEntries \in Nat
    BY <1>2
  <2> QED
    BY Zenon, <1>11, <2>1, CrowdedGrows
<1>12. DuplicatesCaught'
  <2> SUFFICES ASSUME NEW i \in 1 .. m + 1, NEW j \in 1 .. m + 1, i < j,
                      accepted'[i].key = accepted'[j].key,
                      accepted'[j].at < accepted'[i].at + TTL
               PROVE  Crowded(accepted', i, j - 1)
    BY Zenon, <1>4 DEF DuplicatesCaught, Crowded, Recent
  <2>1. CASE j = m + 1
    <3>1. i \in 1 .. m /\ accepted[i].key = k /\ now < accepted[i].at + TTL /\ j - 1 = m
      BY <1>2, <1>3, <1>4, <2>1
    <3>2. Crowded(accepted, i, m)
      BY Zenon, <1>1, <1>6, <3>1 DEF Remembered
    <3> QED
      BY ZenonT(40), <1>9, <3>1, <3>2
  <2>2. CASE j \in 1 .. m
    <3>1. PICK q \in Nat : q = j - 1 /\ i \in 1 .. q /\ i \in 1 .. m /\ 1 .. q \subseteq 1 .. m
      BY <1>2, <2>2
    <3>2. accepted'[i] = accepted[i] /\ accepted'[j] = accepted[j]
      BY Zenon, <1>4, <2>2, <3>1
    <3>3. \A n \in 1 .. q : accepted'[n] = accepted[n]
      BY Zenon, <1>4, <3>1
    <3>4. Crowded(accepted, i, q)
      BY Zenon, <1>2, <2>2, <3>1, <3>2 DEF StoreInv, DuplicatesCaught, Crowded, Recent
    <3>5. Crowded(accepted', i, q)
      BY Zenon, <1>11, <3>1, <3>3, <3>4
    <3> QED
      BY Zenon, <3>1, <3>5
  <2>3. j = m + 1 \/ j \in 1 .. m
    BY <1>2
  <2> QED
    BY Zenon, <2>1, <2>2, <2>3
<1>13. \A i \in 1 .. Len(accepted') : Remembered(entries, accepted, i, Len(accepted))'
  BY Zenon, <1>1, <1>4, <1>10 DEF Remembered
<1> QED
  BY Zenon, <1>1, <1>2, <1>4, <1>7, <1>8, <1>12, <1>13 DEF StoreInv

LEMMA StoreAlways == BusSpec => []StoreInv
<1>1. BusInit => StoreInv
  BY DEF BusInit, StoreInv, Backed, DuplicatesCaught
<1>2. StoreInv /\ [BusNext]_busVars => StoreInv'
  <2> SUFFICES ASSUME StoreInv, [BusNext]_busVars PROVE StoreInv'
    OBVIOUS
  <2>1. ASSUME UNCHANGED <<now, entries, accepted>> PROVE StoreInv'
    BY <2>1 DEF StoreInv, Backed, Remembered, DuplicatesCaught
  <2>2. CASE \E w \in Workers :
               \/ \E source \in {"handler", "admin"}, type \in Types : Commit(w, source, type)
               \/ Report(w)
    BY Zenon, <2>1, <2>2 DEF Commit, Report, Emit, WriteAudit, PushAudit
  <2>3. CASE \E k \in EventKeys : IngestDuplicate(k)
    BY Zenon, <2>3, StoreDuplicate
  <2>4. CASE \E k \in EventKeys, type \in Types : Ingest(k, type)
    BY <2>4, StoreIngest
  <2>5. CASE Deliver
    BY Zenon, <2>1, <2>5 DEF Deliver, FanOut
  <2>6. CASE BusCrash
    BY <2>6 DEF BusCrash, StoreInv, Backed, DuplicatesCaught
  <2>7. CASE BusTick
    <3>1. now \in Nat /\ now' = now + 1 /\ UNCHANGED <<entries, accepted>>
      BY Zenon, <2>7 DEF BusTick, Passes, StoreInv
    <3>2. \A i \in 1 .. Len(accepted) : accepted[i].at \in Nat /\ TTL \in Nat
      BY AcceptedFacts
    <3>3. \A i \in 1 .. Len(accepted) : accepted[i].at <= now'
      BY <3>1, <3>2 DEF StoreInv
    <3>4. \A i \in 1 .. Len(accepted) : Remembered(entries, accepted, i, Len(accepted))'
      BY <3>1, <3>2 DEF StoreInv, Remembered
    <3> QED
      BY <3>1, <3>3, <3>4 DEF StoreInv, Backed, DuplicatesCaught
  <2>8. CASE UNCHANGED busVars
    BY ZenonT(40), <2>1, <2>8 DEF busVars
  <2> QED
    BY <2>2, <2>3, <2>4, <2>5, <2>6, <2>7, <2>8 DEF BusNext
<1> QED
  BY <1>1, <1>2, PTL DEF BusSpec

(* is_duplicate_and_record: within a ttl a key is accepted again only if    *)
(* the store has filled up, for every ttl and capacity.                     *)
THEOREM AlwaysDuplicatesCaught == BusSpec => []DuplicatesCaught
<1>1. StoreInv => DuplicatesCaught
  BY DEF StoreInv
<1> QED
  BY <1>1, StoreAlways, PTL
=============================================================================
