----------------------------- MODULE RouterProofs -----------------------------
(***************************************************************************)
(* What the operations of modules Pheromone, Bayes and Router keep and     *)
(* what they bring, for caches of every size and any links and names, and  *)
(* a few facts about sequences.                                            *)
(***************************************************************************)
EXTENDS Router, FoldProofs, FunctionTheorems

\* The set of a sequence's elements, element by element.
LEMMA ToSetElements ==
  ASSUME NEW S, NEW s \in Seq(S), NEW e
  PROVE  /\ e \in ToSet(s) <=> \E i \in 1 .. Len(s) : e = s[i]
         /\ e \in ToSet(s) => e \in S
  <1>1. DOMAIN s = 1 .. Len(s) /\ \A i \in 1 .. Len(s) : s[i] \in S
    BY LenProperties
  <1> QED
    BY <1>1 DEF ToSet

\* A concatenation has the elements of both parts.
LEMMA ToSetConcat ==
  ASSUME NEW S, NEW s \in Seq(S), NEW t \in Seq(S)
  PROVE  ToSet(s \o t) = ToSet(s) \cup ToSet(t)
  <1>1. Range(s \o t) = Range(s) \cup Range(t)
    BY RangeConcatenation
  <1>2. \A u : ToSet(u) = Range(u)
    BY DEF ToSet, Range
  <1> QED
    BY <1>1, <1>2

\* A prefix of a sequence has no other elements than the sequence.
LEMMA PrefixProperties ==
  ASSUME NEW S, NEW s \in Seq(S), NEW n \in 1 .. Len(s)
  PROVE  /\ SubSeq(s, 1, n) \in Seq(S)
         /\ Len(SubSeq(s, 1, n)) = n
         /\ ToSet(SubSeq(s, 1, n)) \subseteq ToSet(s)
         /\ SubSeq(s, 1, n)[1] = s[1]
  <1> DEFINE prefix == SubSeq(s, 1, n)
  <1>1. \A i \in 1 .. n : s[i] \in S
    BY LenProperties, ElementOfSeq
  <1>2. /\ prefix \in Seq(S)
        /\ Len(prefix) = n
        /\ \A i \in 1 .. n : prefix[i] = s[i]
    BY <1>1, SubSeqProperties, LenProperties
  <1> HIDE DEF prefix
  <1>3. ASSUME NEW e \in ToSet(prefix) PROVE e \in ToSet(s)
    <2>1. PICK i \in 1 .. n : e = prefix[i]
      BY <1>2, ToSetElements
    <2>2. i \in 1 .. Len(s) /\ e = s[i]
      BY <1>2, <2>1, LenProperties
    <2> QED
      BY <2>2, ToSetElements
  <1>4. prefix[1] = s[1]
    BY <1>2
  <1> QED
    BY <1>2, <1>3, <1>4 DEF prefix

\* The first place of an element in a sequence.
LEMMA FirstPlace ==
  ASSUME NEW S, NEW s \in Seq(S), NEW e \in ToSet(s)
  PROVE  \E k \in 1 .. Len(s) :
            /\ s[k] = e
            /\ RemoveFirst(s, e) = SubSeq(s, 1, k - 1) \o SubSeq(s, k + 1, Len(s))
  <1> DEFINE places == {i \in 1 .. Len(s) : s[i] = e}
  <1>1. places \subseteq Nat /\ places # {}
    BY ToSetElements
  <1>2. \E i \in places : \A j \in places : i =< j
    <2> DEFINE less == OpToRel(<, Nat)
    <2>1. IsWellFoundedOn(less, Nat)
      BY NatLessThanWellFounded
    <2>2. \A i, j \in Nat : j < i => <<j, i>> \in less
      BY DEF OpToRel
    <2> HIDE DEF places, less
    <2>3. PICK i \in places : \A j \in places : ~(<<j, i>> \in less)
      BY <1>1, <2>1, WFMin
    <2>4. ASSUME NEW j \in places PROVE i =< j
      <3>1. i \in Nat /\ j \in Nat
        BY <1>1
      <3>2. j < i => <<j, i>> \in less
        BY <2>2, <3>1
      <3> QED
        BY <2>3, <3>1, <3>2
    <2> QED
      BY <2>4
  <1>3. Min(places) \in places
    BY <1>2 DEF Min
  <1>4. RemoveFirst(s, e) = RemoveAt(s, Min(places))
    <2>1. \E i \in 1 .. Len(s) : s[i] = e
      BY <1>1
    <2> QED
      BY <1>1, <2>1 DEF RemoveFirst, SelectInSeq
  <1> QED
    BY <1>3, <1>4 DEF RemoveAt

\* Insertion keeps a cache within its size and puts the entry in it; whatever
\* else is in it was there before.
LEMMA InsertedProperties ==
  ASSUME NEW S, NEW cache \in Seq(S), NEW e \in S, NEW size \in Nat \ {0}
  PROVE  /\ Inserted(cache, e, size) \in Seq(S)
         /\ Len(Inserted(cache, e, size)) <= size
         /\ e \in ToSet(Inserted(cache, e, size))
         /\ ToSet(Inserted(cache, e, size)) \subseteq ToSet(cache) \cup {e}
  <1> DEFINE front == <<e>>
             longer == front \o cache
             shorter == SubSeq(longer, 1, size)
  <1>1. /\ front \in Seq(S)
        /\ Len(front) = 1
        /\ front[1] = e
        /\ ToSet(front) = {e}
    BY DEF ToSet
  <1>6. Inserted(cache, e, size) =
          IF Len(longer) <= size THEN longer ELSE shorter
    BY DEF Inserted
  <1> HIDE DEF front
  <1>2. /\ longer \in Seq(S)
        /\ Len(longer) = 1 + Len(cache)
        /\ longer[1] = e
    <2>1. longer \in Seq(S) /\ Len(longer) = Len(front) + Len(cache)
      BY <1>1, ConcatProperties
    <2>2. longer[1] = front[1]
      BY <1>1, ConcatProperties, LenProperties
    <2> QED
      BY <1>1, <2>1, <2>2
  <1>3. ToSet(longer) = ToSet(front) \cup ToSet(cache)
    BY <1>1, ToSetConcat
  <1>4. Len(longer) \in Nat \ {0} /\ size <= size
    BY <1>2, LenProperties
  <1>5. Len(longer) > size =>
          /\ shorter \in Seq(S)
          /\ Len(shorter) = size
          /\ ToSet(shorter) \subseteq ToSet(longer)
          /\ shorter[1] = e
    <2> HIDE DEF longer
    <2> QED
      BY <1>2, <1>4, PrefixProperties
  <1> HIDE DEF longer, shorter
  <1>7. e \in ToSet(longer)
    BY <1>1, <1>3
  <1>8. Len(longer) > size => e \in ToSet(shorter)
    <2>1. 1 \in 1 .. size
      OBVIOUS
    <2> QED
      BY <1>5, <2>1, ToSetElements
  <1> QED
    BY <1>1, <1>2, <1>3, <1>4, <1>5, <1>6, <1>7, <1>8

\* A touch keeps the length and the elements of a cache, whether the entry is
\* found or not.
LEMMA TouchedProperties ==
  ASSUME NEW S, NEW cache \in Seq(S), NEW e \in S
  PROVE  /\ Touched(cache, e) \in Seq(S)
         /\ Len(Touched(cache, e)) = Len(cache)
         /\ ToSet(Touched(cache, e)) = ToSet(cache)
  <1>1. CASE ~Holds(cache, e)
    BY <1>1 DEF Touched
  <1>2. CASE Holds(cache, e)
    <2>1. PICK k \in 1 .. Len(cache) :
             /\ cache[k] = e
             /\ RemoveFirst(cache, e) =
                  SubSeq(cache, 1, k - 1) \o SubSeq(cache, k + 1, Len(cache))
      BY <1>2, FirstPlace DEF Holds
    <2> DEFINE before == SubSeq(cache, 1, k - 1)
               after  == SubSeq(cache, k + 1, Len(cache))
               rest   == before \o after
               front  == <<e>>
    <2>2. /\ before \in Seq(S) /\ Len(before) = k - 1
          /\ \A i \in 1 .. k - 1 : before[i] = cache[i]
      BY SubSeqProperties, LenProperties
    <2>3. /\ after \in Seq(S) /\ Len(after) = Len(cache) - k
          /\ \A i \in 1 .. Len(cache) - k : after[i] = cache[k + i]
      BY SubSeqProperties, LenProperties
    <2>4. front \in Seq(S) /\ Len(front) = 1 /\ ToSet(front) = {e}
      BY DEF ToSet
    <2>5. Touched(cache, e) = front \o rest
      BY <1>2, <2>1 DEF Touched
    <2> HIDE DEF before, after, front
    <2>6. /\ rest \in Seq(S)
          /\ Len(rest) = Len(before) + Len(after)
          /\ ToSet(rest) = ToSet(before) \cup ToSet(after)
      BY <2>2, <2>3, ConcatProperties, ToSetConcat, ZenonT(60)
    <2> HIDE DEF rest
    <2>7. /\ front \o rest \in Seq(S)
          /\ Len(front \o rest) = 1 + Len(rest)
          /\ ToSet(front \o rest) = {e} \cup ToSet(rest)
      <3>1. ToSet(front \o rest) = ToSet(front) \cup ToSet(rest)
        BY <2>4, <2>6, ToSetConcat
      <3>2. front \o rest \in Seq(S) /\ Len(front \o rest) = Len(front) + Len(rest)
        BY <2>4, <2>6, ConcatProperties
      <3> QED
        BY <2>4, <3>1, <3>2
    <2>8. Len(Touched(cache, e)) = Len(cache)
      BY <2>2, <2>3, <2>5, <2>6, <2>7, LenProperties
    <2>9. ASSUME NEW x PROVE x \in ToSet(cache) <=> x = e \/ x \in ToSet(before) \cup ToSet(after)
      <3>1. x \in ToSet(cache) <=> \E i \in 1 .. Len(cache) : x = cache[i]
        BY ToSetElements
      <3>2. x \in ToSet(before) <=> \E i \in 1 .. k - 1 : x = cache[i]
        <4>1. x \in ToSet(before) <=> \E i \in 1 .. Len(before) : x = before[i]
          BY <2>2, ToSetElements
        <4> QED
          BY <2>2, <4>1
      <3>3. x \in ToSet(after) <=> \E i \in 1 .. Len(cache) - k : x = cache[k + i]
        <4>1. x \in ToSet(after) <=> \E i \in 1 .. Len(after) : x = after[i]
          BY <2>3, ToSetElements
        <4> QED
          BY <2>3, <4>1
      <3>4. ASSUME NEW i \in 1 .. Len(cache), x = cache[i]
            PROVE  x = e \/ x \in ToSet(before) \cup ToSet(after)
        <4>1. CASE i < k
          BY <3>2, <3>4, <4>1, LenProperties
        <4>2. CASE i = k
          BY <2>1, <3>4, <4>2
        <4>3. CASE i > k
          <5>1. i - k \in 1 .. Len(cache) - k /\ x = cache[k + (i - k)]
            BY <3>4, <4>3, LenProperties
          <5> QED
            BY <3>3, <5>1
        <4> QED
          BY <4>1, <4>2, <4>3, LenProperties
      <3>5. x \in ToSet(before) \cup ToSet(after) => \E i \in 1 .. Len(cache) : x = cache[i]
        BY <3>2, <3>3, LenProperties
      <3> QED
        BY <2>1, <3>1, <3>4, <3>5
    <2> QED
      BY <2>5, <2>6, <2>7, <2>8, <2>9
  <1> QED
    BY <1>1, <1>2
-----------------------------------------------------------------------------
\* An order of a finite set is a sequence of exactly its elements.
LEMMA OrderProperties ==
  ASSUME NEW ids \in SUBSET Link, NEW order \in SetToSeqs(ids)
  PROVE  /\ order \in Seq(ids)
         /\ \A l \in ids : \E i \in DOMAIN order : order[i] = l
         /\ DOMAIN order = 1 .. Len(order)
         /\ Len(order) \in Nat
  <1> DEFINE n == Cardinality(ids)
  <1>1. IsFiniteSet(ids) /\ n \in Nat
    BY LinkIsFinite, FS_Subset, FS_CardinalityType
  <1>2. /\ order \in [1 .. n -> ids]
        /\ \A i, j \in 1 .. n : order[i] = order[j] => i = j
    BY DEF SetToSeqs
  <1> HIDE DEF n
  <1>3. order \in Injection(1 .. n, ids)
    BY <1>2, Fun_IsInj
  <1>4. Cardinality(1 .. n) = n
    <2>1. 1 \in Int /\ n \in Int /\ (1 > n => n = 0) /\ n - 1 + 1 = n
      BY <1>1
    <2> QED
      BY <2>1, FS_Interval
  <1>5. order \in Surjection(1 .. n, ids)
    BY <1>1, <1>3, <1>4, FS_Injection DEF n
  <1>6. \A l \in ids : \E i \in 1 .. n : order[i] = l
    BY <1>5 DEF Surjection
  <1>7. order \in Seq(ids) /\ DOMAIN order = 1 .. n /\ Len(order) = n
    BY <1>1, <1>2
  <1> QED
    BY <1>1, <1>6, <1>7

\* Sending p to each link of an order makes packets like p to those links.
LEMMA BatchProperties ==
  ASSUME NEW ids \in SUBSET Link, NEW order \in SetToSeqs(ids), NEW p \in Packet,
         NEW batch, batch = [i \in DOMAIN order |-> ToLink(p, order[i])]
  PROVE  /\ batch \in Seq(Packet)
         /\ \A q \in ToSet(batch) :
               q.link \in ids /\ q.kind = p.kind /\ q.name = p.name
         /\ \A l \in ids : \E i \in DOMAIN batch :
               batch[i].link = l /\ batch[i].kind = p.kind
  <1>1. /\ DOMAIN order = 1 .. Len(order)
        /\ Len(order) \in Nat
        /\ \A i \in DOMAIN order : order[i] \in ids
        /\ \A l \in ids : \E i \in DOMAIN order : order[i] = l
    BY OrderProperties, LenProperties
  <1>2. \A l \in Link : /\ ToLink(p, l) \in Packet
                        /\ ToLink(p, l).link = l
                        /\ ToLink(p, l).kind = p.kind
                        /\ ToLink(p, l).name = p.name
    BY DEF ToLink, Packet
  <1>3. /\ DOMAIN batch = 1 .. Len(order)
        /\ \A i \in 1 .. Len(order) : batch[i] = ToLink(p, order[i])
    BY <1>1
  <1>4. batch \in Seq(Packet)
    BY <1>1, <1>2, <1>3
  <1>5. ASSUME NEW q \in ToSet(batch)
        PROVE  q.link \in ids /\ q.kind = p.kind /\ q.name = p.name
    <2>1. PICK i \in 1 .. Len(order) : q = ToLink(p, order[i])
      BY <1>3 DEF ToSet
    <2> QED
      BY <1>1, <1>2, <2>1
  <1>6. ASSUME NEW l \in ids
        PROVE  \E i \in DOMAIN batch : batch[i].link = l /\ batch[i].kind = p.kind
    <2>1. PICK i \in DOMAIN order : order[i] = l
      BY <1>1
    <2> QED
      BY <1>1, <1>2, <1>3, <2>1
  <1> QED
    BY <1>4, <1>5, <1>6

\* Admitting a link adds it and leaves every Pheromone alone.
LEMMA AdmittedProperties ==
  ASSUME NEW r \in RouterTables, NEW l \in Link
  PROVE  /\ Admitted(r, l) \in RouterTables
         /\ l \in Admitted(r, l).known
         /\ r.known \subseteq Admitted(r, l).known
         /\ Admitted(r, l).pending = r.pending
         /\ Admitted(r, l).forwarded = r.forwarded
  <1>1. CASE l \in r.known
    BY <1>1 DEF Admitted
  <1>2. CASE l \notin r.known
    <2>1. Admitted(r, l) = [r EXCEPT !.known = r.known \cup {l},
                                     !.count = TrainedCount(r.count, l, 1)]
      BY <1>2 DEF Admitted, RouterTables
    <2>2. r.known \cup {l} \in SUBSET Link
      BY DEF RouterTables
    <2>3. TrainedCount(r.count, l, 1) \in [Class -> Nat]
      BY DEF TrainedCount, RouterTables, Class
    <2> QED
      BY <2>1, <2>2, <2>3 DEF RouterTables
  <1> QED
    BY <1>1, <1>2

\* A name is touched in the Pheromones of some links only, which keeps what they hold.
LEMMA TouchedAtProperties ==
  ASSUME NEW ph \in [Link -> Seq(Name)], NEW links \in SUBSET Link, NEW n \in Name
  PROVE  /\ TouchedAt(ph, links, n) \in [Link -> Seq(Name)]
         /\ \A l \in Link : ToSet(TouchedAt(ph, links, n)[l]) = ToSet(ph[l])
  <1>1. ASSUME NEW l \in Link
        PROVE  /\ Touched(ph[l], n) \in Seq(Name)
               /\ ToSet(Touched(ph[l], n)) = ToSet(ph[l])
    <2>1. ph[l] \in Seq(Name)
      OBVIOUS
    <2> QED
      BY <2>1, TouchedProperties
  <1> QED
    BY <1>1 DEF TouchedAt

\* A name is inserted into the Pheromones of some links only.
LEMMA InsertedAtProperties ==
  ASSUME NEW ph \in [Link -> Seq(Name)], NEW links \in SUBSET Link, NEW n \in Name
  PROVE  /\ InsertedAt(ph, links, n) \in [Link -> Seq(Name)]
         /\ \A l \in Link : l \in links =>
              /\ n \in ToSet(InsertedAt(ph, links, n)[l])
              /\ ToSet(InsertedAt(ph, links, n)[l]) \subseteq ToSet(ph[l]) \cup {n}
  <1>1. ASSUME NEW l \in Link
        PROVE  /\ Inserted(ph[l], n, PheromoneSize) \in Seq(Name)
               /\ n \in ToSet(Inserted(ph[l], n, PheromoneSize))
               /\ ToSet(Inserted(ph[l], n, PheromoneSize)) \subseteq ToSet(ph[l]) \cup {n}
    <2>1. ph[l] \in Seq(Name)
      OBVIOUS
    <2> QED
      BY <2>1, SizesAssumption, InsertedProperties
  <1> QED
    BY <1>1 DEF InsertedAt

\* Training adds to a table of naturals.
LEMMA TrainedProperties ==
  ASSUME NEW r \in RouterTables, NEW n \in Name, NEW id \in Class, NEW by \in Nat
  PROVE  /\ TrainedCount(r.count, id, by) \in [Class -> Nat]
         /\ TrainedFreq(r.freq, n, id, by) \in [Name -> [Class -> Nat]]
  <1>1. r.count \in [Class -> Nat] /\ r.freq \in [Name -> [Class -> Nat]]
    BY DEF RouterTables
  <1>2. TrainedCount(r.count, id, by) \in [Class -> Nat]
    BY <1>1 DEF TrainedCount
  <1>3. [r.freq[n] EXCEPT ![id] = @ + by] \in [Class -> Nat]
    BY <1>1
  <1>4. TrainedFreq(r.freq, n, id, by) =
          [r.freq EXCEPT ![n] = [r.freq[n] EXCEPT ![id] = @ + by]]
    BY <1>1 DEF TrainedFreq
  <1> QED
    BY <1>1, <1>2, <1>3, <1>4

\* What a request leaves in the tables before it is decided where it goes.
LEMMA RecordedProperties ==
  ASSUME NEW r \in RouterTables, NEW p \in Packet
  PROVE  /\ Recorded(r, p) \in RouterTables
         /\ Recorded(r, p).known = r.known
         /\ Recorded(r, p).forwarded = r.forwarded
         /\ \A l \in Link :
              IF l = p.link
              THEN /\ p.name \in ToSet(Recorded(r, p).pending[l])
                   /\ ToSet(Recorded(r, p).pending[l]) \subseteq
                        ToSet(r.pending[l]) \cup {p.name}
              ELSE Recorded(r, p).pending[l] = r.pending[l]
  <1>1. p.link \in Link /\ p.name \in Name
    BY DEF Packet
  <1>2. r.pending[p.link] \in Seq(Name) /\ PheromoneSize \in Nat \ {0}
    BY <1>1, SizesAssumption DEF RouterTables
  <1>3. /\ Inserted(r.pending[p.link], p.name, PheromoneSize) \in Seq(Name)
        /\ p.name \in ToSet(Inserted(r.pending[p.link], p.name, PheromoneSize))
        /\ ToSet(Inserted(r.pending[p.link], p.name, PheromoneSize))
             \subseteq ToSet(r.pending[p.link]) \cup {p.name}
    BY <1>1, <1>2, InsertedProperties
  <1> DEFINE pending == [r.pending EXCEPT
                           ![p.link] = Inserted(@, p.name, PheromoneSize)]
             count == TrainedCount(r.count, Choke, 1)
             freq  == TrainedFreq(r.freq, p.name, Choke, 1)
  <1>4. pending \in [Link -> Seq(Name)]
    BY <1>1, <1>3 DEF RouterTables
  <1>5. count \in [Class -> Nat]
    BY TrainedProperties, <1>1 DEF Class
  <1>6. freq \in [Name -> [Class -> Nat]]
    BY TrainedProperties, <1>1 DEF Class
  <1>7. Recorded(r, p) = [r EXCEPT !.pending = pending, !.count = count, !.freq = freq]
    BY DEF Recorded, RouterTables
  <1>8. \A l \in Link : pending[l] = IF l = p.link
                                      THEN Inserted(r.pending[l], p.name, PheromoneSize)
                                      ELSE r.pending[l]
    BY <1>1 DEF RouterTables
  <1> HIDE DEF pending, count, freq
  <1>9. /\ Recorded(r, p) \in RouterTables
        /\ Recorded(r, p).known = r.known
        /\ Recorded(r, p).forwarded = r.forwarded
        /\ Recorded(r, p).pending = pending
    BY <1>4, <1>5, <1>6, <1>7 DEF RouterTables
  <1> QED
    BY <1>3, <1>8, <1>9

\* A request enters the history of its link and no other.
LEMMA AskedProperties ==
  ASSUME NEW h \in History, NEW p \in Packet
  PROVE  /\ Asked(h, p) \in History
         /\ Asked(h, p).asked = h.asked \cup {<<p.link, p.name>>}
         /\ Asked(h, p).tried = h.tried
         /\ Asked(h, p).lastTried = h.lastTried
         /\ \A l \in Link : Asked(h, p).lastAsked[l] =
                              IF l = p.link THEN p.name ELSE h.lastAsked[l]
  <1>1. p.link \in Link /\ p.name \in Name
    BY DEF Packet
  <1> DEFINE asked == h.asked \cup {<<p.link, p.name>>}
             last  == [h.lastAsked EXCEPT ![p.link] = p.name]
  <1>2. Asked(h, p) = [h EXCEPT !.asked = asked, !.lastAsked = last]
    BY DEF Asked, History
  <1>3. asked \in SUBSET (Link \X Name)
    BY <1>1 DEF History
  <1>4. /\ last \in [Link -> Name \cup {NoName}]
        /\ \A l \in Link : last[l] = IF l = p.link THEN p.name ELSE h.lastAsked[l]
    BY <1>1 DEF History
  <1> HIDE DEF asked, last
  <1>5. /\ Asked(h, p) \in History
        /\ Asked(h, p).asked = asked
        /\ Asked(h, p).tried = h.tried
        /\ Asked(h, p).lastTried = h.lastTried
        /\ Asked(h, p).lastAsked = last
    BY <1>2, <1>3, <1>4 DEF History
  <1> QED
    BY <1>4, <1>5 DEF asked
-----------------------------------------------------------------------------
(* A router of two links, which one of them asks for one name. *)

\* The sum of two numbers, and of three.
LEMMA SumOfThree ==
  ASSUME NEW x, NEW y, NEW z, x # y, x # z, y # z, NEW f \in [{x, y, z} -> Nat]
  PROVE  SumFunctionOnSet(f, {x, y, z}) = f[x] + f[y] + f[z]
  <1> DEFINE S == {x, y, z}
             none == [s \in S |-> 0]
             one == [s \in S |-> IF s = x THEN f[x] ELSE 0]
             two == [s \in S |-> IF s = z THEN 0 ELSE f[s]]
  <1>1. IsFiniteSet(S)
    <2>1. IsFiniteSet({x} \cup {y})
      BY FS_Singleton, FS_Union
    <2>2. IsFiniteSet(({x} \cup {y}) \cup {z})
      BY <2>1, FS_Singleton, FS_Union
    <2>3. S = ({x} \cup {y}) \cup {z}
      OBVIOUS
    <2> QED
      BY <2>2, <2>3
  <1>2. SumFunctionOnSet(none, S) = 0
    <2>1. Cardinality({}) = 0
      BY FS_EmptySet
    <2> QED
      BY <1>1, <2>1, SumCounts
  <1>3. SumFunctionOnSet(one, S) = SumFunctionOnSet(none, S) + f[x]
    <2>1. GrownAt(one, none, S, x, f[x])
      BY DEF GrownAt
    <2> QED
      BY <1>1, <2>1, SumGrown
  <1>4. SumFunctionOnSet(two, S) = SumFunctionOnSet(one, S) + f[y]
    <2>1. GrownAt(two, one, S, y, f[y])
      BY DEF GrownAt
    <2> QED
      BY <1>1, <2>1, SumGrown
  <1>5. SumFunctionOnSet(f, S) = SumFunctionOnSet(two, S) + f[z]
    <2>1. GrownAt(f, two, S, z, f[z])
      BY DEF GrownAt
    <2> QED
      BY <1>1, <2>1, SumGrown
  <1> HIDE DEF S, none, one, two
  <1> QED
    BY <1>2, <1>3, <1>4, <1>5 DEF S

(***************************************************************************)
(* Link a may have asked for name n, and nobody else for anything: the     *)
(* router has met both links, and was trained by requests for n alone.     *)
(***************************************************************************)
Relays(r, a, b, n) ==
  /\ r \in RouterTables
  /\ r.known = Link
  /\ r.pending[b] = << >>
  /\ r.count[a] >= 1 /\ r.count[b] >= 1
  /\ r.count[Choke] = r.freq[n][Choke]

\* The router has these links, and there is this name.
TwoLinks(a, b, n) == a # b /\ Link = {a, b} /\ IsInjective(LinkPid) /\ Name = {n}

\* So few requests of n are unanswered that the choke weighs less than DeepSixPercent.
FewUnanswered(r, n) == 100 * r.freq[n][Choke] < DeepSixPercent * (r.freq[n][Choke] + 2)

\* The name has been asked for, and the request has been forwarded.
HasRelayed(r, a, b, n) == n \in ToSet(r.pending[a]) /\ n \in ToSet(r.forwarded[b])

LEMMA NotDeepSixed ==
  ASSUME NEW a, NEW b, NEW n, TwoLinks(a, b, n), NEW r, Relays(r, a, b, n), FewUnanswered(r, n)
  PROVE  ~MayDeepSix(r, n)
  <1> DEFINE f == r.freq[n][Choke]
             total == Total(r.count)
  <1>1. /\ r.count \in [Class -> Nat] /\ f \in Nat /\ DeepSixPercent \in Nat /\ DeepSixPercent > 0
        /\ InvMinProb \in Nat /\ InvMinProb > 0
        /\ r.count[Choke] = f /\ r.count[a] >= 1 /\ r.count[b] >= 1
    BY WeightsAssumption, InvMinProbAssumption DEF TwoLinks, Relays, RouterTables, Class
  <1>2. total = r.count[a] + r.count[b] + f
    <2>1. Class = {a, b, Choke} /\ a # Choke /\ b # Choke
      BY ChokeIsNoLink DEF TwoLinks, Class
    <2> QED
      BY <1>1, <2>1, SumOfThree DEF TwoLinks, Total
  <1>3. total \in Nat /\ total >= f + 2
    BY <1>1, <1>2 DEF TwoLinks, Class
  <1>4. ChokeScore(r, n) \in Nat /\ ChokeScore(r, n) <= f * InvMinProb
    <2>1. CASE f > 0
      BY <1>1, <2>1 DEF ChokeScore, Score
    <2>2. CASE f = 0
      <3>1. 0 * InvMinProb = 0
        BY <1>1
      <3> QED
        BY <1>1, <2>2, <3>1 DEF ChokeScore, Score
    <2> QED
      BY <1>1, <2>1, <2>2
  <1> HIDE DEF f, total
  <1>5. 100 * (f * InvMinProb) < DeepSixPercent * InvMinProb * total
    <2>1. 100 * f < DeepSixPercent * total
      <3>1. DeepSixPercent * (f + 2) <= DeepSixPercent * total
        BY <1>1, <1>3
      <3> QED
        BY <1>1, <1>3, <3>1 DEF FewUnanswered, f
    <2>2. InvMinProb * (100 * f) < InvMinProb * (DeepSixPercent * total)
      BY <1>1, <1>3, <2>1
    <2> QED
      BY <1>1, <1>3, <2>2
  <1>6. 100 * ChokeScore(r, n) <= 100 * (f * InvMinProb)
    BY <1>1, <1>4
  <1>7. f * InvMinProb \in Nat /\ DeepSixPercent * InvMinProb * total \in Nat
    BY <1>1, <1>3
  <1>8. ~(100 * ChokeScore(r, n) >= DeepSixPercent * InvMinProb * total)
    BY <1>4, <1>5, <1>6, <1>7
  <1> QED
    BY <1>8 DEF MayDeepSix, DeepSixWeight, total

\* One link can be ranked, or put in order, in one way.
LEMMA OneOrder ==
  ASSUME NEW x
  PROVE  SetToSeqs({x}) = {<<x>>}
  <1>1. Cardinality({x}) = 1
    BY FS_Singleton
  <1>2. \A order \in [1 .. 1 -> {x}] : order = <<x>>
    OBVIOUS
  <1>3. <<x>> \in [1 .. 1 -> {x}]
    OBVIOUS
  <1> QED
    BY <1>1, <1>2, <1>3 DEF SetToSeqs

\* A request of the one link goes to the other.
LEMMA RelaysRequest ==
  ASSUME NEW a, NEW b, NEW n, TwoLinks(a, b, n),
         NEW r, Relays(r, a, b, n), FewUnanswered(r, n),
         NEW p \in Packet, p.kind = "Request", p.link = a,
         HandlePacket(Admitted(r, a), p, << >>)
  PROVE  /\ out' = <<ToLink(p, b)>>
         /\ Relays(router', a, b, n)
         /\ HasRelayed(router', a, b, n)
         /\ router'.freq[n][Choke] = r.freq[n][Choke] + 1
  <1>0. a # b /\ Link = {a, b} /\ IsInjective(LinkPid) /\ n \in Name /\ Name = {n}
    BY DEF TwoLinks
  <1>1. r \in RouterTables /\ r.known = Link /\ r.pending[b] = << >> /\ Admitted(r, a) = r
    BY <1>0 DEF Relays, Admitted
  <1>2. p.name = n
    BY <1>0 DEF Packet
  <1>3. ForwardRequest(r, p, << >>)
    <2>1. ToSet(<< >>) = {}
      BY DEF ToSet
    <2>2. ~StoredFor(<< >>, p)
      BY <2>1 DEF StoredFor
    <2>3. ~MayDeepSix(r, n)
      BY NotDeepSixed
    <2> QED
      BY <1>0, <1>1, <1>2, <2>2, <2>3
         DEF HandlePacket, HandleRequest, HandleResponse, AnswerFromStore, DeepSix
  <1>4. Candidates(r, p) = {b}
    BY <1>0, <1>1, LinkPidAssumption DEF Candidates, IsInjective
  <1>5. Targets(r, p) = {b}
    BY <1>0, <1>1, <1>4 DEF Targets, Holds, ToSet
  <1>6. out' = <<ToLink(p, b)>>
    <2>1. PICK order \in SetToSeqs({b}) : out' = [i \in DOMAIN order |-> ToLink(p, order[i])]
      BY <1>3, <1>5 DEF ForwardRequest, Rankings
    <2>2. order = <<b>>
      BY <2>1, OneOrder
    <2> QED
      BY <2>1, <2>2
  <1> DEFINE q == Recorded(r, p)
             pend == TouchedAt(q.pending, {b}, n)
             forw == InsertedAt(q.forwarded, {b}, n)
  <1>7. /\ q \in RouterTables /\ q.known = Link /\ q.forwarded = r.forwarded
        /\ n \in ToSet(q.pending[a]) /\ q.pending[b] = << >>
        /\ q.pending \in [Link -> Seq(Name)] /\ q.forwarded \in [Link -> Seq(Name)]
    <2>1. q \in RouterTables /\ q.known = r.known /\ q.forwarded = r.forwarded
      BY <1>0, <1>1, RecordedProperties
    <2>2. n \in ToSet(q.pending[a]) /\ q.pending[b] = r.pending[b]
      BY <1>0, <1>1, <1>2, RecordedProperties
    <2> QED
      BY <1>0, <1>1, <2>1, <2>2 DEF RouterTables
  <1>8. q.count = [r.count EXCEPT ![Choke] = @ + 1]
        /\ q.freq = [r.freq EXCEPT ![n] = [r.freq[n] EXCEPT ![Choke] = r.freq[n][Choke] + 1]]
    BY <1>0, <1>1, <1>2 DEF Recorded, TrainedCount, TrainedFreq, RouterTables
  <1>9. /\ q.count[a] = r.count[a] /\ q.count[b] = r.count[b]
        /\ q.count[Choke] = r.count[Choke] + 1
        /\ q.freq[n][Choke] = r.freq[n][Choke] + 1
    BY <1>0, <1>1, <1>8, ChokeIsNoLink DEF RouterTables, Class
  <1>10. router' = [q EXCEPT !.pending = pend, !.forwarded = forw]
    BY <1>2, <1>3, <1>4, <1>5 DEF ForwardRequest
  <1>11. /\ pend \in [Link -> Seq(Name)]
         /\ pend[b] = << >>
         /\ n \in ToSet(pend[a])
    <2>0. {b} \in SUBSET Link
      BY <1>0
    <2>1. pend \in [Link -> Seq(Name)] /\ \A l \in Link : ToSet(pend[l]) = ToSet(q.pending[l])
      BY <1>0, <1>7, <2>0, TouchedAtProperties, ZenonT(60)
    <2>2. pend[b] = << >>
      BY <1>0, <1>7 DEF TouchedAt, Touched, Holds, ToSet
    <2> QED
      BY <1>0, <1>7, <2>1, <2>2
  <1>12. /\ forw \in [Link -> Seq(Name)]
         /\ n \in ToSet(forw[b])
    BY <1>0, <1>7, InsertedAtProperties
  <1> HIDE DEF q, pend, forw
  <1>13. /\ router' \in RouterTables
         /\ router'.known = q.known /\ router'.count = q.count /\ router'.freq = q.freq
         /\ router'.pending = pend /\ router'.forwarded = forw
    BY <1>0, <1>7, <1>10, <1>11, <1>12 DEF RouterTables
  <1>14. Relays(router', a, b, n)
    BY <1>0, <1>7, <1>9, <1>11, <1>13 DEF Relays
  <1> QED
    BY <1>6, <1>9, <1>11, <1>12, <1>13, <1>14 DEF HasRelayed

\* The response of the other goes to the one that asked.
LEMMA RelaysResponse ==
  ASSUME NEW a, NEW b, NEW n, TwoLinks(a, b, n),
         NEW r, Relays(r, a, b, n), HasRelayed(r, a, b, n),
         NEW p \in Packet, p.kind = "Response", p.link = b,
         HandlePacket(Admitted(r, b), p, << >>)
  PROVE  /\ out' = <<ToLink(p, a)>>
         /\ Relays(router', a, b, n)
         /\ HasRelayed(router', a, b, n)
         /\ router'.freq[n][Choke] = r.freq[n][Choke]
  <1>0. a # b /\ Link = {a, b} /\ IsInjective(LinkPid) /\ n \in Name /\ Name = {n}
    BY DEF TwoLinks
  <1>1. /\ r \in RouterTables /\ r.known = Link /\ r.pending[b] = << >> /\ Admitted(r, b) = r
        /\ r.pending \in [Link -> Seq(Name)] /\ r.forwarded \in [Link -> Seq(Name)]
        /\ r.count \in [Class -> Nat] /\ r.freq \in [Name -> [Class -> Nat]]
    BY <1>0 DEF Relays, Admitted, RouterTables
  <1>2. p.name = n
    BY <1>0 DEF Packet
  <1>3. ForwardResponse(r, p)
    BY <1>0, <1>1, <1>2 DEF HandlePacket, HandleRequest, HandleResponse, IgnoreResponse,
                      Expected, HasRelayed, Holds
  <1>4. Candidates(r, p) = {a}
    BY <1>0, <1>1, LinkPidAssumption DEF Candidates, IsInjective
  <1>5. Askers(r, p) = {a}
    BY <1>2, <1>4 DEF Askers, Holds, HasRelayed
  <1>6. out' = <<ToLink(p, a)>>
    <2>1. PICK order \in SetToSeqs({a}) : out' = [i \in DOMAIN order |-> ToLink(p, order[i])]
      BY <1>3, <1>5 DEF ForwardResponse
    <2>2. order = <<a>>
      BY <2>1, OneOrder
    <2> QED
      BY <2>1, <2>2
  <1> DEFINE pend  == TouchedAt(r.pending, {a}, n)
             forw  == [r.forwarded EXCEPT ![b] = Touched(@, n)]
             count == TrainedCount(r.count, b, SuperTraining)
             freq  == TrainedFreq(r.freq, n, b, SuperTraining)
  <1>7. router' = [r EXCEPT !.pending = pend, !.forwarded = forw, !.count = count, !.freq = freq]
    <2>1. router' = [r EXCEPT !.forwarded[b] = Touched(@, n), !.pending = pend,
                              !.count = count, !.freq = freq]
      BY <1>2, <1>3, <1>4 DEF ForwardResponse
    <2> HIDE DEF pend, count, freq
    <2> QED
      BY <1>0, <1>1, <2>1 DEF RouterTables
  <1>8. /\ pend \in [Link -> Seq(Name)]
        /\ pend[b] = << >>
        /\ n \in ToSet(pend[a])
    <2>0. {a} \in SUBSET Link
      BY <1>0
    <2>1. pend \in [Link -> Seq(Name)] /\ \A l \in Link : ToSet(pend[l]) = ToSet(r.pending[l])
      BY <1>0, <1>1, <2>0, TouchedAtProperties
    <2>2. pend[b] = << >>
      BY <1>0, <1>1 DEF TouchedAt
    <2> QED
      BY <1>0, <2>1, <2>2 DEF HasRelayed
  <1>9. /\ forw \in [Link -> Seq(Name)]
        /\ n \in ToSet(forw[b])
    <2>1. /\ Touched(r.forwarded[b], n) \in Seq(Name)
          /\ ToSet(Touched(r.forwarded[b], n)) = ToSet(r.forwarded[b])
      BY <1>0, <1>1, TouchedProperties
    <2> QED
      BY <1>0, <1>1, <2>1 DEF HasRelayed
  <1>10. /\ count \in [Class -> Nat] /\ freq \in [Name -> [Class -> Nat]]
         /\ count[a] >= 1 /\ count[b] >= 1
         /\ count[Choke] = r.count[Choke] /\ freq[n][Choke] = r.freq[n][Choke]
    <2>1. SuperTraining \in Nat /\ b \in Class /\ a \in Class /\ Choke # a /\ Choke # b
      BY <1>0, WeightsAssumption, ChokeIsNoLink DEF Class
    <2>2. count \in [Class -> Nat] /\ freq \in [Name -> [Class -> Nat]]
      BY <1>0, <1>1, <2>1, TrainedProperties
    <2>3. count[a] = r.count[a] /\ count[b] = r.count[b] + SuperTraining
          /\ count[Choke] = r.count[Choke]
      BY <1>0, <1>1, <2>1 DEF TrainedCount, Class
    <2>4. freq[n][Choke] = r.freq[n][Choke]
      BY <1>0, <1>1, <2>1 DEF TrainedFreq
    <2>5. r.count[a] \in Nat /\ r.count[b] \in Nat /\ r.count[a] >= 1 /\ r.count[b] >= 1
      BY <1>0, <1>1, <2>1 DEF Relays
    <2> QED
      BY <2>1, <2>2, <2>3, <2>4, <2>5
  <1> HIDE DEF pend, forw, count, freq
  <1>11. /\ router' \in RouterTables
         /\ router'.known = Link /\ router'.count = count /\ router'.freq = freq
         /\ router'.pending = pend /\ router'.forwarded = forw
    BY <1>0, <1>1, <1>7, <1>8, <1>9, <1>10 DEF RouterTables
  <1>12. Relays(router', a, b, n)
    BY <1>8, <1>10, <1>11 DEF Relays
  <1> QED
    BY <1>6, <1>8, <1>9, <1>10, <1>11, <1>12 DEF HasRelayed
=============================================================================
