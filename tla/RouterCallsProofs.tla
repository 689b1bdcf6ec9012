--------------------------- MODULE RouterCallsProofs --------------------------
(***************************************************************************)
(* Theorems about long histories of one router: what its classifier and    *)
(* its response store amount to, for all links, names, frames, sizes and   *)
(* thresholds, and whatever became of the store between calls.             *)
(***************************************************************************)
EXTENDS RouterCalls, RouterProofs

LEMMA ClassIsFinite == IsFiniteSet(Class) /\ Choke \in Class /\ Link \subseteq Class
  BY LinkIsFinite, FS_AddElement DEF Class

\* What training a class adds to the counts, and what it adds for a name.
CountGrown(new, count, id, by) ==
  /\ new \in [Class -> Nat]
  /\ \A x \in Class : new[x] = IF x = id THEN count[x] + by ELSE count[x]
  /\ Total(new) = Total(count) + by

FreqGrown(new, freq, n, id, by) ==
  /\ new \in [Name -> [Class -> Nat]]
  /\ \A m \in Name, x \in Class :
        new[m][x] = IF m = n /\ x = id THEN freq[m][x] + by ELSE freq[m][x]

\* No class was trained more often than all of them.
LEMMA TotalType ==
  ASSUME NEW count \in [Class -> Nat]
  PROVE  Total(count) \in Nat /\ \A x \in Class : count[x] <= Total(count)
  BY ClassIsFinite, SumType DEF Total

\* Training a class adds to its count and to the total, and to nothing else.
LEMMA CountTrained ==
  ASSUME NEW count \in [Class -> Nat], NEW id \in Class, NEW by \in Nat
  PROVE  CountGrown(TrainedCount(count, id, by), count, id, by)
  <1> DEFINE new == TrainedCount(count, id, by)
  <1>1. /\ new \in [Class -> Nat]
        /\ \A x \in Class : new[x] = IF x = id THEN count[x] + by ELSE count[x]
    BY DEF TrainedCount
  <1> HIDE DEF new
  <1>2. SumFunctionOnSet(new, Class) = SumFunctionOnSet(count, Class) + by
    <2>1. GrownAt(new, count, Class, id, by)
      BY <1>1 DEF GrownAt
    <2>2. IsFiniteSet(Class)
      BY ClassIsFinite
    <2> QED
      BY <2>1, <2>2, SumGrown
  <1> QED
    BY <1>1, <1>2 DEF CountGrown, Total, new

\* Training a class for a name adds to its frequency for that name only.
LEMMA FreqTrained ==
  ASSUME NEW freq \in [Name -> [Class -> Nat]], NEW n \in Name, NEW id \in Class, NEW by \in Nat
  PROVE  FreqGrown(TrainedFreq(freq, n, id, by), freq, n, id, by)
  <1> DEFINE row == [freq[n] EXCEPT ![id] = @ + by]
  <1>1. /\ row \in [Class -> Nat]
        /\ \A x \in Class : row[x] = IF x = id THEN freq[n][x] + by ELSE freq[n][x]
    OBVIOUS
  <1>2. TrainedFreq(freq, n, id, by) = [freq EXCEPT ![n] = row]
    BY DEF TrainedFreq
  <1> HIDE DEF row
  <1> QED
    BY <1>1, <1>2 DEF FreqGrown
-----------------------------------------------------------------------------
(* What a call does, in one of three ways. *)

\* A request that the store does not answer.
IsAsk(p) == p.kind = "Request" /\ ~StoredFor(store, p)

\* A response that was asked for.
IsAnswer(r, p) == p.kind = "Response" /\ Expected(r, p)

\* What every call does with the tables of a router.
CallTrains(r, p) ==
  /\ router' \in RouterTables
  /\ out' \in Seq(Packet)
  /\ history' \in History
  /\ router'.known = r.known
  /\ IsAsk(p) => /\ router'.count = TrainedCount(r.count, Choke, 1)
                 /\ router'.freq = TrainedFreq(r.freq, p.name, Choke, 1)
  /\ IsAnswer(r, p) => /\ router'.count = TrainedCount(r.count, p.link, SuperTraining)
                       /\ router'.freq = TrainedFreq(r.freq, p.name, p.link, SuperTraining)
  /\ ~IsAsk(p) /\ ~IsAnswer(r, p) => router' = r

\* What becomes of a request that the store does not answer: it is kept back
\* only by the choke, or goes to all its targets in the order of their ranks.
CallRanks(r, p) ==
  IsAsk(p) =>
    \/ MayDeepSix(r, p.name) /\ out' = << >>
    \/ /\ MayPass(r, p.name)
       /\ Targets(r, p) # {} => out' # << >>
       /\ \E order \in Rankings(r.count, r.freq, p.name, Targets(r, p)) :
             out' = [i \in DOMAIN order |-> ToLink(p, order[i])]

LEMMA FromStoreTrains ==
  ASSUME NEW r \in RouterTables, NEW p \in Packet, history \in History,
         p.kind = "Request", AnswerFromStore(r, p, store)
  PROVE  CallTrains(r, p) /\ CallRanks(r, p)
  <1> DEFINE q == [p EXCEPT !.kind = "Response"]
  <1>1. q \in Packet
    BY DEF Packet
  <1>2. out' \in Seq(Packet)
    BY <1>1 DEF AnswerFromStore
  <1>3. ~IsAsk(p) /\ ~IsAnswer(r, p)
    BY DEF AnswerFromStore, IsAsk, IsAnswer
  <1> QED
    BY <1>2, <1>3 DEF AnswerFromStore, CallTrains, CallRanks

LEMMA DeepSixTrains ==
  ASSUME NEW r \in RouterTables, NEW p \in Packet, history \in History,
         p.kind = "Request", DeepSix(r, p, store)
  PROVE  CallTrains(r, p) /\ CallRanks(r, p)
  <1>1. router' = Recorded(r, p) /\ out' = << >> /\ history' = Asked(history, p)
    BY DEF DeepSix
  <1>2. router' \in RouterTables /\ router'.known = r.known /\ history' \in History
    BY <1>1, RecordedProperties, AskedProperties
  <1>3. /\ router'.count = TrainedCount(r.count, Choke, 1)
        /\ router'.freq = TrainedFreq(r.freq, p.name, Choke, 1)
    BY <1>1 DEF Recorded, RouterTables
  <1>4. IsAsk(p) /\ ~IsAnswer(r, p)
    BY DEF DeepSix, IsAsk, IsAnswer
  <1>5. out' \in Seq(Packet)
    BY <1>1, EmptySeq
  <1>6. CallTrains(r, p)
    BY <1>2, <1>3, <1>4, <1>5 DEF CallTrains
  <1>7. CallRanks(r, p)
    BY <1>1 DEF DeepSix, CallRanks
  <1> QED
    BY <1>6, <1>7

LEMMA ForwardRequestTrains ==
  ASSUME NEW r \in RouterTables, NEW p \in Packet, history \in History,
         p.kind = "Request", ForwardRequest(r, p, store)
  PROVE  CallTrains(r, p) /\ CallRanks(r, p)
  <1> DEFINE rec       == Recorded(r, p)
             pending   == TouchedAt(rec.pending, Candidates(r, p), p.name)
             forwarded == InsertedAt(rec.forwarded, Targets(r, p), p.name)
             tried     == Asked(history, p).tried \cup (Targets(r, p) \X {p.name})
             lastTried == [l \in Link |-> IF l \in Targets(r, p)
                                          THEN p.name ELSE Asked(history, p).lastTried[l]]
  <1>1. p.link \in Link /\ p.name \in Name
    BY DEF Packet
  <1>2. Candidates(r, p) \subseteq Link /\ Targets(r, p) \subseteq Link
    BY DEF Candidates, Targets, RouterTables
  <1>3. rec \in RouterTables /\ rec.known = r.known
    BY RecordedProperties
  <1>4. rec.count = TrainedCount(r.count, Choke, 1) /\ rec.freq = TrainedFreq(r.freq, p.name, Choke, 1)
    BY DEF Recorded, RouterTables
  <1>5. router' = [rec EXCEPT !.pending = pending, !.forwarded = forwarded]
    BY DEF ForwardRequest
  <1> HIDE DEF rec
  <1>6. rec.pending \in [Link -> Seq(Name)] /\ rec.forwarded \in [Link -> Seq(Name)]
    BY <1>3 DEF RouterTables
  <1>7. pending \in [Link -> Seq(Name)] /\ forwarded \in [Link -> Seq(Name)]
    BY <1>1, <1>2, <1>6, TouchedAtProperties, InsertedAtProperties
  <1> HIDE DEF pending, forwarded
  <1>8. /\ router' \in RouterTables /\ router'.known = rec.known
        /\ router'.count = rec.count /\ router'.freq = rec.freq
    BY <1>3, <1>5, <1>7 DEF RouterTables
  <1>9. history' \in History
    <2>1. Asked(history, p) \in History
      BY AskedProperties
    <2>2. tried \in SUBSET (Link \X Name) /\ lastTried \in [Link -> Name \cup {NoName}]
      BY <1>1, <1>2, <2>1 DEF History
    <2>3. history' = [Asked(history, p) EXCEPT !.tried = tried, !.lastTried = lastTried]
      BY DEF ForwardRequest
    <2> HIDE DEF tried, lastTried
    <2> QED
      BY <2>1, <2>2, <2>3 DEF History
  <1>10. PICK order \in Rankings(r.count, r.freq, p.name, Targets(r, p)) :
            out' = [i \in DOMAIN order |-> ToLink(p, order[i])]
    BY DEF ForwardRequest
  <1>11. order \in SetToSeqs(Targets(r, p))
    BY DEF Rankings
  <1>12. /\ out' \in Seq(Packet)
         /\ \A l \in Targets(r, p) : \E i \in DOMAIN out' : out'[i].link = l
    BY <1>2, <1>10, <1>11, BatchProperties
  <1>13. Targets(r, p) # {} => out' # << >>
    BY <1>12
  <1>14. IsAsk(p) /\ ~IsAnswer(r, p) /\ MayPass(r, p.name)
    BY DEF ForwardRequest, IsAsk, IsAnswer
  <1>15. CallTrains(r, p)
    BY <1>3, <1>4, <1>8, <1>9, <1>12, <1>14 DEF CallTrains
  <1>16. CallRanks(r, p)
    BY <1>10, <1>13, <1>14 DEF CallRanks
  <1> QED
    BY <1>15, <1>16

LEMMA IgnoreResponseTrains ==
  ASSUME NEW r \in RouterTables, NEW p \in Packet, history \in History,
         p.kind = "Response", IgnoreResponse(r, p)
  PROVE  CallTrains(r, p) /\ CallRanks(r, p)
  <1>1. ~IsAsk(p) /\ ~IsAnswer(r, p)
    BY DEF IgnoreResponse, IsAsk, IsAnswer
  <1>2. out' \in Seq(Packet)
    BY EmptySeq DEF IgnoreResponse
  <1> QED
    BY <1>1, <1>2 DEF IgnoreResponse, CallTrains, CallRanks

LEMMA ForwardResponseTrains ==
  ASSUME NEW r \in RouterTables, NEW p \in Packet, history \in History,
         p.kind = "Response", ForwardResponse(r, p)
  PROVE  CallTrains(r, p) /\ CallRanks(r, p)
  <1> DEFINE forwarded == [r.forwarded EXCEPT ![p.link] = Touched(@, p.name)]
             pending   == TouchedAt(r.pending, Candidates(r, p), p.name)
             count     == TrainedCount(r.count, p.link, SuperTraining)
             freq      == TrainedFreq(r.freq, p.name, p.link, SuperTraining)
  <1>1. p.link \in Link /\ p.name \in Name
    BY DEF Packet
  <1>2. Candidates(r, p) \subseteq Link /\ Askers(r, p) \subseteq Link
    BY DEF Candidates, Askers, RouterTables
  <1>3. router' = [r EXCEPT !.forwarded = forwarded, !.pending = pending,
                            !.count = count, !.freq = freq]
    BY DEF ForwardResponse, RouterTables
  <1>4. /\ r.pending \in [Link -> Seq(Name)] /\ r.forwarded \in [Link -> Seq(Name)]
        /\ r.count \in [Class -> Nat] /\ r.freq \in [Name -> [Class -> Nat]]
    BY DEF RouterTables
  <1>5. pending \in [Link -> Seq(Name)]
    BY <1>1, <1>2, <1>4, TouchedAtProperties
  <1>6. forwarded \in [Link -> Seq(Name)]
    <2>1. Touched(r.forwarded[p.link], p.name) \in Seq(Name)
      BY <1>1, <1>4, TouchedProperties
    <2> QED
      BY <1>4, <2>1
  <1>7. count \in [Class -> Nat] /\ freq \in [Name -> [Class -> Nat]]
    BY <1>1, <1>4, WeightsAssumption, ClassIsFinite, TrainedProperties
  <1> HIDE DEF forwarded, pending, count, freq
  <1>8. /\ router' \in RouterTables /\ router'.known = r.known
        /\ router'.count = count /\ router'.freq = freq
    BY <1>3, <1>5, <1>6, <1>7 DEF RouterTables
  <1>9. PICK order \in SetToSeqs(Askers(r, p)) :
           out' = [i \in DOMAIN order |-> ToLink(p, order[i])]
    BY DEF ForwardResponse
  <1>10. out' \in Seq(Packet)
    BY <1>2, <1>9, BatchProperties
  <1>11. ~IsAsk(p) /\ IsAnswer(r, p) /\ history' = history
    BY DEF ForwardResponse, IsAsk, IsAnswer
  <1> QED
    BY <1>8, <1>10, <1>11 DEF CallTrains, CallRanks, count, freq

LEMMA HandlePacketTrains ==
  ASSUME NEW r \in RouterTables, NEW p \in Packet, history \in History,
         HandlePacket(r, p, store)
  PROVE  CallTrains(r, p) /\ CallRanks(r, p)
  BY FromStoreTrains, DeepSixTrains, ForwardRequestTrains, IgnoreResponseTrains,
     ForwardResponseTrains DEF HandlePacket, HandleRequest, HandleResponse
-----------------------------------------------------------------------------
(* What the classifier has counted. *)

Answers == [Link -> [Name -> Nat]]

\* All answers of a table s.
AllOf(s) == SumFunction([l \in Link |-> SumFunction(s[l])])

\* TablesTally, for any tables r, a requests, and answers s.
FreqsTally(r, a, s) ==
  \A n \in Name : /\ r.freq[n][Choke] <= a
                  /\ \A l \in Link : r.freq[n][l] = SuperTraining * s[l][n]

CountsTally(r, s) ==
  \A l \in Link :
     r.count[l] = SuperTraining * SumFunction(s[l]) + IF l \in r.known THEN 1 ELSE 0

Tallied(r, a, s) ==
  /\ r.count[Choke] = a
  /\ CountsTally(r, s)
  /\ Total(r.count) = a + Cardinality(r.known) + SuperTraining * AllOf(s)
  /\ FreqsTally(r, a, s)

LEMMA Times ==
  ASSUME NEW x \in Nat
  PROVE  SuperTraining * x \in Nat /\ SuperTraining * (x + 1) = SuperTraining * x + SuperTraining
  BY WeightsAssumption

LEMMA AnswersSum ==
  ASSUME NEW s \in Answers
  PROVE  AllOf(s) \in Nat /\ \A l \in Link : SumFunction(s[l]) \in Nat
  <1>1. ASSUME NEW l \in Link PROVE SumFunction(s[l]) \in Nat
    <2>1. DOMAIN s[l] = Name /\ \A n \in Name : s[l][n] \in Nat
      BY DEF Answers
    <2>2. SumFunctionOnSet(s[l], Name) \in Nat
      BY <2>1, NameIsFinite, SumType
    <2> QED
      BY <2>1, <2>2 DEF SumFunction
  <1> DEFINE f == [l \in Link |-> SumFunction(s[l])]
  <1>2. DOMAIN f = Link /\ \A l \in Link : f[l] \in Nat
    BY <1>1
  <1>3. SumFunction(f) = SumFunctionOnSet(f, DOMAIN f)
    BY DEF SumFunction
  <1> HIDE DEF f
  <1>4. SumFunctionOnSet(f, Link) \in Nat
    BY <1>2, LinkIsFinite, SumType
  <1> QED
    BY <1>1, <1>2, <1>3, <1>4 DEF AllOf, f

\* t is s with one more answer: one more for its link, and one more in all.
HasOneMore(t, s, y, n) ==
  /\ t \in Answers
  /\ \A l \in Link, m \in Name : t[l][m] = IF l = y /\ m = n THEN s[l][m] + 1 ELSE s[l][m]
  /\ \A l \in Link : SumFunction(t[l]) =
                       IF l = y THEN SumFunction(s[l]) + 1 ELSE SumFunction(s[l])
  /\ AllOf(t) = AllOf(s) + 1

LEMMA OneMoreAnswer ==
  ASSUME NEW s \in Answers, NEW y \in Link, NEW n \in Name
  PROVE  HasOneMore([s EXCEPT ![y][n] = @ + 1], s, y, n)
  <1> DEFINE row == [s[y] EXCEPT ![n] = @ + 1]
             t   == [s EXCEPT ![y][n] = @ + 1]
  <1>1. /\ row \in [Name -> Nat]
        /\ \A m \in Name : row[m] = IF m = n THEN s[y][m] + 1 ELSE s[y][m]
    BY DEF Answers
  <1>2. t = [s EXCEPT ![y] = row]
    OBVIOUS
  <1> HIDE DEF row, t
  <1>3. t \in Answers /\ \A l \in Link : t[l] = IF l = y THEN row ELSE s[l]
    BY <1>1, <1>2 DEF Answers
  <1>4. DOMAIN row = Name /\ DOMAIN s[y] = Name /\ \A m \in Name : s[y][m] \in Nat
    BY <1>1 DEF Answers
  <1>5. SumFunction(row) = SumFunction(s[y]) + 1
    <2>1. GrownAt(row, s[y], Name, n, 1)
      BY <1>1, <1>4 DEF GrownAt
    <2>2. SumFunctionOnSet(row, Name) = SumFunctionOnSet(s[y], Name) + 1
      BY <2>1, NameIsFinite, SumGrown
    <2> QED
      BY <1>4, <2>2 DEF SumFunction
  <1>6. \A l \in Link : SumFunction(t[l]) = IF l = y THEN SumFunction(s[l]) + 1 ELSE SumFunction(s[l])
    BY <1>3, <1>5
  <1>7. AllOf(t) = AllOf(s) + 1
    <2> DEFINE f == [l \in Link |-> SumFunction(s[l])]
               h == [l \in Link |-> SumFunction(t[l])]
    <2>1. GrownAt(h, f, Link, y, 1)
      BY <1>6, AnswersSum DEF GrownAt
    <2>2. DOMAIN f = Link /\ DOMAIN h = Link
      OBVIOUS
    <2>3. AllOf(s) = SumFunction(f) /\ AllOf(t) = SumFunction(h)
      BY DEF AllOf
    <2> HIDE DEF f, h
    <2>4. SumFunctionOnSet(h, Link) = SumFunctionOnSet(f, Link) + 1
      BY <2>1, LinkIsFinite, SumGrown
    <2> QED
      BY <2>2, <2>3, <2>4 DEF SumFunction
  <1>8. \A l \in Link, m \in Name : t[l][m] = IF l = y /\ m = n THEN s[l][m] + 1 ELSE s[l][m]
    BY <1>1, <1>3
  <1> QED
    BY <1>3, <1>6, <1>7, <1>8 DEF HasOneMore, t

Asks == [Name -> Nat]

\* No name was asked for more often than all of them.
LEMMA AsksSum ==
  ASSUME NEW a \in Asks
  PROVE  SumFunction(a) \in Nat /\ \A n \in Name : a[n] \in Nat /\ a[n] <= SumFunction(a)
  <1>1. DOMAIN a = Name /\ \A n \in Name : a[n] \in Nat
    BY DEF Asks
  <1> QED
    BY <1>1, NameIsFinite, SumType DEF SumFunction

\* The asks b are one more than the asks a, for a name n.
AskedOnceMore(b, a, n) ==
  /\ b \in Asks
  /\ SumFunction(b) = SumFunction(a) + 1
  /\ \A m \in Name : b[m] = IF m = n THEN a[m] + 1 ELSE a[m]

\* One more request for a name is one more in all.
LEMMA OneMoreAsk ==
  ASSUME NEW a \in Asks, NEW n \in Name
  PROVE  AskedOnceMore([a EXCEPT ![n] = @ + 1], a, n)
  <1> DEFINE b == [a EXCEPT ![n] = @ + 1]
  <1>1. b \in Asks /\ \A m \in Name : b[m] = IF m = n THEN a[m] + 1 ELSE a[m]
    BY DEF Asks
  <1>2. /\ DOMAIN a = Name /\ DOMAIN b = Name
        /\ \A m \in Name : a[m] \in Nat
    BY <1>1 DEF Asks
  <1> HIDE DEF b
  <1>3. GrownAt(b, a, Name, n, 1)
    BY <1>1, <1>2 DEF GrownAt
  <1>4. SumFunctionOnSet(b, Name) = SumFunctionOnSet(a, Name) + 1
    BY <1>3, NameIsFinite, SumGrown
  <1> QED
    BY <1>1, <1>2, <1>4 DEF AskedOnceMore, SumFunction, b

\* A link the broker has not met is trained once.
LEMMA AdmittedTallied ==
  ASSUME NEW r \in RouterTables, NEW y \in Link, NEW a \in Nat, NEW s \in Answers, Tallied(r, a, s)
  PROVE  Tallied(Admitted(r, y), a, s)
  <1> DEFINE q == Admitted(r, y)
  <1>1. CASE y \in r.known
    BY <1>1 DEF Admitted
  <1>2. CASE y \notin r.known
    <2>1. /\ q.known = r.known \cup {y} /\ q.freq = r.freq
          /\ q.count = TrainedCount(r.count, y, 1)
      BY <1>2 DEF Admitted, RouterTables
    <2>2. r.count \in [Class -> Nat] /\ y \in Class /\ y # Choke /\ r.known \subseteq Link
      BY ClassIsFinite, ChokeIsNoLink DEF RouterTables
    <2> HIDE DEF q
    <2>3. /\ \A x \in Class : q.count[x] = IF x = y THEN r.count[x] + 1 ELSE r.count[x]
          /\ Total(q.count) = Total(r.count) + 1
      BY <2>1, <2>2, CountTrained, SMTT(30) DEF CountGrown
    <2>4. Cardinality(q.known) = Cardinality(r.known) + 1 /\ Cardinality(r.known) \in Nat
      <3>1. IsFiniteSet(r.known)
        BY <2>2, LinkIsFinite, FS_Subset
      <3> QED
        BY <1>2, <2>1, <3>1, FS_AddElement, FS_CardinalityType
    <2>5. \A l \in Link : SuperTraining * SumFunction(s[l]) \in Nat
      BY AnswersSum, Times
    <2>6. CountsTally(q, s)
      <3>1. ASSUME NEW l \in Link
            PROVE  q.count[l] = SuperTraining * SumFunction(s[l]) + IF l \in q.known THEN 1 ELSE 0
        <4>1. r.count[l] = SuperTraining * SumFunction(s[l]) + IF l \in r.known THEN 1 ELSE 0
          BY DEF Tallied, CountsTally
        <4>2. q.count[l] = IF l = y THEN r.count[l] + 1 ELSE r.count[l]
          BY <2>3, ClassIsFinite
        <4>3. l \in q.known <=> l \in r.known \/ l = y
          BY <2>1
        <4>4. SuperTraining * SumFunction(s[l]) \in Nat
          BY <2>5
        <4> QED
          BY <1>2, <4>1, <4>2, <4>3, <4>4
      <3> QED
        BY <3>1 DEF CountsTally
    <2>7. Total(q.count) = a + Cardinality(q.known) + SuperTraining * AllOf(s)
      <3>1. SuperTraining * AllOf(s) \in Nat
        BY AnswersSum, Times
      <3>2. Total(r.count) = a + Cardinality(r.known) + SuperTraining * AllOf(s)
        BY DEF Tallied
      <3> QED
        BY <2>3, <2>4, <3>1, <3>2
    <2>8. q.count[Choke] = a
      BY <2>2, <2>3, ClassIsFinite DEF Tallied
    <2>9. FreqsTally(q, a, s)
      BY <2>1 DEF FreqsTally, Tallied
    <2> QED
      BY <2>6, <2>7, <2>8, <2>9 DEF Tallied, q
  <1> QED
    BY <1>1, <1>2

\* A request trains the choke.
LEMMA AskTallied ==
  ASSUME NEW r \in RouterTables, NEW q, NEW n \in Name, NEW a \in Nat, NEW s \in Answers,
         Tallied(r, a, s),
         q.known = r.known, q.count = TrainedCount(r.count, Choke, 1),
         q.freq = TrainedFreq(r.freq, n, Choke, 1)
  PROVE  Tallied(q, a + 1, s)
  <1>1. r.count \in [Class -> Nat] /\ r.freq \in [Name -> [Class -> Nat]] /\ Choke \in Class
    BY ClassIsFinite DEF RouterTables
  <1>2. /\ \A x \in Class : q.count[x] = IF x = Choke THEN r.count[x] + 1 ELSE r.count[x]
        /\ Total(q.count) = Total(r.count) + 1
    <2>1. CountGrown(q.count, r.count, Choke, 1)
      BY <1>1, CountTrained
    <2> QED
      BY <2>1 DEF CountGrown
  <1>3. \A m \in Name, x \in Class :
           q.freq[m][x] = IF m = n /\ x = Choke THEN r.freq[m][x] + 1 ELSE r.freq[m][x]
    <2>1. FreqGrown(q.freq, r.freq, n, Choke, 1)
      BY <1>1, FreqTrained
    <2> QED
      BY <2>1 DEF FreqGrown
  <1>4. q.count[Choke] = a + 1
    BY <1>1, <1>2 DEF Tallied
  <1>5. CountsTally(q, s)
    BY <1>2, ClassIsFinite, ChokeIsNoLink DEF Tallied, CountsTally
  <1>6. Total(q.count) = a + 1 + Cardinality(q.known) + SuperTraining * AllOf(s)
    <2>1. SuperTraining * AllOf(s) \in Nat
      BY AnswersSum, Times
    <2>2. Total(r.count) = a + Cardinality(r.known) + SuperTraining * AllOf(s)
      BY DEF Tallied
    <2>3. Cardinality(r.known) \in Nat
      BY LinkIsFinite, FS_Subset, FS_CardinalityType DEF RouterTables
    <2> QED
      BY <1>2, <2>1, <2>2, <2>3
  <1>7. FreqsTally(q, a + 1, s)
    <2>1. ASSUME NEW m \in Name PROVE q.freq[m][Choke] <= a + 1
      <3>1. r.freq[m][Choke] <= a /\ r.freq[m][Choke] \in Nat
        BY <1>1 DEF Tallied, FreqsTally
      <3>2. q.freq[m][Choke] = IF m = n THEN r.freq[m][Choke] + 1 ELSE r.freq[m][Choke]
        BY <1>1, <1>3
      <3> QED
        BY <3>1, <3>2
    <2>2. ASSUME NEW m \in Name, NEW l \in Link PROVE q.freq[m][l] = SuperTraining * s[l][m]
      <3>1. q.freq[m][l] = r.freq[m][l]
        BY <1>3, ClassIsFinite, ChokeIsNoLink
      <3> QED
        BY <3>1 DEF Tallied, FreqsTally
    <2> QED
      BY <2>1, <2>2 DEF FreqsTally
  <1> QED
    BY <1>4, <1>5, <1>6, <1>7 DEF Tallied

\* An answer trains its link.
LEMMA AnswerTallied ==
  ASSUME NEW r \in RouterTables, NEW q, NEW y \in Link, NEW n \in Name, NEW a \in Nat,
         NEW s \in Answers, Tallied(r, a, s),
         q.known = r.known, q.count = TrainedCount(r.count, y, SuperTraining),
         q.freq = TrainedFreq(r.freq, n, y, SuperTraining)
  PROVE  Tallied(q, a, [s EXCEPT ![y][n] = @ + 1])
  <1> DEFINE t == [s EXCEPT ![y][n] = @ + 1]
  <1>1. /\ r.count \in [Class -> Nat] /\ r.freq \in [Name -> [Class -> Nat]]
        /\ y \in Class /\ Choke \in Class /\ y # Choke /\ SuperTraining \in Nat
    BY ClassIsFinite, ChokeIsNoLink, WeightsAssumption DEF RouterTables
  <1>2. /\ \A l \in Link, m \in Name : t[l][m] = IF l = y /\ m = n THEN s[l][m] + 1 ELSE s[l][m]
        /\ \A l \in Link : SumFunction(t[l]) =
                              IF l = y THEN SumFunction(s[l]) + 1 ELSE SumFunction(s[l])
        /\ AllOf(t) = AllOf(s) + 1
    BY OneMoreAnswer DEF HasOneMore
  <1> HIDE DEF t
  <1>3. /\ \A x \in Class : q.count[x] = IF x = y THEN r.count[x] + SuperTraining ELSE r.count[x]
        /\ Total(q.count) = Total(r.count) + SuperTraining
    <2>1. CountGrown(q.count, r.count, y, SuperTraining)
      BY <1>1, CountTrained
    <2> QED
      BY <2>1 DEF CountGrown
  <1>4. \A m \in Name, x \in Class :
           q.freq[m][x] = IF m = n /\ x = y THEN r.freq[m][x] + SuperTraining ELSE r.freq[m][x]
    <2>1. FreqGrown(q.freq, r.freq, n, y, SuperTraining)
      BY <1>1, FreqTrained
    <2> QED
      BY <2>1 DEF FreqGrown
  <1>5. q.count[Choke] = a
    BY <1>1, <1>3 DEF Tallied
  <1>6. CountsTally(q, t)
    <2>1. ASSUME NEW l \in Link
          PROVE  q.count[l] = SuperTraining * SumFunction(t[l]) + IF l \in q.known THEN 1 ELSE 0
      <3>1. r.count[l] = SuperTraining * SumFunction(s[l]) + IF l \in r.known THEN 1 ELSE 0
        BY DEF Tallied, CountsTally
      <3>2. /\ SuperTraining * SumFunction(s[l]) \in Nat
            /\ SuperTraining * (SumFunction(s[l]) + 1) = SuperTraining * SumFunction(s[l]) + SuperTraining
        BY AnswersSum, Times
      <3>3. q.count[l] = IF l = y THEN r.count[l] + SuperTraining ELSE r.count[l]
        BY <1>3, ClassIsFinite
      <3>4. CASE l = y
        BY <1>1, <1>2, <3>1, <3>2, <3>3, <3>4
      <3>5. CASE l # y
        BY <1>2, <3>1, <3>3, <3>5
      <3> QED
        BY <3>4, <3>5
    <2> QED
      BY <2>1 DEF CountsTally
  <1>7. Total(q.count) = a + Cardinality(q.known) + SuperTraining * AllOf(t)
    <2>1. /\ SuperTraining * AllOf(s) \in Nat
          /\ SuperTraining * (AllOf(s) + 1) = SuperTraining * AllOf(s) + SuperTraining
      BY AnswersSum, Times
    <2>2. Total(r.count) = a + Cardinality(r.known) + SuperTraining * AllOf(s)
      BY DEF Tallied
    <2>3. Cardinality(r.known) \in Nat
      BY LinkIsFinite, FS_Subset, FS_CardinalityType DEF RouterTables
    <2> QED
      BY <1>1, <1>2, <1>3, <2>1, <2>2, <2>3
  <1>8. FreqsTally(q, a, t)
    <2>1. ASSUME NEW m \in Name PROVE q.freq[m][Choke] <= a
      BY <1>1, <1>4 DEF Tallied, FreqsTally
    <2>2. ASSUME NEW m \in Name, NEW l \in Link PROVE q.freq[m][l] = SuperTraining * t[l][m]
      <3>1. r.freq[m][l] = SuperTraining * s[l][m] /\ s[l][m] \in Nat
        BY DEF Tallied, FreqsTally, Answers
      <3>2. SuperTraining * (s[l][m] + 1) = SuperTraining * s[l][m] + SuperTraining
        BY <3>1, Times
      <3>3. q.freq[m][l] = IF m = n /\ l = y THEN r.freq[m][l] + SuperTraining ELSE r.freq[m][l]
        BY <1>4, ClassIsFinite
      <3>4. CASE m = n /\ l = y
        BY <1>2, <3>1, <3>2, <3>3, <3>4
      <3>5. CASE ~(m = n /\ l = y)
        BY <1>2, <3>1, <3>3, <3>5
      <3> QED
        BY <3>4, <3>5
    <2> QED
      BY <2>1, <2>2 DEF FreqsTally
  <1> QED
    BY <1>5, <1>6, <1>7, <1>8 DEF Tallied, t
-----------------------------------------------------------------------------
(* Names the choke keeps back. *)

LEMMA TimesKeepsOrder ==
  ASSUME NEW x \in Nat, NEW y \in Nat, NEW k \in Nat \ {0}
  PROVE  x * k >= y * k <=> x >= y
  <1>1. CASE x >= y
    <2>1. x - y \in Nat /\ x * k = y * k + (x - y) * k /\ (x - y) * k >= 0
      BY <1>1
    <2> QED
      BY <1>1, <2>1
  <1>2. CASE ~(x >= y)
    <2>1. y - x - 1 \in Nat /\ y * k = x * k + k + (y - x - 1) * k /\ (y - x - 1) * k >= 0
      BY <1>2
    <2> QED
      BY <1>2, <2>1
  <1> QED
    BY <1>1, <1>2

\* A class trained for the name weighs what it was trained.
LEMMA ScoreOf ==
  ASSUME NEW count, NEW freq \in [Name -> [Class -> Nat]], NEW n \in Name, NEW id \in Class
  PROVE  /\ freq[n][id] > 0 => Score(count, freq, n, id) = freq[n][id] * InvMinProb
         /\ freq[n][id] = 0 /\ KnownName(freq, n) => Score(count, freq, n, id) = count[id]
  <1>1. freq[n][id] \in Nat
    OBVIOUS
  <1>2. ~(freq[n][id] > 0 /\ freq[n][id] = 0)
    BY <1>1
  <1> QED
    BY <1>1, <1>2 DEF Score

\* What keeps a known name back: the choke was trained for it in so many of all
\* cases.  Its minimal probability would never be enough.
LEMMA KeptBack ==
  ASSUME NEW r \in RouterTables, NEW n \in Name, NEW a \in Nat, NEW s \in Answers,
         Tallied(r, a, s), KnownName(r.freq, n), MayDeepSix(r, n)
  PROVE  /\ r.freq[n][Choke] > 0
         /\ 100 * r.freq[n][Choke] >= DeepSixPercent * Total(r.count)
         /\ r.freq[n][Choke] <= a
         /\ a <= Total(r.count)
         /\ Total(r.count) \in Nat
  <1> DEFINE f == r.freq[n][Choke]
             T == Total(r.count)
             P == DeepSixPercent
             I == InvMinProb
  <1>1. /\ f \in Nat /\ Choke \in Class /\ r.count \in [Class -> Nat]
        /\ r.freq \in [Name -> [Class -> Nat]]
    BY ClassIsFinite DEF RouterTables
  <1>2. T \in Nat /\ a <= T /\ r.count[Choke] = a /\ f <= a
    BY <1>1, TotalType DEF Tallied, FreqsTally
  <1>3. P \in 51 .. 100 /\ I \in Nat \ {0, 1}
    BY WeightsAssumption, InvMinProbAssumption
  <1>4. 100 * ChokeScore(r, n) >= (P * I) * T /\ a > 0
    BY <1>2 DEF MayDeepSix, DeepSixWeight, RanksFirst
  <1>5. f > 0 => ChokeScore(r, n) = f * I
    BY <1>1, ScoreOf DEF ChokeScore
  <1>6. f = 0 => ChokeScore(r, n) = a
    BY <1>1, <1>2, ScoreOf DEF ChokeScore
  <1> HIDE DEF f, T, P, I
  <1>7. f # 0
    <2> SUFFICES ASSUME f = 0 PROVE FALSE
      OBVIOUS
    <2>1. 100 * a >= (P * I) * T
      BY <1>4, <1>6
    <2>2. P * I >= 102
      <3>1. P - 51 \in Nat /\ I - 2 \in Nat
        BY <1>3
      <3>2. P * I = 102 + 2 * (P - 51) + 51 * (I - 2) + (P - 51) * (I - 2) /\ (P - 51) * (I - 2) >= 0
        BY <1>3, <3>1
      <3> QED
        BY <3>1, <3>2
    <2>3. (P * I) * T >= 102 * T
      <3>1. P * I \in Nat
        BY <1>3
      <3>2. PICK m \in Nat : m = P * I
        BY <3>1
      <3> QED
        BY <1>2, <1>4, <2>2, <3>2, TimesKeepsOrder
    <2>4. PICK m \in Int : m = (P * I) * T
      BY <1>2, <1>3
    <2>5. 100 * a >= m /\ m >= 102 * T
      BY <2>1, <2>3, <2>4
    <2> QED
      BY <1>2, <1>4, <2>5
  <1>8. f > 0
    BY <1>1, <1>7 DEF f
  <1>9. 100 * f >= P * T
    <2>1. 100 * (f * I) >= (P * I) * T
      BY <1>4, <1>5, <1>8
    <2>2. f \in Nat
      BY <1>1 DEF f
    <2>3. 100 * (f * I) = (100 * f) * I /\ (P * I) * T = (P * T) * I
      BY <1>2, <1>3, <2>2
    <2>4. 100 * f \in Nat /\ P * T \in Nat
      BY <1>2, <1>3, <2>2
    <2> QED
      BY <1>3, <2>1, <2>3, <2>4, TimesKeepsOrder
  <1> QED
    BY <1>2, <1>8, <1>9 DEF f, T, P

\* A known name that was kept back is kept back again, now for certain.
LEMMA KeptBackAgain ==
  ASSUME NEW r \in RouterTables, NEW q, NEW n \in Name, NEW a \in Nat, NEW s \in Answers,
         Tallied(r, a, s), KnownName(r.freq, n), MayDeepSix(r, n),
         q.known = r.known, q.count = TrainedCount(r.count, Choke, 1),
         q.freq = TrainedFreq(r.freq, n, Choke, 1)
  PROVE  q.freq[n][Choke] > 0 /\ ~MayPass(q, n)
  <1> DEFINE f == r.freq[n][Choke]
             T == Total(r.count)
             P == DeepSixPercent
             I == InvMinProb
  <1>1. /\ f \in Nat /\ Choke \in Class /\ r.count \in [Class -> Nat]
        /\ r.freq \in [Name -> [Class -> Nat]]
    BY ClassIsFinite DEF RouterTables
  <1>2. f > 0 /\ 100 * f >= P * T /\ f <= a /\ a <= T /\ T \in Nat
    BY KeptBack
  <1>3. P \in 51 .. 100 /\ I \in Nat \ {0, 1}
    BY WeightsAssumption, InvMinProbAssumption
  <1>4. CountGrown(q.count, r.count, Choke, 1)
    BY <1>1, CountTrained
  <1>5. FreqGrown(q.freq, r.freq, n, Choke, 1)
    BY <1>1, FreqTrained
  <1>6. Total(q.count) = T + 1 /\ q.freq[n][Choke] = f + 1 /\ q.count[Choke] = a + 1
    BY <1>1, <1>4, <1>5 DEF CountGrown, FreqGrown, Tallied
  <1>7. q.freq \in [Name -> [Class -> Nat]] /\ q.count \in [Class -> Nat]
    BY <1>4, <1>5 DEF CountGrown, FreqGrown
  <1>8. Score(q.count, q.freq, n, Choke) = (f + 1) * I
    BY <1>1, <1>2, <1>6, <1>7, ScoreOf
  <1>9. Score(r.count, r.freq, n, Choke) = f * I
    BY <1>1, <1>2, ScoreOf
  <1>10. KnownName(q.freq, n)
    BY <1>1, <1>2, <1>6 DEF KnownName
  <1>11. ASSUME NEW x \in Class, x # Choke
         PROVE  Score(q.count, q.freq, n, x) = Score(r.count, r.freq, n, x)
    <2>1. q.freq[n][x] = r.freq[n][x] /\ q.count[x] = r.count[x] /\ r.freq[n][x] \in Nat
      BY <1>1, <1>4, <1>5, <1>11 DEF CountGrown, FreqGrown
    <2>2. CASE r.freq[n][x] > 0
      BY <1>1, <1>7, <2>1, <2>2, ScoreOf
    <2>3. CASE r.freq[n][x] = 0
      BY <1>1, <1>7, <1>10, <2>1, <2>3, ScoreOf
    <2> QED
      BY <2>1, <2>2, <2>3
  <1>12. MayDeepSix(q, n)
    <2>1. RanksFirst(q.count, q.freq, n, Choke)
      <3>1. ASSUME NEW x \in Class
            PROVE  Score(q.count, q.freq, n, Choke) >= Score(q.count, q.freq, n, x)
        <4>1. CASE x = Choke
          BY <1>1, <1>3, <1>8, <4>1
        <4>2. CASE x # Choke
          <5>1. f * I >= Score(r.count, r.freq, n, x)
            BY <1>9 DEF MayDeepSix, RanksFirst
          <5>2. Score(r.count, r.freq, n, x) \in Nat
            <6>1. r.freq[n][x] \in Nat /\ r.count[x] \in Nat
              BY <1>1
            <6>2. CASE r.freq[n][x] > 0
              <7>1. Score(r.count, r.freq, n, x) = r.freq[n][x] * InvMinProb
                BY <1>1, <6>2, ScoreOf
              <7> QED
                BY <1>3, <6>1, <7>1
            <6>3. CASE r.freq[n][x] = 0
              BY <1>1, <6>1, <6>3, ScoreOf
            <6> QED
              BY <6>1, <6>2, <6>3
          <5>3. (f + 1) * I >= f * I
            BY <1>1, <1>3, TimesKeepsOrder
          <5>4. (f + 1) * I \in Nat /\ f * I \in Nat
            BY <1>1, <1>3
          <5> HIDE DEF f, I
          <5> QED
            BY <1>8, <1>11, <4>2, <5>1, <5>2, <5>3, <5>4
        <4> QED
          BY <4>1, <4>2
      <3>2. q.count[Choke] > 0
        BY <1>6
      <3> QED
        BY <3>1, <3>2 DEF RanksFirst
    <2>2. 100 * ((f + 1) * I) >= (P * I) * (T + 1)
      <3>1. 100 * (f + 1) >= P * (T + 1)
        <4>1. P * (T + 1) = P * T + P
          BY <1>2, <1>3
        <4> QED
          BY <1>1, <1>2, <1>3, <4>1
      <3> HIDE DEF f, T, P, I
      <3>2. f \in Nat
        BY <1>1 DEF f
      <3>3. 100 * ((f + 1) * I) = (100 * (f + 1)) * I /\ (P * I) * (T + 1) = (P * (T + 1)) * I
        BY <1>2, <1>3, <3>2
      <3>4. 100 * (f + 1) \in Nat /\ P * (T + 1) \in Nat
        BY <1>2, <1>3, <3>2
      <3> QED
        BY <1>3, <3>1, <3>3, <3>4, TimesKeepsOrder
    <2> QED
      BY <1>6, <1>8, <2>1, <2>2 DEF MayDeepSix, ChokeScore, DeepSixWeight
  <1>13. \/ q.freq[n][Choke] = q.count[Choke]
         \/ 100 * ChokeScore(q, n) # DeepSixWeight(q)
    <2>1. CASE P = 100
      <3>1. f = a
        BY <1>1, <1>2, <2>1
      <3> QED
        BY <1>6, <3>1
    <2>2. CASE P # 100
      <3>1. 100 * (f + 1) > P * (T + 1)
        <4>1. P * (T + 1) = P * T + P
          BY <1>2, <1>3
        <4> QED
          BY <1>1, <1>2, <1>3, <2>2, <4>1
      <3>2. 100 * ChokeScore(q, n) = 100 * ((f + 1) * I) /\ DeepSixWeight(q) = (P * I) * (T + 1)
        BY <1>6, <1>8 DEF ChokeScore, DeepSixWeight
      <3> HIDE DEF f, T, P, I
      <3>3. f \in Nat
        BY <1>1 DEF f
      <3>4. 100 * ((f + 1) * I) = (100 * (f + 1)) * I /\ (P * I) * (T + 1) = (P * (T + 1)) * I
        BY <1>2, <1>3, <3>3
      <3>5. 100 * (f + 1) \in Nat /\ P * (T + 1) \in Nat /\ ~(P * (T + 1) >= 100 * (f + 1))
        BY <1>2, <1>3, <3>1, <3>3
      <3>6. ~((P * (T + 1)) * I >= (100 * (f + 1)) * I)
        BY <1>3, <3>5, TimesKeepsOrder
      <3>7. (P * (T + 1)) * I \in Nat
        BY <1>3, <3>5
      <3> QED
        BY <3>2, <3>4, <3>6, <3>7
    <2> QED
      BY <2>1, <2>2
  <1>14. q.freq[n][Choke] > 0
    BY <1>1, <1>2, <1>6
  <1>15. ~MayPass(q, n)
    BY <1>12, <1>13 DEF MayPass
  <1> QED
    BY <1>14, <1>15
-----------------------------------------------------------------------------
(* Responses the store keeps. *)

\* After e was put to the front, what was within the first size - 1 places is
\* no more than one place further back.
MovedBack(new, old, e, size) ==
  /\ 1 \in DOMAIN new /\ new[1] = e
  /\ \A i \in DOMAIN old : i < size => \E j \in 1 .. i + 1 : j \in DOMAIN new /\ new[j] = old[i]

LEMMA InsertedMovesBack ==
  ASSUME NEW S, NEW cache \in Seq(S), NEW e \in S, NEW size \in Nat \ {0}
  PROVE  /\ Inserted(cache, e, size) \in Seq(S)
         /\ Len(Inserted(cache, e, size)) <= size
         /\ MovedBack(Inserted(cache, e, size), cache, e, size)
         /\ \A i \in DOMAIN Inserted(cache, e, size) :
              Inserted(cache, e, size)[i] = IF i = 1 THEN e ELSE cache[i - 1]
         /\ \A i \in DOMAIN Inserted(cache, e, size) : i # 1 => i - 1 \in DOMAIN cache
  <1> DEFINE longer == <<e>> \o cache
             new    == Inserted(cache, e, size)
  <1>1. /\ longer \in Seq(S) /\ Len(longer) = Len(cache) + 1 /\ Len(cache) \in Nat
        /\ \A i \in 1 .. Len(cache) + 1 : longer[i] = IF i = 1 THEN e ELSE cache[i - 1]
    <2>1. <<e>> \in Seq(S) /\ Len(<<e>>) = 1 /\ <<e>>[1] = e
      OBVIOUS
    <2> QED
      BY <2>1, ConcatProperties, LenProperties
  <1>2. new = IF Len(longer) <= size THEN longer ELSE SubSeq(longer, 1, size)
    BY DEF Inserted
  <1> HIDE DEF longer, new
  <1>3. /\ new \in Seq(S) /\ Len(new) <= size /\ Len(new) <= Len(longer)
        /\ (Len(new) = size \/ Len(new) = Len(longer))
        /\ \A i \in 1 .. Len(new) : new[i] = longer[i]
    <2>1. CASE Len(longer) <= size
      BY <1>1, <1>2, <2>1
    <2>2. CASE ~(Len(longer) <= size)
      <3>1. new = SubSeq(longer, 1, size) /\ size \in 1 .. Len(longer)
        BY <1>1, <1>2, <2>2
      <3>2. new \in Seq(S) /\ Len(new) = size /\ \A i \in 1 .. size : new[i] = longer[i]
        <4>1. \A i \in 1 .. size : longer[i] \in S
          BY <1>1, <3>1, ElementOfSeq
        <4> QED
          BY <1>1, <3>1, <4>1, SubSeqProperties
      <3> QED
        BY <3>1, <3>2
    <2> QED
      BY <2>1, <2>2
  <1>4. Len(new) \in Nat /\ DOMAIN new = 1 .. Len(new) /\ DOMAIN cache = 1 .. Len(cache) /\ Len(new) >= 1
    BY <1>1, <1>3, LenProperties
  <1>8. ASSUME NEW i \in DOMAIN new
        PROVE  /\ new[i] = IF i = 1 THEN e ELSE cache[i - 1]
               /\ i # 1 => i - 1 \in DOMAIN cache
    <2>1. i \in 1 .. Len(new) /\ i \in Nat /\ i >= 1 /\ i <= Len(new)
      BY <1>4, SMTT(30)
    <2>6. Len(new) <= Len(cache) + 1 /\ Len(new) \in Nat /\ Len(cache) \in Nat
      BY <1>1, <1>3, <1>4
    <2>2. i \in 1 .. Len(cache) + 1
      BY <2>1, <2>6
    <2>3. new[i] = longer[i]
      BY <1>3, <2>1
    <2>4. longer[i] = IF i = 1 THEN e ELSE cache[i - 1]
      BY <1>1, <2>2
    <2>5. i # 1 => i - 1 \in 1 .. Len(cache)
      BY <1>1, <2>2
    <2> QED
      BY <1>4, <2>3, <2>4, <2>5
  <1>5. \A i \in DOMAIN new : new[i] = IF i = 1 THEN e ELSE cache[i - 1]
    BY <1>8
  <1>6. \A i \in DOMAIN new : i # 1 => i - 1 \in DOMAIN cache
    BY <1>8
  <1>7. MovedBack(new, cache, e, size)
    <2>1. ASSUME NEW i \in DOMAIN cache, i < size
          PROVE  \E j \in 1 .. i + 1 : j \in DOMAIN new /\ new[j] = cache[i]
      <3>1. i + 1 \in DOMAIN new /\ i + 1 # 1 /\ i + 1 - 1 = i /\ i + 1 \in 1 .. i + 1
        <4>1. i \in Nat /\ i >= 1 /\ i <= Len(cache)
          BY <1>1, <1>4
        <4>2. i + 1 <= Len(new)
          BY <1>1, <1>3, <2>1, <4>1
        <4>3. i + 1 \in 1 .. Len(new)
          BY <1>4, <4>1, <4>2
        <4> QED
          BY <1>4, <4>1, <4>3
      <3> QED
        BY <1>5, <3>1
    <2>2. 1 \in DOMAIN new /\ new[1] = e
      BY <1>4, <1>5
    <2> QED
      BY <2>1, <2>2 DEF MovedBack
  <1> QED
    BY <1>3, <1>5, <1>6, <1>7 DEF new

LEMMA TouchedMovesBack ==
  ASSUME NEW S, NEW cache \in Seq(S), NEW e \in ToSet(cache), NEW size
  PROVE  MovedBack(Touched(cache, e), cache, e, size)
  <1>1. PICK k \in 1 .. Len(cache) :
           /\ cache[k] = e
           /\ RemoveFirst(cache, e) = SubSeq(cache, 1, k - 1) \o SubSeq(cache, k + 1, Len(cache))
    BY FirstPlace
  <1> DEFINE before == SubSeq(cache, 1, k - 1)
             after  == SubSeq(cache, k + 1, Len(cache))
             rest   == before \o after
             new    == Touched(cache, e)
  <1>2. Len(cache) \in Nat /\ DOMAIN cache = 1 .. Len(cache) /\ e \in S
    BY <1>1, LenProperties, ElementOfSeq
  <1>3. /\ before \in Seq(S) /\ Len(before) = k - 1
        /\ \A i \in 1 .. k - 1 : before[i] = cache[i]
    BY SubSeqProperties, LenProperties
  <1>4. /\ after \in Seq(S) /\ Len(after) = Len(cache) - k
        /\ \A i \in 1 .. Len(cache) - k : after[i] = cache[k + i]
    BY SubSeqProperties, LenProperties
  <1>5. new = <<e>> \o rest
    BY <1>1 DEF Touched, Holds
  <1> HIDE DEF before, after
  <1>6. /\ rest \in Seq(S) /\ Len(rest) = Len(cache) - 1
        /\ \A i \in 1 .. Len(cache) - 1 : rest[i] = IF i < k THEN before[i] ELSE after[i - (k - 1)]
    <2>1. /\ rest \in Seq(S) /\ Len(rest) = Len(before) + Len(after)
          /\ \A i \in 1 .. Len(before) + Len(after) :
                rest[i] = IF i <= Len(before) THEN before[i] ELSE after[i - Len(before)]
      BY <1>3, <1>4, ConcatProperties
    <2>2. Len(before) + Len(after) = Len(cache) - 1
      BY <1>2, <1>3, <1>4
    <2>3. ASSUME NEW i \in 1 .. Len(cache) - 1
          PROVE  rest[i] = IF i < k THEN before[i] ELSE after[i - (k - 1)]
      <3>1. i <= Len(before) <=> i < k
        BY <1>2, <1>3
      <3> QED
        BY <1>3, <2>1, <2>2, <3>1
    <2> QED
      BY <2>1, <2>2, <2>3
  <1> HIDE DEF rest, new
  <1>7. /\ new \in Seq(S) /\ Len(new) = Len(cache)
        /\ \A i \in 1 .. Len(cache) : new[i] = IF i = 1 THEN e ELSE rest[i - 1]
    <2> DEFINE front == <<e>>
    <2>1. front \in Seq(S) /\ Len(front) = 1 /\ front[1] = e
      BY <1>2
    <2>2. new = front \o rest
      BY <1>5
    <2> HIDE DEF front
    <2>3. /\ new \in Seq(S) /\ Len(new) = Len(front) + Len(rest)
          /\ \A i \in 1 .. Len(front) + Len(rest) :
                new[i] = IF i <= Len(front) THEN front[i] ELSE rest[i - Len(front)]
      BY <1>6, <2>1, <2>2, ConcatProperties
    <2>4. Len(front) + Len(rest) = Len(cache)
      BY <1>2, <1>6, <2>1
    <2>5. ASSUME NEW i \in 1 .. Len(cache) PROVE new[i] = IF i = 1 THEN e ELSE rest[i - 1]
      <3>1. i <= 1 <=> i = 1
        BY <1>2
      <3> QED
        BY <2>1, <2>3, <2>4, <3>1
    <2> QED
      BY <2>3, <2>4, <2>5
  <1>8. DOMAIN new = 1 .. Len(cache)
    BY <1>7, LenProperties
  <1>9. ASSUME NEW i \in DOMAIN cache
        PROVE  \E j \in 1 .. i + 1 : j \in DOMAIN new /\ new[j] = cache[i]
    <2>1. CASE i < k
      <3>1. /\ i + 1 \in 1 .. Len(cache) /\ i + 1 # 1 /\ i + 1 - 1 = i /\ i \in 1 .. Len(cache) - 1
            /\ i \in 1 .. k - 1 /\ i + 1 \in 1 .. i + 1
        BY <1>2, <2>1
      <3>2. new[i + 1] = rest[i] /\ rest[i] = before[i] /\ before[i] = cache[i]
        BY <1>3, <1>6, <1>7, <2>1, <3>1, SMTT(30)
      <3> QED
        BY <1>8, <3>1, <3>2
    <2>2. CASE i = k
      <3>1. 1 \in 1 .. i + 1 /\ 1 \in 1 .. Len(cache)
        BY <1>2
      <3> QED
        BY <1>1, <1>7, <1>8, <2>2, <3>1
    <2>3. CASE i > k
      <3>0. i \in 1 .. Len(cache) /\ i \in Nat /\ k \in Nat /\ k >= 1 /\ i <= Len(cache)
        BY <1>2
      <3>1. /\ i # 1 /\ i - 1 \in 1 .. Len(cache) - 1 /\ ~(i - 1 < k)
            /\ i - k \in 1 .. Len(cache) - k /\ (i - 1) - (k - 1) = i - k /\ k + (i - k) = i
            /\ i \in 1 .. i + 1
        BY <1>2, <2>3, <3>0
      <3>2. new[i] = rest[i - 1] /\ rest[i - 1] = after[i - k] /\ after[i - k] = cache[i]
        BY <1>4, <1>6, <1>7, <3>0, <3>1
      <3> QED
        BY <1>8, <3>0, <3>1, <3>2
    <2> QED
      BY <1>2, <2>1, <2>2, <2>3
  <1>10. 1 \in DOMAIN new /\ new[1] = e
    BY <1>2, <1>7, <1>8
  <1> QED
    BY <1>9, <1>10 DEF MovedBack, new

\* The first places of a sequence are what inserting into a cache leaves.
LEMMA RecentInserted ==
  ASSUME NEW S, NEW s \in Seq(S), NEW e \in S, NEW size \in Nat \ {0}
  PROVE  LET longer == <<e>> \o s
         IN  SubSeq(longer, 1, Min({size, Len(longer)})) = Inserted(s, e, size)
  <1> DEFINE longer == <<e>> \o s
             m      == Min({size, Len(longer)})
  <1>1. longer \in Seq(S) /\ Len(longer) \in Nat
    <2>1. <<e>> \in Seq(S)
      OBVIOUS
    <2> QED
      BY <2>1, ConcatProperties, LenProperties
  <1> DEFINE n == Len(longer)
  <1> HIDE DEF longer
  <1>2. m = IF n <= size THEN n ELSE size
    <2> HIDE DEF n
    <2>1. n \in Nat
      BY <1>1 DEF n
    <2>2. \E x \in {size, n} : \A y \in {size, n} : x <= y
      BY <2>1
    <2>3. Min({size, n}) \in {size, n} /\ Min({size, n}) <= size /\ Min({size, n}) <= n
      BY <2>2 DEF Min
    <2> QED
      BY <2>1, <2>3 DEF n
  <1>3. SubSeq(longer, 1, n) = longer
    BY <1>1
  <1> QED
    BY <1>2, <1>3 DEF Inserted, longer

LEMMA RecentStayStored ==
  ASSUME NEW S, NEW old \in Seq(S), NEW new \in Seq(S), NEW e \in S, NEW size \in Nat \ {0},
         NEW was \in Seq(S),
         \A i \in DOMAIN was : \E j \in 1 .. i : j \in DOMAIN old /\ old[j] = was[i],
         MovedBack(new, old, e, size)
  PROVE  \A i \in DOMAIN Inserted(was, e, size) :
            \E j \in 1 .. i : j \in DOMAIN new /\ new[j] = Inserted(was, e, size)[i]
  <1> DEFINE now == Inserted(was, e, size)
  <1>1. /\ now \in Seq(S) /\ Len(now) <= size
        /\ \A i \in DOMAIN now : now[i] = IF i = 1 THEN e ELSE was[i - 1]
        /\ \A i \in DOMAIN now : i # 1 => i - 1 \in DOMAIN was
    BY InsertedMovesBack
  <1> HIDE DEF now
  <1>2. DOMAIN now = 1 .. Len(now) /\ Len(now) \in Nat /\ DOMAIN old = 1 .. Len(old) /\ Len(old) \in Nat
    BY <1>1, LenProperties
  <1>3. ASSUME NEW i \in DOMAIN now
        PROVE  \E j \in 1 .. i : j \in DOMAIN new /\ new[j] = now[i]
    <2>1. CASE i = 1
      BY <1>1, <2>1 DEF MovedBack
    <2>2. CASE i # 1
      <3>1. now[i] = was[i - 1] /\ i - 1 \in DOMAIN was
        BY <1>1, <2>2
      <3>2. PICK j \in 1 .. i - 1 : j \in DOMAIN old /\ old[j] = was[i - 1]
        BY <3>1
      <3>3. j < size /\ i \in Nat /\ j \in Nat /\ j + 1 <= i
        BY <1>1, <1>2, <3>2
      <3>4. PICK k \in 1 .. j + 1 : k \in DOMAIN new /\ new[k] = old[j]
        BY <3>2, <3>3 DEF MovedBack
      <3>5. k \in 1 .. i
        BY <3>3, <3>4
      <3> QED
        BY <3>1, <3>2, <3>4, <3>5
    <2> QED
      BY <2>1, <2>2
  <1> QED
    BY <1>3 DEF now
-----------------------------------------------------------------------------
(* The inductive invariant. *)

\* The choke was trained for each name as often as the name was asked for.
ChokeTally(r, a) == \A n \in Name : r.freq[n][Choke] = a[n]

LEMMA TallyIs ==
  ASSUME asks \in Asks
  PROVE  TablesTally <=> Tallied(router, AllAsks, answers) /\ ChokeTally(router, asks)
  <1> DEFINE f == [l \in Link |-> AnswersOf(l)]
             g == [l \in Link |-> SumFunction(answers[l])]
  <1>1. f = g
    BY DEF AnswersOf
  <1>2. AllAnswers = AllOf(answers)
    BY <1>1 DEF AllAnswers, AllOf
  <1>3. AllAsks \in Nat /\ \A n \in Name : asks[n] <= AllAsks
    BY AsksSum DEF AllAsks
  <1>4. ChokeTally(router, asks) => \A n \in Name : router.freq[n][Choke] <= AllAsks
    BY <1>3 DEF ChokeTally
  <1>5. TablesTally <=> /\ router.count[Choke] = AllAsks
                        /\ CountsTally(router, answers)
                        /\ Total(router.count) = AllAsks + Cardinality(router.known)
                                                 + SuperTraining * AllOf(answers)
                        /\ ChokeTally(router, asks)
                        /\ \A n \in Name, l \in Link : router.freq[n][l] = SuperTraining * answers[l][n]
    BY <1>2 DEF TablesTally, CountsTally, ChokeTally, AnswersOf
  <1> QED
    BY <1>4, <1>5 DEF Tallied, FreqsTally

\* The tables of a new router are those of one that has counted nothing.
LEMMA FreshTallied ==
  ASSUME NEW links \in SUBSET Link, NEW s, s = [l \in Link |-> [n \in Name |-> 0]]
  PROVE  FreshTables(links) \in RouterTables /\ s \in Answers /\ Tallied(FreshTables(links), 0, s)
  <1> DEFINE r == FreshTables(links)
  <1>1. /\ r \in RouterTables /\ r.known = links
        /\ \A x \in Class : r.count[x] = IF x \in links THEN 1 ELSE 0
        /\ \A n \in Name, x \in Class : r.freq[n][x] = 0
    <2>1. << >> \in Seq(Name)
      BY EmptySeq
    <2> QED
      BY <2>1 DEF FreshTables, RouterTables
  <1> HIDE DEF r
  <1>2. s \in Answers /\ \A l \in Link : DOMAIN s[l] = Name /\ \A n \in Name : s[l][n] = 0
    BY DEF Answers
  <1>3. \A l \in Link : SumFunction(s[l]) = 0
    <2>1. ASSUME NEW l \in Link PROVE SumFunctionOnSet(s[l], Name) = Cardinality({})
      <3>1. \A n \in Name : s[l][n] = IF n \in {} THEN 1 ELSE 0
        BY <1>2
      <3>2. {} \in SUBSET Name
        OBVIOUS
      <3> QED
        BY <3>1, <3>2, NameIsFinite, SumCounts
    <2> QED
      BY <1>2, <2>1, FS_EmptySet DEF SumFunction
  <1>4. AllOf(s) = 0
    <2> DEFINE f == [l \in Link |-> SumFunction(s[l])]
    <2>1. \A l \in Link : f[l] = IF l \in {} THEN 1 ELSE 0
      BY <1>3
    <2>2. DOMAIN f = Link /\ AllOf(s) = SumFunction(f)
      BY DEF AllOf
    <2>3. {} \in SUBSET Link
      OBVIOUS
    <2> HIDE DEF f
    <2>4. SumFunctionOnSet(f, Link) = Cardinality({})
      BY <2>1, <2>3, LinkIsFinite, SumCounts
    <2> QED
      BY <2>2, <2>4, FS_EmptySet DEF SumFunction
  <1>5. Total(r.count) = Cardinality(links)
    <2>1. links \in SUBSET Class /\ IsFiniteSet(Class)
      BY ClassIsFinite
    <2> QED
      BY <1>1, <2>1, SumCounts DEF Total
  <1>6. SuperTraining * 0 = 0 /\ 0 <= 0
    BY WeightsAssumption
  <1>7. Cardinality(links) \in Nat
    BY LinkIsFinite, FS_Subset, FS_CardinalityType
  <1>8. r.count[Choke] = 0
    BY <1>1, ClassIsFinite, ChokeIsNoLink
  <1>9. CountsTally(r, s)
    BY <1>1, <1>3, <1>6, ClassIsFinite DEF CountsTally
  <1>10. FreqsTally(r, 0, s)
    BY <1>1, <1>2, <1>6, ClassIsFinite DEF FreqsTally
  <1> QED
    BY <1>1, <1>2, <1>4, <1>5, <1>6, <1>7, <1>8, <1>9, <1>10 DEF Tallied, r

LEMMA InitInd == Init => IndInv
  <1> SUFFICES ASSUME Init PROVE IndInv
    OBVIOUS
  <1>1. PICK links \in SUBSET Link : router = FreshTables(links)
    BY DEF Init
  <1>2. router \in RouterTables /\ answers \in Answers /\ Tallied(router, 0, answers)
    BY <1>1, FreshTallied DEF Init
  <1>10. asks \in Asks /\ AllAsks = 0 /\ ChokeTally(router, asks)
    <2>1. asks \in Asks /\ DOMAIN asks = Name /\ \A n \in Name : asks[n] = IF n \in {} THEN 1 ELSE 0
      BY DEF Init, Asks
    <2>2. {} \in SUBSET Name
      OBVIOUS
    <2>3. SumFunctionOnSet(asks, Name) = Cardinality({})
      BY <2>1, <2>2, NameIsFinite, SumCounts
    <2>4. AllAsks = 0
      BY <2>1, <2>3, FS_EmptySet DEF AllAsks, SumFunction
    <2>5. \A n \in Name : router.freq[n][Choke] <= 0 /\ router.freq[n][Choke] \in Nat
      BY <1>2, ClassIsFinite DEF Tallied, FreqsTally, RouterTables
    <2> QED
      BY <2>1, <2>4, <2>5 DEF ChokeTally
  <1>3. history \in History
    BY DEF Init, History, NoHistory
  <1>4. /\ out \in Seq(Packet) /\ store \in Seq(Name \X Frame) /\ recent \in Seq(Name \X Frame)
        /\ Len(store) = 0 /\ Len(recent) = 0 /\ DOMAIN recent = {}
    BY EmptySeq, LenProperties DEF Init
  <1>5. StoreSize \in Nat \ {0}
    BY SizesAssumption
  <1>6. TypeOK
    BY <1>2, <1>3, <1>4, <1>5, <1>10 DEF Init, TypeOK, Answers, Asks
  <1>7. TablesTally
    BY <1>2, <1>10, TallyIs
  <1>8. DroppedStayOut
    BY DEF Init, DroppedStayOut
  <1>9. RecentAreStored
    BY <1>4 DEF RecentAreStored
  <1> QED
    BY <1>6, <1>7, <1>8, <1>9 DEF IndInv

\* What a call starts from, and what it does.
LEMMA HandleTrains ==
  ASSUME IndInv, NEW p \in Packet, Handle(p), NEW r, r = Admitted(router, p.link)
  PROVE  /\ p.link \in Link /\ p.name \in Name /\ p.frame \in Frame
         /\ asks \in Asks /\ AllAsks \in Nat /\ answers \in Answers
         /\ r \in RouterTables /\ Tallied(r, AllAsks, answers) /\ ChokeTally(r, asks)
         /\ CallTrains(r, p) /\ CallRanks(r, p)
         /\ p.link \in router.known => r = router
  <1>1. p.link \in Link /\ p.name \in Name /\ p.frame \in Frame
    BY DEF Packet
  <1>2. asks \in Asks /\ answers \in Answers /\ router \in RouterTables /\ history \in History
    BY DEF IndInv, TypeOK, Answers, Asks
  <1>3. AllAsks \in Nat
    BY <1>2, AsksSum DEF AllAsks
  <1>4. Tallied(router, AllAsks, answers) /\ ChokeTally(router, asks)
    BY <1>2, TallyIs DEF IndInv
  <1>5. r \in RouterTables
    BY <1>1, <1>2, AdmittedProperties
  <1>6. Tallied(r, AllAsks, answers)
    BY <1>1, <1>2, <1>3, <1>4, AdmittedTallied
  <1>7. ChokeTally(r, asks)
    <2>1. r.freq = router.freq
      BY <1>2 DEF Admitted, RouterTables
    <2> QED
      BY <1>4, <2>1 DEF ChokeTally
  <1>8. HandlePacket(r, p, store)
    BY DEF Handle
  <1>9. CallTrains(r, p) /\ CallRanks(r, p)
    BY <1>2, <1>5, <1>8, HandlePacketTrains
  <1>10. p.link \in router.known => r = router
    BY DEF Admitted
  <1> QED
    BY <1>1, <1>2, <1>3, <1>5, <1>6, <1>7, <1>9, <1>10

\* A call counts what it trains.
LEMMA HandleTallies ==
  ASSUME IndInv, NEW p \in Packet, Handle(p)
  PROVE  /\ asks' \in Asks /\ answers' \in Answers
         /\ Tallied(router', AllAsks', answers') /\ ChokeTally(router', asks')
  <1> DEFINE r == Admitted(router, p.link)
  <1>1. /\ p.link \in Link /\ p.name \in Name
        /\ asks \in Asks /\ AllAsks \in Nat /\ answers \in Answers
        /\ r \in RouterTables /\ Tallied(r, AllAsks, answers) /\ ChokeTally(r, asks)
        /\ CallTrains(r, p)
    BY HandleTrains
  <1>2. /\ asks' = IF IsAsk(p) THEN [asks EXCEPT ![p.name] = @ + 1] ELSE asks
        /\ answers' = IF IsAnswer(r, p) THEN [answers EXCEPT ![p.link][p.name] = @ + 1] ELSE answers
    BY DEF Handle, IsAsk, IsAnswer
  <1>3. ~(IsAsk(p) /\ IsAnswer(r, p))
    BY DEF IsAsk, IsAnswer
  <1>4. r.freq \in [Name -> [Class -> Nat]] /\ Choke \in Class /\ Choke # p.link
    BY <1>1, ClassIsFinite, ChokeIsNoLink DEF RouterTables
  <1> HIDE DEF r
  <1>5. CASE IsAsk(p)
    <2>1. /\ router'.known = r.known /\ router'.count = TrainedCount(r.count, Choke, 1)
          /\ router'.freq = TrainedFreq(r.freq, p.name, Choke, 1)
      BY <1>1, <1>5 DEF CallTrains
    <2>2. Tallied(router', AllAsks + 1, answers)
      BY <1>1, <2>1, AskTallied
    <2>3. /\ asks' \in Asks /\ AllAsks' = AllAsks + 1
          /\ \A m \in Name : asks'[m] = IF m = p.name THEN asks[m] + 1 ELSE asks[m]
      <3>1. asks' = [asks EXCEPT ![p.name] = @ + 1]
        BY <1>2, <1>5
      <3>2. AskedOnceMore(asks', asks, p.name)
        BY <1>1, <3>1, OneMoreAsk
      <3>3. AllAsks = SumFunction(asks) /\ AllAsks' = SumFunction(asks')
        BY DEF AllAsks, SumFunction
      <3> QED
        BY <3>2, <3>3 DEF AskedOnceMore
    <2>4. FreqGrown(router'.freq, r.freq, p.name, Choke, 1)
      BY <1>1, <1>4, <2>1, FreqTrained
    <2>5. ChokeTally(router', asks')
      BY <1>1, <1>4, <2>3, <2>4 DEF ChokeTally, FreqGrown
    <2>6. answers' = answers
      BY <1>2, <1>3, <1>5
    <2> QED
      BY <1>1, <2>2, <2>3, <2>5, <2>6
  <1>6. CASE IsAnswer(r, p)
    <2>1. /\ router'.known = r.known /\ router'.count = TrainedCount(r.count, p.link, SuperTraining)
          /\ router'.freq = TrainedFreq(r.freq, p.name, p.link, SuperTraining)
      BY <1>1, <1>6 DEF CallTrains
    <2> DEFINE more == [answers EXCEPT ![p.link][p.name] = @ + 1]
    <2>2. Tallied(router', AllAsks, more)
      BY <1>1, <2>1, AnswerTallied
    <2>3. more \in Answers
      BY <1>1, OneMoreAnswer DEF HasOneMore
    <2>4. p.link \in Class /\ SuperTraining \in Nat
      BY <1>1, ClassIsFinite, WeightsAssumption
    <2>5. FreqGrown(router'.freq, r.freq, p.name, p.link, SuperTraining)
      BY <1>1, <1>4, <2>1, <2>4, FreqTrained
    <2>6. ChokeTally(router', asks)
      BY <1>1, <1>4, <2>5 DEF ChokeTally, FreqGrown
    <2>7. asks' = asks /\ AllAsks' = AllAsks /\ answers' = more
      BY <1>2, <1>3, <1>6 DEF AllAsks
    <2> HIDE DEF more
    <2> QED
      BY <1>1, <2>2, <2>3, <2>6, <2>7
  <1>7. CASE ~IsAsk(p) /\ ~IsAnswer(r, p)
    <2>1. router' = r /\ asks' = asks /\ answers' = answers /\ AllAsks' = AllAsks
      BY <1>1, <1>2, <1>7 DEF CallTrains, AllAsks
    <2> QED
      BY <1>1, <2>1
  <1> QED
    BY <1>5, <1>6, <1>7

\* A name that had been asked for when it was dropped stays out until something
\* else is heard of.
LEMMA HandleDrops ==
  ASSUME IndInv, NEW p \in Packet, Handle(p)
  PROVE  DroppedStayOut' /\ dropped' \in Name \cup {NoName}
  <1> DEFINE r == Admitted(router, p.link)
  <1>1. /\ p.name \in Name
        /\ asks \in Asks /\ AllAsks \in Nat /\ answers \in Answers
        /\ r \in RouterTables /\ Tallied(r, AllAsks, answers) /\ ChokeTally(r, asks)
        /\ CallTrains(r, p) /\ CallRanks(r, p)
        /\ p.link \in router.known => r = router
    BY HandleTrains
  <1>2. dropped' = Dropped(r, p)
    BY DEF Handle
  <1>3. dropped \in Name \cup {NoName}
    BY DEF IndInv, TypeOK
  <1>4. asks' = IF IsAsk(p) THEN [asks EXCEPT ![p.name] = @ + 1] ELSE asks
    BY DEF Handle, IsAsk
  <1> HIDE DEF r
  <1>5. CASE IsDeepSixed(r, p)
    <2>1. dropped' = p.name
      BY <1>2, <1>5 DEF Dropped
    <2>2. IsAsk(p) /\ Targets(r, p) # {} /\ out' = << >>
      BY <1>5 DEF IsDeepSixed, IsAsk
    <2>3. asks'[p.name] = asks[p.name] + 1 /\ asks[p.name] \in Nat
      BY <1>1, <1>4, <2>2 DEF Asks
    <2>4. ASSUME asks[p.name] > 0 PROVE ~MayPass(router', p.name)
      <3>1. MayDeepSix(r, p.name)
        BY <1>1, <2>2 DEF CallRanks
      <3>2. KnownName(r.freq, p.name)
        BY <1>1, <2>4, ClassIsFinite DEF KnownName, ChokeTally
      <3>3. /\ router'.known = r.known /\ router'.count = TrainedCount(r.count, Choke, 1)
            /\ router'.freq = TrainedFreq(r.freq, p.name, Choke, 1)
        BY <1>1, <2>2 DEF CallTrains
      <3> QED
        BY <1>1, <3>1, <3>2, <3>3, KeptBackAgain
    <2> QED
      BY <1>1, <2>1, <2>3, <2>4 DEF DroppedStayOut
  <1>6. CASE ~IsDeepSixed(r, p) /\ dropped' # NoName
    <2>1. dropped' = dropped /\ p.link \in router.known /\ ~IsAsk(p) /\ ~IsAnswer(r, p)
      BY <1>2, <1>6 DEF Dropped, IsAsk, IsAnswer
    <2>2. router' = router /\ asks' = asks
      BY <1>1, <1>4, <2>1 DEF CallTrains
    <2>3. MayPass(router', dropped') <=> MayPass(router, dropped)
      BY <2>1, <2>2
    <2> QED
      BY <1>3, <2>1, <2>2, <2>3 DEF IndInv, DroppedStayOut
  <1>7. CASE dropped' = NoName
    BY <1>7 DEF DroppedStayOut
  <1> QED
    BY <1>5, <1>6, <1>7

\* The store and the recent responses after a call.
LEMMA HandleStores ==
  ASSUME IndInv, NEW p \in Packet, Handle(p)
  PROVE  /\ store' \in Seq(Name \X Frame) /\ Len(store') <= StoreSize
         /\ recent' \in Seq(Name \X Frame) /\ Len(recent') <= StoreSize
         /\ RecentAreStored'
  <1> DEFINE r == Admitted(router, p.link)
             e == <<p.name, p.frame>>
             S == Name \X Frame
             served   == p.kind = "Request" /\ StoredFor(store, p)
             accepted == p.kind = "Response" /\ Expected(r, p)
  <1>1. e \in S
    BY DEF Packet
  <1>2. /\ store \in Seq(S) /\ Len(store) <= StoreSize
        /\ recent \in Seq(S) /\ Len(recent) <= StoreSize
        /\ \A i \in DOMAIN recent : \E j \in 1 .. i : j \in DOMAIN store /\ store[j] = recent[i]
    BY DEF IndInv, TypeOK, RecentAreStored
  <1>3. StoreSize \in Nat \ {0}
    BY SizesAssumption
  <1>4. store' = IF KeepsStore THEN StoreAfter(r, p, store) ELSE store
    BY DEF Handle
  <1>5. recent' = IF KeepsStore /\ (served \/ accepted) THEN Inserted(recent, e, StoreSize) ELSE recent
    <2>1. recent' = IF KeepsStore /\ (served \/ accepted)
                    THEN LET longer == <<e>> \o recent
                         IN  SubSeq(longer, 1, Min({StoreSize, Len(longer)}))
                    ELSE recent
      BY DEF Handle
    <2> HIDE DEF e, S, served, accepted
    <2> QED
      BY <1>1, <1>2, <1>3, <2>1, RecentInserted
  <1>6. p.kind \in {"Request", "Response"}
    BY DEF Packet
  <1>7. CASE ~KeepsStore \/ (~served /\ ~accepted)
    <2>1. store' = store
      <3>1. CASE ~KeepsStore
        BY <1>4, <3>1
      <3>2. CASE KeepsStore /\ p.kind = "Request"
        <4>1. ~Holds(store, e)
          BY <1>7, <3>2 DEF StoredFor, Holds
        <4>2. StoreAfter(r, p, store) = Touched(store, e)
          BY <3>2 DEF StoreAfter
        <4> QED
          BY <1>4, <3>2, <4>1, <4>2 DEF Touched
      <3>3. CASE KeepsStore /\ p.kind = "Response"
        BY <1>4, <1>7, <3>3 DEF StoreAfter
      <3> QED
        BY <1>6, <3>1, <3>2, <3>3
    <2>2. recent' = recent
      BY <1>5, <1>7
    <2> QED
      BY <1>2, <2>1, <2>2 DEF RecentAreStored
  <1>8. CASE KeepsStore /\ (served \/ accepted)
    <2>1. recent' = Inserted(recent, e, StoreSize)
      BY <1>5, <1>8
    <2>2. /\ store' \in Seq(S) /\ Len(store') <= StoreSize
          /\ MovedBack(store', store, e, StoreSize)
      <3>1. CASE served
        <4>1. store' = Touched(store, e)
          BY <1>4, <1>8, <3>1 DEF StoreAfter
        <4>2. e \in ToSet(store)
          BY <3>1 DEF StoredFor
        <4> HIDE DEF e, S, served, accepted
        <4>3. store' \in Seq(S) /\ Len(store') = Len(store)
          BY <1>1, <1>2, <4>1, TouchedProperties
        <4>4. MovedBack(store', store, e, StoreSize)
          BY <1>2, <4>1, <4>2, TouchedMovesBack
        <4> QED
          BY <1>2, <4>3, <4>4
      <3>2. CASE accepted
        <4>1. store' = Inserted(store, e, StoreSize)
          BY <1>4, <1>8, <3>2 DEF StoreAfter
        <4> HIDE DEF e, S, served, accepted
        <4> QED
          BY <1>1, <1>2, <1>3, <4>1, InsertedMovesBack
      <3> QED
        BY <1>8, <3>1, <3>2
    <2> HIDE DEF e, served, accepted
    <2>3. recent' \in Seq(S) /\ Len(recent') <= StoreSize
      <3> HIDE DEF S
      <3> QED
        BY <1>1, <1>2, <1>3, <2>1, InsertedMovesBack
    <2>4. \A i \in DOMAIN recent' : \E j \in 1 .. i : j \in DOMAIN store' /\ store'[j] = recent'[i]
      <3> HIDE DEF S
      <3> QED
        BY <1>1, <1>2, <1>3, <2>1, <2>2, RecentStayStored, SMTT(30)
    <2> QED
      BY <2>2, <2>3, <2>4 DEF RecentAreStored
  <1> QED
    BY <1>7, <1>8

LEMMA HandleKeeps == IndInv /\ [Next]_vars => IndInv'
  <1> SUFFICES ASSUME IndInv, [Next]_vars PROVE IndInv'
    OBVIOUS
  <1>1. CASE Next
    <2>1. PICK p \in Packet : Handle(p)
      BY <1>1 DEF Next
    <2> DEFINE r == Admitted(router, p.link)
    <2>2. CallTrains(r, p)
      BY <2>1, HandleTrains
    <2>3. router' \in RouterTables /\ out' \in Seq(Packet) /\ history' \in History
      BY <2>2 DEF CallTrains
    <2>4. handled' \in Packet \cup {NoPacket}
      BY <2>1 DEF Handle
    <2>5. TypeOK'
      BY <2>1, <2>3, <2>4, HandleTallies, HandleDrops, HandleStores DEF TypeOK, Answers, Asks
    <2>6. TablesTally'
      <3>1. (asks \in Asks)' /\ (Tallied(router, AllAsks, answers) /\ ChokeTally(router, asks))'
        BY <2>1, HandleTallies
      <3> QED
        BY <3>1, TallyIs, PTL
    <2> QED
      BY <2>1, <2>5, <2>6, HandleDrops, HandleStores DEF IndInv
  <1>2. CASE UNCHANGED vars
    BY <1>2 DEF IndInv, TypeOK, TablesTally, DroppedStayOut, RecentAreStored, AllAsks, AllAnswers, AnswersOf,
       MayPass, MayDeepSix, ChokeScore, DeepSixWeight, vars, tally
  <1> QED
    BY <1>1, <1>2
-----------------------------------------------------------------------------
(***************************************************************************)
(* The counts of the classifier are the requests and answers there were,   *)
(* a name that was deep-sixed when it had been asked for before stays      *)
(* behind the choke, and the store keeps the recent responses, after any   *)
(* calls in any order.                                                     *)
(***************************************************************************)
THEOREM InvariantTheorem == Spec => []IndInv
  <1>1. Init => IndInv
    BY InitInd
  <1>2. IndInv /\ [Next]_vars => IndInv'
    BY HandleKeeps
  <1> QED
    BY <1>1, <1>2, PTL DEF Spec

\* A call that counts a request is a request that the store does not answer,
\* for the name it is counted for.
LEMMA CountedAsk ==
  ASSUME IndInv, NEW p \in Packet, Handle(p), asks' # asks
  PROVE  IsAsk(p) /\ \A n \in Name : asks'[n] = asks[n] + 1 => n = p.name
  <1>1. asks' = IF IsAsk(p) THEN [asks EXCEPT ![p.name] = @ + 1] ELSE asks
    BY DEF Handle, IsAsk
  <1>2. asks \in Asks /\ p.name \in Name
    BY DEF IndInv, TypeOK, Asks, Packet
  <1>3. IsAsk(p)
    BY <1>1
  <1>4. ASSUME NEW n \in Name, n # p.name PROVE asks'[n] = asks[n] /\ asks[n] \in Nat
    BY <1>1, <1>2, <1>3, <1>4 DEF Asks
  <1>5. ASSUME NEW n \in Name, asks'[n] = asks[n] + 1 PROVE n = p.name
    <2> SUFFICES ASSUME n # p.name PROVE FALSE
      OBVIOUS
    <2>1. asks'[n] = asks[n] /\ asks[n] \in Nat
      BY <1>4
    <2> QED
      BY <1>5, <2>1
  <1> QED
    BY <1>3, <1>5

(***************************************************************************)
(* With a store that is kept, whatever is among the last StoreSize         *)
(* responses accepted or served is served when it is asked for.            *)
(***************************************************************************)
THEOREM RecentResponsesAreServedTheorem == Spec => RecentResponsesAreServed
  <1> DEFINE A == \A p \in Packet :
                    /\ handled' = p
                    /\ p.kind = "Request"
                    /\ <<p.name, p.frame>> \in ToSet(recent)
                    => out' = <<[p EXCEPT !.kind = "Response"]>>
  <1>1. IndInv /\ [Next]_vars => [A]_vars
    <2> SUFFICES ASSUME IndInv, Next PROVE A
      OBVIOUS
    <2>1. PICK q \in Packet : Handle(q)
      BY DEF Next
    <2> SUFFICES ASSUME NEW p \in Packet, handled' = p, p.kind = "Request",
                        <<p.name, p.frame>> \in ToSet(recent)
                 PROVE  out' = <<[p EXCEPT !.kind = "Response"]>>
      OBVIOUS
    <2>2. handled' = q /\ HandlePacket(Admitted(router, q.link), q, store)
      BY <2>1 DEF Handle
    <2>3. p = q
      BY <2>2
    <2>4. StoredFor(store, p)
      <3>1. PICK i \in DOMAIN recent : recent[i] = <<p.name, p.frame>>
        BY DEF ToSet
      <3>2. PICK j \in DOMAIN store : store[j] = recent[i]
        BY DEF IndInv, RecentAreStored
      <3> QED
        BY <3>1, <3>2 DEF StoredFor, ToSet
    <2> QED
      BY <2>2, <2>3, <2>4
      DEF HandlePacket, HandleRequest, HandleResponse, AnswerFromStore, DeepSix, ForwardRequest
  <1> QED
    BY <1>1, InvariantTheorem, PTL DEF Spec, RecentResponsesAreServed

\* A name that was asked for once is not kept back, as soon as a link was counted
\* beside it: one in two is less than any threshold there is.
LEMMA OneRequestPasses ==
  ASSUME NEW r \in RouterTables, NEW n \in Name, NEW a \in Nat, NEW s \in Answers,
         Tallied(r, a, s), r.freq[n][Choke] = 1, a >= 1, r.known # {}
  PROVE  ~MayDeepSix(r, n)
  <1> DEFINE T == Total(r.count)
             C == ChokeScore(r, n)
             I == InvMinProb
             P == DeepSixPercent
  <1>1. /\ r.freq \in [Name -> [Class -> Nat]] /\ r.count \in [Class -> Nat] /\ Choke \in Class
    BY ClassIsFinite DEF RouterTables
  <1>2. P \in 51 .. 100 /\ I \in Nat \ {0, 1}
    BY WeightsAssumption, InvMinProbAssumption
  <1>3. T \in Nat /\ T >= 2
    <2>1. Cardinality(r.known) \in Nat /\ Cardinality(r.known) # 0
      BY LinkIsFinite, FS_Subset, FS_CardinalityType, FS_EmptySet DEF RouterTables
    <2>2. SuperTraining * AllOf(s) \in Nat
      BY AnswersSum, Times
    <2>3. T = a + Cardinality(r.known) + SuperTraining * AllOf(s)
      BY DEF Tallied
    <2> HIDE DEF T
    <2> QED
      BY <2>1, <2>2, <2>3
  <1>4. C = I
    <2>1. r.freq[n][Choke] > 0
      OBVIOUS
    <2>2. C = r.freq[n][Choke] * I
      BY <1>1, <2>1, ScoreOf DEF ChokeScore
    <2> QED
      BY <1>2, <2>2
  <1> SUFFICES ASSUME MayDeepSix(r, n) PROVE FALSE
    OBVIOUS
  <1>5. 100 * C >= (P * I) * T
    BY DEF MayDeepSix, DeepSixWeight
  <1> HIDE DEF T, C, I, P
  <1>6. (P * T) * I = (P * I) * T /\ P * T \in Nat
    BY <1>2, <1>3
  <1>7. PICK m \in Nat : m = P * T
    BY <1>6
  <1>8. m >= 102
    <2>1. PICK k \in Nat : P = 51 + k
      <3>1. P - 51 \in Nat /\ P = 51 + (P - 51)
        BY <1>2
      <3> QED
        BY <3>1
    <2>2. m = 51 * T + k * T /\ k * T \in Nat
      BY <1>3, <1>7, <2>1
    <2> QED
      BY <1>3, <1>7, <2>2
  <1>9. 100 * I >= m * I
    BY <1>4, <1>5, <1>6, <1>7
  <1>10. 100 >= m
    BY <1>2, <1>7, <1>9, TimesKeepsOrder
  <1> QED
    BY <1>7, <1>8, <1>10

(***************************************************************************)
(* A name that was deep-sixed, when it is the next thing asked for: it is  *)
(* deep-sixed again if it had been asked for before it was deep-sixed, and *)
(* it goes to all its targets if that had been its first request.          *)
(***************************************************************************)
THEOREM DeepSixedAgainUnlessFirstTheorem == Spec => DeepSixedAgainUnlessFirst
  <1> DEFINE A == /\ dropped # NoName
                  /\ asks'[dropped] = asks[dropped] + 1
                  /\ handled'.link \in router.known
                  /\ Targets(router, handled') # {}
                  => (out' = << >> <=> asks[dropped] > 1)
  <1>1. IndInv /\ [Next]_vars => [A]_vars
    <2> SUFFICES ASSUME IndInv, Next,
                        dropped # NoName, asks'[dropped] = asks[dropped] + 1,
                        handled'.link \in router.known, Targets(router, handled') # {}
                 PROVE  out' = << >> <=> asks[dropped] > 1
      OBVIOUS
    <2>1. PICK p \in Packet : Handle(p)
      BY DEF Next
    <2>2. handled' = p
      BY <2>1 DEF Handle
    <2>3. dropped \in Name /\ asks[dropped] \in Nat /\ asks[dropped] > 0
      BY DEF IndInv, TypeOK, DroppedStayOut
    <2>4. asks' # asks
      <3>1. asks'[dropped] # asks[dropped]
        BY <2>3
      <3> QED
        BY <3>1
    <2>5. IsAsk(p) /\ dropped = p.name
      BY <2>1, <2>3, <2>4, CountedAsk
    <2>6. Admitted(router, p.link) = router
      BY <2>2 DEF Admitted
    <2>7. /\ asks \in Asks /\ AllAsks \in Nat /\ answers \in Answers
          /\ router \in RouterTables /\ Tallied(router, AllAsks, answers) /\ ChokeTally(router, asks)
          /\ CallRanks(router, p)
      BY <2>1, <2>6, HandleTrains
    <2>8. CASE asks[dropped] > 1
      <3>1. ~MayPass(router, p.name)
        BY <2>5, <2>8 DEF IndInv, DroppedStayOut
      <3> QED
        BY <2>5, <2>7, <2>8, <3>1 DEF CallRanks
    <2>9. CASE ~(asks[dropped] > 1)
      <3>1. router.freq[p.name][Choke] = 1
        BY <2>3, <2>5, <2>7, <2>9 DEF ChokeTally
      <3>2. AllAsks >= 1
        BY <2>3, <2>7, AsksSum DEF AllAsks
      <3>3. router.known # {}
        BY <2>2
      <3>4. ~MayDeepSix(router, p.name)
        BY <2>3, <2>5, <2>7, <3>1, <3>2, <3>3, OneRequestPasses
      <3> QED
        BY <2>2, <2>5, <2>7, <2>9, <3>4 DEF CallRanks
    <2> QED
      BY <2>8, <2>9
  <1> QED
    BY <1>1, InvariantTheorem, PTL DEF Spec, DeepSixedAgainUnlessFirst

\* The choke never weighs more than the requests that trained it.
LEMMA ChokeBound ==
  ASSUME NEW r \in RouterTables, NEW n \in Name, NEW a \in Nat, NEW s \in Answers,
         Tallied(r, a, s)
  PROVE  ChokeScore(r, n) \in Nat /\ a * InvMinProb >= ChokeScore(r, n)
  <1> DEFINE f == r.freq[n][Choke]
  <1>1. /\ f \in Nat /\ Choke \in Class /\ r.count[Choke] = a
        /\ r.freq \in [Name -> [Class -> Nat]] /\ f <= a
    BY ClassIsFinite DEF RouterTables, Tallied, FreqsTally
  <1>2. InvMinProb \in Nat \ {0}
    BY InvMinProbAssumption
  <1>3. \/ ChokeScore(r, n) = f * InvMinProb
        \/ ChokeScore(r, n) = a
        \/ ChokeScore(r, n) = a * InvMinProb
    BY <1>1 DEF ChokeScore, Score
  <1> HIDE DEF f
  <1>4. a * InvMinProb >= f * InvMinProb /\ f * InvMinProb \in Nat
    BY <1>1, <1>2, TimesKeepsOrder
  <1>5. a * InvMinProb >= a /\ a * InvMinProb \in Nat
    <2>1. a * InvMinProb >= a * 1
      BY <1>2
    <2> QED
      BY <1>2, <2>1
  <1> QED
    BY <1>3, <1>4, <1>5

(***************************************************************************)
(* A request is only deep-sixed by a broker that is mostly not answered:   *)
(* the requests are nine in ten of all it has counted.                     *)
(***************************************************************************)
THEOREM DeepSixedOnlyIfUnansweredTheorem == Spec => DeepSixedOnlyIfUnanswered
  <1> DEFINE A == \A p \in Packet :
                    LET r == Admitted(router, p.link)
                    IN  handled' = p /\ asks' # asks /\ IsDeepSixed(r, p) =>
                          100 * AllAsks >= DeepSixPercent *
                             (AllAsks + Cardinality(r.known) + SuperTraining * AllAnswers)
  <1>1. IndInv /\ [Next]_vars => [A]_vars
    <2> SUFFICES ASSUME IndInv, Next PROVE A
      OBVIOUS
    <2>1. PICK q \in Packet : Handle(q)
      BY DEF Next
    <2> SUFFICES ASSUME NEW p \in Packet, NEW r, r = Admitted(router, p.link),
                        handled' = p, asks' # asks, IsDeepSixed(r, p)
                 PROVE  100 * AllAsks >= DeepSixPercent *
                             (AllAsks + Cardinality(r.known) + SuperTraining * AllAnswers)
      OBVIOUS
    <2>2. Handle(p)
      BY <2>1 DEF Handle
    <2>3. IsAsk(p)
      BY <2>2, CountedAsk
    <2>4. /\ p.name \in Name /\ AllAsks \in Nat /\ answers \in Answers
          /\ r \in RouterTables /\ Tallied(r, AllAsks, answers)
          /\ CallRanks(r, p)
      BY <2>2, HandleTrains
    <2>5. MayDeepSix(r, p.name)
      BY <2>3, <2>4 DEF IsDeepSixed, CallRanks
    <2> DEFINE T == Total(r.count)
               C == ChokeScore(r, p.name)
               I == InvMinProb
               P == DeepSixPercent
    <2>6. T = AllAsks + Cardinality(r.known) + SuperTraining * AllAnswers
      BY <2>4 DEF Tallied, AllOf, AllAnswers, AnswersOf
    <2>7. T \in Nat
      BY <2>4, TotalType DEF RouterTables
    <2>8. C \in Nat /\ AllAsks * I >= C
      BY <2>4, ChokeBound
    <2>9. 100 * C >= P * I * T
      BY <2>5 DEF MayDeepSix, DeepSixWeight
    <2>10. I \in Nat \ {0} /\ P \in Nat
      BY InvMinProbAssumption, WeightsAssumption
    <2> HIDE DEF T, C, I, P
    <2>11. 100 * AllAsks >= P * T
      <3>1. (100 * AllAsks) * I = 100 * (AllAsks * I) /\ (P * T) * I = P * I * T
        BY <2>4, <2>7, <2>10
      <3>2. PICK m \in Nat : m = AllAsks * I
        BY <2>4, <2>10
      <3>3. PICK k \in Nat : k = P * T
        BY <2>7, <2>10
      <3>4. 100 * m >= 100 * C
        BY <2>8, <3>2
      <3>5. (100 * AllAsks) * I >= k * I
        BY <2>7, <2>8, <2>9, <2>10, <3>1, <3>2, <3>3, <3>4
      <3>6. 100 * AllAsks >= k
        BY <2>4, <2>10, <3>5, TimesKeepsOrder
      <3> QED
        BY <3>3, <3>6
    <2> QED
      BY <2>6, <2>11 DEF P
  <1> QED
    BY <1>1, InvariantTheorem, PTL DEF Spec, DeepSixedOnlyIfUnanswered

\* A link that answered for a name outweighs one that never did, as long as
\* there are not yet as many answers as a weight of the other is scaled down by.
LEMMA AnsweredOutweighs ==
  ASSUME NEW r \in RouterTables, NEW n \in Name, NEW a \in Nat, NEW s \in Answers,
         Tallied(r, a, s), AllOf(s) + 1 < InvMinProb,
         NEW x \in Link, NEW y \in Link, s[x][n] = 0, s[y][n] > 0
  PROVE  ~(Score(r.count, r.freq, n, x) >= Score(r.count, r.freq, n, y))
  <1> DEFINE S == SuperTraining
             I == InvMinProb
             m == SumFunction(s[x])
  <1>1. /\ r.count \in [Class -> Nat] /\ r.freq \in [Name -> [Class -> Nat]]
        /\ x \in Class /\ y \in Class
    BY ClassIsFinite DEF RouterTables
  <1>2. S \in Nat \ {0} /\ I \in Nat \ {0, 1}
    BY WeightsAssumption, InvMinProbAssumption
  <1>3. s[x][n] \in Nat /\ s[y][n] \in Nat
    BY DEF Answers
  <1>4. r.freq[n][x] = S * s[x][n] /\ r.freq[n][y] = S * s[y][n]
    BY DEF Tallied, FreqsTally
  <1>5. r.count[x] = S * m + IF x \in r.known THEN 1 ELSE 0
    BY DEF Tallied, CountsTally
  <1>6. m \in Nat /\ m <= AllOf(s) /\ AllOf(s) \in Nat
    <2> DEFINE f == [l \in Link |-> SumFunction(s[l])]
    <2>1. DOMAIN f = Link /\ f[x] = m /\ \A l \in Link : f[l] \in Nat
      BY AnswersSum
    <2>2. AllOf(s) = SumFunctionOnSet(f, DOMAIN f)
      BY DEF AllOf, SumFunction
    <2> HIDE DEF f, m
    <2> QED
      BY <2>1, <2>2, LinkIsFinite, SumType
  <1> HIDE DEF S, I, m
  <1>7. r.freq[n][x] = 0
    BY <1>2, <1>4
  <1>8. r.freq[n][y] >= S
    <2>1. s[y][n] - 1 \in Nat /\ S * s[y][n] = S + S * (s[y][n] - 1) /\ S * (s[y][n] - 1) >= 0
      BY <1>2, <1>3
    <2> QED
      BY <1>2, <1>4, <2>1
  <1>9. Score(r.count, r.freq, n, x) = r.count[x]
    <2>1. KnownName(r.freq, n)
      BY <1>1, <1>2, <1>8 DEF KnownName
    <2> QED
      BY <1>1, <1>7, <2>1, ScoreOf
  <1>10. Score(r.count, r.freq, n, y) = r.freq[n][y] * I
    BY <1>1, <1>2, <1>8, ScoreOf DEF I
  <1>11. r.freq[n][y] * I >= S * I
    <2>1. PICK f \in Nat : f = r.freq[n][y]
      BY <1>1
    <2>2. f * I >= S * I
      BY <1>2, <1>8, <2>1, TimesKeepsOrder
    <2> QED
      BY <2>1, <2>2
  <1>12. S * I > S * m + 1
    <2>1. PICK k \in Nat : I = m + 2 + k
      <3>1. I - m - 2 \in Nat
        BY <1>2, <1>6 DEF I
      <3> QED
        BY <1>2, <1>6, <3>1
    <2>2. S * (m + 2 + k) = S * m + 2 * S + S * k /\ S * k >= 0 /\ S * m \in Nat
      BY <1>2, <1>6, <2>1
    <2> QED
      BY <1>2, <2>1, <2>2
  <1>13. r.count[x] <= S * m + 1 /\ S * m \in Nat /\ r.count[x] \in Nat
    BY <1>1, <1>2, <1>5, <1>6
  <1>14. r.freq[n][y] * I \in Nat /\ S * I \in Nat
    BY <1>1, <1>2
  <1> QED
    BY <1>9, <1>10, <1>11, <1>12, <1>13, <1>14

(***************************************************************************)
(* A link that answered for a name is asked before any that never did, as  *)
(* long as there were fewer calls than the inverse of the minimal          *)
(* probability, 10^9 in the code.  Beyond that a link's many other answers *)
(* may outweigh it.                                                        *)
(***************************************************************************)
THEOREM AnsweringLinksFirstTheorem ==
  ASSUME MaxTrained < InvMinProb
  PROVE  Spec => AnsweringLinksFirst
  <1> DEFINE A == handled' # NoPacket /\ handled'.kind = "Request" /\ asks' # asks =>
                    LET answered(i) == answers[out'[i].link][handled'.name] > 0
                    IN  \A i, j \in DOMAIN out' : i < j /\ answered(j) => answered(i)
  <1>1. IndInv /\ [Next]_vars => [A]_vars
    <2> SUFFICES ASSUME IndInv, Next PROVE A
      OBVIOUS
    <2>1. PICK p \in Packet : Handle(p)
      BY DEF Next
    <2>2. handled' = p
      BY <2>1 DEF Handle
    <2> SUFFICES ASSUME asks' # asks, NEW i \in DOMAIN out', NEW j \in DOMAIN out', i < j,
                        answers[out'[j].link][p.name] > 0
                 PROVE  answers[out'[i].link][p.name] > 0
      BY <2>2
    <2>3. IsAsk(p)
      BY <2>1, CountedAsk
    <2> DEFINE r == Admitted(router, p.link)
    <2>4. /\ p.name \in Name /\ AllAsks \in Nat /\ answers \in Answers
          /\ r \in RouterTables /\ Tallied(r, AllAsks, answers)
          /\ CallRanks(r, p)
      BY <2>1, HandleTrains
    <2>5. Targets(r, p) \subseteq Link
      BY <2>4 DEF Targets, Candidates, RouterTables
    <2>6. AllOf(answers) + 1 < InvMinProb
      <3>1. AllAsks + AllOf(answers) < MaxTrained
        BY <2>1 DEF Handle, AllOf, AllAnswers, AnswersOf
      <3> QED
        BY <2>4, <3>1, AnswersSum, InvMinProbAssumption, MaxTrainedAssumption
    <2> HIDE DEF r
    <2>7. PICK order \in Rankings(r.count, r.freq, p.name, Targets(r, p)) :
             out' = [k \in DOMAIN order |-> ToLink(p, order[k])]
      <3>1. out' # << >>
        OBVIOUS
      <3> QED
        BY <2>3, <2>4, <3>1 DEF CallRanks
    <2>8. /\ order \in SetToSeqs(Targets(r, p))
          /\ Score(r.count, r.freq, p.name, order[i]) >= Score(r.count, r.freq, p.name, order[j])
      BY <2>7 DEF Rankings
    <2>9. order[i] \in Link /\ order[j] \in Link
      BY <2>5, <2>7, <2>8, OrderProperties
    <2>10. out'[i].link = order[i] /\ out'[j].link = order[j]
      BY <2>7, <2>9 DEF ToLink, Packet
    <2>11. answers[order[i]][p.name] # 0
      BY <2>4, <2>6, <2>8, <2>9, <2>10, AnsweredOutweighs
    <2>12. answers[order[i]][p.name] \in Nat
      BY <2>4, <2>9 DEF Answers
    <2> QED
      BY <2>10, <2>11, <2>12
  <1> QED
    BY <1>1, InvariantTheorem, PTL DEF Spec, AnsweringLinksFirst
=============================================================================
