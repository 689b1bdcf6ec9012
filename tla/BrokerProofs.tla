---------------------------- MODULE BrokerProofs -----------------------------
(***************************************************************************)
(* Theorems about the broker, for all links, names, channel and cache      *)
(* sizes: its invariants, and that it implements InterestForwarding.       *)
(***************************************************************************)
EXTENDS BrokerProperties, RouterProofs

\* What is to be known about a call of handle_packet, whatever branch it takes.
CallKeeps(h, p) ==
  /\ router' \in RouterTables
  /\ out' \in Seq(Packet)
  /\ history' \in History
  /\ h.asked \subseteq history'.asked
  /\ h.tried \subseteq history'.tried
  /\ Justified(router', history')
  /\ Remembered(router', history')
  /\ \A q \in ToSet(out') :
       /\ q.kind = "Response" =>
            /\ <<q.link, q.name>> \in history'.asked
            /\ \E l \in Link : LinkPid[l] # LinkPid[q.link] /\ <<l, q.name>> \in history'.tried
       /\ q.kind = "Request" =>
            \E l \in Link : LinkPid[l] # LinkPid[q.link] /\ <<l, q.name>> \in history'.asked

\* A deep-sixed request is recorded as pending on the asker's link, no more.
LEMMA DeepSixKeeps ==
  ASSUME NEW r \in RouterTables, history \in History, NEW p \in Packet,
         p.link \in r.known, Justified(r, history), Remembered(r, history),
         DeepSix(r, p, << >>)
  PROVE  CallKeeps(history, p)
  <1>1. p.link \in Link /\ p.name \in Name
    BY DEF Packet
  <1>2. router' = Recorded(r, p) /\ out' = << >> /\ history' = Asked(history, p)
    BY DEF DeepSix
  <1>3. /\ router' \in RouterTables
        /\ router'.known = r.known
        /\ router'.forwarded = r.forwarded
        /\ \A l \in Link :
             IF l = p.link
             THEN /\ p.name \in ToSet(router'.pending[l])
                  /\ ToSet(router'.pending[l]) \subseteq ToSet(r.pending[l]) \cup {p.name}
             ELSE router'.pending[l] = r.pending[l]
    BY <1>2, RecordedProperties
  <1>4. /\ history' \in History
        /\ history'.asked = history.asked \cup {<<p.link, p.name>>}
        /\ history'.tried = history.tried
        /\ history'.lastTried = history.lastTried
        /\ \A l \in Link : history'.lastAsked[l] =
                             IF l = p.link THEN p.name ELSE history.lastAsked[l]
    BY <1>2, AskedProperties
  <1>5. Justified(router', history')
    BY <1>1, <1>3, <1>4 DEF Justified, Holds
  <1>6. Remembered(router', history')
    <2>1. ASSUME NEW l \in Link, history'.lastAsked[l] # NoName
          PROVE  Holds(router'.pending[l], history'.lastAsked[l])
      BY <1>3, <1>4, <2>1 DEF Remembered, Holds
    <2>2. ASSUME NEW l \in Link, history'.lastTried[l] # NoName
          PROVE  Holds(router'.forwarded[l], history'.lastTried[l])
      BY <1>3, <1>4, <2>2 DEF Remembered, Holds
    <2> QED
      BY <2>1, <2>2 DEF Remembered
  <1>7. out' \in Seq(Packet) /\ ToSet(out') = {}
    BY <1>2 DEF ToSet
  <1> QED
    BY <1>3, <1>4, <1>5, <1>6, <1>7 DEF CallKeeps

\* A forwarded request is remembered as pending on the asker's link and as
\* forwarded on each link it is sent to, and none of those is the asker's.
LEMMA ForwardRequestKeeps ==
  ASSUME NEW r \in RouterTables, history \in History, NEW p \in Packet,
         p.link \in r.known, Justified(r, history), Remembered(r, history),
         p.kind = "Request", ForwardRequest(r, p, << >>)
  PROVE  CallKeeps(history, p)
  <1> DEFINE cands == Candidates(r, p)
             tgts  == Targets(r, p)
             rec   == Recorded(r, p)
             pend  == TouchedAt(rec.pending, cands, p.name)
             forw  == InsertedAt(rec.forwarded, tgts, p.name)
             ask   == Asked(history, p)
  <1>1. p.link \in Link /\ p.name \in Name
    BY DEF Packet
  <1>2. /\ cands \in SUBSET Link /\ tgts \in SUBSET cands
        /\ \A l \in cands : LinkPid[l] # LinkPid[p.link]
    BY DEF Candidates, Targets, RouterTables
  <1>3. /\ router' = [rec EXCEPT !.pending = pend, !.forwarded = forw]
        /\ \E order \in SetToSeqs(tgts) :
              out' = [i \in DOMAIN order |-> ToLink(p, order[i])]
        /\ history' = [ask EXCEPT
              !.tried = ask.tried \cup (tgts \X {p.name}),
              !.lastTried = [l \in Link |-> IF l \in tgts THEN p.name
                                             ELSE ask.lastTried[l]]]
    <2>1. rec \in RouterTables /\ ask \in History
      BY RecordedProperties, AskedProperties
    <2> QED
      BY <2>1 DEF ForwardRequest, Rankings, RouterTables, History
  <1>4. /\ rec \in RouterTables
        /\ rec.known = r.known
        /\ rec.forwarded = r.forwarded
        /\ \A l \in Link :
             IF l = p.link
             THEN /\ p.name \in ToSet(rec.pending[l])
                  /\ ToSet(rec.pending[l]) \subseteq ToSet(r.pending[l]) \cup {p.name}
             ELSE rec.pending[l] = r.pending[l]
    BY RecordedProperties
  <1>5. /\ ask \in History
        /\ ask.asked = history.asked \cup {<<p.link, p.name>>}
        /\ ask.tried = history.tried
        /\ ask.lastTried = history.lastTried
        /\ \A l \in Link : ask.lastAsked[l] =
                             IF l = p.link THEN p.name ELSE history.lastAsked[l]
    BY AskedProperties
  <1> HIDE DEF cands, tgts, rec, ask
  <1>6. /\ pend \in [Link -> Seq(Name)]
        /\ \A l \in Link : ToSet(pend[l]) = ToSet(rec.pending[l])
    <2>1. rec.pending \in [Link -> Seq(Name)] /\ cands \in SUBSET Link
      BY <1>2, <1>4 DEF RouterTables
    <2> QED
      BY <1>1, <2>1, TouchedAtProperties
  <1>7. /\ forw \in [Link -> Seq(Name)]
        /\ \A l \in Link : l \in tgts =>
              /\ p.name \in ToSet(forw[l])
              /\ ToSet(forw[l]) \subseteq ToSet(r.forwarded[l]) \cup {p.name}
        /\ \A l \in Link : l \notin tgts => ToSet(forw[l]) = ToSet(r.forwarded[l])
    <2>1. r.forwarded \in [Link -> Seq(Name)] /\ tgts \in SUBSET Link
      BY <1>2 DEF RouterTables
    <2>2. forw = InsertedAt(r.forwarded, tgts, p.name)
      BY <1>4
    <2>3. p.name \in Name
      BY <1>1
    <2> HIDE DEF forw
    <2>4. forw \in [Link -> Seq(Name)]
      BY <2>1, <2>2, <2>3, InsertedAtProperties
    <2>5. ASSUME NEW l \in Link, l \in tgts
          PROVE  /\ p.name \in ToSet(forw[l])
                 /\ ToSet(forw[l]) \subseteq ToSet(r.forwarded[l]) \cup {p.name}
      BY <2>1, <2>2, <2>3, <2>5, InsertedAtProperties
    <2>6. ASSUME NEW l \in Link, l \notin tgts
          PROVE  ToSet(forw[l]) = ToSet(r.forwarded[l])
      <3>1. forw[l] = r.forwarded[l]
        BY <2>2, <2>6 DEF InsertedAt
      <3> QED
        BY <3>1
    <2> QED
      BY <2>4, <2>5, <2>6
  <1> HIDE DEF pend, forw
  <1>8. /\ router' \in RouterTables
        /\ router'.known = r.known
        /\ router'.pending = pend
        /\ router'.forwarded = forw
    BY <1>3, <1>4, <1>6, <1>7 DEF RouterTables
  <1>9. /\ history' \in History
        /\ history'.asked = history.asked \cup {<<p.link, p.name>>}
        /\ history'.tried = history.tried \cup (tgts \X {p.name})
        /\ history'.lastAsked = ask.lastAsked
        /\ \A l \in Link : history'.lastTried[l] =
                             IF l \in tgts THEN p.name ELSE history.lastTried[l]
    BY <1>1, <1>2, <1>3, <1>5, ZenonT(60) DEF History
  <1>10. Justified(router', history')
    <2>1. ASSUME NEW l \in Link, NEW n \in Name, Holds(router'.pending[l], n)
          PROVE  <<l, n>> \in history'.asked /\ l \in router'.known
      BY <1>4, <1>6, <1>8, <1>9, <2>1 DEF Justified, Holds
    <2>2. ASSUME NEW l \in Link, NEW n \in Name, Holds(router'.forwarded[l], n)
          PROVE  <<l, n>> \in history'.tried
      BY <1>7, <1>8, <1>9, <2>2 DEF Justified, Holds
    <2> QED
      BY <2>1, <2>2 DEF Justified
  <1>11. Remembered(router', history')
    <2>1. ASSUME NEW l \in Link, history'.lastAsked[l] # NoName
          PROVE  Holds(router'.pending[l], history'.lastAsked[l])
      BY <1>4, <1>5, <1>6, <1>8, <1>9, <2>1 DEF Remembered, Holds
    <2>2. ASSUME NEW l \in Link, history'.lastTried[l] # NoName
          PROVE  Holds(router'.forwarded[l], history'.lastTried[l])
      BY <1>7, <1>8, <1>9, <2>2 DEF Remembered, Holds
    <2> QED
      BY <2>1, <2>2 DEF Remembered
  <1>12. /\ out' \in Seq(Packet)
         /\ \A q \in ToSet(out') :
               q.link \in tgts /\ q.kind = "Request" /\ q.name = p.name
    <2>1. PICK order \in SetToSeqs(tgts) :
             out' = [i \in DOMAIN order |-> ToLink(p, order[i])]
      BY <1>3
    <2>2. tgts \in SUBSET Link
      BY <1>2
    <2> QED
      BY <2>1, <2>2, BatchProperties
  <1>13. ASSUME NEW q \in ToSet(out')
         PROVE  /\ q.kind # "Response"
                /\ \E l \in Link : /\ LinkPid[l] # LinkPid[q.link]
                                    /\ <<l, q.name>> \in history'.asked
    <2>1. LinkPid[p.link] # LinkPid[q.link] /\ <<p.link, q.name>> \in history'.asked
      BY <1>2, <1>9, <1>12
    <2> QED
      BY <1>1, <1>12, <2>1
  <1> QED
    BY <1>8, <1>9, <1>10, <1>11, <1>12, <1>13 DEF CallKeeps

\* An unexpected response changes nothing.
LEMMA IgnoreResponseKeeps ==
  ASSUME NEW r \in RouterTables, history \in History, NEW p \in Packet,
         Justified(r, history), Remembered(r, history), IgnoreResponse(r, p)
  PROVE  CallKeeps(history, p)
  <1>1. router' = r /\ out' = << >> /\ history' = history
    BY DEF IgnoreResponse
  <1>2. out' \in Seq(Packet) /\ ToSet(out') = {}
    BY <1>1 DEF ToSet
  <1> QED
    BY <1>1, <1>2 DEF CallKeeps

\* An expected response goes to links that asked, and to all of those that
\* have another identity and are remembered to have asked.
LEMMA ForwardResponseKeeps ==
  ASSUME NEW r \in RouterTables, history \in History, NEW p \in Packet,
         Justified(r, history), Remembered(r, history),
         p.kind = "Response", ForwardResponse(r, p)
  PROVE  /\ CallKeeps(history, p)
         /\ \A l \in Askers(r, p) : SendsTo(l, "Response")
  <1> DEFINE cands == Candidates(r, p)
             pend  == TouchedAt(r.pending, cands, p.name)
             forw  == [r.forwarded EXCEPT ![p.link] = Touched(@, p.name)]
             count == TrainedCount(r.count, p.link, SuperTraining)
             freq  == TrainedFreq(r.freq, p.name, p.link, SuperTraining)
  <1>1. p.link \in Link /\ p.name \in Name
    BY DEF Packet
  <1>2. /\ router' = [r EXCEPT !.forwarded = forw, !.pending = pend,
                               !.count = count, !.freq = freq]
        /\ \E order \in SetToSeqs(Askers(r, p)) :
              out' = [i \in DOMAIN order |-> ToLink(p, order[i])]
        /\ history' = history
        /\ Holds(r.forwarded[p.link], p.name)
    BY DEF ForwardResponse, Expected, RouterTables
  <1>3. /\ cands \in SUBSET Link
        /\ Askers(r, p) \in SUBSET Link
        /\ \A l \in Askers(r, p) :
              LinkPid[l] # LinkPid[p.link] /\ Holds(r.pending[l], p.name)
    BY DEF Askers, Candidates, RouterTables
  <1>4. /\ count \in [Class -> Nat]
        /\ freq \in [Name -> [Class -> Nat]]
    BY <1>1, TrainedProperties, WeightsAssumption DEF Class
  <1> HIDE DEF cands, count, freq
  <1>5. /\ pend \in [Link -> Seq(Name)]
        /\ \A l \in Link : ToSet(pend[l]) = ToSet(r.pending[l])
    <2>1. r.pending \in [Link -> Seq(Name)]
      BY DEF RouterTables
    <2> QED
      BY <1>1, <1>3, <2>1, TouchedAtProperties
  <1>6. /\ forw \in [Link -> Seq(Name)]
        /\ \A l \in Link : ToSet(forw[l]) = ToSet(r.forwarded[l])
    <2>1. r.forwarded \in [Link -> Seq(Name)] /\ r.forwarded[p.link] \in Seq(Name)
      BY <1>1 DEF RouterTables
    <2>2. /\ Touched(r.forwarded[p.link], p.name) \in Seq(Name)
          /\ ToSet(Touched(r.forwarded[p.link], p.name)) = ToSet(r.forwarded[p.link])
      BY <1>1, <2>1, TouchedProperties
    <2> QED
      BY <1>1, <2>1, <2>2
  <1> HIDE DEF pend, forw
  <1>7. /\ router' \in RouterTables
        /\ router'.known = r.known
        /\ router'.pending = pend
        /\ router'.forwarded = forw
    BY <1>2, <1>4, <1>5, <1>6 DEF RouterTables
  <1>8. Justified(router', history')
    BY <1>2, <1>5, <1>6, <1>7 DEF Justified, Holds
  <1>9. Remembered(router', history')
    BY <1>2, <1>5, <1>6, <1>7 DEF Remembered, Holds
  <1>10. PICK order \in SetToSeqs(Askers(r, p)) :
            out' = [i \in DOMAIN order |-> ToLink(p, order[i])]
    BY <1>2
  <1>11. /\ out' \in Seq(Packet)
         /\ \A q \in ToSet(out') :
               q.link \in Askers(r, p) /\ q.kind = p.kind /\ q.name = p.name
         /\ \A l \in Askers(r, p) : \E i \in DOMAIN out' :
               out'[i].link = l /\ out'[i].kind = p.kind
    BY <1>3, <1>10, BatchProperties, SMTT(30)
  <1>12. ASSUME NEW q \in ToSet(out')
         PROVE  /\ q.kind # "Request"
                /\ <<q.link, q.name>> \in history'.asked
                /\ \E l \in Link : /\ LinkPid[l] # LinkPid[q.link]
                                    /\ <<l, q.name>> \in history'.tried
    <2>1. q.link \in Askers(r, p) /\ q.kind = "Response" /\ q.name = p.name
      BY <1>11
    <2>2. <<q.link, q.name>> \in history'.asked
      BY <1>1, <1>2, <1>3, <2>1 DEF Justified
    <2>3. LinkPid[p.link] # LinkPid[q.link] /\ <<p.link, q.name>> \in history'.tried
      BY <1>1, <1>2, <1>3, <2>1 DEF Justified
    <2> QED
      BY <1>1, <2>1, <2>2, <2>3
  <1>13. \A l \in Askers(r, p) : SendsTo(l, "Response")
    BY <1>11 DEF SendsTo
  <1> QED
    BY <1>2, <1>7, <1>8, <1>9, <1>11, <1>12, <1>13 DEF CallKeeps

\* The whole of handle_packet, on the broker's ever empty store.
LEMMA HandlePacketKeeps ==
  ASSUME NEW r \in RouterTables, history \in History, NEW p \in Packet,
         p.link \in r.known, Justified(r, history), Remembered(r, history),
         HandlePacket(r, p, rs)
  PROVE  /\ CallKeeps(history, p)
         /\ p.kind = "Response" /\ Expected(r, p) =>
              \A l \in Askers(r, p) : SendsTo(l, "Response")
  <1>1. ~StoredFor(rs, p) /\ rs = << >>
    BY DEF StoredFor, rs, ToSet
  <1>2. CASE p.kind = "Request" /\ DeepSix(r, p, rs)
    BY <1>1, <1>2, DeepSixKeeps
  <1>3. CASE p.kind = "Request" /\ ForwardRequest(r, p, rs)
    BY <1>1, <1>3, ForwardRequestKeeps
  <1>4. CASE p.kind = "Response" /\ IgnoreResponse(r, p)
    BY <1>4, IgnoreResponseKeeps DEF IgnoreResponse
  <1>5. CASE p.kind = "Response" /\ ForwardResponse(r, p)
    BY <1>5, ForwardResponseKeeps
  <1> QED
    BY <1>1, <1>2, <1>3, <1>4, <1>5
       DEF HandlePacket, HandleRequest, HandleResponse, AnswerFromStore
-----------------------------------------------------------------------------
\* The broker's initial state satisfies the invariant.
LEMMA InitIndInv == Init => IndInv
  <1> SUFFICES ASSUME Init PROVE IndInv
    OBVIOUS
  <1> USE DEF Init
  <1>1. router \in RouterTables
    BY DEF FreshTables, RouterTables
  <1>2. history \in History
    BY DEF NoHistory, History
  <1>3. TypeOK
    <2>1. << >> \in Seq(Packet)
      OBVIOUS
    <2>2. chan \in [Link -> Seq(Packet)]
      BY <2>1
    <2> QED
      BY <1>1, <1>2, <2>1, <2>2 DEF TypeOK
  <1>4. \A l \in Link, n \in Name :
          ~Holds(router.pending[l], n) /\ ~Holds(router.forwarded[l], n)
    BY DEF FreshTables, Holds, ToSet
  <1>5. Justified(router, history)
    BY <1>4 DEF Justified
  <1>6. Remembered(router, history)
    BY DEF Remembered, NoHistory
  <1>7. InFlight = {}
    BY DEF InFlight, ToSet
  <1> QED
    BY <1>3, <1>5, <1>6, <1>7
       DEF IndInv, Unstarted, NoUnsolicitedResponse, NoReflectedRequest

\* The elements of the sequences that arise when packets move along.
LEMMA MoveProperties ==
  ASSUME NEW s \in Seq(Packet)
  PROVE  /\ s # << >> => /\ Head(s) \in Packet
                         /\ Head(s) \in ToSet(s)
                         /\ Tail(s) \in Seq(Packet)
                         /\ ToSet(Tail(s)) \subseteq ToSet(s)
         /\ \A p \in Packet : /\ Append(s, p) \in Seq(Packet)
                              /\ ToSet(Append(s, p)) = ToSet(s) \cup {p}
  <1>1. ASSUME s # << >>
        PROVE  /\ Head(s) \in Packet
               /\ Head(s) \in ToSet(s)
               /\ Tail(s) \in Seq(Packet)
               /\ ToSet(Tail(s)) \subseteq ToSet(s)
    <2>1. Len(s) \in Nat \ {0}
      BY <1>1, EmptySeq
    <2>2. Head(s) = s[1] /\ s[1] \in ToSet(s)
      BY <2>1, ToSetElements
    <2>3. /\ Head(s) \in Packet
          /\ Tail(s) \in Seq(Packet)
          /\ Len(Tail(s)) = Len(s) - 1
          /\ \A i \in 1 .. Len(s) - 1 : Tail(s)[i] = s[i + 1]
      BY <1>1, HeadTailProperties
    <2> DEFINE rest == Tail(s)
    <2>4. ASSUME NEW p \in ToSet(rest) PROVE p \in ToSet(s)
      <3>1. /\ rest \in Seq(Packet) /\ Len(rest) = Len(s) - 1
            /\ \A i \in 1 .. Len(s) - 1 : rest[i] = s[i + 1]
        BY <2>3
      <3> HIDE DEF rest
      <3>3. PICK i \in 1 .. Len(rest) : p = rest[i]
        BY <3>1, ToSetElements
      <3>2. i + 1 \in 1 .. Len(s) /\ p = s[i + 1]
        BY <2>1, <3>1, <3>3
      <3> QED
        BY <3>2, ToSetElements
    <2> QED
      BY <2>2, <2>3, <2>4
  <1>2. ASSUME NEW p \in Packet
        PROVE  /\ Append(s, p) \in Seq(Packet)
               /\ ToSet(Append(s, p)) = ToSet(s) \cup {p}
    <2> DEFINE one == <<p>>
    <2>1. one \in Seq(Packet) /\ ToSet(one) = {p}
      BY DEF ToSet
    <2>2. Append(s, p) = s \o one
      BY AppendIsConcat
    <2>3. Append(s, p) \in Seq(Packet)
      BY AppendProperties
    <2> HIDE DEF one
    <2>4. ToSet(s \o one) = ToSet(s) \cup ToSet(one)
      BY <2>1, ToSetConcat
    <2> QED
      BY <2>1, <2>2, <2>3, <2>4
  <1> QED
    BY <1>1, <1>2

\* What is on its way, place by place.
LEMMA InFlightPlaces ==
  ASSUME NEW p
  PROVE  p \in InFlight <=> \/ p \in ToSet(out)
                            \/ p \in ToSet(r2b)
                            \/ p = held /\ held # NoPacket
                            \/ \E l \in Link : p \in ToSet(chan[l])
  BY DEF InFlight

\* Steps that only move packets, or lose them, keep the invariant.
LEMMA MovesKeep ==
  ASSUME IndInv, TypeOK', InFlight' \subseteq InFlight,
         UNCHANGED <<router, history>>, Unstarted'
  PROVE  IndInv'
  <1>1. Justified(router, history)' /\ Remembered(router, history)'
    BY DEF IndInv, Justified, Remembered
  <1>2. NoUnsolicitedResponse'
    BY DEF IndInv, NoUnsolicitedResponse, TriedOnAnother
  <1>3. NoReflectedRequest'
    BY DEF IndInv, NoReflectedRequest, AskedByAnother
  <1> QED
    BY <1>1, <1>2, <1>3 DEF IndInv

\* A packet the router decided to send enters the router-to-broker channel.
LEMMA SendRoutedKeeps == IndInv /\ SendRouted => IndInv'
  <1> SUFFICES ASSUME IndInv, SendRouted PROVE IndInv'
    OBVIOUS
  <1>1. out \in Seq(Packet) /\ r2b \in Seq(Packet) /\ out # << >>
    BY DEF IndInv, TypeOK, SendRouted
  <1>2. /\ out' \in Seq(Packet) /\ ToSet(out') \subseteq ToSet(out)
        /\ r2b' \in Seq(Packet) /\ ToSet(r2b') \subseteq ToSet(r2b) \cup ToSet(out)
    BY <1>1, MoveProperties DEF SendRouted
  <1>3. TypeOK'
    BY <1>2 DEF IndInv, TypeOK, SendRouted, brokerVars
  <1>4. InFlight' \subseteq InFlight
    BY <1>2 DEF InFlight, SendRouted
  <1>5. Unstarted'
    BY <1>1 DEF IndInv, Unstarted, SendRouted, brokerVars
  <1> QED
    BY <1>3, <1>4, <1>5, MovesKeep DEF SendRouted

\* The delivery thread takes a packet, or drops it for want of a channel.
LEMMA TakeRoutedKeeps == IndInv /\ TakeRouted => IndInv'
  <1> SUFFICES ASSUME IndInv, TakeRouted PROVE IndInv'
    OBVIOUS
  <1>1. r2b \in Seq(Packet) /\ r2b # << >> /\ running
    BY DEF IndInv, TypeOK, TakeRouted
  <1>2. /\ r2b' \in Seq(Packet) /\ ToSet(r2b') \subseteq ToSet(r2b)
        /\ held' = NoPacket \/ (held' \in Packet /\ held' \in ToSet(r2b))
    BY <1>1, MoveProperties DEF TakeRouted
  <1>3. TypeOK'
    BY <1>2 DEF IndInv, TypeOK, TakeRouted, brokerVars
  <1>4. InFlight' \subseteq InFlight
    BY <1>2 DEF InFlight, TakeRouted
  <1>5. Unstarted'
    BY <1>1 DEF Unstarted, TakeRouted, brokerVars
  <1> QED
    BY <1>3, <1>4, <1>5, MovesKeep DEF TakeRouted

\* The packet in hand enters the channel of its link.
LEMMA DeliverKeeps == IndInv /\ Deliver => IndInv'
  <1> SUFFICES ASSUME IndInv, Deliver PROVE IndInv'
    OBVIOUS
  <1> DEFINE to == Owner(held)
  <1>1. /\ held \in Packet /\ held # NoPacket
        /\ chan \in [Link -> Seq(Packet)]
        /\ chan' = [chan EXCEPT ![to] = Append(@, held)]
        /\ held' = NoPacket
    BY DEF IndInv, TypeOK, Deliver
  <1> HIDE DEF to
  <1>2. to \in Link => /\ Append(chan[to], held) \in Seq(Packet)
                       /\ ToSet(Append(chan[to], held)) = ToSet(chan[to]) \cup {held}
    BY <1>1, MoveProperties
  <1>3. /\ chan' \in [Link -> Seq(Packet)]
        /\ \A l \in Link : ToSet(chan'[l]) \subseteq ToSet(chan[l]) \cup {held}
    BY <1>1, <1>2
  <1>4. TypeOK'
    BY <1>1, <1>3 DEF IndInv, TypeOK, Deliver, brokerVars
  <1>5. InFlight' \subseteq InFlight
    BY <1>1, <1>3 DEF InFlight, Deliver
  <1>6. Unstarted'
    BY DEF IndInv, Unstarted, Deliver, brokerVars
  <1> QED
    BY <1>4, <1>5, <1>6, MovesKeep DEF Deliver, brokerVars

\* The packet in hand is lost with the link it was for.
LEMMA FailToDeliverKeeps == IndInv /\ FailToDeliver => IndInv'
  <1> SUFFICES ASSUME IndInv, FailToDeliver PROVE IndInv'
    OBVIOUS
  <1>1. TypeOK'
    BY DEF IndInv, TypeOK, FailToDeliver, brokerVars
  <1>2. InFlight' \subseteq InFlight
    BY DEF InFlight, FailToDeliver
  <1>3. Unstarted'
    BY DEF IndInv, Unstarted, FailToDeliver, brokerVars
  <1> QED
    BY <1>1, <1>2, <1>3, MovesKeep DEF FailToDeliver, brokerVars

\* Links that are peered, take packets or stop put nothing on its way.
LEMMA LinksKeep ==
  ASSUME IndInv, NEW l \in Link, LinkTakes(l) \/ LinkStops(l) \/ PeerWithLink(l)
  PROVE  IndInv'
  <1>1. chan \in [Link -> Seq(Packet)] /\ chan[l] \in Seq(Packet)
    BY DEF IndInv, TypeOK
  <1>2. /\ chan' \in [Link -> Seq(Packet)]
        /\ \A k \in Link : ToSet(chan'[k]) \subseteq ToSet(chan[k])
    <2>1. CASE LinkTakes(l)
      <3>1. Tail(chan[l]) \in Seq(Packet) /\ ToSet(Tail(chan[l])) \subseteq ToSet(chan[l])
        BY <1>1, <2>1, MoveProperties DEF LinkTakes
      <3> QED
        BY <1>1, <2>1, <3>1 DEF LinkTakes
    <2>2. CASE LinkStops(l)
      <3>1. << >> \in Seq(Packet) /\ ToSet(<< >>) = {}
        BY DEF ToSet
      <3> QED
        BY <1>1, <2>2, <3>1 DEF LinkStops
    <2>3. CASE PeerWithLink(l)
      BY <1>1, <2>3 DEF PeerWithLink, channelVars
    <2> QED
      BY <2>1, <2>2, <2>3
  <1>3. /\ UNCHANGED <<router, out, history, table, running, l2b, r2b, held, arrived>>
        /\ peers' \in SUBSET Link
        /\ b2l' \in [Lookup -> Link \cup {NoLink}]
        /\ gone' \in SUBSET Link
    BY DEF IndInv, TypeOK, LinkTakes, LinkStops, PeerWithLink, brokerVars, channelVars
  <1>4. TypeOK'
    BY <1>2, <1>3 DEF IndInv, TypeOK
  <1>5. InFlight' \subseteq InFlight
    BY <1>2, <1>3 DEF InFlight
  <1>6. Unstarted'
    BY <1>3 DEF IndInv, Unstarted
  <1> QED
    BY <1>3, <1>4, <1>5, <1>6, MovesKeep

\* What a link sends is on its way to nobody until it is routed.
LEMMA LinkSendsKeeps ==
  ASSUME IndInv, NEW p \in Packet, LinkSends(p)
  PROVE  IndInv'
  <1>1. l2b' \in Seq(Packet)
    BY MoveProperties DEF IndInv, TypeOK, LinkSends
  <1>2. TypeOK'
    BY <1>1 DEF IndInv, TypeOK, LinkSends, brokerVars
  <1>3. InFlight' \subseteq InFlight
    BY DEF InFlight, LinkSends
  <1>4. Unstarted'
    BY DEF IndInv, Unstarted, LinkSends, brokerVars
  <1> QED
    BY <1>2, <1>3, <1>4, MovesKeep DEF LinkSends, brokerVars

\* run() starts the threads on empty memories, when there is no history yet.
LEMMA RunKeeps == IndInv /\ Run => IndInv'
  <1> SUFFICES ASSUME IndInv, Run PROVE IndInv'
    OBVIOUS
  <1>1. /\ router' = FreshTables(peers) /\ history' = NoHistory /\ out' = out
        /\ history' = history
    BY DEF IndInv, Unstarted, Run
  <1>2. router' \in RouterTables
    BY <1>1 DEF IndInv, TypeOK, FreshTables, RouterTables
  <1>3. TypeOK'
    BY <1>1, <1>2 DEF IndInv, TypeOK, Run, channelVars
  <1>4. \A l \in Link, n \in Name :
          ~Holds(router'.pending[l], n) /\ ~Holds(router'.forwarded[l], n)
    BY <1>1 DEF FreshTables, Holds, ToSet
  <1>5. Justified(router, history)'
    BY <1>4 DEF Justified
  <1>6. Remembered(router, history)'
    BY <1>1 DEF Remembered, NoHistory
  <1>7. InFlight' = InFlight
    BY <1>1 DEF InFlight, Run, channelVars
  <1>8. NoUnsolicitedResponse' /\ NoReflectedRequest'
    BY <1>1, <1>7 DEF IndInv, NoUnsolicitedResponse, NoReflectedRequest,
                      TriedOnAnother, AskedByAnother
  <1> QED
    BY <1>3, <1>5, <1>6, <1>8 DEF IndInv, Unstarted, Run

\* The router thread takes a packet: the call keeps the memory justified, and
\* what it sends is justified by the history as it is after the call.
LEMMA RouteNextKeeps == IndInv /\ RouteNext => IndInv'
  <1> SUFFICES ASSUME IndInv, RouteNext PROVE IndInv'
    OBVIOUS
  <1> DEFINE p == Head(l2b)
             r == Admitted(router, p.link)
  <1>1. /\ router \in RouterTables /\ history \in History
        /\ l2b \in Seq(Packet) /\ l2b # << >> /\ running
        /\ Justified(router, history) /\ Remembered(router, history)
    BY DEF IndInv, TypeOK, RouteNext
  <1>2. p \in Packet /\ p.link \in Link /\ Tail(l2b) \in Seq(Packet)
    BY <1>1, MoveProperties DEF Packet
  <1>3. /\ r \in RouterTables /\ p.link \in r.known
        /\ router.known \subseteq r.known
        /\ r.pending = router.pending /\ r.forwarded = router.forwarded
    BY <1>1, <1>2, AdmittedProperties
  <1>4. HandlePacket(r, p, rs)
    BY DEF RouteNext
  <1>5. UNCHANGED <<brokerVars, r2b, held, chan, gone, arrived>> /\ l2b' = Tail(l2b)
    BY DEF RouteNext
  <1> HIDE DEF p, r
  <1>6. Justified(r, history) /\ Remembered(r, history)
    BY <1>1, <1>3 DEF Justified, Remembered
  <1>7. CallKeeps(history, p)
    BY <1>1, <1>2, <1>3, <1>4, <1>6, HandlePacketKeeps
  <1>8. TypeOK'
    BY <1>2, <1>5, <1>7 DEF IndInv, TypeOK, CallKeeps, brokerVars
  <1>9. Unstarted'
    BY <1>1, <1>5 DEF Unstarted, brokerVars
  <1>10. ASSUME NEW q \in InFlight' PROVE q \in InFlight \/ q \in ToSet(out')
    BY <1>5, <1>10 DEF InFlight
  <1>11. history.asked \subseteq history'.asked /\ history.tried \subseteq history'.tried
    BY <1>7 DEF CallKeeps
  <1>12. NoUnsolicitedResponse'
    <2>1. ASSUME NEW q \in InFlight', q.kind = "Response"
          PROVE  <<q.link, q.name>> \in history'.asked /\ TriedOnAnother(q)'
      <3>1. CASE q \in InFlight
        BY <1>11, <2>1, <3>1 DEF IndInv, NoUnsolicitedResponse, TriedOnAnother
      <3>2. CASE q \in ToSet(out')
        BY <1>7, <2>1, <3>2 DEF CallKeeps, TriedOnAnother
      <3> QED
        BY <1>10, <3>1, <3>2
    <2> QED
      BY <2>1 DEF NoUnsolicitedResponse
  <1>13. NoReflectedRequest'
    <2>1. ASSUME NEW q \in InFlight', q.kind = "Request"
          PROVE  AskedByAnother(q)'
      <3>1. CASE q \in InFlight
        BY <1>11, <2>1, <3>1 DEF IndInv, NoReflectedRequest, AskedByAnother
      <3>2. CASE q \in ToSet(out')
        BY <1>7, <2>1, <3>2 DEF CallKeeps, AskedByAnother
      <3> QED
        BY <1>10, <3>1, <3>2
    <2> QED
      BY <2>1 DEF NoReflectedRequest
  <1>14. Justified(router, history)' /\ Remembered(router, history)'
    BY <1>7 DEF CallKeeps, Justified, Remembered
  <1> QED
    BY <1>8, <1>9, <1>12, <1>13, <1>14 DEF IndInv

\* A step that changes nothing keeps the invariant.
LEMMA StutterKeeps == IndInv /\ UNCHANGED vars => IndInv'
  <1> SUFFICES ASSUME IndInv, UNCHANGED vars PROVE IndInv'
    OBVIOUS
  <1>1. TypeOK'
    BY DEF IndInv, TypeOK, vars, brokerVars, channelVars
  <1>2. InFlight' = InFlight
    BY DEF InFlight, vars, brokerVars, channelVars
  <1>3. Unstarted'
    BY DEF IndInv, Unstarted, vars, brokerVars, channelVars
  <1> QED
    BY <1>1, <1>2, <1>3, MovesKeep DEF vars, brokerVars

\* IndInv is inductive: one lemma for each action of the broker.
LEMMA NextKeeps == IndInv /\ [Next]_vars => IndInv'
  BY RunKeeps, RouteNextKeeps, SendRoutedKeeps, TakeRoutedKeeps, DeliverKeeps,
     FailToDeliverKeeps, LinksKeep, LinkSendsKeeps, StutterKeeps
     DEF Next, Threads, Links

\* In every behaviour of the broker the invariant holds in every state.
THEOREM InvariantTheorem == Spec => []IndInv
  BY InitIndInv, NextKeeps, PTL DEF Spec

\* The broker's state always has its types.
THEOREM TypeTheorem == Spec => []TypeOK
  <1>1. IndInv => TypeOK
    BY DEF IndInv
  <1> QED
    BY <1>1, InvariantTheorem, PTL

\* No link is ever sent a response it did not ask for, or that was not asked
\* of a link with another identity.
THEOREM NoUnsolicitedResponseTheorem == Spec => []NoUnsolicitedResponse
  <1>1. IndInv => NoUnsolicitedResponse
    BY DEF IndInv
  <1> QED
    BY <1>1, InvariantTheorem, PTL

\* No link is ever sent a request that only links of its own identity made.
THEOREM NoReflectedRequestTheorem == Spec => []NoReflectedRequest
  <1>1. IndInv => NoReflectedRequest
    BY DEF IndInv
  <1> QED
    BY <1>1, InvariantTheorem, PTL

\* Taking the head of a sequence neither leaves it alone nor appends to it.
LEMMA TailIsShorter ==
  ASSUME NEW S, NEW s \in Seq(S), s # << >>
  PROVE  Tail(s) # s /\ \A e \in S : Tail(s) # Append(s, e)
  <1>1. Len(s) \in Nat /\ Len(Tail(s)) = Len(s) - 1
    BY HeadTailProperties, LenProperties
  <1>2. \A e \in S : Len(Append(s, e)) = Len(s) + 1
    BY AppendProperties
  <1>3. \A n \in Nat : n - 1 # n /\ n - 1 # n + 1
    OBVIOUS
  <1> QED
    BY <1>1, <1>2, <1>3, Zenon

\* Only the router thread takes a packet out of the links' channel.
LEMMA OnlyRouteNextTakes ==
  ASSUME TypeOK, [Next]_vars, l2b # << >>, l2b' = Tail(l2b)
  PROVE  RouteNext
  <1>1. l2b \in Seq(Packet)
    BY DEF TypeOK
  <1>2. l2b' # l2b
    BY <1>1, TailIsShorter
  <1>3. ASSUME NEW q \in Packet, LinkSends(q) PROVE FALSE
    BY <1>1, <1>3, TailIsShorter DEF LinkSends
  <1>4. UNCHANGED vars => FALSE
    BY <1>2 DEF vars, channelVars
  <1>5. Run => FALSE
    BY <1>2 DEF Run, channelVars
  <1>6. SendRouted \/ TakeRouted \/ Deliver \/ FailToDeliver => FALSE
    BY <1>2 DEF SendRouted, TakeRouted, Deliver, FailToDeliver
  <1>7. ASSUME NEW l \in Link, PeerWithLink(l) \/ LinkTakes(l) \/ LinkStops(l) PROVE FALSE
    BY <1>2, <1>7 DEF PeerWithLink, LinkTakes, LinkStops, channelVars
  <1> QED
    BY <1>3, <1>4, <1>5, <1>6, <1>7 DEF Next, Threads, Links

\* The most recent interest of each link survives every sequence of evictions,
\* whatever the size of a Pheromone: its answer is always passed on.
THEOREM LastAskersAreAnsweredTheorem == Spec => LastAskersAreAnswered
  <1> DEFINE Answered(p) ==
        /\ Routes(p)
        /\ p.kind = "Response"
        /\ history.lastTried[p.link] = p.name
        => \A l \in Link :
              /\ history.lastAsked[l] = p.name
              /\ LinkPid[l] # LinkPid[p.link]
              => SendsTo(l, "Response")
  <1>1. ASSUME IndInv, [Next]_vars, NEW p \in Packet, Routes(p), p.kind = "Response",
               history.lastTried[p.link] = p.name, NEW l \in Link,
               history.lastAsked[l] = p.name, LinkPid[l] # LinkPid[p.link]
        PROVE  SendsTo(l, "Response")
    <2> DEFINE r == Admitted(router, p.link)
    <2>1. /\ router \in RouterTables /\ history \in History
          /\ l2b \in Seq(Packet) /\ l2b # << >> /\ p = Head(l2b)
          /\ Justified(router, history) /\ Remembered(router, history)
      BY <1>1 DEF IndInv, TypeOK, Routes
    <2>2. RouteNext
      BY <1>1, OnlyRouteNextTakes DEF IndInv, Routes
    <2>3. p.link \in Link /\ p.name \in Name /\ p.name # NoName
      BY NoNameIsNoName DEF Packet
    <2>4. HandlePacket(r, p, rs)
      BY <2>1, <2>2 DEF RouteNext
    <2>5. /\ r \in RouterTables /\ p.link \in r.known
          /\ router.known \subseteq r.known
          /\ r.pending = router.pending /\ r.forwarded = router.forwarded
      BY <2>1, <2>3, AdmittedProperties
    <2> HIDE DEF r
    <2>6. Justified(r, history) /\ Remembered(r, history)
      BY <2>1, <2>5 DEF Justified, Remembered
    <2>7. Holds(r.forwarded[p.link], p.name) /\ Holds(r.pending[l], p.name)
      BY <1>1, <2>3, <2>6 DEF Remembered
    <2>8. l \in Askers(r, p) /\ Expected(r, p)
      BY <1>1, <2>3, <2>6, <2>7 DEF Askers, Candidates, Expected, Justified
    <2> QED
      BY <1>1, <2>1, <2>4, <2>5, <2>6, <2>8, HandlePacketKeeps
  <1>2. IndInv /\ [Next]_vars => [\A p \in Packet : Answered(p)]_vars
    BY <1>1
  <1> QED
    BY <1>2, InvariantTheorem, PTL DEF Spec, LastAskersAreAnswered
-----------------------------------------------------------------------------
(***************************************************************************)
(* The broker implements InterestForwarding: every step of its threads and *)
(* links is a step of the abstract specification or leaves its variables   *)
(* alone.                                                                  *)
(***************************************************************************)

\* The packets whose addresses lead to link l.
For(l) == {p \in Packet : Owner(p) = l}

\* The abstract queue of each link is put together from four queues of packets.
LEMMA QueueParts ==
  ASSUME TypeOK
  PROVE  /\ Hand \in Seq(Packet)
         /\ \A l \in Link : /\ chan[l] \in Seq(Packet)
                            /\ Bound(Hand, l) \in Seq(Packet)
                            /\ Bound(r2b, l) \in Seq(Packet)
                            /\ Bound(out, l) \in Seq(Packet)
  <1>1. Hand \in Seq(Packet)
    <2>1. CASE held = NoPacket
      BY <2>1, EmptySeq DEF Hand
    <2>2. CASE held # NoPacket
      BY <2>2 DEF Hand, TypeOK
    <2> QED
      BY <2>1, <2>2
  <1>2. ASSUME NEW s \in Seq(Packet), NEW l \in Link
        PROVE  Bound(s, l) \in Seq(Packet)
    <2>1. Bound(s, l) \in Seq(Packet \cap For(l))
      BY OnlyType DEF Bound, For
    <2> QED
      BY <2>1, SeqMonotonic
  <1> QED
    BY <1>1, <1>2 DEF TypeOK

\* A step that leaves the variables of InterestForwarding alone stutters.
LEMMA StutterForwards ==
  ASSUME UNCHANGED <<history, table, gone>>, Queue' = Queue
  PROVE  UNCHANGED Forwarding!vars
  BY DEF Forwarding!vars

\* As long as nobody stops, the queue of each link follows from its parts.
LEMMA QueueStutters ==
  ASSUME UNCHANGED gone,
         \A l \in Link \ gone :
           (chan[l] \o Bound(Hand, l) \o Bound(r2b, l) \o Bound(out, l))' =
            chan[l] \o Bound(Hand, l) \o Bound(r2b, l) \o Bound(out, l)
  PROVE  Queue' = Queue
  BY DEF Queue

\* Before anything happens no link has asked for anything.
LEMMA InitForwards == Init => Forwarding!Init
  <1> SUFFICES ASSUME Init PROVE Forwarding!Init
    OBVIOUS
  <1>1. Bound(<< >>, NoLink) = << >> /\ \A l \in Link : Bound(<< >>, l) = << >>
    BY OnlyEmpty DEF Bound
  <1>2. Hand = << >> /\ out = << >> /\ r2b = << >> /\ chan = [l \in Link |-> << >>]
    BY DEF Init, Hand
  <1>3. << >> \o << >> = << >>
    BY ConcatEmptySeq, EmptySeq
  <1>4. Queue = [l \in Link |-> << >>]
    BY <1>1, <1>2, <1>3 DEF Queue
  <1>5. [l \in Link |-> table[LookupId[l]]] = [l \in Link |-> NoLink]
    BY LookupIdAssumption DEF Init
  <1> QED
    BY <1>4, <1>5 DEF Init, Forwarding!Init, NoHistory

\* run() fixes which link an address leads to.
LEMMA RunForwards == IndInv /\ Run => Forwarding!Start
  <1> SUFFICES ASSUME IndInv, Run PROVE Forwarding!Start
    OBVIOUS
  <1>1. /\ out = << >> /\ r2b = << >> /\ held = NoPacket
        /\ table = [id \in Lookup |-> NoLink]
    BY DEF IndInv, Unstarted, Run
  <1>2. /\ table' = b2l /\ b2l \in [Lookup -> Link \cup {NoLink}]
        /\ UNCHANGED <<out, r2b, held, chan, gone, history>>
    BY DEF IndInv, TypeOK, Run, channelVars
  <1>3. Hand = << >> /\ Hand' = << >>
    BY <1>1, <1>2 DEF Hand
  <1>4. \A l \in Link : Bound(<< >>, l) = << >> /\ Bound(<< >>, l)' = << >>
    BY OnlyEmpty DEF Bound
  <1>5. \A l \in Link :
          (chan[l] \o Bound(Hand, l) \o Bound(r2b, l) \o Bound(out, l))' =
           chan[l] \o Bound(Hand, l) \o Bound(r2b, l) \o Bound(out, l)
    BY <1>1, <1>2, <1>3, <1>4 DEF Bound
  <1>6. Queue' = Queue
    BY <1>2, <1>5, QueueStutters
  <1>7. \A l \in Link : table[LookupId[l]] = NoLink
    BY <1>1, LookupIdAssumption
  <1>8. [l \in Link |-> table'[LookupId[l]]] \in [Link -> Link \cup {NoLink}]
    BY <1>2, LookupIdAssumption
  <1> QED
    BY <1>2, <1>6, <1>7, <1>8 DEF Forwarding!Start

\* A routed packet is on its way whichever side of the channel it is on.
LEMMA SendRoutedForwards == IndInv /\ SendRouted => UNCHANGED Forwarding!vars
  <1> SUFFICES ASSUME IndInv, SendRouted PROVE UNCHANGED Forwarding!vars
    OBVIOUS
  <1>1. /\ TypeOK /\ out # << >> /\ out \in Seq(Packet) /\ r2b \in Seq(Packet)
        /\ r2b' = Append(r2b, Head(out)) /\ out' = Tail(out)
        /\ UNCHANGED <<table, held, chan, gone, history>>
    BY DEF IndInv, TypeOK, SendRouted, brokerVars
  <1>2. ASSUME NEW l \in Link
        PROVE  (chan[l] \o Bound(Hand, l) \o Bound(r2b, l) \o Bound(out, l))' =
                chan[l] \o Bound(Hand, l) \o Bound(r2b, l) \o Bound(out, l)
    <2> DEFINE first == chan[l] \o Bound(Hand, l)
               new   == Only(Append(r2b, Head(out)), For(l))
               rest  == Only(Tail(out), For(l))
    <2>1. first' = first
      BY <1>1 DEF Bound, Owner, Hand
    <2>2. Bound(r2b, l)' = new /\ Bound(out, l)' = rest
      BY <1>1 DEF Bound, Owner, For
    <2>3. new \o rest = Bound(r2b, l) \o Bound(out, l)
      BY <1>1, OnlyMove DEF Bound, For
    <2>4. first \in Seq(Packet) /\ Bound(r2b, l) \in Seq(Packet) /\ Bound(out, l) \in Seq(Packet)
      BY <1>1, QueueParts, ConcatProperties
    <2>5. new \in Seq(Packet) /\ rest \in Seq(Packet)
      <3>1. Append(r2b, Head(out)) \in Seq(Packet) /\ Tail(out) \in Seq(Packet)
        BY <1>1, HeadTailProperties, AppendProperties
      <3>2. new \in Seq(Packet \cap For(l)) /\ rest \in Seq(Packet \cap For(l))
        BY <3>1, OnlyType
      <3> QED
        BY <3>2, SeqMonotonic
    <2> HIDE DEF first, new, rest
    <2>6. Joined(new, rest) = Joined(Bound(r2b, l), Bound(out, l))
      BY <2>3 DEF Joined
    <2>7. Joined(Joined(first, new), rest) = Joined(Joined(first, Bound(r2b, l)), Bound(out, l))
      BY <2>4, <2>5, <2>6, JoinedAssociative
    <2> QED
      BY <2>1, <2>2, <2>7 DEF first, Joined
  <1> QED
    BY <1>1, <1>2, QueueStutters, StutterForwards

\* A packet in hand is on its way to the link its address leads to.
LEMMA HandProperties ==
  ASSUME NEW l \in Link
  PROVE  /\ held = NoPacket => Bound(Hand, l) = << >>
         /\ held # NoPacket /\ held \in Packet =>
              Bound(Hand, l) = IF Owner(held) = l THEN <<held>> ELSE << >>
  <1>1. ASSUME held = NoPacket PROVE Bound(Hand, l) = << >>
    BY <1>1, OnlyEmpty DEF Bound, Hand
  <1>2. ASSUME held # NoPacket, held \in Packet
        PROVE  Bound(Hand, l) = IF Owner(held) = l THEN <<held>> ELSE << >>
    <2>1. held \in For(l) <=> Owner(held) = l
      BY <1>2 DEF For
    <2>2. Only(<<held>>, For(l)) = IF held \in For(l) THEN <<held>> ELSE << >>
      BY OnlyOne
    <2> QED
      BY <1>2, <2>1, <2>2 DEF Bound, For, Hand
  <1> QED
    BY <1>1, <1>2

\* A packet in the delivery thread's hand is still in its place in the queue,
\* and one whose address leads nowhere was in no queue.
LEMMA TakeRoutedForwards == IndInv /\ TakeRouted => UNCHANGED Forwarding!vars
  <1> SUFFICES ASSUME IndInv, TakeRouted PROVE UNCHANGED Forwarding!vars
    OBVIOUS
  <1>1. PICK next : next = Head(r2b)
    OBVIOUS
  <1>2. /\ TypeOK /\ r2b # << >> /\ r2b \in Seq(Packet)
        /\ held = NoPacket /\ r2b' = Tail(r2b)
        /\ held' = IF Owner(next) = NoLink THEN NoPacket ELSE next
        /\ UNCHANGED <<table, out, chan, gone, history>>
    BY <1>1 DEF IndInv, TypeOK, TakeRouted, brokerVars
  <1>3. next \in Packet /\ next # NoPacket /\ Tail(r2b) \in Seq(Packet)
    BY <1>1, <1>2, HeadTailProperties, NoPacketAssumption
  <1>4. ASSUME NEW l \in Link
        PROVE  (chan[l] \o Bound(Hand, l) \o Bound(r2b, l) \o Bound(out, l))' =
                chan[l] \o Bound(Hand, l) \o Bound(r2b, l) \o Bound(out, l)
    <2> DEFINE hand == Only(<<next>>, For(l))
               rest == Only(Tail(r2b), For(l))
    <2>1. Bound(Hand, l) = << >>
      BY <1>2, HandProperties
    <2>2. Bound(Hand, l)' = hand
      <3>1. l # NoLink /\ hand = IF next \in For(l) THEN <<next>> ELSE << >>
        BY NoLinkAssumption, OnlyOne
      <3>2. Owner(next)' = Owner(next) /\ For(l)' = For(l)
        BY <1>2 DEF Owner, For
      <3>3. CASE Owner(next) = NoLink
        <4>1. hand = << >> /\ Hand' = << >>
          BY <1>2, <3>1, <3>3 DEF For, Hand
        <4> QED
          BY <4>1, OnlyEmpty DEF Bound
      <3>4. CASE Owner(next) # NoLink
        <4>1. Hand' = <<next>>
          BY <1>2, <1>3, <3>4 DEF Hand
        <4> QED
          BY <3>2, <4>1 DEF Bound, For
      <3> QED
        BY <3>3, <3>4
    <2>3. Bound(r2b, l)' = rest /\ Bound(out, l)' = Bound(out, l)
      BY <1>2 DEF Bound, Owner, For
    <2>4. Bound(r2b, l) = hand \o rest
      BY <1>1, <1>2, OnlyHeadTail DEF Bound, For
    <2>5. /\ chan[l] \in Seq(Packet)
          /\ hand \in Seq(Packet) /\ rest \in Seq(Packet)
      <3>1. hand \in Seq(Packet \cap For(l)) /\ rest \in Seq(Packet \cap For(l))
        <4>1. <<next>> \in Seq(Packet)
          BY <1>3
        <4> QED
          BY <1>3, <4>1, OnlyType
      <3> QED
        BY <1>2, <3>1, SeqMonotonic DEF TypeOK
    <2> HIDE DEF hand, rest
    <2>6. chan[l] \o << >> = chan[l]
      BY <2>5, ConcatEmptySeq
    <2>7. Joined(Joined(chan[l], hand), rest) = Joined(chan[l], Joined(hand, rest))
      BY <2>5, JoinedAssociative
    <2>8. (chan[l] \o hand) \o rest = chan[l] \o Bound(r2b, l)
      BY <2>4, <2>7 DEF Joined
    <2> QED
      BY <1>2, <2>1, <2>2, <2>3, <2>6, <2>8
  <1> QED
    BY <1>2, <1>4, QueueStutters, StutterForwards

\* A packet is put in the channel behind everything that is before it.
LEMMA DeliverForwards == IndInv /\ Deliver => UNCHANGED Forwarding!vars
  <1> SUFFICES ASSUME IndInv, Deliver PROVE UNCHANGED Forwarding!vars
    OBVIOUS
  <1>1. /\ TypeOK /\ held \in Packet /\ held # NoPacket
        /\ chan \in [Link -> Seq(Packet)]
        /\ chan' = [chan EXCEPT ![Owner(held)] = Append(chan[Owner(held)], held)]
        /\ held' = NoPacket
        /\ UNCHANGED <<table, out, r2b, gone, history>>
    BY DEF IndInv, TypeOK, Deliver, brokerVars
  <1>2. ASSUME NEW l \in Link
        PROVE  (chan[l] \o Bound(Hand, l) \o Bound(r2b, l) \o Bound(out, l))' =
                chan[l] \o Bound(Hand, l) \o Bound(r2b, l) \o Bound(out, l)
    <2>1. Bound(Hand, l)' = << >>
      BY <1>1, OnlyEmpty DEF Bound, Hand
    <2>2. Bound(Hand, l) = IF Owner(held) = l THEN <<held>> ELSE << >>
      BY <1>1, HandProperties
    <2>3. chan'[l] = IF Owner(held) = l THEN Append(chan[l], held) ELSE chan[l]
      BY <1>1
    <2>4. chan[l] \in Seq(Packet) /\ chan'[l] \in Seq(Packet)
      BY <1>1, <2>3
    <2>5. chan'[l] \o << >> = chan'[l] /\ chan[l] \o << >> = chan[l]
      BY <2>4, ConcatEmptySeq
    <2>6. Append(chan[l], held) = chan[l] \o <<held>>
      BY <1>1, <2>4
    <2>7. chan'[l] \o Bound(Hand, l)' = chan[l] \o Bound(Hand, l)
      BY <2>1, <2>2, <2>3, <2>5, <2>6
    <2>8. Bound(r2b, l)' = Bound(r2b, l) /\ Bound(out, l)' = Bound(out, l)
      BY <1>1 DEF Bound, Owner
    <2> QED
      BY <2>7, <2>8
  <1> QED
    BY <1>1, <1>2, QueueStutters, StutterForwards

\* Only a packet for a link that stopped is lost, and it has no queue any more.
LEMMA FailToDeliverForwards == IndInv /\ FailToDeliver => UNCHANGED Forwarding!vars
  <1> SUFFICES ASSUME IndInv, FailToDeliver PROVE UNCHANGED Forwarding!vars
    OBVIOUS
  <1>1. /\ TypeOK /\ held \in Packet /\ held # NoPacket /\ Owner(held) \in gone
        /\ held' = NoPacket
        /\ UNCHANGED <<table, out, r2b, chan, gone, history>>
    BY DEF IndInv, TypeOK, FailToDeliver, brokerVars
  <1>2. ASSUME NEW l \in Link \ gone
        PROVE  (chan[l] \o Bound(Hand, l) \o Bound(r2b, l) \o Bound(out, l))' =
                chan[l] \o Bound(Hand, l) \o Bound(r2b, l) \o Bound(out, l)
    <2>1. Bound(Hand, l) = << >>
      BY <1>1, HandProperties
    <2>2. Bound(Hand, l)' = << >>
      BY <1>1, OnlyEmpty DEF Bound, Hand
    <2>3. Bound(r2b, l)' = Bound(r2b, l) /\ Bound(out, l)' = Bound(out, l)
      BY <1>1 DEF Bound, Owner
    <2> QED
      BY <1>1, <2>1, <2>2, <2>3
  <1> QED
    BY <1>1, <1>2, QueueStutters, StutterForwards

\* What a link takes is the front of its queue.
LEMMA LinkTakesForwards ==
  ASSUME IndInv, NEW l \in Link, LinkTakes(l)
  PROVE  Forwarding!Take(l) \/ UNCHANGED Forwarding!vars
  <1>1. /\ TypeOK /\ chan \in [Link -> Seq(Packet)] /\ chan[l] # << >>
        /\ chan' = [chan EXCEPT ![l] = Tail(chan[l])]
        /\ UNCHANGED <<table, out, r2b, held, gone, history>>
    BY DEF IndInv, TypeOK, LinkTakes, brokerVars
  <1>2. \A k \in Link : /\ Bound(Hand, k)' = Bound(Hand, k)
                        /\ Bound(r2b, k)' = Bound(r2b, k)
                        /\ Bound(out, k)' = Bound(out, k)
    BY <1>1 DEF Bound, Owner, Hand
  <1>3. \A k \in Link \ {l} : Queue'[k] = Queue[k]
    BY <1>1, <1>2 DEF Queue
  <1>4. CASE l \in gone
    <2>1. Queue' = Queue
      BY <1>1, <1>3, <1>4 DEF Queue
    <2> QED
      BY <1>1, <2>1, StutterForwards
  <1>5. CASE l \notin gone
    <2> DEFINE rest == Bound(Hand, l) \o Bound(r2b, l) \o Bound(out, l)
    <2>1. /\ chan[l] \in Seq(Packet) /\ Tail(chan[l]) \in Seq(Packet)
          /\ Bound(Hand, l) \in Seq(Packet) /\ Bound(r2b, l) \in Seq(Packet)
          /\ Bound(out, l) \in Seq(Packet)
      BY <1>1, QueueParts, HeadTailProperties
    <2>2. /\ Queue[l] = chan[l] \o Bound(Hand, l) \o Bound(r2b, l) \o Bound(out, l)
          /\ Queue'[l] = Tail(chan[l]) \o Bound(Hand, l) \o Bound(r2b, l) \o Bound(out, l)
      BY <1>1, <1>2, <1>5 DEF Queue
    <2>3. Queue[l] # << >> /\ Queue'[l] = Tail(Queue[l])
      <3> DEFINE s1 == chan[l] \o Bound(Hand, l)
                 s2 == s1 \o Bound(r2b, l)
      <3>1. s1 \in Seq(Packet) /\ s1 # << >> /\ Tail(s1) = Tail(chan[l]) \o Bound(Hand, l)
        BY <1>1, <2>1, TailConcat, ConcatProperties
      <3>2. s2 \in Seq(Packet) /\ s2 # << >> /\ Tail(s2) = Tail(s1) \o Bound(r2b, l)
        <4> HIDE DEF s1
        <4> QED
          BY <2>1, <3>1, TailConcat, ConcatProperties
      <3>3. /\ s2 \o Bound(out, l) # << >>
            /\ Tail(s2 \o Bound(out, l)) = Tail(s2) \o Bound(out, l)
        <4> HIDE DEF s2
        <4> QED
          BY <2>1, <3>2, TailConcat, ZenonT(60)
      <3> QED
        BY <2>2, <3>1, <3>2, <3>3
    <2>4. Queue' = [Queue EXCEPT ![l] = Tail(@)]
      BY <1>3, <2>3 DEF Queue
    <2> QED
      BY <1>1, <2>3, <2>4 DEF Forwarding!Take
  <1> QED
    BY <1>4, <1>5

\* A link that stops loses its queue, and no other link does.
LEMMA LinkStopsForwards ==
  ASSUME IndInv, NEW l \in Link, LinkStops(l)
  PROVE  Forwarding!Stop(l)
  <1>1. /\ chan \in [Link -> Seq(Packet)]
        /\ chan' = [chan EXCEPT ![l] = << >>] /\ gone' = gone \cup {l}
        /\ UNCHANGED <<table, out, r2b, held, history>>
    BY DEF IndInv, TypeOK, LinkStops, brokerVars
  <1>2. \A k \in Link : /\ Bound(Hand, k)' = Bound(Hand, k)
                        /\ Bound(r2b, k)' = Bound(r2b, k)
                        /\ Bound(out, k)' = Bound(out, k)
    BY <1>1 DEF Bound, Owner, Hand
  <1>3. Queue' = [Queue EXCEPT ![l] = << >>]
    BY <1>1, <1>2 DEF Queue
  <1> QED
    BY <1>1, <1>3 DEF Forwarding!Stop

\* Neither peering nor what a link sends concerns the abstract specification.
LEMMA OtherLinkStepsForward ==
  ASSUME UNCHANGED <<table, out, r2b, held, chan, gone, history>>
  PROVE  UNCHANGED Forwarding!vars
  <1>1. Queue' = Queue
    BY DEF Queue, Bound, Owner, Hand
  <1> QED
    BY <1>1, StutterForwards
-----------------------------------------------------------------------------
\* What the router sends enters the queues of the links it is for.
LEMMA RoutedPassesOn ==
  ASSUME TypeOK, out = << >>, UNCHANGED <<table, r2b, held, chan, gone>>,
         NEW p \in Packet, NEW to \in SUBSET Link, NEW order \in SetToSeqs(to),
         out' = [i \in DOMAIN order |-> ToLink(p, order[i])]
  PROVE  Forwarding!PassOn(to, p.kind, p.name, p.frame)
  <1> DEFINE batch == [i \in DOMAIN order |->
                         [link |-> order[i], kind |-> p.kind, name |-> p.name,
                          frame |-> p.frame]]
             abstract == [l \in Link |-> table[LookupId[l]]]
  <1>1. batch = out'
    <2>1. \A i \in DOMAIN order : order[i] \in Link
      BY OrderProperties
    <2> QED
      BY <2>1 DEF ToLink, Packet
  <1>2. \A l \in Link : {q \in Forwarding!Packet : abstract[q.link] = l} = For(l)
    BY DEF Forwarding!Packet, Packet, For, Owner
  <1> HIDE DEF batch
  <1>3. ASSUME NEW l \in Link \ gone
        PROVE  Queue'[l] = Queue[l] \o Only(batch, For(l))
    <2>1. Bound(out, l) = << >> /\ Bound(out, l)' = Only(batch, For(l))
      BY <1>1, OnlyEmpty DEF Bound, Owner, For
    <2>2. /\ Bound(Hand, l)' = Bound(Hand, l) /\ Bound(r2b, l)' = Bound(r2b, l)
          /\ chan'[l] = chan[l]
      BY DEF Bound, Owner, Hand
    <2>3. (chan[l] \o Bound(Hand, l) \o Bound(r2b, l)) \o << >>
            = chan[l] \o Bound(Hand, l) \o Bound(r2b, l)
      BY QueueParts, ConcatProperties, ConcatEmptySeq
    <2> QED
      BY <2>1, <2>2, <2>3 DEF Queue
  <1>4. Queue' = [l \in Link |-> IF l \in gone THEN << >>
                                 ELSE Queue[l] \o Only(batch, For(l))]
    BY <1>3 DEF Queue
  <1>5. Queue' = [l \in Link |->
                    IF l \in gone THEN << >>
                    ELSE Queue[l] \o Only(batch, {q \in Forwarding!Packet :
                                                   abstract[q.link] = l})]
    BY <1>2, <1>4
  <1> DEFINE Batch(ord) == [i \in DOMAIN ord |->
                              [link |-> ord[i], kind |-> p.kind, name |-> p.name,
                               frame |-> p.frame]]
             To(l) == {q \in Forwarding!Packet : abstract[q.link] = l}
  <1>6. Forwarding!PassOn(to, p.kind, p.name, p.frame) <=>
          \E ord \in Forwarding!SetToSeqs(to) :
            Queue' = [l \in Link |-> IF l \in gone THEN << >>
                                     ELSE Queue[l] \o Forwarding!Only(Batch(ord), To(l))]
    BY Zenon DEF Forwarding!PassOn
  <1>7. Forwarding!SetToSeqs(to) = SetToSeqs(to)
    <2>1. Forwarding!Cardinality(to) = Cardinality(to)
      BY DEF Forwarding!Cardinality, Cardinality
    <2> QED
      BY <2>1 DEF Forwarding!SetToSeqs, SetToSeqs
  <1>8. \A l \in Link : Forwarding!Only(batch, To(l)) = Only(batch, To(l))
    BY Zenon DEF Forwarding!Only, Only
  <1>9. Queue' = [l \in Link |-> IF l \in gone THEN << >>
                                 ELSE Queue[l] \o Forwarding!Only(batch, To(l))]
    BY <1>5, <1>8
  <1> QED
    BY <1>6, <1>7, <1>9 DEF batch

\* The order of no links at all.
LEMMA NoOrder == << >> \in SetToSeqs({})
  <1>1. Cardinality({}) = 0
    BY FS_EmptySet
  <1> QED
    BY <1>1 DEF SetToSeqs

\* A request is passed on to the links the router picked, or to none.
LEMMA RequestForwards ==
  ASSUME TypeOK, out = << >>, UNCHANGED <<table, r2b, held, chan, gone>>,
         NEW p \in Packet, NEW r \in RouterTables, HandleRequest(r, p, << >>)
  PROVE  \E to \in SUBSET Link : Forwarding!Request(p.link, p.name, p.frame, to)
  <1>1. p.kind = "Request" /\ p.link \in Link /\ p.name \in Name /\ p.frame \in Frame
    BY DEF HandleRequest, Packet
  <1>2. ~StoredFor(<< >>, p)
    BY DEF StoredFor, ToSet
  <1>3. /\ Asked(history, p).asked = history.asked \cup {<<p.link, p.name>>}
        /\ Asked(history, p).tried = history.tried
        /\ Asked(history, p) \in History
    BY AskedProperties DEF TypeOK
  <1>4. CASE DeepSix(r, p, << >>)
    <2> DEFINE none == << >>
    <2>1. out' = [i \in DOMAIN none |-> ToLink(p, none[i])]
      BY <1>4 DEF DeepSix
    <2> HIDE DEF none
    <2>2. Forwarding!PassOn({}, "Request", p.name, p.frame)
      BY <1>1, <2>1, NoOrder, RoutedPassesOn DEF none
    <2>3. history' = Asked(history, p)
      BY <1>4 DEF DeepSix
    <2>4. Forwarding!Request(p.link, p.name, p.frame, {})
      BY <1>3, <2>2, <2>3 DEF Forwarding!Request
    <2> QED
      BY <2>4
  <1>5. CASE ForwardRequest(r, p, << >>)
    <2> DEFINE to == Targets(r, p)
    <2>1. to \in SUBSET Link /\ \A k \in to : LinkPid[k] # LinkPid[p.link]
      BY DEF Targets, Candidates, RouterTables
    <2>2. /\ \E order \in SetToSeqs(to) :
                out' = [i \in DOMAIN order |-> ToLink(p, order[i])]
          /\ history'.asked = history.asked \cup {<<p.link, p.name>>}
          /\ history'.tried = history.tried \cup (to \X {p.name})
      BY <1>3, <1>5 DEF ForwardRequest, Rankings, History
    <2> HIDE DEF to
    <2>3. Forwarding!PassOn(to, "Request", p.name, p.frame)
      BY <1>1, <2>1, <2>2, RoutedPassesOn
    <2>4. Forwarding!Request(p.link, p.name, p.frame, to)
      BY <2>1, <2>2, <2>3 DEF Forwarding!Request
    <2> QED
      BY <2>1, <2>4
  <1> QED
    BY <1>2, <1>4, <1>5 DEF HandleRequest, AnswerFromStore

\* A response is passed on to links that asked for it, or ignored.
LEMMA ResponseForwards ==
  ASSUME TypeOK, out = << >>, UNCHANGED <<table, r2b, held, chan, gone>>,
         NEW p \in Packet, NEW r \in RouterTables, Justified(r, history),
         HandleResponse(r, p)
  PROVE  \/ \E to \in SUBSET Link : Forwarding!Respond(p.link, p.name, p.frame, to)
         \/ UNCHANGED Forwarding!vars
  <1>1. p.kind = "Response" /\ p.link \in Link /\ p.name \in Name /\ p.frame \in Frame
    BY DEF HandleResponse, Packet
  <1>2. CASE IgnoreResponse(r, p)
    BY <1>2, OtherLinkStepsForward DEF IgnoreResponse
  <1>3. CASE ForwardResponse(r, p)
    <2> DEFINE to == Askers(r, p)
    <2>1. /\ to \in SUBSET Link
          /\ \A k \in to : <<k, p.name>> \in history.asked /\ LinkPid[k] # LinkPid[p.link]
      BY <1>1 DEF Askers, Candidates, RouterTables, Justified
    <2>2. <<p.link, p.name>> \in history.tried
      BY <1>1, <1>3 DEF ForwardResponse, Expected, Justified
    <2>3. /\ \E order \in SetToSeqs(to) :
                out' = [i \in DOMAIN order |-> ToLink(p, order[i])]
          /\ UNCHANGED history
      BY <1>3 DEF ForwardResponse
    <2> HIDE DEF to
    <2>4. Forwarding!PassOn(to, "Response", p.name, p.frame)
      BY <1>1, <2>1, <2>3, RoutedPassesOn
    <2>5. Forwarding!Respond(p.link, p.name, p.frame, to)
      BY <2>1, <2>2, <2>3, <2>4 DEF Forwarding!Respond
    <2> QED
      BY <2>1, <2>5
  <1> QED
    BY <1>2, <1>3 DEF HandleResponse

\* The router thread's decisions are those InterestForwarding allows.
LEMMA RouteNextForwards == IndInv /\ RouteNext => [Forwarding!Next]_(Forwarding!vars)
  <1> SUFFICES ASSUME IndInv, RouteNext
               PROVE  Forwarding!Next \/ UNCHANGED Forwarding!vars
    OBVIOUS
  <1> DEFINE p == Head(l2b)
             r == Admitted(router, p.link)
  <1>1. /\ TypeOK /\ Justified(router, history) /\ router \in RouterTables
        /\ l2b \in Seq(Packet) /\ l2b # << >> /\ out = << >>
        /\ UNCHANGED <<table, r2b, held, chan, gone>>
    BY DEF IndInv, TypeOK, RouteNext, brokerVars
  <1>2. /\ p \in Packet /\ p.link \in Link /\ p.name \in Name /\ p.frame \in Frame
    <2>1. p \in Packet
      BY <1>1, HeadTailProperties
    <2> QED
      BY <2>1 DEF Packet
  <1>3. /\ r \in RouterTables /\ router.known \subseteq r.known
        /\ r.pending = router.pending /\ r.forwarded = router.forwarded
    BY <1>1, <1>2, AdmittedProperties
  <1>4. HandlePacket(r, p, << >>)
    BY DEF RouteNext, rs
  <1> HIDE DEF p, r
  <1>5. Justified(r, history)
    BY <1>1, <1>3 DEF Justified
  <1>6. CASE HandleRequest(r, p, << >>)
    <2>1. \E to \in SUBSET Link : Forwarding!Request(p.link, p.name, p.frame, to)
      BY <1>1, <1>2, <1>3, <1>6, RequestForwards
    <2> QED
      BY <1>2, <2>1 DEF Forwarding!Next
  <1>7. CASE HandleResponse(r, p)
    <2>1. \/ \E to \in SUBSET Link : Forwarding!Respond(p.link, p.name, p.frame, to)
          \/ UNCHANGED Forwarding!vars
      BY <1>1, <1>2, <1>3, <1>5, <1>7, ResponseForwards
    <2> QED
      BY <1>2, <2>1 DEF Forwarding!Next
  <1> QED
    BY <1>4, <1>6, <1>7 DEF HandlePacket

\* Every step of the broker is one of InterestForwarding, or none.
LEMMA NextForwards == IndInv /\ [Next]_vars => [Forwarding!Next]_(Forwarding!vars)
  <1> SUFFICES ASSUME IndInv, [Next]_vars
               PROVE  Forwarding!Next \/ UNCHANGED Forwarding!vars
    OBVIOUS
  <1>1. CASE Run
    BY <1>1, RunForwards DEF Forwarding!Next
  <1>2. CASE RouteNext
    BY <1>2, RouteNextForwards
  <1>3. CASE SendRouted \/ TakeRouted \/ Deliver \/ FailToDeliver
    BY <1>3, SendRoutedForwards, TakeRoutedForwards, DeliverForwards, FailToDeliverForwards
  <1>4. ASSUME NEW l \in Link, PeerWithLink(l)
        PROVE  UNCHANGED Forwarding!vars
    BY <1>4, OtherLinkStepsForward DEF PeerWithLink, channelVars
  <1>5. ASSUME NEW l \in Link, LinkTakes(l) \/ LinkStops(l)
        PROVE  Forwarding!Next \/ UNCHANGED Forwarding!vars
    BY <1>5, LinkTakesForwards, LinkStopsForwards DEF Forwarding!Next
  <1>6. ASSUME NEW p \in Packet, LinkSends(p)
        PROVE  UNCHANGED Forwarding!vars
    BY <1>6, OtherLinkStepsForward DEF LinkSends, brokerVars
  <1>7. CASE UNCHANGED vars
    BY <1>7, OtherLinkStepsForward DEF vars, brokerVars, channelVars
  <1> QED
    BY <1>1, <1>2, <1>3, <1>4, <1>5, <1>6, <1>7 DEF Next, Threads, Links

\* The broker implements InterestForwarding: what its links are sent is what
\* they may be sent, and reaches them once and in order unless they stop.
THEOREM ForwardingTheorem == Spec => ForwardingSafety
  BY InvariantTheorem, InitForwards, NextForwards, PTL
     DEF Spec, ForwardingSafety, Forwarding!Spec
=============================================================================
