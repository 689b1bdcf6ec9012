----------------------------- MODULE EchoProofs ------------------------------
(***************************************************************************)
(* Theorems about Echo protocols that are joined in pairs, for any         *)
(* protocols, callers, plans and sizes of channels.                        *)
(***************************************************************************)
EXTENDS EchoProperties, FoldProofs

(***************************************************************************)
(* A ping function, the arm of the match that its argument leads to and    *)
(* the request function it calls mean the same channel, each of the five.  *)
(***************************************************************************)
LEMMA TablesAgree ==
  ASSUME NEW k \in Kind
  PROVE  Arms[Args[k]] = k /\ Receivers[k] = k
  <1>1. CASE k = "unreliable_unordered"
    BY <1>1 DEF Arms, Args, Receivers
  <1>2. CASE k = "unreliable_sequenced"
    BY <1>2 DEF Arms, Args, Receivers
  <1>3. CASE k = "reliable_unordered"
    BY <1>3 DEF Arms, Args, Receivers
  <1>4. CASE k = "reliable_ordered"
    BY <1>4 DEF Arms, Args, Receivers
  <1>5. CASE k = "reliable_sequenced"
    BY <1>5 DEF Arms, Args, Receivers
  <1> QED
    BY <1>1, <1>2, <1>3, <1>4, <1>5 DEF Kind

LEMMA ChannelsAgree ==
  ASSUME NEW c \in Caller
  PROVE  /\ Function[c] \in Kind
         /\ ChannelFor(c) = Function[c]
         /\ Receivers[Function[c]] = Function[c]
  <1>1. Function[c] \in Kind
    BY CallerAssumption
  <1> QED
    BY <1>1, TablesAgree DEF ChannelFor

\* The packets of a queue that a packet was put in.
LEMMA AppendElements ==
  ASSUME NEW S, NEW s \in Seq(S), NEW e \in S
  PROVE  /\ Append(s, e) \in Seq(S)
         /\ Len(Append(s, e)) = Len(s) + 1
         /\ \A i \in DOMAIN Append(s, e) :
              Append(s, e)[i] = e \/ \E j \in DOMAIN s : Append(s, e)[i] = s[j]
  <1>1. /\ Append(s, e) \in Seq(S)
        /\ Len(Append(s, e)) = Len(s) + 1
        /\ \A i \in 1 .. Len(s) : Append(s, e)[i] = s[i]
        /\ Append(s, e)[Len(s) + 1] = e
    BY AppendProperties
  <1>2. ASSUME NEW i \in DOMAIN Append(s, e)
        PROVE  Append(s, e)[i] = e \/ \E j \in DOMAIN s : Append(s, e)[i] = s[j]
    <2>1. Len(s) \in Nat /\ DOMAIN s = 1 .. Len(s)
      OBVIOUS
    <2>2. i \in 1 .. Len(s) + 1
      BY <1>1
    <2>3. i \in 1 .. Len(s) \/ i = Len(s) + 1
      BY <2>1, <2>2
    <2> QED
      BY <1>1, <2>1, <2>3
  <1> QED
    BY <1>1, <1>2

\* The packets of a queue whose first one was taken.
LEMMA TailElements ==
  ASSUME NEW S, NEW s \in Seq(S), s # << >>
  PROVE  /\ Tail(s) \in Seq(S)
         /\ Len(Tail(s)) <= Len(s)
         /\ Head(s) \in S
         /\ \E j \in DOMAIN s : Head(s) = s[j]
         /\ \A i \in DOMAIN Tail(s) : \E j \in DOMAIN s : Tail(s)[i] = s[j]
  <1>1. Len(s) \in Nat \ {0} /\ DOMAIN s = 1 .. Len(s)
    BY EmptySeq
  <1>2. /\ Head(s) \in S /\ Head(s) = s[1]
        /\ Tail(s) \in Seq(S) /\ Len(Tail(s)) = Len(s) - 1
        /\ \A i \in 1 .. Len(s) - 1 : Tail(s)[i] = s[i + 1]
    BY HeadTailProperties, <1>1
  <1>3. ASSUME NEW i \in DOMAIN Tail(s)
        PROVE  \E j \in DOMAIN s : Tail(s)[i] = s[j]
    <2>1. i \in 1 .. Len(s) - 1
      BY <1>1, <1>2
    <2>2. i + 1 \in DOMAIN s
      BY <1>1, <2>1
    <2> QED
      BY <1>2, <2>1, <2>2
  <1>4. 1 \in DOMAIN s
    BY <1>1
  <1> QED
    BY <1>1, <1>2, <1>3, <1>4

\* The packets of a queue that one was lost from.
LEMMA RemovedElements ==
  ASSUME NEW S, NEW s \in Seq(S), NEW k \in DOMAIN s
  PROVE  /\ RemoveAt(s, k) \in Seq(S)
         /\ Len(RemoveAt(s, k)) <= Len(s)
         /\ \A i \in DOMAIN RemoveAt(s, k) : \E j \in DOMAIN s : RemoveAt(s, k)[i] = s[j]
  <1> DEFINE before == SubSeq(s, 1, k - 1)
             after == SubSeq(s, k + 1, Len(s))
  <1>1. Len(s) \in Nat /\ DOMAIN s = 1 .. Len(s) /\ k \in 1 .. Len(s)
    OBVIOUS
  <1>2. /\ before \in Seq(S) /\ Len(before) = k - 1
        /\ \A i \in 1 .. k - 1 : before[i] = s[i]
    <2>1. \A i \in 1 .. k - 1 : s[i] \in S
      BY <1>1
    <2> QED
      BY <1>1, <2>1, SubSeqProperties
  <1>3. /\ after \in Seq(S) /\ Len(after) = Len(s) - k
        /\ \A i \in 1 .. Len(s) - k : after[i] = s[k + i]
    <2>1. \A i \in k + 1 .. Len(s) : s[i] \in S
      BY <1>1
    <2> QED
      BY <1>1, <2>1, SubSeqProperties, SMTT(30)
  <1>4. RemoveAt(s, k) = before \o after
    BY DEF RemoveAt
  <1> HIDE DEF before, after
  <1>5. /\ before \o after \in Seq(S)
        /\ Len(before \o after) = Len(s) - 1
        /\ \A i \in 1 .. k - 1 : (before \o after)[i] = before[i]
        /\ \A i \in k .. Len(s) - 1 : (before \o after)[i] = after[i - (k - 1)]
    <2>1. /\ before \o after \in Seq(S)
          /\ Len(before \o after) = Len(before) + Len(after)
          /\ \A i \in 1 .. Len(before) + Len(after) :
               (before \o after)[i] = IF i <= Len(before) THEN before[i]
                                                         ELSE after[i - Len(before)]
      BY <1>2, <1>3, ConcatProperties
    <2>2. Len(before) = k - 1 /\ Len(after) = Len(s) - k
      BY <1>2, <1>3
    <2> DEFINE both == before \o after
               all == Len(s)
    <2>3. k \in Nat /\ all \in Nat /\ 1 <= k /\ k <= all
      BY <1>1
    <2>4. /\ both \in Seq(S) /\ Len(both) = (k - 1) + (all - k)
          /\ \A i \in 1 .. (k - 1) + (all - k) :
               both[i] = IF i <= k - 1 THEN before[i] ELSE after[i - (k - 1)]
      BY <2>1, <2>2
    <2> HIDE DEF both, all
    <2>5. Len(both) = all - 1
      BY <2>3, <2>4
    <2>6. ASSUME NEW i \in 1 .. k - 1 PROVE both[i] = before[i]
      BY <2>3, <2>4
    <2>7. ASSUME NEW i \in k .. all - 1 PROVE both[i] = after[i - (k - 1)]
      BY <2>3, <2>4, SMTT(30)
    <2> QED
      BY <2>4, <2>5, <2>6, <2>7 DEF both, all
  <1>6. ASSUME NEW i \in DOMAIN (before \o after)
        PROVE  \E j \in DOMAIN s : (before \o after)[i] = s[j]
    <2>1. i \in 1 .. Len(s) - 1
      BY <1>1, <1>5
    <2>2. CASE i < k
      BY <1>1, <1>2, <1>5, <2>1, <2>2
    <2>3. CASE i >= k
      <3>1. i - (k - 1) \in 1 .. Len(s) - k
        BY <1>1, <2>1, <2>3
      <3>2. (before \o after)[i] = s[k + (i - (k - 1))]
        BY <1>1, <1>3, <1>5, <2>1, <2>3, <3>1, SMTT(30)
      <3> QED
        BY <1>1, <2>1, <2>3, <3>2
    <2> QED
      BY <1>1, <2>1, <2>2, <2>3
  <1> QED
    BY <1>1, <1>4, <1>5, <1>6
-----------------------------------------------------------------------------
(* The queues between the protocols. *)

WaysOK ==
  /\ way \in [Protocol -> Seq(Packet)]
  /\ \A p \in Protocol : Len(way[p]) <= Capacity
  /\ PacketsGoTheirWay

\* A packet that is sent goes on a way it may go.
LEMMA SentKeepsWays ==
  ASSUME WaysOK, NEW p \in Protocol, NEW packet \in Packet,
         GoesTheWayOf(p, packet), Sent(p, packet)
  PROVE  WaysOK'
  <1>1. way[p] \in Seq(Packet) /\ Len(way[p]) < Capacity
    BY DEF WaysOK, Sent
  <1>2. /\ Append(way[p], packet) \in Seq(Packet)
        /\ Len(Append(way[p], packet)) = Len(way[p]) + 1
        /\ \A i \in DOMAIN Append(way[p], packet) :
             \/ Append(way[p], packet)[i] = packet
             \/ \E j \in DOMAIN way[p] : Append(way[p], packet)[i] = way[p][j]
    BY <1>1, AppendElements
  <1>3. /\ way' \in [Protocol -> Seq(Packet)]
        /\ way'[p] = Append(way[p], packet)
        /\ \A q \in Protocol : q # p => way'[q] = way[q]
    BY <1>2 DEF WaysOK, Sent
  <1>4. ASSUME NEW q \in Protocol
        PROVE  Len(way'[q]) <= Capacity
    <2>1. CASE q = p
      <3>1. Len(way[p]) \in Nat
        BY <1>1
      <3> QED
        BY <1>1, <1>2, <1>3, <2>1, <3>1, CapacityAssumption
    <2>2. CASE q # p
      BY <1>3, <2>2 DEF WaysOK
    <2> QED
      BY <2>1, <2>2
  <1>5. ASSUME NEW q \in Protocol, NEW i \in DOMAIN way'[q]
        PROVE  GoesTheWayOf(q, way'[q][i])
    <2>1. CASE q = p
      BY <1>2, <1>3, <2>1 DEF WaysOK, PacketsGoTheirWay
    <2>2. CASE q # p
      BY <1>3, <2>2 DEF WaysOK, PacketsGoTheirWay
    <2> QED
      BY <2>1, <2>2
  <1> QED
    BY <1>3, <1>4, <1>5 DEF WaysOK, PacketsGoTheirWay, GoesTheWayOf

\* A queue of which some packets are gone holds no others than before.
LEMMA ShorterKeepsWays ==
  ASSUME WaysOK, NEW p \in Protocol, NEW rest \in Seq(Packet),
         Len(rest) <= Len(way[p]),
         \A i \in DOMAIN rest : \E j \in DOMAIN way[p] : rest[i] = way[p][j],
         way' = [way EXCEPT ![p] = rest]
  PROVE  WaysOK'
  <1>1. way[p] \in Seq(Packet) /\ Len(way[p]) \in Nat /\ Len(rest) \in Nat
    BY DEF WaysOK
  <1>2. /\ way' \in [Protocol -> Seq(Packet)]
        /\ way'[p] = rest
        /\ \A q \in Protocol : q # p => way'[q] = way[q]
    BY DEF WaysOK
  <1>3. ASSUME NEW q \in Protocol
        PROVE  Len(way'[q]) <= Capacity
    BY <1>1, <1>2, CapacityAssumption DEF WaysOK
  <1>4. ASSUME NEW q \in Protocol, NEW i \in DOMAIN way'[q]
        PROVE  GoesTheWayOf(q, way'[q][i])
    <2>1. CASE q = p
      BY <1>2, <2>1 DEF WaysOK, PacketsGoTheirWay
    <2>2. CASE q # p
      BY <1>2, <2>2 DEF WaysOK, PacketsGoTheirWay
    <2> QED
      BY <2>1, <2>2
  <1> QED
    BY <1>2, <1>3, <1>4 DEF WaysOK, PacketsGoTheirWay, GoesTheWayOf
-----------------------------------------------------------------------------
(* The other variables. *)

CallsOK ==
  /\ plan \in [Caller -> Seq(Nat \ {0})]
  /\ size \in [Caller -> Nat]
  /\ left \in [Caller -> Nat]
  /\ \A c \in Caller : left[c] <= size[c]
  /\ due \in [Caller -> Nat]

HandsOK ==
  /\ hand \in [Protocol -> [to : {"link", "channel"}, caller : Caller] \cup {Nothing}]
  /\ HandsHoldTheirOwn

ChannelsOK ==
  /\ responses \in [Protocol -> [Kind -> Seq(Caller)]]
  /\ \A p \in Protocol, k \in Kind : Len(responses[p][k]) <= BufferSize
  /\ ResponsesReachTheirCallers

FaultsOK == faults \in [losses : 0 .. MaxLosses, repeats : 0 .. MaxRepeats]

LEMMA Parts == AllInPlace <=> CallsOK /\ WaysOK /\ HandsOK /\ ChannelsOK /\ FaultsOK
  BY DEF AllInPlace, TypeOK, CallsOK, WaysOK, HandsOK, ChannelsOK, FaultsOK

LEMMA PartsKept ==
  ASSUME CallsOK', WaysOK', HandsOK', ChannelsOK', FaultsOK'
  PROVE  AllInPlace'
  BY DEF AllInPlace, TypeOK, CallsOK, WaysOK, HandsOK, ChannelsOK, FaultsOK

LEMMA InitInPlace == Init => AllInPlace
  <1> SUFFICES ASSUME Init PROVE AllInPlace
    OBVIOUS
  <1>1. CallsOK
    BY CallerAssumption DEF Init, CallsOK
  <1>2. WaysOK
    BY CapacityAssumption DEF Init, WaysOK, PacketsGoTheirWay
  <1>3. HandsOK
    BY DEF Init, HandsOK, HandsHoldTheirOwn
  <1>4. ChannelsOK
    BY CapacityAssumption DEF Init, ChannelsOK, ResponsesReachTheirCallers
  <1>5. FaultsOK
    BY CapacityAssumption DEF Init, FaultsOK
  <1> QED
    BY <1>1, <1>2, <1>3, <1>4, <1>5, Parts

\* What the steps leave alone stays as it was.
LEMMA CallsAlone == ASSUME CallsOK, UNCHANGED callVars PROVE CallsOK'
  BY DEF CallsOK, callVars

LEMMA WaysAlone == ASSUME WaysOK, UNCHANGED way PROVE WaysOK'
  BY DEF WaysOK, PacketsGoTheirWay, GoesTheWayOf

LEMMA HandsAlone == ASSUME HandsOK, UNCHANGED hand PROVE HandsOK'
  BY DEF HandsOK, HandsHoldTheirOwn

LEMMA ChannelsAlone == ASSUME ChannelsOK, UNCHANGED responses PROVE ChannelsOK'
  BY DEF ChannelsOK, ResponsesReachTheirCallers

LEMMA FaultsAlone == ASSUME FaultsOK, UNCHANGED faults PROVE FaultsOK'
  BY DEF FaultsOK

LEMMA HandEmptied ==
  ASSUME HandsOK, NEW p \in Protocol, hand' = [hand EXCEPT ![p] = Nothing]
  PROVE  HandsOK'
  <1>1. /\ hand' \in [Protocol -> [to : {"link", "channel"}, caller : Caller] \cup {Nothing}]
        /\ hand'[p] = Nothing
        /\ \A q \in Protocol : q # p => hand'[q] = hand[q]
    BY DEF HandsOK
  <1>2. HandsHoldTheirOwn'
    <2> SUFFICES ASSUME NEW q \in Protocol, hand'[q] # Nothing
                 PROVE  IF hand'[q].to = "channel"
                        THEN Owner[hand'[q].caller] = q /\ To[hand'[q].caller] = Peer[q]
                        ELSE Owner[hand'[q].caller] = Peer[q] /\ To[hand'[q].caller] = q
      BY DEF HandsHoldTheirOwn
    <2>1. q # p /\ hand'[q] = hand[q]
      BY <1>1
    <2> QED
      BY <2>1 DEF HandsOK, HandsHoldTheirOwn
  <1> QED
    BY <1>1, <1>2 DEF HandsOK
-----------------------------------------------------------------------------
(* Every step keeps the invariant. *)

LEMMA BeginWindowKeeps ==
  ASSUME AllInPlace, NEW c \in Caller, BeginWindow(c)
  PROVE  AllInPlace'
  <1>1. CallsOK /\ WaysOK /\ HandsOK /\ ChannelsOK /\ FaultsOK
    BY Parts
  <1>2. plan[c] \in Seq(Nat \ {0}) /\ plan[c] # << >>
    BY <1>1 DEF CallsOK, BeginWindow
  <1>3. Head(plan[c]) \in Nat /\ Tail(plan[c]) \in Seq(Nat \ {0})
    <2>1. Len(plan[c]) # 0
      BY <1>2, EmptySeq
    <2> QED
      BY <1>2, <2>1, HeadTailProperties
  <1>4. CallsOK'
    BY <1>1, <1>3 DEF CallsOK, BeginWindow
  <1> QED
    BY <1>1, <1>4, PartsKept, WaysAlone, HandsAlone, ChannelsAlone, FaultsAlone DEF BeginWindow

LEMMA SendRequestKeeps ==
  ASSUME AllInPlace, NEW c \in Caller, SendRequest(c)
  PROVE  AllInPlace'
  <1>1. CallsOK /\ WaysOK /\ HandsOK /\ ChannelsOK /\ FaultsOK
    BY Parts
  <1>2. CallsOK'
    BY <1>1 DEF CallsOK, SendRequest
  <1>3. WaysOK'
    <2> DEFINE packet == [type |-> "Request", caller |-> c]
    <2>1. packet \in Packet /\ Owner[c] \in Protocol /\ GoesTheWayOf(Owner[c], packet)
      BY CallerAssumption DEF Packet, GoesTheWayOf
    <2>2. Sent(Owner[c], packet)
      BY DEF SendRequest
    <2> HIDE DEF packet
    <2> QED
      BY <1>1, <2>1, <2>2, SentKeepsWays
  <1> QED
    BY <1>1, <1>2, <1>3, PartsKept, HandsAlone, ChannelsAlone, FaultsAlone DEF SendRequest

LEMMA TakeResponseKeeps ==
  ASSUME AllInPlace, NEW c \in Caller, TakeResponse(c)
  PROVE  AllInPlace'
  <1> DEFINE p == Owner[c]
             k == Function[c]
             rest == Tail(responses[p][k])
  <1>1. CallsOK /\ WaysOK /\ HandsOK /\ ChannelsOK /\ FaultsOK
    BY Parts
  <1>2. p \in Protocol /\ k \in Kind
    BY CallerAssumption
  <1>3. responses[p][k] \in Seq(Caller) /\ responses[p][k] # << >>
    BY <1>1, <1>2, ChannelsAgree DEF ChannelsOK, TakeResponse, Channel
  <1>4. /\ rest \in Seq(Caller)
        /\ Len(rest) <= Len(responses[p][k])
        /\ \A i \in DOMAIN rest : \E j \in DOMAIN responses[p][k] : rest[i] = responses[p][k][j]
    BY <1>3, TailElements
  <1>5. responses' = [responses EXCEPT ![p][k] = rest]
    BY ChannelsAgree DEF TakeResponse
  <1> HIDE DEF p, k, rest
  <1>6. /\ responses' \in [Protocol -> [Kind -> Seq(Caller)]]
        /\ responses'[p][k] = rest
        /\ \A q \in Protocol, l \in Kind :
             q # p \/ l # k => responses'[q][l] = responses[q][l]
    BY <1>1, <1>2, <1>4, <1>5 DEF ChannelsOK
  <1>7. ASSUME NEW q \in Protocol, NEW l \in Kind
        PROVE  Len(responses'[q][l]) <= BufferSize
    <2>1. CASE q = p /\ l = k
      <3>1. Len(rest) \in Nat /\ Len(responses[p][k]) \in Nat
        BY <1>3, <1>4
      <3>2. Len(responses[p][k]) <= BufferSize
        BY <1>1, <1>2 DEF ChannelsOK
      <3> QED
        BY <1>4, <1>6, <2>1, <3>1, <3>2, CapacityAssumption
    <2>2. CASE q # p \/ l # k
      BY <1>1, <1>6, <2>2 DEF ChannelsOK
    <2> QED
      BY <2>1, <2>2
  <1>8. ASSUME NEW q \in Protocol, NEW l \in Kind, NEW i \in DOMAIN responses'[q][l]
        PROVE  LET d == responses'[q][l][i]
               IN  Owner[d] = q /\ Function[d] = l /\ To[d] = Peer[q]
    <2>1. CASE q = p /\ l = k
      BY <1>1, <1>2, <1>4, <1>6, <2>1 DEF ChannelsOK, ResponsesReachTheirCallers
    <2>2. CASE q # p \/ l # k
      BY <1>1, <1>6, <2>2 DEF ChannelsOK, ResponsesReachTheirCallers
    <2> QED
      BY <2>1, <2>2
  <1>9. ChannelsOK'
    BY <1>6, <1>7, <1>8 DEF ChannelsOK, ResponsesReachTheirCallers
  <1>10. CallsOK'
    BY <1>1 DEF CallsOK, TakeResponse
  <1> QED
    BY <1>1, <1>9, <1>10, PartsKept, WaysAlone, HandsAlone, FaultsAlone DEF TakeResponse
LEMMA DispatchKeeps ==
  ASSUME AllInPlace, NEW p \in Protocol, Dispatch(p)
  PROVE  AllInPlace'
  <1> DEFINE from == Peer[p]
             packet == Head(way[from])
             rest == Tail(way[from])
             held == InHand(p, packet)
  <1>1. CallsOK /\ WaysOK /\ HandsOK /\ ChannelsOK /\ FaultsOK
    BY Parts
  <1>2. from \in Protocol /\ Peer[from] = p
    BY PeerAssumption
  <1>3. way[from] \in Seq(Packet) /\ way[from] # << >>
    BY <1>1, <1>2 DEF WaysOK, Dispatch
  <1>4. /\ rest \in Seq(Packet)
        /\ Len(rest) <= Len(way[from])
        /\ packet \in Packet
        /\ \E j \in DOMAIN way[from] : packet = way[from][j]
        /\ \A i \in DOMAIN rest : \E j \in DOMAIN way[from] : rest[i] = way[from][j]
    BY <1>3, TailElements
  <1>5. way' = [way EXCEPT ![from] = rest] /\ hand' = [hand EXCEPT ![p] = held]
    BY DEF Dispatch
  <1>6. GoesTheWayOf(from, packet)
    BY <1>1, <1>2, <1>4 DEF WaysOK, PacketsGoTheirWay
  <1>7. /\ held \in [to : {"link", "channel"}, caller : Caller] \cup {Nothing}
        /\ held # Nothing =>
             IF held.to = "channel" THEN Owner[held.caller] = p /\ To[held.caller] = from
                                    ELSE Owner[held.caller] = from /\ To[held.caller] = p
    <2> HIDE DEF packet
    <2>1. packet.caller \in Caller /\ packet.type \in {"Request", "Response"}
      BY <1>4 DEF Packet
    <2>2. CASE packet.type = "Response"
      BY <1>2, <1>6, <2>1, <2>2 DEF InHand, GoesTheWayOf
    <2>3. CASE packet.type = "Request" /\ To[packet.caller] = p
      BY <1>2, <1>6, <2>1, <2>3 DEF InHand, GoesTheWayOf
    <2>4. CASE packet.type = "Request" /\ To[packet.caller] # p
      BY <2>1, <2>4 DEF InHand
    <2> QED
      BY <2>1, <2>2, <2>3, <2>4
  <1> HIDE DEF packet, rest, held
  <1>8. WaysOK'
    BY <1>1, <1>2, <1>4, <1>5, ShorterKeepsWays
  <1>9. HandsOK'
    <2> HIDE DEF from
    <2>1. /\ hand' \in [Protocol -> [to : {"link", "channel"}, caller : Caller] \cup {Nothing}]
          /\ hand'[p] = held
          /\ \A q \in Protocol : q # p => hand'[q] = hand[q]
      BY <1>1, <1>5, <1>7 DEF HandsOK
    <2>2. ASSUME NEW q \in Protocol, hand'[q] # Nothing
          PROVE  IF hand'[q].to = "channel"
                 THEN Owner[hand'[q].caller] = q /\ To[hand'[q].caller] = Peer[q]
                 ELSE Owner[hand'[q].caller] = Peer[q] /\ To[hand'[q].caller] = q
      <3>1. CASE q = p
        BY <1>7, <2>1, <2>2, <3>1 DEF from
      <3>2. CASE q # p
        BY <1>1, <2>1, <2>2, <3>2 DEF HandsOK, HandsHoldTheirOwn
      <3> QED
        BY <3>1, <3>2
    <2> QED
      BY <2>1, <2>2 DEF HandsOK, HandsHoldTheirOwn
  <1> QED
    BY <1>1, <1>8, <1>9, PartsKept, CallsAlone, ChannelsAlone, FaultsAlone DEF Dispatch

LEMMA RespondKeeps ==
  ASSUME AllInPlace, NEW p \in Protocol, Respond(p)
  PROVE  AllInPlace'
  <1> DEFINE packet == [type |-> "Response", caller |-> hand[p].caller]
  <1>1. CallsOK /\ WaysOK /\ HandsOK /\ ChannelsOK /\ FaultsOK
    BY Parts
  <1>2. /\ hand[p] \in [to : {"link", "channel"}, caller : Caller]
        /\ hand[p] # Nothing /\ hand[p].to = "link"
    BY <1>1 DEF HandsOK, Respond
  <1>3. Owner[hand[p].caller] = Peer[p] /\ To[hand[p].caller] = p
    BY <1>1, <1>2 DEF HandsOK, HandsHoldTheirOwn
  <1>4. packet \in Packet /\ GoesTheWayOf(p, packet)
    BY <1>2, <1>3 DEF Packet, GoesTheWayOf
  <1>5. Sent(p, packet) /\ hand' = [hand EXCEPT ![p] = Nothing]
    BY DEF Respond
  <1> HIDE DEF packet
  <1>6. WaysOK' /\ HandsOK'
    BY <1>1, <1>4, <1>5, SentKeepsWays, HandEmptied
  <1> QED
    BY <1>1, <1>6, PartsKept, CallsAlone, ChannelsAlone, FaultsAlone DEF Respond

LEMMA HandOverKeeps ==
  ASSUME AllInPlace, NEW p \in Protocol, HandOver(p)
  PROVE  AllInPlace'
  <1> DEFINE c == hand[p].caller
             k == ChannelFor(c)
             longer == Append(responses[p][k], c)
  <1>1. CallsOK /\ WaysOK /\ HandsOK /\ ChannelsOK /\ FaultsOK
    BY Parts
  <1>2. /\ c \in Caller /\ k \in Kind /\ k = Function[c]
        /\ hand[p] # Nothing /\ hand[p].to = "channel"
    BY <1>1, ChannelsAgree DEF HandsOK, HandOver
  <1>3. Owner[c] = p /\ To[c] = Peer[p]
    BY <1>1, <1>2 DEF HandsOK, HandsHoldTheirOwn
  <1>4. responses[p][k] \in Seq(Caller) /\ Len(responses[p][k]) < BufferSize
    BY <1>1, <1>2 DEF ChannelsOK, HandOver
  <1>5. /\ longer \in Seq(Caller)
        /\ Len(longer) = Len(responses[p][k]) + 1
        /\ \A i \in DOMAIN longer :
             longer[i] = c \/ \E j \in DOMAIN responses[p][k] : longer[i] = responses[p][k][j]
    BY <1>2, <1>4, AppendElements
  <1>6. responses' = [responses EXCEPT ![p][k] = longer] /\ hand' = [hand EXCEPT ![p] = Nothing]
    BY DEF HandOver
  <1> HIDE DEF c, k, longer
  <1>7. /\ responses' \in [Protocol -> [Kind -> Seq(Caller)]]
        /\ responses'[p][k] = longer
        /\ \A q \in Protocol, l \in Kind :
             q # p \/ l # k => responses'[q][l] = responses[q][l]
    BY <1>1, <1>2, <1>5, <1>6 DEF ChannelsOK
  <1>8. ASSUME NEW q \in Protocol, NEW l \in Kind
        PROVE  Len(responses'[q][l]) <= BufferSize
    <2>1. CASE q = p /\ l = k
      <3>1. Len(responses[p][k]) \in Nat
        BY <1>4
      <3> QED
        BY <1>4, <1>5, <1>7, <2>1, <3>1, CapacityAssumption
    <2>2. CASE q # p \/ l # k
      BY <1>1, <1>7, <2>2 DEF ChannelsOK
    <2> QED
      BY <2>1, <2>2
  <1>9. ASSUME NEW q \in Protocol, NEW l \in Kind, NEW i \in DOMAIN responses'[q][l]
        PROVE  LET d == responses'[q][l][i]
               IN  Owner[d] = q /\ Function[d] = l /\ To[d] = Peer[q]
    <2>1. CASE q = p /\ l = k
      <3>1. responses'[q][l] = longer /\ i \in DOMAIN longer
        BY <1>7, <1>9, <2>1
      <3>2. CASE longer[i] = c
        BY <1>2, <1>3, <2>1, <3>1, <3>2
      <3>3. ASSUME NEW j \in DOMAIN responses[p][k], longer[i] = responses[p][k][j]
            PROVE  LET d == longer[i]
                   IN  Owner[d] = p /\ Function[d] = k /\ To[d] = Peer[p]
        BY <1>1, <1>2, <3>3 DEF ChannelsOK, ResponsesReachTheirCallers
      <3> QED
        BY <1>5, <2>1, <3>1, <3>2, <3>3
    <2>2. CASE q # p \/ l # k
      BY <1>1, <1>7, <2>2 DEF ChannelsOK, ResponsesReachTheirCallers
    <2> QED
      BY <2>1, <2>2
  <1>10. ChannelsOK' /\ HandsOK'
    BY <1>1, <1>6, <1>7, <1>8, <1>9, HandEmptied DEF ChannelsOK, ResponsesReachTheirCallers
  <1> QED
    BY <1>1, <1>10, PartsKept, CallsAlone, WaysAlone, FaultsAlone DEF HandOver

LEMMA LoseKeeps ==
  ASSUME AllInPlace, NEW p \in Protocol, NEW i \in DOMAIN way[p], Lose(p, i)
  PROVE  AllInPlace'
  <1>1. CallsOK /\ WaysOK /\ HandsOK /\ ChannelsOK /\ FaultsOK
    BY Parts
  <1>2. /\ RemoveAt(way[p], i) \in Seq(Packet)
        /\ Len(RemoveAt(way[p], i)) <= Len(way[p])
        /\ \A n \in DOMAIN RemoveAt(way[p], i) :
             \E j \in DOMAIN way[p] : RemoveAt(way[p], i)[n] = way[p][j]
    BY <1>1, RemovedElements DEF WaysOK
  <1>3. WaysOK'
    BY <1>1, <1>2, ShorterKeepsWays DEF Lose
  <1>4. FaultsOK'
    BY <1>1, CapacityAssumption DEF FaultsOK, Lose
  <1> QED
    BY <1>1, <1>3, <1>4, PartsKept, CallsAlone, HandsAlone, ChannelsAlone DEF Lose

LEMMA RepeatKeeps ==
  ASSUME AllInPlace, NEW p \in Protocol, NEW i \in DOMAIN way[p], Repeat(p, i)
  PROVE  AllInPlace'
  <1>1. CallsOK /\ WaysOK /\ HandsOK /\ ChannelsOK /\ FaultsOK
    BY Parts
  <1>2. way[p][i] \in Packet /\ GoesTheWayOf(p, way[p][i])
    BY <1>1 DEF WaysOK, PacketsGoTheirWay
  <1>3. WaysOK'
    BY <1>1, <1>2, SentKeepsWays DEF Repeat
  <1>4. FaultsOK'
    BY <1>1, CapacityAssumption DEF FaultsOK, Repeat
  <1> QED
    BY <1>1, <1>3, <1>4, PartsKept, CallsAlone, HandsAlone, ChannelsAlone DEF Repeat

LEMMA NextKeeps == AllInPlace /\ [Next]_vars => AllInPlace'
  <1> SUFFICES ASSUME AllInPlace, [Next]_vars PROVE AllInPlace'
    OBVIOUS
  <1>1. CASE UNCHANGED vars
    <2>1. CallsOK /\ WaysOK /\ HandsOK /\ ChannelsOK /\ FaultsOK
      BY Parts
    <2> QED
      BY <1>1, <2>1, PartsKept, CallsAlone, WaysAlone, HandsAlone, ChannelsAlone, FaultsAlone
      DEF vars
  <1>2. ASSUME NEW c \in Caller, CallerStep(c) \/ TakeResponse(c)
        PROVE  AllInPlace'
    BY <1>2, BeginWindowKeeps, SendRequestKeeps, TakeResponseKeeps DEF CallerStep
  <1>3. ASSUME NEW p \in Protocol, DispatchStep(p)
        PROVE  AllInPlace'
    BY <1>3, DispatchKeeps, RespondKeeps, HandOverKeeps DEF DispatchStep
  <1>4. ASSUME NEW p \in Protocol, NEW i \in DOMAIN way[p], Lose(p, i) \/ Repeat(p, i)
        PROVE  AllInPlace'
    BY <1>4, LoseKeeps, RepeatKeeps
  <1> QED
    BY <1>1, <1>2, <1>3, <1>4 DEF Next

-----------------------------------------------------------------------------
(* What is under way, and what is awaited. *)

\* What one packet of a caller adds to what is under way for some callers.
One(c, callers) == IF c \in callers THEN 1 ELSE 0

LEMMA WeightType ==
  ASSUME NEW s \in Seq(Packet), NEW C
  PROVE  Weight(s, C) \in Nat
  BY OnlyType DEF Weight

LEMMA WeightAppend ==
  ASSUME NEW s \in Seq(Packet), NEW e \in Packet, NEW C
  PROVE  Weight(Append(s, e), C) = Weight(s, C) + One(e.caller, C)
  <1> DEFINE P == PacketsOf(C)
  <1>1. Only(Append(s, e), P) = IF e \in P THEN Append(Only(s, P), e) ELSE Only(s, P)
    BY OnlyAppend
  <1>2. Only(s, P) \in Seq(Packet \cap P)
    BY OnlyType
  <1>3. e \in P <=> e.caller \in C
    BY DEF Packet, PacketsOf
  <1> HIDE DEF P
  <1>4. CASE e \in P
    <2>1. Len(Append(Only(s, P), e)) = Len(Only(s, P)) + 1
      BY <1>2, <1>4, AppendElements
    <2> QED
      BY <1>1, <1>3, <1>4, <2>1 DEF Weight, One, P
  <1>5. CASE e \notin P
    <2>1. Len(Only(s, P)) \in Nat
      BY <1>2
    <2> QED
      BY <1>1, <1>3, <1>5, <2>1 DEF Weight, One, P
  <1> QED
    BY <1>4, <1>5

LEMMA WeightConcat ==
  ASSUME NEW s \in Seq(Packet), NEW t \in Seq(Packet), NEW C
  PROVE  Weight(s \o t, C) = Weight(s, C) + Weight(t, C)
  <1> DEFINE P == PacketsOf(C)
  <1>1. Only(s \o t, P) = Only(s, P) \o Only(t, P)
    BY OnlyConcat
  <1>2. Only(s, P) \in Seq(Packet \cap P) /\ Only(t, P) \in Seq(Packet \cap P)
    BY OnlyType
  <1> HIDE DEF P
  <1>3. Len(Only(s, P) \o Only(t, P)) = Len(Only(s, P)) + Len(Only(t, P))
    BY <1>2, ConcatProperties
  <1> QED
    BY <1>1, <1>3 DEF Weight, P

LEMMA WeightTail ==
  ASSUME NEW s \in Seq(Packet), s # << >>, NEW C
  PROVE  Weight(s, C) = One(Head(s).caller, C) + Weight(Tail(s), C)
  <1> DEFINE x == Head(s)
             e == << >>
             h == Append(e, x)
             t == Tail(s)
  <1>1. x \in Packet /\ t \in Seq(Packet) /\ e \in Seq(Packet)
    OBVIOUS
  <1>2. h \in Seq(Packet) /\ s = h \o t
    BY <1>1
  <1>3. Weight(e, C) = 0
    BY OnlyEmpty, EmptySeq DEF Weight
  <1> HIDE DEF x, e, t
  <1>4. Weight(h, C) = Weight(e, C) + One(x.caller, C)
    BY <1>1, WeightAppend
  <1> HIDE DEF h
  <1>5. Weight(h \o t, C) = Weight(h, C) + Weight(t, C)
    BY <1>1, <1>2, WeightConcat
  <1>6. Weight(h, C) = One(x.caller, C)
    BY <1>3, <1>4 DEF One
  <1> QED
    BY <1>2, <1>5, <1>6 DEF x, t

LEMMA WeightRemoved ==
  ASSUME NEW s \in Seq(Packet), NEW i \in DOMAIN s, NEW C
  PROVE  Weight(RemoveAt(s, i), C) <= Weight(s, C)
  <1> DEFINE before == SubSeq(s, 1, i - 1)
             after == SubSeq(s, i + 1, Len(s))
             from == SubSeq(s, i, Len(s))
  <1>1. i \in 1 .. Len(s) /\ Len(s) \in Nat /\ i - 1 + 1 = i
    OBVIOUS
  <1>2. before \in Seq(Packet) /\ from \in Seq(Packet) /\ after \in Seq(Packet)
    BY <1>1
  <1>3. s = before \o from
    <2>1. 1 \in 1 .. Len(s) + 1 /\ i - 1 \in 1 - 1 .. Len(s) /\ Len(s) \in i - 1 .. Len(s)
      BY <1>1
    <2>2. SubSeq(s, 1, i - 1) \o SubSeq(s, i - 1 + 1, Len(s)) = SubSeq(s, 1, Len(s))
      BY <2>1, ConcatAdjacentSubSeq
    <2>3. SubSeq(s, 1, Len(s)) = s
      BY SubSeqFull
    <2> QED
      BY <1>1, <2>2, <2>3
  <1>4. from # << >> /\ Tail(from) = after
    <2>1. Len(s) \in i .. Len(s)
      BY <1>1
    <2>2. Tail(from) = after
      BY <1>1, <2>1, HeadTailOfSubSeq
    <2>3. Len(from) = Len(s) - i + 1
      BY <1>1
    <2> HIDE DEF from
    <2>4. Len(from) # 0
      BY <1>1, <2>3
    <2>5. from # << >>
      BY <1>2, <2>4, EmptySeq
    <2> QED
      BY <2>2, <2>5
  <1>5. RemoveAt(s, i) = before \o after
    BY DEF RemoveAt
  <1> HIDE DEF before, after, from
  <1>6. Weight(s, C) = Weight(before, C) + Weight(from, C)
    BY <1>2, <1>3, WeightConcat
  <1>7. Weight(from, C) = One(Head(from).caller, C) + Weight(after, C)
    BY <1>2, <1>4, WeightTail
  <1>8. Weight(RemoveAt(s, i), C) = Weight(before, C) + Weight(after, C)
    BY <1>2, <1>5, WeightConcat
  <1>9. Weight(before, C) \in Nat /\ Weight(after, C) \in Nat /\ One(Head(from).caller, C) \in Nat
    BY <1>2, WeightType DEF One
  <1> QED
    BY <1>6, <1>7, <1>8, <1>9

\* Sums of functions that agree.
LEMMA SumSame ==
  ASSUME NEW S, IsFiniteSet(S), NEW f, NEW h, \A x \in S : f[x] \in Nat /\ h[x] = f[x]
  PROVE  SumFunctionOnSet(h, S) = SumFunctionOnSet(f, S)
  <1>1. CASE S = {}
    <2>1. PICK g : Sums(g, f, S) /\ SumFunctionOnSet(f, S) = g[S]
      BY SumDefined
    <2>2. PICK e : Sums(e, h, S) /\ SumFunctionOnSet(h, S) = e[S]
      BY SumDefined
    <2> QED
      BY <1>1, <2>1, <2>2 DEF Sums
  <1>2. CASE S # {}
    <2>1. PICK y \in S : TRUE
      BY <1>2
    <2>2. GrownAt(h, f, S, y, 0)
      BY DEF GrownAt
    <2>3. SumFunctionOnSet(h, S) = SumFunctionOnSet(f, S) + 0
      BY <2>1, <2>2, SumGrown
    <2>4. SumFunctionOnSet(f, S) \in Nat
      BY SumType
    <2> QED
      BY <2>3, <2>4
  <1> QED
    BY <1>1, <1>2

\* What a caller's workers have still to count.
Due(c) == SentSoFar(c) + due[c]

LEMMA CallersAreFinite ==
  ASSUME NEW p, NEW k
  PROVE  IsFiniteSet(CallersOf(p, k)) /\ CallersOf(p, k) \subseteq Caller
  BY CallerIsFinite, FS_Subset DEF CallersOf

LEMMA DueType == CallsOK => \A c \in Caller : SentSoFar(c) \in Nat /\ Due(c) \in Nat
  BY DEF CallsOK, SentSoFar, Due

LEMMA AwaitedType == CallsOK => \A p, k : Awaited(p, k) \in Nat
  <1> SUFFICES ASSUME CallsOK, NEW p, NEW k PROVE Awaited(p, k) \in Nat
    OBVIOUS
  <1> DEFINE f == [c \in Caller |-> SentSoFar(c) + due[c]]
  <1>1. \A c \in CallersOf(p, k) : f[c] \in Nat
    BY DueType, CallersAreFinite DEF Due
  <1>2. Awaited(p, k) = SumFunctionOnSet(f, CallersOf(p, k))
    BY DEF Awaited
  <1> HIDE DEF f
  <1> QED
    BY <1>1, <1>2, CallersAreFinite, SumType

LEMMA DueNext == CallsOK' => (\A c \in Caller : SentSoFar(c) \in Nat /\ Due(c) \in Nat)'
  BY DueType, PTL

LEMMA AwaitedNext == CallsOK' => (\A p, k : Awaited(p, k) \in Nat)'
  BY AwaitedType, PTL

\* Nobody among the callers of a channel sends or counts.
LEMMA AwaitedSame ==
  ASSUME CallsOK, NEW p, NEW k, \A c \in CallersOf(p, k) : Due(c)' = Due(c)
  PROVE  Awaited(p, k)' = Awaited(p, k)
  <1> DEFINE f == [c \in Caller |-> SentSoFar(c) + due[c]]
             h == [c \in Caller |-> SentSoFar(c)' + due'[c]]
  <1>1. \A c \in CallersOf(p, k) : f[c] \in Nat /\ h[c] = f[c]
    BY DueType, CallersAreFinite DEF Due
  <1>2. Awaited(p, k) = SumFunctionOnSet(f, CallersOf(p, k))
    BY DEF Awaited
  <1>3. Awaited(p, k)' = SumFunctionOnSet(h, CallersOf(p, k))
    BY DEF Awaited, CallersOf
  <1> HIDE DEF f, h
  <1> QED
    BY <1>1, <1>2, <1>3, CallersAreFinite, SumSame

\* One of them sends a request.
LEMMA AwaitedMore ==
  ASSUME CallsOK, NEW p, NEW k, NEW c \in CallersOf(p, k),
         \A d \in Caller : Due(d)' = IF d = c THEN Due(d) + 1 ELSE Due(d)
  PROVE  Awaited(p, k)' = Awaited(p, k) + 1
  <1> DEFINE f == [d \in Caller |-> SentSoFar(d) + due[d]]
             h == [d \in Caller |-> SentSoFar(d)' + due'[d]]
  <1>1. GrownAt(h, f, CallersOf(p, k), c, 1)
    BY DueType, CallersAreFinite DEF Due, GrownAt
  <1>2. Awaited(p, k) = SumFunctionOnSet(f, CallersOf(p, k))
    BY DEF Awaited
  <1>3. Awaited(p, k)' = SumFunctionOnSet(h, CallersOf(p, k))
    BY DEF Awaited, CallersOf
  <1> HIDE DEF f, h
  <1> QED
    BY <1>1, <1>2, <1>3, CallersAreFinite, SumGrown

\* One of their workers counts a response.
LEMMA AwaitedLess ==
  ASSUME CallsOK, CallsOK', NEW p, NEW k, NEW c \in CallersOf(p, k),
         \A d \in Caller : Due(d) = IF d = c THEN Due(d)' + 1 ELSE Due(d)'
  PROVE  Awaited(p, k) = Awaited(p, k)' + 1
  <1> DEFINE f == [d \in Caller |-> SentSoFar(d) + due[d]]
             h == [d \in Caller |-> SentSoFar(d)' + due'[d]]
  <1>1. \A d \in Caller : Due(d)' \in Nat
    BY DueNext
  <1>2. GrownAt(f, h, CallersOf(p, k), c, 1)
    BY <1>1, CallersAreFinite DEF Due, GrownAt
  <1>3. Awaited(p, k) = SumFunctionOnSet(f, CallersOf(p, k))
    BY DEF Awaited
  <1>4. Awaited(p, k)' = SumFunctionOnSet(h, CallersOf(p, k))
    BY DEF Awaited, CallersOf
  <1> HIDE DEF f, h
  <1> QED
    BY <1>2, <1>3, <1>4, CallersAreFinite, SumGrown

-----------------------------------------------------------------------------
(* Every step accounts for what it puts under way. *)

\* What is under way for them on the ways and in the hands.
Moving(wp, wq, hp, hq, C) == Weight(wp, C) + Weight(wq, C) + Held(hp, C) + Held(hq, C)

LEMMA HeldType == ASSUME NEW h, NEW C PROVE Held(h, C) \in {0, 1}
  BY DEF Held

LEMMA MovingType ==
  ASSUME NEW wp \in Seq(Packet), NEW wq \in Seq(Packet), NEW hp, NEW hq, NEW C
  PROVE  Moving(wp, wq, hp, hq, C) \in Nat
  <1>1. Weight(wp, C) \in Nat /\ Weight(wq, C) \in Nat
    BY WeightType
  <1>2. Held(hp, C) \in Nat /\ Held(hq, C) \in Nat
    BY HeldType
  <1> QED
    BY <1>1, <1>2 DEF Moving

LEMMA InFlightIs ==
  ASSUME NEW p, NEW k
  PROVE  InFlight(p, k) = Moving(way[p], way[Peer[p]], hand[p], hand[Peer[p]], CallersOf(p, k))
                          + Len(responses[p][k])
  BY DEF InFlight, Moving

LEMMA InFlightIsNext ==
  ASSUME NEW p, NEW k
  PROVE  InFlight(p, k)' = Moving(way'[p], way'[Peer[p]], hand'[p], hand'[Peer[p]], CallersOf(p, k))
                          + Len(responses'[p][k])
  BY DEF InFlight, Moving, CallersOf

LEMMA InFlightType ==
  AllInPlace => \A p \in Protocol, k \in Kind : InFlight(p, k) \in Nat
  <1> SUFFICES ASSUME AllInPlace, NEW p \in Protocol, NEW k \in Kind
               PROVE  InFlight(p, k) \in Nat
    OBVIOUS
  <1>1. WaysOK /\ ChannelsOK
    BY Parts
  <1>2. way[p] \in Seq(Packet) /\ way[Peer[p]] \in Seq(Packet)
    BY <1>1, PeerAssumption DEF WaysOK
  <1>3. Len(responses[p][k]) \in Nat
    BY <1>1 DEF ChannelsOK
  <1>4. Moving(way[p], way[Peer[p]], hand[p], hand[Peer[p]], CallersOf(p, k)) \in Nat
    BY <1>2, MovingType
  <1> QED
    BY <1>3, <1>4, InFlightIs

\* What comes to be under way is awaited or repeated.
Accounts(p, k) ==
  InFlight(p, k)' + faults.repeats + Awaited(p, k)
    <= InFlight(p, k) + faults'.repeats + Awaited(p, k)'

\* A packet that is put on the way of q, as the two ways of p see it.
Heavier(p, q, c, C) ==
  /\ Weight(way'[p], C) = Weight(way[p], C) + IF p = q THEN One(c, C) ELSE 0
  /\ Weight(way[p], C) \in Nat

LEMMA SentWeighs ==
  ASSUME WaysOK, NEW q \in Protocol, NEW packet \in Packet, Sent(q, packet),
         NEW p \in Protocol, NEW C
  PROVE  Heavier(p, q, packet.caller, C)
  <1>1. way[p] \in Seq(Packet) /\ Weight(way[p], C) \in Nat
    BY WeightType DEF WaysOK
  <1>2. CASE p = q
    BY <1>1, <1>2, WeightAppend DEF WaysOK, Sent, Heavier
  <1>3. CASE p # q
    BY <1>1, <1>3 DEF WaysOK, Sent, Heavier
  <1> QED
    BY <1>1, <1>2, <1>3

\* A hand that takes or gives, as p sees it.
Handed(p, q, h, C) ==
  /\ Held(hand'[p], C) = IF p = q THEN Held(h, C) ELSE Held(hand[p], C)
  /\ Held(hand[p], C) \in {0, 1}

LEMMA HandWeighs ==
  ASSUME HandsOK, NEW q \in Protocol, NEW h, hand' = [hand EXCEPT ![q] = h],
         NEW p \in Protocol, NEW C
  PROVE  Handed(p, q, h, C)
  BY HeldType DEF HandsOK, Handed

LEMMA BeginWindowAccounts ==
  ASSUME AllInPlace, NEW c \in Caller, BeginWindow(c), NEW p \in Protocol, NEW k \in Kind
  PROVE  Accounts(p, k)
  <1>1. CallsOK /\ FaultsOK /\ InFlight(p, k) \in Nat
    BY Parts, InFlightType
  <1>2. Head(plan[c]) \in Nat
    BY <1>1, HeadTailProperties, EmptySeq DEF CallsOK, BeginWindow
  <1>3. \A d \in Caller : Due(d)' = Due(d)
    BY <1>1, <1>2, SMTT(30) DEF CallsOK, BeginWindow, Due, SentSoFar
  <1>4. Awaited(p, k)' = Awaited(p, k)
    BY <1>1, <1>3, CallersAreFinite, AwaitedSame
  <1>5. InFlight(p, k)' = InFlight(p, k)
    BY DEF BeginWindow, InFlight, CallersOf
  <1> QED
    BY <1>1, <1>4, <1>5, AwaitedType DEF Accounts, BeginWindow, FaultsOK

LEMMA SendRequestAccounts ==
  ASSUME AllInPlace, NEW c \in Caller, SendRequest(c), NEW p \in Protocol, NEW k \in Kind
  PROVE  Accounts(p, k)
  <1> DEFINE packet == [type |-> "Request", caller |-> c]
             C == CallersOf(p, k)
             q == Peer[p]
  <1>1. CallsOK /\ WaysOK /\ HandsOK /\ ChannelsOK /\ FaultsOK
    BY Parts
  <1>2. packet \in Packet /\ packet.caller = c /\ Owner[c] \in Protocol /\ Sent(Owner[c], packet)
    BY CallerAssumption DEF Packet, SendRequest
  <1>3. q \in Protocol /\ q # p
    BY PeerAssumption
  <1>4. c \in C => Owner[c] = p
    BY DEF CallersOf
  <1>5. \A d \in Caller : Due(d)' = IF d = c THEN Due(d) + 1 ELSE Due(d)
    BY <1>1 DEF CallsOK, SendRequest, Due, SentSoFar
  <1>6. Awaited(p, k)' = Awaited(p, k) + One(c, C) /\ Awaited(p, k) \in Nat
    <2>1. CASE c \in C
      BY <1>1, <1>5, <2>1, AwaitedMore, AwaitedType DEF One
    <2>2. CASE c \notin C
      <3>1. \A d \in C : Due(d)' = Due(d)
        BY <1>5, <2>2, CallersAreFinite
      <3> QED
        BY <1>1, <2>2, <3>1, AwaitedSame, AwaitedType DEF One
    <2> QED
      BY <2>1, <2>2
  <1> HIDE DEF packet, C
  <1>7. Heavier(p, Owner[c], c, C) /\ Heavier(q, Owner[c], c, C)
    BY <1>1, <1>2, <1>3, SentWeighs
  <1>8. One(c, C) \in Nat /\ Held(hand[p], C) \in Nat /\ Held(hand[q], C) \in Nat
    BY HeldType DEF One
  <1>9. Weight(way'[p], C) + Weight(way'[q], C) = Weight(way[p], C) + Weight(way[q], C) + One(c, C)
    BY <1>3, <1>4, <1>7 DEF One, Heavier
  <1>10. Moving(way'[p], way'[q], hand[p], hand[q], C)
           = Moving(way[p], way[q], hand[p], hand[q], C) + One(c, C)
    <2>1. /\ Weight(way[p], C) \in Nat /\ Weight(way[q], C) \in Nat
          /\ Weight(way'[p], C) \in Nat /\ Weight(way'[q], C) \in Nat
      BY <1>7, <1>8 DEF Heavier
    <2> QED
      BY <1>8, <1>9, <2>1 DEF Moving
  <1>11. Len(responses[p][k]) \in Nat /\ faults.repeats \in Nat /\ faults'.repeats = faults.repeats
    BY <1>1, CapacityAssumption DEF ChannelsOK, FaultsOK, SendRequest
  <1>12. InFlight(p, k)' = InFlight(p, k) + One(c, C)
    <2>1. Moving(way[p], way[q], hand[p], hand[q], C) \in Nat
      BY <1>1, <1>3, MovingType DEF WaysOK
    <2>2. InFlight(p, k) = Moving(way[p], way[q], hand[p], hand[q], C) + Len(responses[p][k])
      BY InFlightIs DEF C
    <2>3. InFlight(p, k)' = Moving(way'[p], way'[q], hand[p], hand[q], C) + Len(responses[p][k])
      BY InFlightIsNext DEF C, SendRequest
    <2> QED
      BY <1>8, <1>10, <1>11, <2>1, <2>2, <2>3
  <1>13. InFlight(p, k) \in Nat
    BY InFlightType
  <1> QED
    BY <1>6, <1>8, <1>11, <1>12, <1>13 DEF Accounts

LEMMA TakeResponseAccounts ==
  ASSUME AllInPlace, AllInPlace', NEW c \in Caller, TakeResponse(c), NEW p \in Protocol, NEW k \in Kind
  PROVE  Accounts(p, k)
  <1> DEFINE C == CallersOf(p, k)
             mine == p = Owner[c] /\ k = Function[c]
             d == IF Head(Channel(c)) = c THEN 1 ELSE 0
  <1>1. CallsOK /\ WaysOK /\ ChannelsOK /\ FaultsOK /\ CallsOK'
    <2>1. AllInPlace' => CallsOK'
      BY Parts, PTL
    <2> QED
      BY <2>1, Parts
  <1>2. c \in C <=> mine
    BY DEF CallersOf
  <1>3. InFlight(p, k) \in Nat /\ Awaited(p, k) \in Nat
    BY <1>1, InFlightType, AwaitedType
  <1>4. faults.repeats \in Nat /\ faults'.repeats = faults.repeats
    BY <1>1, CapacityAssumption DEF FaultsOK, TakeResponse
  <1>5. \A x \in Caller : Due(x) = IF x = c THEN Due(x)' + d ELSE Due(x)'
    BY <1>1 DEF CallsOK, TakeResponse, Due, SentSoFar
  <1>6. Due(c)' \in Nat
    BY <1>1, DueNext
  <1>7. Awaited(p, k)' \in Nat
    BY <1>1, AwaitedNext
  <1>8. CASE mine
    <2>1. Awaited(p, k) <= Awaited(p, k)' + 1
      <3>1. CASE d = 1
        BY <1>1, <1>2, <1>3, <1>5, <1>7, <1>8, <3>1, AwaitedLess
      <3>2. CASE d = 0
        <4>1. \A x \in C : Due(x)' = Due(x)
          BY <1>5, <1>6, <3>2, CallersAreFinite
        <4> QED
          BY <1>1, <1>3, <1>7, <4>1, AwaitedSame
      <3> QED
        BY <3>1, <3>2
    <2>2. responses[p][k] \in Seq(Caller) /\ responses[p][k] # << >>
      BY <1>1, <1>8, ChannelsAgree DEF ChannelsOK, TakeResponse, Channel
    <2>3. responses'[p][k] = Tail(responses[p][k])
      BY <1>1, <1>8, ChannelsAgree DEF ChannelsOK, TakeResponse
    <2>4. Len(responses'[p][k]) = Len(responses[p][k]) - 1 /\ Len(responses[p][k]) \in Nat
      BY <2>2, <2>3, HeadTailProperties, EmptySeq
    <2> DEFINE rest == Moving(way[p], way[Peer[p]], hand[p], hand[Peer[p]], C)
    <2>5. InFlight(p, k) = rest + Len(responses[p][k])
      BY InFlightIs
    <2>6. InFlight(p, k)' = rest + Len(responses'[p][k])
      BY InFlightIsNext DEF TakeResponse
    <2>7. rest \in Nat
      BY <1>1, PeerAssumption, MovingType DEF WaysOK
    <2> HIDE DEF rest
    <2>8. InFlight(p, k)' = InFlight(p, k) - 1
      BY <2>4, <2>5, <2>6, <2>7
    <2> QED
      BY <1>3, <1>4, <1>7, <2>1, <2>8 DEF Accounts
  <1>9. CASE ~mine
    <2>1. \A x \in C : Due(x)' = Due(x)
      BY <1>2, <1>5, <1>9, CallersAreFinite
    <2>2. Awaited(p, k)' = Awaited(p, k)
      BY <1>1, <2>1, AwaitedSame
    <2>3. responses'[p][k] = responses[p][k]
      BY <1>1, <1>9, CallerAssumption, ChannelsAgree DEF ChannelsOK, TakeResponse
    <2>4. InFlight(p, k)' = InFlight(p, k)
      BY <2>3 DEF InFlight, CallersOf, TakeResponse
    <2> QED
      BY <1>3, <1>4, <2>2, <2>4 DEF Accounts
  <1> QED
    BY <1>8, <1>9

\* A step of a dispatch thread or of the way: nobody asks, and nobody counts.
LEMMA NobodyAsks ==
  ASSUME AllInPlace, UNCHANGED callVars, NEW p \in Protocol, NEW k \in Kind,
         faults'.repeats \in Nat, InFlight(p, k)' \in Nat,
         InFlight(p, k)' + faults.repeats <= InFlight(p, k) + faults'.repeats
  PROVE  Accounts(p, k)
  <1>1. CallsOK /\ FaultsOK
    BY Parts
  <1>2. Awaited(p, k)' = Awaited(p, k) /\ Awaited(p, k) \in Nat
    <2>1. \A c \in CallersOf(p, k) : Due(c)' = Due(c)
      BY DEF callVars, Due, SentSoFar
    <2> QED
      BY <1>1, <2>1, AwaitedSame, AwaitedType
  <1>3. InFlight(p, k) \in Nat /\ faults.repeats \in Nat
    BY <1>1, InFlightType, CapacityAssumption DEF FaultsOK
  <1> QED
    BY <1>2, <1>3 DEF Accounts

LEMMA InFlightNext == AllInPlace' => \A p \in Protocol, k \in Kind : InFlight(p, k)' \in Nat
  <1>1. AllInPlace' => (\A p \in Protocol, k \in Kind : InFlight(p, k) \in Nat)'
    BY InFlightType, PTL
  <1> QED
    BY <1>1

LEMMA DispatchAccounts ==
  ASSUME AllInPlace, AllInPlace', NEW x \in Protocol, Dispatch(x), NEW p \in Protocol, NEW k \in Kind
  PROVE  Accounts(p, k)
  <1> DEFINE C == CallersOf(p, k)
             q == Peer[p]
             from == Peer[x]
             packet == Head(way[from])
             held == InHand(x, packet)
             one == One(packet.caller, C)
  <1>1. WaysOK /\ HandsOK /\ ChannelsOK /\ FaultsOK
    BY Parts
  <1>2. q \in Protocol /\ from \in Protocol /\ q # p /\ Peer[q] = p /\ Peer[from] = x
    BY PeerAssumption
  <1>3. way[from] \in Seq(Packet) /\ way[from] # << >> /\ hand[x] = Nothing
    BY <1>1, <1>2 DEF WaysOK, Dispatch
  <1>4. /\ way' = [way EXCEPT ![from] = Tail(way[from])]
        /\ hand' = [hand EXCEPT ![x] = held]
    BY DEF Dispatch
  <1>5. Tail(way[from]) \in Seq(Packet) /\ packet \in Packet
    BY <1>3, TailElements
  <1>6. Held(held, C) <= one /\ one \in {0, 1} /\ Held(held, C) \in {0, 1}
    <2>1. packet.type \in {"Request", "Response"}
      BY <1>5 DEF Packet
    <2>2. held = Nothing \/ held.caller = packet.caller
      <3> HIDE DEF packet
      <3>1. CASE packet.type = "Response"
        BY <3>1 DEF InHand
      <3>2. CASE packet.type = "Request" /\ To[packet.caller] = x
        BY <3>2 DEF InHand
      <3>3. CASE packet.type = "Request" /\ To[packet.caller] # x
        BY <3>3 DEF InHand
      <3> QED
        BY <2>1, <3>1, <3>2, <3>3
    <2> HIDE DEF held, packet, C
    <2> QED
      BY <2>2 DEF Held, One
  <1> HIDE DEF held, packet, C
  <1>7. Weight(way[from], C) = one + Weight(Tail(way[from]), C)
    BY <1>3, WeightTail DEF packet
  <1>8. ASSUME NEW y \in Protocol
        PROVE  /\ Weight(way'[y], C) \in Nat
               /\ Weight(way[y], C) = Weight(way'[y], C) + IF y = from THEN one ELSE 0
    <2>1. way[y] \in Seq(Packet) /\ way'[y] = IF y = from THEN Tail(way[from]) ELSE way[y]
      BY <1>1, <1>4 DEF WaysOK
    <2>2. Weight(way'[y], C) \in Nat /\ Weight(way[y], C) \in Nat
      BY <1>5, <2>1, WeightType
    <2> HIDE DEF one
    <2>3. CASE y = from
      BY <1>6, <1>7, <2>1, <2>2, <2>3
    <2>4. CASE y # from
      BY <2>1, <2>2, <2>4
    <2> QED
      BY <2>2, <2>3, <2>4
  <1>9. Handed(p, x, held, C) /\ Handed(q, x, held, C)
    BY <1>1, <1>2, <1>4, HandWeighs
  <1>10. Held(hand[x], C) = 0
    BY <1>3 DEF Held
  <1>11. (p = x => q = from) /\ (q = x => p = from)
    BY <1>2
  <1> HIDE DEF one
  <1>12. Held(hand'[p], C) + Held(hand'[q], C) + Weight(way'[p], C) + Weight(way'[q], C)
          <= Held(hand[p], C) + Held(hand[q], C) + Weight(way[p], C) + Weight(way[q], C)
    <2>1. /\ Weight(way'[p], C) \in Nat /\ Weight(way'[q], C) \in Nat
          /\ Weight(way[p], C) = Weight(way'[p], C) + IF p = from THEN one ELSE 0
          /\ Weight(way[q], C) = Weight(way'[q], C) + IF q = from THEN one ELSE 0
      BY <1>2, <1>8
    <2>2. CASE p = x
      BY <1>2, <1>6, <1>9, <1>10, <1>11, <2>1, <2>2 DEF Handed
    <2>3. CASE q = x
      BY <1>2, <1>6, <1>9, <1>10, <1>11, <2>1, <2>3 DEF Handed
    <2>4. CASE p # x /\ q # x
      BY <1>2, <1>6, <1>9, <2>1, <2>4 DEF Handed
    <2> QED
      BY <2>2, <2>3, <2>4
  <1>13. InFlight(p, k)' <= InFlight(p, k)
    <2>1. Moving(way'[p], way'[q], hand'[p], hand'[q], C) <= Moving(way[p], way[q], hand[p], hand[q], C)
      <3>1. /\ Weight(way'[p], C) \in Nat /\ Weight(way'[q], C) \in Nat
            /\ Weight(way[p], C) \in Nat /\ Weight(way[q], C) \in Nat
        BY <1>1, <1>2, <1>8, WeightType DEF WaysOK
      <3>2. /\ Held(hand'[p], C) \in Nat /\ Held(hand'[q], C) \in Nat
            /\ Held(hand[p], C) \in Nat /\ Held(hand[q], C) \in Nat
        BY HeldType
      <3> QED
        BY <1>12, <3>1, <3>2 DEF Moving
    <2>2. InFlight(p, k) = Moving(way[p], way[q], hand[p], hand[q], C) + Len(responses[p][k])
      BY InFlightIs DEF C
    <2>3. InFlight(p, k)' = Moving(way'[p], way'[q], hand'[p], hand'[q], C) + Len(responses[p][k])
      BY InFlightIsNext DEF C, Dispatch
    <2>4. Len(responses[p][k]) \in Nat
      BY <1>1 DEF ChannelsOK
    <2>5. Moving(way[p], way[q], hand[p], hand[q], C) \in Nat
      BY <1>1, <1>2, MovingType DEF WaysOK
    <2>6. Moving(way'[p], way'[q], hand'[p], hand'[q], C) \in Nat
      <3>1. way'[p] \in Seq(Packet) /\ way'[q] \in Seq(Packet)
        BY <1>1, <1>2, <1>4, <1>5 DEF WaysOK
      <3> QED
        BY <3>1, MovingType
    <2> QED
      BY <2>1, <2>2, <2>3, <2>4, <2>5, <2>6
  <1>14. UNCHANGED callVars /\ faults' = faults /\ faults.repeats \in Nat
    BY <1>1, CapacityAssumption DEF Dispatch, FaultsOK
  <1>15. InFlight(p, k) \in Nat /\ InFlight(p, k)' \in Nat
    BY InFlightType, InFlightNext
  <1>16. InFlight(p, k)' + faults.repeats <= InFlight(p, k) + faults'.repeats
    BY <1>13, <1>14, <1>15
  <1> QED
    BY <1>14, <1>15, <1>16, NobodyAsks

\* A step that only moves packets.
LEMMA OnlyMoves ==
  ASSUME AllInPlace, AllInPlace', UNCHANGED <<callVars, responses>>,
         NEW p \in Protocol, NEW k \in Kind, NEW q, q = Peer[p], NEW C, C = CallersOf(p, k),
         Moving(way'[p], way'[q], hand'[p], hand'[q], C) + faults.repeats
           <= Moving(way[p], way[q], hand[p], hand[q], C) + faults'.repeats
  PROVE  Accounts(p, k)
  <1>1. WaysOK /\ ChannelsOK /\ FaultsOK /\ WaysOK' /\ FaultsOK'
    <2>1. AllInPlace' => WaysOK' /\ FaultsOK'
      BY Parts, PTL
    <2> QED
      BY <2>1, Parts
  <1>2. q \in Protocol
    BY PeerAssumption
  <1>3. Moving(way[p], way[q], hand[p], hand[q], C) \in Nat
    BY <1>1, <1>2, MovingType DEF WaysOK
  <1>4. Moving(way'[p], way'[q], hand'[p], hand'[q], C) \in Nat
    <2>1. way'[p] \in Seq(Packet) /\ way'[q] \in Seq(Packet)
      BY <1>1, <1>2 DEF WaysOK
    <2> QED
      BY <2>1, MovingType
  <1>5. Len(responses[p][k]) \in Nat /\ responses' = responses
    BY <1>1 DEF ChannelsOK
  <1>6. faults.repeats \in Nat /\ faults'.repeats \in Nat
    BY <1>1, CapacityAssumption DEF FaultsOK
  <1>7. InFlight(p, k) = Moving(way[p], way[q], hand[p], hand[q], C) + Len(responses[p][k])
    BY InFlightIs
  <1>8. InFlight(p, k)' = Moving(way'[p], way'[q], hand'[p], hand'[q], C) + Len(responses[p][k])
    BY <1>5, InFlightIsNext
  <1>9. InFlight(p, k)' + faults.repeats <= InFlight(p, k) + faults'.repeats
    BY <1>3, <1>4, <1>5, <1>6, <1>7, <1>8, SMTT(30)
  <1>10. UNCHANGED callVars /\ InFlight(p, k)' \in Nat
    BY InFlightNext
  <1> QED
    BY <1>6, <1>9, <1>10, NobodyAsks

LEMMA RespondAccounts ==
  ASSUME AllInPlace, AllInPlace', NEW x \in Protocol, Respond(x), NEW p \in Protocol, NEW k \in Kind
  PROVE  Accounts(p, k)
  <1> DEFINE C == CallersOf(p, k)
             q == Peer[p]
             c == hand[x].caller
             packet == [type |-> "Response", caller |-> c]
  <1>1. WaysOK /\ HandsOK /\ FaultsOK
    BY Parts
  <1>2. q \in Protocol /\ q # p
    BY PeerAssumption
  <1>3. packet \in Packet /\ packet.caller = c
    BY <1>1 DEF HandsOK, Respond, Packet
  <1>4. Sent(x, packet) /\ hand' = [hand EXCEPT ![x] = Nothing]
    BY DEF Respond
  <1>5. Held(hand[x], C) = One(c, C) /\ Held(Nothing, C) = 0
    BY DEF Respond, Held, One
  <1> HIDE DEF packet, C, c
  <1>6. Heavier(p, x, c, C) /\ Heavier(q, x, c, C)
    BY <1>1, <1>2, <1>3, <1>4, SentWeighs
  <1>7. Handed(p, x, Nothing, C) /\ Handed(q, x, Nothing, C)
    BY <1>1, <1>2, <1>4, HandWeighs
  <1>8. One(c, C) \in Nat
    BY DEF One
  <1>9. Weight(way'[p], C) + Held(hand'[p], C) = Weight(way[p], C) + Held(hand[p], C)
    BY <1>5, <1>6, <1>7, <1>8 DEF Heavier, Handed
  <1>10. Weight(way'[q], C) + Held(hand'[q], C) = Weight(way[q], C) + Held(hand[q], C)
    BY <1>5, <1>6, <1>7, <1>8 DEF Heavier, Handed
  <1>11. Moving(way'[p], way'[q], hand'[p], hand'[q], C) = Moving(way[p], way[q], hand[p], hand[q], C)
    <2>1. /\ Weight(way'[p], C) \in Nat /\ Weight(way'[q], C) \in Nat
          /\ Weight(way[p], C) \in Nat /\ Weight(way[q], C) \in Nat
      BY <1>6, <1>8 DEF Heavier
    <2>2. /\ Held(hand'[p], C) \in Nat /\ Held(hand'[q], C) \in Nat
          /\ Held(hand[p], C) \in Nat /\ Held(hand[q], C) \in Nat
      BY HeldType
    <2> QED
      BY <1>9, <1>10, <2>1, <2>2 DEF Moving
  <1>12. faults.repeats \in Nat /\ UNCHANGED <<callVars, responses, faults>>
    BY <1>1, CapacityAssumption DEF FaultsOK, Respond
  <1>13. Moving(way[p], way[q], hand[p], hand[q], C) \in Nat
    BY <1>1, <1>2, MovingType DEF WaysOK
  <1>14. Moving(way'[p], way'[q], hand'[p], hand'[q], C) + faults.repeats
           <= Moving(way[p], way[q], hand[p], hand[q], C) + faults'.repeats
    BY <1>11, <1>12, <1>13
  <1>15. UNCHANGED <<callVars, responses>>
    BY <1>12
  <1> QED
    BY <1>14, <1>15, OnlyMoves DEF C

LEMMA HandOverAccounts ==
  ASSUME AllInPlace, AllInPlace', NEW x \in Protocol, HandOver(x), NEW p \in Protocol, NEW k \in Kind
  PROVE  Accounts(p, k)
  <1> DEFINE C == CallersOf(p, k)
             q == Peer[p]
             c == hand[x].caller
             j == ChannelFor(c)
             mine == x = p /\ j = k
  <1>1. WaysOK /\ HandsOK /\ ChannelsOK /\ FaultsOK
    BY Parts
  <1>2. q \in Protocol /\ q # p
    BY PeerAssumption
  <1>3. c \in Caller /\ j = Function[c] /\ j \in Kind /\ Owner[c] = x
    BY <1>1, ChannelsAgree DEF HandsOK, HandsHoldTheirOwn, HandOver
  <1>4. hand' = [hand EXCEPT ![x] = Nothing] /\ responses' = [responses EXCEPT ![x][j] = Append(@, c)]
    BY DEF HandOver
  <1>5. Held(hand[x], C) = One(c, C) /\ Held(Nothing, C) = 0 /\ (c \in C <=> mine)
    BY <1>3 DEF HandOver, Held, One, CallersOf
  <1>6. /\ responses[p][k] \in Seq(Caller)
        /\ responses'[p][k] = IF mine THEN Append(responses[p][k], c) ELSE responses[p][k]
    BY <1>1, <1>3, <1>4 DEF ChannelsOK
  <1> HIDE DEF C, c, j
  <1>7. Len(responses'[p][k]) = Len(responses[p][k]) + One(c, C) /\ Len(responses[p][k]) \in Nat
    <2>1. CASE mine
      <3>1. Len(Append(responses[p][k], c)) = Len(responses[p][k]) + 1
        BY <1>3, <1>6, AppendElements
      <3> QED
        BY <1>5, <1>6, <2>1, <3>1 DEF One
    <2>2. CASE ~mine
      <3>1. responses'[p][k] = responses[p][k] /\ One(c, C) = 0
        BY <1>5, <1>6, <2>2 DEF One
      <3>2. Len(responses[p][k]) \in Nat
        BY <1>6
      <3> QED
        BY <3>1, <3>2
    <2> QED
      BY <2>1, <2>2
  <1>8. Handed(p, x, Nothing, C) /\ Handed(q, x, Nothing, C)
    BY <1>1, <1>2, <1>4, HandWeighs
  <1>9. Held(hand'[p], C) + Held(hand'[q], C) + One(c, C) = Held(hand[p], C) + Held(hand[q], C)
    <2>1. CASE mine
      BY <1>2, <1>5, <1>8, <2>1 DEF Handed, One
    <2>2. CASE ~mine
      <3>1. One(c, C) = 0 /\ Held(hand[x], C) = 0
        BY <1>5, <2>2 DEF One
      <3>2. Held(hand'[p], C) = Held(hand[p], C) /\ Held(hand'[q], C) = Held(hand[q], C)
        BY <1>5, <1>8, <3>1 DEF Handed
      <3> QED
        BY <1>8, <3>1, <3>2 DEF Handed
    <2> QED
      BY <2>1, <2>2
  <1>10. /\ Moving(way[p], way[q], hand[p], hand[q], C)
              = Moving(way[p], way[q], hand'[p], hand'[q], C) + One(c, C)
         /\ Moving(way[p], way[q], hand'[p], hand'[q], C) \in Nat
         /\ One(c, C) \in Nat
    <2>1. Weight(way[p], C) \in Nat /\ Weight(way[q], C) \in Nat
      BY <1>1, <1>2, WeightType DEF WaysOK
    <2>2. /\ Held(hand'[p], C) \in Nat /\ Held(hand'[q], C) \in Nat
          /\ Held(hand[p], C) \in Nat /\ Held(hand[q], C) \in Nat
          /\ One(c, C) \in Nat
      BY HeldType DEF One
    <2> QED
      BY <1>9, <2>1, <2>2 DEF Moving
  <1>11. InFlight(p, k) = Moving(way[p], way[q], hand[p], hand[q], C) + Len(responses[p][k])
    BY InFlightIs DEF C
  <1>12. InFlight(p, k)' = Moving(way[p], way[q], hand'[p], hand'[q], C) + Len(responses'[p][k])
    BY InFlightIsNext DEF C, HandOver
  <1>13. faults.repeats \in Nat /\ faults' = faults /\ UNCHANGED callVars
    BY <1>1, CapacityAssumption DEF FaultsOK, HandOver
  <1>14. InFlight(p, k)' = InFlight(p, k)
    BY <1>7, <1>10, <1>11, <1>12
  <1>15. InFlight(p, k) \in Nat
    BY InFlightType
  <1>16. InFlight(p, k)' + faults.repeats <= InFlight(p, k) + faults'.repeats
    BY <1>13, <1>14, <1>15
  <1>17. InFlight(p, k)' \in Nat /\ faults'.repeats \in Nat
    BY <1>13, <1>14, <1>15
  <1> QED
    BY <1>13, <1>16, <1>17, NobodyAsks

LEMMA LoseAccounts ==
  ASSUME AllInPlace, AllInPlace', NEW x \in Protocol, NEW i \in DOMAIN way[x], Lose(x, i),
         NEW p \in Protocol, NEW k \in Kind
  PROVE  Accounts(p, k)
  <1> DEFINE C == CallersOf(p, k)
             q == Peer[p]
  <1>1. WaysOK /\ FaultsOK
    BY Parts
  <1>2. q \in Protocol
    BY PeerAssumption
  <1>3. ASSUME NEW y \in Protocol
        PROVE  Weight(way'[y], C) <= Weight(way[y], C) /\ Weight(way'[y], C) \in Nat /\ Weight(way[y], C) \in Nat
    <2>1. way[y] \in Seq(Packet) /\ way[x] \in Seq(Packet)
      BY <1>1 DEF WaysOK
    <2>2. way'[y] = IF y = x THEN RemoveAt(way[x], i) ELSE way[y]
      BY <1>1 DEF WaysOK, Lose
    <2>3. RemoveAt(way[x], i) \in Seq(Packet)
      BY <2>1, RemovedElements
    <2> HIDE DEF C
    <2>4. Weight(way'[y], C) \in Nat /\ Weight(way[y], C) \in Nat
      BY <2>1, <2>2, <2>3, WeightType
    <2>5. Weight(RemoveAt(way[x], i), C) <= Weight(way[x], C)
      BY <2>1, WeightRemoved
    <2> QED
      BY <2>2, <2>4, <2>5
  <1> HIDE DEF C
  <1>4. Held(hand[p], C) \in Nat /\ Held(hand[q], C) \in Nat /\ hand' = hand
    BY HeldType DEF Lose
  <1>5. /\ Weight(way'[p], C) <= Weight(way[p], C) /\ Weight(way'[q], C) <= Weight(way[q], C)
        /\ Weight(way'[p], C) \in Nat /\ Weight(way'[q], C) \in Nat
        /\ Weight(way[p], C) \in Nat /\ Weight(way[q], C) \in Nat
    BY <1>2, <1>3
  <1>6. /\ Moving(way'[p], way'[q], hand'[p], hand'[q], C) <= Moving(way[p], way[q], hand[p], hand[q], C)
        /\ Moving(way'[p], way'[q], hand'[p], hand'[q], C) \in Nat
        /\ Moving(way[p], way[q], hand[p], hand[q], C) \in Nat
    BY <1>4, <1>5 DEF Moving
  <1>7. faults.repeats \in Nat /\ faults'.repeats = faults.repeats /\ UNCHANGED <<callVars, responses>>
    BY <1>1, CapacityAssumption DEF FaultsOK, Lose
  <1>8. Moving(way'[p], way'[q], hand'[p], hand'[q], C) + faults.repeats
          <= Moving(way[p], way[q], hand[p], hand[q], C) + faults'.repeats
    BY <1>6, <1>7
  <1>9. UNCHANGED <<callVars, responses>>
    BY <1>7
  <1> QED
    BY <1>8, <1>9, OnlyMoves DEF C

LEMMA RepeatAccounts ==
  ASSUME AllInPlace, AllInPlace', NEW x \in Protocol, NEW i \in DOMAIN way[x], Repeat(x, i),
         NEW p \in Protocol, NEW k \in Kind
  PROVE  Accounts(p, k)
  <1> DEFINE C == CallersOf(p, k)
             q == Peer[p]
             c == way[x][i].caller
  <1>1. WaysOK /\ FaultsOK
    BY Parts
  <1>2. q \in Protocol /\ q # p
    BY PeerAssumption
  <1>3. way[x][i] \in Packet /\ Sent(x, way[x][i])
    BY <1>1 DEF WaysOK, Repeat
  <1>4. Heavier(p, x, c, C) /\ Heavier(q, x, c, C)
    BY <1>1, <1>2, <1>3, SentWeighs
  <1> HIDE DEF C, c
  <1>5. Held(hand[p], C) \in Nat /\ Held(hand[q], C) \in Nat /\ hand' = hand
    BY HeldType DEF Repeat
  <1>6. One(c, C) \in {0, 1}
    BY DEF One
  <1>7. Weight(way'[p], C) + Weight(way'[q], C) <= Weight(way[p], C) + Weight(way[q], C) + 1
    BY <1>2, <1>4, <1>6 DEF Heavier
  <1>8. /\ Weight(way'[p], C) \in Nat /\ Weight(way'[q], C) \in Nat
        /\ Weight(way[p], C) \in Nat /\ Weight(way[q], C) \in Nat
    BY <1>4, <1>6 DEF Heavier
  <1>9. /\ Moving(way'[p], way'[q], hand'[p], hand'[q], C)
             <= Moving(way[p], way[q], hand[p], hand[q], C) + 1
        /\ Moving(way'[p], way'[q], hand'[p], hand'[q], C) \in Nat
        /\ Moving(way[p], way[q], hand[p], hand[q], C) \in Nat
    BY <1>5, <1>7, <1>8 DEF Moving
  <1>10. /\ faults.repeats \in Nat /\ faults'.repeats = faults.repeats + 1
         /\ UNCHANGED <<callVars, responses>>
    BY <1>1, CapacityAssumption DEF FaultsOK, Repeat
  <1>11. Moving(way'[p], way'[q], hand'[p], hand'[q], C) + faults.repeats
           <= Moving(way[p], way[q], hand[p], hand[q], C) + faults'.repeats
    BY <1>9, <1>10
  <1>12. UNCHANGED <<callVars, responses>>
    BY <1>10
  <1> QED
    BY <1>11, <1>12, OnlyMoves DEF C

LEMMA NextAccounts ==
  ASSUME AllInPlace, AllInPlace', Next, NEW p \in Protocol, NEW k \in Kind
  PROVE  Accounts(p, k)
  <1>1. ASSUME NEW c \in Caller, CallerStep(c) \/ TakeResponse(c)
        PROVE  Accounts(p, k)
    BY <1>1, BeginWindowAccounts, SendRequestAccounts, TakeResponseAccounts DEF CallerStep
  <1>2. ASSUME NEW x \in Protocol, DispatchStep(x)
        PROVE  Accounts(p, k)
    BY <1>2, DispatchAccounts, RespondAccounts, HandOverAccounts DEF DispatchStep
  <1>3. ASSUME NEW x \in Protocol, NEW i \in DOMAIN way[x], Lose(x, i) \/ Repeat(x, i)
        PROVE  Accounts(p, k)
    BY <1>3, LoseAccounts, RepeatAccounts
  <1> QED
    BY <1>1, <1>2, <1>3 DEF Next

LEMMA FreshAccounts == Init /\ AllInPlace => NothingUnasked
  <1> SUFFICES ASSUME Init, AllInPlace, NEW p \in Protocol, NEW k \in Kind
               PROVE  InFlight(p, k) <= faults.repeats + Awaited(p, k)
    BY DEF NothingUnasked
  <1>1. way[p] = << >> /\ way[Peer[p]] = << >> /\ hand[p] = Nothing /\ hand[Peer[p]] = Nothing
    BY PeerAssumption DEF Init
  <1>2. \A C : Weight(<< >>, C) = 0 /\ Held(Nothing, C) = 0
    BY OnlyEmpty, EmptySeq DEF Weight, Held
  <1>3. Moving(way[p], way[Peer[p]], hand[p], hand[Peer[p]], CallersOf(p, k)) = 0
    BY <1>1, <1>2 DEF Moving
  <1>4. Len(responses[p][k]) = 0
    BY EmptySeq DEF Init
  <1>5. InFlight(p, k) = 0
    BY <1>3, <1>4, InFlightIs
  <1>6. faults.repeats = 0 /\ Awaited(p, k) \in Nat
    BY Parts, AwaitedType DEF Init
  <1> QED
    BY <1>5, <1>6

LEMMA NextKeepsAccounts == IndInv /\ [Next]_vars => IndInv'
  <1> SUFFICES ASSUME IndInv, [Next]_vars PROVE IndInv'
    OBVIOUS
  <1>1. AllInPlace /\ AllInPlace'
    BY NextKeeps DEF IndInv
  <1>2. CASE Next
    <2>1. ASSUME NEW p \in Protocol, NEW k \in Kind
          PROVE  InFlight(p, k)' <= faults'.repeats + Awaited(p, k)'
      <3>1. Accounts(p, k)
        BY <1>1, <1>2, NextAccounts
      <3>2. InFlight(p, k) <= faults.repeats + Awaited(p, k)
        BY DEF IndInv, NothingUnasked
      <3>3. CallsOK /\ FaultsOK /\ CallsOK' /\ FaultsOK'
        <4>1. AllInPlace' => CallsOK' /\ FaultsOK'
          BY Parts, PTL
        <4> QED
          BY <1>1, <4>1, Parts
      <3>4. /\ InFlight(p, k) \in Nat /\ InFlight(p, k)' \in Nat
            /\ Awaited(p, k) \in Nat /\ Awaited(p, k)' \in Nat
        BY <1>1, <3>3, InFlightType, InFlightNext, AwaitedType, AwaitedNext
      <3>5. faults.repeats \in Nat /\ faults'.repeats \in Nat
        BY <3>3, CapacityAssumption DEF FaultsOK
      <3> QED
        BY <3>1, <3>2, <3>4, <3>5 DEF Accounts
    <2> QED
      BY <1>1, <2>1 DEF IndInv, NothingUnasked
  <1>3. CASE UNCHANGED vars
    BY <1>1, <1>3 DEF IndInv, NothingUnasked, InFlight, Awaited, SentSoFar, CallersOf, vars, callVars
  <1> QED
    BY <1>2, <1>3

\* A dispatch thread that is blocked has one response more than the channel holds.
LEMMA BlockedByStrays == IndInv => BlockedOnlyByStrays
  <1> SUFFICES ASSUME IndInv, NEW p \in Protocol, Blocked(p),
                      NEW k, k = ChannelFor(hand[p].caller)
               PROVE  BufferSize < faults.repeats
                         + SumFunctionOnSet([c \in Caller |-> SentSoFar(c)], CallersOf(p, k))
    BY DEF BlockedOnlyByStrays
  <1> DEFINE C == CallersOf(p, k)
             q == Peer[p]
             f == [c \in Caller |-> SentSoFar(c)]
             h == [c \in Caller |-> SentSoFar(c) + due[c]]
  <1>1. AllInPlace /\ CallsOK /\ WaysOK /\ HandsOK /\ ChannelsOK /\ FaultsOK
    BY Parts DEF IndInv
  <1>2. q \in Protocol
    BY PeerAssumption
  <1>3. /\ hand[p].caller \in Caller /\ k = Function[hand[p].caller] /\ k \in Kind
        /\ Owner[hand[p].caller] = p
    BY <1>1, ChannelsAgree DEF HandsOK, HandsHoldTheirOwn, Blocked
  <1>4. Held(hand[p], C) = 1
    BY <1>3 DEF Blocked, Held, CallersOf
  <1>5. Len(responses[p][k]) = BufferSize
    BY DEF Blocked
  <1>6. SumFunctionOnSet(h, C) = SumFunctionOnSet(f, C)
    <2>1. \A c \in C : f[c] \in Nat /\ h[c] = f[c]
      <3>1. \A c \in C : due[c] = 0
        BY DEF Blocked, CallersOf
      <3>2. \A c \in C : c \in Caller /\ SentSoFar(c) \in Nat
        BY <1>1, CallersAreFinite, DueType
      <3> QED
        BY <3>1, <3>2
    <2> HIDE DEF f, h
    <2> QED
      BY <2>1, CallersAreFinite, SumSame
  <1>7. Awaited(p, k) = SumFunctionOnSet(h, C)
    BY DEF Awaited
  <1> HIDE DEF C, f, h
  <1>8. Moving(way[p], way[q], hand[p], hand[q], C) >= 1
    <2>1. Weight(way[p], C) \in Nat /\ Weight(way[q], C) \in Nat /\ Held(hand[q], C) \in Nat
      BY <1>1, <1>2, WeightType, HeldType DEF WaysOK
    <2> QED
      BY <1>4, <2>1 DEF Moving
  <1>9. InFlight(p, k) = Moving(way[p], way[q], hand[p], hand[q], C) + Len(responses[p][k])
    BY InFlightIs DEF C
  <1>10. InFlight(p, k) <= faults.repeats + Awaited(p, k)
    BY <1>3 DEF IndInv, NothingUnasked
  <1>11. /\ Moving(way[p], way[q], hand[p], hand[q], C) \in Nat
         /\ BufferSize \in Nat /\ faults.repeats \in Nat /\ Awaited(p, k) \in Nat
    BY <1>1, <1>2, MovingType, AwaitedType, CapacityAssumption DEF WaysOK, FaultsOK
  <1>12. BufferSize < faults.repeats + SumFunctionOnSet(f, C)
    BY <1>5, <1>6, <1>7, <1>8, <1>9, <1>10, <1>11
  <1> QED
    BY <1>12 DEF f, C
-----------------------------------------------------------------------------
(***************************************************************************)
(* Every packet and every response is where the code could have put it,    *)
(* no channel holds more than its bound, and nothing is under way that     *)
(* nobody waits for, except what was repeated.                             *)
(***************************************************************************)
THEOREM InvariantTheorem == Spec => []IndInv
  <1>1. Init => IndInv
    BY InitInPlace, FreshAccounts DEF IndInv
  <1>2. IndInv /\ [Next]_vars => IndInv'
    BY NextKeepsAccounts
  <1> QED
    BY <1>1, <1>2, PTL DEF Spec

(***************************************************************************)
(* Whatever is lost or repeated, and whoever shares a protocol or a way, a *)
(* response is only ever given to the workers of its kind, in the protocol *)
(* that was called (echo.rs, the arms of the dispatch thread).             *)
(***************************************************************************)
THEOREM ResponsesReachTheirCallersTheorem == Spec => []ResponsesReachTheirCallers
  <1>1. IndInv => ResponsesReachTheirCallers
    BY DEF IndInv, AllInPlace
  <1> QED
    BY <1>1, InvariantTheorem, PTL

(***************************************************************************)
(* A dispatch thread waits for a channel no worker takes from only if more *)
(* responses than fit there came before their window was sent, or were     *)
(* repeated: whatever else is under way has a worker that will count it    *)
(* (txrx.rs, send_and_receive: total and counter).                         *)
(***************************************************************************)
THEOREM BlockedOnlyByStraysTheorem == Spec => []BlockedOnlyByStrays
  BY BlockedByStrays, InvariantTheorem, PTL
=============================================================================
