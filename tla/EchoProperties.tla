--------------------------- MODULE EchoProperties ----------------------------
(***************************************************************************)
(* Properties of Echo protocols that are joined in pairs, module Echo.     *)
(***************************************************************************)
EXTENDS Echo, FiniteSetsExt, Queues

\* The variables have the values the code can give them: no channel holds more
\* than its bound, and a dispatch thread only has what it may send on.
TypeOK ==
  /\ plan \in [Caller -> Seq(Nat \ {0})]
  /\ size \in [Caller -> Nat]
  /\ left \in [Caller -> Nat]
  /\ \A c \in Caller : left[c] <= size[c]
  /\ due \in [Caller -> Nat]
  /\ way \in [Protocol -> Seq(Packet)]
  /\ \A p \in Protocol : Len(way[p]) <= Capacity
  /\ hand \in [Protocol -> [to : {"link", "channel"}, caller : Caller] \cup {Nothing}]
  /\ responses \in [Protocol -> [Kind -> Seq(Caller)]]
  /\ \A p \in Protocol, k \in Kind : Len(responses[p][k]) <= BufferSize
  /\ faults \in [losses : 0 .. MaxLosses, repeats : 0 .. MaxRepeats]

(***************************************************************************)
(* A response comes back to the protocol that was called, and in the       *)
(* channel the caller's workers take from, whoever else calls that         *)
(* protocol or its peer, for each of the five arms and the ping function   *)
(* it serves (echo.rs, the match of the dispatch thread).                  *)
(***************************************************************************)
ResponsesReachTheirCallers ==
  \A p \in Protocol, k \in Kind : \A i \in DOMAIN responses[p][k] :
     LET c == responses[p][k][i]
     IN  Owner[c] = p /\ Function[c] = k /\ To[c] = Peer[p]

\* Whose packets go which way: a protocol's own requests, and its responses to
\* those of its peer.
GoesTheWayOf(p, packet) ==
  LET c == packet.caller
  IN  IF packet.type = "Request" THEN Owner[c] = p ELSE Owner[c] = Peer[p] /\ To[c] = p

PacketsGoTheirWay ==
  \A p \in Protocol : \A i \in DOMAIN way[p] : GoesTheWayOf(p, way[p][i])

HandsHoldTheirOwn ==
  \A p \in Protocol :
     hand[p] # Nothing =>
       LET c == hand[p].caller
       IN  IF hand[p].to = "channel"
           THEN Owner[c] = p /\ To[c] = Peer[p]
           ELSE Owner[c] = Peer[p] /\ To[c] = p

\* Every packet is where a step could have put it.
AllInPlace ==
  /\ TypeOK
  /\ PacketsGoTheirWay
  /\ HandsHoldTheirOwn
  /\ ResponsesReachTheirCallers

\* The callers whose responses go through channel k of p.
CallersOf(p, k) == {c \in Caller : Owner[c] = p /\ Function[c] = k}

\* Requests of the window it is sending that a caller has sent.
SentSoFar(c) == IF left[c] > 0 THEN size[c] - left[c] ELSE 0

\* Responses these callers' workers have still to count, once their windows are out.
Awaited(p, k) == SumFunctionOnSet([c \in Caller |-> SentSoFar(c) + due[c]], CallersOf(p, k))

\* Packets of some callers in a queue, and in a hand.
PacketsOf(callers) == [type : {"Request", "Response"}, caller : callers]

Weight(s, callers) == Len(Only(s, PacketsOf(callers)))

Held(h, callers) == IF h # Nothing /\ h.caller \in callers THEN 1 ELSE 0

\* Their requests and responses that are anywhere between them and the peer of p.
InFlight(p, k) ==
  LET callers == CallersOf(p, k)
  IN  Weight(way[p], callers) + Weight(way[Peer[p]], callers)
      + Held(hand[p], callers) + Held(hand[Peer[p]], callers)
      + Len(responses[p][k])

\* What is under way for a channel is awaited, or was repeated.
NothingUnasked ==
  \A p \in Protocol, k \in Kind : InFlight(p, k) <= faults.repeats + Awaited(p, k)

\* The inductive invariant.
IndInv == AllInPlace /\ NothingUnasked

\* Something between p and its peer is still to be dealt with.
Busy(p) == way[p] # << >> \/ hand[p] # Nothing

\* Everything between p and its peer is taken, in both directions.
RingFull(p) ==
  \A q \in {p, Peer[p]} : /\ Len(way[q]) = Capacity
                          /\ hand[q] # Nothing /\ hand[q].to = "link"

\* The dispatch thread of p has a response nobody is there to take.
Blocked(p) ==
  /\ hand[p] # Nothing /\ hand[p].to = "channel"
  /\ Len(responses[p][ChannelFor(hand[p].caller)]) = BufferSize
  /\ \A c \in Caller : Owner[c] = p /\ Function[c] = ChannelFor(hand[p].caller) => due[c] = 0

\* What is under way is waited for, or has nowhere to go.
IdleOrFull == \A p \in Protocol : Busy(p) => RingFull(p) \/ Blocked(p) \/ Blocked(Peer[p])

(***************************************************************************)
(* The threads of two protocols and their links wait for each other for    *)
(* good only if every channel of the ring they form is full and every one  *)
(* of them has one packet more, or if a dispatch thread waits for a        *)
(* response channel no worker takes from: else everything under way is     *)
(* dealt with in the end (txrx.rs, respond; echo.rs, the sends of the      *)
(* dispatch thread; mpsc_channel.rs, the outbound thread).                 *)
(***************************************************************************)
EndsIdleOrFull == <>[]IdleOrFull

(***************************************************************************)
(* A dispatch thread waits for a channel no worker takes from only if      *)
(* more responses than fit there came before their window was sent, or     *)
(* were repeated: each response that was asked for has a worker to count   *)
(* it (txrx.rs, send_and_receive: total and counter).                      *)
(***************************************************************************)
BlockedOnlyByStrays ==
  \A p \in Protocol :
     Blocked(p) =>
       BufferSize < faults.repeats
                    + SumFunctionOnSet([c \in Caller |-> SentSoFar(c)],
                                       CallersOf(p, ChannelFor(hand[p].caller)))

\* All that is asked for under a plan, and whether nobody's worker takes what
\* another one counts.
Demand(pl) == MapThenSumSet(LAMBDA c : FoldSeq(+, 0, pl[c]), Caller)

Lone(pl) == \A c, d \in Caller :
              c # d /\ Owner[c] = Owner[d] /\ Function[c] = Function[d] => << >> \in {pl[c], pl[d]}

\* Everything has been asked for, and every response there is counted.
AllCounted ==
  \A c \in Caller : plan[c] = << >> /\ left[c] = 0 /\ (To[c] = Peer[Owner[c]] => due[c] = 0)

(***************************************************************************)
(* Callers who together never ask for as much as a ring holds get all      *)
(* their responses, although a few of them are repeated, and each kind of  *)
(* response gets to the workers that wait for it (echo.rs, run).           *)
(***************************************************************************)
SmallDemandsAreMet ==
  Lone(plan) /\ Demand(plan) + MaxRepeats < 2 * Capacity + 2 =>
    <>[](faults.losses > 0 \/ faults.repeats > BufferSize \/ AllCounted)
=============================================================================
