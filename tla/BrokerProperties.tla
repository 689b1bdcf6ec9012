-------------------------- MODULE BrokerProperties ---------------------------
(***************************************************************************)
(* Properties of the broker of module Broker.                              *)
(***************************************************************************)
EXTENDS Broker, Queues

\* The state the broker is in is one its Rust types and channel bounds allow.
TypeOK ==
  /\ router \in RouterTables
  /\ out \in Seq(Packet)
  /\ history \in History
  /\ peers \in SUBSET Link
  /\ b2l \in [Lookup -> Link \cup {NoLink}]
  /\ table \in [Lookup -> Link \cup {NoLink}]
  /\ running \in BOOLEAN
  /\ l2b \in Seq(Packet)
  /\ r2b \in Seq(Packet)
  /\ held \in Packet \cup {NoPacket}
  /\ chan \in [Link -> Seq(Packet)]
  /\ gone \in SUBSET Link
  /\ arrived \in Nat

\* Packets the router thread has decided to send and no link has taken yet.
InFlight ==
  ToSet(out) \cup ToSet(r2b) \cup ({held} \ {NoPacket})
    \cup UNION {ToSet(chan[l]) : l \in Link}

AskedByAnother(p) ==
  \E l \in Link : LinkPid[l] # LinkPid[p.link] /\ <<l, p.name>> \in history.asked

TriedOnAnother(p) ==
  \E l \in Link : LinkPid[l] # LinkPid[p.link] /\ <<l, p.name>> \in history.tried

(***************************************************************************)
(* A response is on its way to a link only if that link asked for the name *)
(* and the name was requested of a link with another identity: responses   *)
(* nobody asked for, or from where nobody asked, go nowhere (router.rs,    *)
(* the two Pheromone lookups of the Response arm).                         *)
(***************************************************************************)
NoUnsolicitedResponse ==
  \A p \in InFlight : p.kind = "Response" =>
     <<p.link, p.name>> \in history.asked /\ TriedOnAnother(p)

(***************************************************************************)
(* A request is on its way to a link only if a link with another identity  *)
(* asked for the name: what a link asks is never returned to it alone.     *)
(***************************************************************************)
NoReflectedRequest ==
  \A p \in InFlight : p.kind = "Request" => AskedByAnother(p)

\* What a Pheromone holds was asked of, or by, its link, and the router knows the link.
Justified(r, h) ==
  \A l \in Link, n \in Name :
    /\ Holds(r.pending[l], n) => <<l, n>> \in h.asked /\ l \in r.known
    /\ Holds(r.forwarded[l], n) => <<l, n>> \in h.tried

\* A Pheromone holds the name that was put in it last.
Remembered(r, h) ==
  \A l \in Link :
    /\ h.lastAsked[l] # NoName => Holds(r.pending[l], h.lastAsked[l])
    /\ h.lastTried[l] # NoName => Holds(r.forwarded[l], h.lastTried[l])

\* Before run() there is nothing to deliver and nobody to deliver it to.
Unstarted ==
  ~running => /\ out = << >> /\ r2b = << >> /\ held = NoPacket
              /\ table = [id \in Lookup |-> NoLink]
              /\ history = NoHistory

(***************************************************************************)
(* The inductive invariant: the router's memory agrees with the history    *)
(* of the links at every step of the two threads, and so does everything   *)
(* on its way to a link.                                                   *)
(***************************************************************************)
IndInv ==
  /\ TypeOK
  /\ Justified(router, history)
  /\ Remembered(router, history)
  /\ Unstarted
  /\ NoUnsolicitedResponse
  /\ NoReflectedRequest

\* The router thread takes packet p from the links' channel in this step.
Routes(p) == l2b # << >> /\ p = Head(l2b) /\ l2b' = Tail(l2b)

SendsTo(l, kind) == \E i \in DOMAIN out' : out'[i].link = l /\ out'[i].kind = kind

(***************************************************************************)
(* A Pheromone forgets, yet never what it was told last: when the name a   *)
(* link was last tried for is answered there, every other link that asked  *)
(* for it last is sent the answer, whatever was inserted and touched       *)
(* elsewhere in between (bloom_filter.rs; the retry logic relies on it).   *)
(***************************************************************************)
LastAskersAreAnswered ==
  [][\A p \in Packet :
       /\ Routes(p)
       /\ p.kind = "Response"
       /\ history.lastTried[p.link] = p.name
       => \A l \in Link :
             /\ history.lastAsked[l] = p.name
             /\ LinkPid[l] # LinkPid[p.link]
             => SendsTo(l, "Response")]_vars

(***************************************************************************)
(* "Used to determine if a request has been forwarded on this face so as   *)
(* not to forward the request on the face again" (bloom_filter.rs:30-31).  *)
(***************************************************************************)
NotForwardedAgain ==
  [][\A p \in Packet, l \in Link :
       /\ Routes(p)
       /\ Holds(router.forwarded[l], p.name)
       => ~SendsTo(l, "Request")]_vars
-----------------------------------------------------------------------------
(* The broker implements InterestForwarding. *)

\* What of a sequence of packets ends up in the channel of l.
Bound(packets, l) == Only(packets, {p \in Packet : Owner(p) = l})

Hand == IF held = NoPacket THEN << >> ELSE <<held>>

\* A link's queue runs through all three channels, last packet last.
Queue == [l \in Link |->
            IF l \in gone
            THEN << >>
            ELSE chan[l] \o Bound(Hand, l) \o Bound(r2b, l) \o Bound(out, l)]

Forwarding == INSTANCE InterestForwarding WITH
  asked   <- history.asked,
  tried   <- history.tried,
  owner   <- [l \in Link |-> table[LookupId[l]]],
  queue   <- Queue,
  stopped <- gone

(***************************************************************************)
(* Between the router's decision and a link's receipt nothing is lost,     *)
(* repeated or overtaken, and the decisions are those the abstract         *)
(* specification allows.                                                   *)
(***************************************************************************)
ForwardingSafety == Forwarding!Spec

(***************************************************************************)
(* With fair threads and links that go on taking, each packet the router   *)
(* sends to a link that was peered before run() is taken by it.            *)
(***************************************************************************)
ForwardingLiveness == Forwarding!Fairness

(***************************************************************************)
(* The channels drain: once no more packets arrive the broker falls quiet, *)
(* with no packet stuck behind another.                                    *)
(***************************************************************************)
Quiet == l2b = << >> /\ InFlight = {}
Drains == [](running /\ arrived = MaxArrivals => <>Quiet)
=============================================================================
