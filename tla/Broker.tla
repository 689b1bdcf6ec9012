------------------------------- MODULE Broker --------------------------------
(***************************************************************************)
(* The broker (copernica-broker/src/broker.rs): its links, its bounded     *)
(* channels and its two threads.                                           *)
(*                                                                         *)
(*   links --l2b--> router thread --r2b--> delivery thread --b2l--> links  *)
(*                                                                         *)
(* Every channel is a `sync_channel` of BufferSize packets: a send blocks  *)
(* while it is full.  The router thread owns the tables of module Router.  *)
(***************************************************************************)
EXTENDS Router

CONSTANTS
  Lookup,        \* u32 lookup ids
  LookupId,      \* the lookup id within each LinkId
  NoLink,        \* no channel is registered
  NoPacket,      \* the delivery thread has no packet in hand
  BufferSize,    \* BOUNDED_BUFFER_SIZE
  MaxArrivals    \* bound: packets the links send in a behaviour

ASSUME LookupIdAssumption == LookupId \in [Link -> Lookup]
ASSUME NoLinkAssumption == NoLink \notin Link
ASSUME NoPacketAssumption == NoPacket \notin Packet
ASSUME BufferSizeAssumption == BufferSize \in Nat \ {0}
ASSUME MaxArrivalsAssumption == MaxArrivals \in Nat

VARIABLES
  peers,      \* keys of the Broker's own `blooms`: links that were peered
  b2l,        \* Broker::b2l: the channel registered for each lookup id
  table,      \* the delivery thread's copy of b2l, made by run()
  running,    \* run() was called
  l2b,        \* channel from the links to the router thread
  r2b,        \* channel from the router thread to the delivery thread
  held,       \* the packet the delivery thread took and has not sent yet
  chan,       \* the channel of each peered link, named by the link
  gone,       \* links whose end of their channel was dropped
  arrived     \* packets sent by links so far

brokerVars == <<peers, b2l, table, running>>
channelVars == <<l2b, r2b, held, chan, gone, arrived>>
vars == <<router, out, history, brokerVars, channelVars>>

\* `rs.clone()` in the router thread: each call works on a fresh copy of the
\* broker's store, which nothing else fills, so what a call adds is lost.
rs == << >>
-----------------------------------------------------------------------------
Init ==
  /\ router = FreshTables({})
  /\ out = << >>
  /\ history = NoHistory
  /\ peers = {}
  /\ b2l = [id \in Lookup |-> NoLink]
  /\ table = [id \in Lookup |-> NoLink]
  /\ running = FALSE
  /\ l2b = << >>
  /\ r2b = << >>
  /\ held = NoPacket
  /\ chan = [l \in Link |-> << >>]
  /\ gone = {}
  /\ arrived = 0

\* A LinkId is peered once; a second one with its lookup id takes its channel over.
PeerWithLink(l) ==
  /\ l \notin peers
  /\ peers' = peers \cup {l}
  /\ b2l' = [b2l EXCEPT ![LookupId[l]] = l]
  /\ UNCHANGED <<router, out, history, table, running, channelVars>>

\* The threads start with copies of the broker's tables.  Callers run it once.
Run ==
  /\ ~running
  /\ running' = TRUE
  /\ table' = b2l
  /\ router' = FreshTables(peers)
  /\ UNCHANGED <<out, history, peers, b2l, channelVars>>

(***************************************************************************)
(* The inbound thread of a peered link sends a packet.  It builds the      *)
(* LinkId from the link's own lookup id and identity and the packet's      *)
(* reply_to, so this need not be the LinkId the link was peered under.     *)
(***************************************************************************)
LinkSends(p) ==
  /\ \E l \in peers : LookupId[l] = LookupId[p.link] /\ LinkPid[l] = LinkPid[p.link]
  /\ arrived < MaxArrivals
  /\ Len(l2b) < BufferSize
  /\ l2b' = Append(l2b, p)
  /\ arrived' = arrived + 1
  /\ UNCHANGED <<router, out, history, brokerVars, r2b, held, chan, gone>>

(***************************************************************************)
(* The router thread takes the next packet, once it has sent everything    *)
(* the last one caused.  A link it does not know is admitted first.        *)
(***************************************************************************)
RouteNext ==
  /\ running
  /\ out = << >>
  /\ l2b # << >>
  /\ l2b' = Tail(l2b)
  /\ HandlePacket(Admitted(router, Head(l2b).link), Head(l2b), rs)
  /\ UNCHANGED <<brokerVars, r2b, held, chan, gone, arrived>>

\* Mutant of SendRouted: one place of the channel is never used.
SendRoutedShort ==
  /\ out # << >>
  /\ Len(r2b) < BufferSize - 1
  /\ r2b' = Append(r2b, Head(out))
  /\ out' = Tail(out)
  /\ UNCHANGED <<router, history, brokerVars, l2b, held, chan, gone, arrived>>

\* `r2b_tx.send` in handle_packet: blocks while the channel is full.
SendRouted ==
  /\ out # << >>
  /\ Len(r2b) < BufferSize
  /\ r2b' = Append(r2b, Head(out))
  /\ out' = Tail(out)
  /\ UNCHANGED <<router, history, brokerVars, l2b, held, chan, gone, arrived>>

\* The link in whose channel the delivery thread puts a packet.
Owner(p) == table[LookupId[p.link]]

TakeRouted ==
  /\ running
  /\ held = NoPacket
  /\ r2b # << >>
  /\ r2b' = Tail(r2b)
  /\ held' = IF Owner(Head(r2b)) = NoLink THEN NoPacket ELSE Head(r2b)
  /\ UNCHANGED <<router, out, history, brokerVars, l2b, chan, gone, arrived>>

\* Mutant of Deliver: a packet for a full channel is dropped (`try_send`).
DeliverOrDrop ==
  /\ held # NoPacket
  /\ Owner(held) \notin gone
  /\ chan' = IF Len(chan[Owner(held)]) < BufferSize
             THEN [chan EXCEPT ![Owner(held)] = Append(@, held)]
             ELSE chan
  /\ held' = NoPacket
  /\ UNCHANGED <<router, out, history, brokerVars, l2b, r2b, gone, arrived>>

\* `b2l_tx.send`: blocks while that link's channel is full, whoever is behind.
Deliver ==
  /\ held # NoPacket
  /\ Owner(held) \notin gone
  /\ Len(chan[Owner(held)]) < BufferSize
  /\ chan' = [chan EXCEPT ![Owner(held)] = Append(@, held)]
  /\ held' = NoPacket
  /\ UNCHANGED <<router, out, history, brokerVars, l2b, r2b, gone, arrived>>

\* Mutant of FailToDeliver: a packet that cannot be sent is tried again.
RetryDelivery ==
  /\ held # NoPacket
  /\ Owner(held) \in gone
  /\ UNCHANGED vars

\* The send fails because the receiver is gone; the error is logged.
FailToDeliver ==
  /\ held # NoPacket
  /\ Owner(held) \in gone
  /\ held' = NoPacket
  /\ UNCHANGED <<router, out, history, brokerVars, l2b, r2b, chan, gone, arrived>>

\* The outbound thread of a link receives a packet; what it does with it is
\* no longer the broker's.
LinkTakes(l) ==
  /\ chan[l] # << >>
  /\ chan' = [chan EXCEPT ![l] = Tail(@)]
  /\ UNCHANGED <<router, out, history, brokerVars, l2b, r2b, held, gone, arrived>>

(***************************************************************************)
(* The receiver of a link's channel is dropped: the link was peered and    *)
(* never run, or its outbound thread ended, and nothing keeps the link.    *)
(***************************************************************************)
LinkStops(l) ==
  /\ l \in peers \ gone
  /\ gone' = gone \cup {l}
  /\ chan' = [chan EXCEPT ![l] = << >>]
  /\ UNCHANGED <<router, out, history, brokerVars, l2b, r2b, held, arrived>>

Threads == RouteNext \/ SendRouted \/ TakeRouted \/ Deliver \/ FailToDeliver

Links ==
  \/ \E l \in Link : PeerWithLink(l) \/ LinkTakes(l) \/ LinkStops(l)
  \/ \E p \in Packet : LinkSends(p)

Next == Run \/ Threads \/ Links

Spec == Init /\ [][Next]_vars

(***************************************************************************)
(* A thread that can take a step eventually does, and so does the outbound *)
(* thread of every link: it assumes that a link that was peered is run or  *)
(* dropped.  Nothing obliges a link to send or to stop, or a program to    *)
(* call peer_with_link or run.                                             *)
(***************************************************************************)
Fairness ==
  /\ WF_vars(RouteNext) /\ WF_vars(SendRouted)
  /\ WF_vars(TakeRouted) /\ WF_vars(Deliver \/ FailToDeliver)
  /\ \A l \in Link : WF_vars(LinkTakes(l))

FairSpec == Spec /\ Fairness
=============================================================================
