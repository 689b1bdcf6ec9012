------------------------------ MODULE PingPong -------------------------------
(***************************************************************************)
(* The network of copernica-tests/src/network.rs (`ping_pong`), all of its *)
(* threads at work, and the log by which the test judges it:               *)
(*                                                                         *)
(*   echo1 --link5 = UDP = link4-- router1 --link3 = channels that corrupt *)
(*                          = link2-- router0 --link0 = channels = link1-- *)
(*                                                                 echo0   *)
(*                                                                         *)
(* The brokers are two instances of module Broker, the call is one of      *)
(* module TxRx, with what is under way in this network for its `wire`.     *)
(* A link thread, and the dispatch thread that has a response, takes a     *)
(* packet when it can pass it on: module Link and module Echo have the     *)
(* packets in their hands, and what links do to a packet.                  *)
(***************************************************************************)
EXTENDS Naturals, FiniteSets, Queues, SequencesExt, FiniteSetsExt

CONSTANTS
  BufferSize,     \* BOUNDED_BUFFER_SIZE of every channel
  PheromoneSize,  \* RESPONSE_STORE_SIZE
  InvMinProb,     \* 1 / min_prob
  MaxLosses,      \* bound: datagrams lost
  MaxArrivals,    \* bound: packets that reach each broker; eight are expected
  Nothing         \* no packet; also no link, no worker, no name

ASSUME BoundsAssumption == /\ BufferSize \in Nat \ {0}
                           /\ PheromoneSize \in Nat \ {0}
                           /\ InvMinProb \in Nat \ {0, 1}
                           /\ MaxLosses \in Nat
                           /\ MaxArrivals \in Nat

Link == {"link0", "link1", "link2", "link3", "link4", "link5"}
LinksOf == [router0 |-> {"link0", "link2"}, router1 |-> {"link3", "link4"}]
LinkOf == [echo0 |-> "link1", echo1 |-> "link5"]
OtherEnd == [link0 |-> "link1", link1 |-> "link0", link2 |-> "link3",
             link3 |-> "link2", link4 |-> "link5", link5 |-> "link4"]
Datagrams == {"link4", "link5"}
Node == DOMAIN LinksOf \cup DOMAIN LinkOf \cup Link

LogEntry == [kind : {"register", "message", "found_response_upstream",
                     "response_arrived_downstream", "forward_request_upstream",
                     "forward_response_downstream"},
             label : Node]

\* The call: `unreliable_unordered_request(hbfi, 0, 3)`, a ping's.
LastFrame == 3
Frame == 0 .. LastFrame
Goal == [name |-> "echo", first |-> 0, last |-> LastFrame]

Packet == [link : Link, kind : {"Request", "Response"}, name : {"echo"}, frame : Frame]

\* Nothing is none of the things it stands in for.
ASSUME NothingAssumption == Nothing \notin Link \cup Packet \cup {"ping", "echo"}

VARIABLES
  phase, goal, pending, window, size, worker, result, disturbed, registered,
  incomplete, responses, holder, losses,        \* the call: see TxRx
  unsent,       \* frames of the window that are still to be sent
  ended,        \* the test has logged the end
  log,          \* how often each entry was logged before that
  p2l,          \* channel of each protocol to its link
  l2p,          \* channel of its link to each protocol
  answering,    \* the request the dispatch thread of echo0 responds to
  sent,         \* what each link has sent and its other end has not read
  router0, out0, history0, l2b0, r2b0, held0, chan0, arrived0,
  router1, out1, history1, l2b1, r2b1, held1, chan1, arrived1

callVars == <<phase, goal, pending, window, size, worker, result, disturbed, registered,
              incomplete, responses, holder>>
protocolVars == <<p2l, l2p, answering>>
broker0Vars == <<router0, out0, history0, l2b0, r2b0, held0, chan0, arrived0>>
broker1Vars == <<router1, out1, history1, l2b1, r2b1, held1, chan1, arrived1>>
brokerVars == <<broker0Vars, broker1Vars>>
vars == <<callVars, losses, unsent, ended, log, protocolVars, sent, brokerVars>>

\* Both brokers were peered with their links, and then run.
B0 == INSTANCE Broker WITH
        Link <- LinksOf.router0, Lookup <- LinksOf.router0,
        LookupId <- [l \in LinksOf.router0 |-> l], LinkPid <- [l \in LinksOf.router0 |-> l],
        Name <- {"echo"}, Frame <- Frame, Choke <- Nothing, NoName <- Nothing,
        NoLink <- Nothing, NoPacket <- Nothing, StoreSize <- PheromoneSize,
        DeepSixPercent <- 90, SuperTraining <- 4, MaxArrivals <- MaxArrivals,
        peers <- LinksOf.router0, b2l <- [l \in LinksOf.router0 |-> l],
        table <- [l \in LinksOf.router0 |-> l], running <- LinksOf.router0 # {}, gone <- {},
        router <- router0, out <- out0, history <- history0, l2b <- l2b0, r2b <- r2b0,
        held <- held0, chan <- chan0, arrived <- arrived0

B1 == INSTANCE Broker WITH
        Link <- LinksOf.router1, Lookup <- LinksOf.router1,
        LookupId <- [l \in LinksOf.router1 |-> l], LinkPid <- [l \in LinksOf.router1 |-> l],
        Name <- {"echo"}, Frame <- Frame, Choke <- Nothing, NoName <- Nothing,
        NoLink <- Nothing, NoPacket <- Nothing, StoreSize <- PheromoneSize,
        DeepSixPercent <- 90, SuperTraining <- 4, MaxArrivals <- MaxArrivals,
        peers <- LinksOf.router1, b2l <- [l \in LinksOf.router1 |-> l],
        table <- [l \in LinksOf.router1 |-> l], running <- LinksOf.router1 # {}, gone <- {},
        router <- router1, out <- out1, history <- history1, l2b <- l2b1, r2b <- r2b1,
        held <- held1, chan <- chan1, arrived <- arrived1

(***************************************************************************)
(* The way of a frame, from the window it is asked for in to the response  *)
(* channel: the places it passes, numbered, of which the first is          *)
(* `unsent`.  Some queues hold requests and responses, and are two places. *)
(***************************************************************************)
Places == 1 .. 32

Held(packet) == IF packet = Nothing THEN << >> ELSE <<packet>>

\* The queue that is place k.
QueueAt(k) ==
  CASE k = 2           -> p2l["echo1"]
    [] k = 3           -> sent["link5"]
    [] k \in {4, 26}   -> l2b1
    [] k \in {5, 27}   -> out1
    [] k \in {6, 28}   -> r2b1
    [] k \in {7, 29}   -> Held(held1)
    [] k = 8           -> chan1["link3"]
    [] k = 9           -> sent["link3"]
    [] k \in {10, 20}  -> l2b0
    [] k \in {11, 21}  -> out0
    [] k \in {12, 22}  -> r2b0
    [] k \in {13, 23}  -> Held(held0)
    [] k = 14          -> chan0["link0"]
    [] k = 15          -> sent["link0"]
    [] k = 16          -> l2p["echo0"]
    [] k = 17          -> Held(answering)
    [] k = 18          -> p2l["echo0"]
    [] k = 19          -> sent["link1"]
    [] k = 24          -> chan0["link2"]
    [] k = 25          -> sent["link2"]
    [] k = 30          -> chan1["link4"]
    [] k = 31          -> sent["link4"]
    [] k = 32          -> l2p["echo1"]

KindAt(k) == IF k <= 17 THEN "Request" ELSE "Response"

\* How many packets of a kind, with frames out of a set, a queue holds.
Number(queue, kind, frames) ==
  Len(Only(queue, [link : Link, kind : {kind}, name : {"echo"}, frame : frames]))

\* How many of these frames are at place k.
Count(k, frames) ==
  IF k = 1
  THEN Cardinality(unsent \cap frames)
  ELSE Number(QueueAt(k), KindAt(k), frames)

\* How many requests and responses are under way, per frame: TxRx's `wire`.
UnderWay ==
  [p \in [name : {"echo"}, frame : Frame] |->
     SumFunctionOnSet([k \in Places |-> Count(k, {p.frame})], Places)]

T == INSTANCE TxRx WITH
       Call <- {"ping"}, Name <- {"echo"}, Goals <- {Goal}, MaxActive <- 1, MaxRepeats <- 0,
       Timely <- FALSE, Nobody <- Nothing, wire <- UnderWay, repeats <- 0

Entry(kind, label) == [kind |-> kind, label |-> label]

\* Entries of `Operations`; the test reads none after the end.
Logged(entries) ==
  log' = IF ended THEN log
         ELSE [e \in LogEntry |-> IF e \in entries THEN log[e] + 1 ELSE log[e]]

Init ==
  /\ phase = [c \in {"ping"} |-> "idle"]
  /\ goal = [c \in {"ping"} |-> Goal]
  /\ pending = [c \in {"ping"} |-> {}]
  /\ window = [c \in {"ping"} |-> {}]
  /\ size = [c \in {"ping"} |-> 1]
  /\ worker = [c \in {"ping"} |-> T!NoWorker]
  /\ result = [c \in {"ping"} |-> << >>]
  /\ disturbed = {} /\ registered = {} /\ incomplete = [n \in {"echo"} |-> {}]
  /\ responses = << >> /\ holder = Nothing /\ losses = 0
  /\ unsent = {} /\ ended = FALSE
  /\ log = [e \in LogEntry |-> IF e.kind = "register" THEN 1 ELSE 0]
  /\ p2l = [p \in DOMAIN LinkOf |-> << >>]
  /\ l2p = [p \in DOMAIN LinkOf |-> << >>]
  /\ answering = Nothing
  /\ sent = [l \in Link |-> << >>]
  /\ router0 = B0!FreshTables(LinksOf.router0) /\ history0 = B0!NoHistory
  /\ out0 = << >> /\ l2b0 = << >> /\ r2b0 = << >> /\ held0 = Nothing /\ arrived0 = 0
  /\ chan0 = [l \in LinksOf.router0 |-> << >>]
  /\ router1 = B1!FreshTables(LinksOf.router1) /\ history1 = B1!NoHistory
  /\ out1 = << >> /\ l2b1 = << >> /\ r2b1 = << >> /\ held1 = Nothing /\ arrived1 = 0
  /\ chan1 = [l \in LinksOf.router1 |-> << >>]
-----------------------------------------------------------------------------
(* The call, its workers, and the end of the test. *)

Ping ==
  /\ UNCHANGED <<unsent, ended, log, protocolVars, sent, brokerVars>>
  /\ T!Request("ping") \/ T!CollectWindow("ping") \/ T!Reconstruct("ping")

\* `send_and_receive` makes the requests of a window ...
BeginWindow ==
  /\ unsent' = T!FirstFrames(pending["ping"], size["ping"])
  /\ T!NextWindow("ping")
  /\ UNCHANGED <<losses, ended, log, protocolVars, sent, brokerVars>>

RequestFor(frame) == [link |-> "link5", kind |-> "Request", name |-> "echo", frame |-> frame]

\* ... and sends them, one at a time, in ascending order.
SendRequest ==
  /\ unsent # {}
  /\ Len(p2l["echo1"]) < BufferSize
  /\ p2l' = [p2l EXCEPT !["echo1"] = Append(@, RequestFor(Min(unsent)))]
  /\ unsent' = unsent \ {Min(unsent)}
  /\ Logged({Entry("message", "echo1")})
  /\ UNCHANGED <<callVars, losses, ended, l2p, answering, sent, brokerVars>>

\* The worker of the window starts when all of it is sent.
Work ==
  /\ unsent = {}
  /\ UNCHANGED <<unsent, ended, log, protocolVars, sent, brokerVars>>
  /\ T!WorkerStep("ping")

\* Nothing but a loss makes a window take longer than its second.
TimeOut ==
  /\ losses > 0
  /\ unsent = {}
  /\ UNCHANGED <<unsent, ended, log, protocolVars, sent, brokerVars>>
  /\ T!TimeOut("ping")

\* `actual_behaviour.end()`, unless the ping panicked.
End ==
  /\ phase["ping"] = "returned"
  /\ ~ended
  /\ ended' = TRUE
  /\ UNCHANGED <<callVars, losses, unsent, log, protocolVars, sent, brokerVars>>
-----------------------------------------------------------------------------
(* The dispatch threads: echo0 is asked and echo1 is answered. *)

TakeRequest ==
  /\ answering = Nothing
  /\ l2p["echo0"] # << >>
  /\ l2p' = [l2p EXCEPT !["echo0"] = Tail(@)]
  /\ answering' = Head(l2p["echo0"])
  /\ Logged({Entry("message", "echo0")})
  /\ UNCHANGED <<callVars, losses, unsent, ended, p2l, sent, brokerVars>>

Respond ==
  /\ answering # Nothing
  /\ Len(p2l["echo0"]) < BufferSize
  /\ p2l' = [p2l EXCEPT !["echo0"] = Append(@, [answering EXCEPT !.kind = "Response"])]
  /\ answering' = Nothing
  /\ Logged({Entry("found_response_upstream", "echo0"), Entry("message", "echo0")})
  /\ UNCHANGED <<callVars, losses, unsent, ended, l2p, sent, brokerVars>>

HandOver ==
  LET packet == Head(l2p["echo1"])
  IN  /\ l2p["echo1"] # << >>
      /\ l2p' = [l2p EXCEPT !["echo1"] = Tail(@)]
      /\ UNCHANGED <<losses, unsent, ended, p2l, answering, sent, brokerVars>>
      /\ IF packet.kind = "Response"
         THEN /\ Logged({Entry("message", "echo1"), Entry("response_arrived_downstream", "echo1")})
              /\ T!Receive([name |-> packet.name, frame |-> packet.frame])
         ELSE Logged({Entry("message", "echo1")}) /\ UNCHANGED callVars
-----------------------------------------------------------------------------
(* The threads of the links. *)

\* Its outbound thread sends a packet: a channel may be full, a socket is not.
Sends(l, packet) ==
  /\ l \in Datagrams \/ Len(sent[l]) < BufferSize
  /\ sent' = [sent EXCEPT ![l] = Append(@, packet)]
  /\ Logged({Entry("message", l)})

\* What its inbound thread may read: the next one, or any datagram.
Readable(l) == IF l \in Datagrams THEN DOMAIN sent[OtherEnd[l]] ELSE DOMAIN sent[OtherEnd[l]] \cap {1}

Reads(l, i) ==
  /\ sent' = [sent EXCEPT ![OtherEnd[l]] = RemoveAt(@, i)]
  /\ Logged({Entry("message", l)})

Read(l, i) == [sent[OtherEnd[l]][i] EXCEPT !.link = l]

Outbound(l) ==
  \/ /\ l \in LinksOf.router0
     /\ B0!LinkTakes(l)
     /\ Sends(l, Head(chan0[l]))
     /\ UNCHANGED <<callVars, losses, unsent, ended, protocolVars, broker1Vars>>
  \/ /\ l \in LinksOf.router1
     /\ B1!LinkTakes(l)
     /\ Sends(l, Head(chan1[l]))
     /\ UNCHANGED <<callVars, losses, unsent, ended, protocolVars, broker0Vars>>
  \/ \E p \in DOMAIN LinkOf :
       /\ l = LinkOf[p]
       /\ p2l[p] # << >>
       /\ p2l' = [p2l EXCEPT ![p] = Tail(@)]
       /\ Sends(l, Head(p2l[p]))
       /\ UNCHANGED <<callVars, losses, unsent, ended, l2p, answering, brokerVars>>

Inbound(l) ==
  \E i \in Readable(l) :
    \/ /\ l \in LinksOf.router0
       /\ B0!LinkSends(Read(l, i))
       /\ Reads(l, i)
       /\ UNCHANGED <<callVars, losses, unsent, ended, protocolVars, broker1Vars>>
    \/ /\ l \in LinksOf.router1
       /\ B1!LinkSends(Read(l, i))
       /\ Reads(l, i)
       /\ UNCHANGED <<callVars, losses, unsent, ended, protocolVars, broker0Vars>>
    \/ \E p \in DOMAIN LinkOf :
         /\ l = LinkOf[p]
         /\ Len(l2p[p]) < BufferSize
         /\ l2p' = [l2p EXCEPT ![p] = Append(@, Read(l, i))]
         /\ Reads(l, i)
         /\ UNCHANGED <<callVars, losses, unsent, ended, p2l, answering, brokerVars>>

Lose(l, i) ==
  /\ l \in Datagrams
  /\ losses < MaxLosses
  /\ losses' = losses + 1
  /\ sent' = [sent EXCEPT ![l] = RemoveAt(@, i)]
  /\ UNCHANGED <<callVars, unsent, ended, log, protocolVars, brokerVars>>
-----------------------------------------------------------------------------
(* The threads of the brokers, with what they log. *)

LogRouting(router, packet) ==
  Logged({Entry("message", router)} \cup
         (IF packet.kind = "Request" THEN {Entry("forward_request_upstream", router)} ELSE {}))

LogForwarding(router, packet) ==
  Logged(IF packet.kind = "Response" THEN {Entry("forward_response_downstream", router)} ELSE {})

Route0 ==
  /\ \/ B0!RouteNext /\ LogRouting("router0", Head(l2b0))
     \/ B0!SendRouted /\ LogForwarding("router0", Head(out0))
  /\ UNCHANGED <<callVars, losses, unsent, ended, protocolVars, sent, broker1Vars>>

Deliver0 ==
  /\ \/ B0!TakeRouted /\ Logged({Entry("message", "router0")})
     \/ B0!Deliver /\ UNCHANGED log
  /\ UNCHANGED <<callVars, losses, unsent, ended, protocolVars, sent, broker1Vars>>

Route1 ==
  /\ \/ B1!RouteNext /\ LogRouting("router1", Head(l2b1))
     \/ B1!SendRouted /\ LogForwarding("router1", Head(out1))
  /\ UNCHANGED <<callVars, losses, unsent, ended, protocolVars, sent, broker0Vars>>

Deliver1 ==
  /\ \/ B1!TakeRouted /\ Logged({Entry("message", "router1")})
     \/ B1!Deliver /\ UNCHANGED log
  /\ UNCHANGED <<callVars, losses, unsent, ended, protocolVars, sent, broker0Vars>>

Caller == Ping \/ BeginWindow \/ SendRequest \/ End

Next ==
  \/ Caller \/ Work \/ TimeOut
  \/ TakeRequest \/ Respond \/ HandOver
  \/ \E l \in Link : Outbound(l) \/ Inbound(l) \/ \E i \in DOMAIN sent[l] : Lose(l, i)
  \/ Route0 \/ Deliver0 \/ Route1 \/ Deliver1

\* Every thread runs.
Fairness ==
  /\ WF_vars(Caller \/ TimeOut) /\ WF_vars(Work)
  /\ WF_vars(TakeRequest \/ Respond) /\ WF_vars(HandOver)
  /\ \A l \in Link : WF_vars(Outbound(l)) /\ WF_vars(Inbound(l))
  /\ WF_vars(Route0) /\ WF_vars(Deliver0) /\ WF_vars(Route1) /\ WF_vars(Deliver1)

Spec == Init /\ [][Next]_vars /\ Fairness
=============================================================================
