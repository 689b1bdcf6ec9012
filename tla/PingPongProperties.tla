------------------------- MODULE PingPongProperties --------------------------
(***************************************************************************)
(* What the test of module PingPong expects of its network, and what the   *)
(* call expects of it.                                                     *)
(***************************************************************************)
EXTENDS PingPong

\* `expected_behaviour`: how often each entry is to be logged.
Expected(e) ==
  CASE e.kind = "register" -> 1
    [] e.kind = "message" -> IF e.label \in DOMAIN LinksOf THEN 16 ELSE 8
    [] e.kind = "found_response_upstream" /\ e.label = "echo0" -> 4
    [] e.kind = "response_arrived_downstream" /\ e.label = "echo1" -> 4
    [] e.kind \in {"forward_request_upstream", "forward_response_downstream"}
         /\ e.label \in DOMAIN LinksOf -> 4
    [] OTHER -> 0

(***************************************************************************)
(* In whatever order the threads run, nothing is logged more often than    *)
(* the test expects, and when the end is logged nothing is missing: the    *)
(* entries of the last response are all made before (lib.rs of the tests,  *)
(* process_network, which fails at the first difference).                  *)
(***************************************************************************)
LogIsAsExpected ==
  \A e \in LogEntry : log[e] <= Expected(e) /\ (ended => log[e] = Expected(e))

(***************************************************************************)
(* To the call the two brokers and their links are a network that answers  *)
(* every request once, that has nothing of its own and that only a lost    *)
(* datagram takes anything from: this network implements the one of module *)
(* TxRx (router.rs, broker.rs, udp.rs, mpsc_channel.rs and                 *)
(* mpsc_corruptor.rs, from `p2l_tx.send` to the response channel).         *)
(***************************************************************************)
AnswersEachRequestOnce == T!Spec

\* What echo0 says to each frame.
Letter(frame) == CASE frame = 0 -> "p" [] frame = 1 -> "o" [] frame = 2 -> "n" [] frame = 3 -> "g"
                   [] OTHER -> "pang"

Answer == [i \in DOMAIN result["ping"] |-> Letter(result["ping"][i].frame)]

(***************************************************************************)
(* The ping is answered with "pong" and the test ends, in whatever order   *)
(* datagrams come; after a loss the ping panics, the end is never logged,  *)
(* and the test waits for it for good (network.rs, the thread of the       *)
(* ping).                                                                  *)
(***************************************************************************)
PongUnlessLost ==
  <>[](IF losses = 0
       THEN ended /\ Answer = <<"p", "o", "n", "g">>
       ELSE ~ended /\ phase["ping"] = "failed")
-----------------------------------------------------------------------------
(* The inductive invariant behind both.  What a thread logs it logs as a   *)
(* packet goes from one place to the next, so the log follows from how     *)
(* many frames are past each place; a lost one was past those before.      *)

\* Frames that were asked for, and those of them that were answered.
Asked == IF phase["ping"] = "idle" THEN {} ELSE Frame \ pending["ping"]
Answered == Asked \ T!Failed("ping")

\* How many frames are past place k.
Past(k) ==
  SumFunctionOnSet([j \in Places |-> IF j > k THEN Count(j, Frame) ELSE 0], Places)
    + Len(responses) + Cardinality(Answered)

\* The link a packet at place k is for, or from.
LinkAt(k) ==
  CASE k \in 2 .. 3   -> "link5" [] k = 4         -> "link4" [] k \in 5 .. 9   -> "link3"
    [] k = 10         -> "link2" [] k \in 11 .. 15 -> "link0" [] k \in 16 .. 19 -> "link1"
    [] k = 20         -> "link0" [] k \in 21 .. 25 -> "link2" [] k = 26         -> "link3"
    [] k \in 27 .. 31 -> "link4" [] k = 32         -> "link5"

PacketsAt(k) == [link : {LinkAt(k)}, kind : {KindAt(k)}, name : {"echo"}, frame : Frame]

\* The other place of a queue that is two.
Twin(k) == CASE k \in 4 .. 7   -> k + 22 [] k \in 26 .. 29 -> k - 22
             [] k \in 10 .. 13 -> k + 10 [] k \in 20 .. 23 -> k - 10 [] OTHER -> k

\* Every packet is where it belongs.
InPlace ==
  /\ p2l \in [DOMAIN LinkOf -> Seq(Packet)] /\ l2p \in [DOMAIN LinkOf -> Seq(Packet)]
  /\ sent \in [Link -> Seq(Packet)]
  /\ chan0 \in [LinksOf.router0 -> Seq(Packet)] /\ chan1 \in [LinksOf.router1 -> Seq(Packet)]
  /\ \A k \in 2 .. 32 : QueueAt(k) \in Seq(PacketsAt(k) \cup PacketsAt(Twin(k)))
  /\ unsent \in SUBSET Frame

\* The call waits for what it asked for and has no answer to.
CallOK ==
  /\ phase \in [{"ping"} -> T!Phase] /\ goal = [c \in {"ping"} |-> Goal]
  /\ pending \in [{"ping"} -> SUBSET Frame] /\ window \in [{"ping"} -> SUBSET Frame]
  /\ size \in [{"ping"} -> Nat \ {0}] /\ worker \in [{"ping"} -> T!Worker]
  /\ responses \in Seq(T!Response)
  /\ worker["ping"].missing = Cardinality(T!Failed("ping"))
  /\ pending["ping"] \cap window["ping"] = {}
  /\ phase["ping"] \in {"idle", "ready", "returned"} => window["ping"] = {}
  /\ phase["ping"] \in {"idle", "returned"} => pending["ping"] = {}
  /\ ended \in BOOLEAN /\ (ended => phase["ping"] = "returned")

\* A frame that has no answer is in one place, or lost; others are in none.
FramesOnce ==
  \A p \in T!Response :
     UnderWay[p] + Len(Only(responses, {p})) <= IF p.frame \in T!Failed("ping") THEN 1 ELSE 0

\* Every frame that was asked for is somewhere, or was lost.
FramesKept == losses \in Nat /\ Past(0) + losses = Cardinality(Asked)

\* The router has only ever been asked by one of its links and has asked the other ...
IsRelay(r, asker, asked) ==
  /\ r.known = {asker, asked}
  /\ r.pending[asked] = << >>
  /\ r.count[asker] >= 1 /\ r.count[asked] >= 1
  /\ r.count[Nothing] = r.freq["echo"][Nothing]

\* ... and remembers it.
HasRelayed(r, asker, asked) ==
  "echo" \in ToSet(r.pending[asker]) /\ "echo" \in ToSet(r.forwarded[asked])

\* No request weighs so much that it is dropped, no response is unexpected.
RoutersOK ==
  /\ router1 \in B1!RouterTables /\ IsRelay(router1, "link4", "link3")
  /\ Past(4) > 0 => HasRelayed(router1, "link4", "link3")
  /\ router1.freq["echo"][Nothing] <= Past(4) + losses
  /\ router0 \in B0!RouterTables /\ IsRelay(router0, "link2", "link0")
  /\ Past(10) > 0 => HasRelayed(router0, "link2", "link0")
  /\ router0.freq["echo"][Nothing] <= Past(10) + losses

\* How often a thread is handed a packet, if n[k] of them go on from each place k ...
MessageHops(label, n) ==
  CASE label = "echo1"   -> n[1] + n[32]
    [] label = "link5"   -> n[2] + n[31]
    [] label = "link4"   -> n[3] + n[30]
    [] label = "router1" -> n[4] + n[6] + n[26] + n[28]
    [] label = "link3"   -> n[8] + n[25]
    [] label = "link2"   -> n[9] + n[24]
    [] label = "router0" -> n[10] + n[12] + n[20] + n[22]
    [] label = "link0"   -> n[14] + n[19]
    [] label = "link1"   -> n[15] + n[18]
    [] label = "echo0"   -> n[16] + n[17]

\* ... and how often e is logged.
AtHops(e, n) ==
  CASE e.kind = "register" -> 1
    [] e.kind = "message"  -> MessageHops(e.label, n)
    [] e.kind = "found_response_upstream" /\ e.label = "echo0"         -> n[17]
    [] e.kind = "response_arrived_downstream" /\ e.label = "echo1"     -> n[32]
    [] e.kind = "forward_request_upstream" /\ e.label = "router1"      -> n[4]
    [] e.kind = "forward_request_upstream" /\ e.label = "router0"      -> n[10]
    [] e.kind = "forward_response_downstream" /\ e.label = "router1"   -> n[27]
    [] e.kind = "forward_response_downstream" /\ e.label = "router0"   -> n[21]
    [] OTHER -> 0

\* What was logged, frames that are past a hop have passed it, and lost ones may have.
LogFollows ==
  /\ log \in [LogEntry -> Nat]
  /\ \A e \in LogEntry : /\ AtHops(e, [k \in Places |-> Past(k)]) <= log[e]
                         /\ log[e] <= AtHops(e, [k \in Places |-> Past(k) + losses])

(***************************************************************************)
(* The inductive invariant: each frame that was asked for is answered, in  *)
(* one of the places it passes, as the packet that belongs there, or was   *)
(* lost; no router has a reason to drop one; and the log tells how far     *)
(* they came (network.rs, ping_pong, and the threads it starts).           *)
(***************************************************************************)
IndInv == InPlace /\ CallOK /\ FramesOnce /\ FramesKept /\ RoutersOK /\ LogFollows
=============================================================================
