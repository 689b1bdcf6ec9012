-------------------------- MODULE InterestForwarding --------------------------
(***************************************************************************)
(* What a broker promises its links, without channels, threads, caches or  *)
(* a classifier.                                                           *)
(*                                                                         *)
(*  - A request a link sends may be passed on to any links that do not     *)
(*    share the asker's identity, or to none.                              *)
(*  - A response is passed on only if its name was requested of some link, *)
(*    and only to links that asked for it.                                 *)
(*  - What is passed on to a link is received by it, once and in the       *)
(*    order it was passed on, unless the link stops.                       *)
(*                                                                         *)
(* A LinkId is an address; `owner` says which link's queue it leads to,    *)
(* and is fixed when the broker starts.                                    *)
(***************************************************************************)
EXTENDS Queues, SequencesExt

CONSTANTS Link, Name, Frame, LinkPid, NoLink

VARIABLES
  asked,     \* pairs of a link and a name it asked for
  tried,     \* pairs of a link and a name that was asked of it
  owner,     \* the link whose queue an address leads to, or NoLink
  queue,     \* packets on their way to a link
  stopped    \* links that take no more packets

vars == <<asked, tried, owner, queue, stopped>>

Init == /\ asked = {}
        /\ tried = {}
        /\ owner = [l \in Link |-> NoLink]
        /\ queue = [l \in Link |-> << >>]
        /\ stopped = {}

Start ==
  /\ \A l \in Link : owner[l] = NoLink
  /\ owner' \in [Link -> Link \cup {NoLink}]
  /\ UNCHANGED <<asked, tried, queue, stopped>>

Packet == [link : Link, kind : {"Request", "Response"}, name : Name, frame : Frame]

(***************************************************************************)
(* The packet (kind, n, f) is passed on to every address in `to`, in some  *)
(* order.  Addresses that lead nowhere or to a stopped link lose it.       *)
(***************************************************************************)
PassOn(to, kind, n, f) ==
  \E order \in SetToSeqs(to) :
    LET batch == [i \in DOMAIN order |->
                    [link |-> order[i], kind |-> kind, name |-> n, frame |-> f]]
    IN  queue' = [l \in Link |->
                    IF l \in stopped
                    THEN << >>
                    ELSE queue[l] \o Only(batch, {p \in Packet : owner[p.link] = l})]

Request(l, n, f, to) ==
  /\ \A k \in to : LinkPid[k] # LinkPid[l]
  /\ PassOn(to, "Request", n, f)
  /\ asked' = asked \cup {<<l, n>>}
  /\ tried' = tried \cup (to \X {n})
  /\ UNCHANGED <<owner, stopped>>

Respond(l, n, f, to) ==
  /\ <<l, n>> \in tried
  /\ \A k \in to : <<k, n>> \in asked /\ LinkPid[k] # LinkPid[l]
  /\ PassOn(to, "Response", n, f)
  /\ UNCHANGED <<asked, tried, owner, stopped>>

Take(l) ==
  /\ queue[l] # << >>
  /\ queue' = [queue EXCEPT ![l] = Tail(@)]
  /\ UNCHANGED <<asked, tried, owner, stopped>>

Stop(l) ==
  /\ stopped' = stopped \cup {l}
  /\ queue' = [queue EXCEPT ![l] = << >>]
  /\ UNCHANGED <<asked, tried, owner>>

Next ==
  \/ Start
  \/ \E l \in Link, n \in Name, f \in Frame, to \in SUBSET Link :
        Request(l, n, f, to) \/ Respond(l, n, f, to)
  \/ \E l \in Link : Take(l) \/ Stop(l)

\* Every link goes on taking what is in its queue.
Fairness == \A l \in Link : WF_vars(Take(l))

Spec == Init /\ [][Next]_vars

FairSpec == Spec /\ Fairness
=============================================================================
