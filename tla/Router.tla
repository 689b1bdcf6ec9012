------------------------------- MODULE Router --------------------------------
(***************************************************************************)
(* `Router::handle_packet` (copernica-broker/src/router.rs): what a broker *)
(* does with one packet a link handed it.  The tables it works on are the  *)
(* record `router`, and the packets it sends are left in `out`, in the     *)
(* order of its `r2b_tx.send` calls.  The tables belong to one thread, so  *)
(* updating them before the sends are done cannot be told from the code's  *)
(* interleaving of the two.                                                *)
(*                                                                         *)
(* A response store is a parameter of every operator, because its fate     *)
(* depends on the caller: see Broker and RouterCalls.                    *)
(***************************************************************************)
EXTENDS Bayes, Pheromone

CONSTANTS
  Frame,            \* frame numbers (HBFI::frm)
  NoName,           \* "no name yet", in the history variable
  LinkPid,          \* the public identity of each link's own end
  PheromoneSize,    \* RESPONSE_STORE_SIZE: entries a Pheromone holds
  StoreSize,        \* RESPONSE_STORE_SIZE: responses the store holds
  DeepSixPercent,   \* 90: a choke weight from which a request is dropped
  SuperTraining     \* 4: what an answer is worth, in trainings

ASSUME NoNameIsNoName == NoName \notin Name
ASSUME LinkPidAssumption == DOMAIN LinkPid = Link
ASSUME SizesAssumption == /\ PheromoneSize \in Nat \ {0}
                          /\ StoreSize \in Nat \ {0}
ASSUME WeightsAssumption == DeepSixPercent \in 51 .. 100 /\ SuperTraining \in Nat \ {0}

VARIABLES
  router,    \* the tables: see RouterTables
  out,       \* packets handle_packet has still to send to the broker
  history    \* what links asked and were asked; never read by the code

Packet == [link : Link, kind : {"Request", "Response"}, name : Name, frame : Frame]

\* `InterLinkPacket::change_destination`.
ToLink(p, l) == [p EXCEPT !.link = l]

\* `HashMap<LinkId, Blooms>` (its keys are `known`) and the classifier.
RouterTables ==
  [known     : SUBSET Link,
   pending   : [Link -> Seq(Name)],
   forwarded : [Link -> Seq(Name)],
   count     : [Class -> Nat],
   freq      : [Name -> [Class -> Nat]]]

\* Blooms::new() for every link of `links`, each then added to the classifier.
FreshTables(links) ==
  [known     |-> links,
   pending   |-> [l \in Link |-> << >>],
   forwarded |-> [l \in Link |-> << >>],
   count     |-> [id \in Class |-> IF id \in links THEN 1 ELSE 0],
   freq      |-> [n \in Name |-> [id \in Class |-> 0]]]

\* Mutant of Admitted: the classifier is not told of the link.
AdmittedUntrained(r, l) == [r EXCEPT !.known = @ \cup {l}]

\* A link the broker has not met gets its Blooms and its place in the classifier.
Admitted(r, l) ==
  IF l \in r.known
  THEN r
  ELSE [r EXCEPT !.known = @ \cup {l},
                 !.count = TrainedCount(@, l, 1)]

History ==
  [asked     : SUBSET (Link \X Name),      \* l asked for n, and was not served at once
   tried     : SUBSET (Link \X Name),      \* n was asked of l
   lastAsked : [Link -> Name \cup {NoName}],
   lastTried : [Link -> Name \cup {NoName}]]

NoHistory ==
  [asked     |-> {},
   tried     |-> {},
   lastAsked |-> [l \in Link |-> NoName],
   lastTried |-> [l \in Link |-> NoName]]
-----------------------------------------------------------------------------
(* Requests. *)

\* `rs.find`: a stored response for exactly this name and frame.
StoredFor(store, p) == <<p.name, p.frame>> \in ToSet(store)

\* The store answers; nothing is recorded and nothing is trained.
AnswerFromStore(r, p, store) ==
  /\ StoredFor(store, p)
  /\ out' = <<[p EXCEPT !.kind = "Response"]>>
  /\ router' = r
  /\ UNCHANGED history

\* Mutant of Recorded: the request is trained and not remembered.
RecordedUnremembered(r, p) ==
  [r EXCEPT !.count = TrainedCount(@, Choke, 1),
            !.freq  = TrainedFreq(@, p.name, Choke, 1)]

\* The pending request is recorded, and the name is trained towards the
\* choke, before it is decided whether the request goes any further.
Recorded(r, p) ==
  [r EXCEPT !.pending[p.link] = Inserted(@, p.name, PheromoneSize),
            !.count = TrainedCount(@, Choke, 1),
            !.freq  = TrainedFreq(@, p.name, Choke, 1)]

ChokeScore(r, n) == Score(r.count, r.freq, n, Choke)

\* The weights are those from before this request was trained.
DeepSixWeight(r) == DeepSixPercent * InvMinProb * Total(r.count)

\* Mutant of MayDeepSix: two requests in three unanswered are enough.
MayDeepSixEarly(r, n) ==
  /\ RanksFirst(r.count, r.freq, n, Choke)
  /\ 3 * ChokeScore(r, n) >= 2 * InvMinProb * Total(r.count)

\* Mutant of MayDeepSix: the last arm of the match ends ten points further up.
MayDeepSixBand(r, n) ==
  /\ RanksFirst(r.count, r.freq, n, Choke)
  /\ 100 * ChokeScore(r, n) >= DeepSixWeight(r)
  /\ 100 * ChokeScore(r, n) < (DeepSixPercent + 10) * InvMinProb * Total(r.count)

MayDeepSix(r, n) ==
  /\ RanksFirst(r.count, r.freq, n, Choke)
  /\ 100 * ChokeScore(r, n) >= DeepSixWeight(r)

(***************************************************************************)
(* Exactly at the threshold the product (freq / count) * (count / total)   *)
(* may have been rounded down to just below it, unless its first factor    *)
(* is 1.                                                                   *)
(***************************************************************************)
MayPass(r, n) ==
  \/ ~MayDeepSix(r, n)
  \/ /\ 100 * ChokeScore(r, n) = DeepSixWeight(r)
     /\ r.freq[n][Choke] \notin {0, r.count[Choke]}

Asked(h, p) ==
  [h EXCEPT !.asked = @ \cup {<<p.link, p.name>>},
            !.lastAsked[p.link] = p.name]

\* "Deep Sixed packet": recorded and trained, not forwarded.
DeepSix(r, p, store) ==
  /\ ~StoredFor(store, p)
  /\ MayDeepSix(r, p.name)
  /\ router' = Recorded(r, p)
  /\ out' = << >>
  /\ history' = Asked(history, p)

\* Mutant of Candidates: LinkIds are compared, not identities.
CandidatesByLinkId(r, p) == r.known \ {p.link}

\* Links that are tried in turn: any but those with the asker's identity.
Candidates(r, p) == {l \in r.known : LinkPid[l] # LinkPid[p.link]}

\* Mutant of Targets: the asker is not left out.
TargetsAny(r, p) == {l \in r.known : ~Holds(r.pending[l], p.name)}

\* `contains_pending_request` keeps a link from being asked for what it asked.
Targets(r, p) == {l \in Candidates(r, p) : ~Holds(r.pending[l], p.name)}

\* Looking a name up in a Pheromone also moves it to the front.
TouchedAt(pheromones, links, n) ==
  [l \in Link |-> IF l \in links THEN Touched(pheromones[l], n) ELSE pheromones[l]]

InsertedAt(pheromones, links, n) ==
  [l \in Link |-> IF l \in links
                  THEN Inserted(pheromones[l], n, PheromoneSize)
                  ELSE pheromones[l]]

ForwardRequest(r, p, store) ==
  /\ ~StoredFor(store, p)
  /\ MayPass(r, p.name)
  /\ router' = [Recorded(r, p) EXCEPT
                  !.pending   = TouchedAt(@, Candidates(r, p), p.name),
                  !.forwarded = InsertedAt(@, Targets(r, p), p.name)]
  /\ \E order \in Rankings(r.count, r.freq, p.name, Targets(r, p)) :
        out' = [i \in DOMAIN order |-> ToLink(p, order[i])]
  /\ history' = [Asked(history, p) EXCEPT
                   !.tried = @ \cup (Targets(r, p) \X {p.name}),
                   !.lastTried = [l \in Link |-> IF l \in Targets(r, p)
                                                 THEN p.name ELSE @[l]]]

HandleRequest(r, p, store) ==
  /\ p.kind = "Request"
  /\ \/ AnswerFromStore(r, p, store)
     \/ DeepSix(r, p, store)
     \/ ForwardRequest(r, p, store)
-----------------------------------------------------------------------------
(* Responses. *)

\* Mutant of Expected: the Pheromone of forwarded requests is not consulted.
ExpectedAlways(r, p) == p.kind = "Response"

\* The response is one the router is waiting for on this link.
Expected(r, p) == Holds(r.forwarded[p.link], p.name)

IgnoreResponse(r, p) ==
  /\ ~Expected(r, p)
  /\ router' = r
  /\ out' = << >>
  /\ UNCHANGED history

\* Links that wait for the name; the interest is kept, it only leaves by eviction.
Askers(r, p) == {l \in Candidates(r, p) : Holds(r.pending[l], p.name)}

\* The answer is learnt and goes to every asker, in the order of a HashMap.
ForwardResponse(r, p) ==
  /\ Expected(r, p)
  /\ router' = [r EXCEPT
                  !.forwarded[p.link] = Touched(@, p.name),
                  !.pending = TouchedAt(@, Candidates(r, p), p.name),
                  !.count   = TrainedCount(@, p.link, SuperTraining),
                  !.freq    = TrainedFreq(@, p.name, p.link, SuperTraining)]
  /\ \E order \in SetToSeqs(Askers(r, p)) :
        out' = [i \in DOMAIN order |-> ToLink(p, order[i])]
  /\ UNCHANGED history

HandleResponse(r, p) ==
  /\ p.kind = "Response"
  /\ \/ IgnoreResponse(r, p)
     \/ ForwardResponse(r, p)
-----------------------------------------------------------------------------
HandlePacket(r, p, store) == HandleRequest(r, p, store) \/ HandleResponse(r, p)

\* Mutant of StoreAfter: a served response does not move to the front.
StoreAfterUntouched(r, p, store) ==
  IF p.kind = "Response" /\ Expected(r, p)
  THEN Inserted(store, <<p.name, p.frame>>, StoreSize)
  ELSE store

\* Mutant of StoreAfter: names are stored without their frame.
StoreAfterFrameless(r, p, store) ==
  IF p.kind = "Response" /\ Expected(r, p)
  THEN Inserted(store, p.name, StoreSize)
  ELSE store

\* What `rs` holds after the call: a served response becomes the most recent
\* one, an expected response is added, duplicates and all.
StoreAfter(r, p, store) ==
  CASE p.kind = "Request"                   -> Touched(store, <<p.name, p.frame>>)
    [] p.kind = "Response" /\ Expected(r, p) ->
         Inserted(store, <<p.name, p.frame>>, StoreSize)
    [] OTHER                                -> store
=============================================================================
