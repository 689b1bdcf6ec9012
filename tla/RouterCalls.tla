----------------------------- MODULE RouterCalls ------------------------------
(***************************************************************************)
(* Successive calls of `handle_packet`, one packet after another, without  *)
(* channels: long histories of one router.                                 *)
(*                                                                         *)
(* KeepsStore says what the caller does with the response store it lends:  *)
(* FALSE is the broker's thread (broker.rs:117), whose `&mut rs.clone()`   *)
(* is thrown away after the call; TRUE is a caller that passes the same    *)
(* store to every call, as the signature invites.                          *)
(***************************************************************************)
EXTENDS Router

CONSTANTS
  KeepsStore,
  NoPacket,       \* no packet was handled yet
  MaxTrained      \* bound: calls that train the classifier

ASSUME NameIsFinite == IsFiniteSet(Name)
ASSUME KeepsStoreAssumption == KeepsStore \in BOOLEAN
ASSUME NoPacketAssumption == NoPacket \notin Packet
ASSUME MaxTrainedAssumption == MaxTrained \in Nat

VARIABLES
  store,      \* the ResponseStore: <<name, frame>> of each response in it
  handled,    \* the packet of the last call
  asks,       \* history: requests, per name, that were not served from the store
  answers,    \* history: expected responses, per link and name
  recent,     \* history: the last StoreSize responses accepted or served
  dropped     \* history: see Dropped

tally == <<asks, answers, recent, dropped>>
vars == <<router, out, history, store, handled, tally>>

AllAsks == SumFunction(asks)
AnswersOf(l) == SumFunction(answers[l])
AllAnswers == SumFunction([l \in Link |-> AnswersOf(l)])

Init ==
  /\ router \in {FreshTables(links) : links \in SUBSET Link}
  /\ out = << >>
  /\ history = NoHistory
  /\ store = << >>
  /\ handled = NoPacket
  /\ asks = [n \in Name |-> 0]
  /\ answers = [l \in Link |-> [n \in Name |-> 0]]
  /\ recent = << >>
  /\ dropped = NoName

\* The request goes nowhere although there is a link it could be sent to.
IsDeepSixed(r, p) ==
  /\ p.kind = "Request"
  /\ ~StoredFor(store, p)
  /\ Targets(r, p) # {}
  /\ out' = << >>

(***************************************************************************)
(* The name that was asked for last, if it was deep-sixed and nothing but  *)
(* unexpected responses, and requests the store answered, came since.      *)
(***************************************************************************)
Dropped(r, p) ==
  LET newLink  == p.link \notin router.known
      answered == p.kind = "Response" /\ Expected(r, p)
      asked    == p.kind = "Request" /\ ~StoredFor(store, p)
  IN  CASE IsDeepSixed(r, p)                                    -> p.name
        [] ~IsDeepSixed(r, p) /\ (newLink \/ answered \/ asked) -> NoName
        [] OTHER                                                -> dropped

Handle(p) ==
  LET r        == Admitted(router, p.link)
      served   == p.kind = "Request" /\ StoredFor(store, p)
      accepted == p.kind = "Response" /\ Expected(r, p)
  IN  /\ AllAsks + AllAnswers < MaxTrained
      /\ HandlePacket(r, p, store)
      /\ store' = IF KeepsStore THEN StoreAfter(r, p, store) ELSE store
      /\ handled' = p
      /\ asks' = IF p.kind = "Request" /\ ~served
                 THEN [asks EXCEPT ![p.name] = @ + 1]
                 ELSE asks
      /\ answers' = IF accepted
                    THEN [answers EXCEPT ![p.link][p.name] = @ + 1]
                    ELSE answers
      /\ recent' = IF KeepsStore /\ (served \/ accepted)
                   THEN LET longer == <<<<p.name, p.frame>>>> \o recent
                        IN  SubSeq(longer, 1, Min({StoreSize, Len(longer)}))
                   ELSE recent
      /\ dropped' = Dropped(r, p)

Next == \E p \in Packet : Handle(p)

Spec == Init /\ [][Next]_vars
-----------------------------------------------------------------------------
TypeOK ==
  /\ router \in RouterTables
  /\ out \in Seq(Packet)
  /\ history \in History
  /\ store \in Seq(Name \X Frame)
  /\ Len(store) <= StoreSize
  /\ handled \in Packet \cup {NoPacket}
  /\ asks \in [Name -> Nat]
  /\ answers \in [Link -> [Name -> Nat]]
  /\ recent \in Seq(Name \X Frame)
  /\ Len(recent) <= StoreSize
  /\ dropped \in Name \cup {NoName}

\* The classifier has counted what was asked and what was answered, and
\* knows how often it was trained in all.
TablesTally ==
  /\ router.count[Choke] = AllAsks
  /\ \A l \in Link :
       router.count[l] = SuperTraining * AnswersOf(l) + IF l \in router.known THEN 1 ELSE 0
  /\ Total(router.count) = AllAsks + Cardinality(router.known) + SuperTraining * AllAnswers
  /\ \A n \in Name : /\ router.freq[n][Choke] = asks[n]
                      /\ \A l \in Link : router.freq[n][l] = SuperTraining * answers[l][n]

\* A name that was deep-sixed when it was not asked for the first time has no way
\* past the choke.
DroppedStayOut ==
  dropped # NoName =>
    /\ asks[dropped] > 0
    /\ asks[dropped] > 1 => ~MayPass(router, dropped)

\* A response is no further back in the store than among the recent ones.
RecentAreStored ==
  \A i \in DOMAIN recent : \E j \in 1 .. i : j \in DOMAIN store /\ store[j] = recent[i]

\* The inductive invariant.
IndInv ==
  /\ TypeOK
  /\ TablesTally
  /\ DroppedStayOut
  /\ RecentAreStored

(***************************************************************************)
(* Only a broker that is mostly not answered drops requests: requests      *)
(* outweigh its links and four times its answers by nine to one.           *)
(***************************************************************************)
DeepSixedOnlyIfUnanswered ==
  [][\A p \in Packet :
       LET r == Admitted(router, p.link)
       IN  handled' = p /\ asks' # asks /\ IsDeepSixed(r, p) =>
             100 * AllAsks >= DeepSixPercent *
                (AllAsks + Cardinality(r.known) + SuperTraining * AllAnswers)]_vars

(***************************************************************************)
(* What becomes of a name that was deep-sixed when it is asked for again,  *)
(* with nobody else asking and no answer or new link in between.  If it    *)
(* had been asked for before it was deep-sixed, asking does not help: each *)
(* retry trains the choke for it further.  If that was its first request,  *)
(* it was dropped for what became of other names, and the retry passes:    *)
(* now the name is known, by one request, and that is too little to drop   *)
(* it (router.rs, the choke is trained before it is asked; bayes.rs,       *)
(* get_frequency).                                                         *)
(***************************************************************************)
DeepSixedAgainUnlessFirst ==
  [][/\ dropped # NoName
     /\ asks'[dropped] = asks[dropped] + 1
     /\ handled'.link \in router.known
     /\ Targets(router, handled') # {}
     => (out' = << >> <=> asks[dropped] > 1)]_vars

(***************************************************************************)
(* A link that answered for a name is asked for it before any link that    *)
(* never did.                                                              *)
(***************************************************************************)
AnsweringLinksFirst ==
  [][handled' # NoPacket /\ handled'.kind = "Request" /\ asks' # asks =>
       LET answered(i) == answers[out'[i].link][handled'.name] > 0
       IN  \A i, j \in DOMAIN out' : i < j /\ answered(j) => answered(i)]_vars

(***************************************************************************)
(* With a store that is kept, a response is served at once, and asked of   *)
(* nobody, as long as fewer than StoreSize others were accepted or served  *)
(* since it was itself: being asked for saves it from eviction.            *)
(***************************************************************************)
RecentResponsesAreServed ==
  [][\A p \in Packet :
       /\ handled' = p
       /\ p.kind = "Request"
       /\ <<p.name, p.frame>> \in ToSet(recent)
       => out' = <<[p EXCEPT !.kind = "Response"]>>]_vars
=============================================================================
