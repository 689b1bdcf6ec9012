--------------------------- MODULE TxRxProperties ----------------------------
(***************************************************************************)
(* Properties of the request calls of module TxRx.                         *)
(***************************************************************************)
EXTENDS TxRx, Queues

\* The state is one the types of the Rust code and the bounds allow.
TypeOK ==
  /\ phase \in [Call -> Phase]
  /\ goal \in [Call -> Goal]
  /\ pending \in [Call -> SUBSET Frame]
  /\ window \in [Call -> SUBSET Frame]
  /\ size \in [Call -> Nat \ {0}]
  /\ worker \in [Call -> Worker]
  /\ DOMAIN result = Call
  /\ disturbed \in SUBSET Call
  /\ registered \in SUBSET Name
  /\ incomplete \in [Name -> SUBSET Response]
  /\ responses \in Seq(Response)
  /\ holder \in Call \cup {Nobody}
  /\ wire \in [Response -> Nat]
  /\ losses \in Nat
  /\ repeats \in Nat

\* The responses a call asks for.
Answer(c) == [name : {goal[c].name}, frame : Wanted(c)]

(***************************************************************************)
(* A call that returns has every frame it was asked for, in order, no      *)
(* matter what was lost, repeated, late, taken by the worker of another    *)
(* call or left over from an earlier one; unless another call registered   *)
(* its name meanwhile, and emptied the map (txrx.rs, process_aimd and      *)
(* reconstruct_responses).                                                 *)
(***************************************************************************)
ReturnsAreComplete ==
  \A c \in Call \ disturbed :
     phase[c] = "returned" => result[c] = InOrder(Answer(c))

\* No frame of a call in progress is forgotten: each is queued, under way or here.
Accounted ==
  \A c \in Active \ disturbed :
     \A p \in Answer(c) :
        \/ p.frame \in pending[c] \cup window[c]
        \/ p \in incomplete[goal[c].name]

\* Entries and workers do not mix up names.
Sorted ==
  /\ \A n \in Name : \A p \in incomplete[n] : p.name = n
  /\ \A c \in Call : \A p \in worker[c].returned : p.name = goal[c].name

\* A call that waits for nothing has no window and no worker, one in progress has
\* an entry, and a worker that has seen enough is done with the channel.
Tidy ==
  /\ \A c \in Call : phase[c] \in {"idle", "ready"} =>
                       window[c] = {} /\ worker[c].missing = 0
  /\ \A c \in Active : goal[c].name \in registered
  /\ \A c \in Call : holder = c => worker[c].missing > 0

\* The inductive invariant behind ReturnsAreComplete.
IndInv == TypeOK /\ Sorted /\ Tidy /\ Accounted /\ ReturnsAreComplete

UnderWay(p) == wire[p] + Len(Only(responses, {p}))

(***************************************************************************)
(* For one call at a time that does not time out, and as long as nothing   *)
(* is lost or repeated, what is under way is what the window still misses, *)
(* and nothing when there is no call: no response is left in the channel   *)
(* for the worker of a later call to count in the place of another         *)
(* (txrx.rs, send_and_receive: the sends, total and counter).              *)
(***************************************************************************)
NothingLeftBehind ==
  losses = 0 /\ repeats = 0 => \A p \in Response :
     UnderWay(p) = Cardinality({c \in Active : /\ goal[c].name = p.name
                                               /\ p.frame \in Failed(c)})

\* Other calls in progress for the same name.
Rivals(c) == {d \in Active \ {c} : goal[d].name = goal[c].name}

(***************************************************************************)
(* Whatever is lost or late, a call does not go on for ever: it returns or *)
(* fails.  Only calls for one name at a time can keep each other going, by *)
(* counting each other's responses.                                        *)
(***************************************************************************)
EveryCallEnds ==
  \A c \in Call :
     phase[c] = "ready" ~> phase[c] \in {"returned", "failed"} \/ Rivals(c) # {}

(***************************************************************************)
(* On a timely network that loses nothing every call returns, although     *)
(* repeated responses, and those left over from earlier calls, are counted *)
(* in the place of others.                                                 *)
(***************************************************************************)
TimelyCallsReturn ==
  \A c \in Call : phase[c] = "ready" ~> phase[c] = "returned"
=============================================================================
