-------------------------------- MODULE TxRx ---------------------------------
(***************************************************************************)
(* The requesting half of TxRx (copernica-protocols/src/txrx.rs): calls of *)
(* one of its five request functions, which are copies of each other, each *)
(* with a response channel of its own.                                     *)
(*                                                                         *)
(* A call asks for the frames first .. last of a name, a window of them at *)
(* a time.  For each window it spawns a worker, which counts responses     *)
(* from the channel and reports when it has seen as many as were asked     *)
(* for.  A worker whose call timed out is never told: it goes on taking    *)
(* responses.  Calls on clones of one TxRx share the channel, its mutex    *)
(* and the map of incomplete responses.                                    *)
(*                                                                         *)
(* The network between a request and its response (links, brokers, the     *)
(* responder) may lose, repeat and reorder.  A window is sent at once: its *)
(* sends block on the link only, and responses may wait in the channel.    *)
(***************************************************************************)
EXTENDS Naturals, Sequences, FiniteSets, SequencesExt

CONSTANTS
  Call,          \* the calls of a behaviour
  Name,          \* HBFIs without their frame
  LastFrame,     \* frames are 0 .. LastFrame
  Goals,         \* what calls ask for: names and ranges of frames
  BufferSize,    \* BOUNDED_BUFFER_SIZE of the response channel
  MaxActive,     \* bound: calls in progress at a time
  MaxLosses,     \* bound: packets the network loses
  MaxRepeats,    \* bound: packets the network repeats
  Timely,        \* the responses to a window all come within its timeout
  Nobody         \* no worker holds the mutex of the channel

ASSUME LastFrameAssumption == LastFrame \in Nat
ASSUME GoalsAssumption == \A g \in Goals : /\ g \in [name : Name, first : 0 .. LastFrame,
                                                    last : 0 .. LastFrame]
                                         /\ g.first <= g.last
ASSUME BoundsAssumption == /\ BufferSize \in Nat \ {0}
                           /\ MaxActive \in Nat \ {0}
                           /\ MaxLosses \in Nat
                           /\ MaxRepeats \in Nat
ASSUME TimelyAssumption == Timely \in BOOLEAN
ASSUME NobodyAssumption == Nobody \notin Call

VARIABLES
  phase,        \* where each call is
  goal,         \* the name and the frames it asks for
  pending,      \* `pending_queue`: frames still to be asked for
  window,       \* `congestion_window`: frames asked for last
  size,         \* `congestion_window_size`
  worker,       \* the worker of the call's last window
  result,       \* the responses whose data the call returned
  disturbed,    \* history: calls whose name was registered again meanwhile
  registered,   \* keys of `incomplete_responses`
  incomplete,   \* `incomplete_responses`: the responses in each entry
  responses,    \* the response channel
  holder,       \* the call whose worker holds the mutex of the channel
  wire,         \* how many requests and responses are under way, per frame
  losses,       \* packets lost so far
  repeats       \* packets repeated so far

callVars == <<phase, goal, pending, window, size, worker, result, disturbed>>
mapVars == <<registered, incomplete>>
netVars == <<wire, losses, repeats>>
vars == <<callVars, mapVars, responses, holder, netVars>>

Frame == 0 .. LastFrame
Response == [name : Name, frame : Frame]
Phase == {"idle", "ready", "waiting", "returned", "failed"}
Goal == [name : Name, first : Frame, last : Frame]

\* missing: how many more responses it counts; returned: those it counted;
\* strays: responses for other names (`unassociated`).
Worker == [missing : Nat, returned : SUBSET Response, strays : SUBSET Response]

NoWorker == [missing |-> 0, returned |-> {}, strays |-> {}]

Wanted(c) == goal[c].first .. goal[c].last

Active == {c \in Call : phase[c] \in {"ready", "waiting"}}

Init ==
  /\ phase = [c \in Call |-> "idle"]
  /\ goal \in [Call -> Goals]
  /\ pending = [c \in Call |-> {}]
  /\ window = [c \in Call |-> {}]
  /\ size = [c \in Call |-> 1]
  /\ worker = [c \in Call |-> NoWorker]
  /\ result = [c \in Call |-> << >>]
  /\ disturbed = {}
  /\ registered = {}
  /\ incomplete = [n \in Name |-> {}]
  /\ responses = << >>
  /\ holder = Nobody
  /\ wire = [p \in Response |-> 0]
  /\ losses = 0
  /\ repeats = 0
-----------------------------------------------------------------------------
\* The call begins: `register_hbfi` empties the entry of the name, whoever is
\* filling it, and every frame is put in the queue.
Request(c) ==
  LET n == goal[c].name
  IN  /\ phase[c] = "idle"
      /\ Cardinality(Active) < MaxActive
      /\ phase' = [phase EXCEPT ![c] = "ready"]
      /\ pending' = [pending EXCEPT ![c] = Wanted(c)]
      /\ registered' = registered \cup {n}
      /\ incomplete' = [incomplete EXCEPT ![n] = {}]
      /\ disturbed' = disturbed \cup {d \in Active : goal[d].name = n}
      /\ UNCHANGED <<goal, window, size, worker, result, responses, holder, netVars>>

\* The k first frames of a queue: `pop_first` k times.
FirstFrames(queue, k) == {f \in queue : Cardinality({g \in queue : g < f}) < k}

\* Mutant of NextWindow: the worker waits for a full window, even if it was cut.
NextWindowFull(c) ==
  LET next == FirstFrames(pending[c], size[c])
  IN  /\ phase[c] = "ready"
      /\ pending[c] # {}
      /\ phase' = [phase EXCEPT ![c] = "waiting"]
      /\ pending' = [pending EXCEPT ![c] = @ \ next]
      /\ window' = [window EXCEPT ![c] = next]
      /\ worker' = [worker EXCEPT ![c] = [NoWorker EXCEPT !.missing = size[c]]]
      /\ UNCHANGED <<goal, size, result, disturbed, mapVars, responses, holder>>

\* The next window is made, and a worker is to wait for as many responses.
NextWindow(c) ==
  LET next == FirstFrames(pending[c], size[c])
  IN  /\ phase[c] = "ready"
      /\ pending[c] # {}
      /\ phase' = [phase EXCEPT ![c] = "waiting"]
      /\ pending' = [pending EXCEPT ![c] = @ \ next]
      /\ window' = [window EXCEPT ![c] = next]
      /\ worker' = [worker EXCEPT ![c] = [NoWorker EXCEPT !.missing = Cardinality(next)]]
      /\ UNCHANGED <<goal, size, result, disturbed, mapVars, responses, holder>>

\* Mutant of SendWindow: all that is pending is sent.
SendWindowAll(c) ==
  /\ NextWindow(c)
  /\ wire' = [p \in Response |->
                IF p.name = goal[c].name /\ p.frame \in pending[c]
                THEN wire[p] + 1
                ELSE wire[p]]
  /\ UNCHANGED <<losses, repeats>>

\* Each frame of the next window is asked for.
SendWindow(c) ==
  /\ NextWindow(c)
  /\ wire' = [p \in Response |->
                IF p.name = goal[c].name /\ p.frame \in FirstFrames(pending[c], size[c])
                THEN wire[p] + 1
                ELSE wire[p]]
  /\ UNCHANGED <<losses, repeats>>

\* A worker that has not seen all its responses gets hold of the channel.
LockChannel(c) ==
  /\ worker[c].missing > 0
  /\ holder = Nobody
  /\ holder' = c
  /\ UNCHANGED <<callVars, mapVars, responses, netVars>>

\* Packets are ordered by their frame number alone (`NarrowWaistPacketReqEqRes`),
\* so of two with one frame number a set only keeps the first.
Kept(packets, p) ==
  IF \E q \in packets : q.frame = p.frame THEN packets ELSE packets \cup {p}

\* Mutant of Counts: the name of a response is not compared.
CountsAny(c, p) == p \in Response

\* Response p is one the worker of c counts.
Counts(c, p) == p.name = goal[c].name

\* What the worker of c knows once it has taken p.
Seen(c, p) ==
  IF Counts(c, p)
  THEN [worker[c] EXCEPT !.missing = @ - 1, !.returned = Kept(@, p)]
  ELSE [worker[c] EXCEPT !.strays = Kept(@, p)]

\* The worker takes a response and lets go of the channel.
TakeResponse(c) ==
  /\ holder = c
  /\ responses # << >>
  /\ responses' = Tail(responses)
  /\ holder' = Nobody
  /\ worker' = [worker EXCEPT ![c] = Seen(c, Head(responses))]
  /\ UNCHANGED <<phase, goal, pending, window, size, result, disturbed,
                 mapVars, netVars>>

\* Mutant of Failed: having counted enough responses is taken for success.
FailedNever(c) == window[c] \cap {}

\* Mutant of Failed: a request is never equal to its response.
FailedAlways(c) == window[c]

\* Frames of the window to which no response was counted.
Failed(c) == {f \in window[c] : \A p \in worker[c].returned : p.frame # f}

\* An entry of the map after an insertion of packets under their frame numbers.
Merged(entry, packets) ==
  {q \in entry : \A p \in packets : p.frame # q.frame} \cup packets

\* What the worker of c has for the entry of n.
Received(c, n) ==
  IF n = goal[c].name
  THEN worker[c].returned
  ELSE {p \in worker[c].strays : p.name = n}

\* The next window is wider by one, or back to one frame.
NextSize(c) == IF Failed(c) = {} THEN size[c] + 1 ELSE 1

(***************************************************************************)
(* The worker has reported in time: its responses are put in the map, for  *)
(* names that have an entry, and failed frames are queued again            *)
(* (`process_aimd`).                                                       *)
(***************************************************************************)
CollectWindow(c) ==
  /\ phase[c] = "waiting"
  /\ worker[c].missing = 0
  /\ phase' = [phase EXCEPT ![c] = "ready"]
  /\ incomplete' = [n \in Name |->
                      IF n \in registered
                      THEN Merged(incomplete[n], Received(c, n))
                      ELSE incomplete[n]]
  /\ size' = [size EXCEPT ![c] = NextSize(c)]
  /\ pending' = [pending EXCEPT ![c] = @ \cup Failed(c)]
  /\ window' = [window EXCEPT ![c] = {}]
  /\ worker' = [worker EXCEPT ![c] = NoWorker]
  /\ UNCHANGED <<goal, result, disturbed, registered, responses, holder, netVars>>

\* `recv_timeout` gives up, and the call with it, even if the worker is about
\* to report; a worker that is not stays.
TimeOut(c) ==
  /\ ~Timely
  /\ phase[c] = "waiting"
  /\ phase' = [phase EXCEPT ![c] = "failed"]
  /\ UNCHANGED <<goal, pending, window, size, worker, result, disturbed, mapVars,
                 responses, holder, netVars>>

InOrder(packets) == SetToSortSeq(packets, LAMBDA p, q : p.frame < q.frame)

\* `reconstruct_responses`: the responses in the range, in ascending order.
Reconstruct(c) ==
  LET found == {p \in incomplete[goal[c].name] : p.frame \in Wanted(c)}
  IN  /\ phase[c] = "ready"
      /\ pending[c] = {}
      /\ phase' = [phase EXCEPT ![c] = "returned"]
      /\ result' = [result EXCEPT ![c] = InOrder(found)]
      /\ UNCHANGED <<goal, pending, window, size, worker, disturbed, mapVars,
                     responses, holder, netVars>>
-----------------------------------------------------------------------------
\* The protocol's thread puts a response in the channel, which may be full.
Receive(p) ==
  /\ Len(responses) < BufferSize
  /\ responses' = Append(responses, p)
  /\ UNCHANGED <<callVars, mapVars, holder>>

Arrive(p) ==
  /\ wire[p] > 0
  /\ wire' = [wire EXCEPT ![p] = @ - 1]
  /\ Receive(p)
  /\ UNCHANGED <<losses, repeats>>

Lose(p) ==
  /\ wire[p] > 0
  /\ losses < MaxLosses
  /\ losses' = losses + 1
  /\ wire' = [wire EXCEPT ![p] = @ - 1]
  /\ UNCHANGED <<callVars, mapVars, responses, holder, repeats>>

\* A request or a response is forwarded once more.
Repeat(p) ==
  /\ wire[p] > 0
  /\ repeats < MaxRepeats
  /\ repeats' = repeats + 1
  /\ wire' = [wire EXCEPT ![p] = @ + 1]
  /\ UNCHANGED <<callVars, mapVars, responses, holder, losses>>

CallStep(c) == SendWindow(c) \/ CollectWindow(c) \/ Reconstruct(c)

WorkerStep(c) == LockChannel(c) \/ TakeResponse(c)

Next ==
  \/ \E c \in Call : Request(c) \/ CallStep(c) \/ WorkerStep(c) \/ TimeOut(c)
  \/ \E p \in Response : Arrive(p) \/ Lose(p) \/ Repeat(p)

Spec == Init /\ [][Next]_vars

(***************************************************************************)
(* Threads run, what is not lost arrives, and `recv_timeout` times out if  *)
(* the worker does not report.  The mutex is not fair: any one of several  *)
(* workers may be left without it.                                         *)
(***************************************************************************)
Fairness ==
  /\ \A c \in Call : WF_vars(CallStep(c) \/ TimeOut(c)) /\ WF_vars(WorkerStep(c))
  /\ \A p \in Response : WF_vars(Arrive(p))

FairSpec == Spec /\ Fairness
=============================================================================
