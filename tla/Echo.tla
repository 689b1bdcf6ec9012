-------------------------------- MODULE Echo ---------------------------------
(***************************************************************************)
(* Echo protocols that are joined in pairs (copernica-protocols/src/       *)
(* echo.rs, with `next`, `respond` and the threads of a call of txrx.rs):  *)
(* who blocks whom.                                                        *)
(*                                                                         *)
(*    callers of p --+                                                     *)
(*                   +--way[p]--> dispatch thread of Peer[p] --+           *)
(*    dispatch of p -+               |                         |           *)
(*        ^                          v                         |           *)
(*        |                  response channels --> workers     |           *)
(*        +-------------------------- way[Peer[p]] <-----------+           *)
(*                                                                         *)
(* A way is the channel to the link, its outbound thread, the transport,   *)
(* the inbound thread of the other link and its channel to the protocol:   *)
(* each blocks while the next one is full, so that together they are one   *)
(* queue that blocks when as many packets are in it as they can hold.      *)
(* Module Link shows that links of channels keep the order and lose        *)
(* nothing; a way with brokers or sockets in it may lose or repeat.        *)
(*                                                                         *)
(* What a call does with its windows is in module TxRx; here a window is   *)
(* so many requests, and a worker that counts as many responses.           *)
(***************************************************************************)
EXTENDS Naturals, Sequences, FiniteSets, SequencesExt, Functions

CONSTANTS
  Protocol,      \* Echo protocols
  Peer,          \* the one at the other end of each one's way
  Caller,        \* programs that call the ping functions
  Owner,         \* the protocol each of them calls
  Function,      \* the kind each of them asks for
  To,            \* the identity each of them asks
  Plans,         \* for each caller, the sizes of the windows it will send
  Capacity,      \* packets a way holds: 3 * BOUNDED_BUFFER_SIZE + 2
  BufferSize,    \* BOUNDED_BUFFER_SIZE of the response channels
  MaxLosses,     \* bound: packets lost
  MaxRepeats,    \* bound: packets repeated
  Nothing        \* the dispatch thread has nothing in hand

\* The five kinds of ping, one request function and one response channel each.
Kind == {"unreliable_unordered", "unreliable_sequenced",
         "reliable_unordered", "reliable_ordered", "reliable_sequenced"}

ASSUME PeerAssumption ==
  /\ Peer \in [Protocol -> Protocol]
  /\ \A p \in Protocol : Peer[p] # p /\ Peer[Peer[p]] = p
ASSUME CallerAssumption ==
  /\ Owner \in [Caller -> Protocol]
  /\ Function \in [Caller -> Kind]
  /\ Plans \subseteq [Caller -> Seq(Nat \ {0})]
ASSUME CallerIsFinite == IsFiniteSet(Caller)
ASSUME CapacityAssumption ==
  /\ Capacity \in Nat \ {0}
  /\ BufferSize \in Nat \ {0}
  /\ MaxLosses \in Nat
  /\ MaxRepeats \in Nat
ASSUME NothingAssumption == Nothing \notin [to : {"link", "channel"}, caller : Caller]

VARIABLES
  plan,         \* the windows each caller has still to begin
  size,         \* the window it is sending
  left,         \* requests of that window it has still to send
  due,          \* responses its workers have still to count
  way,          \* packets on their way from each protocol to its peer
  hand,         \* the response a dispatch thread has, and where it sends it
  responses,    \* response channels: callers whose requests were answered
  faults        \* losses and repeats so far

callVars == <<plan, size, left, due>>
vars == <<callVars, way, hand, responses, faults>>

Packet == [type : {"Request", "Response"}, caller : Caller]

Init ==
  /\ plan \in Plans
  /\ size = [c \in Caller |-> 0]
  /\ left = [c \in Caller |-> 0]
  /\ due = [c \in Caller |-> 0]
  /\ way = [p \in Protocol |-> << >>]
  /\ hand = [p \in Protocol |-> Nothing]
  /\ responses = [p \in Protocol |-> [k \in Kind |-> << >>]]
  /\ faults = [losses |-> 0, repeats |-> 0]
-----------------------------------------------------------------------------
(* Callers and their workers. *)

\* A window is begun: the next one of a call or, after a timeout, the first one
\* of another call.  The workers of a call that timed out go on counting.
BeginWindow(c) ==
  /\ left[c] = 0
  /\ plan[c] # << >>
  /\ size' = [size EXCEPT ![c] = Head(plan[c])]
  /\ left' = [left EXCEPT ![c] = Head(plan[c])]
  /\ plan' = [plan EXCEPT ![c] = Tail(@)]
  /\ UNCHANGED <<due, way, hand, responses, faults>>

Sent(p, packet) ==
  /\ Len(way[p]) < Capacity
  /\ way' = [way EXCEPT ![p] = Append(@, packet)]

\* Mutant of SendRequest: the worker is told of one response too few.
SendRequestShort(c) ==
  /\ left[c] > 0
  /\ Sent(Owner[c], [type |-> "Request", caller |-> c])
  /\ left' = [left EXCEPT ![c] = @ - 1]
  /\ due' = IF left[c] = 1 THEN [due EXCEPT ![c] = @ + size[c] - 1] ELSE due
  /\ UNCHANGED <<plan, size, hand, responses, faults>>

\* A request of the window is sent, which may block; only when the last one is
\* gone does a worker start to count.
SendRequest(c) ==
  /\ left[c] > 0
  /\ Sent(Owner[c], [type |-> "Request", caller |-> c])
  /\ left' = [left EXCEPT ![c] = @ - 1]
  /\ due' = IF left[c] = 1 THEN [due EXCEPT ![c] = @ + size[c]] ELSE due
  /\ UNCHANGED <<plan, size, hand, responses, faults>>

\* Mutant of Receivers: a copied request function still takes from the channel of
\* the one it was copied from.
ReceiversCopied ==
  [unreliable_unordered |-> "unreliable_unordered",
   unreliable_sequenced |-> "unreliable_sequenced",
   reliable_unordered   |-> "unreliable_unordered",
   reliable_ordered     |-> "reliable_ordered",
   reliable_sequenced   |-> "reliable_sequenced"]

\* The response channel each of the request functions hands to its workers.
Receivers ==
  [unreliable_unordered |-> "unreliable_unordered",
   unreliable_sequenced |-> "unreliable_sequenced",
   reliable_unordered   |-> "reliable_unordered",
   reliable_ordered     |-> "reliable_ordered",
   reliable_sequenced   |-> "reliable_sequenced"]

\* The channel a caller's workers take from.
Channel(c) == responses[Owner[c]][Receivers[Function[c]]]

\* A worker takes a response, and counts it if it is to its own caller.
TakeResponse(c) ==
  /\ due[c] > 0
  /\ Channel(c) # << >>
  /\ due' = IF Head(Channel(c)) = c THEN [due EXCEPT ![c] = @ - 1] ELSE due
  /\ responses' = [responses EXCEPT ![Owner[c]][Receivers[Function[c]]] = Tail(@)]
  /\ UNCHANGED <<plan, size, left, way, hand, faults>>
-----------------------------------------------------------------------------
(* The dispatch thread. *)

\* What it does with a packet: a request it is asked for is responded to, a
\* response is for a channel, and any other request is ignored.
InHand(p, packet) ==
  CASE packet.type = "Response" -> [to |-> "channel", caller |-> packet.caller]
    [] packet.type = "Request" /\ To[packet.caller] = p ->
         [to |-> "link", caller |-> packet.caller]
    [] OTHER -> Nothing

\* It takes the next packet, once it has sent what the last one came to.
Dispatch(p) ==
  LET from == Peer[p]
  IN  /\ hand[p] = Nothing
      /\ way[from] # << >>
      /\ hand' = [hand EXCEPT ![p] = InHand(p, Head(way[from]))]
      /\ way' = [way EXCEPT ![from] = Tail(@)]
      /\ UNCHANGED <<callVars, responses, faults>>

\* Mutant of Respond: one place of the channel is never used.
RespondShort(p) ==
  /\ hand[p] # Nothing
  /\ hand[p].to = "link"
  /\ Len(way[p]) < Capacity - 1
  /\ Sent(p, [type |-> "Response", caller |-> hand[p].caller])
  /\ hand' = [hand EXCEPT ![p] = Nothing]
  /\ UNCHANGED <<callVars, responses, faults>>

\* `respond`: the response goes the way of the protocol's own requests.
Respond(p) ==
  /\ hand[p] # Nothing
  /\ hand[p].to = "link"
  /\ Sent(p, [type |-> "Response", caller |-> hand[p].caller])
  /\ hand' = [hand EXCEPT ![p] = Nothing]
  /\ UNCHANGED <<callVars, responses, faults>>

\* The argument in the names each ping function asks for.
Args ==
  [unreliable_unordered |-> "unreliable_unordered_echo",
   unreliable_sequenced |-> "unreliable_sequenced_echo",
   reliable_unordered   |-> "reliable_unordered_echo",
   reliable_ordered     |-> "reliable_ordered_echo",
   reliable_sequenced   |-> "reliable_sequenced_echo"]

\* Mutant of Arms: the last arm sends where the one before it does.
ArmsCopied ==
  [unreliable_unordered_echo |-> "unreliable_unordered",
   unreliable_sequenced_echo |-> "unreliable_sequenced",
   reliable_unordered_echo   |-> "reliable_unordered",
   reliable_ordered_echo     |-> "reliable_ordered",
   reliable_sequenced_echo   |-> "reliable_ordered"]

\* The arms of the match: the channel a response with each argument is sent to.
Arms ==
  [unreliable_unordered_echo |-> "unreliable_unordered",
   unreliable_sequenced_echo |-> "unreliable_sequenced",
   reliable_unordered_echo   |-> "reliable_unordered",
   reliable_ordered_echo     |-> "reliable_ordered",
   reliable_sequenced_echo   |-> "reliable_sequenced"]

ChannelFor(c) == Arms[Args[Function[c]]]

\* Mutant of HandOver: the channel is not bounded.
HandOverUnbounded(p) ==
  LET k == ChannelFor(hand[p].caller)
  IN  /\ hand[p] # Nothing
      /\ hand[p].to = "channel"
      /\ responses' = [responses EXCEPT ![p][k] = Append(@, hand[p].caller)]
      /\ hand' = [hand EXCEPT ![p] = Nothing]
      /\ UNCHANGED <<callVars, way, faults>>

\* The send blocks while that channel is full, whatever the other ones hold.
HandOver(p) ==
  LET k == ChannelFor(hand[p].caller)
  IN  /\ hand[p] # Nothing
      /\ hand[p].to = "channel"
      /\ Len(responses[p][k]) < BufferSize
      /\ responses' = [responses EXCEPT ![p][k] = Append(@, hand[p].caller)]
      /\ hand' = [hand EXCEPT ![p] = Nothing]
      /\ UNCHANGED <<callVars, way, faults>>
-----------------------------------------------------------------------------
(* What brokers and sockets on the way may do to packet i. *)

Lose(p, i) ==
  /\ faults.losses < MaxLosses
  /\ faults' = [faults EXCEPT !.losses = @ + 1]
  /\ way' = [way EXCEPT ![p] = RemoveAt(@, i)]
  /\ UNCHANGED <<callVars, hand, responses>>

Repeat(p, i) ==
  /\ faults.repeats < MaxRepeats
  /\ faults' = [faults EXCEPT !.repeats = @ + 1]
  /\ Sent(p, way[p][i])
  /\ UNCHANGED <<callVars, hand, responses>>

CallerStep(c) == BeginWindow(c) \/ SendRequest(c)

DispatchStep(p) == Dispatch(p) \/ Respond(p) \/ HandOver(p)

Next ==
  \/ \E c \in Caller : CallerStep(c) \/ TakeResponse(c)
  \/ \E p \in Protocol : DispatchStep(p)
  \/ \E p \in Protocol : \E i \in DOMAIN way[p] : Lose(p, i) \/ Repeat(p, i)

Spec == Init /\ [][Next]_vars

(***************************************************************************)
(* Threads run.  A caller whose window is out begins the next one, be it   *)
(* because the last one was counted or because it timed out.               *)
(***************************************************************************)
Fairness ==
  /\ \A c \in Caller : WF_vars(CallerStep(c)) /\ WF_vars(TakeResponse(c))
  /\ \A p \in Protocol : WF_vars(DispatchStep(p))

FairSpec == Spec /\ Fairness
=============================================================================
