---------------------------- MODULE TxRxRequests -----------------------------
(***************************************************************************)
(* The calls of module TxRx, with a count of the requests each of them     *)
(* sends for each frame.  No step of a call reads the count.               *)
(***************************************************************************)
EXTENDS TxRxProperties

VARIABLE requests   \* history: how often each call asked for each frame, so
                    \* far as nothing had been lost or repeated yet

countedVars == <<vars, requests>>

Faultless == losses = 0 /\ repeats = 0

\* What a step of c puts on the wire of frame f, if it sends a window.
Sends(c, f) ==
  LET p == [name |-> goal[c].name, frame |-> f]
  IN  IF phase[c] = "ready" /\ phase'[c] = "waiting" THEN wire'[p] - wire[p] ELSE 0

Counted ==
  IF Faultless
  THEN [c \in Call |-> [f \in Frame |-> requests[c][f] + Sends(c, f)]]
  ELSE requests

CountedInit == Init /\ requests = [c \in Call |-> [f \in Frame |-> 0]]

CountedNext == Next /\ requests' = Counted

CountedSpec == CountedInit /\ [][CountedNext]_countedVars

CountedFairSpec == CountedSpec /\ Fairness
-----------------------------------------------------------------------------
(***************************************************************************)
(* On a network that is in time, and as long as it loses and repeats       *)
(* nothing, calls made in turn ask for no frame twice, neither in one      *)
(* window nor in two, and a call that returns has asked once for each      *)
(* frame it was asked for and for no other: what was answered is not       *)
(* queued again, and a window sends no more than it took off the queue     *)
(* (txrx.rs, the loop of the request functions, send_and_receive and       *)
(* process_aimd).                                                          *)
(***************************************************************************)
EachFrameIsAskedOnce ==
  Faultless =>
    \A c \in Call, f \in Frame :
       /\ requests[c][f] <= 1
       /\ phase[c] = "returned" => requests[c][f] = IF f \in Wanted(c) THEN 1 ELSE 0
=============================================================================
