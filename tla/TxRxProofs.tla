----------------------------- MODULE TxRxProofs ------------------------------
(***************************************************************************)
(* Theorems about the calls of TxRx, for any calls, names, frames and      *)
(* bounds.                                                                 *)
(***************************************************************************)
EXTENDS TxRxRequests, FoldProofs

\* A window is a finite part of the queue.
LEMMA WindowIsFinite ==
  ASSUME NEW queue \in SUBSET Frame, NEW k
  PROVE  /\ FirstFrames(queue, k) \in SUBSET queue
         /\ Cardinality(FirstFrames(queue, k)) \in Nat
  <1>1. FirstFrames(queue, k) \in SUBSET queue
    BY DEF FirstFrames
  <1>2. IsFiniteSet(Frame)
    BY LastFrameAssumption, FS_Interval DEF Frame
  <1>3. IsFiniteSet(FirstFrames(queue, k))
    BY <1>1, <1>2, FS_Subset
  <1> QED
    BY <1>1, <1>3, FS_CardinalityType

\* A set of packets with one more has only that one more.
LEMMA KeptProperties ==
  ASSUME NEW packets \in SUBSET Response, NEW p \in Response
  PROVE  /\ Kept(packets, p) \in SUBSET Response
         /\ \A q \in Kept(packets, p) : q \in packets \/ q = p
  BY DEF Kept

\* A merged entry has packets of the entry and of what was merged, and nothing
\* of the entry is lost to a packet that does not have its frame.
LEMMA MergedProperties ==
  ASSUME NEW entry \in SUBSET Response, NEW packets \in SUBSET Response
  PROVE  /\ Merged(entry, packets) \in SUBSET Response
         /\ packets \subseteq Merged(entry, packets)
         /\ \A q \in Merged(entry, packets) : q \in entry \/ q \in packets
         /\ \A q \in entry :
              q \in Merged(entry, packets) \/ \E p \in packets : p.frame = q.frame
  BY DEF Merged

\* Packets of one name and one frame number are one packet.
LEMMA SamePacket ==
  ASSUME NEW p \in Response, NEW q \in Response, p.name = q.name, p.frame = q.frame
  PROVE  p = q
  BY DEF Response

\* The responses a call asks for are responses.
LEMMA AnswerProperties ==
  ASSUME NEW c \in Call, goal[c] \in Goal
  PROVE  /\ goal[c].name \in Name
         /\ Wanted(c) \subseteq Frame
         /\ Answer(c) \subseteq Response
         /\ \A p \in Answer(c) : p.name = goal[c].name /\ p.frame \in Wanted(c)
         /\ \A p \in Response :
              p.name = goal[c].name /\ p.frame \in Wanted(c) => p \in Answer(c)
  <1>1. /\ goal[c].name \in Name
        /\ goal[c].first \in 0 .. LastFrame /\ goal[c].last \in 0 .. LastFrame
    BY DEF Goal, Frame
  <1>2. Wanted(c) \subseteq Frame
    BY <1>1, LastFrameAssumption DEF Wanted, Frame
  <1> QED
    BY <1>1, <1>2 DEF Answer, Response
-----------------------------------------------------------------------------
\* The initial state satisfies the invariant.
LEMMA InitIndInv == Init => IndInv
  <1> SUFFICES ASSUME Init PROVE IndInv
    OBVIOUS
  <1>1. NoWorker \in Worker
    BY DEF NoWorker, Worker
  <1>2. << >> \in Seq(Response)
    BY EmptySeq
  <1>3. TypeOK
    <2>1. goal \in [Call -> Goal]
      BY GoalsAssumption DEF Init, Goal, Frame
    <2> QED
      BY <1>1, <1>2, <2>1 DEF Init, TypeOK, Phase
  <1>4. Sorted /\ Tidy
    BY NobodyAssumption DEF Init, Sorted, Tidy, NoWorker, Active
  <1>5. Accounted /\ ReturnsAreComplete
    BY DEF Init, Accounted, ReturnsAreComplete, Active
  <1> QED
    BY <1>3, <1>4, <1>5 DEF IndInv

\* A call that begins has everything in its queue; calls whose entry it empties
\* are disturbed from here on.
LEMMA RequestKeeps == ASSUME IndInv, NEW c \in Call, Request(c) PROVE IndInv'
  <1>1. TypeOK /\ Sorted /\ Tidy /\ Accounted /\ ReturnsAreComplete
    BY DEF IndInv
  <1>2. goal[c] \in Goal /\ goal' = goal
    BY <1>1 DEF TypeOK, Request, callVars
  <1>3. goal[c].name \in Name /\ Wanted(c) \subseteq Frame
    BY <1>2, AnswerProperties
  <1>4. /\ phase' = [phase EXCEPT ![c] = "ready"]
        /\ pending' = [pending EXCEPT ![c] = Wanted(c)]
        /\ registered' = registered \cup {goal[c].name}
        /\ incomplete' = [incomplete EXCEPT ![goal[c].name] = {}]
        /\ disturbed' = disturbed \cup {d \in Active : goal[d].name = goal[c].name}
        /\ phase[c] = "idle"
        /\ UNCHANGED <<window, size, worker, result, responses, holder>>
        /\ UNCHANGED <<wire, losses, repeats>>
    BY DEF Request, netVars
  <1>5. TypeOK'
    BY <1>1, <1>2, <1>3, <1>4 DEF TypeOK, Phase, Active
  <1>6. Sorted' /\ Tidy'
    BY <1>1, <1>2, <1>3, <1>4 DEF TypeOK, Sorted, Tidy, Active
  <1>7. Accounted'
    <2>1. ASSUME NEW d \in Active', d \notin disturbed', NEW p \in Answer(d)'
          PROVE  \/ p.frame \in (pending[d] \cup window[d])'
                 \/ p \in incomplete'[goal'[d].name]
      <3>1. d \in Call /\ goal'[d] \in Goal /\ p \in Answer(d)
        BY <1>1, <1>2, <2>1 DEF Active, TypeOK, Answer, Wanted
      <3>2. CASE d = c
        <4>1. p.frame \in Wanted(c)
          BY <1>2, <3>1, <3>2, AnswerProperties
        <4> QED
          BY <1>1, <1>4, <3>2, <4>1 DEF TypeOK
      <3>3. CASE d # c
        <4>1. d \in Active /\ d \notin disturbed /\ goal[d].name # goal[c].name
          BY <1>1, <1>4, <2>1, <3>1, <3>3 DEF Active, TypeOK
        <4>2. p.frame \in pending[d] \cup window[d] \/ p \in incomplete[goal[d].name]
          BY <1>1, <3>1, <4>1 DEF Accounted
        <4> QED
          BY <1>1, <1>2, <1>4, <3>3, <4>1, <4>2 DEF TypeOK
      <3> QED
        BY <3>2, <3>3
    <2> QED
      BY <2>1 DEF Accounted
  <1>8. ReturnsAreComplete'
    BY <1>1, <1>2, <1>4 DEF TypeOK, ReturnsAreComplete, Answer, Wanted
  <1> QED
    BY <1>5, <1>6, <1>7, <1>8 DEF IndInv

\* The frames of a window leave the queue and are under way.
LEMMA SendWindowKeeps == ASSUME IndInv, NEW c \in Call, SendWindow(c) PROVE IndInv'
  <1> DEFINE next == FirstFrames(pending[c], size[c])
             new  == [NoWorker EXCEPT !.missing = Cardinality(next)]
  <1>1. TypeOK /\ Sorted /\ Tidy /\ Accounted /\ ReturnsAreComplete
    BY DEF IndInv
  <1>2. next \in SUBSET pending[c] /\ Cardinality(next) \in Nat /\ pending[c] \in SUBSET Frame
    BY <1>1, WindowIsFinite DEF TypeOK
  <1>3. new \in Worker /\ new.returned = {}
    BY <1>2 DEF NoWorker, Worker
  <1>4. /\ phase' = [phase EXCEPT ![c] = "waiting"]
        /\ pending' = [pending EXCEPT ![c] = @ \ next]
        /\ window' = [window EXCEPT ![c] = next]
        /\ worker' = [worker EXCEPT ![c] = new]
        /\ phase[c] = "ready"
        /\ UNCHANGED <<goal, size, result, disturbed, responses, holder>>
        /\ UNCHANGED <<registered, incomplete, losses, repeats>>
    BY DEF SendWindow, NextWindow, mapVars
  <1>5. wire' \in [Response -> Nat]
    BY <1>1 DEF SendWindow, NextWindow, TypeOK
  <1> HIDE DEF next, new
  <1>6. TypeOK'
    BY <1>1, <1>2, <1>3, <1>4, <1>5 DEF TypeOK, Phase
  <1>7. Sorted' /\ Tidy'
    BY <1>1, <1>3, <1>4 DEF TypeOK, Sorted, Tidy, Active
  <1>8. Accounted'
    <2>1. ASSUME NEW d \in Active', d \notin disturbed', NEW p \in Answer(d)'
          PROVE  \/ p.frame \in (pending[d] \cup window[d])'
                 \/ p \in incomplete'[goal'[d].name]
      <3>1. d \in Active /\ d \notin disturbed /\ p \in Answer(d)
        BY <1>1, <1>4, <2>1 DEF Active, TypeOK, Answer, Wanted
      <3>2. p.frame \in pending[d] \cup window[d] \/ p \in incomplete[goal[d].name]
        BY <1>1, <3>1 DEF Accounted
      <3>3. CASE d = c
        <4>1. window[c] = {}
          BY <1>1, <1>4 DEF Tidy
        <4>2. pending'[c] = pending[c] \ next /\ window'[c] = next
          BY <1>1, <1>4 DEF TypeOK
        <4> QED
          BY <1>4, <3>2, <3>3, <4>1, <4>2
      <3>4. CASE d # c
        <4>1. pending'[d] = pending[d] /\ window'[d] = window[d]
          BY <1>1, <1>4, <3>1, <3>4 DEF TypeOK, Active
        <4> QED
          BY <1>4, <3>2, <4>1
      <3> QED
        BY <3>3, <3>4
    <2> QED
      BY <2>1 DEF Accounted
  <1>9. ReturnsAreComplete'
    BY <1>1, <1>4 DEF TypeOK, ReturnsAreComplete, Answer, Wanted
  <1> QED
    BY <1>6, <1>7, <1>8, <1>9 DEF IndInv

\* A worker that gets hold of the channel still counts responses.
LEMMA LockChannelKeeps == ASSUME IndInv, NEW c \in Call, LockChannel(c) PROVE IndInv'
  <1>1. TypeOK /\ Sorted /\ Tidy /\ Accounted /\ ReturnsAreComplete
    BY DEF IndInv
  <1>2. /\ worker[c].missing > 0
        /\ holder' = c
        /\ UNCHANGED <<phase, goal, pending, window, size, worker, result, disturbed>>
        /\ UNCHANGED <<registered, incomplete, responses, wire, losses, repeats>>
    BY DEF LockChannel, callVars, mapVars, netVars
  <1>3. TypeOK'
    BY <1>1, <1>2 DEF TypeOK
  <1>4. Sorted' /\ Tidy'
    BY <1>1, <1>2 DEF Sorted, Tidy, Active
  <1>5. Accounted' /\ ReturnsAreComplete'
    BY <1>1, <1>2 DEF Accounted, ReturnsAreComplete, Active, Answer, Wanted
  <1> QED
    BY <1>3, <1>4, <1>5 DEF IndInv

\* The network and the protocol's thread touch neither calls nor map.
LEMMA NetworkKeeps ==
  ASSUME IndInv, NEW p \in Response, Arrive(p) \/ Lose(p) \/ Repeat(p)
  PROVE  IndInv'
  <1>1. TypeOK /\ Sorted /\ Tidy /\ Accounted /\ ReturnsAreComplete
    BY DEF IndInv
  <1>2. /\ UNCHANGED <<phase, goal, pending, window, size, worker, result, disturbed>>
        /\ UNCHANGED <<registered, incomplete, holder>>
    BY DEF Arrive, Receive, Lose, Repeat, callVars, mapVars
  <1>3. /\ wire' \in [Response -> Nat]
        /\ responses' \in Seq(Response)
        /\ losses' \in Nat /\ repeats' \in Nat
    <2>1. CASE Arrive(p)
      BY <1>1, <2>1, AppendProperties DEF Arrive, Receive, TypeOK
    <2>2. CASE Lose(p)
      BY <1>1, <2>2 DEF Lose, TypeOK
    <2>3. CASE Repeat(p)
      BY <1>1, <2>3 DEF Repeat, TypeOK
    <2> QED
      BY <2>1, <2>2, <2>3
  <1>4. TypeOK'
    BY <1>1, <1>2, <1>3 DEF TypeOK
  <1>5. Sorted' /\ Tidy'
    BY <1>1, <1>2 DEF Sorted, Tidy, Active
  <1>6. Accounted' /\ ReturnsAreComplete'
    BY <1>1, <1>2 DEF Accounted, ReturnsAreComplete, Active, Answer, Wanted
  <1> QED
    BY <1>4, <1>5, <1>6 DEF IndInv

\* A step that changes nothing.
LEMMA StutterKeeps == ASSUME IndInv, UNCHANGED vars PROVE IndInv'
  <1>1. TypeOK /\ Sorted /\ Tidy /\ Accounted /\ ReturnsAreComplete
    BY DEF IndInv
  <1>2. /\ UNCHANGED <<phase, goal, pending, window, size, worker, result, disturbed>>
        /\ UNCHANGED <<registered, incomplete, responses, holder, wire, losses, repeats>>
    BY DEF vars, callVars, mapVars, netVars
  <1>3. TypeOK' /\ Sorted' /\ Tidy'
    BY <1>1, <1>2 DEF TypeOK, Sorted, Tidy, Active
  <1>4. Accounted' /\ ReturnsAreComplete'
    BY <1>1, <1>2 DEF Accounted, ReturnsAreComplete, Active, Answer, Wanted
  <1> QED
    BY <1>3, <1>4 DEF IndInv

\* A call that fails is no longer in progress; its worker stays.
LEMMA TimeOutKeeps == ASSUME IndInv, NEW c \in Call, TimeOut(c) PROVE IndInv'
  <1>1. TypeOK /\ Sorted /\ Tidy /\ Accounted /\ ReturnsAreComplete
    BY DEF IndInv
  <1>2. /\ phase' = [phase EXCEPT ![c] = "failed"]
        /\ UNCHANGED <<goal, pending, window, size, worker, result, disturbed>>
        /\ UNCHANGED <<registered, incomplete, responses, holder, wire, losses, repeats>>
    BY DEF TimeOut, mapVars, netVars
  <1>3. TypeOK'
    BY <1>1, <1>2 DEF TypeOK, Phase
  <1>4. Active' \subseteq Active
    BY <1>1, <1>2 DEF Active, TypeOK
  <1>5. Sorted' /\ Tidy'
    BY <1>1, <1>2, <1>4 DEF TypeOK, Sorted, Tidy
  <1>6. Accounted'
    BY <1>1, <1>2, <1>4 DEF Accounted, Answer, Wanted
  <1>7. ReturnsAreComplete'
    BY <1>1, <1>2 DEF TypeOK, ReturnsAreComplete, Answer, Wanted
  <1> QED
    BY <1>3, <1>5, <1>6, <1>7 DEF IndInv

\* What a worker knows stays well formed, and it counts under its own name only.
LEMMA SeenProperties ==
  ASSUME NEW c \in Call, NEW p \in Response, worker[c] \in Worker,
         worker[c].missing > 0,
         \A q \in worker[c].returned : q.name = goal[c].name
  PROVE  /\ Seen(c, p) \in Worker
         /\ \A q \in Seen(c, p).returned : q.name = goal[c].name
  <1>1. /\ Kept(worker[c].returned, p) \in SUBSET Response
        /\ Kept(worker[c].strays, p) \in SUBSET Response
        /\ \A q \in Kept(worker[c].returned, p) : q \in worker[c].returned \/ q = p
    BY KeptProperties DEF Worker
  <1>2. worker[c].missing - 1 \in Nat
    BY DEF Worker
  <1>3. CASE Counts(c, p)
    <2>1. Seen(c, p) = [worker[c] EXCEPT !.missing = @ - 1, !.returned = Kept(@, p)]
      BY <1>3 DEF Seen
    <2>2. p.name = goal[c].name
      BY <1>3 DEF Counts
    <2> QED
      BY <1>1, <1>2, <2>1, <2>2 DEF Worker
  <1>4. CASE ~Counts(c, p)
    <2>1. Seen(c, p) = [worker[c] EXCEPT !.strays = Kept(@, p)]
      BY <1>4 DEF Seen
    <2> QED
      BY <1>1, <2>1 DEF Worker
  <1> QED
    BY <1>3, <1>4

\* A worker counts a response under its own name, and misses one less.
LEMMA TakeResponseKeeps == ASSUME IndInv, NEW c \in Call, TakeResponse(c) PROVE IndInv'
  <1> DEFINE new == Seen(c, Head(responses))
  <1>1. TypeOK /\ Sorted /\ Tidy /\ Accounted /\ ReturnsAreComplete
    BY DEF IndInv
  <1>2. /\ holder = c
        /\ responses # << >>
        /\ responses' = Tail(responses)
        /\ holder' = Nobody
        /\ worker' = [worker EXCEPT ![c] = new]
        /\ UNCHANGED <<phase, goal, pending, window, size, result, disturbed>>
        /\ UNCHANGED <<registered, incomplete, wire, losses, repeats>>
    BY DEF TakeResponse, mapVars, netVars
  <1>3. Head(responses) \in Response /\ responses' \in Seq(Response)
    BY <1>1, <1>2, HeadTailProperties DEF TypeOK
  <1>4. worker[c] \in Worker /\ worker[c].missing > 0
    BY <1>1, <1>2 DEF TypeOK, Tidy
  <1>5. \A q \in worker[c].returned : q.name = goal[c].name
    BY <1>1 DEF Sorted
  <1>6. new \in Worker /\ \A q \in new.returned : q.name = goal[c].name
    BY <1>3, <1>4, <1>5, SeenProperties
  <1> HIDE DEF new
  <1>7. TypeOK'
    BY <1>1, <1>2, <1>3, <1>6 DEF TypeOK
  <1>8. Sorted'
    BY <1>1, <1>2, <1>6 DEF TypeOK, Sorted
  <1>9. Tidy'
    BY <1>1, <1>2, <1>4, NobodyAssumption DEF TypeOK, Tidy, Active
  <1>10. Accounted' /\ ReturnsAreComplete'
    BY <1>1, <1>2 DEF Accounted, ReturnsAreComplete, Active, Answer, Wanted
  <1> QED
    BY <1>7, <1>8, <1>9, <1>10 DEF IndInv

\* The map after a window was collected: nothing is lost, what was counted is in,
\* and every entry still has its own name only.
LEMMA CollectedProperties ==
  ASSUME TypeOK, Sorted, NEW c \in Call, CollectWindow(c), NEW n \in Name
  PROVE  /\ incomplete'[n] \in SUBSET Response
         /\ incomplete[n] \subseteq incomplete'[n]
         /\ \A p \in incomplete'[n] : p.name = n
         /\ n \in registered /\ n = goal[c].name =>
              worker[c].returned \subseteq incomplete'[n]
  <1>1. incomplete[n] \in SUBSET Response /\ \A p \in incomplete[n] : p.name = n
    BY DEF TypeOK, Sorted
  <1>2. /\ Received(c, n) \in SUBSET Response
        /\ \A p \in Received(c, n) : p.name = n
        /\ n = goal[c].name => Received(c, n) = worker[c].returned
    BY DEF TypeOK, Worker, Sorted, Received
  <1>3. CASE n \notin registered
    <2>1. incomplete'[n] = incomplete[n]
      BY <1>3 DEF CollectWindow
    <2> QED
      BY <1>1, <1>3, <2>1
  <1>4. CASE n \in registered
    <2>1. incomplete'[n] = Merged(incomplete[n], Received(c, n))
      BY <1>4 DEF CollectWindow
    <2>2. /\ incomplete'[n] \in SUBSET Response
          /\ Received(c, n) \subseteq incomplete'[n]
          /\ \A q \in incomplete'[n] : q \in incomplete[n] \/ q \in Received(c, n)
          /\ \A q \in incomplete[n] :
               q \in incomplete'[n] \/ \E p \in Received(c, n) : p.frame = q.frame
      BY <1>1, <1>2, <2>1, MergedProperties
    <2>3. \A q \in incomplete[n], p \in Received(c, n) : p.frame = q.frame => p = q
      BY <1>1, <1>2, SamePacket
    <2> QED
      BY <1>1, <1>2, <2>2, <2>3
  <1> QED
    BY <1>3, <1>4

\* The frames of a collected window are in the map or back in the queue.
LEMMA CollectWindowKeeps == ASSUME IndInv, NEW c \in Call, CollectWindow(c) PROVE IndInv'
  <1>1. TypeOK /\ Sorted /\ Tidy /\ Accounted /\ ReturnsAreComplete
    BY DEF IndInv
  <1>2. /\ phase[c] = "waiting" /\ worker[c].missing = 0
        /\ phase' = [phase EXCEPT ![c] = "ready"]
        /\ size' = [size EXCEPT ![c] = NextSize(c)]
        /\ pending' = [pending EXCEPT ![c] = @ \cup Failed(c)]
        /\ window' = [window EXCEPT ![c] = {}]
        /\ worker' = [worker EXCEPT ![c] = NoWorker]
        /\ UNCHANGED <<goal, result, disturbed, registered, responses, holder>>
        /\ UNCHANGED <<wire, losses, repeats>>
    BY DEF CollectWindow, netVars
  <1>3. /\ incomplete' \in [Name -> SUBSET Response]
        /\ \A n \in Name : incomplete[n] \subseteq incomplete'[n]
        /\ \A n \in Name : \A p \in incomplete'[n] : p.name = n
    <2>1. incomplete' = [n \in Name |-> incomplete'[n]]
      BY DEF CollectWindow
    <2> QED
      BY <1>1, <2>1, CollectedProperties
  <1>4. NoWorker \in Worker /\ NoWorker.missing = 0 /\ NoWorker.returned = {}
    BY DEF NoWorker, Worker
  <1>5. Failed(c) \in SUBSET Frame /\ NextSize(c) \in Nat \ {0}
    BY <1>1 DEF TypeOK, Failed, NextSize
  <1>6. TypeOK'
    BY <1>1, <1>2, <1>3, <1>4, <1>5 DEF TypeOK, Phase
  <1>7. Active' = Active /\ c \in Active
    BY <1>1, <1>2 DEF Active, TypeOK
  <1>8. Sorted'
    BY <1>1, <1>2, <1>3, <1>4 DEF TypeOK, Sorted
  <1>9. Tidy'
    BY <1>1, <1>2, <1>4, <1>7 DEF TypeOK, Tidy
  <1>10. Accounted'
    <2>1. ASSUME NEW d \in Active, d \notin disturbed, NEW p \in Answer(d)
          PROVE  \/ p.frame \in pending'[d] \cup window'[d]
                 \/ p \in incomplete'[goal[d].name]
      <3>1. /\ d \in Call /\ goal[d] \in Goal /\ goal[d].name \in Name
            /\ p \in Response /\ p.name = goal[d].name
        BY <1>1, <2>1, AnswerProperties DEF Active, TypeOK
      <3>2. p.frame \in pending[d] \cup window[d] \/ p \in incomplete[goal[d].name]
        BY <1>1, <2>1 DEF Accounted
      <3>3. CASE p \in incomplete[goal[d].name]
        BY <1>3, <3>1, <3>3
      <3>4. CASE d # c /\ p.frame \in pending[d] \cup window[d]
        BY <1>1, <1>2, <3>1, <3>4 DEF TypeOK
      <3>5. CASE d = c /\ p.frame \in pending[c] \cup Failed(c)
        BY <1>1, <1>2, <3>5 DEF TypeOK
      <3>6. CASE d = c /\ p.frame \in window[c] \ Failed(c)
        <4>1. PICK q \in worker[c].returned : q.frame = p.frame
          BY <3>6 DEF Failed
        <4>2. q \in Response /\ q.name = p.name
          BY <1>1, <3>1, <3>6, <4>1 DEF TypeOK, Worker, Sorted
        <4>3. q = p
          BY <3>1, <4>1, <4>2, SamePacket
        <4>4. goal[c].name \in registered
          BY <1>1, <1>7 DEF Tidy
        <4> QED
          BY <1>1, <3>1, <3>6, <4>1, <4>3, <4>4, CollectedProperties
      <3> QED
        BY <3>2, <3>3, <3>4, <3>5, <3>6
    <2> QED
      BY <1>2, <1>7, <2>1 DEF Accounted, Answer, Wanted
  <1>11. ReturnsAreComplete'
    BY <1>1, <1>2 DEF TypeOK, ReturnsAreComplete, Answer, Wanted
  <1> QED
    BY <1>6, <1>8, <1>9, <1>10, <1>11 DEF IndInv

\* A call with an empty queue finds its answer, and nothing else, in the map.
LEMMA ReconstructKeeps == ASSUME IndInv, NEW c \in Call, Reconstruct(c) PROVE IndInv'
  <1> DEFINE found == {p \in incomplete[goal[c].name] : p.frame \in Wanted(c)}
  <1>1. TypeOK /\ Sorted /\ Tidy /\ Accounted /\ ReturnsAreComplete
    BY DEF IndInv
  <1>2. /\ phase[c] = "ready" /\ pending[c] = {}
        /\ phase' = [phase EXCEPT ![c] = "returned"]
        /\ result' = [result EXCEPT ![c] = InOrder(found)]
        /\ UNCHANGED <<goal, pending, window, size, worker, disturbed>>
        /\ UNCHANGED <<registered, incomplete, responses, holder, wire, losses, repeats>>
    BY DEF Reconstruct, mapVars, netVars
  <1> HIDE DEF found
  <1>3. TypeOK'
    BY <1>1, <1>2 DEF TypeOK, Phase
  <1>4. Active' \subseteq Active /\ c \in Active
    BY <1>1, <1>2 DEF Active, TypeOK
  <1>5. Sorted' /\ Tidy'
    BY <1>1, <1>2, <1>4 DEF TypeOK, Sorted, Tidy
  <1>6. Accounted'
    BY <1>1, <1>2, <1>4 DEF Accounted, Answer, Wanted
  <1>7. c \notin disturbed => found = Answer(c)
    <2>1. goal[c] \in Goal /\ goal[c].name \in Name /\ window[c] = {}
      BY <1>1, <1>2, AnswerProperties DEF TypeOK, Tidy
    <2>2. found \subseteq Answer(c)
      BY <1>1, <2>1, AnswerProperties DEF found, TypeOK, Sorted
    <2>3. ASSUME c \notin disturbed, NEW p \in Answer(c)
          PROVE  p \in found
      <3>1. p \in incomplete[goal[c].name]
        BY <1>1, <1>2, <1>4, <2>1, <2>3 DEF Accounted
      <3>2. p.frame \in Wanted(c)
        BY <2>1, <2>3, AnswerProperties
      <3> QED
        BY <3>1, <3>2 DEF found
    <2> QED
      BY <2>2, <2>3
  <1>8. ReturnsAreComplete'
    <2>1. ASSUME NEW d \in Call, d \notin disturbed, phase'[d] = "returned"
          PROVE  result'[d] = InOrder(Answer(d))
      <3>1. CASE d = c
        BY <1>1, <1>2, <1>7, <2>1, <3>1 DEF TypeOK
      <3>2. CASE d # c
        BY <1>1, <1>2, <2>1, <3>2 DEF TypeOK, ReturnsAreComplete
      <3> QED
        BY <3>1, <3>2
    <2> QED
      BY <1>2, <2>1 DEF ReturnsAreComplete, Answer, Wanted
  <1> QED
    BY <1>3, <1>5, <1>6, <1>8 DEF IndInv
-----------------------------------------------------------------------------
\* Every step keeps the invariant.
LEMMA NextKeeps == ASSUME IndInv, [Next]_vars PROVE IndInv'
  <1>1. ASSUME NEW c \in Call, Request(c) \/ CallStep(c) \/ WorkerStep(c) \/ TimeOut(c)
        PROVE  IndInv'
    BY <1>1, RequestKeeps, SendWindowKeeps, CollectWindowKeeps, ReconstructKeeps,
       LockChannelKeeps, TakeResponseKeeps, TimeOutKeeps
       DEF CallStep, WorkerStep
  <1>2. ASSUME NEW p \in Response, Arrive(p) \/ Lose(p) \/ Repeat(p)
        PROVE  IndInv'
    BY <1>2, NetworkKeeps
  <1>3. CASE UNCHANGED vars
    BY <1>3, StutterKeeps
  <1> QED
    BY <1>1, <1>2, <1>3 DEF Next

(***************************************************************************)
(* The frames of a call in progress that was not disturbed are queued,     *)
(* under way or in the map, in every reachable state.                      *)
(***************************************************************************)
THEOREM InvariantTheorem == Spec => []IndInv
  <1>1. Init => IndInv
    BY InitIndInv
  <1>2. IndInv /\ [Next]_vars => IndInv'
    BY NextKeeps
  <1> QED
    BY <1>1, <1>2, PTL DEF Spec

(***************************************************************************)
(* For any number of calls, names, frames, losses and repetitions: a call  *)
(* whose name was not registered again returns every frame it was asked    *)
(* for, each once and in order.                                            *)
(***************************************************************************)
THEOREM ReturnsAreCompleteTheorem == Spec => []ReturnsAreComplete
  <1>1. IndInv => ReturnsAreComplete
    BY DEF IndInv
  <1> QED
    BY <1>1, InvariantTheorem, PTL
-----------------------------------------------------------------------------
(* One call at a time that does not time out. *)

\* Frames the calls in progress still miss.
Missed == {p \in Response : \E c \in Active : /\ goal[c].name = p.name
                                             /\ p.frame \in Failed(c)}

\* There is at most one call in progress, and workers do not outlive their call.
OneAtATime ==
  /\ \A c, d \in Active : c = d
  /\ \A c \in Call : phase[c] # "waiting" => window[c] = {} /\ worker[c].missing = 0

\* What is missed is under way, once, and counted on.
Balanced ==
  losses = 0 /\ repeats = 0 =>
    /\ \A p \in Response : UnderWay(p) = IF p \in Missed THEN 1 ELSE 0
    /\ \A c \in Active : worker[c].missing = Cardinality(Failed(c))

\* The inductive invariant behind NothingLeftBehind.
AskedInv == IndInv /\ OneAtATime /\ Balanced

\* The frames a window still misses are a finite set, none if there is no window.
LEMMA FailedProperties ==
  ASSUME TypeOK, NEW c \in Call
  PROVE  /\ Failed(c) \in SUBSET Frame
         /\ IsFiniteSet(Failed(c))
         /\ Cardinality(Failed(c)) \in Nat
         /\ window[c] = {} => Failed(c) = {}
         /\ Cardinality(Failed(c)) = 0 <=> Failed(c) = {}
  <1>1. Failed(c) \in SUBSET Frame /\ (window[c] = {} => Failed(c) = {})
    BY DEF Failed, TypeOK
  <1>2. IsFiniteSet(Frame)
    BY LastFrameAssumption, FS_Interval DEF Frame
  <1>3. IsFiniteSet(Failed(c))
    BY <1>1, <1>2, FS_Subset
  <1> QED
    BY <1>1, <1>3, FS_CardinalityType, FS_EmptySet

\* How much is under way is a number.
LEMMA UnderWayProperties ==
  ASSUME TypeOK, NEW p \in Response
  PROVE  wire[p] \in Nat /\ Len(Only(responses, {p})) \in Nat /\ UnderWay(p) \in Nat
  <1>1. Only(responses, {p}) \in Seq(Response \cap {p})
    BY OnlyType DEF TypeOK
  <1>2. Len(Only(responses, {p})) \in Nat
    BY <1>1, LenProperties
  <1> QED
    BY <1>2 DEF TypeOK, UnderWay

\* Steps that neither move packets nor change what is missed.
LEMMA AloneKeeps ==
  ASSUME AskedInv, UNCHANGED <<goal, wire, responses, losses, repeats>>,
         Active' \subseteq Active,
         \A c \in Active' : Failed(c)' = Failed(c) /\ worker'[c].missing = worker[c].missing,
         \A c \in Active : c \in Active' \/ Failed(c) = {}
  PROVE  Balanced'
  <1>1. Missed' = Missed
    BY DEF Missed
  <1>2. \A p \in Response : UnderWay(p)' = UnderWay(p)
    BY DEF UnderWay
  <1> QED
    BY <1>1, <1>2 DEF AskedInv, Balanced

\* A call only begins when there is no other, and nothing is under way then.
LEMMA RequestAsks ==
  ASSUME MaxActive = 1, AskedInv, NEW c \in Call, Request(c)
  PROVE  OneAtATime' /\ Balanced'
  <1>1. /\ TypeOK /\ OneAtATime /\ Balanced
        /\ phase[c] = "idle" /\ phase' = [phase EXCEPT ![c] = "ready"]
        /\ Cardinality(Active) < 1
        /\ UNCHANGED <<goal, window, size, worker, result, responses, holder>>
        /\ UNCHANGED <<wire, losses, repeats>>
    BY DEF AskedInv, IndInv, Request, netVars
  <1>2. Active = {}
    <2>1. ASSUME NEW d \in Active PROVE FALSE
      <3>1. Active = {d}
        BY <1>1, <2>1 DEF OneAtATime
      <3>2. Cardinality(Active) = 1
        BY <3>1, FS_Singleton
      <3> QED
        BY <1>1, <3>2
    <2> QED
      BY <2>1
  <1>3. Active' = {c}
    BY <1>1, <1>2 DEF Active, TypeOK
  <1>4. OneAtATime'
    BY <1>1, <1>3 DEF OneAtATime, TypeOK
  <1>5. Failed(c)' = {} /\ Cardinality(Failed(c)') = 0 /\ worker'[c].missing = 0
    <2>1. window'[c] = {} /\ worker'[c].missing = 0
      BY <1>1 DEF OneAtATime
    <2> QED
      BY <2>1, FS_EmptySet DEF Failed
  <1>6. Missed = {} /\ Missed' = {}
    BY <1>2, <1>3, <1>5 DEF Missed
  <1>7. \A p \in Response : UnderWay(p)' = UnderWay(p)
    BY <1>1 DEF UnderWay
  <1> QED
    BY <1>1, <1>3, <1>4, <1>5, <1>6, <1>7 DEF Balanced

\* Every frame of a window is asked for once, and nothing else is under way.
LEMMA SendWindowAsks ==
  ASSUME AskedInv, NEW c \in Call, SendWindow(c)
  PROVE  OneAtATime' /\ Balanced'
  <1> DEFINE next == FirstFrames(pending[c], size[c])
             new  == [NoWorker EXCEPT !.missing = Cardinality(next)]
  <1>1. /\ TypeOK /\ OneAtATime /\ Balanced
        /\ phase[c] = "ready" /\ phase' = [phase EXCEPT ![c] = "waiting"]
        /\ window' = [window EXCEPT ![c] = next]
        /\ worker' = [worker EXCEPT ![c] = new]
        /\ wire' = [p \in Response |->
                      IF p.name = goal[c].name /\ p.frame \in next
                      THEN wire[p] + 1
                      ELSE wire[p]]
        /\ UNCHANGED <<goal, responses, losses, repeats>>
    BY DEF AskedInv, IndInv, SendWindow, NextWindow, netVars
  <1>2. new.missing = Cardinality(next) /\ new.returned = {}
    BY DEF NoWorker
  <1> HIDE DEF next, new
  <1>3. Active' = Active /\ c \in Active
    BY <1>1 DEF Active, TypeOK
  <1>4. Active = {c} /\ window[c] = {}
    BY <1>1, <1>3 DEF OneAtATime
  <1>5. OneAtATime'
    BY <1>1, <1>3, <1>4 DEF OneAtATime, TypeOK
  <1>6. Missed = {}
    BY <1>1, <1>4, FailedProperties DEF Missed
  <1>7. Failed(c)' = next /\ worker'[c].missing = Cardinality(next)
    BY <1>1, <1>2 DEF Failed, TypeOK
  <1>8. Missed' = {p \in Response : p.name = goal[c].name /\ p.frame \in next}
    BY <1>1, <1>3, <1>4, <1>7 DEF Missed
  <1>9. ASSUME losses = 0, repeats = 0, NEW p \in Response
        PROVE  UnderWay(p)' = IF p \in Missed' THEN 1 ELSE 0
    <2>1. /\ UnderWay(p) = wire[p] + Len(Only(responses, {p}))
          /\ UnderWay(p)' = wire'[p] + Len(Only(responses, {p}))
      BY <1>1 DEF UnderWay
    <2>2. UnderWay(p) = 0
      BY <1>1, <1>6, <1>9 DEF Balanced
    <2>3. wire'[p] = IF p \in Missed' THEN wire[p] + 1 ELSE wire[p]
      BY <1>1, <1>8
    <2>4. wire[p] \in Nat /\ Len(Only(responses, {p})) \in Nat
      BY <1>1, UnderWayProperties
    <2> QED
      BY <2>1, <2>2, <2>3, <2>4
  <1> QED
    BY <1>1, <1>3, <1>4, <1>5, <1>7, <1>9 DEF Balanced

\* A worker that has counted enough misses nothing.
LEMMA CollectWindowAsks ==
  ASSUME AskedInv, NEW c \in Call, CollectWindow(c)
  PROVE  OneAtATime' /\ Balanced'
  <1>1. /\ TypeOK /\ OneAtATime /\ Balanced
        /\ phase[c] = "waiting" /\ worker[c].missing = 0
        /\ phase' = [phase EXCEPT ![c] = "ready"]
        /\ window' = [window EXCEPT ![c] = {}]
        /\ worker' = [worker EXCEPT ![c] = NoWorker]
        /\ UNCHANGED <<goal, wire, responses, losses, repeats>>
    BY DEF AskedInv, IndInv, CollectWindow, netVars
  <1>2. Active' = Active /\ c \in Active
    BY <1>1 DEF Active, TypeOK
  <1>3. OneAtATime'
    BY <1>1, <1>2 DEF OneAtATime, TypeOK, NoWorker
  <1>4. CASE losses = 0 /\ repeats = 0
    <2>1. Failed(c) = {}
      BY <1>1, <1>2, <1>4, FailedProperties DEF Balanced
    <2>2. Failed(c)' = {} /\ worker'[c].missing = worker[c].missing
      BY <1>1 DEF Failed, TypeOK, NoWorker
    <2>3. \A d \in Active : d = c
      BY <1>1, <1>2 DEF OneAtATime
    <2>4. Balanced'
      BY <1>1, <1>2, <2>1, <2>2, <2>3, AloneKeeps
    <2> QED
      BY <1>3, <2>4
  <1>5. CASE ~(losses = 0 /\ repeats = 0)
    BY <1>1, <1>3, <1>5 DEF Balanced
  <1> QED
    BY <1>4, <1>5

\* A call that returns was not waiting for anything.
LEMMA ReconstructAsks ==
  ASSUME AskedInv, NEW c \in Call, Reconstruct(c)
  PROVE  OneAtATime' /\ Balanced'
  <1>1. /\ TypeOK /\ OneAtATime
        /\ phase[c] = "ready" /\ phase' = [phase EXCEPT ![c] = "returned"]
        /\ UNCHANGED <<goal, window, worker, wire, responses, losses, repeats>>
    BY DEF AskedInv, IndInv, Reconstruct, netVars
  <1>2. Active' \subseteq Active /\ \A d \in Active : d \in Active' \/ d = c
    BY <1>1 DEF Active, TypeOK
  <1>3. OneAtATime'
    BY <1>1, <1>2 DEF OneAtATime, TypeOK
  <1>4. Failed(c) = {}
    BY <1>1, FailedProperties DEF OneAtATime
  <1>5. \A d \in Active : Failed(d)' = Failed(d)
    BY <1>1 DEF Failed
  <1>6. Balanced'
    BY <1>1, <1>2, <1>4, <1>5, AloneKeeps
  <1> QED
    BY <1>3, <1>6

\* Taking the first response off the channel, there is one less of it under way.
LEMMA TakenProperties ==
  ASSUME TypeOK, responses # << >>, responses' = Tail(responses), UNCHANGED wire,
         NEW p \in Response
  PROVE  /\ UnderWay(p)' \in Nat
         /\ UnderWay(p) = UnderWay(p)' + (IF p = Head(responses) THEN 1 ELSE 0)
  <1> DEFINE first == Only(<<Head(responses)>>, {p})
             rest  == Only(Tail(responses), {p})
  <1>1. /\ responses \in Seq(Response) /\ Tail(responses) \in Seq(Response)
        /\ Head(responses) \in Response
    BY HeadTailProperties DEF TypeOK
  <1>2. Only(responses, {p}) = first \o rest
    BY <1>1, OnlyHeadTail
  <1>3. first = IF p = Head(responses) THEN <<Head(responses)>> ELSE << >>
    BY OnlyOne
  <1>4. rest \in Seq(Response \cap {p})
    BY <1>1, OnlyType
  <1>5. /\ wire[p] \in Nat
        /\ UnderWay(p) = wire[p] + Len(Only(responses, {p}))
        /\ UnderWay(p)' = wire[p] + Len(rest)
    BY DEF TypeOK, UnderWay
  <1> HIDE DEF first, rest
  <1>6. rest \in Seq(Response) /\ Len(rest) \in Nat
    BY <1>4, SeqMonotonic, LenProperties
  <1>7. /\ first \in Seq(Response)
        /\ Len(first) = IF p = Head(responses) THEN 1 ELSE 0
    BY <1>1, <1>3
  <1>8. Len(first \o rest) = Len(first) + Len(rest)
    BY <1>6, <1>7, ConcatProperties
  <1>9. UnderWay(p) = wire[p] + (Len(first) + Len(rest))
    BY <1>2, <1>5, <1>8
  <1>10. CASE p = Head(responses)
    BY <1>5, <1>6, <1>7, <1>9, <1>10
  <1>11. CASE p # Head(responses)
    BY <1>5, <1>6, <1>7, <1>9, <1>11
  <1> QED
    BY <1>10, <1>11

\* The one worker there is takes only responses that it misses.
LEMMA TakeResponseAsks ==
  ASSUME AskedInv, NEW c \in Call, TakeResponse(c)
  PROVE  OneAtATime' /\ Balanced'
  <1>1. PICK p : p = Head(responses)
    OBVIOUS
  <1>2. /\ TypeOK /\ Tidy /\ OneAtATime /\ Balanced
        /\ holder = c /\ responses # << >> /\ responses' = Tail(responses)
        /\ worker' = [worker EXCEPT ![c] = Seen(c, p)]
        /\ UNCHANGED <<phase, goal, window, wire, losses, repeats>>
    BY <1>1 DEF AskedInv, IndInv, TakeResponse, netVars
  <1>3. p \in Response /\ worker[c] \in Worker
    BY <1>1, <1>2, HeadTailProperties DEF TypeOK
  <1>4. worker[c].missing > 0 /\ phase[c] = "waiting"
    <2>1. worker[c].missing > 0
      BY <1>2 DEF Tidy
    <2> QED
      BY <1>2, <2>1 DEF OneAtATime
  <1>5. Active' = Active /\ Active = {c}
    BY <1>2, <1>4 DEF Active, OneAtATime
  <1>6. OneAtATime'
    <2>1. \A d \in Call : phase[d] # "waiting" => worker'[d] = worker[d]
      BY <1>2, <1>4 DEF TypeOK
    <2> QED
      BY <1>2, <1>5, <2>1 DEF OneAtATime
  <1>7. ASSUME losses = 0, repeats = 0
        PROVE  /\ \A q \in Response : UnderWay(q)' = IF q \in Missed' THEN 1 ELSE 0
               /\ worker'[c].missing = Cardinality(Failed(c)')
    <2>1. \A q \in Response : /\ UnderWay(q) \in Nat /\ UnderWay(q)' \in Nat
                             /\ UnderWay(q) = UnderWay(q)' + (IF q = p THEN 1 ELSE 0)
      BY <1>1, <1>2, UnderWayProperties, TakenProperties
    <2>2. /\ \A q \in Response : UnderWay(q) = IF q \in Missed THEN 1 ELSE 0
          /\ worker[c].missing = Cardinality(Failed(c))
      BY <1>2, <1>5, <1>7 DEF Balanced
    <2>3. p \in Missed
      BY <1>3, <2>1, <2>2
    <2>4. Counts(c, p) /\ p.frame \in Failed(c)
      BY <1>5, <2>3 DEF Missed, Counts
    <2>5. Kept(worker[c].returned, p) = worker[c].returned \cup {p}
      BY <2>4 DEF Kept, Failed
    <2>6. /\ worker'[c].missing = worker[c].missing - 1
          /\ worker'[c].returned = worker[c].returned \cup {p}
      BY <1>2, <1>3, <2>4, <2>5 DEF Seen, Worker, TypeOK
    <2>7. Failed(c)' = Failed(c) \ {p.frame}
      BY <1>2, <2>6 DEF Failed
    <2>8. Cardinality(Failed(c)') = Cardinality(Failed(c)) - 1
      <3>1. IsFiniteSet(Failed(c))
        BY <1>2, FailedProperties
      <3> QED
        BY <2>4, <2>7, <3>1, FS_RemoveElement
    <2>9. Missed' = Missed \ {p}
      <3>1. Missed = {q \in Response : goal[c].name = q.name /\ q.frame \in Failed(c)}
        BY <1>5 DEF Missed
      <3>2. Missed' = {q \in Response : goal[c].name = q.name
                                          /\ q.frame \in Failed(c) \ {p.frame}}
        BY <1>2, <1>5, <2>7 DEF Missed
      <3>3. \A q \in Response : q.name = goal[c].name /\ q.frame = p.frame => q = p
        BY <1>3, <2>4, SamePacket DEF Counts
      <3> QED
        BY <3>1, <3>2, <3>3
    <2> QED
      BY <2>1, <2>2, <2>3, <2>6, <2>8, <2>9
  <1>8. Balanced'
    BY <1>2, <1>5, <1>7 DEF Balanced
  <1> QED
    BY <1>6, <1>8

\* A response is under way until it is taken out of the channel.
LEMMA ArriveAsks ==
  ASSUME AskedInv, NEW p \in Response, Arrive(p)
  PROVE  OneAtATime' /\ Balanced'
  <1>1. /\ TypeOK /\ OneAtATime /\ Balanced
        /\ wire[p] > 0 /\ wire' = [wire EXCEPT ![p] = wire[p] - 1]
        /\ responses' = Append(responses, p)
        /\ UNCHANGED <<phase, goal, window, worker, losses, repeats>>
    BY DEF AskedInv, IndInv, Arrive, Receive, callVars, TypeOK
  <1>2. Active' = Active /\ OneAtATime'
    BY <1>1 DEF Active, OneAtATime
  <1>3. Missed' = Missed /\ \A c \in Active : Failed(c)' = Failed(c)
    BY <1>1, <1>2 DEF Missed, Failed
  <1>4. ASSUME NEW q \in Response PROVE UnderWay(q)' = UnderWay(q)
    <2> DEFINE kept == Only(responses, {q})
    <2>1. /\ responses \in Seq(Response) /\ wire[q] \in Nat
          /\ kept \in Seq(Response \cap {q}) /\ Len(kept) \in Nat
      BY <1>1, OnlyType, UnderWayProperties DEF TypeOK
    <2>2. Only(responses', {q}) = IF p = q THEN Append(kept, p) ELSE kept
      BY <1>1, <2>1, OnlyAppend
    <2>3. wire'[q] = IF p = q THEN wire[q] - 1 ELSE wire[q]
      BY <1>1 DEF TypeOK
    <2> HIDE DEF kept
    <2>4. p = q => Len(Append(kept, p)) = Len(kept) + 1
      BY <2>1, AppendProperties
    <2>5. UnderWay(q) = wire[q] + Len(kept) /\ UnderWay(q)' = wire'[q] + Len(Only(responses', {q}))
      BY DEF UnderWay, kept
    <2>6. CASE p = q
      <3>1. UnderWay(q)' = (wire[q] - 1) + (Len(kept) + 1)
        BY <2>2, <2>3, <2>4, <2>5, <2>6
      <3> QED
        BY <2>1, <2>5, <3>1, SMTT(30)
    <2>7. CASE p # q
      BY <2>2, <2>3, <2>5, <2>7
    <2> QED
      BY <2>6, <2>7
  <1>5. Balanced'
    BY <1>1, <1>2, <1>3, <1>4 DEF Balanced
  <1> QED
    BY <1>2, <1>5

\* Once something is lost or repeated nothing is claimed any more.
LEMMA UnreliableAsks ==
  ASSUME AskedInv, NEW p \in Response, Lose(p) \/ Repeat(p)
  PROVE  OneAtATime' /\ Balanced'
  <1>1. /\ TypeOK /\ OneAtATime
        /\ UNCHANGED <<phase, goal, window, worker>>
        /\ losses' = losses + 1 \/ repeats' = repeats + 1
    BY DEF AskedInv, IndInv, Lose, Repeat, callVars
  <1>2. OneAtATime'
    BY <1>1 DEF Active, OneAtATime
  <1>3. ~(losses' = 0 /\ repeats' = 0)
    BY <1>1 DEF TypeOK
  <1> QED
    BY <1>2, <1>3 DEF Balanced

\* Getting hold of the channel, or doing nothing.
LEMMA IdleAsks ==
  ASSUME AskedInv,
         UNCHANGED <<phase, goal, window, worker, wire, responses, losses, repeats>>
  PROVE  OneAtATime' /\ Balanced'
  <1>1. Active' = Active /\ OneAtATime'
    BY DEF AskedInv, Active, OneAtATime
  <1>2. \A c \in Active : Failed(c)' = Failed(c)
    BY DEF Failed
  <1>3. Balanced'
    BY <1>1, <1>2, AloneKeeps
  <1> QED
    BY <1>1, <1>3

\* Initially nothing is asked for.
LEMMA InitAsks == Init => OneAtATime /\ Balanced
  <1> SUFFICES ASSUME Init PROVE OneAtATime /\ Balanced
    OBVIOUS
  <1>1. Active = {} /\ Missed = {}
    BY DEF Init, Active, Missed
  <1>2. OneAtATime
    BY <1>1 DEF Init, OneAtATime, NoWorker
  <1>3. \A p \in Response : UnderWay(p) = 0
    <2>1. \A p \in Response : Only(responses, {p}) = << >> /\ wire[p] = 0
      BY OnlyEmpty DEF Init
    <2>2. Len(<< >>) = 0
      BY EmptySeq
    <2> QED
      BY <2>1, <2>2 DEF UnderWay
  <1> QED
    BY <1>1, <1>2, <1>3 DEF Balanced

\* Every step of a timely call that is alone keeps the balance.
LEMMA NextAsks ==
  ASSUME Timely, MaxActive = 1, AskedInv, [Next]_vars
  PROVE  AskedInv'
  <1>1. IndInv'
    BY NextKeeps DEF AskedInv
  <1>2. ASSUME NEW c \in Call, Request(c) \/ CallStep(c) \/ WorkerStep(c) \/ TimeOut(c)
        PROVE  OneAtATime' /\ Balanced'
    <2>1. CASE LockChannel(c)
      BY <2>1, IdleAsks DEF LockChannel, callVars, netVars
    <2>2. ~TimeOut(c)
      BY DEF TimeOut
    <2> QED
      BY <1>2, <2>1, <2>2, RequestAsks, SendWindowAsks, CollectWindowAsks,
         ReconstructAsks, TakeResponseAsks DEF CallStep, WorkerStep
  <1>3. ASSUME NEW p \in Response, Arrive(p) \/ Lose(p) \/ Repeat(p)
        PROVE  OneAtATime' /\ Balanced'
    BY <1>3, ArriveAsks, UnreliableAsks
  <1>4. ASSUME UNCHANGED vars
        PROVE  OneAtATime' /\ Balanced'
    BY <1>4, IdleAsks DEF vars, callVars, netVars
  <1>5. OneAtATime' /\ Balanced'
    BY <1>2, <1>3, <1>4 DEF Next
  <1> QED
    BY <1>1, <1>5 DEF AskedInv

\* What is missed, counted call by call.
LEMMA NothingIsLeft == AskedInv => NothingLeftBehind
  <1> SUFFICES ASSUME AskedInv, losses = 0, repeats = 0, NEW p \in Response
               PROVE  UnderWay(p) = Cardinality({c \in Active : /\ goal[c].name = p.name
                                                               /\ p.frame \in Failed(c)})
    BY DEF NothingLeftBehind
  <1> DEFINE missing == {c \in Active : goal[c].name = p.name /\ p.frame \in Failed(c)}
  <1>1. UnderWay(p) = IF p \in Missed THEN 1 ELSE 0
    BY DEF AskedInv, Balanced
  <1>2. CASE p \in Missed
    <2>1. PICK c \in Active : goal[c].name = p.name /\ p.frame \in Failed(c)
      BY <1>2 DEF Missed
    <2>2. missing = {c}
      BY <2>1 DEF AskedInv, OneAtATime
    <2> QED
      BY <1>1, <1>2, <2>2, FS_Singleton
  <1>3. CASE p \notin Missed
    <2>1. missing = {}
      BY <1>3 DEF Missed
    <2> QED
      BY <1>1, <1>3, <2>1, FS_EmptySet
  <1> QED
    BY <1>2, <1>3

(***************************************************************************)
(* Calls made one after the other on a timely network: as long as nothing  *)
(* is lost or repeated, what is under way is what the call in progress     *)
(* still misses, and nothing is left behind for the next call.             *)
(***************************************************************************)
THEOREM NothingLeftBehindTheorem ==
  ASSUME Timely, MaxActive = 1
  PROVE  Spec => []NothingLeftBehind
  <1>1. Init => AskedInv
    BY InitIndInv, InitAsks DEF AskedInv
  <1>2. AskedInv /\ [Next]_vars => AskedInv'
    BY NextAsks
  <1> QED
    BY <1>1, <1>2, NothingIsLeft, PTL DEF Spec
-----------------------------------------------------------------------------
(* The count of the requests. *)

\* Frames are queued and sent only if they are asked for.
QueuedAreWanted == \A c \in Call : pending[c] \cup window[c] \subseteq Wanted(c)

\* Frames a call has begun to ask for, and which are no longer queued.
AskedFor(c) == IF phase[c] = "idle" THEN {} ELSE Wanted(c) \ pending[c]

CountsAskedFor ==
  Faultless =>
    \A c \in Call, f \in Frame : requests[c][f] = IF f \in AskedFor(c) THEN 1 ELSE 0

\* The inductive invariant behind EachFrameIsAskedOnce.
CountInv == AskedInv /\ QueuedAreWanted /\ CountsAskedFor

\* What a step does to the counts, if it does not leave the faultless part.
CountsGrow ==
  Faultless' => /\ Faultless
                /\ \A c \in Call, f \in Frame :
                      requests'[c][f] = requests[c][f] + Sends(c, f)

LEMMA CountedGrow ==
  ASSUME TypeOK, CountedNext
  PROVE  CountsGrow
  <1>1. Faultless' => Faultless
    <2>1. /\ losses \in Nat /\ losses' \in {losses, losses + 1}
          /\ repeats \in Nat /\ repeats' \in {repeats, repeats + 1}
      BY DEF TypeOK, CountedNext, Next, CallStep, WorkerStep, Request, SendWindow, NextWindow,
         CollectWindow, Reconstruct, LockChannel, TakeResponse, TimeOut, Arrive, Lose, Repeat, netVars
    <2> QED
      BY <2>1 DEF Faultless
  <1>2. Faultless => \A c \in Call, f \in Frame : requests'[c][f] = requests[c][f] + Sends(c, f)
    BY DEF CountedNext, Counted
  <1> QED
    BY <1>1, <1>2 DEF CountsGrow

\* A step that sends no window and takes nothing off a queue that is in use.
LEMMA QuietCounts ==
  ASSUME CountInv, CountsGrow, goal' = goal,
         \A c \in Call : /\ ~(phase[c] = "ready" /\ phase'[c] = "waiting")
                         /\ AskedFor(c)' = AskedFor(c)
  PROVE  CountsAskedFor'
  <1>1. \A c \in Call, f \in Frame : Sends(c, f) = 0
    BY DEF Sends
  <1> QED
    BY <1>1 DEF CountInv, CountsAskedFor, CountsGrow

\* A call that begins has asked for nothing yet.
LEMMA RequestCounts ==
  ASSUME CountInv, CountsGrow, NEW c \in Call, Request(c)
  PROVE  QueuedAreWanted' /\ CountsAskedFor'
  <1>1. /\ TypeOK /\ QueuedAreWanted
        /\ phase[c] = "idle" /\ phase' = [phase EXCEPT ![c] = "ready"]
        /\ pending' = [pending EXCEPT ![c] = Wanted(c)]
        /\ UNCHANGED <<goal, window>>
    BY DEF CountInv, AskedInv, IndInv, Request
  <1>2. \A d \in Call : Wanted(d)' = Wanted(d)
    BY <1>1 DEF Wanted
  <1>3. \A d \in Call : AskedFor(d)' = AskedFor(d)
    BY <1>1, <1>2 DEF AskedFor, TypeOK
  <1>4. QueuedAreWanted'
    BY <1>1, <1>2 DEF QueuedAreWanted, TypeOK
  <1>5. \A d \in Call : ~(phase[d] = "ready" /\ phase'[d] = "waiting")
    BY <1>1 DEF TypeOK
  <1> QED
    BY <1>1, <1>3, <1>4, <1>5, QuietCounts

\* A window asks once for each frame it takes off the queue, and no other.
LEMMA SendWindowCounts ==
  ASSUME CountInv, CountsGrow, NEW c \in Call, SendWindow(c)
  PROVE  QueuedAreWanted' /\ CountsAskedFor'
  <1> DEFINE next == FirstFrames(pending[c], size[c])
  <1>1. /\ TypeOK /\ QueuedAreWanted
        /\ phase[c] = "ready" /\ phase' = [phase EXCEPT ![c] = "waiting"]
        /\ pending' = [pending EXCEPT ![c] = pending[c] \ next]
        /\ window' = [window EXCEPT ![c] = next]
        /\ wire' = [p \in Response |->
                      IF p.name = goal[c].name /\ p.frame \in next
                      THEN wire[p] + 1
                      ELSE wire[p]]
        /\ UNCHANGED goal
    BY DEF CountInv, AskedInv, IndInv, SendWindow, NextWindow
  <1>2. next \subseteq pending[c]
    BY DEF FirstFrames
  <1> HIDE DEF next
  <1>3. \A d \in Call : Wanted(d)' = Wanted(d)
    BY <1>1 DEF Wanted
  <1>4. QueuedAreWanted'
    BY <1>1, <1>2, <1>3 DEF QueuedAreWanted, TypeOK
  <1>5. ASSUME NEW f \in Frame
        PROVE  Sends(c, f) = IF f \in next THEN 1 ELSE 0
    <2> DEFINE p == [name |-> goal[c].name, frame |-> f]
    <2>1. p \in Response /\ p.name = goal[c].name /\ p.frame = f
      BY <1>1 DEF Response, Goal, TypeOK
    <2> HIDE DEF p
    <2>2. wire[p] \in Nat /\ wire'[p] = IF f \in next THEN wire[p] + 1 ELSE wire[p]
      BY <1>1, <2>1 DEF TypeOK
    <2>3. Sends(c, f) = wire'[p] - wire[p]
      BY <1>1 DEF Sends, TypeOK, p
    <2> QED
      BY <2>2, <2>3
  <1>6. \A d \in Call \ {c}, f \in Frame : Sends(d, f) = 0
    BY <1>1 DEF Sends, TypeOK
  <1>7. AskedFor(c)' = AskedFor(c) \cup next /\ AskedFor(c) \cap next = {}
    BY <1>1, <1>2, <1>3 DEF AskedFor, QueuedAreWanted, TypeOK
  <1>8. \A d \in Call \ {c} : AskedFor(d)' = AskedFor(d)
    BY <1>1, <1>3 DEF AskedFor, TypeOK
  <1>9. CountsAskedFor'
    <2> SUFFICES ASSUME Faultless', NEW d \in Call, NEW f \in Frame
                 PROVE  requests'[d][f] = IF f \in AskedFor(d)' THEN 1 ELSE 0
      BY DEF CountsAskedFor
    <2>1. /\ requests'[d][f] = requests[d][f] + Sends(d, f)
          /\ requests[d][f] = IF f \in AskedFor(d) THEN 1 ELSE 0
      BY DEF CountInv, CountsAskedFor, CountsGrow
    <2>2. CASE d = c
      BY <1>5, <1>7, <2>1, <2>2
    <2>3. CASE d # c
      BY <1>6, <1>8, <2>1, <2>3
    <2> QED
      BY <2>2, <2>3
  <1> QED
    BY <1>4, <1>9

\* As long as nothing was lost or repeated, no frame is queued again.
LEMMA CollectWindowCounts ==
  ASSUME CountInv, CountsGrow, NEW c \in Call, CollectWindow(c)
  PROVE  QueuedAreWanted' /\ CountsAskedFor'
  <1>1. /\ TypeOK /\ QueuedAreWanted /\ Balanced
        /\ phase[c] = "waiting" /\ worker[c].missing = 0
        /\ phase' = [phase EXCEPT ![c] = "ready"]
        /\ pending' = [pending EXCEPT ![c] = pending[c] \cup Failed(c)]
        /\ window' = [window EXCEPT ![c] = {}]
        /\ UNCHANGED goal
    BY DEF CountInv, AskedInv, IndInv, CollectWindow
  <1>2. \A d \in Call : Wanted(d)' = Wanted(d)
    BY <1>1 DEF Wanted
  <1>3. Failed(c) \subseteq window[c]
    BY DEF Failed
  <1>4. QueuedAreWanted'
    BY <1>1, <1>2, <1>3 DEF QueuedAreWanted, TypeOK
  <1>5. CASE Faultless
    <2>1. Failed(c) = {}
      <3>1. c \in Active
        BY <1>1 DEF Active
      <3> QED
        BY <1>1, <1>5, <3>1, FailedProperties DEF Balanced, Faultless
    <2>2. pending' = pending
      BY <1>1, <2>1 DEF TypeOK
    <2>3. \A d \in Call : AskedFor(d)' = AskedFor(d)
      BY <1>1, <1>2, <2>2 DEF AskedFor, TypeOK
    <2>4. \A d \in Call : ~(phase[d] = "ready" /\ phase'[d] = "waiting")
      BY <1>1 DEF TypeOK
    <2> QED
      BY <1>1, <1>4, <2>3, <2>4, QuietCounts
  <1>6. CASE ~Faultless
    BY <1>4, <1>6 DEF CountsAskedFor, CountsGrow
  <1> QED
    BY <1>5, <1>6

\* A step that only ends a call, or does not touch calls at all.
LEMMA OtherCounts ==
  ASSUME CountInv, CountsGrow, UNCHANGED <<goal, pending, window>>,
         phase' = phase \/ \E c \in Call : Reconstruct(c)
  PROVE  QueuedAreWanted' /\ CountsAskedFor'
  <1>1. TypeOK /\ QueuedAreWanted
    BY DEF CountInv, AskedInv, IndInv
  <1>2. \A d \in Call : Wanted(d)' = Wanted(d)
    BY DEF Wanted
  <1>3. QueuedAreWanted'
    BY <1>1, <1>2 DEF QueuedAreWanted
  <1>4. \A d \in Call : /\ ~(phase[d] = "ready" /\ phase'[d] = "waiting")
                        /\ phase[d] = "idle" <=> phase'[d] = "idle"
    BY <1>1 DEF Reconstruct, TypeOK
  <1>5. \A d \in Call : AskedFor(d)' = AskedFor(d)
    BY <1>2, <1>4 DEF AskedFor
  <1> QED
    BY <1>3, <1>4, <1>5, QuietCounts

LEMMA CountedKeeps ==
  ASSUME Timely, MaxActive = 1, CountInv, [CountedNext]_countedVars
  PROVE  CountInv'
  <1>1. CASE CountedNext
    <2>1. AskedInv'
      BY <1>1, NextAsks DEF CountInv, CountedNext
    <2>2. CountsGrow
      BY <1>1, CountedGrow DEF CountInv, AskedInv, IndInv
    <2>3. ASSUME NEW c \in Call, Request(c) \/ CallStep(c) \/ WorkerStep(c) \/ TimeOut(c)
          PROVE  QueuedAreWanted' /\ CountsAskedFor'
      <3>1. CASE Request(c)
        BY <2>2, <3>1, RequestCounts
      <3>2. CASE SendWindow(c)
        BY <2>2, <3>2, SendWindowCounts
      <3>3. CASE CollectWindow(c)
        BY <2>2, <3>3, CollectWindowCounts
      <3>4. CASE Reconstruct(c)
        <4>1. UNCHANGED <<goal, pending, window>>
          BY <3>4 DEF Reconstruct
        <4> QED
          BY <2>2, <3>4, <4>1, OtherCounts
      <3>5. CASE WorkerStep(c)
        <4>1. UNCHANGED <<goal, pending, window, phase>>
          BY <3>5 DEF WorkerStep, LockChannel, TakeResponse, callVars
        <4> QED
          BY <2>2, <4>1, OtherCounts
      <3>6. ~TimeOut(c)
        BY DEF TimeOut
      <3> QED
        BY <2>3, <3>1, <3>2, <3>3, <3>4, <3>5, <3>6 DEF CallStep
    <2>4. ASSUME NEW p \in Response, Arrive(p) \/ Lose(p) \/ Repeat(p)
          PROVE  QueuedAreWanted' /\ CountsAskedFor'
      <3>1. UNCHANGED <<goal, pending, window, phase>>
        BY <2>4 DEF Arrive, Receive, Lose, Repeat, callVars
      <3> QED
        BY <2>2, <3>1, OtherCounts
    <2>5. Next
      BY <1>1 DEF CountedNext
    <2>6. QueuedAreWanted' /\ CountsAskedFor'
      BY <2>3, <2>4, <2>5 DEF Next
    <2> QED
      BY <2>1, <2>6 DEF CountInv
  <1>2. CASE UNCHANGED countedVars
    <2>1. UNCHANGED vars /\ UNCHANGED requests
      BY <1>2 DEF countedVars
    <2>2. AskedInv'
      BY <2>1, NextAsks DEF CountInv
    <2>3. QueuedAreWanted' /\ CountsAskedFor'
      BY <2>1 DEF CountInv, QueuedAreWanted, CountsAskedFor, AskedFor, Wanted, Faultless,
         vars, callVars, netVars
    <2> QED
      BY <2>2, <2>3 DEF CountInv
  <1> QED
    BY <1>1, <1>2

LEMMA InitCounts == CountedInit => CountInv
  <1> SUFFICES ASSUME CountedInit PROVE CountInv
    OBVIOUS
  <1>1. AskedInv
    BY InitIndInv, InitAsks DEF AskedInv, CountedInit
  <1>2. QueuedAreWanted /\ CountsAskedFor
    BY DEF CountedInit, Init, QueuedAreWanted, CountsAskedFor, AskedFor
  <1> QED
    BY <1>1, <1>2 DEF CountInv

\* The queue of a call that returned is empty.
ReturnedAreDone == \A c \in Call : phase[c] = "returned" => pending[c] = {}

(***************************************************************************)
(* Calls made one after the other on a timely network: as long as nothing  *)
(* is lost or repeated, no call asks twice for a frame, and one that       *)
(* returned has asked once for each frame it was asked for.                *)
(***************************************************************************)
THEOREM EachFrameIsAskedOnceTheorem ==
  ASSUME Timely, MaxActive = 1
  PROVE  CountedSpec => []EachFrameIsAskedOnce
  <1>1. CountedInit => CountInv /\ ReturnedAreDone
    BY InitCounts DEF CountedInit, Init, ReturnedAreDone
  <1>2. CountInv /\ [CountedNext]_countedVars => CountInv'
    BY CountedKeeps
  <1>3. CountInv /\ ReturnedAreDone /\ [CountedNext]_countedVars => ReturnedAreDone'
    <2> SUFFICES ASSUME TypeOK, ReturnedAreDone, [Next]_vars PROVE ReturnedAreDone'
      BY DEF CountInv, AskedInv, IndInv, CountedNext, countedVars
    <2>1. CASE \E c \in Call : Request(c) \/ SendWindow(c)
      <3>1. PICK c \in Call : Request(c) \/ SendWindow(c)
        BY <2>1
      <3>2. /\ phase'[c] # "returned"
            /\ \A d \in Call \ {c} : phase'[d] = phase[d] /\ pending'[d] = pending[d]
        BY <3>1 DEF TypeOK, Request, SendWindow, NextWindow
      <3> QED
        BY <3>2 DEF ReturnedAreDone
    <2>2. CASE \E c \in Call : CollectWindow(c) \/ TimeOut(c)
      <3>1. PICK c \in Call : CollectWindow(c) \/ TimeOut(c)
        BY <2>2
      <3>2. /\ phase'[c] # "returned"
            /\ \A d \in Call \ {c} : phase'[d] = phase[d] /\ pending'[d] = pending[d]
        BY <3>1 DEF TypeOK, CollectWindow, TimeOut
      <3> QED
        BY <3>2 DEF ReturnedAreDone
    <2>3. CASE \E c \in Call : Reconstruct(c)
      BY <2>3 DEF ReturnedAreDone, TypeOK, Reconstruct
    <2>4. CASE UNCHANGED <<phase, pending>>
      BY <2>4 DEF ReturnedAreDone
    <2>5. ASSUME NEW c \in Call, WorkerStep(c)
          PROVE  UNCHANGED <<phase, pending>>
      BY <2>5 DEF WorkerStep, LockChannel, TakeResponse, callVars
    <2>6. ASSUME NEW p \in Response, Arrive(p) \/ Lose(p) \/ Repeat(p)
          PROVE  UNCHANGED <<phase, pending>>
      BY <2>6 DEF Arrive, Receive, Lose, Repeat, callVars
    <2>7. CASE UNCHANGED vars
      BY <2>7, <2>4 DEF vars, callVars
    <2> QED
      BY <2>1, <2>2, <2>3, <2>4, <2>5, <2>6, <2>7 DEF Next, CallStep
  <1>4. CountInv /\ ReturnedAreDone => EachFrameIsAskedOnce
    <2> SUFFICES ASSUME CountInv, ReturnedAreDone, Faultless, NEW c \in Call, NEW f \in Frame
                 PROVE  /\ requests[c][f] <= 1
                        /\ phase[c] = "returned" => requests[c][f] = IF f \in Wanted(c) THEN 1 ELSE 0
      BY DEF EachFrameIsAskedOnce
    <2>1. requests[c][f] = IF f \in AskedFor(c) THEN 1 ELSE 0
      BY DEF CountInv, CountsAskedFor
    <2>2. phase[c] = "returned" => AskedFor(c) = Wanted(c)
      BY DEF AskedFor, ReturnedAreDone
    <2> QED
      BY <2>1, <2>2
  <1> QED
    BY <1>1, <1>2, <1>3, <1>4, PTL DEF CountedSpec
=============================================================================
