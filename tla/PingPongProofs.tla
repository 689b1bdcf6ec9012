--------------------------- MODULE PingPongProofs ----------------------------
(***************************************************************************)
(* Theorems about the network of the test: it answers each request once,   *)
(* and its log is the one the test expects.  They hold for channels of any *)
(* size, any number of lost datagrams, and in whatever order threads run.  *)
(***************************************************************************)
EXTENDS PingPongProperties, FoldProofs
-----------------------------------------------------------------------------
(* Queues. *)

\* One packet more.
LEMMA NumberAppend ==
  ASSUME NEW q \in Seq(Packet), NEW p \in Packet, NEW kind, NEW frames
  PROVE  /\ Number(q, kind, frames) \in Nat
         /\ Number(Append(q, p), kind, frames) =
              Number(q, kind, frames) + (IF p.kind = kind /\ p.frame \in frames THEN 1 ELSE 0)
  <1> DEFINE S == [link : Link, kind : {kind}, name : {"echo"}, frame : frames]
  <1>1. p \in S <=> p.kind = kind /\ p.frame \in frames
    BY DEF Packet
  <1> HIDE DEF S
  <1>2. Only(Append(q, p), S) = IF p \in S THEN Append(Only(q, S), p) ELSE Only(q, S)
    BY OnlyAppend
  <1>3. Only(q, S) \in Seq(Packet \cap S)
    BY OnlyType
  <1>4. Len(Only(q, S)) \in Nat /\ Len(Append(Only(q, S), p)) = Len(Only(q, S)) + 1
    BY <1>3, LenProperties
  <1> QED
    BY <1>1, <1>2, <1>4 DEF Number, S

\* One packet less.
LEMMA NumberRemoveAt ==
  ASSUME NEW q \in Seq(Packet), NEW i \in DOMAIN q, NEW kind, NEW frames
  PROVE  /\ RemoveAt(q, i) \in Seq(Packet) /\ q[i] \in Packet
         /\ Number(RemoveAt(q, i), kind, frames) \in Nat
         /\ Number(q, kind, frames) = Number(RemoveAt(q, i), kind, frames)
              + (IF q[i].kind = kind /\ q[i].frame \in frames THEN 1 ELSE 0)
  <1> DEFINE S == [link : Link, kind : {kind}, name : {"echo"}, frame : frames]
  <1>1. q[i] \in Packet
    BY OnlyRemoveAt
  <1>2. q[i] \in S <=> q[i].kind = kind /\ q[i].frame \in frames
    BY <1>1 DEF Packet
  <1> HIDE DEF S
  <1>3. /\ RemoveAt(q, i) \in Seq(Packet)
        /\ Len(Only(q, S)) \in Nat /\ Len(Only(RemoveAt(q, i), S)) \in Nat
        /\ Len(Only(q, S)) = Len(Only(RemoveAt(q, i), S)) + (IF q[i] \in S THEN 1 ELSE 0)
    BY OnlyRemoveAt
  <1>4. /\ Number(q, kind, frames) = Len(Only(q, S))
        /\ Number(RemoveAt(q, i), kind, frames) = Len(Only(RemoveAt(q, i), S))
    BY DEF Number, S
  <1> QED
    BY <1>1, <1>2, <1>3, <1>4
-----------------------------------------------------------------------------
(* Places. *)

\* The two places of one queue hold packets of different kinds.
LEMMA TwinProperties ==
  ASSUME NEW k \in 2 .. 32
  PROVE  /\ Twin(k) \in 2 .. 32 /\ Twin(Twin(k)) = k
         /\ Twin(k) # k => KindAt(Twin(k)) # KindAt(k)
         /\ Twin(k) # k + 1 /\ Twin(k) # k - 1
  BY SMTT(30) DEF Twin, KindAt

LEMMA SameQueue ==
  ASSUME NEW k \in 2 .. 32
  PROVE  QueueAt(Twin(k)) = QueueAt(k)
  <1>1. k \in {4, 5, 6, 7, 10, 11, 12, 13, 20, 21, 22, 23, 26, 27, 28, 29} \/ Twin(k) = k
    BY DEF Twin
  <1> QED
    BY <1>1 DEF Twin, QueueAt

PacketsIn(k) == PacketsAt(k) \cup PacketsAt(Twin(k))

LEMMA PacketTypes ==
  ASSUME NEW k \in 2 .. 32
  PROVE  /\ PacketsIn(k) \subseteq Packet
         /\ PacketsIn(Twin(k)) = PacketsIn(k)
         /\ \A p \in PacketsAt(k) : /\ p \in Packet /\ p.kind = KindAt(k) /\ p.frame \in Frame
                                    /\ p.link = LinkAt(k)
  <1>1. \A j \in 2 .. 32 : LinkAt(j) \in Link
    BY DEF LinkAt, Link
  <1>2. \A j \in 2 .. 32 : \A p \in PacketsAt(j) :
          p \in Packet /\ p.kind = KindAt(j) /\ p.frame \in Frame /\ p.link = LinkAt(j)
    BY <1>1 DEF PacketsAt, Packet, KindAt
  <1> QED
    BY <1>2, TwinProperties DEF PacketsIn

\* 1 if frame f is at place j, and that is k, and among the frames that are counted.
OneAt(k, j, f, F) == IF k = j /\ f \in F THEN 1 ELSE 0

\* A packet is taken from a queue that is place j, and place k.
LEMMA TakenFrom ==
  ASSUME NEW j \in 2 .. 32, NEW k \in {j, Twin(j)}, NEW q \in Seq(PacketsIn(j)),
         NEW i \in DOMAIN q, q[i] \in PacketsAt(j), NEW F
  PROVE  /\ RemoveAt(q, i) \in Seq(PacketsIn(k))
         /\ Number(q, KindAt(k), F) \in Nat /\ Number(RemoveAt(q, i), KindAt(k), F) \in Nat
         /\ Number(q, KindAt(k), F) = Number(RemoveAt(q, i), KindAt(k), F) + OneAt(k, j, q[i].frame, F)
  <1>1. PacketsIn(k) = PacketsIn(j) /\ q \in Seq(Packet) /\ q[i].kind = KindAt(j)
    BY PacketTypes, SeqMonotonic
  <1>2. RemoveAt(q, i) \in Seq(PacketsIn(j))
    BY OnlyRemoveAt
  <1>3. /\ Number(RemoveAt(q, i), KindAt(k), F) \in Nat
        /\ Number(q, KindAt(k), F) = Number(RemoveAt(q, i), KindAt(k), F)
              + (IF q[i].kind = KindAt(k) /\ q[i].frame \in F THEN 1 ELSE 0)
    BY <1>1, NumberRemoveAt
  <1>4. q[i].kind = KindAt(k) <=> k = j
    BY <1>1, TwinProperties
  <1> QED
    BY <1>1, <1>2, <1>3, <1>4 DEF OneAt

\* A packet is put into a queue that is place j, and place k.
LEMMA PutInto ==
  ASSUME NEW j \in 2 .. 32, NEW k \in {j, Twin(j)}, NEW q \in Seq(PacketsIn(j)),
         NEW p \in PacketsAt(j), NEW F
  PROVE  /\ Append(q, p) \in Seq(PacketsIn(k))
         /\ Number(q, KindAt(k), F) \in Nat
         /\ Number(Append(q, p), KindAt(k), F) = Number(q, KindAt(k), F) + OneAt(k, j, p.frame, F)
  <1>1. PacketsIn(k) = PacketsIn(j) /\ q \in Seq(Packet) /\ p.kind = KindAt(j) /\ p \in Packet
    BY PacketTypes, SeqMonotonic
  <1>2. Append(q, p) \in Seq(PacketsIn(j))
    BY AppendProperties DEF PacketsIn
  <1>3. /\ Number(q, KindAt(k), F) \in Nat
        /\ Number(Append(q, p), KindAt(k), F) = Number(q, KindAt(k), F)
              + (IF p.kind = KindAt(k) /\ p.frame \in F THEN 1 ELSE 0)
    BY <1>1, NumberAppend
  <1>4. p.kind = KindAt(k) <=> k = j
    BY <1>1, TwinProperties
  <1> QED
    BY <1>1, <1>2, <1>3, <1>4 DEF OneAt

LEMMA NumberType ==
  ASSUME NEW k \in 2 .. 32, NEW q \in Seq(PacketsIn(k)), NEW F
  PROVE  Number(q, KindAt(k), F) \in Nat
  <1>1. q \in Seq(Packet)
    BY PacketTypes, SeqMonotonic
  <1>2. Only(q, [link : Link, kind : {KindAt(k)}, name : {"echo"}, frame : F])
          \in Seq(Packet \cap [link : Link, kind : {KindAt(k)}, name : {"echo"}, frame : F])
    BY <1>1, OnlyType
  <1> QED
    BY <1>2, LenProperties DEF Number

LEMMA FramesAreFinite ==
  ASSUME NEW F \in SUBSET Frame
  PROVE  IsFiniteSet(F) /\ Cardinality(F) \in Nat /\ Cardinality(F) <= 4
  <1>1. 0 \in Int /\ LastFrame \in Int /\ ~(0 > LastFrame) /\ LastFrame - 0 + 1 = 4
    BY DEF LastFrame
  <1>2. IsFiniteSet(Frame) /\ Cardinality(Frame) = 4
    BY <1>1, FS_Interval DEF Frame
  <1> QED
    BY <1>2, FS_Subset, FS_CardinalityType

LEMMA CountType ==
  ASSUME InPlace, NEW k \in Places, NEW F
  PROVE  Count(k, F) \in Nat
  <1>1. CASE k = 1
    <2>1. unsent \cap F \in SUBSET Frame
      BY DEF InPlace
    <2> QED
      BY <1>1, <2>1, FramesAreFinite DEF Count
  <1>2. CASE k # 1
    <2>1. k \in 2 .. 32
      BY <1>2 DEF Places
    <2>2. QueueAt(k) \in Seq(PacketsIn(k))
      BY <2>1 DEF InPlace, PacketsIn
    <2> QED
      BY <1>2, <2>1, <2>2, NumberType DEF Count
  <1> QED
    BY <1>1, <1>2
-----------------------------------------------------------------------------
(* What is logged. *)

\* What is logged as a packet goes on from place j: by the thread that hands it on.
Hop(j) ==
  CASE j = 1  -> {Entry("message", "echo1")}
    [] j = 2  -> {Entry("message", "link5")}
    [] j = 3  -> {Entry("message", "link4")}
    [] j = 4  -> {Entry("message", "router1"), Entry("forward_request_upstream", "router1")}
    [] j = 6  -> {Entry("message", "router1")}
    [] j = 8  -> {Entry("message", "link3")}
    [] j = 9  -> {Entry("message", "link2")}
    [] j = 10 -> {Entry("message", "router0"), Entry("forward_request_upstream", "router0")}
    [] j = 12 -> {Entry("message", "router0")}
    [] j = 14 -> {Entry("message", "link0")}
    [] j = 15 -> {Entry("message", "link1")}
    [] j = 16 -> {Entry("message", "echo0")}
    [] j = 17 -> {Entry("message", "echo0"), Entry("found_response_upstream", "echo0")}
    [] j = 18 -> {Entry("message", "link1")}
    [] j = 19 -> {Entry("message", "link0")}
    [] j = 20 -> {Entry("message", "router0")}
    [] j = 21 -> {Entry("forward_response_downstream", "router0")}
    [] j = 22 -> {Entry("message", "router0")}
    [] j = 24 -> {Entry("message", "link2")}
    [] j = 25 -> {Entry("message", "link3")}
    [] j = 26 -> {Entry("message", "router1")}
    [] j = 27 -> {Entry("forward_response_downstream", "router1")}
    [] j = 28 -> {Entry("message", "router1")}
    [] j = 30 -> {Entry("message", "link4")}
    [] j = 31 -> {Entry("message", "link5")}
    [] j = 32 -> {Entry("message", "echo1"), Entry("response_arrived_downstream", "echo1")}
    [] OTHER  -> {}

Labels == {"echo0", "echo1", "link0", "link1", "link2", "link3", "link4", "link5",
           "router0", "router1"}

LEMMA EntriesHaveLabels == \A e \in LogEntry : e.label \in Labels
  BY DEF LogEntry, Node, LinksOf, LinkOf, Link, Labels

\* 1 if it is the one, or one of them, else 0.
One(x, y)   == IF x = y THEN 1 ELSE 0
OneOf(x, S) == IF x \in S THEN 1 ELSE 0

\* AtHops counts what is logged.
LEMMA AtHopsType ==
  ASSUME NEW e \in LogEntry, NEW n \in [Places -> Nat]
  PROVE  AtHops(e, n) \in Nat
  <1>1. \A k \in 1 .. 32 : n[k] \in Nat
    BY DEF Places
  <1>2. MessageHops(e.label, n) \in Nat
    BY <1>1, EntriesHaveLabels DEF MessageHops, Labels
  <1> QED
    BY <1>1, <1>2 DEF AtHops

LEMMA AtHopsMonotone ==
  ASSUME NEW e \in LogEntry, NEW n \in [Places -> Nat], NEW m \in [Places -> Nat],
         \A k \in Places : n[k] <= m[k]
  PROVE  AtHops(e, n) <= AtHops(e, m)
  <1>1. \A k \in 1 .. 32 : n[k] \in Nat /\ m[k] \in Nat /\ n[k] <= m[k]
    BY DEF Places
  <1>2. MessageHops(e.label, n) <= MessageHops(e.label, m)
    <2>1. CASE e.label = "echo1"
      <3>1. n[1] + n[32] <= m[1] + m[32]
        BY <1>1
      <3> QED
        BY <2>1, <3>1 DEF MessageHops
    <2>2. CASE e.label = "link5"
      <3>1. n[2] + n[31] <= m[2] + m[31]
        BY <1>1
      <3> QED
        BY <2>2, <3>1 DEF MessageHops
    <2>3. CASE e.label = "link4"
      <3>1. n[3] + n[30] <= m[3] + m[30]
        BY <1>1
      <3> QED
        BY <2>3, <3>1 DEF MessageHops
    <2>4. CASE e.label = "link3"
      <3>1. n[8] + n[25] <= m[8] + m[25]
        BY <1>1
      <3> QED
        BY <2>4, <3>1 DEF MessageHops
    <2>5. CASE e.label = "link2"
      <3>1. n[9] + n[24] <= m[9] + m[24]
        BY <1>1
      <3> QED
        BY <2>5, <3>1 DEF MessageHops
    <2>6. CASE e.label = "link0"
      <3>1. n[14] + n[19] <= m[14] + m[19]
        BY <1>1
      <3> QED
        BY <2>6, <3>1 DEF MessageHops
    <2>7. CASE e.label = "link1"
      <3>1. n[15] + n[18] <= m[15] + m[18]
        BY <1>1
      <3> QED
        BY <2>7, <3>1 DEF MessageHops
    <2>8. CASE e.label = "echo0"
      <3>1. n[16] + n[17] <= m[16] + m[17]
        BY <1>1
      <3> QED
        BY <2>8, <3>1 DEF MessageHops
    <2>9. CASE e.label = "router1"
      <3>1. n[4] + n[6] + n[26] + n[28] <= m[4] + m[6] + m[26] + m[28]
        BY <1>1
      <3> QED
        BY <2>9, <3>1 DEF MessageHops
    <2>10. CASE e.label = "router0"
      <3>1. n[10] + n[12] + n[20] + n[22] <= m[10] + m[12] + m[20] + m[22]
        BY <1>1
      <3> QED
        BY <2>10, <3>1 DEF MessageHops
    <2> QED
      BY <2>1, <2>2, <2>3, <2>4, <2>5, <2>6, <2>7, <2>8, <2>9, <2>10, EntriesHaveLabels DEF Labels
  <1>3. CASE e.kind = "message"
    BY <1>2, <1>3 DEF AtHops
  <1>4. CASE e.kind # "message"
    BY <1>1, <1>4 DEF AtHops
  <1> QED
    BY <1>3, <1>4

\* When all four frames are past every place, what is expected is logged.
LEMMA AtHopsExpected ==
  ASSUME NEW e \in LogEntry
  PROVE  AtHops(e, [k \in Places |-> 4]) = Expected(e)
  <1> DEFINE n == [k \in Places |-> 4]
  <1>1. \A k \in 1 .. 32 : n[k] = 4
    BY DEF Places
  <1> HIDE DEF n
  <1>2. MessageHops(e.label, n) = IF e.label \in DOMAIN LinksOf THEN 16 ELSE 8
    BY <1>1, EntriesHaveLabels DEF MessageHops, Labels, LinksOf
  <1>3. CASE e.kind = "message"
    BY <1>2, <1>3 DEF AtHops, Expected
  <1>4. CASE e.kind # "message"
    BY <1>1, <1>4 DEF AtHops, Expected, LogEntry, LinksOf
  <1> QED
    BY <1>3, <1>4 DEF n

LEMMA AtHopsGrown ==
  ASSUME NEW e \in LogEntry, NEW n \in [Places -> Nat], NEW m \in [Places -> Nat],
         NEW j \in Places, \A k \in Places : m[k] = n[k] + One(k, j)
  PROVE  AtHops(e, m) = AtHops(e, n) + OneOf(e, Hop(j))
  <1>1. \A k \in 1 .. 32 : n[k] \in Nat /\ m[k] \in Nat /\ m[k] = n[k] + (IF k = j THEN 1 ELSE 0)
    BY DEF Places, One
  <1>2. e = Entry(e.kind, e.label)
    BY SMTT(30) DEF LogEntry, Entry
  <1>3. CASE e.kind = "message"
    <2>1. e \in Hop(j) <=> Entry("message", e.label) \in Hop(j)
      BY <1>2, <1>3
    <2> QED
      BY <1>1, <1>3, <2>1, EntriesHaveLabels DEF AtHops, MessageHops, Labels, Hop, Entry, Places, OneOf
  <1>4. CASE e.kind # "message"
    BY <1>1, <1>4, EntriesHaveLabels DEF AtHops, Hop, Entry, LogEntry, Labels, Places, OneOf
  <1> QED
    BY <1>3, <1>4
-----------------------------------------------------------------------------
(* Numbers of frames. *)

Counts(F) == [k \in Places |-> Count(k, F)]

\* The sums of the invariant are sums over the places of the way.
LEMMA PastIsAfter ==
  ASSUME NEW k \in 0 .. 32
  PROVE  /\ Past(k) = After(Counts(Frame), k, 32) + Len(responses) + Cardinality(Answered)
         /\ Past(k)' = After(Counts(Frame)', k, 32) + Len(responses') + Cardinality(Answered')
  <1>1. [j \in Places |-> IF j > k THEN Count(j, Frame) ELSE 0]
          = [j \in 1 .. 32 |-> IF j > k THEN Counts(Frame)[j] ELSE 0]
    BY DEF Counts, Places
  <1>2. [j \in Places |-> IF j > k THEN Count(j, Frame)' ELSE 0]
          = [j \in 1 .. 32 |-> IF j > k THEN Counts(Frame)'[j] ELSE 0]
    BY DEF Counts, Places
  <1> QED
    BY <1>1, <1>2 DEF Past, After, Places

LEMMA UnderWayIsAfter ==
  ASSUME NEW p \in T!Response
  PROVE  /\ UnderWay[p] = After(Counts({p.frame}), 0, 32)
         /\ UnderWay'[p] = After(Counts({p.frame})', 0, 32)
  <1>1. [j \in Places |-> Count(j, {p.frame})]
          = [j \in 1 .. 32 |-> IF j > 0 THEN Counts({p.frame})[j] ELSE 0]
    BY DEF Counts, Places
  <1>2. [j \in Places |-> Count(j, {p.frame})']
          = [j \in 1 .. 32 |-> IF j > 0 THEN Counts({p.frame})'[j] ELSE 0]
    BY DEF Counts, Places
  <1>3. p \in [name : {"echo"}, frame : Frame]
    BY DEF T!Response, T!Frame, Frame
  <1> QED
    BY <1>1, <1>2, <1>3 DEF UnderWay, After, Places

LEMMA CountsType ==
  ASSUME InPlace, NEW F
  PROVE  \A k \in 1 .. 32 : Counts(F)[k] \in Nat
  BY CountType DEF Counts, Places

\* There are natural numbers of everything.
LEMMA NumbersType ==
  ASSUME InPlace, CallOK
  PROVE  /\ \A k \in 0 .. 32 : Past(k) \in Nat /\ Past(k) <= Past(0)
         /\ Cardinality(Asked) \in Nat /\ Cardinality(Asked) <= 4
         /\ Cardinality(Answered) \in Nat
         /\ Len(responses) \in Nat
         /\ \A p \in T!Response : UnderWay[p] \in Nat
  <1>1. ASSUME NEW k \in 0 .. 32
        PROVE  /\ After(Counts(Frame), k, 32) \in Nat
               /\ After(Counts(Frame), k, 32) <= After(Counts(Frame), 0, 32)
    <2>1. \A j \in 1 .. 32 : Counts(Frame)[j] \in Nat
      BY CountsType
    <2>2. 32 \in Nat
      OBVIOUS
    <2> QED
      BY <2>1, <2>2, AfterProperties
  <1>2. ASSUME NEW p \in T!Response PROVE UnderWay[p] \in Nat
    <2>1. \A j \in 1 .. 32 : Counts({p.frame})[j] \in Nat
      BY CountsType
    <2>2. 32 \in Nat /\ 0 \in 0 .. 32
      OBVIOUS
    <2>3. After(Counts({p.frame}), 0, 32) \in Nat
      BY <2>1, <2>2, AfterProperties
    <2> QED
      BY <2>3, UnderWayIsAfter
  <1>3. Asked \in SUBSET Frame /\ Answered \in SUBSET Frame
    BY DEF Asked, Answered
  <1>4. Cardinality(Asked) \in Nat /\ Cardinality(Asked) <= 4 /\ Cardinality(Answered) \in Nat
    BY <1>3, FramesAreFinite
  <1>5. Len(responses) \in Nat
    BY LenProperties DEF CallOK
  <1>6. ASSUME NEW k \in 0 .. 32 PROVE Past(k) \in Nat /\ Past(k) <= Past(0)
    <2>1. 0 \in 0 .. 32
      OBVIOUS
    <2>2. Past(k) = After(Counts(Frame), k, 32) + Len(responses) + Cardinality(Answered)
      BY PastIsAfter
    <2>3. Past(0) = After(Counts(Frame), 0, 32) + Len(responses) + Cardinality(Answered)
      BY <2>1, PastIsAfter
    <2>4. After(Counts(Frame), 0, 32) \in Nat
      BY <1>1, <2>1
    <2>5. After(Counts(Frame), k, 32) \in Nat /\ After(Counts(Frame), k, 32) <= After(Counts(Frame), 0, 32)
      BY <1>1
    <2> DEFINE a == After(Counts(Frame), k, 32)
               b == After(Counts(Frame), 0, 32)
               c == Cardinality(Answered)
               d == Len(responses)
    <2>6. a \in Nat /\ b \in Nat /\ a <= b /\ c \in Nat /\ d \in Nat /\ Past(k) = a + d + c /\ Past(0) = b + d + c
      BY <1>4, <1>5, <2>2, <2>3, <2>4, <2>5
    <2> HIDE DEF a, b, c, d
    <2> QED
      BY <2>6
  <1> QED
    BY <1>2, <1>4, <1>5, <1>6

\* One frame goes on from place j to the next, and nothing else moves.
Moves(j, f) ==
  \A F \in SUBSET Frame :
    MovedAt(Counts(F)', Counts(F), j, IF f \in F THEN 1 ELSE 0, 32)

ResponseFor(f) == [name |-> "echo", frame |-> f]

LEMMA ResponseForProperties ==
  ASSUME NEW f \in Frame
  PROVE  /\ ResponseFor(f) \in T!Response /\ ResponseFor(f).frame = f
         /\ \A p \in T!Response : p.frame \in Frame /\ (p.frame = f <=> p = ResponseFor(f))
  BY DEF ResponseFor, T!Response, T!Frame, Frame

\* What the sums tell of a frame that goes on.
LEMMA GoesOn ==
  ASSUME InPlace, CallOK, NEW j \in 1 .. 32, NEW f \in Frame, Moves(j, f),
         responses' = IF j = 32 THEN Append(responses, ResponseFor(f)) ELSE responses,
         UNCHANGED <<phase, pending, window, worker>>
  PROVE  /\ \A k \in 0 .. 32 : Past(k) \in Nat /\ Past(k)' = Past(k) + One(k, j)
         /\ \A p \in T!Response :
              UnderWay'[p] \in Nat /\ UnderWay[p] = UnderWay'[p] + One(<<p.frame, 32>>, <<f, j>>)
         /\ UnderWay[ResponseFor(f)] >= 1
  <1>1. Answered' = Answered
    BY DEF Answered, Asked, T!Failed
  <1>2. Len(responses) \in Nat /\ Len(responses') = Len(responses) + (IF j = 32 THEN 1 ELSE 0)
    BY LenProperties, AppendProperties, ResponseForProperties DEF CallOK
  <1>3. Cardinality(Answered) \in Nat
    BY NumbersType
  <1>4. 32 \in Nat \ {0} /\ 32 \in Nat /\ 1 \in Nat /\ 0 \in Nat /\ 0 \in 0 .. 32
    OBVIOUS
  <1>5. ASSUME NEW F \in SUBSET Frame, NEW k \in 0 .. 32
        PROVE  LET by == IF f \in F THEN 1 ELSE 0
               IN  /\ After(Counts(F), k, 32) \in Nat /\ After(Counts(F)', k, 32) \in Nat
                   /\ After(Counts(F)', k, 32) + (IF j = 32 /\ k < 32 THEN by ELSE 0)
                        = After(Counts(F), k, 32) + (IF j < 32 /\ k = j THEN by ELSE 0)
                   /\ by <= After(Counts(F), 0, 32)
    <2> DEFINE by == IF f \in F THEN 1 ELSE 0
    <2>1. by \in Nat /\ MovedAt(Counts(F)', Counts(F), j, by, 32)
      BY DEF Moves
    <2> HIDE DEF by
    <2>2. /\ After(Counts(F), k, 32) \in Nat /\ After(Counts(F)', k, 32) \in Nat
          /\ After(Counts(F)', k, 32) + (IF j = 32 /\ k < 32 THEN by ELSE 0)
               = After(Counts(F), k, 32) + (IF j < 32 /\ k = j THEN by ELSE 0)
          /\ by <= After(Counts(F), 0, 32)
      BY <1>4, <2>1, MovedSums
    <2> QED
      BY <2>2 DEF by
  <1>6. ASSUME NEW k \in 0 .. 32 PROVE Past(k) \in Nat /\ Past(k)' = Past(k) + One(k, j)
    <2>1. /\ Past(k) = After(Counts(Frame), k, 32) + Len(responses) + Cardinality(Answered)
          /\ Past(k)' = After(Counts(Frame)', k, 32) + Len(responses') + Cardinality(Answered)
      BY <1>1, PastIsAfter
    <2>2. /\ After(Counts(Frame), k, 32) \in Nat /\ After(Counts(Frame)', k, 32) \in Nat
          /\ After(Counts(Frame)', k, 32) + (IF j = 32 /\ k < 32 THEN 1 ELSE 0)
               = After(Counts(Frame), k, 32) + (IF j < 32 /\ k = j THEN 1 ELSE 0)
      BY <1>5, ZenonT(60)
    <2> DEFINE a == After(Counts(Frame), k, 32)
               b == After(Counts(Frame)', k, 32)
               c == Cardinality(Answered)
               d == Len(responses)
               d1 == Len(responses')
    <2>3. /\ Past(k) = a + d + c /\ Past(k)' = b + d1 + c
          /\ a \in Nat /\ b \in Nat /\ c \in Nat /\ d \in Nat
          /\ d1 = d + (IF j = 32 THEN 1 ELSE 0)
          /\ b + (IF j = 32 /\ k < 32 THEN 1 ELSE 0) = a + (IF j < 32 /\ k = j THEN 1 ELSE 0)
      BY <1>2, <1>3, <2>1, <2>2
    <2>4. One(k, j) = IF k = j THEN 1 ELSE 0
      BY DEF One
    <2> HIDE DEF a, b, c, d, d1
    <2>5. a + d + c \in Nat /\ b + d1 + c = a + d + c + One(k, j)
      BY <2>3, <2>4
    <2> QED
      BY <2>3, <2>5
  <1>7. ASSUME NEW p \in T!Response
        PROVE  /\ UnderWay'[p] \in Nat /\ UnderWay[p] \in Nat
               /\ UnderWay[p] = UnderWay'[p] + One(<<p.frame, 32>>, <<f, j>>)
               /\ p.frame = f => UnderWay[p] >= 1
    <2>1. {p.frame} \in SUBSET Frame /\ (f \in {p.frame} <=> p.frame = f)
      BY ResponseForProperties
    <2>2. /\ UnderWay[p] = After(Counts({p.frame}), 0, 32)
          /\ UnderWay'[p] = After(Counts({p.frame})', 0, 32)
      BY UnderWayIsAfter
    <2> DEFINE by == IF f \in {p.frame} THEN 1 ELSE 0
    <2>3. /\ After(Counts({p.frame}), 0, 32) \in Nat /\ After(Counts({p.frame})', 0, 32) \in Nat
          /\ After(Counts({p.frame})', 0, 32) + (IF j = 32 /\ 0 < 32 THEN by ELSE 0)
               = After(Counts({p.frame}), 0, 32) + (IF j < 32 /\ 0 = j THEN by ELSE 0)
          /\ by <= After(Counts({p.frame}), 0, 32)
      BY <1>4, <1>5, <2>1
    <2>4. One(<<p.frame, 32>>, <<f, j>>) = IF j = 32 /\ p.frame = f THEN 1 ELSE 0
      BY DEF One
    <2> DEFINE a == After(Counts({p.frame}), 0, 32)
               b == After(Counts({p.frame})', 0, 32)
               here == p.frame = f
               last == j = 32
    <2>5. /\ UnderWay[p] = a /\ UnderWay'[p] = b /\ a \in Nat /\ b \in Nat
          /\ b + (IF last /\ here THEN 1 ELSE 0) = a
          /\ here => a >= 1
          /\ One(<<p.frame, 32>>, <<f, j>>) = IF last /\ here THEN 1 ELSE 0
      BY <2>1, <2>2, <2>3, <2>4
    <2> HIDE DEF a, b, last
    <2> QED
      BY <2>5
  <1> QED
    BY <1>6, <1>7, ResponseForProperties

\* The call waits for a frame that is somewhere.
LEMMA CallWaits ==
  ASSUME InPlace, CallOK, FramesOnce, NEW p \in T!Response,
         UnderWay[p] >= 1 \/ Len(Only(responses, {p})) >= 1
  PROVE  /\ p.frame \in T!Failed("ping")
         /\ UnderWay[p] + Len(Only(responses, {p})) = 1
         /\ phase["ping"] \in {"waiting", "failed"}
         /\ ~ended
  <1>1. UnderWay[p] \in Nat
    BY NumbersType
  <1>2. Len(Only(responses, {p})) \in Nat
    BY OnlyType, LenProperties DEF CallOK
  <1>3. UnderWay[p] + Len(Only(responses, {p})) <= IF p.frame \in T!Failed("ping") THEN 1 ELSE 0
    BY DEF FramesOnce
  <1>4. p.frame \in T!Failed("ping") /\ UnderWay[p] + Len(Only(responses, {p})) = 1
    BY <1>1, <1>2, <1>3
  <1>5. phase["ping"] \in T!Phase /\ window["ping"] # {}
    BY <1>4 DEF CallOK, T!Failed
  <1> QED
    BY <1>4, <1>5 DEF CallOK, T!Phase

\* What becomes of a router; `more` if it forwards a request.
Relayed(before, after, asker, asked, more) ==
  /\ IsRelay(after, asker, asked)
  /\ more \/ HasRelayed(before, asker, asked) => HasRelayed(after, asker, asked)
  /\ after.freq["echo"][Nothing] = before.freq["echo"][Nothing] + (IF more THEN 1 ELSE 0)

RoutersAt(j) ==
  /\ router1' \in B1!RouterTables /\ Relayed(router1, router1', "link4", "link3", j = 4)
  /\ router0' \in B0!RouterTables /\ Relayed(router0, router0', "link2", "link0", j = 10)

LEMMA RequestsType ==
  ASSUME RoutersOK
  PROVE  router1.freq["echo"][Nothing] \in Nat /\ router0.freq["echo"][Nothing] \in Nat
  BY DEF RoutersOK, B1!RouterTables, B1!Class, B0!RouterTables, B0!Class

\* A frame that goes on keeps the invariant, if the thread logs it.
LEMMA GoesOnKeeps ==
  ASSUME IndInv, InPlace', NEW j \in 1 .. 32, NEW f \in Frame, Moves(j, f),
         responses' = IF j = 32 THEN Append(responses, ResponseFor(f)) ELSE responses,
         UNCHANGED <<phase, goal, pending, window, size, worker, ended, losses>>,
         Logged(Hop(j)), RoutersAt(j)
  PROVE  IndInv'
  <1>1. /\ InPlace /\ CallOK /\ FramesOnce /\ FramesKept /\ RoutersOK /\ LogFollows
        /\ losses \in Nat /\ losses' = losses
    BY DEF IndInv, FramesKept
  <1>2. /\ \A k \in 0 .. 32 : Past(k) \in Nat /\ Past(k)' = Past(k) + One(k, j)
        /\ \A p \in T!Response :
              UnderWay'[p] \in Nat /\ UnderWay[p] = UnderWay'[p] + One(<<p.frame, 32>>, <<f, j>>)
        /\ UnderWay[ResponseFor(f)] >= 1
    BY <1>1, GoesOn
  <1>3. CallOK'
    <2>1. responses' \in Seq(T!Response)
      BY <1>1, AppendProperties, ResponseForProperties DEF CallOK
    <2> QED
      BY <1>1, <2>1 DEF CallOK, T!Failed
  <1>4. FramesOnce'
    <2>1. ASSUME NEW p \in T!Response
          PROVE  /\ Len(Only(responses, {p})) \in Nat
                 /\ Len(Only(responses', {p}))
                      = Len(Only(responses, {p})) + One(<<p.frame, 32>>, <<f, j>>)
      <3>1. Only(responses, {p}) \in Seq(T!Response \cap {p})
        BY <1>1, OnlyType DEF CallOK
      <3>2. Only(Append(responses, ResponseFor(f)), {p})
              = IF ResponseFor(f) \in {p} THEN Append(Only(responses, {p}), ResponseFor(f))
                                           ELSE Only(responses, {p})
        BY <1>1, OnlyAppend, ResponseForProperties DEF CallOK
      <3>3. /\ Len(Only(responses, {p})) \in Nat
            /\ Len(Append(Only(responses, {p}), ResponseFor(f))) = Len(Only(responses, {p})) + 1
        BY <3>1, LenProperties, AppendProperties
      <3>4. ResponseFor(f) \in {p} <=> p.frame = f
        BY ResponseForProperties
      <3>5. One(<<p.frame, 32>>, <<f, j>>) = IF j = 32 /\ p.frame = f THEN 1 ELSE 0
        BY DEF One
      <3> QED
        BY <3>2, <3>3, <3>4, <3>5
    <2>2. T!Failed("ping")' = T!Failed("ping")
      BY DEF T!Failed
    <2>3. ASSUME NEW p \in T!Response
          PROVE  UnderWay'[p] + Len(Only(responses', {p}))
                   <= IF p.frame \in T!Failed("ping") THEN 1 ELSE 0
      <3>1. UnderWay[p] + Len(Only(responses, {p})) <= IF p.frame \in T!Failed("ping") THEN 1 ELSE 0
        BY <1>1 DEF FramesOnce
      <3>2. One(<<p.frame, 32>>, <<f, j>>) \in Nat
        BY DEF One
      <3>3. UnderWay'[p] \in Nat /\ UnderWay[p] = UnderWay'[p] + One(<<p.frame, 32>>, <<f, j>>)
        BY <1>2
      <3> DEFINE bound == IF p.frame \in T!Failed("ping") THEN 1 ELSE 0
                 a == UnderWay[p]
                 b == UnderWay'[p]
                 c == Len(Only(responses, {p}))
                 d == Len(Only(responses', {p}))
                 o == One(<<p.frame, 32>>, <<f, j>>)
      <3>4. bound \in Nat
        OBVIOUS
      <3>5. a + c <= bound /\ b \in Nat /\ a = b + o /\ c \in Nat /\ d = c + o /\ o \in Nat
        BY <2>1, <3>1, <3>2, <3>3
      <3> HIDE DEF bound, a, b, c, d, o
      <3>6. b + d <= bound
        BY <3>4, <3>5
      <3> QED
        BY <3>6 DEF bound, b, d
    <2> QED
      BY <2>2, <2>3 DEF FramesOnce
  <1>5. FramesKept'
    <2>1. Asked' = Asked
      BY DEF Asked
    <2>2. Past(0)' = Past(0)
      <3>1. 0 \in 0 .. 32 /\ One(0, j) = 0
        BY DEF One
      <3>2. Past(0) \in Nat /\ Past(0)' = Past(0) + One(0, j)
        BY <1>2, <3>1
      <3> QED
        BY <3>1, <3>2
    <2> QED
      BY <1>1, <2>1, <2>2 DEF FramesKept
  <1>6. RoutersOK'
    <2>1. /\ Past(4) \in Nat /\ Past(4)' = Past(4) + (IF j = 4 THEN 1 ELSE 0)
          /\ Past(10) \in Nat /\ Past(10)' = Past(10) + (IF j = 10 THEN 1 ELSE 0)
      <3>1. 4 \in 0 .. 32 /\ 10 \in 0 .. 32
        OBVIOUS
      <3>2. One(4, j) = (IF j = 4 THEN 1 ELSE 0) /\ One(10, j) = (IF j = 10 THEN 1 ELSE 0)
        BY DEF One
      <3>3. /\ Past(4) \in Nat /\ Past(4)' = Past(4) + One(4, j)
            /\ Past(10) \in Nat /\ Past(10)' = Past(10) + One(10, j)
        BY <1>2, <3>1
      <3> QED
        BY <3>2, <3>3
    <2>2. router1.freq["echo"][Nothing] \in Nat /\ router0.freq["echo"][Nothing] \in Nat
      BY <1>1, RequestsType
    <2>3. /\ Past(4)' > 0 => HasRelayed(router1', "link4", "link3")
          /\ Past(10)' > 0 => HasRelayed(router0', "link2", "link0")
      BY <1>1, <2>1 DEF RoutersOK, RoutersAt, Relayed
    <2>4. /\ router1'.freq["echo"][Nothing] <= Past(4)' + losses'
          /\ router0'.freq["echo"][Nothing] <= Past(10)' + losses'
      <3>1. /\ router1.freq["echo"][Nothing] <= Past(4) + losses
            /\ router0.freq["echo"][Nothing] <= Past(10) + losses
        BY <1>1 DEF RoutersOK
      <3>2. /\ router1'.freq["echo"][Nothing] = router1.freq["echo"][Nothing] + (IF j = 4 THEN 1 ELSE 0)
            /\ router0'.freq["echo"][Nothing] = router0.freq["echo"][Nothing] + (IF j = 10 THEN 1 ELSE 0)
        BY DEF RoutersAt, Relayed
      <3> QED
        BY <1>1, <2>1, <2>2, <3>1, <3>2, SMTT(30)
    <2> QED
      BY <2>3, <2>4 DEF RoutersOK, RoutersAt, Relayed
  <1>7. LogFollows'
    <2>1. ~ended
      BY <1>1, <1>2, CallWaits, ResponseForProperties
    <2> DEFINE n == [k \in Places |-> Past(k)]
               m == [k \in Places |-> Past(k)']
               nl == [k \in Places |-> Past(k) + losses]
               ml == [k \in Places |-> Past(k)' + losses']
    <2>2. /\ n \in [Places -> Nat] /\ m \in [Places -> Nat]
          /\ nl \in [Places -> Nat] /\ ml \in [Places -> Nat]
          /\ \A k \in Places : /\ m[k] = n[k] + One(k, j)
                               /\ ml[k] = nl[k] + One(k, j)
      <3>1. ASSUME NEW k \in Places
            PROVE  /\ Past(k) \in Nat /\ Past(k)' \in Nat /\ losses' = losses /\ losses \in Nat
                   /\ Past(k)' = Past(k) + One(k, j) /\ Past(k)' + losses' = Past(k) + losses + One(k, j)
        <4>1. k \in 0 .. 32 /\ One(k, j) \in Nat
          BY DEF Places, One
        <4>2. Past(k) \in Nat /\ Past(k)' = Past(k) + One(k, j)
          BY <1>2, <4>1
        <4> QED
          BY <1>1, <4>1, <4>2
      <3> QED
        BY <3>1
    <2>3. j \in Places
      BY DEF Places
    <2>4. /\ log \in [LogEntry -> Nat]
          /\ \A e \in LogEntry : AtHops(e, n) <= log[e] /\ log[e] <= AtHops(e, nl)
      BY <1>1 DEF LogFollows
    <2> HIDE DEF n, m, nl, ml
    <2>5. /\ log' \in [LogEntry -> Nat]
          /\ \A e \in LogEntry : log'[e] = log[e] + OneOf(e, Hop(j))
      BY <2>1, <2>4 DEF Logged, OneOf
    <2>6. ASSUME NEW e \in LogEntry PROVE AtHops(e, m) <= log'[e] /\ log'[e] <= AtHops(e, ml)
      <3>1. /\ AtHops(e, n) \in Nat /\ AtHops(e, nl) \in Nat
            /\ AtHops(e, m) = AtHops(e, n) + OneOf(e, Hop(j))
            /\ AtHops(e, ml) = AtHops(e, nl) + OneOf(e, Hop(j))
        BY <2>2, <2>3, AtHopsType, AtHopsGrown
      <3>2. OneOf(e, Hop(j)) \in Nat
        BY DEF OneOf
      <3> QED
        BY <2>4, <2>5, <3>1, <3>2
    <2> QED
      BY <2>5, <2>6 DEF LogFollows, n, m, nl, ml
  <1> QED
    BY <1>3, <1>4, <1>5, <1>6, <1>7 DEF IndInv
-----------------------------------------------------------------------------
(* How packets go from place to place. *)

\* A packet leaves place j, or comes to it, and queues that are no place in S stay.
Takes(j, i) ==
  /\ i \in DOMAIN QueueAt(j)
  /\ QueueAt(j)[i] \in PacketsAt(j)
  /\ QueueAt(j)' = RemoveAt(QueueAt(j), i)

Puts(j, p) ==
  /\ p \in PacketsAt(j)
  /\ QueueAt(j)' = Append(QueueAt(j), p)

KeepsBut(S) == \A k \in (2 .. 32) \ S : QueueAt(k)' = QueueAt(k)

LEMMA TwinQueue ==
  ASSUME NEW j \in 2 .. 32, NEW k \in {j, Twin(j)}
  PROVE  k \in 2 .. 32 /\ QueueAt(k) = QueueAt(j) /\ QueueAt(k)' = QueueAt(j)'
  <1>1. j \in {4, 5, 6, 7, 10, 11, 12, 13, 20, 21, 22, 23, 26, 27, 28, 29} \/ k = j
    BY DEF Twin
  <1> QED
    BY <1>1, TwinProperties DEF Twin, QueueAt

LEMMA TakesCounts ==
  ASSUME InPlace, NEW j \in 2 .. 32, NEW i, Takes(j, i), NEW k \in {j, Twin(j)}, NEW F
  PROVE  /\ QueueAt(k)' \in Seq(PacketsIn(k))
         /\ Count(k, F) \in Nat /\ Count(k, F)' \in Nat
         /\ Count(k, F) = Count(k, F)' + OneAt(k, j, QueueAt(j)[i].frame, F)
  <1>1. k \in 2 .. 32 /\ QueueAt(k) = QueueAt(j) /\ QueueAt(k)' = QueueAt(j)'
    BY TwinQueue
  <1>2. QueueAt(j) \in Seq(PacketsIn(j))
    BY DEF InPlace, PacketsIn
  <1> DEFINE q == QueueAt(j)
             r == QueueAt(j)'
  <1>3. q \in Seq(PacketsIn(j)) /\ i \in DOMAIN q /\ q[i] \in PacketsAt(j) /\ r = RemoveAt(q, i)
    BY <1>2 DEF Takes
  <1>4. k # 1 /\ Count(k, F) = Number(q, KindAt(k), F) /\ Count(k, F)' = Number(r, KindAt(k), F)
    BY <1>1 DEF Count
  <1> HIDE DEF q, r
  <1>5. /\ RemoveAt(q, i) \in Seq(PacketsIn(k))
        /\ Number(q, KindAt(k), F) \in Nat /\ Number(RemoveAt(q, i), KindAt(k), F) \in Nat
        /\ Number(q, KindAt(k), F) = Number(RemoveAt(q, i), KindAt(k), F) + OneAt(k, j, q[i].frame, F)
    BY <1>3, TakenFrom
  <1>6. QueueAt(k)' = r /\ QueueAt(j)[i] = q[i]
    BY <1>1 DEF q, r
  <1> QED
    BY <1>3, <1>4, <1>5, <1>6

LEMMA PutsCounts ==
  ASSUME InPlace, NEW j \in 2 .. 32, NEW p, Puts(j, p), NEW k \in {j, Twin(j)}, NEW F
  PROVE  /\ QueueAt(k)' \in Seq(PacketsIn(k))
         /\ Count(k, F) \in Nat /\ Count(k, F)' \in Nat
         /\ Count(k, F)' = Count(k, F) + OneAt(k, j, p.frame, F)
  <1>1. k \in 2 .. 32 /\ QueueAt(k) = QueueAt(j) /\ QueueAt(k)' = QueueAt(j)'
    BY TwinQueue
  <1>2. QueueAt(j) \in Seq(PacketsIn(j))
    BY DEF InPlace, PacketsIn
  <1> DEFINE q == QueueAt(j)
             r == QueueAt(j)'
  <1>3. q \in Seq(PacketsIn(j)) /\ p \in PacketsAt(j) /\ r = Append(q, p)
    BY <1>2 DEF Puts
  <1>4. k # 1 /\ Count(k, F) = Number(q, KindAt(k), F) /\ Count(k, F)' = Number(r, KindAt(k), F)
    BY <1>1 DEF Count
  <1> HIDE DEF q, r
  <1>5. /\ Append(q, p) \in Seq(PacketsIn(k))
        /\ Number(q, KindAt(k), F) \in Nat
        /\ Number(Append(q, p), KindAt(k), F) = Number(q, KindAt(k), F) + OneAt(k, j, p.frame, F)
    BY <1>3, PutInto
  <1>6. QueueAt(k)' = r
    BY <1>1 DEF r
  <1>7. OneAt(k, j, p.frame, F) \in Nat
    BY DEF OneAt
  <1> QED
    BY <1>3, <1>4, <1>5, <1>6, <1>7

LEMMA KeptCounts ==
  ASSUME InPlace, NEW k \in 2 .. 32, QueueAt(k)' = QueueAt(k), NEW F
  PROVE  /\ QueueAt(k)' \in Seq(PacketsIn(k))
         /\ Count(k, F) \in Nat /\ Count(k, F)' = Count(k, F)
  <1>1. k \in Places /\ k # 1
    BY DEF Places
  <1>2. Count(k, F) \in Nat
    BY <1>1, CountType
  <1> QED
    BY <1>1, <1>2 DEF InPlace, PacketsIn, Count

LEMMA UnsentCounts ==
  ASSUME InPlace, unsent' = unsent, NEW F
  PROVE  Count(1, F) \in Nat /\ Count(1, F)' = Count(1, F)
  <1>1. 1 \in Places
    BY DEF Places
  <1> QED
    BY <1>1, CountType DEF Count

\* The i-th packet at place j goes on, as p, and the thread that hands it on logs it.
Goes(j, i, p) ==
  /\ Takes(j, i) /\ Puts(j + 1, p) /\ p.frame = QueueAt(j)[i].frame
  /\ KeepsBut({j, Twin(j), j + 1, Twin(j + 1)})

LEMMA GoesMoves ==
  ASSUME InPlace, NEW j \in 2 .. 31, NEW i, NEW p, Goes(j, i, p), unsent' = unsent
  PROVE  /\ p.frame \in Frame /\ Moves(j, p.frame)
         /\ \A k \in 2 .. 32 : QueueAt(k)' \in Seq(PacketsIn(k))
  <1>1. j \in 2 .. 32 /\ j + 1 \in 2 .. 32
    OBVIOUS
  <1>2. p.frame \in Frame
    BY DEF Goes, Puts, PacketsAt
  <1>3. /\ Twin(j) \in 2 .. 32 /\ Twin(j + 1) \in 2 .. 32 /\ j \notin {j + 1, Twin(j + 1)}
        /\ Twin(j) \notin {j + 1, Twin(j + 1)}
    BY <1>1 DEF Twin
  <1>4. ASSUME NEW k \in 2 .. 32, NEW F
        PROVE  /\ QueueAt(k)' \in Seq(PacketsIn(k))
               /\ Count(k, F) \in Nat /\ Count(k, F)' \in Nat
               /\ Count(k, F)' + OneAt(k, j, p.frame, F)
                    = Count(k, F) + OneAt(k, j + 1, p.frame, F)
    <2>1. CASE k \in {j, Twin(j)}
      <3>1. OneAt(k, j + 1, p.frame, F) = 0
        BY <1>3, <2>1 DEF OneAt
      <3>2. Takes(j, i) /\ QueueAt(j)[i].frame = p.frame
        BY DEF Goes
      <3>3. k \in {j, Twin(j)} /\ j \in 2 .. 32
        BY <2>1
      <3>4. /\ QueueAt(k)' \in Seq(PacketsIn(k))
            /\ Count(k, F) \in Nat /\ Count(k, F)' \in Nat
            /\ Count(k, F) = Count(k, F)' + OneAt(k, j, QueueAt(j)[i].frame, F)
        BY <3>2, <3>3, TakesCounts, SMTT(30)
      <3> QED
        BY <3>1, <3>2, <3>4
    <2>2. CASE k \in {j + 1, Twin(j + 1)}
      <3>1. OneAt(k, j, p.frame, F) = 0
        BY <1>3, <2>2 DEF OneAt
      <3> DEFINE next == j + 1
      <3>2. next \in 2 .. 32 /\ k \in {next, Twin(next)} /\ Puts(next, p)
        BY <1>1, <2>2 DEF Goes
      <3>3. /\ QueueAt(k)' \in Seq(PacketsIn(k))
            /\ Count(k, F) \in Nat /\ Count(k, F)' \in Nat
            /\ Count(k, F)' = Count(k, F) + OneAt(k, next, p.frame, F)
        <4> HIDE DEF next
        <4> QED
          BY <3>2, PutsCounts, ZenonT(60)
      <3> QED
        BY <3>1, <3>3
    <2>3. CASE k \notin {j, Twin(j), j + 1, Twin(j + 1)}
      <3>1. QueueAt(k)' = QueueAt(k)
        BY <2>3 DEF Goes, KeepsBut
      <3>2. OneAt(k, j, p.frame, F) = 0 /\ OneAt(k, j + 1, p.frame, F) = 0
        BY <2>3 DEF OneAt
      <3> QED
        BY <3>1, <3>2, KeptCounts
    <2> QED
      BY <2>1, <2>2, <2>3
  <1>5. ASSUME NEW F \in SUBSET Frame, NEW k \in 1 .. 32
        PROVE  LET by == IF p.frame \in F THEN 1 ELSE 0
               IN  /\ Counts(F)[k] \in Nat /\ Counts(F)'[k] \in Nat
                   /\ Counts(F)'[k] + (IF k = j THEN by ELSE 0)
                        = Counts(F)[k] + (IF k = j + 1 THEN by ELSE 0)
    <2>1. k \in Places /\ Counts(F)[k] = Count(k, F) /\ Counts(F)'[k] = Count(k, F)'
      BY DEF Counts, Places
    <2>2. CASE k = 1
      <3>1. Count(k, F) \in Nat /\ Count(k, F)' = Count(k, F)
        BY <2>2, UnsentCounts
      <3> QED
        BY <2>1, <2>2, <3>1
    <2>3. CASE k # 1
      <3>1. k \in 2 .. 32
        BY <2>3
      <3> QED
        BY <1>4, <2>1, <3>1 DEF OneAt
    <2> QED
      BY <2>2, <2>3
  <1> QED
    BY <1>2, <1>4, <1>5 DEF Moves, MovedAt

\* The channels are functions, of the links and protocols there are.
Shapes ==
  /\ p2l = [p \in DOMAIN LinkOf |-> p2l[p]] /\ l2p = [p \in DOMAIN LinkOf |-> l2p[p]]
  /\ sent = [l \in Link |-> sent[l]]
  /\ chan0 = [l \in LinksOf.router0 |-> chan0[l]] /\ chan1 = [l \in LinksOf.router1 |-> chan1[l]]

LEMMA InPlaceShapes ==
  ASSUME InPlace
  PROVE  Shapes
  BY DEF InPlace, Shapes

LEMMA ShapesInPlace ==
  ASSUME Shapes', unsent' \in SUBSET Frame,
         \A k \in 2 .. 32 : QueueAt(k)' \in Seq(PacketsIn(k))
  PROVE  InPlace'
  <1>1. \A k \in 2 .. 32 : QueueAt(k)' \in Seq(Packet)
    BY PacketTypes, SeqMonotonic
  <1>2. p2l' \in [DOMAIN LinkOf -> Seq(Packet)]
    <2>1. p2l'["echo1"] = QueueAt(2)' /\ p2l'["echo0"] = QueueAt(18)'
      BY DEF QueueAt
    <2>2. DOMAIN LinkOf = {"echo0", "echo1"} /\ 2 \in 2 .. 32 /\ 18 \in 2 .. 32
      BY DEF LinkOf
    <2> QED
      BY <1>1, <2>1, <2>2 DEF Shapes
  <1>3. l2p' \in [DOMAIN LinkOf -> Seq(Packet)]
    <2>1. l2p'["echo1"] = QueueAt(32)' /\ l2p'["echo0"] = QueueAt(16)'
      BY DEF QueueAt
    <2>2. DOMAIN LinkOf = {"echo0", "echo1"} /\ 32 \in 2 .. 32 /\ 16 \in 2 .. 32
      BY DEF LinkOf
    <2> QED
      BY <1>1, <2>1, <2>2 DEF Shapes
  <1>4. sent' \in [Link -> Seq(Packet)]
    <2>1. /\ sent'["link0"] = QueueAt(15)' /\ sent'["link1"] = QueueAt(19)'
          /\ sent'["link2"] = QueueAt(25)' /\ sent'["link3"] = QueueAt(9)'
          /\ sent'["link4"] = QueueAt(31)' /\ sent'["link5"] = QueueAt(3)'
      BY DEF QueueAt
    <2>2. /\ 15 \in 2 .. 32 /\ 19 \in 2 .. 32 /\ 25 \in 2 .. 32
          /\ 9 \in 2 .. 32 /\ 31 \in 2 .. 32 /\ 3 \in 2 .. 32
      OBVIOUS
    <2>3. \A l \in Link : sent'[l] \in Seq(Packet)
      BY <1>1, <2>1, <2>2, ZenonT(60) DEF Link
    <2> QED
      BY <2>3 DEF Shapes
  <1>5. chan0' \in [LinksOf.router0 -> Seq(Packet)]
    <2>1. chan0'["link0"] = QueueAt(14)' /\ chan0'["link2"] = QueueAt(24)'
      BY DEF QueueAt
    <2>2. LinksOf.router0 = {"link0", "link2"} /\ 14 \in 2 .. 32 /\ 24 \in 2 .. 32
      BY DEF LinksOf
    <2> QED
      BY <1>1, <2>1, <2>2 DEF Shapes
  <1>6. chan1' \in [LinksOf.router1 -> Seq(Packet)]
    <2>1. chan1'["link3"] = QueueAt(8)' /\ chan1'["link4"] = QueueAt(30)'
      BY DEF QueueAt
    <2>2. LinksOf.router1 = {"link3", "link4"} /\ 8 \in 2 .. 32 /\ 30 \in 2 .. 32
      BY DEF LinksOf
    <2> QED
      BY <1>1, <2>1, <2>2 DEF Shapes
  <1> QED
    BY <1>2, <1>3, <1>4, <1>5, <1>6 DEF InPlace, PacketsIn

LEMMA NextKeepsShapes ==
  ASSUME InPlace, [Next]_vars
  PROVE  Shapes'
  <1> USE InPlaceShapes DEF Shapes
  <1>1. CASE Ping
    BY <1>1 DEF Ping, protocolVars, brokerVars, broker0Vars, broker1Vars
  <1>2. CASE BeginWindow
    BY <1>2 DEF BeginWindow, protocolVars, brokerVars, broker0Vars, broker1Vars
  <1>3. CASE SendRequest
    BY <1>3 DEF SendRequest, brokerVars, broker0Vars, broker1Vars
  <1>4. CASE End
    BY <1>4 DEF End, protocolVars, brokerVars, broker0Vars, broker1Vars
  <1>5. CASE Work
    BY <1>5 DEF Work, protocolVars, brokerVars, broker0Vars, broker1Vars
  <1>6. CASE TimeOut
    BY <1>6 DEF TimeOut, protocolVars, brokerVars, broker0Vars, broker1Vars
  <1>7. CASE TakeRequest
    BY <1>7 DEF TakeRequest, brokerVars, broker0Vars, broker1Vars
  <1>8. CASE Respond
    BY <1>8 DEF Respond, brokerVars, broker0Vars, broker1Vars
  <1>9. CASE HandOver
    BY <1>9 DEF HandOver, brokerVars, broker0Vars, broker1Vars
  <1>10. ASSUME NEW l \in Link, Outbound(l) PROVE Shapes'
    BY <1>10 DEF Outbound, Sends, B0!LinkTakes, B1!LinkTakes,
                 protocolVars, brokerVars, broker0Vars, broker1Vars
  <1>11. ASSUME NEW l \in Link, Inbound(l) PROVE Shapes'
    BY <1>11 DEF Inbound, Reads, B0!LinkSends, B1!LinkSends,
                 protocolVars, brokerVars, broker0Vars, broker1Vars
  <1>12. ASSUME NEW l \in Link, NEW i \in DOMAIN sent[l], Lose(l, i) PROVE Shapes'
    BY <1>12 DEF Lose, protocolVars, brokerVars, broker0Vars, broker1Vars
  <1>13. CASE Route0
    BY <1>13 DEF Route0, B0!RouteNext, B0!SendRouted, protocolVars, broker1Vars
  <1>14. CASE Deliver0
    BY <1>14 DEF Deliver0, B0!TakeRouted, B0!Deliver, protocolVars, broker1Vars
  <1>15. CASE Route1
    BY <1>15 DEF Route1, B1!RouteNext, B1!SendRouted, protocolVars, broker0Vars
  <1>16. CASE Deliver1
    BY <1>16 DEF Deliver1, B1!TakeRouted, B1!Deliver, protocolVars, broker0Vars
  <1>17. CASE UNCHANGED vars
    BY <1>17 DEF vars, protocolVars, brokerVars, broker0Vars, broker1Vars
  <1> QED
    BY <1>1, <1>2, <1>3, <1>4, <1>5, <1>6, <1>7, <1>8, <1>9, <1>10, <1>11, <1>12, <1>13, <1>14,
       <1>15, <1>16, <1>17 DEF Next, Caller

LEMMA RoutersStay ==
  ASSUME RoutersOK, NEW j \in 1 .. 32, j # 4, j # 10, router0' = router0, router1' = router1
  PROVE  RoutersAt(j)
  BY RequestsType DEF RoutersOK, RoutersAt, Relayed

\* A thread hands a packet on from place j, and logs that it does.
HandsOn(j) ==
  /\ \E i, p : Goes(j, i, p)
  /\ Logged(Hop(j))
  /\ RoutersAt(j)
  /\ UNCHANGED <<callVars, losses, unsent, ended>>

LEMMA HandsOnKeeps ==
  ASSUME IndInv, Shapes', NEW j \in 2 .. 31, HandsOn(j)
  PROVE  IndInv'
  <1>1. InPlace
    BY DEF IndInv
  <1>2. PICK i, p : Goes(j, i, p)
    BY DEF HandsOn
  <1>3. /\ p.frame \in Frame /\ Moves(j, p.frame)
        /\ \A k \in 2 .. 32 : QueueAt(k)' \in Seq(PacketsIn(k))
    BY <1>1, <1>2, GoesMoves DEF HandsOn
  <1>4. InPlace'
    BY <1>1, <1>3, ShapesInPlace DEF HandsOn, InPlace
  <1>5. j \in 1 .. 32 /\ j # 32
    OBVIOUS
  <1> QED
    BY <1>3, <1>4, <1>5, GoesOnKeeps DEF HandsOn, callVars

\* A packet at the front of a queue that is one place.
LEMMA FrontOf ==
  ASSUME InPlace, NEW j \in 2 .. 32, Twin(j) = j, QueueAt(j) # << >>
  PROVE  /\ Head(QueueAt(j)) \in PacketsAt(j) /\ QueueAt(j)[1] = Head(QueueAt(j))
         /\ 1 \in DOMAIN QueueAt(j) /\ RemoveAt(QueueAt(j), 1) = Tail(QueueAt(j))
  <1>1. QueueAt(j) \in Seq(PacketsAt(j))
    BY DEF InPlace
  <1> QED
    BY <1>1, TailIsRemoveAt

\* A link hands a packet on from its queue, place j, to the other end.
LEMMA LinkHandsOn ==
  ASSUME IndInv, NEW j \in 2 .. 31, NEW next, next = j + 1, Twin(j) = j,
         LinkAt(next) = LinkAt(j), KindAt(next) = KindAt(j),
         NEW l, Hop(j) = {Entry("message", l)},
         QueueAt(j) # << >>, QueueAt(j)' = Tail(QueueAt(j)),
         QueueAt(next)' = Append(QueueAt(next), Head(QueueAt(j))), KeepsBut({j, next}),
         Logged({Entry("message", l)}), router0' = router0, router1' = router1,
         UNCHANGED <<callVars, losses, unsent, ended>>
  PROVE  HandsOn(j)
  <1>1. InPlace /\ RoutersOK
    BY DEF IndInv
  <1>2. j \in 2 .. 32 /\ j \in 1 .. 32 /\ j # 4 /\ j # 10
    BY SMTT(30) DEF Twin
  <1>3. PacketsAt(next) = PacketsAt(j)
    BY DEF PacketsAt
  <1>4. Goes(j, 1, Head(QueueAt(j)))
    BY <1>1, <1>2, <1>3, FrontOf DEF Goes, Takes, Puts, KeepsBut
  <1>5. RoutersAt(j)
    BY <1>1, <1>2, RoutersStay
  <1> QED
    BY <1>4, <1>5 DEF HandsOn

LEMMA OutboundHandsOn ==
  ASSUME IndInv, NEW l \in Link, Outbound(l)
  PROVE  \E j \in 2 .. 31 : HandsOn(j)
  <1>1. InPlace
    BY DEF IndInv
  <1>2. ASSUME B0!LinkTakes(l), Sends(l, Head(chan0[l])), l = "link0",
               UNCHANGED <<callVars, losses, unsent, ended, protocolVars, broker1Vars>>
        PROVE  HandsOn(14)
    <2>1. /\ QueueAt(14) = chan0[l] /\ QueueAt(14)' = chan0'[l]
          /\ QueueAt(15) = sent[l] /\ QueueAt(15)' = sent'[l]
      BY <1>2 DEF QueueAt
    <2>2. Twin(14) = 14 /\ LinkAt(15) = LinkAt(14) /\ KindAt(15) = KindAt(14)
      BY DEF Twin, LinkAt, KindAt
    <2>3. Hop(14) = {Entry("message", l)}
      BY <1>2 DEF Hop
    <2>4. KeepsBut({14, 15})
      BY <1>1, <1>2 DEF QueueAt, KeepsBut, B0!LinkTakes, Sends, protocolVars, broker1Vars,
         InPlace, LinksOf
    <2>5. chan0[l] # << >> /\ chan0'[l] = Tail(chan0[l]) /\ sent'[l] = Append(sent[l], Head(chan0[l]))
      BY <1>1, <1>2 DEF InPlace, B0!LinkTakes, Sends, LinksOf
    <2>6. /\ Logged({Entry("message", l)}) /\ router0' = router0 /\ router1' = router1
          /\ UNCHANGED <<callVars, losses, unsent, ended>>
      BY <1>2 DEF B0!LinkTakes, Sends, broker1Vars
    <2>7. 14 \in 2 .. 31 /\ 15 = 14 + 1
      OBVIOUS
    <2> QED
      BY <2>1, <2>2, <2>3, <2>4, <2>5, <2>6, <2>7, LinkHandsOn
  <1>3. ASSUME B0!LinkTakes(l), Sends(l, Head(chan0[l])), l = "link2",
               UNCHANGED <<callVars, losses, unsent, ended, protocolVars, broker1Vars>>
        PROVE  HandsOn(24)
    <2>1. /\ QueueAt(24) = chan0[l] /\ QueueAt(24)' = chan0'[l]
          /\ QueueAt(25) = sent[l] /\ QueueAt(25)' = sent'[l]
      BY <1>3 DEF QueueAt
    <2>2. Twin(24) = 24 /\ LinkAt(25) = LinkAt(24) /\ KindAt(25) = KindAt(24)
      BY DEF Twin, LinkAt, KindAt
    <2>3. Hop(24) = {Entry("message", l)}
      BY <1>3 DEF Hop
    <2>4. KeepsBut({24, 25})
      BY <1>1, <1>3 DEF QueueAt, KeepsBut, B0!LinkTakes, Sends, protocolVars, broker1Vars,
         InPlace, LinksOf
    <2>5. chan0[l] # << >> /\ chan0'[l] = Tail(chan0[l]) /\ sent'[l] = Append(sent[l], Head(chan0[l]))
      BY <1>1, <1>3 DEF InPlace, B0!LinkTakes, Sends, LinksOf
    <2>6. /\ Logged({Entry("message", l)}) /\ router0' = router0 /\ router1' = router1
          /\ UNCHANGED <<callVars, losses, unsent, ended>>
      BY <1>3 DEF B0!LinkTakes, Sends, broker1Vars
    <2>7. 24 \in 2 .. 31 /\ 25 = 24 + 1
      OBVIOUS
    <2> QED
      BY <2>1, <2>2, <2>3, <2>4, <2>5, <2>6, <2>7, LinkHandsOn
  <1>4. ASSUME B1!LinkTakes(l), Sends(l, Head(chan1[l])), l = "link3",
               UNCHANGED <<callVars, losses, unsent, ended, protocolVars, broker0Vars>>
        PROVE  HandsOn(8)
    <2>1. /\ QueueAt(8) = chan1[l] /\ QueueAt(8)' = chan1'[l]
          /\ QueueAt(9) = sent[l] /\ QueueAt(9)' = sent'[l]
      BY <1>4 DEF QueueAt
    <2>2. Twin(8) = 8 /\ LinkAt(9) = LinkAt(8) /\ KindAt(9) = KindAt(8)
      BY DEF Twin, LinkAt, KindAt
    <2>3. Hop(8) = {Entry("message", l)}
      BY <1>4 DEF Hop
    <2>4. KeepsBut({8, 9})
      BY <1>1, <1>4 DEF QueueAt, KeepsBut, B1!LinkTakes, Sends, protocolVars, broker0Vars,
         InPlace, LinksOf
    <2>5. chan1[l] # << >> /\ chan1'[l] = Tail(chan1[l]) /\ sent'[l] = Append(sent[l], Head(chan1[l]))
      BY <1>1, <1>4 DEF InPlace, B1!LinkTakes, Sends, LinksOf
    <2>6. /\ Logged({Entry("message", l)}) /\ router0' = router0 /\ router1' = router1
          /\ UNCHANGED <<callVars, losses, unsent, ended>>
      BY <1>4 DEF B1!LinkTakes, Sends, broker0Vars
    <2>7. 8 \in 2 .. 31 /\ 9 = 8 + 1
      OBVIOUS
    <2> QED
      BY <2>1, <2>2, <2>3, <2>4, <2>5, <2>6, <2>7, LinkHandsOn
  <1>5. ASSUME B1!LinkTakes(l), Sends(l, Head(chan1[l])), l = "link4",
               UNCHANGED <<callVars, losses, unsent, ended, protocolVars, broker0Vars>>
        PROVE  HandsOn(30)
    <2>1. /\ QueueAt(30) = chan1[l] /\ QueueAt(30)' = chan1'[l]
          /\ QueueAt(31) = sent[l] /\ QueueAt(31)' = sent'[l]
      BY <1>5 DEF QueueAt
    <2>2. Twin(30) = 30 /\ LinkAt(31) = LinkAt(30) /\ KindAt(31) = KindAt(30)
      BY DEF Twin, LinkAt, KindAt
    <2>3. Hop(30) = {Entry("message", l)}
      BY <1>5 DEF Hop
    <2>4. KeepsBut({30, 31})
      BY <1>1, <1>5 DEF QueueAt, KeepsBut, B1!LinkTakes, Sends, protocolVars, broker0Vars,
         InPlace, LinksOf
    <2>5. chan1[l] # << >> /\ chan1'[l] = Tail(chan1[l]) /\ sent'[l] = Append(sent[l], Head(chan1[l]))
      BY <1>1, <1>5 DEF InPlace, B1!LinkTakes, Sends, LinksOf
    <2>6. /\ Logged({Entry("message", l)}) /\ router0' = router0 /\ router1' = router1
          /\ UNCHANGED <<callVars, losses, unsent, ended>>
      BY <1>5 DEF B1!LinkTakes, Sends, broker0Vars
    <2>7. 30 \in 2 .. 31 /\ 31 = 30 + 1
      OBVIOUS
    <2> QED
      BY <2>1, <2>2, <2>3, <2>4, <2>5, <2>6, <2>7, LinkHandsOn
  <1>6. ASSUME p2l["echo0"] # << >>, p2l' = [p2l EXCEPT !["echo0"] = Tail(@)],
               Sends(l, Head(p2l["echo0"])), l = "link1",
               UNCHANGED <<callVars, losses, unsent, ended, l2p, answering, brokerVars>>
        PROVE  HandsOn(18)
    <2>1. /\ QueueAt(18) = p2l["echo0"] /\ QueueAt(18)' = p2l'["echo0"]
          /\ QueueAt(19) = sent[l] /\ QueueAt(19)' = sent'[l]
      BY <1>6 DEF QueueAt
    <2>2. Twin(18) = 18 /\ LinkAt(19) = LinkAt(18) /\ KindAt(19) = KindAt(18)
      BY DEF Twin, LinkAt, KindAt
    <2>3. Hop(18) = {Entry("message", l)}
      BY <1>6 DEF Hop
    <2>4. KeepsBut({18, 19})
      BY <1>1, <1>6 DEF QueueAt, KeepsBut, Sends, brokerVars, broker0Vars, broker1Vars,
         InPlace, LinkOf
    <2>5. p2l["echo0"] # << >> /\ p2l'["echo0"] = Tail(p2l["echo0"]) /\ sent'[l] = Append(sent[l], Head(p2l["echo0"]))
      BY <1>1, <1>6 DEF InPlace, Sends, LinkOf
    <2>6. /\ Logged({Entry("message", l)}) /\ router0' = router0 /\ router1' = router1
          /\ UNCHANGED <<callVars, losses, unsent, ended>>
      BY <1>6 DEF Sends, brokerVars, broker0Vars, broker1Vars
    <2>7. 18 \in 2 .. 31 /\ 19 = 18 + 1
      OBVIOUS
    <2> QED
      BY <2>1, <2>2, <2>3, <2>4, <2>5, <2>6, <2>7, LinkHandsOn
  <1>7. ASSUME p2l["echo1"] # << >>, p2l' = [p2l EXCEPT !["echo1"] = Tail(@)],
               Sends(l, Head(p2l["echo1"])), l = "link5",
               UNCHANGED <<callVars, losses, unsent, ended, l2p, answering, brokerVars>>
        PROVE  HandsOn(2)
    <2>1. /\ QueueAt(2) = p2l["echo1"] /\ QueueAt(2)' = p2l'["echo1"]
          /\ QueueAt(3) = sent[l] /\ QueueAt(3)' = sent'[l]
      BY <1>7 DEF QueueAt
    <2>2. Twin(2) = 2 /\ LinkAt(3) = LinkAt(2) /\ KindAt(3) = KindAt(2)
      BY DEF Twin, LinkAt, KindAt
    <2>3. Hop(2) = {Entry("message", l)}
      BY <1>7 DEF Hop
    <2>4. KeepsBut({2, 3})
      BY <1>1, <1>7 DEF QueueAt, KeepsBut, Sends, brokerVars, broker0Vars, broker1Vars,
         InPlace, LinkOf
    <2>5. p2l["echo1"] # << >> /\ p2l'["echo1"] = Tail(p2l["echo1"]) /\ sent'[l] = Append(sent[l], Head(p2l["echo1"]))
      BY <1>1, <1>7 DEF InPlace, Sends, LinkOf
    <2>6. /\ Logged({Entry("message", l)}) /\ router0' = router0 /\ router1' = router1
          /\ UNCHANGED <<callVars, losses, unsent, ended>>
      BY <1>7 DEF Sends, brokerVars, broker0Vars, broker1Vars
    <2>7. 2 \in 2 .. 31 /\ 3 = 2 + 1
      OBVIOUS
    <2> QED
      BY <2>1, <2>2, <2>3, <2>4, <2>5, <2>6, <2>7, LinkHandsOn
  <1>8. l \in LinksOf.router0 => l \in {"link0", "link2"}
    BY DEF LinksOf
  <1>9. l \in LinksOf.router1 => l \in {"link3", "link4"}
    BY DEF LinksOf
  <1>10. \A p \in DOMAIN LinkOf : <<p, LinkOf[p]>> \in {<<"echo0", "link1">>, <<"echo1", "link5">>}
    BY DEF LinkOf
  <1>11. CASE /\ l \in LinksOf.router0 /\ B0!LinkTakes(l) /\ Sends(l, Head(chan0[l]))
              /\ UNCHANGED <<callVars, losses, unsent, ended, protocolVars, broker1Vars>>
    BY <1>2, <1>3, <1>8, <1>11
  <1>12. CASE /\ l \in LinksOf.router1 /\ B1!LinkTakes(l) /\ Sends(l, Head(chan1[l]))
              /\ UNCHANGED <<callVars, losses, unsent, ended, protocolVars, broker0Vars>>
    BY <1>4, <1>5, <1>9, <1>12
  <1>13. ASSUME NEW p \in DOMAIN LinkOf, l = LinkOf[p], p2l[p] # << >>,
                p2l' = [p2l EXCEPT ![p] = Tail(@)], Sends(l, Head(p2l[p])),
                UNCHANGED <<callVars, losses, unsent, ended, l2p, answering, brokerVars>>
         PROVE  \E j \in 2 .. 31 : HandsOn(j)
    <2>1. CASE p = "echo0"
      <3>1. l = "link1"
        BY <1>10, <1>13, <2>1
      <3>2. HandsOn(18)
        BY <1>6, <1>13, <2>1, <3>1
      <3> QED
        BY <3>2
    <2>2. CASE p = "echo1"
      <3>1. l = "link5"
        BY <1>10, <1>13, <2>2
      <3>2. HandsOn(2)
        BY <1>7, <1>13, <2>2, <3>1
      <3> QED
        BY <3>2
    <2> QED
      BY <1>10, <2>1, <2>2
  <1> QED
    BY <1>11, <1>12, <1>13 DEF Outbound

\* A link hands what it reads, the i-th packet of place j, to its broker or protocol.
\* A link reads the i-th packet of place j and passes it to its other end.
ReadsFrom(j, next, twin, l, i) ==
  /\ j \in 2 .. 31 /\ next = j + 1 /\ Twin(j) = j /\ twin = Twin(next)
  /\ LinkAt(next) = l /\ KindAt(next) = KindAt(j) /\ Hop(j) = {Entry("message", l)}
  /\ i \in DOMAIN QueueAt(j) /\ QueueAt(j)' = RemoveAt(QueueAt(j), i)
  /\ QueueAt(next)' = Append(QueueAt(next), [QueueAt(j)[i] EXCEPT !.link = l])
  /\ KeepsBut({j, next, twin})
  /\ Logged({Entry("message", l)}) /\ router0' = router0 /\ router1' = router1
  /\ UNCHANGED <<callVars, losses, unsent, ended>>

LEMMA LinkReads ==
  ASSUME IndInv, NEW j, NEW next, NEW twin, NEW l, NEW i, ReadsFrom(j, next, twin, l, i)
  PROVE  HandsOn(j)
  <1>1. InPlace /\ RoutersOK
    BY DEF IndInv
  <1>2. j \in 2 .. 32 /\ j \in 1 .. 32 /\ j # 4 /\ j # 10
    BY SMTT(30) DEF Twin, ReadsFrom
  <1>3. QueueAt(j) \in Seq(PacketsAt(j))
    BY <1>1, <1>2 DEF InPlace, ReadsFrom
  <1>4. QueueAt(j)[i] \in PacketsAt(j)
    BY <1>3, ElementOfSeq, LenProperties DEF ReadsFrom
  <1> DEFINE p == [QueueAt(j)[i] EXCEPT !.link = l]
  <1>5. p \in PacketsAt(next) /\ p.frame = QueueAt(j)[i].frame
    BY <1>4 DEF PacketsAt, ReadsFrom
  <1>6. Goes(j, i, p)
    BY <1>2, <1>4, <1>5 DEF Goes, Takes, Puts, KeepsBut, ReadsFrom
  <1>7. RoutersAt(j)
    BY <1>1, <1>2, RoutersStay DEF ReadsFrom
  <1> QED
    BY <1>6, <1>7 DEF HandsOn, ReadsFrom

LEMMA InboundHandsOn ==
  ASSUME IndInv, NEW l \in Link, Inbound(l)
  PROVE  \E j \in 2 .. 31 : HandsOn(j)
  <1>1. InPlace
    BY DEF IndInv
  <1>2. ASSUME NEW i \in Readable(l), B0!LinkSends(Read(l, i)), Reads(l, i), l = "link2",
               UNCHANGED <<callVars, losses, unsent, ended, protocolVars, broker1Vars>>
        PROVE  HandsOn(9)
    <2>1. /\ QueueAt(9) = sent["link3"] /\ QueueAt(9)' = sent'["link3"]
          /\ QueueAt(10) = l2b0 /\ QueueAt(10)' = l2b0'
      BY DEF QueueAt
    <2>2. /\ Twin(9) = 9 /\ Twin(10) = 20
          /\ LinkAt(10) = l /\ KindAt(10) = KindAt(9)
      BY <1>2 DEF Twin, LinkAt, KindAt
    <2>3. Hop(9) = {Entry("message", l)}
      BY <1>2 DEF Hop
    <2>4. OtherEnd[l] = "link3"
      BY <1>2 DEF OtherEnd
    <2>5. KeepsBut({9, 10, 20})
      BY <1>1, <1>2, <2>4 DEF QueueAt, KeepsBut, B0!LinkSends, Reads, protocolVars, broker1Vars,
         InPlace
    <2>6. i \in DOMAIN sent["link3"] /\ sent'["link3"] = RemoveAt(sent["link3"], i)
      BY <1>1, <1>2, <2>4 DEF InPlace, Readable, Reads, Link
    <2>7. l2b0' = Append(l2b0, [sent["link3"][i] EXCEPT !.link = l])
      BY <1>1, <1>2, <2>4 DEF InPlace, Read, B0!LinkSends, Reads
    <2>8. /\ Logged({Entry("message", l)}) /\ router0' = router0 /\ router1' = router1
          /\ UNCHANGED <<callVars, losses, unsent, ended>>
      BY <1>2 DEF B0!LinkSends, Reads, broker1Vars
    <2>9. 9 \in 2 .. 31 /\ 10 = 9 + 1
      OBVIOUS
    <2>10. ReadsFrom(9, 10, 20, l, i)
      BY <2>1, <2>2, <2>3, <2>5, <2>6, <2>7, <2>8, <2>9 DEF ReadsFrom
    <2> QED
      BY <2>10, LinkReads
  <1>3. ASSUME NEW i \in Readable(l), B0!LinkSends(Read(l, i)), Reads(l, i), l = "link0",
               UNCHANGED <<callVars, losses, unsent, ended, protocolVars, broker1Vars>>
        PROVE  HandsOn(19)
    <2>1. /\ QueueAt(19) = sent["link1"] /\ QueueAt(19)' = sent'["link1"]
          /\ QueueAt(20) = l2b0 /\ QueueAt(20)' = l2b0'
      BY DEF QueueAt
    <2>2. /\ Twin(19) = 19 /\ Twin(20) = 10
          /\ LinkAt(20) = l /\ KindAt(20) = KindAt(19)
      BY <1>3 DEF Twin, LinkAt, KindAt
    <2>3. Hop(19) = {Entry("message", l)}
      BY <1>3 DEF Hop
    <2>4. OtherEnd[l] = "link1"
      BY <1>3 DEF OtherEnd
    <2>5. KeepsBut({19, 20, 10})
      BY <1>1, <1>3, <2>4 DEF QueueAt, KeepsBut, B0!LinkSends, Reads, protocolVars, broker1Vars,
         InPlace
    <2>6. i \in DOMAIN sent["link1"] /\ sent'["link1"] = RemoveAt(sent["link1"], i)
      BY <1>1, <1>3, <2>4 DEF InPlace, Readable, Reads, Link
    <2>7. l2b0' = Append(l2b0, [sent["link1"][i] EXCEPT !.link = l])
      BY <1>1, <1>3, <2>4 DEF InPlace, Read, B0!LinkSends, Reads
    <2>8. /\ Logged({Entry("message", l)}) /\ router0' = router0 /\ router1' = router1
          /\ UNCHANGED <<callVars, losses, unsent, ended>>
      BY <1>3 DEF B0!LinkSends, Reads, broker1Vars
    <2>9. 19 \in 2 .. 31 /\ 20 = 19 + 1
      OBVIOUS
    <2>10. ReadsFrom(19, 20, 10, l, i)
      BY <2>1, <2>2, <2>3, <2>5, <2>6, <2>7, <2>8, <2>9 DEF ReadsFrom
    <2> QED
      BY <2>10, LinkReads
  <1>4. ASSUME NEW i \in Readable(l), B1!LinkSends(Read(l, i)), Reads(l, i), l = "link4",
               UNCHANGED <<callVars, losses, unsent, ended, protocolVars, broker0Vars>>
        PROVE  HandsOn(3)
    <2>1. /\ QueueAt(3) = sent["link5"] /\ QueueAt(3)' = sent'["link5"]
          /\ QueueAt(4) = l2b1 /\ QueueAt(4)' = l2b1'
      BY DEF QueueAt
    <2>2. /\ Twin(3) = 3 /\ Twin(4) = 26
          /\ LinkAt(4) = l /\ KindAt(4) = KindAt(3)
      BY <1>4 DEF Twin, LinkAt, KindAt
    <2>3. Hop(3) = {Entry("message", l)}
      BY <1>4 DEF Hop
    <2>4. OtherEnd[l] = "link5"
      BY <1>4 DEF OtherEnd
    <2>5. KeepsBut({3, 4, 26})
      BY <1>1, <1>4, <2>4 DEF QueueAt, KeepsBut, B1!LinkSends, Reads, protocolVars, broker0Vars,
         InPlace
    <2>6. i \in DOMAIN sent["link5"] /\ sent'["link5"] = RemoveAt(sent["link5"], i)
      BY <1>1, <1>4, <2>4 DEF InPlace, Readable, Reads, Link
    <2>7. l2b1' = Append(l2b1, [sent["link5"][i] EXCEPT !.link = l])
      BY <1>1, <1>4, <2>4 DEF InPlace, Read, B1!LinkSends, Reads
    <2>8. /\ Logged({Entry("message", l)}) /\ router0' = router0 /\ router1' = router1
          /\ UNCHANGED <<callVars, losses, unsent, ended>>
      BY <1>4 DEF B1!LinkSends, Reads, broker0Vars
    <2>9. 3 \in 2 .. 31 /\ 4 = 3 + 1
      OBVIOUS
    <2>10. ReadsFrom(3, 4, 26, l, i)
      BY <2>1, <2>2, <2>3, <2>5, <2>6, <2>7, <2>8, <2>9 DEF ReadsFrom
    <2> QED
      BY <2>10, LinkReads
  <1>5. ASSUME NEW i \in Readable(l), B1!LinkSends(Read(l, i)), Reads(l, i), l = "link3",
               UNCHANGED <<callVars, losses, unsent, ended, protocolVars, broker0Vars>>
        PROVE  HandsOn(25)
    <2>1. /\ QueueAt(25) = sent["link2"] /\ QueueAt(25)' = sent'["link2"]
          /\ QueueAt(26) = l2b1 /\ QueueAt(26)' = l2b1'
      BY DEF QueueAt
    <2>2. /\ Twin(25) = 25 /\ Twin(26) = 4
          /\ LinkAt(26) = l /\ KindAt(26) = KindAt(25)
      BY <1>5 DEF Twin, LinkAt, KindAt
    <2>3. Hop(25) = {Entry("message", l)}
      BY <1>5 DEF Hop
    <2>4. OtherEnd[l] = "link2"
      BY <1>5 DEF OtherEnd
    <2>5. KeepsBut({25, 26, 4})
      BY <1>1, <1>5, <2>4 DEF QueueAt, KeepsBut, B1!LinkSends, Reads, protocolVars, broker0Vars,
         InPlace
    <2>6. i \in DOMAIN sent["link2"] /\ sent'["link2"] = RemoveAt(sent["link2"], i)
      BY <1>1, <1>5, <2>4 DEF InPlace, Readable, Reads, Link
    <2>7. l2b1' = Append(l2b1, [sent["link2"][i] EXCEPT !.link = l])
      BY <1>1, <1>5, <2>4 DEF InPlace, Read, B1!LinkSends, Reads
    <2>8. /\ Logged({Entry("message", l)}) /\ router0' = router0 /\ router1' = router1
          /\ UNCHANGED <<callVars, losses, unsent, ended>>
      BY <1>5 DEF B1!LinkSends, Reads, broker0Vars
    <2>9. 25 \in 2 .. 31 /\ 26 = 25 + 1
      OBVIOUS
    <2>10. ReadsFrom(25, 26, 4, l, i)
      BY <2>1, <2>2, <2>3, <2>5, <2>6, <2>7, <2>8, <2>9 DEF ReadsFrom
    <2> QED
      BY <2>10, LinkReads
  <1>6. ASSUME NEW i \in Readable(l), l2p' = [l2p EXCEPT !["echo0"] = Append(@, Read(l, i))],
               Reads(l, i), l = "link1",
               UNCHANGED <<callVars, losses, unsent, ended, p2l, answering, brokerVars>>
        PROVE  HandsOn(15)
    <2>1. /\ QueueAt(15) = sent["link0"] /\ QueueAt(15)' = sent'["link0"]
          /\ QueueAt(16) = l2p["echo0"] /\ QueueAt(16)' = l2p'["echo0"]
      BY DEF QueueAt
    <2>2. /\ Twin(15) = 15 /\ Twin(16) = 16
          /\ LinkAt(16) = l /\ KindAt(16) = KindAt(15)
      BY <1>6 DEF Twin, LinkAt, KindAt
    <2>3. Hop(15) = {Entry("message", l)}
      BY <1>6 DEF Hop
    <2>4. OtherEnd[l] = "link0"
      BY <1>6 DEF OtherEnd
    <2>5. KeepsBut({15, 16, 16})
      BY <1>1, <1>6, <2>4 DEF QueueAt, KeepsBut, Reads, brokerVars, broker0Vars, broker1Vars,
         InPlace, LinkOf
    <2>6. i \in DOMAIN sent["link0"] /\ sent'["link0"] = RemoveAt(sent["link0"], i)
      BY <1>1, <1>6, <2>4 DEF InPlace, Readable, Reads, Link
    <2>7. l2p'["echo0"] = Append(l2p["echo0"], [sent["link0"][i] EXCEPT !.link = l])
      BY <1>1, <1>6, <2>4 DEF InPlace, Read, Reads, LinkOf
    <2>8. /\ Logged({Entry("message", l)}) /\ router0' = router0 /\ router1' = router1
          /\ UNCHANGED <<callVars, losses, unsent, ended>>
      BY <1>6 DEF Reads, brokerVars, broker0Vars, broker1Vars
    <2>9. 15 \in 2 .. 31 /\ 16 = 15 + 1
      OBVIOUS
    <2>10. ReadsFrom(15, 16, 16, l, i)
      BY <2>1, <2>2, <2>3, <2>5, <2>6, <2>7, <2>8, <2>9 DEF ReadsFrom
    <2> QED
      BY <2>10, LinkReads
  <1>7. ASSUME NEW i \in Readable(l), l2p' = [l2p EXCEPT !["echo1"] = Append(@, Read(l, i))],
               Reads(l, i), l = "link5",
               UNCHANGED <<callVars, losses, unsent, ended, p2l, answering, brokerVars>>
        PROVE  HandsOn(31)
    <2>1. /\ QueueAt(31) = sent["link4"] /\ QueueAt(31)' = sent'["link4"]
          /\ QueueAt(32) = l2p["echo1"] /\ QueueAt(32)' = l2p'["echo1"]
      BY DEF QueueAt
    <2>2. /\ Twin(31) = 31 /\ Twin(32) = 32
          /\ LinkAt(32) = l /\ KindAt(32) = KindAt(31)
      BY <1>7 DEF Twin, LinkAt, KindAt
    <2>3. Hop(31) = {Entry("message", l)}
      BY <1>7 DEF Hop
    <2>4. OtherEnd[l] = "link4"
      BY <1>7 DEF OtherEnd
    <2>5. KeepsBut({31, 32, 32})
      BY <1>1, <1>7, <2>4 DEF QueueAt, KeepsBut, Reads, brokerVars, broker0Vars, broker1Vars,
         InPlace, LinkOf
    <2>6. i \in DOMAIN sent["link4"] /\ sent'["link4"] = RemoveAt(sent["link4"], i)
      BY <1>1, <1>7, <2>4 DEF InPlace, Readable, Reads, Link
    <2>7. l2p'["echo1"] = Append(l2p["echo1"], [sent["link4"][i] EXCEPT !.link = l])
      BY <1>1, <1>7, <2>4 DEF InPlace, Read, Reads, LinkOf
    <2>8. /\ Logged({Entry("message", l)}) /\ router0' = router0 /\ router1' = router1
          /\ UNCHANGED <<callVars, losses, unsent, ended>>
      BY <1>7 DEF Reads, brokerVars, broker0Vars, broker1Vars
    <2>9. 31 \in 2 .. 31 /\ 32 = 31 + 1
      OBVIOUS
    <2>10. ReadsFrom(31, 32, 32, l, i)
      BY <2>1, <2>2, <2>3, <2>5, <2>6, <2>7, <2>8, <2>9 DEF ReadsFrom
    <2> QED
      BY <2>10, LinkReads
  <1>8. l \in LinksOf.router0 => l \in {"link0", "link2"}
    BY DEF LinksOf
  <1>9. l \in LinksOf.router1 => l \in {"link3", "link4"}
    BY DEF LinksOf
  <1>10. \A p \in DOMAIN LinkOf : <<p, LinkOf[p]>> \in {<<"echo0", "link1">>, <<"echo1", "link5">>}
    BY DEF LinkOf
  <1>11. PICK i \in Readable(l) :
           \/ /\ l \in LinksOf.router0 /\ B0!LinkSends(Read(l, i)) /\ Reads(l, i)
              /\ UNCHANGED <<callVars, losses, unsent, ended, protocolVars, broker1Vars>>
           \/ /\ l \in LinksOf.router1 /\ B1!LinkSends(Read(l, i)) /\ Reads(l, i)
              /\ UNCHANGED <<callVars, losses, unsent, ended, protocolVars, broker0Vars>>
           \/ \E p \in DOMAIN LinkOf :
                /\ l = LinkOf[p] /\ l2p' = [l2p EXCEPT ![p] = Append(@, Read(l, i))] /\ Reads(l, i)
                /\ UNCHANGED <<callVars, losses, unsent, ended, p2l, answering, brokerVars>>
    BY DEF Inbound
  <1>12. CASE /\ l \in LinksOf.router0 /\ B0!LinkSends(Read(l, i)) /\ Reads(l, i)
              /\ UNCHANGED <<callVars, losses, unsent, ended, protocolVars, broker1Vars>>
    BY <1>2, <1>3, <1>8, <1>12
  <1>13. CASE /\ l \in LinksOf.router1 /\ B1!LinkSends(Read(l, i)) /\ Reads(l, i)
              /\ UNCHANGED <<callVars, losses, unsent, ended, protocolVars, broker0Vars>>
    BY <1>4, <1>5, <1>9, <1>13
  <1>14. ASSUME NEW p \in DOMAIN LinkOf, l = LinkOf[p], Reads(l, i),
                l2p' = [l2p EXCEPT ![p] = Append(@, Read(l, i))],
                UNCHANGED <<callVars, losses, unsent, ended, p2l, answering, brokerVars>>
         PROVE  \E j \in 2 .. 31 : HandsOn(j)
    <2>1. CASE p = "echo0"
      <3>1. l = "link1"
        BY <1>10, <1>14, <2>1
      <3>2. HandsOn(15)
        BY <1>6, <1>14, <2>1, <3>1
      <3> QED
        BY <3>2
    <2>2. CASE p = "echo1"
      <3>1. l = "link5"
        BY <1>10, <1>14, <2>2
      <3>2. HandsOn(31)
        BY <1>7, <1>14, <2>2, <3>1
      <3> QED
        BY <3>2
    <2> QED
      BY <1>10, <2>1, <2>2
  <1> QED
    BY <1>11, <1>12, <1>13, <1>14

\* A frame at a later place is past this one.
LEMMA PastLater ==
  ASSUME InPlace, CallOK, NEW k \in 0 .. 32, NEW j \in 1 .. 32, j > k, Count(j, Frame) >= 1
  PROVE  Past(k) \in Nat /\ Past(k) > 0
  <1>1. /\ Past(k) = After(Counts(Frame), k, 32) + Len(responses) + Cardinality(Answered)
        /\ Past(k) \in Nat
    BY PastIsAfter, NumbersType
  <1>2. /\ After(Counts(Frame), k, 32) \in Nat
        /\ Counts(Frame)[j] <= After(Counts(Frame), k, 32)
    <2>1. \A i \in 1 .. 32 : Counts(Frame)[i] \in Nat
      BY CountsType
    <2>2. 32 \in Nat
      OBVIOUS
    <2> QED
      BY <2>1, <2>2, AfterProperties
  <1>3. Counts(Frame)[j] = Count(j, Frame) /\ Counts(Frame)[j] \in Nat
    BY CountsType DEF Counts, Places
  <1>4. Len(responses) \in Nat /\ Cardinality(Answered) \in Nat
    BY NumbersType
  <1> DEFINE a == After(Counts(Frame), k, 32)
             c == Cardinality(Answered)
             d == Len(responses)
  <1>5. a \in Nat /\ a >= 1 /\ c \in Nat /\ d \in Nat /\ Past(k) = a + d + c
    BY <1>1, <1>2, <1>3, <1>4
  <1> HIDE DEF a, c, d
  <1> QED
    BY <1>1, <1>5

LEMMA QueueType ==
  ASSUME InPlace, NEW j \in 2 .. 32
  PROVE  QueueAt(j) \in Seq(PacketsIn(j)) /\ QueueAt(j) \in Seq(Packet)
  <1>1. QueueAt(j) \in Seq(PacketsIn(j))
    BY DEF InPlace, PacketsIn
  <1> QED
    BY <1>1, PacketTypes, SeqMonotonic

LEMMA FrontCounts ==
  ASSUME InPlace, NEW j \in 2 .. 32, QueueAt(j) # << >>, Head(QueueAt(j)) \in PacketsAt(j)
  PROVE  Count(j, Frame) >= 1
  <1> DEFINE q == QueueAt(j)
  <1>1. q \in Seq(PacketsIn(j))
    BY QueueType
  <1>2. 1 \in DOMAIN q /\ q[1] \in PacketsAt(j)
    BY <1>1, TailIsRemoveAt
  <1>3. Count(j, Frame) = Number(q, KindAt(j), Frame)
    BY DEF Count
  <1> HIDE DEF q
  <1>4. /\ Number(RemoveAt(q, 1), KindAt(j), Frame) \in Nat
        /\ Number(q, KindAt(j), Frame)
             = Number(RemoveAt(q, 1), KindAt(j), Frame) + OneAt(j, j, q[1].frame, Frame)
    BY <1>1, <1>2, TakenFrom
  <1>5. OneAt(j, j, q[1].frame, Frame) = 1
    BY <1>2, PacketTypes DEF OneAt
  <1> QED
    BY <1>3, <1>4, <1>5

\* The first packet of place j goes on, as p.
LEMMA FrontHandsOn ==
  ASSUME IndInv, NEW j \in 2 .. 31, NEW next, next = j + 1,
         QueueAt(j) # << >>, Head(QueueAt(j)) \in PacketsAt(j), QueueAt(j)' = Tail(QueueAt(j)),
         NEW p \in PacketsAt(next), p.frame = Head(QueueAt(j)).frame,
         QueueAt(next)' = Append(QueueAt(next), p),
         KeepsBut({j, Twin(j), next, Twin(next)}),
         Logged(Hop(j)), RoutersAt(j), UNCHANGED <<callVars, losses, unsent, ended>>
  PROVE  HandsOn(j)
  <1>1. QueueAt(j) \in Seq(PacketsIn(j))
    <2>1. j \in 2 .. 32 /\ InPlace
      BY DEF IndInv
    <2> QED
      BY <2>1, QueueType
  <1>2. /\ 1 \in DOMAIN QueueAt(j) /\ QueueAt(j)[1] = Head(QueueAt(j))
        /\ RemoveAt(QueueAt(j), 1) = Tail(QueueAt(j))
    BY <1>1, TailIsRemoveAt
  <1>3. Goes(j, 1, p)
    BY <1>2 DEF Goes, Takes, Puts
  <1> QED
    BY <1>3 DEF HandsOn

LEMMA Alone ==
  ASSUME NEW p
  PROVE  <<p>> # << >> /\ Head(<<p>>) = p /\ Tail(<<p>>) = << >> /\ Append(<< >>, p) = <<p>>
  OBVIOUS

LEMMA HeldOne ==
  ASSUME NEW p \in Packet
  PROVE  /\ Held(p) = <<p>> /\ Held(p) # << >> /\ Head(Held(p)) = p /\ Tail(Held(p)) = << >>
         /\ Append(<< >>, p) = <<p>>
  <1>1. p # Nothing
    BY NothingAssumption
  <1> QED
    BY <1>1 DEF Held

\* What is in a queue that is two places is at one of them.
LEMMA FrontIn ==
  ASSUME InPlace, NEW j \in 2 .. 32, QueueAt(j) # << >>
  PROVE  /\ Head(QueueAt(j)) \in PacketsAt(j) \/ Head(QueueAt(j)) \in PacketsAt(Twin(j))
         /\ Head(QueueAt(j)) \in Packet /\ Tail(QueueAt(j)) \in Seq(PacketsIn(j))
  <1>1. QueueAt(j) \in Seq(PacketsIn(j))
    BY QueueType
  <1>2. Head(QueueAt(j)) \in PacketsIn(j) /\ Tail(QueueAt(j)) \in Seq(PacketsIn(j))
    BY <1>1, HeadTailProperties
  <1> QED
    BY <1>2, PacketTypes DEF PacketsIn

\* The dispatch thread of echo0 takes a request ...
LEMMA TakeRequestHandsOn ==
  ASSUME IndInv, TakeRequest
  PROVE  HandsOn(16)
  <1>1. InPlace /\ RoutersOK
    BY DEF IndInv
  <1>2. /\ QueueAt(16) = l2p["echo0"] /\ QueueAt(16)' = l2p'["echo0"]
        /\ QueueAt(17) = Held(answering) /\ QueueAt(17)' = Held(answering')
    BY DEF QueueAt
  <1>3. Twin(16) = 16 /\ Twin(17) = 17
    BY DEF Twin
  <1>4. LinkAt(17) = LinkAt(16) /\ KindAt(17) = KindAt(16)
    BY DEF LinkAt, KindAt
  <1>5. PacketsAt(17) = PacketsAt(16)
    BY <1>4 DEF PacketsAt
  <1>6. Hop(16) = {Entry("message", "echo0")}
    BY DEF Hop
  <1>7. 16 \in 2 .. 31 /\ 16 \in 2 .. 32 /\ 16 \in 1 .. 32 /\ 17 = 16 + 1
    OBVIOUS
  <1>8. /\ l2p["echo0"] # << >> /\ l2p'["echo0"] = Tail(l2p["echo0"])
        /\ answering' = Head(l2p["echo0"]) /\ Held(answering) = << >>
    BY <1>1 DEF TakeRequest, Held, InPlace, LinkOf
  <1>9. Head(QueueAt(16)) \in PacketsAt(16) /\ Head(QueueAt(16)) \in Packet
    BY <1>1, <1>2, <1>3, <1>7, <1>8, FrontIn
  <1>10. QueueAt(17)' = Append(QueueAt(17), Head(QueueAt(16)))
    BY <1>2, <1>8, <1>9, HeldOne
  <1>11. KeepsBut({16, 17})
    BY <1>1 DEF QueueAt, KeepsBut, TakeRequest, brokerVars, broker0Vars, broker1Vars, InPlace, LinkOf
  <1>12. KeepsBut({16, Twin(16), 17, Twin(17)})
    BY <1>3, <1>11 DEF KeepsBut
  <1>13. router0' = router0 /\ router1' = router1
    BY DEF TakeRequest, brokerVars, broker0Vars, broker1Vars
  <1>14. RoutersAt(16)
    BY <1>1, <1>7, <1>13, RoutersStay
  <1>15. Logged(Hop(16)) /\ UNCHANGED <<callVars, losses, unsent, ended>>
    BY <1>6 DEF TakeRequest
  <1> QED
    BY <1>2, <1>7, <1>8, <1>9, <1>10, <1>12, <1>14, <1>15, <1>5, FrontHandsOn

\* ... and responds to it.
LEMMA RespondHandsOn ==
  ASSUME IndInv, Respond
  PROVE  HandsOn(17)
  <1>1. InPlace /\ RoutersOK
    BY DEF IndInv
  <1>2. /\ QueueAt(17) = Held(answering) /\ QueueAt(17)' = Held(answering')
        /\ QueueAt(18) = p2l["echo0"] /\ QueueAt(18)' = p2l'["echo0"]
    BY DEF QueueAt
  <1>3. Twin(17) = 17 /\ Twin(18) = 18
    BY DEF Twin
  <1>4. Hop(17) = {Entry("found_response_upstream", "echo0"), Entry("message", "echo0")}
    BY DEF Hop
  <1>5. 17 \in 2 .. 31 /\ 17 \in 2 .. 32 /\ 17 \in 1 .. 32 /\ 18 = 17 + 1
    OBVIOUS
  <1> DEFINE p == [answering EXCEPT !.kind = "Response"]
  <1>6. /\ Held(answering) = <<answering>> /\ Held(answering') = << >>
        /\ p2l'["echo0"] = Append(p2l["echo0"], p)
    BY <1>1 DEF Respond, Held, InPlace, LinkOf
  <1>7. QueueAt(17) # << >> /\ Head(QueueAt(17)) = answering /\ Tail(QueueAt(17)) = << >>
    BY <1>2, <1>6, Alone
  <1>8. answering \in PacketsAt(17)
    BY <1>1, <1>3, <1>5, <1>7, FrontIn
  <1>9. p \in PacketsAt(18) /\ p.frame = answering.frame
    BY <1>8 DEF PacketsAt, LinkAt, KindAt
  <1>10. KeepsBut({17, 18})
    BY <1>1 DEF QueueAt, KeepsBut, Respond, brokerVars, broker0Vars, broker1Vars, InPlace, LinkOf
  <1>11. KeepsBut({17, Twin(17), 18, Twin(18)})
    BY <1>3, <1>10 DEF KeepsBut
  <1>12. router0' = router0 /\ router1' = router1
    BY DEF Respond, brokerVars, broker0Vars, broker1Vars
  <1>13. RoutersAt(17)
    BY <1>1, <1>5, <1>12, RoutersStay
  <1>14. Logged(Hop(17)) /\ UNCHANGED <<callVars, losses, unsent, ended>>
    BY <1>4 DEF Respond
  <1> HIDE DEF p
  <1>15. QueueAt(18)' = Append(QueueAt(18), p) /\ QueueAt(17)' = Tail(QueueAt(17))
    BY <1>2, <1>6, <1>7
  <1> QED
    BY <1>5, <1>7, <1>8, <1>9, <1>11, <1>13, <1>14, <1>15, FrontHandsOn

LEMMA SendRoutedHandsOn1 ==
  ASSUME IndInv, B1!SendRouted, LogForwarding("router1", Head(out1)),
         UNCHANGED <<callVars, losses, unsent, ended, protocolVars, sent, broker0Vars>>
  PROVE  HandsOn(5) \/ HandsOn(27)
  <1>1. InPlace /\ RoutersOK
    BY DEF IndInv
  <1>2. /\ QueueAt(5) = out1 /\ QueueAt(5)' = out1'
        /\ QueueAt(6) = r2b1 /\ QueueAt(6)' = r2b1'
        /\ QueueAt(27) = out1 /\ QueueAt(27)' = out1'
        /\ QueueAt(28) = r2b1 /\ QueueAt(28)' = r2b1'
    BY DEF QueueAt
  <1>3. Twin(5) = 27 /\ Twin(6) = 28 /\ Twin(27) = 5 /\ Twin(28) = 6
    BY DEF Twin
  <1>4. /\ 5 \in 2 .. 31 /\ 5 \in 2 .. 32 /\ 5 \in 1 .. 32 /\ 6 = 5 + 1
        /\ 27 \in 2 .. 31 /\ 27 \in 2 .. 32 /\ 27 \in 1 .. 32 /\ 28 = 27 + 1
    OBVIOUS
  <1>5. UNCHANGED <<callVars, losses, unsent, ended>> /\ router0' = router0 /\ router1' = router1
    BY DEF broker0Vars, B1!SendRouted
  <1>6. RoutersAt(5) /\ RoutersAt(27)
    BY <1>1, <1>4, <1>5, RoutersStay
  <1>7. LinkAt(6) = LinkAt(5) /\ LinkAt(28) = LinkAt(27)
    BY DEF LinkAt
  <1>8. KindAt(6) = KindAt(5) /\ KindAt(28) = KindAt(27)
    BY DEF KindAt
  <1>9. PacketsAt(6) = PacketsAt(5) /\ PacketsAt(28) = PacketsAt(27)
    BY <1>7, <1>8 DEF PacketsAt
  <1>10. /\ out1 # << >> /\ out1' = Tail(out1) /\ r2b1' = Append(r2b1, Head(out1))
    BY DEF B1!SendRouted
  <1> DEFINE p == Head(out1)
  <1>11. p \in Packet /\ (p \in PacketsAt(5) \/ p \in PacketsAt(27))
    BY <1>1, <1>2, <1>3, <1>4, <1>10, FrontIn
  <1>12. KeepsBut({5, 27, 6, 28})
    BY DEF QueueAt, KeepsBut, B1!SendRouted, protocolVars, broker0Vars
  <1>13. /\ KeepsBut({5, Twin(5), 6, Twin(6)})
         /\ KeepsBut({27, Twin(27), 28, Twin(28)})
    BY <1>3, <1>12 DEF KeepsBut
  <1>14. /\ p \in PacketsAt(5) => Logged(Hop(5))
         /\ p \in PacketsAt(27) => Logged(Hop(27))
    BY DEF LogForwarding, Hop, PacketsAt, KindAt
  <1>15. /\ QueueAt(5) # << >> /\ Head(QueueAt(5)) = p /\ QueueAt(5)' = Tail(QueueAt(5))
         /\ QueueAt(6)' = Append(QueueAt(6), p)
         /\ QueueAt(27) # << >> /\ Head(QueueAt(27)) = p /\ QueueAt(27)' = Tail(QueueAt(27))
         /\ QueueAt(28)' = Append(QueueAt(28), p)
    BY <1>2, <1>10
  <1> HIDE DEF p
  <1>16. CASE p \in PacketsAt(5)
    BY <1>4, <1>5, <1>6, <1>9, <1>13, <1>14, <1>15, <1>16, FrontHandsOn
  <1>17. CASE p \in PacketsAt(27)
    BY <1>4, <1>5, <1>6, <1>9, <1>13, <1>14, <1>15, <1>17, FrontHandsOn
  <1> QED
    BY <1>11, <1>16, <1>17

LEMMA TakeRoutedHandsOn1 ==
  ASSUME IndInv, B1!TakeRouted, Logged({Entry("message", "router1")}),
         UNCHANGED <<callVars, losses, unsent, ended, protocolVars, sent, broker0Vars>>
  PROVE  HandsOn(6) \/ HandsOn(28)
  <1>1. InPlace /\ RoutersOK
    BY DEF IndInv
  <1>2. /\ QueueAt(6) = r2b1 /\ QueueAt(6)' = r2b1'
        /\ QueueAt(7) = Held(held1) /\ QueueAt(7)' = Held(held1')
        /\ QueueAt(28) = r2b1 /\ QueueAt(28)' = r2b1'
        /\ QueueAt(29) = Held(held1) /\ QueueAt(29)' = Held(held1')
    BY DEF QueueAt
  <1>3. Twin(6) = 28 /\ Twin(7) = 29 /\ Twin(28) = 6 /\ Twin(29) = 7
    BY DEF Twin
  <1>4. /\ 6 \in 2 .. 31 /\ 6 \in 2 .. 32 /\ 6 \in 1 .. 32 /\ 7 = 6 + 1
        /\ 28 \in 2 .. 31 /\ 28 \in 2 .. 32 /\ 28 \in 1 .. 32 /\ 29 = 28 + 1
    OBVIOUS
  <1>5. UNCHANGED <<callVars, losses, unsent, ended>> /\ router0' = router0 /\ router1' = router1
    BY DEF broker0Vars, B1!TakeRouted
  <1>6. RoutersAt(6) /\ RoutersAt(28)
    BY <1>1, <1>4, <1>5, RoutersStay
  <1>7. LinkAt(7) = LinkAt(6) /\ LinkAt(29) = LinkAt(28)
    BY DEF LinkAt
  <1>8. KindAt(7) = KindAt(6) /\ KindAt(29) = KindAt(28)
    BY DEF KindAt
  <1>9. PacketsAt(7) = PacketsAt(6) /\ PacketsAt(29) = PacketsAt(28)
    BY <1>7, <1>8 DEF PacketsAt
  <1>10. /\ r2b1 # << >> /\ r2b1' = Tail(r2b1) /\ held1 = Nothing
        /\ held1' = IF B1!Owner(Head(r2b1)) = Nothing THEN Nothing ELSE Head(r2b1)
    BY DEF B1!TakeRouted
  <1> DEFINE p == Head(r2b1)
  <1>11. p \in Packet /\ (p \in PacketsAt(6) \/ p \in PacketsAt(28))
    BY <1>1, <1>2, <1>3, <1>4, <1>10, FrontIn
  <1>12. KeepsBut({6, 28, 7, 29})
    BY DEF QueueAt, KeepsBut, B1!TakeRouted, protocolVars, broker0Vars
  <1>13. /\ KeepsBut({6, Twin(6), 7, Twin(7)})
         /\ KeepsBut({28, Twin(28), 29, Twin(29)})
    BY <1>3, <1>12 DEF KeepsBut
  <1>14. /\ p \in PacketsAt(6) => Logged(Hop(6))
         /\ p \in PacketsAt(28) => Logged(Hop(28))
    BY DEF Hop
  <1>15. B1!Owner(p) # Nothing
    <2>1. p.link \in LinksOf.router1
      BY <1>11 DEF PacketsAt, LinkAt, LinksOf
    <2> QED
      BY <2>1, NothingAssumption DEF B1!Owner, LinksOf, Link
  <1>16. Held(held1) = << >> /\ Held(held1') = Append(<< >>, p)
    BY <1>10, <1>11, <1>15, HeldOne DEF Held
  <1>17. /\ QueueAt(6) # << >> /\ Head(QueueAt(6)) = p /\ QueueAt(6)' = Tail(QueueAt(6))
         /\ QueueAt(7)' = Append(QueueAt(7), p)
         /\ QueueAt(28) # << >> /\ Head(QueueAt(28)) = p /\ QueueAt(28)' = Tail(QueueAt(28))
         /\ QueueAt(29)' = Append(QueueAt(29), p)
    BY <1>2, <1>10, <1>16
  <1> HIDE DEF p
  <1>18. CASE p \in PacketsAt(6)
    BY <1>4, <1>5, <1>6, <1>9, <1>13, <1>14, <1>17, <1>18, FrontHandsOn
  <1>19. CASE p \in PacketsAt(28)
    BY <1>4, <1>5, <1>6, <1>9, <1>13, <1>14, <1>17, <1>19, FrontHandsOn
  <1> QED
    BY <1>11, <1>18, <1>19

LEMMA DeliverHandsOn1 ==
  ASSUME IndInv, B1!Deliver, UNCHANGED log,
         UNCHANGED <<callVars, losses, unsent, ended, protocolVars, sent, broker0Vars>>
  PROVE  HandsOn(7) \/ HandsOn(29)
  <1>1. InPlace /\ RoutersOK
    BY DEF IndInv
  <1>2. /\ QueueAt(7) = Held(held1) /\ QueueAt(7)' = Held(held1')
        /\ QueueAt(8) = chan1["link3"] /\ QueueAt(8)' = chan1'["link3"]
        /\ QueueAt(29) = Held(held1) /\ QueueAt(29)' = Held(held1')
        /\ QueueAt(30) = chan1["link4"] /\ QueueAt(30)' = chan1'["link4"]
    BY DEF QueueAt
  <1>3. Twin(7) = 29 /\ Twin(8) = 8 /\ Twin(29) = 7 /\ Twin(30) = 30
    BY DEF Twin
  <1>4. /\ 7 \in 2 .. 31 /\ 7 \in 2 .. 32 /\ 7 \in 1 .. 32 /\ 8 = 7 + 1
        /\ 29 \in 2 .. 31 /\ 29 \in 2 .. 32 /\ 29 \in 1 .. 32 /\ 30 = 29 + 1
    OBVIOUS
  <1>5. UNCHANGED <<callVars, losses, unsent, ended>> /\ router0' = router0 /\ router1' = router1
    BY DEF broker0Vars, B1!Deliver
  <1>6. RoutersAt(7) /\ RoutersAt(29)
    BY <1>1, <1>4, <1>5, RoutersStay
  <1>7. LinkAt(8) = LinkAt(7) /\ LinkAt(30) = LinkAt(29)
    BY DEF LinkAt
  <1>8. KindAt(8) = KindAt(7) /\ KindAt(30) = KindAt(29)
    BY DEF KindAt
  <1>9. PacketsAt(8) = PacketsAt(7) /\ PacketsAt(30) = PacketsAt(29)
    BY <1>7, <1>8 DEF PacketsAt
  <1>10. /\ held1 # Nothing /\ held1' = Nothing
        /\ chan1' = [chan1 EXCEPT ![B1!Owner(held1)] = Append(@, held1)]
    BY DEF B1!Deliver
  <1> DEFINE p == held1
  <1>11. Held(held1) = <<p>> /\ Held(held1') = << >>
    BY <1>10 DEF Held
  <1>12. Held(held1) # << >> /\ Head(Held(held1)) = p /\ Tail(Held(held1)) = << >>
    BY <1>11
  <1>13. p \in Packet /\ (p \in PacketsAt(7) \/ p \in PacketsAt(29))
    BY <1>1, <1>2, <1>3, <1>4, <1>12, FrontIn
  <1>14. B1!Owner(p) = p.link
    <2>1. p.link \in LinksOf.router1
      BY <1>13 DEF PacketsAt, LinkAt, LinksOf
    <2> QED
      BY <2>1 DEF B1!Owner
  <1>15. p \in PacketsAt(7) => p.link = "link3"
    BY DEF PacketsAt, LinkAt
  <1>16. p \in PacketsAt(29) => p.link = "link4"
    BY DEF PacketsAt, LinkAt
  <1>17. /\ p \in PacketsAt(7) => KeepsBut({7, 29, 8})
         /\ p \in PacketsAt(29) => KeepsBut({7, 29, 30})
    <2>1. CASE p.link = "link3"
      <3>1. KeepsBut({7, 29, 8})
        BY <1>1, <1>10, <1>14, <2>1 DEF QueueAt, KeepsBut, B1!Deliver, protocolVars, broker0Vars,
           InPlace, LinksOf
      <3> QED
        BY <1>16, <2>1, <3>1
    <2>2. CASE p.link = "link4"
      <3>1. KeepsBut({7, 29, 30})
        BY <1>1, <1>10, <1>14, <2>2 DEF QueueAt, KeepsBut, B1!Deliver, protocolVars, broker0Vars,
           InPlace, LinksOf
      <3> QED
        BY <1>15, <2>2, <3>1
    <2> QED
      BY <1>15, <1>16, <2>1, <2>2
  <1>18. /\ p \in PacketsAt(7) => KeepsBut({7, Twin(7), 8, Twin(8)})
         /\ p \in PacketsAt(29) => KeepsBut({29, Twin(29), 30, Twin(30)})
    BY <1>3, <1>17 DEF KeepsBut
  <1>19. Logged(Hop(7)) /\ Logged(Hop(29))
    <2>1. Hop(7) = {} /\ Hop(29) = {}
      BY DEF Hop
    <2>2. log \in [LogEntry -> Nat]
      BY DEF IndInv, LogFollows
    <2> QED
      BY <2>1, <2>2 DEF Logged
  <1>20. /\ p \in PacketsAt(7) => chan1'["link3"] = Append(chan1["link3"], p)
         /\ p \in PacketsAt(29) => chan1'["link4"] = Append(chan1["link4"], p)
    BY <1>1, <1>10, <1>14, <1>15, <1>16 DEF InPlace, LinksOf
  <1>21. /\ QueueAt(7) # << >> /\ Head(QueueAt(7)) = p /\ QueueAt(7)' = Tail(QueueAt(7))
         /\ p \in PacketsAt(7) => QueueAt(8)' = Append(QueueAt(8), p)
         /\ QueueAt(29) # << >> /\ Head(QueueAt(29)) = p /\ QueueAt(29)' = Tail(QueueAt(29))
         /\ p \in PacketsAt(29) => QueueAt(30)' = Append(QueueAt(30), p)
    BY <1>2, <1>11, <1>12, <1>20
  <1> HIDE DEF p
  <1>22. CASE p \in PacketsAt(7)
    BY <1>4, <1>5, <1>6, <1>9, <1>18, <1>19, <1>21, <1>22, FrontHandsOn
  <1>23. CASE p \in PacketsAt(29)
    BY <1>4, <1>5, <1>6, <1>9, <1>18, <1>19, <1>21, <1>23, FrontHandsOn
  <1> QED
    BY <1>13, <1>22, <1>23

LEMMA SendRoutedHandsOn0 ==
  ASSUME IndInv, B0!SendRouted, LogForwarding("router0", Head(out0)),
         UNCHANGED <<callVars, losses, unsent, ended, protocolVars, sent, broker1Vars>>
  PROVE  HandsOn(11) \/ HandsOn(21)
  <1>1. InPlace /\ RoutersOK
    BY DEF IndInv
  <1>2. /\ QueueAt(11) = out0 /\ QueueAt(11)' = out0'
        /\ QueueAt(12) = r2b0 /\ QueueAt(12)' = r2b0'
        /\ QueueAt(21) = out0 /\ QueueAt(21)' = out0'
        /\ QueueAt(22) = r2b0 /\ QueueAt(22)' = r2b0'
    BY DEF QueueAt
  <1>3. Twin(11) = 21 /\ Twin(12) = 22 /\ Twin(21) = 11 /\ Twin(22) = 12
    BY DEF Twin
  <1>4. /\ 11 \in 2 .. 31 /\ 11 \in 2 .. 32 /\ 11 \in 1 .. 32 /\ 12 = 11 + 1
        /\ 21 \in 2 .. 31 /\ 21 \in 2 .. 32 /\ 21 \in 1 .. 32 /\ 22 = 21 + 1
    OBVIOUS
  <1>5. UNCHANGED <<callVars, losses, unsent, ended>> /\ router1' = router1 /\ router0' = router0
    BY DEF broker1Vars, B0!SendRouted
  <1>6. RoutersAt(11) /\ RoutersAt(21)
    BY <1>1, <1>4, <1>5, RoutersStay
  <1>7. LinkAt(12) = LinkAt(11) /\ LinkAt(22) = LinkAt(21)
    BY DEF LinkAt
  <1>8. KindAt(12) = KindAt(11) /\ KindAt(22) = KindAt(21)
    BY DEF KindAt
  <1>9. PacketsAt(12) = PacketsAt(11) /\ PacketsAt(22) = PacketsAt(21)
    BY <1>7, <1>8 DEF PacketsAt
  <1>10. /\ out0 # << >> /\ out0' = Tail(out0) /\ r2b0' = Append(r2b0, Head(out0))
    BY DEF B0!SendRouted
  <1> DEFINE p == Head(out0)
  <1>11. p \in Packet /\ (p \in PacketsAt(11) \/ p \in PacketsAt(21))
    BY <1>1, <1>2, <1>3, <1>4, <1>10, FrontIn
  <1>12. KeepsBut({11, 21, 12, 22})
    BY DEF QueueAt, KeepsBut, B0!SendRouted, protocolVars, broker1Vars
  <1>13. /\ KeepsBut({11, Twin(11), 12, Twin(12)})
         /\ KeepsBut({21, Twin(21), 22, Twin(22)})
    BY <1>3, <1>12 DEF KeepsBut
  <1>14. /\ p \in PacketsAt(11) => Logged(Hop(11))
         /\ p \in PacketsAt(21) => Logged(Hop(21))
    BY DEF LogForwarding, Hop, PacketsAt, KindAt
  <1>15. /\ QueueAt(11) # << >> /\ Head(QueueAt(11)) = p /\ QueueAt(11)' = Tail(QueueAt(11))
         /\ QueueAt(12)' = Append(QueueAt(12), p)
         /\ QueueAt(21) # << >> /\ Head(QueueAt(21)) = p /\ QueueAt(21)' = Tail(QueueAt(21))
         /\ QueueAt(22)' = Append(QueueAt(22), p)
    BY <1>2, <1>10
  <1> HIDE DEF p
  <1>16. CASE p \in PacketsAt(11)
    BY <1>4, <1>5, <1>6, <1>9, <1>13, <1>14, <1>15, <1>16, FrontHandsOn
  <1>17. CASE p \in PacketsAt(21)
    BY <1>4, <1>5, <1>6, <1>9, <1>13, <1>14, <1>15, <1>17, FrontHandsOn
  <1> QED
    BY <1>11, <1>16, <1>17

LEMMA TakeRoutedHandsOn0 ==
  ASSUME IndInv, B0!TakeRouted, Logged({Entry("message", "router0")}),
         UNCHANGED <<callVars, losses, unsent, ended, protocolVars, sent, broker1Vars>>
  PROVE  HandsOn(12) \/ HandsOn(22)
  <1>1. InPlace /\ RoutersOK
    BY DEF IndInv
  <1>2. /\ QueueAt(12) = r2b0 /\ QueueAt(12)' = r2b0'
        /\ QueueAt(13) = Held(held0) /\ QueueAt(13)' = Held(held0')
        /\ QueueAt(22) = r2b0 /\ QueueAt(22)' = r2b0'
        /\ QueueAt(23) = Held(held0) /\ QueueAt(23)' = Held(held0')
    BY DEF QueueAt
  <1>3. Twin(12) = 22 /\ Twin(13) = 23 /\ Twin(22) = 12 /\ Twin(23) = 13
    BY DEF Twin
  <1>4. /\ 12 \in 2 .. 31 /\ 12 \in 2 .. 32 /\ 12 \in 1 .. 32 /\ 13 = 12 + 1
        /\ 22 \in 2 .. 31 /\ 22 \in 2 .. 32 /\ 22 \in 1 .. 32 /\ 23 = 22 + 1
    OBVIOUS
  <1>5. UNCHANGED <<callVars, losses, unsent, ended>> /\ router1' = router1 /\ router0' = router0
    BY DEF broker1Vars, B0!TakeRouted
  <1>6. RoutersAt(12) /\ RoutersAt(22)
    BY <1>1, <1>4, <1>5, RoutersStay
  <1>7. LinkAt(13) = LinkAt(12) /\ LinkAt(23) = LinkAt(22)
    BY DEF LinkAt
  <1>8. KindAt(13) = KindAt(12) /\ KindAt(23) = KindAt(22)
    BY DEF KindAt
  <1>9. PacketsAt(13) = PacketsAt(12) /\ PacketsAt(23) = PacketsAt(22)
    BY <1>7, <1>8 DEF PacketsAt
  <1>10. /\ r2b0 # << >> /\ r2b0' = Tail(r2b0) /\ held0 = Nothing
        /\ held0' = IF B0!Owner(Head(r2b0)) = Nothing THEN Nothing ELSE Head(r2b0)
    BY DEF B0!TakeRouted
  <1> DEFINE p == Head(r2b0)
  <1>11. p \in Packet /\ (p \in PacketsAt(12) \/ p \in PacketsAt(22))
    BY <1>1, <1>2, <1>3, <1>4, <1>10, FrontIn
  <1>12. KeepsBut({12, 22, 13, 23})
    BY DEF QueueAt, KeepsBut, B0!TakeRouted, protocolVars, broker1Vars
  <1>13. /\ KeepsBut({12, Twin(12), 13, Twin(13)})
         /\ KeepsBut({22, Twin(22), 23, Twin(23)})
    BY <1>3, <1>12 DEF KeepsBut
  <1>14. /\ p \in PacketsAt(12) => Logged(Hop(12))
         /\ p \in PacketsAt(22) => Logged(Hop(22))
    BY DEF Hop
  <1>15. B0!Owner(p) # Nothing
    <2>1. p.link \in LinksOf.router0
      BY <1>11 DEF PacketsAt, LinkAt, LinksOf
    <2> QED
      BY <2>1, NothingAssumption DEF B0!Owner, LinksOf, Link
  <1>16. Held(held0) = << >> /\ Held(held0') = Append(<< >>, p)
    BY <1>10, <1>11, <1>15, HeldOne DEF Held
  <1>17. /\ QueueAt(12) # << >> /\ Head(QueueAt(12)) = p /\ QueueAt(12)' = Tail(QueueAt(12))
         /\ QueueAt(13)' = Append(QueueAt(13), p)
         /\ QueueAt(22) # << >> /\ Head(QueueAt(22)) = p /\ QueueAt(22)' = Tail(QueueAt(22))
         /\ QueueAt(23)' = Append(QueueAt(23), p)
    BY <1>2, <1>10, <1>16
  <1> HIDE DEF p
  <1>18. CASE p \in PacketsAt(12)
    BY <1>4, <1>5, <1>6, <1>9, <1>13, <1>14, <1>17, <1>18, FrontHandsOn
  <1>19. CASE p \in PacketsAt(22)
    BY <1>4, <1>5, <1>6, <1>9, <1>13, <1>14, <1>17, <1>19, FrontHandsOn
  <1> QED
    BY <1>11, <1>18, <1>19

LEMMA DeliverHandsOn0 ==
  ASSUME IndInv, B0!Deliver, UNCHANGED log,
         UNCHANGED <<callVars, losses, unsent, ended, protocolVars, sent, broker1Vars>>
  PROVE  HandsOn(13) \/ HandsOn(23)
  <1>1. InPlace /\ RoutersOK
    BY DEF IndInv
  <1>2. /\ QueueAt(13) = Held(held0) /\ QueueAt(13)' = Held(held0')
        /\ QueueAt(14) = chan0["link0"] /\ QueueAt(14)' = chan0'["link0"]
        /\ QueueAt(23) = Held(held0) /\ QueueAt(23)' = Held(held0')
        /\ QueueAt(24) = chan0["link2"] /\ QueueAt(24)' = chan0'["link2"]
    BY DEF QueueAt
  <1>3. Twin(13) = 23 /\ Twin(14) = 14 /\ Twin(23) = 13 /\ Twin(24) = 24
    BY DEF Twin
  <1>4. /\ 13 \in 2 .. 31 /\ 13 \in 2 .. 32 /\ 13 \in 1 .. 32 /\ 14 = 13 + 1
        /\ 23 \in 2 .. 31 /\ 23 \in 2 .. 32 /\ 23 \in 1 .. 32 /\ 24 = 23 + 1
    OBVIOUS
  <1>5. UNCHANGED <<callVars, losses, unsent, ended>> /\ router1' = router1 /\ router0' = router0
    BY DEF broker1Vars, B0!Deliver
  <1>6. RoutersAt(13) /\ RoutersAt(23)
    BY <1>1, <1>4, <1>5, RoutersStay
  <1>7. LinkAt(14) = LinkAt(13) /\ LinkAt(24) = LinkAt(23)
    BY DEF LinkAt
  <1>8. KindAt(14) = KindAt(13) /\ KindAt(24) = KindAt(23)
    BY DEF KindAt
  <1>9. PacketsAt(14) = PacketsAt(13) /\ PacketsAt(24) = PacketsAt(23)
    BY <1>7, <1>8 DEF PacketsAt
  <1>10. /\ held0 # Nothing /\ held0' = Nothing
        /\ chan0' = [chan0 EXCEPT ![B0!Owner(held0)] = Append(@, held0)]
    BY DEF B0!Deliver
  <1> DEFINE p == held0
  <1>11. Held(held0) = <<p>> /\ Held(held0') = << >>
    BY <1>10 DEF Held
  <1>12. Held(held0) # << >> /\ Head(Held(held0)) = p /\ Tail(Held(held0)) = << >>
    BY <1>11
  <1>13. p \in Packet /\ (p \in PacketsAt(13) \/ p \in PacketsAt(23))
    BY <1>1, <1>2, <1>3, <1>4, <1>12, FrontIn
  <1>14. B0!Owner(p) = p.link
    <2>1. p.link \in LinksOf.router0
      BY <1>13 DEF PacketsAt, LinkAt, LinksOf
    <2> QED
      BY <2>1 DEF B0!Owner
  <1>15. p \in PacketsAt(13) => p.link = "link0"
    BY DEF PacketsAt, LinkAt
  <1>16. p \in PacketsAt(23) => p.link = "link2"
    BY DEF PacketsAt, LinkAt
  <1>17. /\ p \in PacketsAt(13) => KeepsBut({13, 23, 14})
         /\ p \in PacketsAt(23) => KeepsBut({13, 23, 24})
    <2>1. CASE p.link = "link0"
      <3>1. KeepsBut({13, 23, 14})
        BY <1>1, <1>10, <1>14, <2>1 DEF QueueAt, KeepsBut, B0!Deliver, protocolVars, broker1Vars,
           InPlace, LinksOf
      <3> QED
        BY <1>16, <2>1, <3>1
    <2>2. CASE p.link = "link2"
      <3>1. KeepsBut({13, 23, 24})
        BY <1>1, <1>10, <1>14, <2>2 DEF QueueAt, KeepsBut, B0!Deliver, protocolVars, broker1Vars,
           InPlace, LinksOf
      <3> QED
        BY <1>15, <2>2, <3>1
    <2> QED
      BY <1>15, <1>16, <2>1, <2>2
  <1>18. /\ p \in PacketsAt(13) => KeepsBut({13, Twin(13), 14, Twin(14)})
         /\ p \in PacketsAt(23) => KeepsBut({23, Twin(23), 24, Twin(24)})
    BY <1>3, <1>17 DEF KeepsBut
  <1>19. Logged(Hop(13)) /\ Logged(Hop(23))
    <2>1. Hop(13) = {} /\ Hop(23) = {}
      BY DEF Hop
    <2>2. log \in [LogEntry -> Nat]
      BY DEF IndInv, LogFollows
    <2> QED
      BY <2>1, <2>2 DEF Logged
  <1>20. /\ p \in PacketsAt(13) => chan0'["link0"] = Append(chan0["link0"], p)
         /\ p \in PacketsAt(23) => chan0'["link2"] = Append(chan0["link2"], p)
    BY <1>1, <1>10, <1>14, <1>15, <1>16 DEF InPlace, LinksOf
  <1>21. /\ QueueAt(13) # << >> /\ Head(QueueAt(13)) = p /\ QueueAt(13)' = Tail(QueueAt(13))
         /\ p \in PacketsAt(13) => QueueAt(14)' = Append(QueueAt(14), p)
         /\ QueueAt(23) # << >> /\ Head(QueueAt(23)) = p /\ QueueAt(23)' = Tail(QueueAt(23))
         /\ p \in PacketsAt(23) => QueueAt(24)' = Append(QueueAt(24), p)
    BY <1>2, <1>11, <1>12, <1>20
  <1> HIDE DEF p
  <1>22. CASE p \in PacketsAt(13)
    BY <1>4, <1>5, <1>6, <1>9, <1>18, <1>19, <1>21, <1>22, FrontHandsOn
  <1>23. CASE p \in PacketsAt(23)
    BY <1>4, <1>5, <1>6, <1>9, <1>18, <1>19, <1>21, <1>23, FrontHandsOn
  <1> QED
    BY <1>13, <1>22, <1>23

\* The call sends the first of its requests.
LEMMA SendRequestMoves ==
  ASSUME InPlace, SendRequest
  PROVE  /\ Min(unsent) \in Frame /\ unsent' \in SUBSET Frame
         /\ Moves(1, Min(unsent))
         /\ \A k \in 2 .. 32 : QueueAt(k)' \in Seq(PacketsIn(k))
  <1> DEFINE f == Min(unsent)
             p == RequestFor(f)
  <1>1. f \in unsent /\ f \in Frame
    <2>1. unsent \subseteq Frame /\ unsent # {}
      BY DEF InPlace, SendRequest
    <2>2. Frame \subseteq Nat
      BY DEF Frame, LastFrame
    <2>3. \E x \in unsent : \A y \in unsent : x <= y
      BY <2>1, <2>2, HasLeast
    <2> QED
      BY <2>1, <2>3 DEF Min
  <1>2. unsent' = unsent \ {f} /\ p2l'["echo1"] = Append(p2l["echo1"], p)
    BY DEF SendRequest, InPlace, LinkOf
  <1>3. p \in PacketsAt(2) /\ p.frame = f
    BY <1>1 DEF RequestFor, PacketsAt, LinkAt, KindAt
  <1>4. Puts(2, p)
    <2>1. QueueAt(2) = p2l["echo1"] /\ QueueAt(2)' = p2l'["echo1"]
      BY DEF QueueAt
    <2> QED
      BY <1>2, <1>3, <2>1 DEF Puts
  <1>5. KeepsBut({2})
    BY DEF QueueAt, KeepsBut, SendRequest, brokerVars, broker0Vars, broker1Vars, InPlace, LinkOf
  <1> HIDE DEF f, p
  <1>6. ASSUME NEW F \in SUBSET Frame
        PROVE  /\ Count(1, F) \in Nat /\ Count(1, F)' \in Nat
               /\ Count(1, F) = Count(1, F)' + OneAt(1, 1, f, F)
    <2>1. /\ Count(1, F) = Cardinality(unsent \cap F)
          /\ Count(1, F)' = Cardinality((unsent \cap F) \ {f})
      BY <1>2 DEF Count
    <2>2. unsent \cap F \in SUBSET Frame
      BY DEF InPlace
    <2>3. /\ IsFiniteSet(unsent \cap F) /\ Cardinality(unsent \cap F) \in Nat
          /\ Cardinality((unsent \cap F) \ {f}) \in Nat
      BY <2>2, FramesAreFinite
    <2>4. Cardinality((unsent \cap F) \ {f})
            = IF f \in unsent \cap F THEN Cardinality(unsent \cap F) - 1 ELSE Cardinality(unsent \cap F)
      BY <2>3, FS_RemoveElement
    <2> QED
      BY <1>1, <2>1, <2>3, <2>4 DEF OneAt
  <1>7. 2 \in 2 .. 32 /\ Twin(2) = 2
    BY DEF Twin
  <1>8. ASSUME NEW k \in 2 .. 32, NEW F
        PROVE  /\ QueueAt(k)' \in Seq(PacketsIn(k))
               /\ Count(k, F) \in Nat /\ Count(k, F)' \in Nat
               /\ Count(k, F)' = Count(k, F) + OneAt(k, 2, f, F)
    <2>1. CASE k = 2
      <3>1. k \in {2, Twin(2)}
        BY <2>1
      <3> QED
        BY <1>3, <1>4, <1>7, <3>1, PutsCounts
    <2>2. CASE k # 2
      <3>1. QueueAt(k)' = QueueAt(k)
        BY <1>5, <2>2 DEF KeepsBut
      <3>2. OneAt(k, 2, f, F) = 0
        BY <2>2 DEF OneAt
      <3>3. /\ QueueAt(k)' \in Seq(PacketsIn(k))
            /\ Count(k, F) \in Nat /\ Count(k, F)' = Count(k, F)
        BY <3>1, KeptCounts
      <3> QED
        BY <3>2, <3>3
    <2> QED
      BY <2>1, <2>2
  <1>9. Moves(1, f)
    <2>1. ASSUME NEW F \in SUBSET Frame, NEW k \in 1 .. 32
          PROVE  LET by == IF f \in F THEN 1 ELSE 0
                 IN  /\ Counts(F)[k] \in Nat /\ Counts(F)'[k] \in Nat
                     /\ Counts(F)'[k] + (IF k = 1 THEN by ELSE 0)
                          = Counts(F)[k] + (IF k = 1 + 1 THEN by ELSE 0)
      <3>1. k \in Places /\ Counts(F)[k] = Count(k, F) /\ Counts(F)'[k] = Count(k, F)'
        BY DEF Counts, Places
      <3>2. CASE k = 1
        <4>1. /\ Count(k, F) \in Nat /\ Count(k, F)' \in Nat
              /\ Count(k, F) = Count(k, F)' + OneAt(1, 1, f, F)
          BY <1>6, <3>2
        <4> QED
          BY <3>1, <3>2, <4>1 DEF OneAt
      <3>3. CASE k # 1
        <4>1. k \in 2 .. 32
          BY <3>3
        <4> QED
          BY <1>8, <3>1, <4>1 DEF OneAt
      <3> QED
        BY <3>2, <3>3
    <2> QED
      BY <2>1 DEF Moves, MovedAt
  <1> QED
    BY <1>1, <1>2, <1>8, <1>9 DEF InPlace, f

LEMMA SendRequestKeeps ==
  ASSUME IndInv, Shapes', SendRequest
  PROVE  IndInv'
  <1>1. InPlace /\ RoutersOK
    BY DEF IndInv
  <1> DEFINE f == Min(unsent)
  <1>2. /\ f \in Frame /\ unsent' \in SUBSET Frame /\ Moves(1, f)
        /\ \A k \in 2 .. 32 : QueueAt(k)' \in Seq(PacketsIn(k))
    BY <1>1, SendRequestMoves
  <1> HIDE DEF f
  <1>3. InPlace'
    BY <1>2, ShapesInPlace
  <1>4. 1 \in 1 .. 32 /\ 1 # 4 /\ 1 # 10 /\ 1 # 32
    OBVIOUS
  <1>5. RoutersAt(1)
    <2>1. router0' = router0 /\ router1' = router1
      BY DEF SendRequest, brokerVars, broker0Vars, broker1Vars
    <2> QED
      BY <1>1, <1>4, <2>1, RoutersStay
  <1>6. Logged(Hop(1))
    <2>1. Hop(1) = {Entry("message", "echo1")}
      BY DEF Hop
    <2> QED
      BY <2>1 DEF SendRequest
  <1>7. UNCHANGED <<phase, goal, pending, window, size, worker, ended, losses>> /\ responses' = responses
    BY DEF SendRequest, callVars
  <1> QED
    BY <1>2, <1>3, <1>4, <1>5, <1>6, <1>7, GoesOnKeeps

\* The dispatch thread of echo1 hands the call a response; nothing else comes to it.
LEMMA HandOverTakes ==
  ASSUME InPlace, HandOver
  PROVE  LET packet == Head(l2p["echo1"])
         IN  /\ packet \in PacketsAt(32) /\ Takes(32, 1) /\ QueueAt(32)[1] = packet
             /\ KeepsBut({32})
             /\ packet.kind = "Response" /\ packet.frame \in Frame
             /\ [name |-> packet.name, frame |-> packet.frame] = ResponseFor(packet.frame)
             /\ Logged(Hop(32))
             /\ T!Receive(ResponseFor(packet.frame))
  <1> DEFINE packet == Head(l2p["echo1"])
  <1>1. /\ QueueAt(32) = l2p["echo1"] /\ QueueAt(32)' = l2p'["echo1"]
        /\ Twin(32) = 32 /\ 32 \in 2 .. 32
    BY DEF QueueAt, Twin
  <1>2. l2p["echo1"] # << >> /\ l2p'["echo1"] = Tail(l2p["echo1"])
    BY DEF HandOver, InPlace, LinkOf
  <1>3. packet \in PacketsAt(32) /\ Takes(32, 1) /\ QueueAt(32)[1] = packet
    BY <1>1, <1>2, FrontOf DEF Takes
  <1>4. KeepsBut({32})
    BY DEF QueueAt, KeepsBut, HandOver, brokerVars, broker0Vars, broker1Vars, InPlace, LinkOf
  <1>5. /\ packet.kind = "Response" /\ packet.frame \in Frame
        /\ [name |-> packet.name, frame |-> packet.frame] = ResponseFor(packet.frame)
    BY <1>3 DEF PacketsAt, KindAt, ResponseFor
  <1>6. Hop(32) = {Entry("message", "echo1"), Entry("response_arrived_downstream", "echo1")}
    BY DEF Hop
  <1>7. Logged(Hop(32)) /\ T!Receive([name |-> packet.name, frame |-> packet.frame])
    BY <1>5, <1>6 DEF HandOver
  <1> QED
    BY <1>3, <1>4, <1>5, <1>7

LEMMA HandOverMoves ==
  ASSUME InPlace, HandOver
  PROVE  LET packet == Head(l2p["echo1"])
         IN  /\ Moves(32, packet.frame)
             /\ \A k \in 2 .. 32 : QueueAt(k)' \in Seq(PacketsIn(k))
  <1> DEFINE packet == Head(l2p["echo1"])
             f == packet.frame
  <1>1. /\ Takes(32, 1) /\ QueueAt(32)[1] = packet /\ KeepsBut({32})
        /\ 32 \in 2 .. 32 /\ Twin(32) = 32
    BY HandOverTakes DEF Twin
  <1>2. unsent' = unsent
    BY DEF HandOver
  <1> HIDE DEF packet
  <1>3. ASSUME NEW k \in 2 .. 32, NEW F
        PROVE  /\ QueueAt(k)' \in Seq(PacketsIn(k))
               /\ Count(k, F) \in Nat /\ Count(k, F)' \in Nat
               /\ Count(k, F) = Count(k, F)' + OneAt(k, 32, f, F)
    <2>1. CASE k = 32
      <3>1. k \in {32, Twin(32)}
        BY <1>1, <2>1
      <3>2. /\ QueueAt(k)' \in Seq(PacketsIn(k))
            /\ Count(k, F) \in Nat /\ Count(k, F)' \in Nat
            /\ Count(k, F) = Count(k, F)' + OneAt(k, 32, QueueAt(32)[1].frame, F)
        BY <1>1, <3>1, TakesCounts
      <3> QED
        BY <1>1, <3>2
    <2>2. CASE k # 32
      <3>1. QueueAt(k)' = QueueAt(k)
        BY <1>1, <2>2 DEF KeepsBut
      <3>2. OneAt(k, 32, f, F) = 0
        BY <2>2 DEF OneAt
      <3>3. /\ QueueAt(k)' \in Seq(PacketsIn(k))
            /\ Count(k, F) \in Nat /\ Count(k, F)' = Count(k, F)
        BY <3>1, KeptCounts
      <3> QED
        BY <3>2, <3>3
    <2> QED
      BY <2>1, <2>2
  <1>4. ASSUME NEW F \in SUBSET Frame, NEW k \in 1 .. 32
        PROVE  LET by == IF f \in F THEN 1 ELSE 0
               IN  /\ Counts(F)[k] \in Nat /\ Counts(F)'[k] \in Nat
                   /\ Counts(F)'[k] + (IF k = 32 THEN by ELSE 0)
                        = Counts(F)[k] + (IF k = 32 + 1 THEN by ELSE 0)
    <2>1. k \in Places /\ Counts(F)[k] = Count(k, F) /\ Counts(F)'[k] = Count(k, F)'
      BY DEF Counts, Places
    <2>2. CASE k = 1
      <3>1. Count(k, F) \in Nat /\ Count(k, F)' = Count(k, F)
        BY <1>2, <2>2, UnsentCounts
      <3> QED
        BY <2>1, <2>2, <3>1
    <2>3. CASE k # 1
      <3>1. k \in 2 .. 32
        BY <2>3
      <3> QED
        BY <1>3, <2>1, <3>1, SMTT(30) DEF OneAt
    <2> QED
      BY <2>2, <2>3
  <1> QED
    BY <1>3, <1>4 DEF Moves, MovedAt, packet

LEMMA HandOverKeeps ==
  ASSUME IndInv, Shapes', HandOver
  PROVE  IndInv'
  <1>1. InPlace /\ RoutersOK
    BY DEF IndInv
  <1> DEFINE f == Head(l2p["echo1"]).frame
  <1>2. f \in Frame /\ Logged(Hop(32)) /\ T!Receive(ResponseFor(f))
    BY <1>1, HandOverTakes
  <1>3. Moves(32, f) /\ \A k \in 2 .. 32 : QueueAt(k)' \in Seq(PacketsIn(k))
    BY <1>1, HandOverMoves
  <1>4. 32 \in 1 .. 32 /\ 32 # 4 /\ 32 # 10
    OBVIOUS
  <1>5. RoutersAt(32)
    <2>1. router0' = router0 /\ router1' = router1
      BY DEF HandOver, brokerVars, broker0Vars, broker1Vars
    <2> QED
      BY <1>1, <1>4, <2>1, RoutersStay
  <1>6. unsent' = unsent /\ losses' = losses /\ ended' = ended
    BY DEF HandOver
  <1>7. InPlace'
    BY <1>1, <1>3, <1>6, ShapesInPlace DEF InPlace
  <1>8. /\ responses' = Append(responses, ResponseFor(f))
        /\ UNCHANGED <<phase, goal, pending, window, size, worker, ended, losses>>
    BY <1>2, <1>6 DEF T!Receive, T!callVars
  <1> QED
    BY <1>2, <1>3, <1>4, <1>5, <1>7, <1>8, GoesOnKeeps
-----------------------------------------------------------------------------
(* What the call does. *)

LEMMA QueuesStay ==
  ASSUME UNCHANGED <<protocolVars, sent, brokerVars>>
  PROVE  \A k \in 2 .. 32 : QueueAt(k)' = QueueAt(k)
  BY DEF QueueAt, protocolVars, brokerVars, broker0Vars, broker1Vars

\* Where every packet stays where it is, nothing is counted elsewhere.
LEMMA PlacesStay ==
  ASSUME InPlace, Shapes', UNCHANGED <<unsent, protocolVars, sent, brokerVars>>
  PROVE  /\ UnderWay' = UnderWay
         /\ \A k \in 0 .. 32 : /\ After(Counts(Frame), k, 32) \in Nat
                               /\ After(Counts(Frame)', k, 32) = After(Counts(Frame), k, 32)
         /\ InPlace'
  <1>1. ASSUME NEW F, NEW k \in Places PROVE Count(k, F)' = Count(k, F)
    <2>1. CASE k = 1
      BY <2>1 DEF Count
    <2>2. CASE k # 1
      <3>1. k \in 2 .. 32
        BY <2>2 DEF Places
      <3>2. QueueAt(k)' = QueueAt(k)
        BY <3>1, QueuesStay
      <3> QED
        BY <2>2, <3>2 DEF Count
    <2> QED
      BY <2>1, <2>2
  <1>2. ASSUME NEW F PROVE Counts(F)' = Counts(F)
    BY <1>1 DEF Counts
  <1>3. UnderWay' = UnderWay
    <2>1. ASSUME NEW p \in [name : {"echo"}, frame : Frame]
          PROVE  [k \in Places |-> Count(k, {p.frame})'] = [k \in Places |-> Count(k, {p.frame})]
      BY <1>1
    <2> QED
      BY <2>1 DEF UnderWay
  <1>4. ASSUME NEW k \in 0 .. 32
        PROVE  /\ After(Counts(Frame), k, 32) \in Nat
               /\ After(Counts(Frame)', k, 32) = After(Counts(Frame), k, 32)
    <2>1. \A i \in 1 .. 32 : Counts(Frame)[i] \in Nat
      BY CountsType
    <2>2. 32 \in Nat
      OBVIOUS
    <2> QED
      BY <1>2, <2>1, <2>2, AfterProperties
  <1>5. InPlace'
    <2>1. \A k \in 2 .. 32 : QueueAt(k)' \in Seq(PacketsIn(k))
      BY QueuesStay, QueueType
    <2>2. unsent' \in SUBSET Frame
      BY DEF InPlace
    <2> QED
      BY <2>1, <2>2, ShapesInPlace
  <1> QED
    BY <1>3, <1>4, <1>5

\* A step of the call that moves no frame keeps the invariant if it counts them as before.
LEMMA CallKeeps ==
  ASSUME IndInv, Shapes', UNCHANGED <<unsent, protocolVars, sent, brokerVars>>,
         log' = log, losses' = losses, CallOK', FramesOnce',
         Cardinality(Asked)' = Cardinality(Asked),
         Len(responses') + Cardinality(Answered)' = Len(responses) + Cardinality(Answered)
  PROVE  IndInv'
  <1>1. /\ InPlace /\ CallOK /\ FramesKept /\ RoutersOK /\ LogFollows
        /\ losses \in Nat
    BY DEF IndInv, FramesKept
  <1>2. /\ \A k \in 0 .. 32 : /\ After(Counts(Frame), k, 32) \in Nat
                              /\ After(Counts(Frame)', k, 32) = After(Counts(Frame), k, 32)
        /\ InPlace'
    BY <1>1, PlacesStay
  <1>3. /\ Len(responses) \in Nat /\ Cardinality(Answered) \in Nat
        /\ Len(responses') \in Nat /\ Cardinality(Answered)' \in Nat
    <2>1. Answered' \in SUBSET Frame
      BY DEF Answered, Asked
    <2>2. Cardinality(Answered') \in Nat
      BY <2>1, FramesAreFinite
    <2>3. Len(responses') \in Nat
      BY LenProperties DEF CallOK
    <2> QED
      BY <1>1, <2>2, <2>3, NumbersType
  <1>4. ASSUME NEW k \in 0 .. 32 PROVE Past(k)' = Past(k)
    <2>1. /\ Past(k) = After(Counts(Frame), k, 32) + Len(responses) + Cardinality(Answered)
          /\ Past(k)' = After(Counts(Frame)', k, 32) + Len(responses') + Cardinality(Answered')
      BY PastIsAfter
    <2> DEFINE a == After(Counts(Frame), k, 32)
               c == Cardinality(Answered)
               c1 == Cardinality(Answered')
               d == Len(responses)
               d1 == Len(responses')
    <2>2. /\ Past(k) = a + d + c /\ Past(k)' = a + d1 + c1 /\ d1 + c1 = d + c
          /\ a \in Nat /\ c \in Nat /\ c1 \in Nat /\ d \in Nat /\ d1 \in Nat
      BY <1>2, <1>3, <2>1
    <2> HIDE DEF a, c, c1, d, d1
    <2> QED
      BY <2>2
  <1>5. FramesKept'
    <2>1. 0 \in 0 .. 32
      OBVIOUS
    <2> QED
      BY <1>1, <1>4, <2>1 DEF FramesKept
  <1>6. RoutersOK'
    <2>1. 4 \in 0 .. 32 /\ 10 \in 0 .. 32
      OBVIOUS
    <2>2. Past(4)' = Past(4) /\ Past(10)' = Past(10)
      BY <1>4, <2>1
    <2>3. router0' = router0 /\ router1' = router1
      BY DEF brokerVars, broker0Vars, broker1Vars
    <2> QED
      BY <1>1, <2>2, <2>3 DEF RoutersOK
  <1>7. LogFollows'
    <2>1. ASSUME NEW k \in Places PROVE Past(k)' = Past(k)
      <3>1. k \in 0 .. 32
        BY DEF Places
      <3> QED
        BY <1>4, <3>1
    <2>2. /\ [k \in Places |-> Past(k)'] = [k \in Places |-> Past(k)]
          /\ [k \in Places |-> Past(k)' + losses'] = [k \in Places |-> Past(k) + losses]
      BY <2>1
    <2> QED
      BY <1>1, <2>2 DEF LogFollows
  <1> QED
    BY <1>2, <1>5, <1>6, <1>7 DEF IndInv

\* All the call knows is what it knew.
LEMMA NothingNew ==
  ASSUME IndInv, Shapes', UNCHANGED <<unsent, protocolVars, sent, brokerVars>>,
         log' = log, losses' = losses, CallOK', Asked' = Asked,
         T!Failed("ping")' = T!Failed("ping"), responses' = responses
  PROVE  IndInv'
  <1>1. InPlace /\ FramesOnce
    BY DEF IndInv
  <1>2. UnderWay' = UnderWay
    BY <1>1, PlacesStay
  <1>3. FramesOnce'
    BY <1>1, <1>2 DEF FramesOnce
  <1>4. Answered' = Answered
    BY DEF Answered
  <1> QED
    BY <1>3, <1>4, CallKeeps

LEMMA RequestKeeps ==
  ASSUME IndInv, Shapes', Ping, T!Request("ping")
  PROVE  IndInv'
  <1>1. CallOK
    BY DEF IndInv
  <1>2. UNCHANGED <<unsent, ended, log, protocolVars, sent, brokerVars>>
    BY DEF Ping
  <1>3. /\ phase["ping"] = "idle" /\ phase' = [phase EXCEPT !["ping"] = "ready"]
        /\ pending' = [pending EXCEPT !["ping"] = T!Wanted("ping")]
        /\ UNCHANGED <<goal, window, size, worker, responses, losses>>
    BY DEF T!Request, T!netVars
  <1>4. T!Wanted("ping") = Frame
    BY <1>1 DEF CallOK, T!Wanted, Goal, Frame
  <1>5. Asked' = Asked
    BY <1>1, <1>3, <1>4 DEF Asked, CallOK
  <1>6. T!Failed("ping")' = T!Failed("ping")
    BY <1>3 DEF T!Failed
  <1>7. CallOK'
    BY <1>1, <1>2, <1>3, <1>4, <1>6 DEF CallOK, T!Phase
  <1> QED
    BY <1>2, <1>3, <1>5, <1>6, <1>7, NothingNew

LEMMA CollectWindowKeeps ==
  ASSUME IndInv, Shapes', Ping, T!CollectWindow("ping")
  PROVE  IndInv'
  <1>1. CallOK
    BY DEF IndInv
  <1>2. UNCHANGED <<unsent, ended, log, protocolVars, sent, brokerVars>>
    BY DEF Ping
  <1>3. /\ phase["ping"] = "waiting" /\ phase' = [phase EXCEPT !["ping"] = "ready"]
        /\ worker["ping"].missing = 0
        /\ size' = [size EXCEPT !["ping"] = T!NextSize("ping")]
        /\ pending' = [pending EXCEPT !["ping"] = @ \cup T!Failed("ping")]
        /\ window' = [window EXCEPT !["ping"] = {}]
        /\ worker' = [worker EXCEPT !["ping"] = T!NoWorker]
        /\ UNCHANGED <<goal, responses, losses>>
    BY DEF T!CollectWindow, T!netVars
  <1>4. T!Failed("ping") = {}
    <2>1. T!Failed("ping") \in SUBSET Frame
      BY <1>1 DEF CallOK, T!Failed
    <2>2. IsFiniteSet(T!Failed("ping")) /\ Cardinality(T!Failed("ping")) = 0
      BY <1>1, <1>3, <2>1, FramesAreFinite DEF CallOK
    <2> QED
      BY <2>2, FS_EmptySet
  <1>5. T!Failed("ping")' = {}
    BY <1>1, <1>3 DEF T!Failed, CallOK
  <1>6. Asked' = Asked
    BY <1>1, <1>3, <1>4 DEF Asked, CallOK
  <1>7. CallOK'
    <2>1. T!NoWorker \in T!Worker /\ T!NoWorker.missing = 0
      BY DEF T!NoWorker, T!Worker
    <2>2. T!NextSize("ping") \in Nat \ {0}
      BY <1>1 DEF T!NextSize, CallOK
    <2>3. worker'["ping"].missing = Cardinality(T!Failed("ping"))'
      BY <1>1, <1>3, <1>5, <2>1, FS_EmptySet DEF CallOK
    <2>4. worker' \in [{"ping"} -> T!Worker] /\ size' \in [{"ping"} -> Nat \ {0}]
      BY <1>1, <1>3, <2>1, <2>2 DEF CallOK
    <2> QED
      BY <1>1, <1>2, <1>3, <1>4, <2>3, <2>4 DEF CallOK, T!Phase
  <1> QED
    BY <1>2, <1>3, <1>4, <1>5, <1>6, <1>7, NothingNew

LEMMA ReconstructKeeps ==
  ASSUME IndInv, Shapes', Ping, T!Reconstruct("ping")
  PROVE  IndInv'
  <1>1. CallOK
    BY DEF IndInv
  <1>2. UNCHANGED <<unsent, ended, log, protocolVars, sent, brokerVars>>
    BY DEF Ping
  <1>3. /\ phase["ping"] = "ready" /\ phase' = [phase EXCEPT !["ping"] = "returned"]
        /\ pending["ping"] = {}
        /\ UNCHANGED <<goal, pending, window, size, worker, responses, losses>>
    BY DEF T!Reconstruct, T!netVars
  <1>4. Asked' = Asked
    BY <1>1, <1>3 DEF Asked, CallOK
  <1>5. T!Failed("ping")' = T!Failed("ping")
    BY <1>3 DEF T!Failed
  <1>6. CallOK'
    BY <1>1, <1>2, <1>3, <1>5 DEF CallOK, T!Phase
  <1> QED
    BY <1>2, <1>3, <1>4, <1>5, <1>6, NothingNew

LEMMA TimeOutKeeps ==
  ASSUME IndInv, Shapes', TimeOut
  PROVE  IndInv'
  <1>1. CallOK
    BY DEF IndInv
  <1>2. UNCHANGED <<unsent, ended, log, protocolVars, sent, brokerVars>>
    BY DEF TimeOut
  <1>3. /\ phase["ping"] = "waiting" /\ phase' = [phase EXCEPT !["ping"] = "failed"]
        /\ UNCHANGED <<goal, pending, window, size, worker, responses, losses>>
    BY DEF TimeOut, T!TimeOut, T!netVars
  <1>4. Asked' = Asked
    BY <1>1, <1>3 DEF Asked, CallOK
  <1>5. T!Failed("ping")' = T!Failed("ping")
    BY <1>3 DEF T!Failed
  <1>6. CallOK'
    BY <1>1, <1>2, <1>3, <1>5 DEF CallOK, T!Phase
  <1> QED
    BY <1>2, <1>3, <1>4, <1>5, <1>6, NothingNew

LEMMA EndKeeps ==
  ASSUME IndInv, Shapes', End
  PROVE  IndInv'
  <1>1. CallOK
    BY DEF IndInv
  <1>2. /\ phase["ping"] = "returned" /\ ended' = TRUE
        /\ UNCHANGED <<phase, goal, pending, window, size, worker, responses, losses>>
        /\ UNCHANGED <<unsent, log, protocolVars, sent, brokerVars>>
    BY DEF End, callVars
  <1>3. Asked' = Asked
    BY <1>2 DEF Asked
  <1>4. T!Failed("ping")' = T!Failed("ping")
    BY <1>2 DEF T!Failed
  <1>5. CallOK'
    BY <1>1, <1>2, <1>4 DEF CallOK
  <1> QED
    BY <1>2, <1>3, <1>4, <1>5, NothingNew

LEMMA LockChannelKeeps ==
  ASSUME IndInv, Shapes', Work, T!LockChannel("ping")
  PROVE  IndInv'
  <1>1. CallOK
    BY DEF IndInv
  <1>2. UNCHANGED <<unsent, ended, log, protocolVars, sent, brokerVars>>
    BY DEF Work
  <1>3. UNCHANGED <<phase, goal, pending, window, size, worker, responses, losses>>
    BY DEF T!LockChannel, T!callVars, T!netVars
  <1>4. Asked' = Asked
    BY <1>3 DEF Asked
  <1>5. T!Failed("ping")' = T!Failed("ping")
    BY <1>3 DEF T!Failed
  <1>6. CallOK'
    BY <1>1, <1>2, <1>3, <1>5 DEF CallOK
  <1> QED
    BY <1>2, <1>3, <1>4, <1>5, <1>6, NothingNew

\* The worker takes the response to a frame that has failed so far.
LEMMA ResponseTaken ==
  ASSUME IndInv, T!TakeResponse("ping")
  PROVE  LET p == Head(responses)
         IN  /\ p \in T!Response /\ p.frame \in T!Failed("ping")
             /\ Len(responses') + 1 = Len(responses) /\ responses' \in Seq(T!Response)
             /\ \A q \in T!Response : /\ Len(Only(responses, {q})) \in Nat
                                      /\ Len(Only(responses', {q})) \in Nat
                                      /\ Len(Only(responses, {q}))
                                           = Len(Only(responses', {q})) + OneOf(q, {p})
             /\ UnderWay[p] + Len(Only(responses, {p})) = 1
             /\ worker' \in [{"ping"} -> T!Worker]
             /\ worker'["ping"].missing = worker["ping"].missing - 1
             /\ T!Failed("ping")' = T!Failed("ping") \ {p.frame}
             /\ UNCHANGED <<phase, goal, pending, window, size, losses>>
  <1> DEFINE p == Head(responses)
  <1>1. InPlace /\ CallOK /\ FramesOnce
    BY DEF IndInv
  <1>2. /\ responses # << >> /\ responses' = Tail(responses)
        /\ worker' = [worker EXCEPT !["ping"] = T!Seen("ping", p)]
        /\ UNCHANGED <<phase, goal, pending, window, size, losses>>
    BY DEF T!TakeResponse, T!netVars
  <1>3. responses \in Seq(T!Response)
    BY <1>1 DEF CallOK
  <1>4. /\ 1 \in DOMAIN responses /\ responses[1] = p
        /\ Tail(responses) = RemoveAt(responses, 1) /\ p \in T!Response
    BY <1>2, <1>3, TailIsRemoveAt
  <1>5. /\ Len(responses') + 1 = Len(responses) /\ responses' \in Seq(T!Response)
    BY <1>2, <1>3, HeadTailProperties, LenProperties
  <1>6. ASSUME NEW q \in T!Response
        PROVE  /\ Len(Only(responses, {q})) \in Nat
               /\ Len(Only(responses', {q})) \in Nat
               /\ Len(Only(responses, {q})) = Len(Only(responses', {q})) + OneOf(q, {p})
    <2>1. /\ Len(Only(responses, {q})) \in Nat /\ Len(Only(RemoveAt(responses, 1), {q})) \in Nat
          /\ Len(Only(responses, {q})) = Len(Only(RemoveAt(responses, 1), {q}))
                                           + (IF responses[1] \in {q} THEN 1 ELSE 0)
      BY <1>3, <1>4, OnlyRemoveAt
    <2>2. OneOf(q, {p}) = IF responses[1] \in {q} THEN 1 ELSE 0
      BY <1>4 DEF OneOf
    <2> QED
      BY <1>2, <1>4, <2>1, <2>2
  <1> HIDE DEF p
  <1>7. Len(Only(responses, {p})) >= 1
    <2>1. OneOf(p, {p}) = 1
      BY DEF OneOf
    <2>2. /\ Len(Only(responses', {p})) \in Nat
          /\ Len(Only(responses, {p})) = Len(Only(responses', {p})) + OneOf(p, {p})
      BY <1>4, <1>6
    <2> QED
      BY <2>1, <2>2
  <1>8. p.frame \in T!Failed("ping") /\ UnderWay[p] + Len(Only(responses, {p})) = 1
    BY <1>1, <1>4, <1>7, CallWaits
  <1>9. T!Counts("ping", p)
    BY <1>1, <1>4 DEF T!Counts, T!Response, CallOK, Goal
  <1>10. worker["ping"] \in T!Worker /\ worker["ping"].missing \in Nat \ {0}
    <2>1. T!Failed("ping") \in SUBSET Frame
      BY <1>1 DEF CallOK, T!Failed
    <2>2. IsFiniteSet(T!Failed("ping"))
      BY <2>1, FramesAreFinite
    <2>3. Cardinality(T!Failed("ping")) # 0 /\ Cardinality(T!Failed("ping")) \in Nat
      BY <1>8, <2>2, FS_EmptySet, FS_CardinalityType
    <2> QED
      BY <1>1, <2>3 DEF CallOK
  <1>11. T!Kept(worker["ping"].returned, p) = worker["ping"].returned \cup {p}
    BY <1>8 DEF T!Kept, T!Failed
  <1>12. /\ T!Seen("ping", p) = [worker["ping"] EXCEPT !.missing = worker["ping"].missing - 1,
                                        !.returned = worker["ping"].returned \cup {p}]
    BY <1>9, <1>10, <1>11 DEF T!Seen, T!Worker
  <1>13. /\ T!Seen("ping", p) \in T!Worker
         /\ T!Seen("ping", p).missing = worker["ping"].missing - 1
         /\ T!Seen("ping", p).returned = worker["ping"].returned \cup {p}
    <2> DEFINE w == worker["ping"]
               m == w.missing - 1
               t == w.returned \cup {p}
    <2>1. m \in Nat /\ t \in SUBSET T!Response /\ w \in T!Worker
      BY <1>4, <1>10 DEF T!Worker
    <2>2. T!Seen("ping", p) = [w EXCEPT !.missing = m, !.returned = t]
      BY <1>12
    <2> HIDE DEF w, m, t
    <2>3. /\ T!Seen("ping", p) \in T!Worker
          /\ T!Seen("ping", p).missing = m /\ T!Seen("ping", p).returned = t
      BY <2>1, <2>2 DEF T!Worker
    <2> QED
      BY <2>3 DEF w, m, t
  <1>14. /\ worker' \in [{"ping"} -> T!Worker]
         /\ worker'["ping"] = T!Seen("ping", p)
    BY <1>1, <1>2, <1>13 DEF CallOK, p
  <1>15. T!Failed("ping")' = T!Failed("ping") \ {p.frame}
    BY <1>2, <1>13, <1>14 DEF T!Failed
  <1> QED
    BY <1>2, <1>4, <1>5, <1>6, <1>8, <1>13, <1>14, <1>15 DEF p

\* What failed so far was asked for.
LEMMA FailedWasAsked ==
  ASSUME CallOK
  PROVE  T!Failed("ping") \in SUBSET Frame /\ T!Failed("ping") \subseteq Asked
  BY DEF CallOK, T!Failed, Asked

LEMMA TakeResponseKeeps ==
  ASSUME IndInv, Shapes', Work, T!TakeResponse("ping")
  PROVE  IndInv'
  <1> DEFINE p == Head(responses)
             f == p.frame
  <1>1. InPlace /\ CallOK /\ FramesOnce
    BY DEF IndInv
  <1>2. UNCHANGED <<unsent, ended, log, protocolVars, sent, brokerVars>>
    BY DEF Work
  <1>3. /\ p \in T!Response /\ f \in T!Failed("ping")
        /\ Len(responses') + 1 = Len(responses) /\ responses' \in Seq(T!Response)
        /\ \A q \in T!Response : /\ Len(Only(responses, {q})) \in Nat
                                 /\ Len(Only(responses', {q})) \in Nat
                                 /\ Len(Only(responses, {q}))
                                      = Len(Only(responses', {q})) + OneOf(q, {p})
        /\ UnderWay[p] + Len(Only(responses, {p})) = 1
        /\ worker' \in [{"ping"} -> T!Worker]
        /\ worker'["ping"].missing = worker["ping"].missing - 1
        /\ T!Failed("ping")' = T!Failed("ping") \ {f}
        /\ UNCHANGED <<phase, goal, pending, window, size, losses>>
    BY ResponseTaken
  <1> HIDE DEF p, f
  <1>4. UnderWay' = UnderWay
    BY <1>1, <1>2, PlacesStay
  <1>5. Asked' = Asked
    BY <1>3 DEF Asked
  <1>6. CallOK'
    <2>1. T!Failed("ping") \in SUBSET Frame /\ IsFiniteSet(T!Failed("ping"))
      BY <1>1, FailedWasAsked, FramesAreFinite
    <2>2. Cardinality(T!Failed("ping") \ {f}) = Cardinality(T!Failed("ping")) - 1
      BY <1>3, <2>1, FS_RemoveElement
    <2>3. worker'["ping"].missing = Cardinality(T!Failed("ping")')
      BY <1>1, <1>3, <2>2 DEF CallOK
    <2> QED
      BY <1>1, <1>2, <1>3, <2>3 DEF CallOK
  <1>7. FramesOnce'
    <2>1. ASSUME NEW q \in T!Response
          PROVE  UnderWay[q] + Len(Only(responses', {q}))
                   <= IF q.frame \in T!Failed("ping") \ {f} THEN 1 ELSE 0
      <3>1. /\ Len(Only(responses, {q})) \in Nat /\ Len(Only(responses', {q})) \in Nat
            /\ Len(Only(responses, {q})) = Len(Only(responses', {q})) + OneOf(q, {p})
            /\ UnderWay[q] \in Nat
        BY <1>1, <1>3, NumbersType
      <3>2. CASE q = p
        <4>1. OneOf(q, {p}) = 1
          BY <3>2 DEF OneOf
        <4> QED
          BY <1>3, <3>1, <3>2, <4>1 DEF f
      <3>3. CASE q # p
        <4>1. OneOf(q, {p}) = 0 /\ q.frame # f
          BY <1>3, <3>3 DEF OneOf, T!Response, f
        <4>2. UnderWay[q] + Len(Only(responses, {q})) <= IF q.frame \in T!Failed("ping") THEN 1 ELSE 0
          BY <1>1 DEF FramesOnce
        <4> QED
          BY <3>1, <4>1, <4>2
      <3> QED
        BY <3>2, <3>3
    <2> QED
      BY <1>3, <1>4, <2>1 DEF FramesOnce
  <1>8. Cardinality(Answered)' = Cardinality(Answered) + 1
    <2>1. Answered \in SUBSET Frame /\ IsFiniteSet(Answered)
      BY FramesAreFinite DEF Answered, Asked
    <2>2. Answered' = Answered \cup {f} /\ f \notin Answered
      BY <1>1, <1>3, <1>5, FailedWasAsked DEF Answered
    <2>3. Cardinality(Answered \cup {f}) = Cardinality(Answered) + 1
      BY <2>1, <2>2, FS_AddElement
    <2> QED
      BY <2>2, <2>3
  <1>9. Len(responses') + Cardinality(Answered)' = Len(responses) + Cardinality(Answered)
    <2>1. Len(responses) \in Nat /\ Cardinality(Answered) \in Nat
      BY <1>1, NumbersType
    <2>2. Len(responses') \in Nat
      BY <1>3, LenProperties
    <2> QED
      BY <1>3, <1>8, <2>1, <2>2
  <1> QED
    BY <1>2, <1>3, <1>5, <1>6, <1>7, <1>9, CallKeeps

\* A window begins when everything that was asked for is answered, and it is sent from place 1.
LEMMA WindowBegins ==
  ASSUME IndInv, BeginWindow
  PROVE  LET next == T!FirstFrames(pending["ping"], size["ping"])
         IN  /\ next \subseteq pending["ping"] /\ next \in SUBSET Frame
             /\ unsent = {} /\ unsent' = next
             /\ phase["ping"] = "ready" /\ phase' = [phase EXCEPT !["ping"] = "waiting"]
             /\ pending' = [pending EXCEPT !["ping"] = @ \ next]
             /\ window' = [window EXCEPT !["ping"] = next]
             /\ worker' = [worker EXCEPT !["ping"] = [T!NoWorker EXCEPT !.missing = Cardinality(next)]]
             /\ window["ping"] = {} /\ T!Failed("ping") = {}
             /\ UNCHANGED <<goal, size, responses, losses, ended, log, protocolVars, sent, brokerVars>>
  <1> DEFINE next == T!FirstFrames(pending["ping"], size["ping"])
  <1>1. InPlace /\ CallOK /\ FramesOnce
    BY DEF IndInv
  <1>2. /\ unsent' = next
        /\ phase["ping"] = "ready" /\ phase' = [phase EXCEPT !["ping"] = "waiting"]
        /\ pending' = [pending EXCEPT !["ping"] = @ \ next]
        /\ window' = [window EXCEPT !["ping"] = next]
        /\ worker' = [worker EXCEPT !["ping"] = [T!NoWorker EXCEPT !.missing = Cardinality(next)]]
        /\ UNCHANGED <<goal, size, responses, losses, ended, log, protocolVars, sent, brokerVars>>
    BY DEF BeginWindow, T!NextWindow, T!Cardinality, Cardinality
  <1>3. next \subseteq pending["ping"] /\ next \in SUBSET Frame
    BY <1>1 DEF T!FirstFrames, CallOK
  <1>4. window["ping"] = {} /\ T!Failed("ping") = {}
    BY <1>1, <1>2 DEF CallOK, T!Failed
  <1>5. ASSUME NEW f \in unsent PROVE FALSE
    <2>1. f \in Frame /\ {f} \in SUBSET Frame /\ unsent \cap {f} = {f}
      BY <1>1 DEF InPlace
    <2>2. ResponseFor(f) \in T!Response /\ ResponseFor(f).frame = f
      BY <2>1, ResponseForProperties
    <2>3. UnderWay[ResponseFor(f)] = After(Counts({f}), 0, 32)
      BY <2>2, UnderWayIsAfter
    <2>4. \A j \in 1 .. 32 : Counts({f})[j] \in Nat
      BY <1>1, CountsType
    <2>5. 32 \in Nat /\ 0 \in 0 .. 32 /\ 1 \in 1 .. 32 /\ 1 > 0
      OBVIOUS
    <2>6. Counts({f})[1] <= After(Counts({f}), 0, 32) /\ After(Counts({f}), 0, 32) \in Nat
      BY <2>4, <2>5, AfterProperties
    <2>7. Counts({f})[1] = 1
      BY <2>1, <2>5, FS_Singleton DEF Counts, Count, Places
    <2>8. UnderWay[ResponseFor(f)] >= 1
      BY <2>3, <2>6, <2>7
    <2>9. ResponseFor(f).frame \in T!Failed("ping")
      BY <1>1, <2>2, <2>8, CallWaits
    <2> QED
      BY <1>4, <2>9
  <1> QED
    BY <1>2, <1>3, <1>4, <1>5

\* Its frames are at the first place, and nothing else moves.
LEMMA WindowCounts ==
  ASSUME IndInv, BeginWindow, NEW F \in SUBSET Frame
  PROVE  LET more == Cardinality(T!FirstFrames(pending["ping"], size["ping"]) \cap F)
         IN  /\ more \in Nat
             /\ \A k \in 0 .. 32 : /\ After(Counts(F), k, 32) \in Nat
                                   /\ After(Counts(F)', k, 32)
                                        = After(Counts(F), k, 32) + (IF 1 > k THEN more ELSE 0)
  <1> DEFINE next == T!FirstFrames(pending["ping"], size["ping"])
             more == Cardinality(next \cap F)
  <1>1. InPlace
    BY DEF IndInv
  <1>2. /\ next \in SUBSET Frame /\ unsent = {} /\ unsent' = next
        /\ UNCHANGED <<protocolVars, sent, brokerVars>>
    BY WindowBegins
  <1> HIDE DEF next
  <1>3. more \in Nat
    <2>1. next \cap F \in SUBSET Frame
      OBVIOUS
    <2> QED
      BY <2>1, FramesAreFinite
  <1>4. GrownAt(Counts(F)', Counts(F), 1 .. 32, 1, more)
    <2>1. ASSUME NEW k \in 1 .. 32
          PROVE  /\ Counts(F)[k] \in Nat
                 /\ Counts(F)'[k] = IF k = 1 THEN Counts(F)[k] + more ELSE Counts(F)[k]
      <3>1. k \in Places /\ Counts(F)[k] = Count(k, F) /\ Counts(F)'[k] = Count(k, F)'
        BY DEF Counts, Places
      <3>2. Count(k, F) \in Nat
        BY <1>1, <3>1, CountType
      <3>3. CASE k = 1
        <4>1. unsent \cap F = {}
          BY <1>2
        <4>2. Count(k, F) = 0 /\ Count(k, F)' = more
          BY <1>2, <3>3, <4>1, FS_EmptySet DEF Count
        <4> QED
          BY <1>3, <3>1, <3>3, <4>2
      <3>4. CASE k # 1
        <4>1. k \in 2 .. 32
          BY <3>4
        <4>2. QueueAt(k)' = QueueAt(k)
          BY <1>2, <4>1, QueuesStay
        <4>3. Count(k, F)' = Count(k, F)
          BY <3>4, <4>2 DEF Count
        <4> QED
          BY <3>1, <3>2, <3>4, <4>3
      <3> QED
        BY <3>3, <3>4
    <2> QED
      BY <2>1 DEF GrownAt
  <1> DEFINE first == 1
             last == 32
             c == Counts(F)
             d == Counts(F)'
  <1>5. /\ last \in Nat /\ first \in 1 .. last /\ GrownAt(d, c, 1 .. last, first, more)
    BY <1>4
  <1> HIDE DEF more, first, last, c, d
  <1>6. \A k \in 0 .. last : /\ After(c, k, last) \in Nat
                             /\ After(d, k, last) = After(c, k, last) + (IF first > k THEN more ELSE 0)
    BY <1>3, <1>5, AfterGrown
  <1> QED
    BY <1>3, <1>6 DEF more, next, first, last, c, d

LEMMA WindowUnderWay ==
  ASSUME IndInv, BeginWindow, NEW p \in T!Response
  PROVE  /\ UnderWay[p] \in Nat
         /\ UnderWay'[p] = UnderWay[p] + OneOf(p.frame, T!FirstFrames(pending["ping"], size["ping"]))
  <1> DEFINE next == T!FirstFrames(pending["ping"], size["ping"])
             F == {p.frame}
             more == Cardinality(next \cap F)
  <1>1. F \in SUBSET Frame /\ 0 \in 0 .. 32
    BY ResponseForProperties DEF T!Response, T!Frame, Frame
  <1>2. /\ UnderWay[p] = After(Counts(F), 0, 32)
        /\ UnderWay'[p] = After(Counts(F)', 0, 32)
    BY UnderWayIsAfter
  <1>3. /\ After(Counts(F), 0, 32) \in Nat
        /\ After(Counts(F)', 0, 32) = After(Counts(F), 0, 32) + (IF 1 > 0 THEN more ELSE 0)
    BY <1>1, WindowCounts
  <1>4. more = OneOf(p.frame, next)
    <2>1. CASE p.frame \in next
      <3>1. next \cap F = {p.frame}
        BY <2>1
      <3> QED
        BY <2>1, <3>1, FS_Singleton DEF OneOf
    <2>2. CASE p.frame \notin next
      <3>1. next \cap F = {}
        BY <2>2
      <3> QED
        BY <2>2, <3>1, FS_EmptySet DEF OneOf
    <2> QED
      BY <2>1, <2>2
  <1> HIDE DEF F, more, next
  <1>5. UnderWay[p] \in Nat /\ UnderWay'[p] = UnderWay[p] + OneOf(p.frame, next)
    BY <1>2, <1>3, <1>4
  <1> QED
    BY <1>5 DEF next

LEMMA WindowPast ==
  ASSUME IndInv, BeginWindow
  PROVE  LET next == T!FirstFrames(pending["ping"], size["ping"])
         IN  /\ Asked' = Asked \cup next /\ Asked \cap next = {}
             /\ T!Failed("ping")' = next
             /\ Past(0) \in Nat /\ Past(0)' = Past(0) + Cardinality(next)
             /\ \A k \in 1 .. 32 : Past(k)' = Past(k)
  <1> DEFINE next == T!FirstFrames(pending["ping"], size["ping"])
             more == Cardinality(next \cap Frame)
  <1>1. InPlace /\ CallOK
    BY DEF IndInv
  <1>2. /\ next \subseteq pending["ping"] /\ next \in SUBSET Frame
        /\ phase["ping"] = "ready" /\ phase' = [phase EXCEPT !["ping"] = "waiting"]
        /\ pending' = [pending EXCEPT !["ping"] = @ \ next]
        /\ window' = [window EXCEPT !["ping"] = next]
        /\ worker' = [worker EXCEPT !["ping"] = [T!NoWorker EXCEPT !.missing = Cardinality(next)]]
        /\ T!Failed("ping") = {} /\ responses' = responses
    BY WindowBegins
  <1>3. /\ \A k \in 0 .. 32 : /\ After(Counts(Frame), k, 32) \in Nat
                              /\ After(Counts(Frame)', k, 32)
                                   = After(Counts(Frame), k, 32) + (IF 1 > k THEN more ELSE 0)
        /\ more \in Nat
    <2>1. Frame \in SUBSET Frame
      OBVIOUS
    <2> QED
      BY <2>1, WindowCounts
  <1> HIDE DEF next
  <1>4. Asked' = Asked \cup next /\ Asked \cap next = {}
    BY <1>1, <1>2 DEF Asked, CallOK
  <1>5. T!Failed("ping")' = next
    BY <1>1, <1>2 DEF T!Failed, T!NoWorker, CallOK
  <1>6. Answered' = Answered
    BY <1>2, <1>4, <1>5 DEF Answered
  <1>7. more = Cardinality(next)
    <2>1. next \cap Frame = next
      BY <1>2
    <2> QED
      BY <2>1
  <1>8. Len(responses) \in Nat /\ Cardinality(Answered) \in Nat
    BY <1>1, NumbersType
  <1> HIDE DEF more
  <1>9. ASSUME NEW k \in 0 .. 32
        PROVE  Past(k) \in Nat /\ Past(k)' = Past(k) + (IF 1 > k THEN more ELSE 0)
    <2>1. /\ Past(k) = After(Counts(Frame), k, 32) + Len(responses) + Cardinality(Answered)
          /\ Past(k)' = After(Counts(Frame)', k, 32) + Len(responses) + Cardinality(Answered)
      BY <1>2, <1>6, PastIsAfter
    <2> DEFINE a == After(Counts(Frame), k, 32)
               b == After(Counts(Frame)', k, 32)
               c == Len(responses)
               d == Cardinality(Answered)
    <2>2. /\ Past(k) = a + c + d /\ Past(k)' = b + c + d
          /\ a \in Nat /\ b = a + (IF 1 > k THEN more ELSE 0) /\ c \in Nat /\ d \in Nat
      BY <1>3, <1>8, <2>1
    <2> HIDE DEF a, b, c, d
    <2> QED
      BY <1>3, <2>2
  <1>10. Past(0) \in Nat /\ Past(0)' = Past(0) + Cardinality(next)
    <2>1. 0 \in 0 .. 32
      OBVIOUS
    <2>2. Past(0) \in Nat /\ Past(0)' = Past(0) + (IF 1 > 0 THEN more ELSE 0)
      BY <1>9, <2>1
    <2> QED
      BY <1>7, <2>2
  <1>11. ASSUME NEW k \in 1 .. 32 PROVE Past(k)' = Past(k)
    <2>1. k \in 0 .. 32 /\ ~(1 > k)
      OBVIOUS
    <2>2. Past(k) \in Nat /\ Past(k)' = Past(k) + (IF 1 > k THEN more ELSE 0)
      BY <1>9, <2>1
    <2> QED
      BY <2>1, <2>2
  <1> QED
    BY <1>4, <1>5, <1>10, <1>11 DEF next

LEMMA BeginWindowKeeps ==
  ASSUME IndInv, Shapes', BeginWindow
  PROVE  IndInv'
  <1> DEFINE next == T!FirstFrames(pending["ping"], size["ping"])
  <1>1. /\ InPlace /\ CallOK /\ FramesOnce /\ FramesKept /\ RoutersOK /\ LogFollows
        /\ losses \in Nat
    BY DEF IndInv, FramesKept
  <1>2. /\ next \subseteq pending["ping"] /\ next \in SUBSET Frame
        /\ unsent = {} /\ unsent' = next
        /\ phase["ping"] = "ready" /\ phase' = [phase EXCEPT !["ping"] = "waiting"]
        /\ pending' = [pending EXCEPT !["ping"] = @ \ next]
        /\ window' = [window EXCEPT !["ping"] = next]
        /\ worker' = [worker EXCEPT !["ping"] = [T!NoWorker EXCEPT !.missing = Cardinality(next)]]
        /\ window["ping"] = {} /\ T!Failed("ping") = {}
        /\ UNCHANGED <<goal, size, responses, losses, ended, log, protocolVars, sent, brokerVars>>
    BY WindowBegins
  <1>3. /\ Asked' = Asked \cup next /\ Asked \cap next = {}
        /\ T!Failed("ping")' = next
        /\ Past(0) \in Nat /\ Past(0)' = Past(0) + Cardinality(next)
        /\ \A k \in 1 .. 32 : Past(k)' = Past(k)
    BY WindowPast
  <1>4. \A p \in T!Response : /\ UnderWay[p] \in Nat
                              /\ UnderWay'[p] = UnderWay[p] + OneOf(p.frame, next)
    BY WindowUnderWay
  <1> HIDE DEF next
  <1>5. InPlace'
    <2>1. \A k \in 2 .. 32 : QueueAt(k)' \in Seq(PacketsIn(k))
      BY <1>1, <1>2, QueuesStay, QueueType
    <2>2. unsent' \in SUBSET Frame
      BY <1>2
    <2> QED
      BY <2>1, <2>2, ShapesInPlace
  <1>6. Cardinality(next) \in Nat
    BY <1>2, FramesAreFinite
  <1>7. CallOK'
    <2> DEFINE new == [T!NoWorker EXCEPT !.missing = Cardinality(next)]
    <2>1. new \in T!Worker /\ new.missing = Cardinality(next)
      BY <1>6 DEF T!NoWorker, T!Worker
    <2> HIDE DEF new
    <2>2. worker' = [worker EXCEPT !["ping"] = new]
      BY <1>2 DEF new
    <2>3. worker' \in [{"ping"} -> T!Worker] /\ worker'["ping"].missing = Cardinality(T!Failed("ping")')
      BY <1>1, <1>3, <2>1, <2>2 DEF CallOK
    <2> QED
      BY <1>1, <1>2, <2>3 DEF CallOK, T!Phase
  <1>8. FramesOnce'
    <2>1. ASSUME NEW p \in T!Response
          PROVE  UnderWay'[p] + Len(Only(responses, {p})) <= IF p.frame \in next THEN 1 ELSE 0
      <3>1. UnderWay[p] + Len(Only(responses, {p})) <= 0
        BY <1>1, <1>2 DEF FramesOnce
      <3>2. Len(Only(responses, {p})) \in Nat
        BY <1>1, OnlyType, LenProperties DEF CallOK
      <3>3. OneOf(p.frame, next) = IF p.frame \in next THEN 1 ELSE 0
        BY DEF OneOf
      <3>4. UnderWay[p] \in Nat /\ UnderWay'[p] = UnderWay[p] + OneOf(p.frame, next)
        BY <1>4
      <3> QED
        BY <3>1, <3>2, <3>3, <3>4
    <2> QED
      BY <1>2, <1>3, <2>1 DEF FramesOnce
  <1>9. FramesKept'
    <2>1. IsFiniteSet(Asked) /\ IsFiniteSet(next) /\ Cardinality(Asked) \in Nat
      BY <1>2, FramesAreFinite DEF Asked
    <2>2. Cardinality(Asked \cup next) = Cardinality(Asked) + Cardinality(next)
      <3>1. Cardinality(Asked \cup next)
              = Cardinality(Asked) + Cardinality(next) - Cardinality(Asked \cap next)
        BY <2>1, FS_Union
      <3>2. Cardinality(Asked \cap next) = 0
        BY <1>3, FS_EmptySet
      <3> QED
        BY <1>6, <2>1, <3>1, <3>2
    <2>3. Past(0) + losses = Cardinality(Asked)
      BY <1>1 DEF FramesKept
    <2> DEFINE a == Cardinality(Asked)
               b == Cardinality(next)
    <2>4. a \in Nat /\ b \in Nat /\ Past(0)' + losses = a + b
      BY <1>1, <1>3, <1>6, <2>1, <2>3
    <2> QED
      BY <1>1, <1>2, <1>3, <2>2, <2>4 DEF FramesKept
  <1>10. RoutersOK'
    <2>1. 4 \in 1 .. 32 /\ 10 \in 1 .. 32
      OBVIOUS
    <2>2. Past(4)' = Past(4) /\ Past(10)' = Past(10)
      BY <1>3, <2>1
    <2>3. router0' = router0 /\ router1' = router1
      BY <1>2 DEF brokerVars, broker0Vars, broker1Vars
    <2> QED
      BY <1>1, <1>2, <2>2, <2>3 DEF RoutersOK
  <1>11. LogFollows'
    <2>1. /\ [k \in Places |-> Past(k)'] = [k \in Places |-> Past(k)]
          /\ [k \in Places |-> Past(k)' + losses'] = [k \in Places |-> Past(k) + losses]
      BY <1>2, <1>3 DEF Places
    <2> QED
      BY <1>1, <1>2, <2>1 DEF LogFollows
  <1> QED
    BY <1>5, <1>7, <1>8, <1>9, <1>10, <1>11 DEF IndInv
-----------------------------------------------------------------------------
(* What becomes of a datagram that is lost. *)

LEMMA LoseTakes ==
  ASSUME InPlace, NEW l \in Link, NEW i \in DOMAIN sent[l], Lose(l, i)
  PROVE  \E j \in 2 .. 32 : /\ Twin(j) = j /\ Takes(j, i) /\ KeepsBut({j})
                            /\ QueueAt(j)[i].frame \in Frame
  <1>1. l = "link5" \/ l = "link4"
    BY DEF Lose, Datagrams
  <1>2. /\ sent \in [Link -> Seq(Packet)] /\ sent' = [sent EXCEPT ![l] = RemoveAt(sent[l], i)]
        /\ UNCHANGED <<protocolVars, brokerVars>>
    BY DEF Lose, InPlace
  <1>3. sent'[l] = RemoveAt(sent[l], i) /\ \A m \in Link \ {l} : sent'[m] = sent[m]
    BY <1>2
  <1>4. ASSUME NEW j \in 2 .. 32, Twin(j) = j, QueueAt(j) = sent[l], QueueAt(j)' = sent'[l], KeepsBut({j})
        PROVE  /\ Twin(j) = j /\ Takes(j, i) /\ KeepsBut({j})
               /\ QueueAt(j)[i].frame \in Frame
    <2>1. QueueAt(j) \in Seq(PacketsAt(j))
      BY <1>4 DEF InPlace
    <2>2. sent[l][i] \in PacketsAt(j)
      BY <1>4, <2>1, OnlyRemoveAt
    <2>3. sent[l][i].frame \in Frame
      BY <2>2, PacketTypes
    <2> QED
      BY <1>3, <1>4, <2>2, <2>3 DEF Takes
  <1>5. CASE l = "link5"
    <2>1. 3 \in 2 .. 32 /\ Twin(3) = 3 /\ QueueAt(3) = sent[l] /\ QueueAt(3)' = sent'[l]
      BY <1>5 DEF Twin, QueueAt
    <2>2. KeepsBut({3})
      BY <1>2, <1>3, <1>5 DEF KeepsBut, QueueAt, Link, protocolVars, brokerVars, broker0Vars, broker1Vars
    <2> QED
      BY <1>4, <2>1, <2>2
  <1>6. CASE l = "link4"
    <2>1. 31 \in 2 .. 32 /\ Twin(31) = 31 /\ QueueAt(31) = sent[l] /\ QueueAt(31)' = sent'[l]
      BY <1>6 DEF Twin, QueueAt
    <2>2. KeepsBut({31})
      BY <1>2, <1>3, <1>6 DEF KeepsBut, QueueAt, Link, protocolVars, brokerVars, broker0Vars, broker1Vars
    <2> QED
      BY <1>4, <2>1, <2>2
  <1> QED
    BY <1>1, <1>5, <1>6

\* It is one less at its place, and its frame at no other.
LEMMA LostCounts ==
  ASSUME InPlace, NEW j \in 2 .. 32, Twin(j) = j, NEW i, Takes(j, i), KeepsBut({j}),
         unsent' = unsent
  PROVE  /\ \A k \in 2 .. 32 : QueueAt(k)' \in Seq(PacketsIn(k))
         /\ \A F : \A k \in 0 .. 32 :
              /\ After(Counts(F)', k, 32) \in Nat
              /\ After(Counts(F), k, 32) = After(Counts(F)', k, 32)
                   + (IF j > k THEN OneOf(QueueAt(j)[i].frame, F) ELSE 0)
  <1> DEFINE f == QueueAt(j)[i].frame
  <1>1. ASSUME NEW k \in 2 .. 32, NEW F
        PROVE  /\ QueueAt(k)' \in Seq(PacketsIn(k))
               /\ Count(k, F) \in Nat /\ Count(k, F)' \in Nat
               /\ Count(k, F) = Count(k, F)' + OneAt(k, j, f, F)
    <2>1. CASE k = j
      <3>1. k \in {j, Twin(j)}
        BY <2>1
      <3> QED
        BY <3>1, TakesCounts
    <2>2. CASE k # j
      <3>1. QueueAt(k)' = QueueAt(k)
        BY <2>2 DEF KeepsBut
      <3>2. OneAt(k, j, f, F) = 0
        BY <2>2 DEF OneAt
      <3>3. /\ QueueAt(k)' \in Seq(PacketsIn(k))
            /\ Count(k, F) \in Nat /\ Count(k, F)' = Count(k, F)
        BY <3>1, KeptCounts
      <3> QED
        BY <3>2, <3>3
    <2> QED
      BY <2>1, <2>2
  <1> HIDE DEF f
  <1>2. ASSUME NEW F, NEW k \in 1 .. 32
        PROVE  /\ Counts(F)'[k] \in Nat
               /\ Counts(F)[k] = IF k = j THEN Counts(F)'[k] + OneOf(f, F) ELSE Counts(F)'[k]
    <2>1. k \in Places /\ Counts(F)[k] = Count(k, F) /\ Counts(F)'[k] = Count(k, F)'
      BY DEF Counts, Places
    <2>2. CASE k = 1
      <3>1. Count(k, F) \in Nat /\ Count(k, F)' = Count(k, F) /\ k # j
        BY <2>2, UnsentCounts
      <3> QED
        BY <2>1, <3>1
    <2>3. CASE k # 1
      <3>1. k \in 2 .. 32
        BY <2>3
      <3>2. /\ Count(k, F) \in Nat /\ Count(k, F)' \in Nat
            /\ Count(k, F) = Count(k, F)' + OneAt(k, j, f, F)
        BY <1>1, <3>1
      <3>3. OneAt(k, j, f, F) = IF k = j THEN OneOf(f, F) ELSE 0
        BY DEF OneAt, OneOf
      <3> QED
        BY <2>1, <3>2, <3>3
    <2> QED
      BY <2>2, <2>3
  <1>3. ASSUME NEW F
        PROVE  \A k \in 0 .. 32 : /\ After(Counts(F)', k, 32) \in Nat
                                  /\ After(Counts(F), k, 32) = After(Counts(F)', k, 32)
                                       + (IF j > k THEN OneOf(f, F) ELSE 0)
    <2>1. GrownAt(Counts(F), Counts(F)', 1 .. 32, j, OneOf(f, F))
      BY <1>2 DEF GrownAt
    <2> DEFINE last == 32
               by == OneOf(f, F)
               c == Counts(F)'
               d == Counts(F)
    <2>2. last \in Nat /\ j \in 1 .. last /\ by \in Nat /\ GrownAt(d, c, 1 .. last, j, by)
      BY <2>1 DEF OneOf
    <2> HIDE DEF last, by, c, d
    <2>3. \A k \in 0 .. last : After(c, k, last) \in Nat
                              /\ After(d, k, last) = After(c, k, last) + (IF j > k THEN by ELSE 0)
      BY <2>2, AfterGrown
    <2> QED
      BY <2>3 DEF last, by, c, d
  <1> QED
    BY <1>1, <1>3 DEF f

LEMMA LoseSums ==
  ASSUME IndInv, NEW l \in Link, NEW i \in DOMAIN sent[l], Lose(l, i)
  PROVE  /\ InPlace'
         /\ Past(0) = Past(0)' + 1
         /\ \A k \in 0 .. 32 : /\ Past(k) \in Nat /\ Past(k)' \in Nat
                               /\ Past(k)' <= Past(k) /\ Past(k) <= Past(k)' + 1
         /\ \E f \in Frame : \A p \in T!Response :
              UnderWay'[p] \in Nat /\ UnderWay[p] = UnderWay'[p] + OneOf(p, {ResponseFor(f)})
  <1>1. InPlace /\ CallOK
    BY DEF IndInv
  <1>2. /\ losses' = losses + 1 /\ unsent' = unsent
        /\ UNCHANGED <<phase, goal, pending, window, size, worker, responses, ended, protocolVars, brokerVars>>
        /\ sent' = [sent EXCEPT ![l] = RemoveAt(@, i)]
    BY DEF Lose, callVars
  <1>3. PICK j \in 2 .. 32 : /\ Twin(j) = j /\ Takes(j, i) /\ KeepsBut({j})
                             /\ QueueAt(j)[i].frame \in Frame
    BY <1>1, LoseTakes, SMTT(30)
  <1> DEFINE f == QueueAt(j)[i].frame
  <1>4. /\ \A k \in 2 .. 32 : QueueAt(k)' \in Seq(PacketsIn(k))
        /\ \A F : \A k \in 0 .. 32 :
              /\ After(Counts(F)', k, 32) \in Nat
              /\ After(Counts(F), k, 32) = After(Counts(F)', k, 32) + (IF j > k THEN OneOf(f, F) ELSE 0)
    BY <1>1, <1>2, <1>3, LostCounts
  <1>5. f \in Frame
    BY <1>3
  <1> HIDE DEF f
  <1>6. InPlace'
    <2>1. Shapes'
      BY <1>1, <1>2, InPlaceShapes DEF Shapes, protocolVars, brokerVars, broker0Vars, broker1Vars
    <2>2. unsent' \in SUBSET Frame
      BY <1>1, <1>2 DEF InPlace
    <2> QED
      BY <1>4, <2>1, <2>2, ShapesInPlace
  <1>7. Answered' = Answered
    BY <1>2 DEF Answered, Asked, T!Failed
  <1>8. ASSUME NEW k \in 0 .. 32
        PROVE  /\ Past(k) \in Nat /\ Past(k)' \in Nat
               /\ Past(k) = Past(k)' + (IF j > k THEN 1 ELSE 0)
    <2>1. /\ Past(k) = After(Counts(Frame), k, 32) + Len(responses) + Cardinality(Answered)
          /\ Past(k)' = After(Counts(Frame)', k, 32) + Len(responses) + Cardinality(Answered)
      BY <1>2, <1>7, PastIsAfter
    <2>2. Len(responses) \in Nat /\ Cardinality(Answered) \in Nat
      BY <1>1, NumbersType
    <2>3. OneOf(f, Frame) = 1
      BY <1>5 DEF OneOf
    <2> DEFINE a == After(Counts(Frame), k, 32)
               b == After(Counts(Frame)', k, 32)
               c == Len(responses)
               d == Cardinality(Answered)
    <2>4. /\ Past(k) = a + c + d /\ Past(k)' = b + c + d
          /\ b \in Nat /\ a = b + (IF j > k THEN 1 ELSE 0) /\ c \in Nat /\ d \in Nat
      BY <1>4, <2>1, <2>2, <2>3
    <2> HIDE DEF a, b, c, d
    <2> QED
      BY <2>4
  <1>9. Past(0) = Past(0)' + 1
    <2>1. 0 \in 0 .. 32 /\ j > 0
      OBVIOUS
    <2>2. Past(0) = Past(0)' + (IF j > 0 THEN 1 ELSE 0)
      BY <1>8, <2>1
    <2> QED
      BY <2>1, <2>2
  <1>10. ASSUME NEW k \in 0 .. 32 PROVE Past(k)' <= Past(k) /\ Past(k) <= Past(k)' + 1
    BY <1>8
  <1>11. ASSUME NEW p \in T!Response
         PROVE  UnderWay'[p] \in Nat /\ UnderWay[p] = UnderWay'[p] + OneOf(p, {ResponseFor(f)})
    <2>1. /\ UnderWay[p] = After(Counts({p.frame}), 0, 32)
          /\ UnderWay'[p] = After(Counts({p.frame})', 0, 32)
      BY UnderWayIsAfter
    <2>2. 0 \in 0 .. 32 /\ j > 0
      OBVIOUS
    <2>3. /\ After(Counts({p.frame})', 0, 32) \in Nat
          /\ After(Counts({p.frame}), 0, 32)
               = After(Counts({p.frame})', 0, 32) + (IF j > 0 THEN OneOf(f, {p.frame}) ELSE 0)
      BY <1>4, <2>2
    <2>4. OneOf(f, {p.frame}) = OneOf(p, {ResponseFor(f)})
      BY <1>5, ResponseForProperties DEF OneOf
    <2> QED
      BY <2>1, <2>2, <2>3, <2>4
  <1> QED
    BY <1>5, <1>6, <1>8, <1>9, <1>10, <1>11

LEMMA LoseKeeps ==
  ASSUME IndInv, NEW l \in Link, NEW i \in DOMAIN sent[l], Lose(l, i)
  PROVE  IndInv'
  <1>1. /\ InPlace /\ CallOK /\ FramesOnce /\ FramesKept /\ RoutersOK /\ LogFollows
        /\ losses \in Nat
    BY DEF IndInv, FramesKept
  <1>2. /\ losses' = losses + 1
        /\ UNCHANGED <<phase, goal, pending, window, size, worker, responses, ended, log, brokerVars>>
    BY DEF Lose, callVars
  <1>3. /\ InPlace'
        /\ Past(0) = Past(0)' + 1
        /\ \A k \in 0 .. 32 : /\ Past(k) \in Nat /\ Past(k)' \in Nat
                              /\ Past(k)' <= Past(k) /\ Past(k) <= Past(k)' + 1
        /\ \E f \in Frame : \A p \in T!Response :
             UnderWay'[p] \in Nat /\ UnderWay[p] = UnderWay'[p] + OneOf(p, {ResponseFor(f)})
    BY LoseSums
  <1>4. Asked' = Asked /\ T!Failed("ping")' = T!Failed("ping")
    BY <1>2 DEF Asked, T!Failed
  <1>5. CallOK'
    BY <1>1, <1>2, <1>4 DEF CallOK
  <1>6. FramesOnce'
    <2>1. ASSUME NEW p \in T!Response
          PROVE  UnderWay'[p] + Len(Only(responses, {p}))
                   <= IF p.frame \in T!Failed("ping") THEN 1 ELSE 0
      <3>1. UnderWay[p] + Len(Only(responses, {p})) <= IF p.frame \in T!Failed("ping") THEN 1 ELSE 0
        BY <1>1 DEF FramesOnce
      <3>2. Len(Only(responses, {p})) \in Nat
        BY <1>1, OnlyType, LenProperties DEF CallOK
      <3>3. \A f : OneOf(p, {ResponseFor(f)}) \in Nat
        BY DEF OneOf
      <3>4. UnderWay'[p] \in Nat /\ UnderWay[p] \in Nat /\ UnderWay'[p] <= UnderWay[p]
        BY <1>3, <3>3
      <3> QED
        BY <3>1, <3>2, <3>4
    <2> QED
      BY <1>2, <1>4, <2>1 DEF FramesOnce
  <1>7. FramesKept'
    <2>1. 0 \in 0 .. 32
      OBVIOUS
    <2>2. Past(0)' \in Nat /\ Past(0)' + (losses + 1) = Past(0) + losses
      BY <1>1, <1>3, <2>1
    <2> QED
      BY <1>1, <1>2, <1>4, <2>2 DEF FramesKept
  <1>8. ASSUME NEW k \in 0 .. 32
        PROVE  /\ Past(k) \in Nat /\ Past(k)' \in Nat /\ Past(k)' <= Past(k)
               /\ Past(k) + losses \in Nat /\ Past(k)' + losses' \in Nat
               /\ Past(k) + losses <= Past(k)' + losses'
    BY <1>1, <1>2, <1>3
  <1>9. RoutersOK'
    <2>1. 4 \in 0 .. 32 /\ 10 \in 0 .. 32
      OBVIOUS
    <2>2. /\ Past(4) \in Nat /\ Past(4)' \in Nat /\ Past(4)' <= Past(4)
          /\ Past(4) + losses <= Past(4)' + losses'
          /\ Past(10) \in Nat /\ Past(10)' \in Nat /\ Past(10)' <= Past(10)
          /\ Past(10) + losses <= Past(10)' + losses'
      BY <1>8, <2>1
    <2>3. router0' = router0 /\ router1' = router1
      BY <1>2 DEF brokerVars, broker0Vars, broker1Vars
    <2>4. router1.freq["echo"][Nothing] \in Nat /\ router0.freq["echo"][Nothing] \in Nat
      BY <1>1, RequestsType
    <2>5. /\ router1.freq["echo"][Nothing] <= Past(4)' + losses'
          /\ router0.freq["echo"][Nothing] <= Past(10)' + losses'
      BY <1>1, <1>2, <2>2, <2>4 DEF RoutersOK
    <2>6. (Past(4)' > 0 => Past(4) > 0) /\ (Past(10)' > 0 => Past(10) > 0)
      BY <2>2
    <2> QED
      BY <1>1, <2>3, <2>5, <2>6 DEF RoutersOK
  <1>10. LogFollows'
    <2> DEFINE n == [k \in Places |-> Past(k)]
               m == [k \in Places |-> Past(k)']
               nl == [k \in Places |-> Past(k) + losses]
               ml == [k \in Places |-> Past(k)' + losses']
    <2>1. /\ n \in [Places -> Nat] /\ m \in [Places -> Nat]
          /\ nl \in [Places -> Nat] /\ ml \in [Places -> Nat]
          /\ \A k \in Places : m[k] <= n[k]
          /\ \A k \in Places : nl[k] <= ml[k]
      <3>1. ASSUME NEW k \in Places
            PROVE  /\ Past(k) \in Nat /\ Past(k)' \in Nat /\ Past(k)' <= Past(k)
                   /\ Past(k) + losses \in Nat /\ Past(k)' + losses' \in Nat
                   /\ Past(k) + losses <= Past(k)' + losses'
        <4>1. k \in 0 .. 32
          BY DEF Places
        <4> QED
          BY <1>8, <4>1
      <3> QED
        BY <3>1
    <2>2. /\ log \in [LogEntry -> Nat]
          /\ \A e \in LogEntry : AtHops(e, n) <= log[e] /\ log[e] <= AtHops(e, nl)
      BY <1>1 DEF LogFollows
    <2> HIDE DEF n, m, nl, ml
    <2>3. ASSUME NEW e \in LogEntry PROVE AtHops(e, m) <= log[e] /\ log[e] <= AtHops(e, ml)
      <3>1. /\ AtHops(e, n) \in Nat /\ AtHops(e, nl) \in Nat
            /\ AtHops(e, m) \in Nat /\ AtHops(e, ml) \in Nat /\ log[e] \in Nat
        BY <2>1, <2>2, AtHopsType
      <3>2. AtHops(e, m) <= AtHops(e, n)
        BY <2>1, AtHopsMonotone
      <3>3. AtHops(e, nl) <= AtHops(e, ml)
        BY <2>1, AtHopsMonotone
      <3> QED
        BY <2>2, <3>1, <3>2, <3>3
    <2> QED
      BY <1>2, <2>2, <2>3 DEF LogFollows, n, m, nl, ml
  <1> QED
    BY <1>3, <1>5, <1>6, <1>7, <1>9, <1>10 DEF IndInv
-----------------------------------------------------------------------------
(* The initial states, and the end. *)

\* At the start there is no packet anywhere.
LEMMA InitNothing ==
  ASSUME Init
  PROVE  /\ \A k \in 2 .. 32 : QueueAt(k) = << >>
         /\ \A F : \A k \in 0 .. 32 : After(Counts(F), k, 32) = 0
         /\ Asked = {} /\ Answered = {} /\ T!Failed("ping") = {}
         /\ \A k \in 0 .. 32 : Past(k) = 0
         /\ \A p \in T!Response : UnderWay[p] = 0
  <1>1. \A k \in 2 .. 32 : QueueAt(k) = << >>
    BY DEF QueueAt, Held, Init, Link, LinkOf, LinksOf
  <1>2. ASSUME NEW F, NEW k \in 1 .. 32 PROVE Counts(F)[k] = 0
    <2>1. k \in Places /\ Counts(F)[k] = Count(k, F)
      BY DEF Counts, Places
    <2>2. CASE k = 1
      <3>1. unsent \cap F = {}
        BY DEF Init
      <3> QED
        BY <2>1, <2>2, <3>1, FS_EmptySet DEF Count
    <2>3. CASE k # 1
      <3>1. k \in 2 .. 32
        BY <2>3
      <3>2. QueueAt(k) = << >>
        BY <1>1, <3>1
      <3>3. Count(k, F) = Number(<< >>, KindAt(k), F)
        BY <2>3, <3>2 DEF Count
      <3>4. Number(<< >>, KindAt(k), F) = Len(<< >>)
        BY OnlyEmpty DEF Number
      <3> QED
        BY <2>1, <3>3, <3>4
    <2> QED
      BY <2>2, <2>3
  <1>3. ASSUME NEW F, NEW k \in 0 .. 32 PROVE After(Counts(F), k, 32) = 0
    <2>1. 32 \in Nat /\ \A j \in 1 .. 32 : Counts(F)[j] = 0
      BY <1>2
    <2> QED
      BY <2>1, AfterNothing
  <1>4. Asked = {} /\ Answered = {} /\ T!Failed("ping") = {}
    BY DEF Asked, Answered, Init, T!Failed
  <1>5. ASSUME NEW k \in 0 .. 32 PROVE Past(k) = 0
    <2>1. Past(k) = After(Counts(Frame), k, 32) + Len(responses) + Cardinality(Answered)
      BY PastIsAfter
    <2>2. responses = << >> /\ Len(<< >>) = 0
      BY DEF Init
    <2>3. Cardinality(Answered) = 0
      BY <1>4, FS_EmptySet
    <2>4. After(Counts(Frame), k, 32) = 0
      BY <1>3
    <2>5. Len(responses) = 0
      BY <2>2
    <2> QED
      BY <2>1, <2>3, <2>4, <2>5
  <1>6. ASSUME NEW p \in T!Response PROVE UnderWay[p] = 0
    <2>1. 0 \in 0 .. 32
      OBVIOUS
    <2> QED
      BY <1>3, <2>1, UnderWayIsAfter
  <1> QED
    BY <1>1, <1>3, <1>4, <1>5, <1>6

\* Both routers have met their links, and nothing else.
LEMMA InitRouters ==
  ASSUME Init
  PROVE  /\ router1 \in B1!RouterTables /\ IsRelay(router1, "link4", "link3")
         /\ router1.freq["echo"][Nothing] = 0
         /\ router0 \in B0!RouterTables /\ IsRelay(router0, "link2", "link0")
         /\ router0.freq["echo"][Nothing] = 0
  <1>1. Nothing \notin {"link3", "link4", "link2", "link0"}
    BY NothingAssumption DEF Link
  <1>2. /\ router1 \in B1!RouterTables /\ IsRelay(router1, "link4", "link3")
        /\ router1.freq["echo"][Nothing] = 0
    <2>1. router1 = B1!FreshTables(LinksOf.router1) /\ LinksOf.router1 = {"link3", "link4"}
      BY DEF Init, LinksOf
    <2>2. router1 \in B1!RouterTables
      BY <2>1 DEF B1!FreshTables, B1!RouterTables
    <2>3. /\ router1.known = {"link4", "link3"} /\ router1.pending["link3"] = << >>
          /\ router1.count["link4"] = 1 /\ router1.count["link3"] = 1
          /\ router1.count[Nothing] = 0 /\ router1.freq["echo"][Nothing] = 0
      BY <1>1, <2>1 DEF B1!FreshTables, B1!Class
    <2> QED
      BY <2>2, <2>3 DEF IsRelay
  <1>3. /\ router0 \in B0!RouterTables /\ IsRelay(router0, "link2", "link0")
        /\ router0.freq["echo"][Nothing] = 0
    <2>1. router0 = B0!FreshTables(LinksOf.router0) /\ LinksOf.router0 = {"link0", "link2"}
      BY DEF Init, LinksOf
    <2>2. router0 \in B0!RouterTables
      BY <2>1 DEF B0!FreshTables, B0!RouterTables
    <2>3. /\ router0.known = {"link2", "link0"} /\ router0.pending["link0"] = << >>
          /\ router0.count["link2"] = 1 /\ router0.count["link0"] = 1
          /\ router0.count[Nothing] = 0 /\ router0.freq["echo"][Nothing] = 0
      BY <1>1, <2>1 DEF B0!FreshTables, B0!Class
    <2> QED
      BY <2>2, <2>3 DEF IsRelay
  <1> QED
    BY <1>2, <1>3

LEMMA InitEstablishes ==
  ASSUME Init
  PROVE  IndInv
  <1>1. /\ \A k \in 2 .. 32 : QueueAt(k) = << >>
        /\ Asked = {} /\ Answered = {} /\ T!Failed("ping") = {}
        /\ \A k \in 0 .. 32 : Past(k) = 0
        /\ \A p \in T!Response : UnderWay[p] = 0
    BY InitNothing
  <1>2. InPlace
    <2>1. \A S : << >> \in Seq(S)
      OBVIOUS
    <2>2. /\ p2l \in [DOMAIN LinkOf -> Seq(Packet)] /\ l2p \in [DOMAIN LinkOf -> Seq(Packet)]
          /\ sent \in [Link -> Seq(Packet)]
          /\ chan0 \in [LinksOf.router0 -> Seq(Packet)] /\ chan1 \in [LinksOf.router1 -> Seq(Packet)]
      BY <2>1 DEF Init
    <2>3. unsent \in SUBSET Frame
      BY DEF Init
    <2> QED
      BY <1>1, <2>1, <2>2, <2>3 DEF InPlace
  <1>3. CallOK
    <2>1. T!NoWorker \in T!Worker /\ T!NoWorker.missing = 0
      BY DEF T!NoWorker, T!Worker
    <2>2. Cardinality(T!Failed("ping")) = 0
      BY <1>1, FS_EmptySet
    <2>3. /\ phase = [c \in {"ping"} |-> "idle"] /\ goal = [c \in {"ping"} |-> Goal]
          /\ pending = [c \in {"ping"} |-> {}] /\ window = [c \in {"ping"} |-> {}]
          /\ size = [c \in {"ping"} |-> 1] /\ worker = [c \in {"ping"} |-> T!NoWorker]
          /\ responses = << >> /\ ended = FALSE
      BY DEF Init
    <2>4. responses \in Seq(T!Response)
      BY <2>3
    <2>5. /\ phase \in [{"ping"} -> T!Phase] /\ size \in [{"ping"} -> Nat \ {0}]
          /\ pending \in [{"ping"} -> SUBSET Frame] /\ window \in [{"ping"} -> SUBSET Frame]
          /\ worker \in [{"ping"} -> T!Worker]
      BY <2>1, <2>3 DEF T!Phase
    <2> QED
      BY <2>1, <2>2, <2>3, <2>4, <2>5 DEF CallOK
  <1>4. FramesOnce
    <2>1. ASSUME NEW p \in T!Response PROVE UnderWay[p] + Len(Only(responses, {p})) = 0
      <3>1. responses = << >> /\ Only(<< >>, {p}) = << >> /\ Len(<< >>) = 0
        BY OnlyEmpty DEF Init
      <3>2. Len(Only(responses, {p})) = 0
        BY <3>1
      <3>3. UnderWay[p] = 0
        BY <1>1
      <3> QED
        BY <3>2, <3>3
    <2> QED
      BY <2>1 DEF FramesOnce
  <1>5. FramesKept
    <2>1. losses = 0 /\ Past(0) = 0
      <3>1. 0 \in 0 .. 32
        OBVIOUS
      <3> QED
        BY <1>1, <3>1 DEF Init
    <2> QED
      BY <1>1, <2>1, FS_EmptySet DEF FramesKept
  <1>6. RoutersOK
    <2>1. Past(4) = 0 /\ Past(10) = 0 /\ losses = 0
      <3>1. 4 \in 0 .. 32 /\ 10 \in 0 .. 32
        OBVIOUS
      <3> QED
        BY <1>1, <3>1 DEF Init
    <2> QED
      BY <2>1, InitRouters DEF RoutersOK
  <1>7. LogFollows
    <2> DEFINE none == [k \in Places |-> 0]
    <2>1. /\ [k \in Places |-> Past(k)] = none
          /\ [k \in Places |-> Past(k) + losses] = none
      BY <1>1 DEF Places, Init
    <2>2. ASSUME NEW e \in LogEntry
          PROVE  AtHops(e, none) = IF e.kind = "register" THEN 1 ELSE 0
      <3>1. \A k \in 1 .. 32 : none[k] = 0
        BY DEF Places
      <3> HIDE DEF none
      <3>2. MessageHops(e.label, none) = 0
        BY <3>1, EntriesHaveLabels DEF MessageHops, Labels
      <3> QED
        BY <3>1, <3>2 DEF AtHops
    <2> HIDE DEF none
    <2>3. log = [e \in LogEntry |-> IF e.kind = "register" THEN 1 ELSE 0]
      BY DEF Init
    <2> QED
      BY <2>1, <2>2, <2>3 DEF LogFollows
  <1> QED
    BY <1>2, <1>3, <1>4, <1>5, <1>6, <1>7 DEF IndInv

\* The threads that hand packets on.
Hands ==
  \/ TakeRequest \/ Respond
  \/ \E l \in Link : Outbound(l) \/ Inbound(l)
  \/ Route0 \/ Deliver0 \/ Route1 \/ Deliver1

LEMMA NothingKeeps ==
  ASSUME IndInv, UNCHANGED vars
  PROVE  IndInv'
  <1>1. InPlace /\ CallOK
    BY DEF IndInv
  <1>2. Shapes'
    BY <1>1, NextKeepsShapes
  <1>3. /\ UNCHANGED <<unsent, protocolVars, sent, brokerVars>>
        /\ UNCHANGED <<phase, goal, pending, window, size, worker, responses, ended>>
        /\ log' = log /\ losses' = losses
    BY DEF vars, callVars
  <1>4. Asked' = Asked /\ T!Failed("ping")' = T!Failed("ping")
    BY <1>3 DEF Asked, T!Failed
  <1>5. CallOK'
    BY <1>1, <1>3, <1>4 DEF CallOK
  <1> QED
    BY <1>2, <1>3, <1>4, <1>5, NothingNew

\* Once a frame is past a place it is counted there: what is logged is what is expected.
LEMMA LogIsExpected ==
  ASSUME IndInv
  PROVE  LogIsAsExpected
  <1>1. /\ InPlace /\ CallOK /\ FramesKept /\ LogFollows /\ losses \in Nat
        /\ Past(0) + losses = Cardinality(Asked)
    BY DEF IndInv, FramesKept
  <1>2. Cardinality(Asked) \in Nat /\ Cardinality(Asked) <= 4 /\ Cardinality(Answered) \in Nat
    BY <1>1, NumbersType
  <1>3. ASSUME NEW k \in 0 .. 32
        PROVE  Past(k) \in Nat /\ Past(k) + losses \in Nat /\ Past(k) + losses <= 4
    <2>1. \A i \in 0 .. 32 : Past(i) \in Nat /\ Past(i) <= Past(0)
      BY <1>1, NumbersType
    <2>2. 0 \in 0 .. 32
      OBVIOUS
    <2>3. Past(k) \in Nat /\ Past(k) <= Past(0) /\ Past(0) \in Nat
      BY <2>1, <2>2
    <2> QED
      BY <1>1, <1>2, <2>3
  <1> DEFINE all == [k \in Places |-> 4]
             n == [k \in Places |-> Past(k)]
             m == [k \in Places |-> Past(k) + losses]
  <1>4. /\ all \in [Places -> Nat] /\ n \in [Places -> Nat] /\ m \in [Places -> Nat]
        /\ \A k \in Places : m[k] <= all[k]
    BY <1>3 DEF Places
  <1>5. /\ log \in [LogEntry -> Nat]
        /\ \A e \in LogEntry : AtHops(e, n) <= log[e] /\ log[e] <= AtHops(e, m)
    BY <1>1 DEF LogFollows
  <1>6. ended => \A k \in Places : all[k] <= n[k]
    <2>1. SUFFICES ASSUME ended, NEW k \in Places PROVE Past(k) >= 4
      OBVIOUS
    <2>2. phase["ping"] = "returned" /\ pending["ping"] = {} /\ window["ping"] = {}
      BY <1>1, <2>1 DEF CallOK
    <2>3. Answered = Frame
      BY <2>2 DEF Answered, Asked, T!Failed
    <2>4. Cardinality(Answered) = 4
      <3>1. 0 \in Int /\ LastFrame \in Int /\ ~(0 > LastFrame) /\ LastFrame - 0 + 1 = 4
        BY DEF LastFrame
      <3> QED
        BY <2>3, <3>1, FS_Interval DEF Frame
    <2>5. k \in 0 .. 32
      BY DEF Places
    <2>6. Past(k) = After(Counts(Frame), k, 32) + Len(responses) + Cardinality(Answered)
      BY <2>5, PastIsAfter
    <2>7. After(Counts(Frame), k, 32) \in Nat /\ Len(responses) \in Nat
      <3>1. 32 \in Nat /\ \A j \in 1 .. 32 : Counts(Frame)[j] \in Nat
        BY <1>1, CountsType
      <3> QED
        BY <1>1, <2>5, <3>1, AfterProperties, NumbersType
    <2> DEFINE a == After(Counts(Frame), k, 32)
               b == Len(responses)
               c == Cardinality(Answered)
    <2>8. Past(k) = a + b + c /\ a \in Nat /\ b \in Nat /\ c = 4
      BY <2>4, <2>6, <2>7
    <2> HIDE DEF a, b, c
    <2> QED
      BY <2>8
  <1>7. \A e \in LogEntry : AtHops(e, all) = Expected(e)
    BY AtHopsExpected
  <1> HIDE DEF all, n, m
  <1>8. ASSUME NEW e \in LogEntry
        PROVE  log[e] <= Expected(e) /\ (ended => log[e] = Expected(e))
    <2>1. /\ AtHops(e, all) \in Nat /\ AtHops(e, n) \in Nat /\ AtHops(e, m) \in Nat /\ log[e] \in Nat
      BY <1>4, <1>5, AtHopsType
    <2>2. AtHops(e, m) <= AtHops(e, all)
      BY <1>4, AtHopsMonotone
    <2>3. ended => AtHops(e, all) <= AtHops(e, n)
      BY <1>4, <1>6, AtHopsMonotone
    <2> QED
      BY <1>5, <1>7, <2>1, <2>2, <2>3
  <1> QED
    BY <1>8 DEF LogIsAsExpected
-----------------------------------------------------------------------------
(* The network is the one of module TxRx. *)

LEMMA UnderWayIsFunction ==
  /\ UnderWay = [p \in T!Response |-> UnderWay[p]]
  /\ UnderWay' = [p \in T!Response |-> UnderWay'[p]]
  <1>1. T!Response = [name : {"echo"}, frame : Frame]
    BY DEF T!Response, T!Frame, Frame
  <1> QED
    BY <1>1 DEF UnderWay

\* A frame that goes on from any place but the last stays under way.
LEMMA StaysUnderWay ==
  ASSUME InPlace, CallOK, NEW j \in 1 .. 31, NEW f \in Frame, Moves(j, f),
         UNCHANGED callVars
  PROVE  UnderWay' = UnderWay
  <1>1. j \in 1 .. 32 /\ j # 32
    OBVIOUS
  <1>2. responses' = responses /\ UNCHANGED <<phase, pending, window, worker>>
    BY DEF callVars
  <1>3. \A p \in T!Response :
          UnderWay'[p] \in Nat /\ UnderWay[p] = UnderWay'[p] + One(<<p.frame, 32>>, <<f, j>>)
    BY <1>1, <1>2, GoesOn
  <1>4. ASSUME NEW p \in T!Response PROVE UnderWay'[p] = UnderWay[p]
    <2>1. One(<<p.frame, 32>>, <<f, j>>) = 0
      BY <1>1 DEF One
    <2>2. UnderWay'[p] \in Nat /\ UnderWay[p] = UnderWay'[p] + One(<<p.frame, 32>>, <<f, j>>)
      BY <1>3
    <2> QED
      BY <2>1, <2>2
  <1>5. [p \in T!Response |-> UnderWay'[p]] = [p \in T!Response |-> UnderWay[p]]
    BY <1>4
  <1> QED
    BY <1>5, UnderWayIsFunction

LEMMA StuttersWith ==
  ASSUME UnderWay' = UnderWay, UNCHANGED callVars, losses' = losses
  PROVE  UNCHANGED T!vars
  BY DEF T!vars, T!callVars, T!mapVars, T!netVars, callVars

LEMMA SendRequestStutters ==
  ASSUME IndInv, SendRequest
  PROVE  UNCHANGED T!vars
  <1>1. InPlace /\ CallOK
    BY DEF IndInv
  <1>2. Min(unsent) \in Frame /\ Moves(1, Min(unsent)) /\ 1 \in 1 .. 31
    BY <1>1, SendRequestMoves
  <1>3. UNCHANGED callVars /\ losses' = losses
    BY DEF SendRequest
  <1>4. UnderWay' = UnderWay
    BY <1>1, <1>2, <1>3, StaysUnderWay
  <1> QED
    BY <1>3, <1>4, StuttersWith

LEMMA EndStutters ==
  ASSUME IndInv, Shapes', End
  PROVE  UNCHANGED T!vars
  <1>1. InPlace
    BY DEF IndInv
  <1>2. /\ UNCHANGED <<unsent, protocolVars, sent, brokerVars>>
        /\ UNCHANGED callVars /\ losses' = losses
    BY DEF End
  <1>3. UnderWay' = UnderWay
    BY <1>1, <1>2, PlacesStay
  <1> QED
    BY <1>2, <1>3, StuttersWith

LEMMA NothingStutters ==
  ASSUME IndInv, UNCHANGED vars
  PROVE  UNCHANGED T!vars
  <1>1. InPlace
    BY DEF IndInv
  <1>2. Shapes'
    BY <1>1, NextKeepsShapes
  <1>3. /\ UNCHANGED <<unsent, protocolVars, sent, brokerVars>>
        /\ UNCHANGED callVars /\ losses' = losses
    BY DEF vars
  <1>4. UnderWay' = UnderWay
    BY <1>1, <1>2, <1>3, PlacesStay
  <1> QED
    BY <1>3, <1>4, StuttersWith

\* A window is sent at once.
LEMMA BeginWindowSends ==
  ASSUME IndInv, BeginWindow
  PROVE  T!SendWindow("ping")
  <1> DEFINE next == T!FirstFrames(pending["ping"], size["ping"])
  <1>1. CallOK
    BY DEF IndInv
  <1>2. ASSUME NEW p \in T!Response
        PROVE  UnderWay'[p] = IF p.name = goal["ping"].name /\ p.frame \in next
                              THEN UnderWay[p] + 1 ELSE UnderWay[p]
    <2>1. UnderWay[p] \in Nat /\ UnderWay'[p] = UnderWay[p] + OneOf(p.frame, next)
      BY WindowUnderWay
    <2>2. p.name = goal["ping"].name
      BY <1>1 DEF T!Response, CallOK, Goal
    <2> QED
      BY <2>1, <2>2 DEF OneOf
  <1>3. UnderWay' = [p \in T!Response |-> IF p.name = goal["ping"].name /\ p.frame \in next
                                          THEN UnderWay[p] + 1 ELSE UnderWay[p]]
    BY <1>2, UnderWayIsFunction
  <1>4. T!NextWindow("ping") /\ losses' = losses
    BY DEF BeginWindow
  <1> QED
    BY <1>3, <1>4 DEF T!SendWindow

\* One less of these is under way.
LEMMA OneLessUnderWay ==
  ASSUME NEW r \in T!Response,
         \A p \in T!Response : UnderWay'[p] \in Nat /\ UnderWay[p] = UnderWay'[p] + OneOf(p, {r})
  PROVE  /\ UnderWay[r] > 0
         /\ UnderWay' = [UnderWay EXCEPT ![r] = UnderWay[r] - 1]
  <1>1. ASSUME NEW p \in T!Response
        PROVE  /\ UnderWay'[p] \in Nat
               /\ UnderWay[p] = UnderWay'[p] + (IF p = r THEN 1 ELSE 0)
    <2>1. OneOf(p, {r}) = IF p = r THEN 1 ELSE 0
      BY DEF OneOf
    <2> QED
      BY <2>1
  <1>2. UnderWay[r] > 0
    BY <1>1
  <1>3. ASSUME NEW p \in T!Response
        PROVE  UnderWay'[p] = IF p = r THEN UnderWay[r] - 1 ELSE UnderWay[p]
    BY <1>1
  <1> DEFINE w == UnderWay
             v == UnderWay'
  <1>4. /\ w = [p \in T!Response |-> w[p]] /\ v = [p \in T!Response |-> v[p]]
        /\ \A p \in T!Response : v[p] = IF p = r THEN w[r] - 1 ELSE w[p]
    BY <1>3, UnderWayIsFunction
  <1> HIDE DEF w, v
  <1>5. v = [w EXCEPT ![r] = w[r] - 1]
    BY <1>4
  <1> QED
    BY <1>2, <1>5 DEF w, v

LEMMA HandOverArrives ==
  ASSUME IndInv, HandOver
  PROVE  \E r \in T!Response : T!Arrive(r)
  <1>1. InPlace /\ CallOK
    BY DEF IndInv
  <1> DEFINE f == Head(l2p["echo1"]).frame
             r == ResponseFor(f)
  <1>2. f \in Frame /\ T!Receive(r)
    BY <1>1, HandOverTakes
  <1>3. Moves(32, f)
    BY <1>1, HandOverMoves
  <1>4. losses' = losses
    BY DEF HandOver
  <1>5. r \in T!Response
    BY <1>2, ResponseForProperties
  <1> HIDE DEF f
  <1>6. /\ responses' = Append(responses, ResponseFor(f))
        /\ UNCHANGED <<phase, pending, window, worker>>
    BY <1>2, SMTT(30) DEF T!Receive, T!callVars
  <1>7. \A p \in T!Response :
          UnderWay'[p] \in Nat /\ UnderWay[p] = UnderWay'[p] + One(<<p.frame, 32>>, <<f, 32>>)
    <2>1. 32 \in 1 .. 32
      OBVIOUS
    <2> QED
      BY <1>1, <1>2, <1>3, <1>6, <2>1, GoesOn
  <1>8. ASSUME NEW p \in T!Response
        PROVE  UnderWay'[p] \in Nat /\ UnderWay[p] = UnderWay'[p] + OneOf(p, {r})
    <2>1. One(<<p.frame, 32>>, <<f, 32>>) = OneOf(p, {r})
      BY <1>2, ResponseForProperties DEF One, OneOf
    <2> QED
      BY <1>7, <2>1
  <1> HIDE DEF r
  <1>9. UnderWay[r] > 0 /\ UnderWay' = [UnderWay EXCEPT ![r] = UnderWay[r] - 1]
    BY <1>5, <1>8, OneLessUnderWay
  <1> QED
    BY <1>2, <1>4, <1>5, <1>9 DEF T!Arrive

LEMMA LoseLoses ==
  ASSUME IndInv, NEW l \in Link, NEW i \in DOMAIN sent[l], Lose(l, i)
  PROVE  \E r \in T!Response : T!Lose(r)
  <1>1. PICK f \in Frame : \A p \in T!Response :
          UnderWay'[p] \in Nat /\ UnderWay[p] = UnderWay'[p] + OneOf(p, {ResponseFor(f)})
    BY LoseSums
  <1>2. ResponseFor(f) \in T!Response
    BY ResponseForProperties
  <1> DEFINE r == ResponseFor(f)
  <1>3. UnderWay[r] > 0 /\ UnderWay' = [UnderWay EXCEPT ![r] = UnderWay[r] - 1]
    BY <1>1, <1>2, OneLessUnderWay
  <1>4. losses < MaxLosses /\ losses' = losses + 1 /\ UNCHANGED callVars
    BY DEF Lose
  <1> QED
    BY <1>2, <1>3, <1>4 DEF T!Lose, callVars, T!callVars, T!mapVars

LEMMA InitImplements ==
  ASSUME Init
  PROVE  T!Init
  <1>1. \A p \in T!Response : UnderWay[p] = 0
    BY InitNothing
  <1>2. UnderWay = [p \in T!Response |-> 0]
    BY <1>1, UnderWayIsFunction
  <1> QED
    BY <1>2 DEF Init, T!Init
-----------------------------------------------------------------------------
(* The two routers, as routers of two links. *)

Pids(links) == [l \in links |-> l]

R1 == INSTANCE RouterProofs WITH
        Link <- LinksOf.router1, Choke <- Nothing, Name <- {"echo"}, NoName <- Nothing,
        LinkPid <- Pids(LinksOf.router1), StoreSize <- PheromoneSize,
        DeepSixPercent <- 90, SuperTraining <- 4,
        router <- router1, out <- out1, history <- history1

R0 == INSTANCE RouterProofs WITH
        Link <- LinksOf.router0, Choke <- Nothing, Name <- {"echo"}, NoName <- Nothing,
        LinkPid <- Pids(LinksOf.router0), StoreSize <- PheromoneSize,
        DeepSixPercent <- 90, SuperTraining <- 4,
        router <- router0, out <- out0, history <- history0

\* They are the broker's, by all that its handle_packet is made of.
LEMMA SameHandling1 ==
  ASSUME NEW r, NEW p, B1!HandlePacket(B1!Admitted(r, p.link), p, B1!rs)
  PROVE  R1!HandlePacket(R1!Admitted(r, p.link), p, << >>)
  BY Zenon DEF B1!HandlePacket, B1!HandleRequest, B1!HandleResponse, B1!AnswerFromStore, B1!DeepSix,
         B1!ForwardRequest, B1!StoredFor, B1!MayDeepSix, B1!MayPass, B1!Recorded,
         B1!Asked, B1!RanksFirst, B1!ChokeScore, B1!DeepSixWeight, B1!IgnoreResponse,
         B1!ForwardResponse, B1!Expected, B1!Candidates, B1!Targets, B1!Askers,
         B1!TouchedAt, B1!InsertedAt, B1!ToLink, B1!Rankings, B1!Score, B1!KnownName,
         B1!Total, B1!TrainedCount, B1!TrainedFreq, B1!Class, B1!Touched, B1!Holds,
         B1!Inserted, B1!SetToSeqs, B1!ToSet, B1!RemoveFirst, B1!RemoveAt,
         B1!SelectInSeq, B1!Min, B1!SumFunctionOnSet, B1!FoldFunctionOnSet,
         B1!MapThenFoldSet, B1!Cardinality, B1!IsFiniteSet, B1!Admitted, B1!rs,
         R1!HandlePacket, R1!HandleRequest, R1!HandleResponse, R1!AnswerFromStore,
         R1!DeepSix, R1!ForwardRequest, R1!StoredFor, R1!MayDeepSix, R1!MayPass,
         R1!Recorded, R1!Asked, R1!RanksFirst, R1!ChokeScore, R1!DeepSixWeight,
         R1!IgnoreResponse, R1!ForwardResponse, R1!Expected, R1!Candidates, R1!Targets,
         R1!Askers, R1!TouchedAt, R1!InsertedAt, R1!ToLink, R1!Rankings, R1!Score,
         R1!KnownName, R1!Total, R1!TrainedCount, R1!TrainedFreq, R1!Class, R1!Touched,
         R1!Holds, R1!Inserted, R1!SetToSeqs, R1!ToSet, R1!RemoveFirst, R1!RemoveAt,
         R1!SelectInSeq, R1!Min, R1!SumFunctionOnSet, R1!FoldFunctionOnSet,
         R1!MapThenFoldSet, R1!Cardinality, R1!IsFiniteSet, R1!Admitted, Pids

LEMMA SameTables1 ==
  ASSUME NEW r
  PROVE  /\ LinksOf.router1 = {"link4", "link3"}
         /\ r \in B1!RouterTables /\ IsRelay(r, "link4", "link3")
              <=> R1!Relays(r, "link4", "link3", "echo")
         /\ HasRelayed(r, "link4", "link3") <=> R1!HasRelayed(r, "link4", "link3", "echo")
  <1>1. LinksOf.router1 = {"link4", "link3"}
    BY DEF LinksOf
  <1>2. B1!RouterTables = R1!RouterTables
    BY DEF B1!RouterTables, R1!RouterTables, B1!Class, R1!Class
  <1>3. HasRelayed(r, "link4", "link3") <=> R1!HasRelayed(r, "link4", "link3", "echo")
    BY DEF HasRelayed, R1!HasRelayed, ToSet, R1!ToSet
  <1> QED
    BY <1>1, <1>2, <1>3 DEF IsRelay, R1!Relays

\* What is assumed of a router holds of this one.
LEMMA Assumptions1 ==
  /\ LinksOf.router1 = {"link4", "link3"} /\ "link4" # "link3"
  /\ R1!IsFiniteSet(LinksOf.router1)
  /\ Nothing \notin LinksOf.router1 /\ Nothing \notin {"echo"}
  /\ InvMinProb \in Nat \ {0, 1} /\ PheromoneSize \in Nat \ {0}
  /\ DOMAIN Pids(LinksOf.router1) = LinksOf.router1
  /\ 90 \in 51 .. 100 /\ 4 \in Nat \ {0}
  <1>1. LinksOf.router1 = {"link4", "link3"}
    BY DEF LinksOf
  <1>2. R1!IsFiniteSet(LinksOf.router1)
    <2>1. IsFiniteSet({"link4"} \cup {"link3"})
      BY FS_Singleton, FS_Union
    <2>2. IsFiniteSet(LinksOf.router1)
      BY <1>1, <2>1
    <2> QED
      BY <2>2 DEF IsFiniteSet, R1!IsFiniteSet
  <1> QED
    BY <1>1, <1>2, NothingAssumption, BoundsAssumption DEF Link, Pids

\* The request goes on to the other link, and is remembered ...
LEMMA RouterRequest1 ==
  ASSUME router1 \in B1!RouterTables, IsRelay(router1, "link4", "link3"),
         router1.freq["echo"][Nothing] <= 4,
         NEW p \in Packet, p.kind = "Request", p.link = "link4",
         B1!HandlePacket(B1!Admitted(router1, p.link), p, B1!rs)
  PROVE  /\ out1' = <<[p EXCEPT !.link = "link3"]>>
         /\ router1' \in B1!RouterTables /\ IsRelay(router1', "link4", "link3")
         /\ HasRelayed(router1', "link4", "link3")
         /\ router1'.freq["echo"][Nothing] = router1.freq["echo"][Nothing] + 1
  <1>1. R1!Relays(router1, "link4", "link3", "echo")
    BY SameTables1
  <1>2. R1!HandlePacket(R1!Admitted(router1, "link4"), p, << >>)
    BY SameHandling1
  <1>3. p \in R1!Packet
    BY Assumptions1 DEF R1!Packet, Packet
  <1>4. R1!TwoLinks("link4", "link3", "echo")
    BY Assumptions1 DEF R1!TwoLinks, R1!IsInjective, Pids
  <1>5. R1!FewUnanswered(router1, "echo")
    <2>1. router1.freq["echo"][Nothing] \in Nat
      BY DEF B1!RouterTables, B1!Class
    <2> QED
      BY <2>1 DEF R1!FewUnanswered
  <1>6. /\ out1' = <<R1!ToLink(p, "link3")>>
        /\ R1!Relays(router1', "link4", "link3", "echo")
        /\ R1!HasRelayed(router1', "link4", "link3", "echo")
        /\ router1'.freq["echo"][Nothing] = router1.freq["echo"][Nothing] + 1
    BY <1>1, <1>2, <1>3, <1>4, <1>5, Assumptions1, R1!RelaysRequest
  <1> QED
    BY <1>6, SameTables1 DEF R1!ToLink

\* ... and its response comes back.
LEMMA RouterResponse1 ==
  ASSUME router1 \in B1!RouterTables, IsRelay(router1, "link4", "link3"),
         HasRelayed(router1, "link4", "link3"),
         NEW p \in Packet, p.kind = "Response", p.link = "link3",
         B1!HandlePacket(B1!Admitted(router1, p.link), p, B1!rs)
  PROVE  /\ out1' = <<[p EXCEPT !.link = "link4"]>>
         /\ router1' \in B1!RouterTables /\ IsRelay(router1', "link4", "link3")
         /\ HasRelayed(router1', "link4", "link3")
         /\ router1'.freq["echo"][Nothing] = router1.freq["echo"][Nothing]
  <1>1. R1!Relays(router1, "link4", "link3", "echo")
    BY SameTables1
  <1>2. R1!HasRelayed(router1, "link4", "link3", "echo")
    BY SameTables1
  <1>3. R1!HandlePacket(R1!Admitted(router1, "link3"), p, << >>)
    BY SameHandling1
  <1>4. p \in R1!Packet
    BY Assumptions1 DEF R1!Packet, Packet
  <1>5. R1!TwoLinks("link4", "link3", "echo")
    BY Assumptions1 DEF R1!TwoLinks, R1!IsInjective, Pids
  <1>6. /\ out1' = <<R1!ToLink(p, "link4")>>
        /\ R1!Relays(router1', "link4", "link3", "echo")
        /\ R1!HasRelayed(router1', "link4", "link3", "echo")
        /\ router1'.freq["echo"][Nothing] = router1.freq["echo"][Nothing]
    BY <1>1, <1>2, <1>3, <1>4, <1>5, Assumptions1, R1!RelaysResponse
  <1> QED
    BY <1>6, SameTables1 DEF R1!ToLink

\* The same of the other one.
LEMMA SameHandling0 ==
  ASSUME NEW r, NEW p, B0!HandlePacket(B0!Admitted(r, p.link), p, B0!rs)
  PROVE  R0!HandlePacket(R0!Admitted(r, p.link), p, << >>)
  BY Zenon DEF B0!HandlePacket, B0!HandleRequest, B0!HandleResponse, B0!AnswerFromStore, B0!DeepSix,
         B0!ForwardRequest, B0!StoredFor, B0!MayDeepSix, B0!MayPass, B0!Recorded,
         B0!Asked, B0!RanksFirst, B0!ChokeScore, B0!DeepSixWeight, B0!IgnoreResponse,
         B0!ForwardResponse, B0!Expected, B0!Candidates, B0!Targets, B0!Askers,
         B0!TouchedAt, B0!InsertedAt, B0!ToLink, B0!Rankings, B0!Score, B0!KnownName,
         B0!Total, B0!TrainedCount, B0!TrainedFreq, B0!Class, B0!Touched, B0!Holds,
         B0!Inserted, B0!SetToSeqs, B0!ToSet, B0!RemoveFirst, B0!RemoveAt,
         B0!SelectInSeq, B0!Min, B0!SumFunctionOnSet, B0!FoldFunctionOnSet,
         B0!MapThenFoldSet, B0!Cardinality, B0!IsFiniteSet, B0!Admitted, B0!rs,
         R0!HandlePacket, R0!HandleRequest, R0!HandleResponse, R0!AnswerFromStore,
         R0!DeepSix, R0!ForwardRequest, R0!StoredFor, R0!MayDeepSix, R0!MayPass,
         R0!Recorded, R0!Asked, R0!RanksFirst, R0!ChokeScore, R0!DeepSixWeight,
         R0!IgnoreResponse, R0!ForwardResponse, R0!Expected, R0!Candidates, R0!Targets,
         R0!Askers, R0!TouchedAt, R0!InsertedAt, R0!ToLink, R0!Rankings, R0!Score,
         R0!KnownName, R0!Total, R0!TrainedCount, R0!TrainedFreq, R0!Class, R0!Touched,
         R0!Holds, R0!Inserted, R0!SetToSeqs, R0!ToSet, R0!RemoveFirst, R0!RemoveAt,
         R0!SelectInSeq, R0!Min, R0!SumFunctionOnSet, R0!FoldFunctionOnSet,
         R0!MapThenFoldSet, R0!Cardinality, R0!IsFiniteSet, R0!Admitted, Pids

LEMMA SameTables0 ==
  ASSUME NEW r
  PROVE  /\ LinksOf.router0 = {"link2", "link0"}
         /\ r \in B0!RouterTables /\ IsRelay(r, "link2", "link0")
              <=> R0!Relays(r, "link2", "link0", "echo")
         /\ HasRelayed(r, "link2", "link0") <=> R0!HasRelayed(r, "link2", "link0", "echo")
  <1>1. LinksOf.router0 = {"link2", "link0"}
    BY DEF LinksOf
  <1>2. B0!RouterTables = R0!RouterTables
    BY DEF B0!RouterTables, R0!RouterTables, B0!Class, R0!Class
  <1>3. HasRelayed(r, "link2", "link0") <=> R0!HasRelayed(r, "link2", "link0", "echo")
    BY DEF HasRelayed, R0!HasRelayed, ToSet, R0!ToSet
  <1> QED
    BY <1>1, <1>2, <1>3 DEF IsRelay, R0!Relays

\* What is assumed of a router holds of this one.
LEMMA Assumptions0 ==
  /\ LinksOf.router0 = {"link2", "link0"} /\ "link2" # "link0"
  /\ R0!IsFiniteSet(LinksOf.router0)
  /\ Nothing \notin LinksOf.router0 /\ Nothing \notin {"echo"}
  /\ InvMinProb \in Nat \ {0, 1} /\ PheromoneSize \in Nat \ {0}
  /\ DOMAIN Pids(LinksOf.router0) = LinksOf.router0
  /\ 90 \in 51 .. 100 /\ 4 \in Nat \ {0}
  <1>1. LinksOf.router0 = {"link2", "link0"}
    BY DEF LinksOf
  <1>2. R0!IsFiniteSet(LinksOf.router0)
    <2>1. IsFiniteSet({"link2"} \cup {"link0"})
      BY FS_Singleton, FS_Union
    <2>2. IsFiniteSet(LinksOf.router0)
      BY <1>1, <2>1
    <2> QED
      BY <2>2 DEF IsFiniteSet, R0!IsFiniteSet
  <1> QED
    BY <1>1, <1>2, NothingAssumption, BoundsAssumption DEF Link, Pids

\* The request goes on to the other link, and is remembered ...
LEMMA RouterRequest0 ==
  ASSUME router0 \in B0!RouterTables, IsRelay(router0, "link2", "link0"),
         router0.freq["echo"][Nothing] <= 4,
         NEW p \in Packet, p.kind = "Request", p.link = "link2",
         B0!HandlePacket(B0!Admitted(router0, p.link), p, B0!rs)
  PROVE  /\ out0' = <<[p EXCEPT !.link = "link0"]>>
         /\ router0' \in B0!RouterTables /\ IsRelay(router0', "link2", "link0")
         /\ HasRelayed(router0', "link2", "link0")
         /\ router0'.freq["echo"][Nothing] = router0.freq["echo"][Nothing] + 1
  <1>1. R0!Relays(router0, "link2", "link0", "echo")
    BY SameTables0
  <1>2. R0!HandlePacket(R0!Admitted(router0, "link2"), p, << >>)
    BY SameHandling0
  <1>3. p \in R0!Packet
    BY Assumptions0 DEF R0!Packet, Packet
  <1>4. R0!TwoLinks("link2", "link0", "echo")
    BY Assumptions0 DEF R0!TwoLinks, R0!IsInjective, Pids
  <1>5. R0!FewUnanswered(router0, "echo")
    <2>1. router0.freq["echo"][Nothing] \in Nat
      BY DEF B0!RouterTables, B0!Class
    <2> QED
      BY <2>1 DEF R0!FewUnanswered
  <1>6. /\ out0' = <<R0!ToLink(p, "link0")>>
        /\ R0!Relays(router0', "link2", "link0", "echo")
        /\ R0!HasRelayed(router0', "link2", "link0", "echo")
        /\ router0'.freq["echo"][Nothing] = router0.freq["echo"][Nothing] + 1
    BY <1>1, <1>2, <1>3, <1>4, <1>5, Assumptions0, R0!RelaysRequest
  <1> QED
    BY <1>6, SameTables0 DEF R0!ToLink

\* ... and its response comes back.
LEMMA RouterResponse0 ==
  ASSUME router0 \in B0!RouterTables, IsRelay(router0, "link2", "link0"),
         HasRelayed(router0, "link2", "link0"),
         NEW p \in Packet, p.kind = "Response", p.link = "link0",
         B0!HandlePacket(B0!Admitted(router0, p.link), p, B0!rs)
  PROVE  /\ out0' = <<[p EXCEPT !.link = "link2"]>>
         /\ router0' \in B0!RouterTables /\ IsRelay(router0', "link2", "link0")
         /\ HasRelayed(router0', "link2", "link0")
         /\ router0'.freq["echo"][Nothing] = router0.freq["echo"][Nothing]
  <1>1. R0!Relays(router0, "link2", "link0", "echo")
    BY SameTables0
  <1>2. R0!HasRelayed(router0, "link2", "link0", "echo")
    BY SameTables0
  <1>3. R0!HandlePacket(R0!Admitted(router0, "link0"), p, << >>)
    BY SameHandling0
  <1>4. p \in R0!Packet
    BY Assumptions0 DEF R0!Packet, Packet
  <1>5. R0!TwoLinks("link2", "link0", "echo")
    BY Assumptions0 DEF R0!TwoLinks, R0!IsInjective, Pids
  <1>6. /\ out0' = <<R0!ToLink(p, "link2")>>
        /\ R0!Relays(router0', "link2", "link0", "echo")
        /\ R0!HasRelayed(router0', "link2", "link0", "echo")
        /\ router0'.freq["echo"][Nothing] = router0.freq["echo"][Nothing]
    BY <1>1, <1>2, <1>3, <1>4, <1>5, Assumptions0, R0!RelaysResponse
  <1> QED
    BY <1>6, SameTables0 DEF R0!ToLink

\* The first router routes what comes.
LEMMA RouteNextHandsOn1 ==
  ASSUME IndInv, B1!RouteNext, LogRouting("router1", Head(l2b1)),
         UNCHANGED <<callVars, losses, unsent, ended, protocolVars, sent, broker0Vars>>
  PROVE  HandsOn(4) \/ HandsOn(26)
  <1>1. InPlace /\ RoutersOK /\ CallOK /\ FramesKept
    BY DEF IndInv
  <1>2. /\ QueueAt(4) = l2b1 /\ QueueAt(4)' = l2b1' /\ QueueAt(5) = out1 /\ QueueAt(5)' = out1'
        /\ QueueAt(26) = l2b1 /\ QueueAt(26)' = l2b1' /\ QueueAt(27) = out1 /\ QueueAt(27)' = out1'
    BY DEF QueueAt
  <1>3. Twin(4) = 26 /\ Twin(5) = 27 /\ Twin(26) = 4 /\ Twin(27) = 5
    BY DEF Twin
  <1>4. /\ 4 \in 2 .. 31 /\ 4 \in 2 .. 32 /\ 4 \in 1 .. 32 /\ 5 = 4 + 1
        /\ 26 \in 2 .. 31 /\ 26 \in 2 .. 32 /\ 26 \in 1 .. 32 /\ 27 = 26 + 1
    OBVIOUS
  <1>5. /\ l2b1 # << >> /\ l2b1' = Tail(l2b1) /\ out1 = << >>
        /\ B1!HandlePacket(B1!Admitted(router1, Head(l2b1).link), Head(l2b1), B1!rs)
    BY DEF B1!RouteNext
  <1>6. KeepsBut({4, 26, 5, 27})
    BY DEF QueueAt, KeepsBut, B1!RouteNext, protocolVars, broker0Vars
  <1>7. UNCHANGED <<callVars, losses, unsent, ended>> /\ router0' = router0
    BY DEF broker0Vars
  <1> DEFINE p == Head(l2b1)
  <1>8. p \in Packet /\ (p \in PacketsAt(4) \/ p \in PacketsAt(26))
    BY <1>1, <1>2, <1>3, <1>4, <1>5, FrontIn
  <1>9. CASE p \in PacketsAt(4)
    <2>1. p.kind = "Request" /\ p.link = "link4"
      BY <1>9 DEF PacketsAt, LinkAt, KindAt
    <2>2. router1.freq["echo"][Nothing] <= 4
      <3>1. 4 \in 0 .. 32 /\ 0 \in 0 .. 32
        OBVIOUS
      <3>2. Past(4) \in Nat /\ Past(4) <= Past(0) /\ Past(0) \in Nat
        BY <1>1, <3>1, NumbersType
      <3>3. losses \in Nat /\ Past(0) + losses <= 4
        BY <1>1, NumbersType DEF FramesKept
      <3>4. router1.freq["echo"][Nothing] \in Nat /\ router1.freq["echo"][Nothing] <= Past(4) + losses
        BY <1>1, RequestsType DEF RoutersOK
      <3> QED
        BY <3>2, <3>3, <3>4
    <2> DEFINE q == [p EXCEPT !.link = "link3"]
    <2>3. /\ out1' = <<q>>
          /\ router1' \in B1!RouterTables /\ IsRelay(router1', "link4", "link3")
          /\ HasRelayed(router1', "link4", "link3")
          /\ router1'.freq["echo"][Nothing] = router1.freq["echo"][Nothing] + 1
      BY <1>1, <1>5, <1>8, <2>1, <2>2, RouterRequest1 DEF RoutersOK
    <2>4. RoutersAt(4)
      BY <1>1, <1>7, <2>3, RequestsType DEF RoutersAt, Relayed, RoutersOK
    <2>5. q \in PacketsAt(5) /\ q.frame = p.frame
      BY <1>9 DEF PacketsAt, LinkAt, KindAt
    <2>6. Logged(Hop(4))
      BY <2>1 DEF LogRouting, Hop
    <2> HIDE DEF p, q
    <2>7. Append(<< >>, q) = <<q>>
      OBVIOUS
    <2>8. /\ QueueAt(4) # << >> /\ Head(QueueAt(4)) = p /\ QueueAt(4)' = Tail(QueueAt(4))
          /\ QueueAt(5)' = Append(QueueAt(5), q)
      BY <1>2, <1>5, <2>3, <2>7 DEF p
    <2>9. KeepsBut({4, Twin(4), 5, Twin(5)})
      BY <1>3, <1>6 DEF KeepsBut
    <2>10. HandsOn(4)
      BY <1>4, <1>7, <1>9, <2>4, <2>5, <2>6, <2>8, <2>9, FrontHandsOn
    <2> QED
      BY <2>10
  <1>10. CASE p \in PacketsAt(26)
    <2>1. p.kind = "Response" /\ p.link = "link3"
      BY <1>10 DEF PacketsAt, LinkAt, KindAt
    <2>2. HasRelayed(router1, "link4", "link3")
      <3>1. Count(26, Frame) >= 1
        BY <1>1, <1>2, <1>4, <1>5, <1>10, FrontCounts
      <3>2. 4 \in 0 .. 32 /\ 26 > 4
        OBVIOUS
      <3>3. Past(4) > 0
        BY <1>1, <1>4, <3>1, <3>2, PastLater
      <3> QED
        BY <1>1, <3>3 DEF RoutersOK
    <2> DEFINE q == [p EXCEPT !.link = "link4"]
    <2>3. /\ out1' = <<q>>
          /\ router1' \in B1!RouterTables /\ IsRelay(router1', "link4", "link3")
          /\ HasRelayed(router1', "link4", "link3")
          /\ router1'.freq["echo"][Nothing] = router1.freq["echo"][Nothing]
      BY <1>1, <1>5, <1>8, <2>1, <2>2, RouterResponse1 DEF RoutersOK
    <2>4. RoutersAt(26)
      BY <1>1, <1>7, <2>3, RequestsType DEF RoutersAt, Relayed, RoutersOK
    <2>5. q \in PacketsAt(27) /\ q.frame = p.frame
      BY <1>10 DEF PacketsAt, LinkAt, KindAt
    <2>6. Logged(Hop(26))
      BY <2>1 DEF LogRouting, Hop
    <2> HIDE DEF p, q
    <2>7. Append(<< >>, q) = <<q>>
      OBVIOUS
    <2>8. /\ QueueAt(26) # << >> /\ Head(QueueAt(26)) = p /\ QueueAt(26)' = Tail(QueueAt(26))
          /\ QueueAt(27)' = Append(QueueAt(27), q)
      BY <1>2, <1>5, <2>3, <2>7 DEF p
    <2>9. KeepsBut({26, Twin(26), 27, Twin(27)})
      BY <1>3, <1>6 DEF KeepsBut
    <2>10. HandsOn(26)
      BY <1>4, <1>7, <1>10, <2>4, <2>5, <2>6, <2>8, <2>9, FrontHandsOn
    <2> QED
      BY <2>10
  <1> QED
    BY <1>8, <1>9, <1>10

\* And so does the second.
LEMMA RouteNextHandsOn0 ==
  ASSUME IndInv, B0!RouteNext, LogRouting("router0", Head(l2b0)),
         UNCHANGED <<callVars, losses, unsent, ended, protocolVars, sent, broker1Vars>>
  PROVE  HandsOn(10) \/ HandsOn(20)
  <1>1. InPlace /\ RoutersOK /\ CallOK /\ FramesKept
    BY DEF IndInv
  <1>2. /\ QueueAt(10) = l2b0 /\ QueueAt(10)' = l2b0' /\ QueueAt(11) = out0 /\ QueueAt(11)' = out0'
        /\ QueueAt(20) = l2b0 /\ QueueAt(20)' = l2b0' /\ QueueAt(21) = out0 /\ QueueAt(21)' = out0'
    BY DEF QueueAt
  <1>3. Twin(10) = 20 /\ Twin(11) = 21 /\ Twin(20) = 10 /\ Twin(21) = 11
    BY DEF Twin
  <1>4. /\ 10 \in 2 .. 31 /\ 10 \in 2 .. 32 /\ 10 \in 1 .. 32 /\ 11 = 10 + 1
        /\ 20 \in 2 .. 31 /\ 20 \in 2 .. 32 /\ 20 \in 1 .. 32 /\ 21 = 20 + 1
    OBVIOUS
  <1>5. /\ l2b0 # << >> /\ l2b0' = Tail(l2b0) /\ out0 = << >>
        /\ B0!HandlePacket(B0!Admitted(router0, Head(l2b0).link), Head(l2b0), B0!rs)
    BY DEF B0!RouteNext
  <1>6. KeepsBut({10, 20, 11, 21})
    BY DEF QueueAt, KeepsBut, B0!RouteNext, protocolVars, broker1Vars
  <1>7. UNCHANGED <<callVars, losses, unsent, ended>> /\ router1' = router1
    BY DEF broker1Vars
  <1> DEFINE p == Head(l2b0)
  <1>8. p \in Packet /\ (p \in PacketsAt(10) \/ p \in PacketsAt(20))
    BY <1>1, <1>2, <1>3, <1>4, <1>5, FrontIn
  <1>9. CASE p \in PacketsAt(10)
    <2>1. p.kind = "Request" /\ p.link = "link2"
      BY <1>9 DEF PacketsAt, LinkAt, KindAt
    <2>2. router0.freq["echo"][Nothing] <= 4
      <3>1. 10 \in 0 .. 32 /\ 0 \in 0 .. 32
        OBVIOUS
      <3>2. Past(10) \in Nat /\ Past(10) <= Past(0) /\ Past(0) \in Nat
        BY <1>1, <3>1, NumbersType
      <3>3. losses \in Nat /\ Past(0) + losses <= 4
        BY <1>1, NumbersType DEF FramesKept
      <3>4. router0.freq["echo"][Nothing] \in Nat /\ router0.freq["echo"][Nothing] <= Past(10) + losses
        BY <1>1, RequestsType DEF RoutersOK
      <3> QED
        BY <3>2, <3>3, <3>4
    <2> DEFINE q == [p EXCEPT !.link = "link0"]
    <2>3. /\ out0' = <<q>>
          /\ router0' \in B0!RouterTables /\ IsRelay(router0', "link2", "link0")
          /\ HasRelayed(router0', "link2", "link0")
          /\ router0'.freq["echo"][Nothing] = router0.freq["echo"][Nothing] + 1
      BY <1>1, <1>5, <1>8, <2>1, <2>2, RouterRequest0 DEF RoutersOK
    <2>4. RoutersAt(10)
      BY <1>1, <1>7, <2>3, RequestsType DEF RoutersAt, Relayed, RoutersOK
    <2>5. q \in PacketsAt(11) /\ q.frame = p.frame
      BY <1>9 DEF PacketsAt, LinkAt, KindAt
    <2>6. Logged(Hop(10))
      BY <2>1 DEF LogRouting, Hop
    <2> HIDE DEF p, q
    <2>7. Append(<< >>, q) = <<q>>
      OBVIOUS
    <2>8. /\ QueueAt(10) # << >> /\ Head(QueueAt(10)) = p /\ QueueAt(10)' = Tail(QueueAt(10))
          /\ QueueAt(11)' = Append(QueueAt(11), q)
      BY <1>2, <1>5, <2>3, <2>7 DEF p
    <2>9. KeepsBut({10, Twin(10), 11, Twin(11)})
      BY <1>3, <1>6 DEF KeepsBut
    <2>10. HandsOn(10)
      BY <1>4, <1>7, <1>9, <2>4, <2>5, <2>6, <2>8, <2>9, FrontHandsOn
    <2> QED
      BY <2>10
  <1>10. CASE p \in PacketsAt(20)
    <2>1. p.kind = "Response" /\ p.link = "link0"
      BY <1>10 DEF PacketsAt, LinkAt, KindAt
    <2>2. HasRelayed(router0, "link2", "link0")
      <3>1. Count(20, Frame) >= 1
        BY <1>1, <1>2, <1>4, <1>5, <1>10, FrontCounts
      <3>2. 10 \in 0 .. 32 /\ 20 > 10
        OBVIOUS
      <3>3. Past(10) > 0
        BY <1>1, <1>4, <3>1, <3>2, PastLater
      <3> QED
        BY <1>1, <3>3 DEF RoutersOK
    <2> DEFINE q == [p EXCEPT !.link = "link2"]
    <2>3. /\ out0' = <<q>>
          /\ router0' \in B0!RouterTables /\ IsRelay(router0', "link2", "link0")
          /\ HasRelayed(router0', "link2", "link0")
          /\ router0'.freq["echo"][Nothing] = router0.freq["echo"][Nothing]
      BY <1>1, <1>5, <1>8, <2>1, <2>2, RouterResponse0 DEF RoutersOK
    <2>4. RoutersAt(20)
      BY <1>1, <1>7, <2>3, RequestsType DEF RoutersAt, Relayed, RoutersOK
    <2>5. q \in PacketsAt(21) /\ q.frame = p.frame
      BY <1>10 DEF PacketsAt, LinkAt, KindAt
    <2>6. Logged(Hop(20))
      BY <2>1 DEF LogRouting, Hop
    <2> HIDE DEF p, q
    <2>7. Append(<< >>, q) = <<q>>
      OBVIOUS
    <2>8. /\ QueueAt(20) # << >> /\ Head(QueueAt(20)) = p /\ QueueAt(20)' = Tail(QueueAt(20))
          /\ QueueAt(21)' = Append(QueueAt(21), q)
      BY <1>2, <1>5, <2>3, <2>7 DEF p
    <2>9. KeepsBut({20, Twin(20), 21, Twin(21)})
      BY <1>3, <1>6, SMTT(30) DEF KeepsBut
    <2>10. HandsOn(20)
      BY <1>4, <1>7, <1>10, <2>4, <2>5, <2>6, <2>8, <2>9, FrontHandsOn
    <2> QED
      BY <2>10
  <1> QED
    BY <1>8, <1>9, <1>10
-----------------------------------------------------------------------------
(* The invariant, and what follows from it. *)

\* A step of a broker's threads hands a packet on, or nothing happens.
LEMMA Broker1HandsOn ==
  ASSUME IndInv, Route1 \/ Deliver1
  PROVE  \E j \in 2 .. 31 : HandsOn(j)
  <1>1. UNCHANGED <<callVars, losses, unsent, ended, protocolVars, sent, broker0Vars>>
    BY DEF Route1, Deliver1
  <1>2. CASE B1!RouteNext /\ LogRouting("router1", Head(l2b1))
    BY <1>1, <1>2, RouteNextHandsOn1
  <1>3. CASE B1!SendRouted /\ LogForwarding("router1", Head(out1))
    BY <1>1, <1>3, SendRoutedHandsOn1
  <1>4. CASE B1!TakeRouted /\ Logged({Entry("message", "router1")})
    BY <1>1, <1>4, TakeRoutedHandsOn1
  <1>5. CASE B1!Deliver /\ UNCHANGED log
    BY <1>1, <1>5, DeliverHandsOn1
  <1> QED
    BY <1>2, <1>3, <1>4, <1>5 DEF Route1, Deliver1

LEMMA Broker0HandsOn ==
  ASSUME IndInv, Route0 \/ Deliver0
  PROVE  \E j \in 2 .. 31 : HandsOn(j)
  <1>1. UNCHANGED <<callVars, losses, unsent, ended, protocolVars, sent, broker1Vars>>
    BY DEF Route0, Deliver0
  <1>2. CASE B0!RouteNext /\ LogRouting("router0", Head(l2b0))
    BY <1>1, <1>2, RouteNextHandsOn0
  <1>3. CASE B0!SendRouted /\ LogForwarding("router0", Head(out0))
    BY <1>1, <1>3, SendRoutedHandsOn0
  <1>4. CASE B0!TakeRouted /\ Logged({Entry("message", "router0")})
    BY <1>1, <1>4, TakeRoutedHandsOn0
  <1>5. CASE B0!Deliver /\ UNCHANGED log
    BY <1>1, <1>5, DeliverHandsOn0
  <1> QED
    BY <1>2, <1>3, <1>4, <1>5 DEF Route0, Deliver0

LEMMA HandsHandOn ==
  ASSUME IndInv, Hands
  PROVE  \E j \in 2 .. 31 : HandsOn(j)
  <1>1. CASE TakeRequest
    BY <1>1, TakeRequestHandsOn
  <1>2. CASE Respond
    BY <1>2, RespondHandsOn
  <1>3. ASSUME NEW l \in Link, Outbound(l) \/ Inbound(l) PROVE \E j \in 2 .. 31 : HandsOn(j)
    BY <1>3, OutboundHandsOn, InboundHandsOn
  <1>4. CASE Route0 \/ Deliver0
    BY <1>4, Broker0HandsOn
  <1>5. CASE Route1 \/ Deliver1
    BY <1>5, Broker1HandsOn
  <1> QED
    BY <1>1, <1>2, <1>3, <1>4, <1>5 DEF Hands

LEMMA NextKeeps ==
  ASSUME IndInv, [Next]_vars
  PROVE  IndInv'
  <1>1. Shapes'
    BY NextKeepsShapes DEF IndInv
  <1>2. CASE Ping
    BY <1>1, <1>2, RequestKeeps, CollectWindowKeeps, ReconstructKeeps DEF Ping
  <1>3. CASE BeginWindow
    BY <1>1, <1>3, BeginWindowKeeps
  <1>4. CASE SendRequest
    BY <1>1, <1>4, SendRequestKeeps
  <1>5. CASE End
    BY <1>1, <1>5, EndKeeps
  <1>6. CASE Work
    BY <1>1, <1>6, LockChannelKeeps, TakeResponseKeeps DEF Work, T!WorkerStep
  <1>7. CASE TimeOut
    BY <1>1, <1>7, TimeOutKeeps
  <1>8. CASE HandOver
    BY <1>1, <1>8, HandOverKeeps
  <1>9. CASE Hands
    BY <1>1, <1>9, HandsHandOn, HandsOnKeeps
  <1>10. ASSUME NEW l \in Link, NEW i \in DOMAIN sent[l], Lose(l, i) PROVE IndInv'
    BY <1>10, LoseKeeps
  <1>11. CASE UNCHANGED vars
    BY <1>11, NothingKeeps
  <1> QED
    BY <1>2, <1>3, <1>4, <1>5, <1>6, <1>7, <1>8, <1>9, <1>10, <1>11 DEF Next, Caller, Hands

(***************************************************************************)
(* However the threads of the network take turns, each frame that the ping *)
(* asked for is answered, in one of the places it passes, or was lost; the *)
(* routers drop none; and the log tells how far the frames have come.      *)
(***************************************************************************)
THEOREM InvariantTheorem == Spec => []IndInv
  <1>1. Init => IndInv
    BY InitEstablishes
  <1>2. IndInv /\ [Next]_vars => IndInv'
    BY NextKeeps
  <1> QED
    BY <1>1, <1>2, PTL DEF Spec

(***************************************************************************)
(* Nothing is logged more often than the test expects, and nothing is      *)
(* missing when the end is: the test of ping_pong succeeds (lib.rs of the  *)
(* tests, process_network).                                                *)
(***************************************************************************)
THEOREM LogIsAsExpectedTheorem == Spec => []LogIsAsExpected
  <1>1. IndInv => LogIsAsExpected
    BY LogIsExpected
  <1> QED
    BY <1>1, InvariantTheorem, PTL

LEMMA HandsStutters ==
  ASSUME IndInv, Hands
  PROVE  UNCHANGED T!vars
  <1>1. InPlace /\ CallOK
    BY DEF IndInv
  <1>2. PICK j \in 2 .. 31 : HandsOn(j)
    BY HandsHandOn
  <1>3. PICK i, p : Goes(j, i, p)
    BY <1>2 DEF HandsOn
  <1>4. UNCHANGED callVars /\ losses' = losses /\ unsent' = unsent
    BY <1>2 DEF HandsOn
  <1>5. p.frame \in Frame /\ Moves(j, p.frame) /\ j \in 1 .. 31
    BY <1>1, <1>3, <1>4, GoesMoves
  <1>6. UnderWay' = UnderWay
    BY <1>1, <1>4, <1>5, StaysUnderWay
  <1> QED
    BY <1>4, <1>6, StuttersWith

LEMMA NextImplements ==
  ASSUME IndInv, [Next]_vars
  PROVE  [T!Next]_(T!vars)
  <1>1. Shapes'
    BY NextKeepsShapes DEF IndInv
  <1>2. CASE Ping
    BY <1>2 DEF Ping, T!Next, T!CallStep
  <1>3. CASE BeginWindow
    BY <1>3, BeginWindowSends DEF T!Next, T!CallStep
  <1>4. CASE SendRequest
    BY <1>4, SendRequestStutters
  <1>5. CASE End
    BY <1>1, <1>5, EndStutters
  <1>6. CASE Work
    BY <1>6 DEF Work, T!Next
  <1>7. CASE TimeOut
    BY <1>7 DEF TimeOut, T!Next
  <1>8. CASE HandOver
    BY <1>8, HandOverArrives DEF T!Next
  <1>9. CASE Hands
    BY <1>9, HandsStutters
  <1>10. ASSUME NEW l \in Link, NEW i \in DOMAIN sent[l], Lose(l, i) PROVE T!Next
    BY <1>10, LoseLoses DEF T!Next
  <1>11. CASE UNCHANGED vars
    BY <1>11, NothingStutters
  <1> QED
    BY <1>2, <1>3, <1>4, <1>5, <1>6, <1>7, <1>8, <1>9, <1>10, <1>11 DEF Next, Caller, Hands

(***************************************************************************)
(* To the call, the brokers and links are a network that answers each      *)
(* request once, in any order, and of which only a lost datagram takes     *)
(* anything: every theorem about module TxRx holds of the ping (router.rs, *)
(* broker.rs, udp.rs, mpsc_channel.rs, mpsc_corruptor.rs and echo.rs).     *)
(***************************************************************************)
THEOREM AnswersEachRequestOnceTheorem == Spec => AnswersEachRequestOnce
  <1>1. Init => T!Init
    BY InitImplements
  <1>2. IndInv /\ [Next]_vars => [T!Next]_(T!vars)
    BY NextImplements
  <1> QED
    BY <1>1, <1>2, InvariantTheorem, PTL DEF Spec, AnswersEachRequestOnce, T!Spec
=============================================================================
