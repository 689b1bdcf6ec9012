-------------------------------- MODULE Link ---------------------------------
(***************************************************************************)
(* One direction of a link (copernica-links): the outbound thread of an    *)
(* MpscChannel, an MpscCorruptor or a UdpIp, its transport, and the        *)
(* inbound threads of the links at the other end.                          *)
(*                                                                         *)
(*   owner --bs2l--> outbound --wire--> inbound threads --l2bs--> owners   *)
(*                                                                         *)
(* The owners are a broker or a protocol.  A link of the first two kinds   *)
(* may have several ends, which it serves in the order in which they were  *)
(* bound (`female`); its channels are bounded and a send blocks while one  *)
(* is full.  The decoding of a frame may fail: its `?` and its `unwrap`    *)
(* end the inbound thread.  The link itself keeps the receiving halves of  *)
(* its channels alive, so that nobody at the other end is told.            *)
(***************************************************************************)
EXTENDS WireFormat

CONSTANTS
  Receiver,        \* links at the other end
  Setups,          \* named set-ups of a link and what its owner sends: see Setup
  BufferSize,      \* BOUNDED_BUFFER_SIZE
  MaxLosses,       \* bound: datagrams lost
  MaxRepeats,      \* bound: datagrams repeated
  MaxNoise         \* bound: datagrams that arrive with too many errors

ASSUME LinkBoundsAssumption == /\ BufferSize \in Nat \ {0}
                               /\ MaxLosses \in Nat
                               /\ MaxRepeats \in Nat
                               /\ MaxNoise \in Nat

\* No end is bound to a link twice.
ASSUME SetupsAssumption ==
  \A s \in DOMAIN Setups :
     LET x == Setups[s]
     IN  /\ x.kind \in {"MpscChannel", "MpscCorruptor", "UdpIp"}
         /\ x.ends \in Seq(Receiver)
         /\ \A i, j \in DOMAIN x.ends : i # j => x.ends[i] # x.ends[j]
         /\ x.items \in Seq(ToSet(x.items))

(***************************************************************************)
(* The packets of an owner are those the code makes, for the one who asks  *)
(* or for anybody, and no part of them is one of the values that stand for *)
(* something else.                                                         *)
(***************************************************************************)
ASSUME PacketsAssumption ==
  \A s \in DOMAIN Setups : \A item \in ToSet(Setups[s].items) :
     LET x == Setups[s]
         nw == item.nw
         written == serialize_narrow_waist_packet(nw)
         response == Cypher(nw.hbfi.response_pid, nw.hbfi.request_pid, item.payload, nw.nonce)
     IN  nw # Failed =>
           /\ IsHbfi(nw.hbfi) /\ nw.hbfi.request_pid \in {Absent, x.requester}
           /\ \/ nw = Request(nw.hbfi, nw.nonce)
              \/ /\ item.payload # Absent /\ item.payload.size \in Nat
                 /\ nw = respond(nw.hbfi.response_pid, nw.hbfi, item.payload, nw.nonce)
                 /\ Ordinary(response) /\ Ordinary(Padded(item.payload))
           /\ written.bytes # Failed
           /\ Ordinary(LinkCypher(written, x.link, <<"link", nw.nonce>>))
           /\ LinkPacket(x.link.reply_to, nw) # Failed

\* Both ends of a link have identities of the other, or neither has.
ASSUME EndsAssumption ==
  \A s \in DOMAIN Setups :
     LET x == Setups[s]
     IN  /\ \A r \in Receiver : x.remote[r].remote_pid = Absent <=> x.link.remote_pid = Absent
         /\ IsReplyTo(x.link.reply_to)

VARIABLES
  setup,         \* which of Setups
  asked,         \* how many of its items the owner has dealt with
  bs2l,          \* channel from the owner to the outbound thread
  sending,       \* [frame, left]: ends that still have to be sent the frame
  wire,          \* l2l channel or socket of each receiver: frames
  inbound,       \* whether the inbound thread of each receiver runs
  arriving,      \* the packet it has decoded and not sent on yet, if any
  l2bs,          \* channel of each receiver to its owner
  delivered,     \* what each receiver's owner took from it
  faults         \* losses, repeats and noise so far

linkVars == <<bs2l, sending, wire, inbound, arriving, l2bs, delivered, faults>>
vars == <<setup, asked, linkVars>>

(***************************************************************************)
(* A set-up: the kind of the link; the links at both ends, each with its   *)
(* own identity, the other one's and its address; those bound to it; the   *)
(* address its packets are for; and the items its owner sends: packets,    *)
(* and what was put into those that are responses.                         *)
(***************************************************************************)
S == Setups[setup]

\* Mutant of CODE_SIZE: a shorter code.
SHORT_CODE_SIZE == 4

BLOCK_SIZE == 255
CODE_SIZE == 6
MaxCorrected == CODE_SIZE \div 2     \* wrong bytes in a block
RECV_BUFFER_SIZE == 1500             \* `buf` in udp.rs
CORRUPTED == 3                       \* bytes 4..7 of each frame, in mpsc_corruptor.rs

Blocks(n) == (n + BLOCK_SIZE - CODE_SIZE - 1) \div (BLOCK_SIZE - CODE_SIZE)

EncodedSize(n) == n + Blocks(n) * CODE_SIZE

\* A frame: its bytes, and how many of them are wrong in its worst block.
Frame(bytes, wrong) == [bytes |-> bytes, wrong |-> wrong]

\* Bytes with one of the fields changed.
Changed(bytes) == {[bytes EXCEPT ![i].value = Torn] : i \in DOMAIN bytes}

(***************************************************************************)
(* What `decode` may make of a frame.  If more bytes are wrong than the    *)
(* code corrects it says so or, if they make up another code word, takes   *)
(* that for what was sent.                                                 *)
(***************************************************************************)
decode(frame, link) ==
  IF EncodedSize(ByteCount(frame.bytes)) > RECV_BUFFER_SIZE /\ S.kind = "UdpIp"
  THEN {Failed}
  ELSE IF frame.wrong <= MaxCorrected
  THEN {deserialize_link_packet(frame.bytes, link)}
  ELSE {Failed} \cup {deserialize_link_packet(b, link) : b \in Changed(frame.bytes)}

NoFrame == [frame |-> Frame(<< >>, 0), left |-> << >>]

Init ==
  /\ setup \in DOMAIN Setups
  /\ asked = 0
  /\ bs2l = << >>
  /\ sending = NoFrame
  /\ wire = [r \in Receiver |-> << >>]
  /\ inbound = [r \in Receiver |-> "running"]
  /\ arriving = [r \in Receiver |-> << >>]
  /\ l2bs = [r \in Receiver |-> << >>]
  /\ delivered = [r \in Receiver |-> << >>]
  /\ faults = [losses |-> 0, repeats |-> 0, noise |-> 0]
-----------------------------------------------------------------------------
\* The owner's next packet is sent to the link, if the owner could make it.
Send ==
  LET item == S.items[asked + 1]
  IN  /\ asked < Len(S.items)
      /\ asked' = asked + 1
      /\ IF item.nw = Failed
         THEN UNCHANGED bs2l
         ELSE /\ Len(bs2l) < BufferSize
              /\ bs2l' = Append(bs2l, item.nw)
      /\ UNCHANGED <<setup, sending, wire, inbound, arriving, l2bs, delivered, faults>>

\* What the outbound thread writes: the packet under the link's own address.
Encoded(nw) ==
  serialize_link_packet(LinkPacket(S.link.reply_to, nw), S.link, <<"link", nw.nonce>>)

(***************************************************************************)
(* An MpscChannel or MpscCorruptor takes a packet, and will send it to     *)
(* each end.  The corruptor overwrites three bytes of it with zeros, any   *)
(* of which may have been zero.                                            *)
(***************************************************************************)
EncodeNext ==
  /\ S.kind \in {"MpscChannel", "MpscCorruptor"}
  /\ sending.left = << >>
  /\ bs2l # << >>
  /\ bs2l' = Tail(bs2l)
  /\ \E wrong \in IF S.kind = "MpscCorruptor" THEN 0 .. CORRUPTED ELSE {0} :
        sending' = [frame |-> Frame(Encoded(Head(bs2l)), wrong), left |-> S.ends]
  /\ UNCHANGED <<setup, asked, wire, inbound, arriving, l2bs, delivered, faults>>

\* Mutant of SendFrame: an end whose channel is full is passed over (`try_send`).
SendFrameOrSkip ==
  LET end == Head(sending.left)
  IN  /\ sending.left # << >>
      /\ wire' = IF Len(wire[end]) < BufferSize
                 THEN [wire EXCEPT ![end] = Append(@, sending.frame)] ELSE wire
      /\ sending' = IF Len(sending.left) = 1 THEN NoFrame
                    ELSE [sending EXCEPT !.left = Tail(@)]
      /\ UNCHANGED <<setup, asked, bs2l, inbound, arriving, l2bs, delivered, faults>>

\* Mutant of SendFrame: the channels are not bounded.
SendFrameUnbounded ==
  LET end == Head(sending.left)
  IN  /\ sending.left # << >>
      /\ wire' = [wire EXCEPT ![end] = Append(@, sending.frame)]
      /\ sending' = IF Len(sending.left) = 1 THEN NoFrame
                    ELSE [sending EXCEPT !.left = Tail(@)]
      /\ UNCHANGED <<setup, asked, bs2l, inbound, arriving, l2bs, delivered, faults>>

\* The next end is sent the frame; the send blocks while its channel is full.
SendFrame ==
  LET end == Head(sending.left)
  IN  /\ sending.left # << >>
      /\ Len(wire[end]) < BufferSize
      /\ wire' = [wire EXCEPT ![end] = Append(@, sending.frame)]
      /\ sending' = IF Len(sending.left) = 1 THEN NoFrame
                    ELSE [sending EXCEPT !.left = Tail(@)]
      /\ UNCHANGED <<setup, asked, bs2l, inbound, arriving, l2bs, delivered, faults>>

\* The receivers a datagram for S.to comes to.
BoundTo(to) == {r \in Receiver : S.remote[r].reply_to = to}

\* A UdpIp takes a packet and sends it to the address it is for, unless that
\* is no address of its kind.
SendDatagram ==
  /\ S.kind = "UdpIp"
  /\ bs2l # << >>
  /\ bs2l' = Tail(bs2l)
  /\ wire' = [r \in Receiver |->
                IF r \in BoundTo(S.to) /\ S.to.type \in {"UdpIp4", "UdpIp6"}
                THEN Append(wire[r], Frame(Encoded(Head(bs2l)), 0))
                ELSE wire[r]]
  /\ UNCHANGED <<setup, asked, sending, inbound, arriving, l2bs, delivered, faults>>
-----------------------------------------------------------------------------
\* Frames come off a channel in order, and off a socket in any.
Takeable(r) == IF S.kind = "UdpIp" THEN DOMAIN wire[r] ELSE DOMAIN wire[r] \cap {1}

\* What the inbound thread makes of a packet: its own link, with the address to
\* reply to.
Inbound(r, lp) == [link |-> [S.remote[r] EXCEPT !.reply_to = lp.reply_to], lp |-> lp]

\* The inbound thread takes frame i; one it cannot decode is its last.
Decode(r, i) ==
  /\ inbound[r] = "running"
  /\ arriving[r] = << >>
  /\ i \in Takeable(r)
  /\ wire' = [wire EXCEPT ![r] = RemoveAt(@, i)]
  /\ \E lp \in decode(wire[r][i], S.remote[r]) :
        IF lp = Failed
        THEN /\ inbound' = [inbound EXCEPT ![r] = "over"]
             /\ UNCHANGED arriving
        ELSE /\ arriving' = [arriving EXCEPT ![r] = <<Inbound(r, lp)>>]
             /\ UNCHANGED inbound
  /\ UNCHANGED <<setup, asked, bs2l, sending, l2bs, delivered, faults>>

\* It sends the packet on, and blocks while its owner's channel is full.
SendOn(r) ==
  /\ arriving[r] # << >>
  /\ Len(l2bs[r]) < BufferSize
  /\ l2bs' = [l2bs EXCEPT ![r] = @ \o arriving[r]]
  /\ arriving' = [arriving EXCEPT ![r] = << >>]
  /\ UNCHANGED <<setup, asked, bs2l, sending, wire, inbound, delivered, faults>>

\* The owner of the receiving link takes a packet.
Receive(r) ==
  /\ l2bs[r] # << >>
  /\ delivered' = [delivered EXCEPT ![r] = Append(@, Head(l2bs[r]))]
  /\ l2bs' = [l2bs EXCEPT ![r] = Tail(@)]
  /\ UNCHANGED <<setup, asked, bs2l, sending, wire, inbound, arriving, faults>>

\* The network loses, repeats or garbles datagram i; others overtake it anyhow.
Lose(r, i) ==
  /\ faults.losses < MaxLosses
  /\ wire' = [wire EXCEPT ![r] = RemoveAt(@, i)]
  /\ faults' = [faults EXCEPT !.losses = @ + 1]

Repeat(r, i) ==
  /\ faults.repeats < MaxRepeats
  /\ wire' = [wire EXCEPT ![r] = Append(@, @[i])]
  /\ faults' = [faults EXCEPT !.repeats = @ + 1]

Garble(r, i) ==
  /\ faults.noise < MaxNoise
  /\ wire' = [wire EXCEPT ![r][i].wrong = MaxCorrected + 1]
  /\ faults' = [faults EXCEPT !.noise = @ + 1]

Network(r, i) ==
  /\ S.kind = "UdpIp"
  /\ i \in DOMAIN wire[r]
  /\ Lose(r, i) \/ Repeat(r, i) \/ Garble(r, i)
  /\ UNCHANGED <<setup, asked, bs2l, sending, inbound, arriving, l2bs, delivered>>

InboundStep(r) == (\E i \in DOMAIN wire[r] : Decode(r, i)) \/ SendOn(r)

Outbound == EncodeNext \/ SendFrame \/ SendDatagram

Next ==
  \/ Send
  \/ Outbound
  \/ \E r \in Receiver : InboundStep(r) \/ Receive(r)
  \/ \E r \in Receiver : \E i \in DOMAIN wire[r] : Network(r, i)

Spec == Init /\ [][Next]_vars
=============================================================================
