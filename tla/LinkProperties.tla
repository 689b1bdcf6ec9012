--------------------------- MODULE LinkProperties ----------------------------
(***************************************************************************)
(* Properties of one direction of a link, module Link.                     *)
(***************************************************************************)
EXTENDS Link, Queues

\* The items that are packets, in the order in which the link was given them.
Handed == Only(SubSeq(S.items, 1, asked), {item \in ToSet(S.items) : item.nw # Failed})

\* What the owner of receiver r should be given for an item.
AsSent(r, item) == Inbound(r, [reply_to |-> S.link.reply_to, nw |-> item.nw])

\* The receivers the set-up connects.
Connected == IF S.kind = "UdpIp"
             THEN IF S.to.type \in {"UdpIp4", "UdpIp6"} THEN BoundTo(S.to) ELSE {}
             ELSE ToSet(S.ends)

Sealed == S.link.remote_pid # Absent

\* The state is one the channels' bounds and the set-up allow.
TypeOK ==
  /\ setup \in DOMAIN Setups
  /\ asked \in 0 .. Len(S.items)
  /\ Len(bs2l) <= BufferSize /\ ToSet(bs2l) \subseteq {item.nw : item \in ToSet(S.items)}
  /\ ToSet(sending.left) \subseteq Receiver
  /\ inbound \in [Receiver -> {"running", "over"}]
  /\ \A r \in Receiver :
        /\ S.kind # "UdpIp" => Len(wire[r]) <= BufferSize
        /\ Len(arriving[r]) <= 1
        /\ Len(l2bs[r]) <= BufferSize
        /\ r \notin Connected => wire[r] = << >> /\ delivered[r] = << >>
  /\ faults \in [losses : 0 .. MaxLosses, repeats : 0 .. MaxRepeats, noise : 0 .. MaxNoise]

(***************************************************************************)
(* A link of channels delivers what it was handed, unchanged and in order, *)
(* to each of its ends, whatever the corruptor did to the frames; the only *)
(* thing to change on the way is the address to reply to, which is that of *)
(* the sending link (mpsc_channel.rs and mpsc_corruptor.rs, run).          *)
(***************************************************************************)
ReliableInOrder ==
  S.kind # "UdpIp" =>
    \A r \in Receiver : \A k \in DOMAIN delivered[r] :
       k <= Len(Handed) /\ delivered[r][k] = AsSent(r, Handed[k])

(***************************************************************************)
(* With the identity of the other end in its LinkId, a link delivers only  *)
(* packets it was handed, whatever the network does to its datagrams.  The *)
(* address to reply to is not under the seal, and may be changed           *)
(* (serialization.rs, deserialize_cyphertext_link_packet).                 *)
(***************************************************************************)
SealedPacketsAreGenuine ==
  Sealed => \A r \in Receiver : \A k \in DOMAIN delivered[r] :
              \E item \in ToSet(Handed) : delivered[r][k].lp.nw = item.nw

(***************************************************************************)
(* A response yields to the one who asked what the responder put into it,  *)
(* of any length up to the largest and whether or not it or the link is    *)
(* encrypted, unless noise got through a link that is not                  *)
(* (response_data.rs, insert and extract).                                 *)
(***************************************************************************)
PayloadsSurvive ==
  Sealed \/ faults.noise = 0 =>
    \A r \in Receiver : \A k \in DOMAIN delivered[r] :
       LET nw == delivered[r][k].lp.nw
       IN  nw.kind = "Response" =>
             \E item \in ToSet(Handed) :
                /\ item.payload # Absent /\ item.nw.hbfi = nw.hbfi
                /\ extract(nw.data, S.requester, nw.hbfi.request_pid,
                           nw.hbfi.response_pid, nw.nonce)
                     = Put(item.payload.size, item.payload.value)

(***************************************************************************)
(* An inbound thread ends only if noise reached it, or if it is not the    *)
(* one the link encrypts for: no packet, of whatever size, is too long for *)
(* a datagram or misread for want of one size telling it from another      *)
(* (links/lib.rs, decode; serialization.rs, deserialize_link_packet).      *)
(***************************************************************************)
OnlyNoiseDeafens ==
  \A r \in Receiver :
     inbound[r] = "over" => \/ faults.noise > 0
                            \/ S.link.remote_pid \notin {Absent, S.remote[r].sid}

(***************************************************************************)
(* The ends of a link of channels are served in turn, so that none gets    *)
(* ahead of another by more than the other's channels hold: one that went  *)
(* deaf holds the others back for good (mpsc_channel.rs, the outbound      *)
(* thread).                                                                *)
(***************************************************************************)
NoReceiverRunsAhead ==
  S.kind # "UdpIp" =>
    \A r, q \in Connected : Len(delivered[r]) <= Len(delivered[q]) + 2 * BufferSize + 2

\* No thread of the link has anything it can do, nor has a receiving owner.
Quiet ==
  /\ IF sending.left = << >> THEN bs2l = << >> ELSE Len(wire[Head(sending.left)]) = BufferSize
  /\ \A r \in Receiver :
        /\ l2bs[r] = << >>
        /\ arriving[r] = << >>
        /\ inbound[r] = "over" \/ wire[r] = << >>

(***************************************************************************)
(* The threads of a link do not block each other: when nothing more can    *)
(* happen by itself, everything the link was handed is with every end,     *)
(* unless one of them went deaf or a datagram was lost.                    *)
(***************************************************************************)
NothingIsStuck ==
  Quiet => \/ \A r \in Connected : Len(delivered[r]) >= Len(Handed)
           \/ \E r \in Connected : inbound[r] = "over"
           \/ faults.losses > 0
=============================================================================
