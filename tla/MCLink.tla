------------------------------- MODULE MCLink --------------------------------
(***************************************************************************)
(* Set-ups of a link for TLC: each kind, clear and sealed, with one end or *)
(* two.  near is the sending link, far and other those at the other end;   *)
(* far alone is the one near encrypts for.  alice asks bob.                *)
(***************************************************************************)
EXTENDS LinkProperties

Strings == {"alice", "bob", "app", "m0d", "fun", "arg"}

\* Index elements with either byte zero or all ones.
MCBloomFilterIndex ==
  [s \in Strings |-> CASE s = "alice" -> <<0, 255, 256, 65534>>
                       [] s = "bob"   -> <<1, 2, 3, 4>>
                       [] s = "app"   -> <<65280, 1, 257, 7>>
                       [] OTHER       -> <<11, 12, 13, 14>>]

Named(request_pid, frm) == Hbfi(request_pid, "bob", "app", "m0d", "fun", "arg", frm)

Asking(request_pid, frm) ==
  [nw |-> Request(Named(request_pid, frm), <<"request", frm>>), payload |-> Absent]

Answering(request_pid, frm, size) ==
  LET payload == [size |-> size, value |-> <<"data", frm>>]
  IN  [nw |-> respond("bob", Named(request_pid, frm), payload, <<"response", frm>>),
       payload |-> payload]

\* Both kinds of packets, clear and encrypted, with the lengths at the boundaries.
Mixed == <<Asking(Absent, 255), Answering("alice", 256, DATA_SIZE),
           Answering(Absent, 0, DATA_SIZE + 1), Answering(Absent, 65536, 0)>>
Few == <<Asking(Absent, 3), Answering("alice", 4, 9)>>
Others == <<Asking("alice", 0), Answering("alice", 1, 0), Answering(Absent, 2, DATA_SIZE)>>
Many == [i \in 1 .. 6 |-> Asking(Absent, i)]

Address(type, r) == ReplyTo(type, IF type = "Mpsc" THEN Absent ELSE r)

\* The link of end r; it is sealed towards its peer.
End(r, peer, sealed, type) ==
  [sid |-> r, remote_pid |-> IF sealed THEN peer ELSE Absent, reply_to |-> Address(type, r)]

Setup(kind, type, sealed, ends, to, items) ==
  [kind |-> kind, link |-> End("near", "far", sealed, type),
   remote |-> [r \in Receiver |-> End(r, "near", sealed, type)],
   ends |-> ends, to |-> Address(to, "far"), requester |-> "alice",
   items |-> items]

MCSetups ==
  [clear_channel    |-> Setup("MpscChannel", "Mpsc", FALSE, <<"far", "other">>, "Mpsc", Mixed),
   sealed_channel   |-> Setup("MpscChannel", "Mpsc", TRUE, <<"far">>, "Mpsc", Others),
   clear_corruptor  |-> Setup("MpscCorruptor", "Mpsc", FALSE, <<"far">>, "Mpsc", Others),
   sealed_corruptor |-> Setup("MpscCorruptor", "Mpsc", TRUE, <<"far">>, "Mpsc", Mixed),
   clear_udp        |-> Setup("UdpIp", "UdpIp4", FALSE, << >>, "UdpIp4", Few),
   sealed_udp       |-> Setup("UdpIp", "UdpIp6", TRUE, << >>, "UdpIp6", Mixed),
   misdirected_udp  |-> Setup("UdpIp", "UdpIp4", FALSE, << >>, "Mpsc", Others),
   sealed_for_one   |-> Setup("MpscChannel", "Mpsc", TRUE, <<"far", "other">>, "Mpsc", Many)]
=============================================================================
