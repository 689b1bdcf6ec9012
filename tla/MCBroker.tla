------------------------------ MODULE MCBroker -------------------------------
(***************************************************************************)
(* Instances of the broker for TLC.  alice and bob are two links; relay is *)
(* a third one.  echo is alice's link again, with the reply_to of its      *)
(* inbound packets: the same lookup id and identity.                       *)
(***************************************************************************)
EXTENDS BrokerProperties

CONSTANTS alice, bob, relay, echo

EndOf == [l \in {alice, bob, relay, echo} |-> IF l = echo THEN alice ELSE l]
MCLinkPid == [l \in Link |-> EndOf[l]]
MCLookupId == [l \in Link |-> EndOf[l]]

\* Where echo is not used, links are interchangeable, and so are names.
LinkAndNameSymmetry == Permutations({alice, bob, relay}) \cup Permutations(Name)
=============================================================================
