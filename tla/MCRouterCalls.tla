---------------------------- MODULE MCRouterCalls -----------------------------
(* Instances of RouterCalls for TLC. Every link has an identity of its own, so *)
(* links are interchangeable, and so are names.                                *)
EXTENDS RouterCalls

MCLinkPid == [l \in Link |-> l]
LinkAndNameSymmetry == Permutations(Link) \cup Permutations(Name)
=============================================================================
