------------------------------- MODULE Queues --------------------------------
(***************************************************************************)
(* What part of a queue is of some kind.  This is SelectSeq for a set,     *)
(* written as a recursive function, which the proofs can unfold.           *)
(***************************************************************************)
EXTENDS Naturals, Sequences

\* The elements of s that are in S, in their order.
Only(s, S) ==
  LET only[i \in 0 .. Len(s)] ==
        IF i = 0 THEN << >>
        ELSE IF s[i] \in S THEN Append(only[i - 1], s[i]) ELSE only[i - 1]
  IN  only[Len(s)]
=============================================================================
