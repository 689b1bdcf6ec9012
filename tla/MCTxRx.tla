------------------------------- MODULE MCTxRx --------------------------------
(***************************************************************************)
(* Instances of TxRx for TLC.  The calls of a behaviour are                *)
(* interchangeable.  Of two names one is asked for in ranges that overlap, *)
(* so that calls find frames in their entry, or in the channel, that they  *)
(* did not ask for.                                                        *)
(***************************************************************************)
EXTENDS TxRxProperties

CONSTANTS ping, pong

MCGoals == {[name |-> ping, first |-> 0, last |-> LastFrame],
            [name |-> ping, first |-> 1, last |-> 1],
            [name |-> pong, first |-> 0, last |-> LastFrame]}

CallSymmetry == Permutations(Call)
=============================================================================
