--------------------------- MODULE MCTxRxRequests ----------------------------
(* Instances of TxRxRequests for TLC, with the goals of MCTxRx. *)
EXTENDS MCTxRx, TxRxRequests
=============================================================================
