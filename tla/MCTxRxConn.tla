----------------------------- MODULE MCTxRxConn -----------------------------
(* TxRxConn for TLC.  Threads and serials are interchangeable. *)
EXTENDS TxRxConn, TLC

ConnSymmetry == Permutations(Threads) \cup Permutations(Serials)
=============================================================================
