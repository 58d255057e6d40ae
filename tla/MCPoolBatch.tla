---------------------------- MODULE MCPoolBatch ----------------------------
(* PoolBatch for TLC: four items, two entries, one competing caller. *)
EXTENDS PoolBatch

CONSTANT o1

\* Two good items, one without a buffer and one that is too long to send.
MCArgs == <<"fine", "null", "fine", "long">>
=============================================================================
