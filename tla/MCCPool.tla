------------------------------ MODULE MCCPool ------------------------------
(* CPool for TLC.  Callers are interchangeable, and so are admin threads. *)
EXTENDS CPool, TLC

PoolSymmetry == Permutations(Callers) \cup Permutations(Admins)
=============================================================================
