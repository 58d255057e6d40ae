------------------------------ MODULE MCQPool ------------------------------
(* QPool for TLC.  Callers are interchangeable. *)
EXTENDS QPool, TLC

CallerSymmetry == Permutations(Callers)
=============================================================================
