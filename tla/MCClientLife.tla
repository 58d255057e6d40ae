---------------------------- MODULE MCClientLife ----------------------------
(* ClientLife for TLC: two databases of one path and one of another compete for
   one cache; a download moves one tag and removes the other. *)
EXTENDS ClientLife, TLC

CONSTANTS t1, t2, d1, d2, d3, na, nb

MCPathOf == d1 :> "p" @@ d2 :> "p" @@ d3 :> "q"
MCTables == << <<na, nb>>, <<nb>> >>

LifeSymmetry == Permutations(Threads) \cup Permutations({d1, d2})
=============================================================================
