---------------------------- MODULE MCThreading ----------------------------
(* Small instances of Threading. *)
EXTENDS Threading, TLC
CONSTANTS t1, t2, h1, h2
Symmetry == Permutations(Threads) \cup Permutations(Helpers)
=============================================================================
