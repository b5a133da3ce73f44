-------------------------- MODULE MCImmediateEffect --------------------------
(* The threads are alike, and so are the signals. *)
EXTENDS ImmediateEffect, TLC

Symmetry == Permutations(Threads) \cup Permutations(Sources)
=============================================================================
