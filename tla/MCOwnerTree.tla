----------------------------- MODULE MCOwnerTree -----------------------------
(***************************************************************************)
(* OwnerTree for TLC: the owners but the root, the functions and the       *)
(* threads are interchangeable.                                            *)
(***************************************************************************)
EXTENDS OwnerTree, TLC

Symmetry ==
    Permutations(Owners \ {Root}) \cup Permutations(Fns) \cup Permutations(Threads)

=============================================================================
