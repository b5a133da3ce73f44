----------------------------- MODULE MCKeyedList ----------------------------
(* Keys are told apart by nothing but equality.                             *)
EXTENDS KeyedList, TLC

Symmetry == Permutations(Keys)
=============================================================================
