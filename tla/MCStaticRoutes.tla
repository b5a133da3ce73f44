--------------------------- MODULE MCStaticRoutes ---------------------------
(* Two pages compete for a cache with room for one; two tasks build at once; *)
(* the second and the third render cannot be told apart by their files.      *)
EXTENDS StaticRoutes, TLC

SharedId == [r \in 1 .. MaxRenders + 1 |-> IF r = 3 THEN 2 ELSE r]

Symmetry == Permutations(Tasks)
=============================================================================
