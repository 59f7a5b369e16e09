---------------------------- MODULE MCGeneration ----------------------------
(* Instances of Generation for TLC.                                          *)
EXTENDS Generation, TLC

CONSTANTS w1, w2, c1, c2

Symmetry == Permutations({w1, w2}) \cup Permutations({c1, c2})

=============================================================================
