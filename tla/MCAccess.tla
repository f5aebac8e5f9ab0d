------------------------------ MODULE MCAccess ------------------------------
(* An instance of Access for TLC: publishers and generations are interchangeable. *)
EXTENDS Access, TLC

CONSTANTS p1, p2, g1, g2

Symmetry == Permutations(Publishers) \cup Permutations(Generations)
=============================================================================
