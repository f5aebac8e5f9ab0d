----------------------------- MODULE MCTurnover -----------------------------
(* Instances of Turnover for TLC. *)
EXTENDS Turnover

CONSTANTS t1, t2

\* Tasks are interchangeable; hosts and builds are not, one of them is first.
Symmetry == Permutations(Tasks)
=============================================================================
