------------------------------- MODULE MCWatch -------------------------------
(* An instance of Watch for TLC. *)
EXTENDS Watch

CONSTANTS t1
=============================================================================
