----------------------------- MODULE MCRecovery -----------------------------
(* An instance of Recovery for TLC: the operator of either host. *)
EXTENDS Recovery

CONSTANTS t1, t2, o1, o2

MCTaskOrder == <<t1, t2>>
MCHostOf == (o1 :> "A" @@ o2 :> "B")
=============================================================================
