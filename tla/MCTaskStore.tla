----------------------------- MODULE MCTaskStore -----------------------------
(***************************************************************************)
(* Instances of TaskStore for TLC: two processes, tasks that share one      *)
(* workspace, and the few revisions a task needs to be created, to start,   *)
(* and to be changed by a stale caller.                                     *)
(***************************************************************************)
EXTENDS TaskStore

CONSTANTS p1, p2, t1, t2, w1

SharedWorkspace == [t \in Tasks |-> w1]
=============================================================================
