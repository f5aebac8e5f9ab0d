---------------------------- MODULE MCReconciler ----------------------------
(***************************************************************************)
(* Instances of Reconciler for TLC.                                         *)
(***************************************************************************)
EXTENDS Reconciler

CONSTANTS m1, m2

\* The state without what neither the steps nor the properties of a run read: the history
\* `past`, and of what a Master has read all but whether it is still current (a decision on
\* a revision that has changed is refused, and revisions do not come back).
WithoutHistory ==
    <<task, control, workers, daemon, world, budget,
      [m \in Masters |-> view[m].rev = task.rev]>>
=============================================================================
