------------------------------ MODULE MCRunner ------------------------------
(* Instances of Runner for TLC. *)
EXTENDS Runner

Sbatch == [kind |-> "sbatch", after |-> {}, prev |-> "none", pool |-> "p", root |-> "p",
           segment |-> 0, concurrency |-> 0, dir |-> FALSE]
Segment(chain, k, before) ==
    [Sbatch EXCEPT !.pool = "afqmc", !.root = chain, !.segment = k, !.concurrency = 1,
                   !.prev = before]
LocalAfter(deps) == [Sbatch EXCEPT !.kind = "local", !.after = deps, !.pool = "s", !.root = "s",
                                   !.dir = TRUE]

\* A chain of two segments and a local step that reads its result.
ChainSpecs == <<"a1", "a2", "s">>
ChainPlan == [a1 |-> Segment("a", 1, "none"), a2 |-> Segment("a", 2, "a1"),
              s |-> LocalAfter({"a2"})]

\* classify.MAX_AUTO
OneRetry == [c \in Classes |-> IF c = "infra" THEN 1 ELSE 0]
=============================================================================
