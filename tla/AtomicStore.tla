----------------------------- MODULE AtomicStore -----------------------------
(***************************************************************************)
(* What agent_farm_runtime promises of its task store (docs/ARCHITECTURE.md *)
(* INV-7, INV-8, INV-9, INV-12), with no lock, journal or disk in sight: a  *)
(* commit replaces one task record, advances its revision by one and adds   *)
(* one audit event, all in a single step; a revision is acted upon at most  *)
(* once and only while it is the current one.  A failure of the host may    *)
(* take back the last commit, but only before anybody could act upon it.    *)
(* TaskStore implements it.                                                 *)
(***************************************************************************)
EXTENDS Lifecycle, Naturals, Sequences

CONSTANTS
    Tasks,          \* task ids
    WorkspaceOf,    \* the workspace key of each task
    NoWorkspace,    \* the key of a task without a workspace
    None            \* no commit that can be taken back

VARIABLES
    tasks,      \* the committed record of each task; revision 0: no record
    audit,      \* the events committed so far, oldest first
    acted,      \* the commits whose dispatch was invoked, oldest first
    undo        \* the record the last commit replaced, while it is not safe yet

absVars == <<tasks, audit, acted, undo>>

NoRecord == [rev |-> 0, state |-> "NONE"]

\* Another task may not hold the workspace of t while t holds it.
WorkspaceFree(t, s) ==
    (s \in ReservedStates /\ WorkspaceOf[t] # NoWorkspace) =>
        \A u \in Tasks \ {t} :
            WorkspaceOf[u] = WorkspaceOf[t] => tasks[u].state \notin ReservedStates

Init ==
    /\ tasks = [t \in Tasks |-> NoRecord]
    /\ audit = <<>>
    /\ acted = <<>>
    /\ undo = None

Commit(t, s) ==
    /\ \/ tasks[t] = NoRecord /\ s = "READY"
       \/ tasks[t].state \in TaskState /\ CanMove(tasks[t].state, s)
    /\ WorkspaceFree(t, s)
    /\ tasks' = [tasks EXCEPT ![t] = [rev |-> tasks[t].rev + 1, state |-> s]]
    /\ audit' = Append(audit, [task |-> t, rev |-> tasks[t].rev + 1])
    /\ undo = None
    /\ undo' = [task |-> t, record |-> tasks[t]]
    /\ UNCHANGED acted

\* The commit cannot be lost any more.
Harden ==
    /\ undo # None
    /\ undo' = None
    /\ UNCHANGED <<tasks, audit, acted>>

\* A failure of the host.
TakeBack ==
    /\ undo # None
    /\ tasks' = [tasks EXCEPT ![undo.task] = undo.record]
    /\ audit' = SubSeq(audit, 1, Len(audit) - 1)
    /\ undo' = None
    /\ UNCHANGED acted

Act(t) ==
    LET e == [task |-> t, rev |-> tasks[t].rev]
    IN  /\ undo = None /\ e.rev > 0
        /\ \A i \in 1..Len(acted) : acted[i] # e
        /\ acted' = Append(acted, e)
        /\ UNCHANGED <<tasks, audit, undo>>

Next ==
    \/ \E t \in Tasks : Act(t) \/ \E s \in TaskState : Commit(t, s)
    \/ Harden \/ TakeBack

Spec == Init /\ [][Next]_absVars
=============================================================================
