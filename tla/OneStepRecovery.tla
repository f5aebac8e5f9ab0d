--------------------------- MODULE OneStepRecovery ---------------------------
(***************************************************************************)
(* What offline recovery promises (recovery.py, docs/OPERATIONS.md "Offline *)
(* host/protocol recovery"), with no marker, journal or crash in sight: in  *)
(* one step every owner is retired, the farm moves to the new host under a  *)
(* new execution epoch, and the audit tells so; before and after it, tasks  *)
(* change one revision at a time and a held task waits for a ruling.        *)
(***************************************************************************)
EXTENDS Naturals, Bags

CONSTANTS
    TaskIds,
    Hosts, FirstHost,
    Controls,       \* the numbers of farm controls
    None            \* no owner, no hold

VARIABLES
    tasks,      \* state, revision, lease and hold of every task
    plane,      \* the host and the execution epoch of the farm
    audit       \* the bag of audit events

absVars == <<tasks, plane, audit>>

NewTask == [state |-> "READY", rev |-> 1, lease |-> None, hold |-> None]
TaskEvent(kind, t, rev) == [kind |-> kind, of |-> t, n |-> rev]
FarmEvent(kind, n) == [kind |-> kind, of |-> "*", n |-> n]
Copies(e) == IF BagIn(e, audit) THEN audit[e] ELSE 0
Adds(events) ==
    audit' = [e \in DOMAIN audit \cup events |-> Copies(e) + (IF e \in events THEN 1 ELSE 0)]

Init ==
    /\ tasks = [t \in TaskIds |-> NewTask]
    /\ plane = [host |-> FirstHost, epoch |-> 0]
    /\ audit = EmptyBag

\* A task gets an owner of the current epoch on the current host, keeps it or
\* gives it up.
OwnerMayBecome(old, new) == new \in {old, None} \/ (old = None /\ new = plane)

\* The record of a held task changes, but only a ruling lets it go.
HoldMayBecome(old, new) ==
    \/ new.hold = old.hold /\ (old.hold # None => new.state = "BLOCKED" /\ new.lease = None)
    \/ old.hold # None /\ new.hold = None /\ new.state = "READY" /\ new.lease = None

Write(t) ==
    /\ \E s \in {"READY", "RUNNING", "WAITING", "SUBMITTED", "BLOCKED"},
          l \in {tasks[t].lease, plane, None}, h \in {tasks[t].hold, None} :
          LET new == [state |-> s, rev |-> tasks[t].rev + 1, lease |-> l, hold |-> h]
          IN  /\ OwnerMayBecome(tasks[t].lease, l)
              /\ HoldMayBecome(tasks[t], new)
              /\ tasks' = [tasks EXCEPT ![t] = new]
    /\ Adds({TaskEvent("TASK", t, tasks[t].rev + 1)})
    /\ UNCHANGED plane

\* A farm control is announced.
Announce ==
    /\ \E n \in Controls :
          /\ ~BagIn(FarmEvent("FARM_STOP_DRAIN", n), audit)
          /\ Adds({FarmEvent("FARM_STOP_DRAIN", n)})
    /\ UNCHANGED <<tasks, plane>>

Owned == {t \in TaskIds : tasks[t].lease # None}
Recover(h) ==
    LET id == plane.epoch + 1 IN
    /\ tasks' = [t \in TaskIds |->
                   IF t \in Owned
                   THEN [state |-> "BLOCKED", rev |-> tasks[t].rev + 1, lease |-> None, hold |-> id]
                   ELSE tasks[t]]
    /\ plane' = [host |-> h, epoch |-> id]
    /\ Adds({TaskEvent("RECOVERY_HELD", t, tasks[t].rev + 1) : t \in Owned}
              \cup {FarmEvent("FARM_RECOVERED", id)})

Next ==
    \/ \E t \in TaskIds : Write(t)
    \/ Announce
    \/ \E h \in Hosts : Recover(h)

Spec == Init /\ [][Next]_absVars
=============================================================================
