------------------------------ MODULE Lifecycle ------------------------------
(***************************************************************************)
(* The task lifecycle of agent_farm_runtime: the states a task record can   *)
(* be in, the table of legal transitions, and the states that reserve the   *)
(* task's workspace.  Everything here is a constant; the modules that move  *)
(* tasks extend it.                                                         *)
(***************************************************************************)

\* models.TaskState
TaskState ==
    {"READY", "RUNNING", "WAITING", "SUBMITTED", "DONE", "BLOCKED", "FAILED"}

\* transitions.LEGAL_TRANSITIONS
LegalTransitions ==
    [s \in TaskState |->
        CASE s = "READY"     -> {"RUNNING", "FAILED"}
          [] s = "RUNNING"   -> {"WAITING", "SUBMITTED", "BLOCKED", "FAILED"}
          [] s = "WAITING"   -> {"RUNNING", "BLOCKED", "FAILED"}
          [] s = "SUBMITTED" -> {"RUNNING", "DONE", "FAILED"}
          [] s = "BLOCKED"   -> {"READY", "RUNNING", "FAILED"}
          [] s = "DONE"      -> {}
          [] s = "FAILED"    -> {}]

\* validate_transition is called only when the state changes; a commit that
\* keeps the state is a metadata edit and needs no entry of the table.
CanMove(from, to) == to = from \/ to \in LegalTransitions[from]

\* store.RESERVED_STATES: a task in one of them owns its workspace.
ReservedStates == {"READY", "RUNNING", "WAITING", "SUBMITTED"}
=============================================================================
