------------------------------ MODULE TaskStore ------------------------------
(***************************************************************************)
(* The commit boundary of agent_farm_runtime (store.py) down to the writes  *)
(* it makes.  Masters and the reconciler are processes that read a task     *)
(* without a lock, decide, and then, one at a time under the mutation lock, *)
(* finish any pending journal, compare the record with what they read,      *)
(* write a journal, install the after-image, append the audit event, and    *)
(* remove the journal; the dispatch callback runs last, inside the lock.    *)
(*                                                                          *)
(* A write is first visible and only later durable.  For every file the     *)
(* model keeps the visible value and the set of values a host failure may   *)
(* leave on disk; an fsync (of the file and its directory) makes that set   *)
(* the visible value alone.  A process may be killed, or its fsync may fail *)
(* with an exception, at every step: both just release the lock.            *)
(***************************************************************************)
EXTENDS Lifecycle, Integers, Sequences, FiniteSets

CONSTANTS
    Procs,              \* processes that use the store
    Reconcilers,        \* those that run the daemon's pass over and over
    Tasks,              \* task ids
    WorkspaceOf,        \* the workspace key of each task
    NoWorkspace,        \* metadata.workspace is not set
    None,               \* no journal; nobody holds the lock
    MaxRev,             \* bound: no task is changed past this revision
    MaxAborts,          \* bound: processes killed, or failed writes
    MaxHostLosses,      \* bound: failures of the host
    MaxFaults           \* bound: faults of both kinds

ASSUME StoreAssumption ==
    /\ None \notin Procs /\ Reconcilers \subseteq Procs
    /\ MaxRev \in Nat /\ MaxAborts \in Nat /\ MaxHostLosses \in Nat /\ MaxFaults \in Nat

VARIABLES
    file,           \* tasks/<id>.json as a reader sees it
    fileDisk,       \* ... and the values a host failure may leave
    journal,        \* runtime/pending-task-commit.json
    journalDisk,
    log,            \* events/log.ndjson: whole records, and a torn tail
    logDisk,
    lock,           \* holder of runtime/task-mutation.lock
    pc,             \* where each process is in commit() or recover()
    req,            \* what each process asks for
    nextId,         \* the next fresh event id (uuid4)
    effects,        \* the dispatch callbacks invoked, oldest first
    aborts, hostLosses

storage == <<file, fileDisk, journal, journalDisk, log, logDisk>>
counters == <<aborts, hostLosses>>
vars == <<storage, lock, pc, req, nextId, effects, counters>>

-----------------------------------------------------------------------------
(* Records.                                                                 *)

\* A task record is its revision and state.  Revision 0 is an absent file.
NoRecord == [rev |-> 0, state |-> "NONE"]
Record == [rev : Nat \ {0}, state : TaskState] \cup {NoRecord}

Event == [id : Nat, task : Tasks, rev : Nat]

Journal == [id : Nat, task : Tasks, before : Record, after : Record]
EventOf(j) == [id |-> j.id, task |-> j.task, rev |-> j.after.rev]

Log == [recs : Seq(Event), torn : BOOLEAN]
EventIds(l) == {l.recs[i].id : i \in DOMAIN l.recs}

\* commit(task, expected=before, dispatch=...), or recover(); "written" once the
\* journal of the commit is on disk.
Request == [kind : {"commit", "recover", "written"}, task : Tasks, before : Record,
            target : TaskState, dispatch : BOOLEAN]
\* Mutant: the revision is not advanced.
AfterOf_SameRevision(r) == [rev |-> r.before.rev, state |-> r.target]
AfterOf(r) == [rev |-> r.before.rev + 1, state |-> r.target]

\* What a host failure can take back: a commit of a task.
Undoable == [task : Tasks, record : Record]

\* The absent journal, request or commit is none of them.
ASSUME NoneAssumption == None \notin Journal \cup Request \cup Undoable

\* Where a process can be while it holds the lock.
Sections ==
    {"recover", "fileSync", "append", "logSync", "unlink", "unlinkSync",
     "check", "journalSync", "dispatch"}

TypeOK ==
    /\ file \in [Tasks -> Record]
    /\ fileDisk \in [Tasks -> SUBSET Record]
    /\ journal \in Journal \cup {None}
    /\ journalDisk \subseteq Journal \cup {None}
    /\ log \in Log
    /\ logDisk \subseteq Log
    /\ lock \in Procs \cup {None}
    /\ pc \in [Procs -> Sections \cup {"idle", "queued"}]
    /\ req \in [Procs -> Request \cup {None}]
    /\ nextId \in Nat
    /\ effects \in Seq([task : Tasks, rev : Nat])
    /\ aborts \in Nat /\ hostLosses \in Nat

Init ==
    /\ file = [t \in Tasks |-> NoRecord]
    /\ fileDisk = [t \in Tasks |-> {NoRecord}]
    /\ journal = None
    /\ journalDisk = {None}
    /\ log = [recs |-> <<>>, torn |-> FALSE]
    /\ logDisk = {[recs |-> <<>>, torn |-> FALSE]}
    /\ lock = None
    /\ pc = [p \in Procs |-> "idle"]
    /\ req = [p \in Procs |-> None]
    /\ nextId = 1
    /\ effects = <<>>
    /\ aborts = 0
    /\ hostLosses = 0

-----------------------------------------------------------------------------
(* Outside the lock.                                                        *)

\* A caller reads the task (TaskStore.get), decides on a change and calls
\* commit.  New tasks are created READY; any change may be asked for, legal
\* or not; only a change to RUNNING carries a dispatch callback.
AskCommit(p, t, target, dispatch) ==
    /\ pc[p] = "idle"
    /\ file[t].rev < MaxRev
    /\ file[t] = NoRecord => target = "READY"
    /\ dispatch => target = "RUNNING"
    /\ req' = [req EXCEPT ![p] =
                 [kind |-> "commit", task |-> t, before |-> file[t],
                  target |-> target, dispatch |-> dispatch]]
    /\ pc' = [pc EXCEPT ![p] = "queued"]
    /\ UNCHANGED <<storage, lock, nextId, effects, counters>>

\* TaskStore.recover, the first call of every reconcile pass.  The task, the
\* record and the target of the request are not used.
AskRecover(p) ==
    /\ pc[p] = "idle"
    /\ \E t \in Tasks :
          req' = [req EXCEPT ![p] =
                    [kind |-> "recover", task |-> t, before |-> NoRecord,
                     target |-> "READY", dispatch |-> FALSE]]
    /\ pc' = [pc EXCEPT ![p] = "queued"]
    /\ UNCHANGED <<storage, lock, nextId, effects, counters>>

Acquire(p) ==
    /\ pc[p] = "queued"
    /\ lock = None
    /\ lock' = p
    /\ pc' = [pc EXCEPT ![p] = "recover"]
    /\ UNCHANGED <<storage, req, nextId, effects, counters>>

Leave(p) ==
    /\ pc' = [pc EXCEPT ![p] = "idle"]
    /\ req' = [req EXCEPT ![p] = None]
    /\ lock' = IF lock = p THEN None ELSE lock

\* FileLockBusy: another process keeps the lock for ten seconds.
Refused(p) ==
    /\ pc[p] = "queued"
    /\ lock # None
    /\ Leave(p)
    /\ UNCHANGED <<storage, nextId, effects, counters>>

-----------------------------------------------------------------------------
(* TaskStore._recover_locked, which commit() runs twice: before the compare *)
(* and again once its own journal is written (kind "written").              *)

Goto(p, where) ==
    /\ pc' = [pc EXCEPT ![p] = where]
    /\ UNCHANGED <<lock, req>>

\* Where _recover_locked returns to.
Return(p) ==
    \/ req[p].kind = "recover" /\ Leave(p)
    \/ req[p].kind = "commit" /\ Goto(p, "check")
    \/ req[p].kind = "written" /\ req[p].dispatch /\ Goto(p, "dispatch")
    \/ req[p].kind = "written" /\ ~req[p].dispatch /\ Leave(p)

\* Mutant: a record that already shows the after-image counts as recovered.
RecoverNothing_SkipsInstalled(p) ==
    /\ pc[p] = "recover"
    /\ journal # None => file[journal.task] = journal.after
    /\ Return(p)
    /\ UNCHANGED <<storage, nextId, effects, counters>>
RecoverNothing(p) ==
    /\ pc[p] = "recover"
    /\ journal = None
    /\ Return(p)
    /\ UNCHANGED <<storage, nextId, effects, counters>>

\* Mutant: only the before-image is accepted.
Conflicting_AfterImage(j, record) == record # j.before
Conflicting(j, record) == record \notin {j.before, j.after}

\* A journal that matches neither image, or a torn log: fail closed.
RecoverRefuse(p) ==
    /\ pc[p] = "recover"
    /\ journal # None
    /\ Conflicting(journal, file[journal.task]) \/ log.torn
    /\ Leave(p)
    /\ UNCHANGED <<storage, nextId, effects, counters>>

\* atomic_write_json(path, after): the rename makes the after-image visible ...
InstallAfter(p) ==
    /\ pc[p] = "recover"
    /\ journal # None
    /\ ~Conflicting(journal, file[journal.task])
    /\ ~log.torn
    /\ file' = [file EXCEPT ![journal.task] = journal.after]
    /\ fileDisk' = [fileDisk EXCEPT ![journal.task] = @ \cup {journal.after}]
    /\ Goto(p, "fileSync")
    /\ UNCHANGED <<journal, journalDisk, log, logDisk, nextId, effects, counters>>

\* ... and the directory sync makes it durable.
SyncFile(p) ==
    /\ pc[p] = "fileSync"
    /\ fileDisk' = [fileDisk EXCEPT ![journal.task] = {journal.after}]
    /\ Goto(p, "append")
    /\ UNCHANGED <<file, journal, journalDisk, log, logDisk, nextId, effects, counters>>

Appended == [recs |-> Append(log.recs, EventOf(journal)), torn |-> FALSE]
TornAppend == [recs |-> log.recs, torn |-> TRUE]

\* Mutant: the redo appends without looking for the event.
AppendEvent_Blind(p) ==
    /\ pc[p] = "append"
    /\ log' = Appended
    /\ logDisk' = logDisk \cup {TornAppend, Appended}
    /\ Goto(p, "logSync")
    /\ UNCHANGED <<file, fileDisk, journal, journalDisk, nextId, effects, counters>>

\* EventLog.append, only when the event is not in the log yet.
AppendEvent(p) ==
    /\ pc[p] = "append"
    /\ journal.id \notin EventIds(log)
    /\ log' = Appended
    /\ logDisk' = logDisk \cup {TornAppend, Appended}
    /\ Goto(p, "logSync")
    /\ UNCHANGED <<file, fileDisk, journal, journalDisk, nextId, effects, counters>>

\* The event is visible already: EventLog.sync retries its fsyncs.
EventPresent(p) ==
    /\ pc[p] = "append"
    /\ journal.id \in EventIds(log)
    /\ Goto(p, "logSync")
    /\ UNCHANGED <<storage, nextId, effects, counters>>

\* Mutant: the appended record is not synced.
SyncLog_Skipped(p) ==
    /\ pc[p] = "logSync"
    /\ Goto(p, "unlink")
    /\ UNCHANGED <<storage, nextId, effects, counters>>
SyncLog(p) ==
    /\ pc[p] = "logSync"
    /\ logDisk' = {log}
    /\ Goto(p, "unlink")
    /\ UNCHANGED <<file, fileDisk, journal, journalDisk, log, nextId, effects, counters>>

UnlinkJournal(p) ==
    /\ pc[p] = "unlink"
    /\ journal' = None
    /\ journalDisk' = journalDisk \cup {None}
    /\ Goto(p, "unlinkSync")
    /\ UNCHANGED <<file, fileDisk, log, logDisk, nextId, effects, counters>>

SyncUnlink(p) ==
    /\ pc[p] = "unlinkSync"
    /\ journalDisk' = {None}
    /\ Return(p)
    /\ UNCHANGED <<file, fileDisk, journal, log, logDisk, nextId, effects, counters>>

-----------------------------------------------------------------------------
(* TaskStore._commit_locked after its first recovery, and commit's dispatch. *)

\* Mutant: only a running task keeps its workspace from others.
WorkspaceFree_RunningOnly(t, s) ==
    (s \in ReservedStates /\ WorkspaceOf[t] # NoWorkspace) =>
        \A u \in Tasks \ {t} :
            file[u].state = "RUNNING" => WorkspaceOf[u] # WorkspaceOf[t]

\* The workspace reservation: no other task in a reserved state shares it.
WorkspaceFree(t, s) ==
    (s \in ReservedStates /\ WorkspaceOf[t] # NoWorkspace) =>
        \A u \in Tasks \ {t} :
            file[u].state \in ReservedStates => WorkspaceOf[u] # WorkspaceOf[t]

\* Mutants: no compare with what the caller read; no table of transitions.
Admissible_NoCompare(r) ==
    /\ r.before # NoRecord => CanMove(r.before.state, r.target)
    /\ WorkspaceFree(r.task, r.target)
Admissible_AnyMove(r) ==
    /\ file[r.task] = r.before
    /\ WorkspaceFree(r.task, r.target)

Admissible(r) ==
    /\ file[r.task] = r.before
    /\ r.before # NoRecord => CanMove(r.before.state, r.target)
    /\ WorkspaceFree(r.task, r.target)

\* StoreConflict or TransitionError: nothing is written.
Reject(p) ==
    /\ pc[p] = "check"
    /\ ~Admissible(req[p])
    /\ Leave(p)
    /\ UNCHANGED <<storage, nextId, effects, counters>>

NewJournal(r) ==
    [id |-> nextId, task |-> r.task, before |-> r.before, after |-> AfterOf(r)]

WriteJournal(p) ==
    /\ pc[p] = "check"
    /\ Admissible(req[p])
    /\ journal' = NewJournal(req[p])
    /\ journalDisk' = journalDisk \cup {NewJournal(req[p])}
    /\ nextId' = nextId + 1
    /\ Goto(p, "journalSync")
    /\ UNCHANGED <<file, fileDisk, log, logDisk, effects, counters>>

\* Mutant: the directory of the journal is not synced.
SyncJournal_Skipped(p) ==
    /\ pc[p] = "journalSync"
    /\ pc' = [pc EXCEPT ![p] = "recover"]
    /\ req' = [req EXCEPT ![p].kind = "written"]
    /\ UNCHANGED <<storage, lock, nextId, effects, counters>>
SyncJournal(p) ==
    /\ pc[p] = "journalSync"
    /\ journalDisk' = {journal}
    /\ pc' = [pc EXCEPT ![p] = "recover"]
    /\ req' = [req EXCEPT ![p].kind = "written"]
    /\ UNCHANGED <<file, fileDisk, journal, log, logDisk, lock, nextId, effects, counters>>

\* Mutant: a callback that failed is called again.
Dispatch_Retried(p) ==
    /\ pc[p] = "dispatch"
    /\ effects' = Append(effects, [task |-> req[p].task, rev |-> AfterOf(req[p]).rev])
    /\ Leave(p) \/ UNCHANGED <<lock, pc, req>>
    /\ UNCHANGED <<storage, nextId, counters>>

\* dispatch(saved), still under the lock; it is never called again for it.
Dispatch(p) ==
    /\ pc[p] = "dispatch"
    /\ effects' = Append(effects, [task |-> req[p].task, rev |-> AfterOf(req[p]).rev])
    /\ Leave(p)
    /\ UNCHANGED <<storage, nextId, counters>>

-----------------------------------------------------------------------------
(* Faults.                                                                  *)

FaultLeft == aborts + hostLosses < MaxFaults

\* The process dies, or a write or an fsync raises, before its next step; the
\* lock is released by the operating system or by the exception.
Abort(p) ==
    /\ pc[p] \in Sections
    /\ FaultLeft /\ aborts < MaxAborts
    /\ aborts' = aborts + 1
    /\ Leave(p)
    /\ UNCHANGED <<storage, nextId, effects, hostLosses>>

\* The process dies in the middle of write(): the log ends in a torn record.
AbortAppend(p) ==
    /\ pc[p] = "append"
    /\ journal.id \notin EventIds(log)
    /\ FaultLeft /\ aborts < MaxAborts
    /\ aborts' = aborts + 1
    /\ log' = TornAppend
    /\ logDisk' = logDisk \cup {TornAppend}
    /\ Leave(p)
    /\ UNCHANGED <<file, fileDisk, journal, journalDisk, nextId, effects, hostLosses>>

\* The operator inspects a torn log and removes the incomplete record.
RepairLog ==
    /\ log.torn
    /\ lock = None
    /\ log' = [log EXCEPT !.torn = FALSE]
    /\ logDisk' = {log'}
    /\ UNCHANGED <<file, fileDisk, journal, journalDisk, lock, pc, req, nextId, effects, counters>>

\* The host fails: every process is gone and each file holds one of the values
\* its last completed fsync allows.
HostLoss ==
    /\ FaultLeft /\ hostLosses < MaxHostLosses
    /\ hostLosses' = hostLosses + 1
    /\ file' \in {f \in [Tasks -> UNION {fileDisk[t] : t \in Tasks}] :
                     \A t \in Tasks : f[t] \in fileDisk[t]}
    /\ journal' \in journalDisk
    /\ log' \in logDisk
    /\ fileDisk' = [t \in Tasks |-> {file'[t]}]
    /\ journalDisk' = {journal'}
    /\ logDisk' = {log'}
    /\ pc' = [p \in Procs |-> "idle"]
    /\ req' = [p \in Procs |-> None]
    /\ lock' = None
    /\ UNCHANGED <<nextId, effects, aborts>>

-----------------------------------------------------------------------------

Redo(p) ==
    \/ RecoverNothing(p) \/ RecoverRefuse(p) \/ InstallAfter(p) \/ SyncFile(p)
    \/ AppendEvent(p) \/ EventPresent(p) \/ SyncLog(p)
    \/ UnlinkJournal(p) \/ SyncUnlink(p)

Locked(p) ==
    Redo(p) \/ Reject(p) \/ WriteJournal(p) \/ SyncJournal(p) \/ Dispatch(p)

Ask(p) ==
    \/ AskRecover(p)
    \/ \E t \in Tasks, s \in TaskState, d \in BOOLEAN : AskCommit(p, t, s, d)

Next ==
    \/ \E p \in Procs :
          Ask(p) \/ Acquire(p) \/ Refused(p) \/ Locked(p) \/ Abort(p) \/ AbortAppend(p)
    \/ RepairLog
    \/ HostLoss

Spec == Init /\ [][Next]_vars

\* A process that holds the lock and is not killed runs to the end of commit();
\* a free lock is taken by a process that keeps polling for it; a reconciler
\* starts every pass with recover().
Fairness ==
    /\ \A p \in Procs : WF_vars(Locked(p)) /\ WF_vars(Acquire(p))
    /\ \A p \in Reconcilers : WF_vars(AskRecover(p))

FairSpec == Spec /\ Fairness

-----------------------------------------------------------------------------
(* Safety.                                                                  *)

InJournal(j, t, r) == j # None /\ j.task = t /\ j.after.rev = r
InLog(l, t, r) == \E i \in DOMAIN l.recs : l.recs[i].task = t /\ l.recs[i].rev = r

\* Every revision a task has is in the audit log, or in the journal.
EveryRevisionAudited ==
    \A t \in Tasks : \A r \in 1..file[t].rev :
        InLog(log, t, r) \/ InJournal(journal, t, r)

\* Processes fail, or the host does, but not both.
FaultsOfOneKind == aborts = 0 \/ hostLosses = 0

\* INV-8, as far as processes fail or the host does: every revision a task ever
\* had is in the audit log, or in the journal that will put it there
\* (store.py:78-100).
AuditComplete ==
    FaultsOfOneKind => EveryRevisionAudited

\* INV-8: redoing a journal never appends an event a second time, a lost
\* update never reuses a revision, and the log is ahead of no record: the
\* events of a task carry its revisions in increasing order.
AuditExact ==
    FaultsOfOneKind =>
        /\ \A i, k \in DOMAIN log.recs :
              (i < k /\ log.recs[i].task = log.recs[k].task)
                  => log.recs[i].rev < log.recs[k].rev
        /\ \A i \in DOMAIN log.recs : log.recs[i].rev <= file[log.recs[i].task].rev

\* The fail-closed conflict of _recover_locked (store.py:86) is never met.
NoJournalConflict ==
    (FaultsOfOneKind /\ journal # None) =>
        ~Conflicting(journal, file[journal.task])

\* INV-12: two tasks that reserve their workspaces never share one, whatever
\* fails; the reservation made by a journal that recovery will apply counts
\* (store.py:146-150).
Holds(t) ==
    \/ file[t].state \in ReservedStates
    \/ /\ journal # None
       /\ journal.task = t
       /\ ~Conflicting(journal, file[t])
       /\ journal.after.state \in ReservedStates
WorkspacesExclusive ==
    \A t, u \in Tasks :
        (t # u /\ Holds(t) /\ Holds(u) /\ WorkspaceOf[t] # NoWorkspace)
            => WorkspaceOf[t] # WorkspaceOf[u]

\* The order of the writes and syncs makes every commit survive a host failure
\* at any instant: whatever combination of images the failure leaves, each
\* revision is in the log or in a journal that recovery can still apply.  (Not
\* so after a process died between the rename and the sync of its journal: the
\* next holder of the lock redoes it without syncing its directory again.)
SurvivesHostLoss ==
    aborts = 0 =>
        \A t \in Tasks : \A f \in fileDisk[t], j \in journalDisk, l \in logDisk :
            /\ \A r \in 1..f.rev : InLog(l, t, r) \/ InJournal(j, t, r)
            /\ (j # None /\ j.task = t) => ~Conflicting(j, f)

\* INV-9: the callback runs when the commit it belongs to is durable: no host
\* failure can take back the record or its audit event.
Durable(e) ==
    /\ \A f \in fileDisk[e.task] : f.rev >= e.rev
    /\ \A l \in logDisk : InLog(l, e.task, e.rev)
DispatchIsDurable == \A i \in DOMAIN effects : Durable(effects[i])

\* INV-2: a commit whose process died is finished by whoever holds the lock
\* next, unless an operator has to repair a torn log first.
JournalFinished == (journal # None) ~> (journal = None \/ log.torn)

-----------------------------------------------------------------------------
(* Refinement.  A commit happens at the instant its journal is visible: from *)
(* then on the after-image and the event count as written.                   *)

Committed ==
    IF journal = None THEN file ELSE [file EXCEPT ![journal.task] = journal.after]

\* An audit event without its id, which only recovery looks at.
Entry(e) == [task |-> e.task, rev |-> e.rev]
LoggedEntries == [i \in 1..Len(log.recs) |-> Entry(log.recs[i])]
CommittedAudit ==
    IF journal = None \/ journal.id \in EventIds(log)
    THEN LoggedEntries
    ELSE Append(LoggedEntries, Entry(EventOf(journal)))

\* Until the directory of its journal is synced a host failure takes a commit back.
Unsynced == journal # None /\ None \in journalDisk
Undo == IF Unsynced THEN [task |-> journal.task, record |-> journal.before] ELSE None

Abstract == INSTANCE AtomicStore WITH
    tasks <- Committed, audit <- CommittedAudit, acted <- effects, undo <- Undo

\* The journaled store implements the atomic store (store.py:109-160), with
\* processes killed anywhere or one failure of the host: a commit happens once
\* or not at all, and is acted upon at most once.
ImplementsAtomicStore == Abstract!Spec
=============================================================================
