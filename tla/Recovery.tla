------------------------------ MODULE Recovery ------------------------------
(***************************************************************************)
(* Offline recovery (agent_farm_runtime/recovery.py) against the writers it *)
(* fences (store.py, turnover.py, the startup of cmd_reconcile).            *)
(*                                                                          *)
(* An operator reviews a plan without a lock; apply takes the reconcile and *)
(* the mutation lock, makes sure that nothing has changed since, writes     *)
(* runtime/pending-recovery.json (the marker) and goes on write by write:   *)
(* archive, pending farm event, each owner retired through the task journal,*)
(* manifest, farm event, marker.  It may die between any two of them, or in *)
(* the middle of an append; the same operator then repeats the command.     *)
(* Every other command holds the mutation lock from its first read to its   *)
(* last write: it is one step, and one that dies leaves a prefix of its     *)
(* writes.  What a failure of the host adds is the subject of TaskStore.    *)
(***************************************************************************)
EXTENDS Integers, Sequences, FiniteSets, SequencesExt, BagsExt

CONSTANTS
    TaskOrder,              \* task ids, in the order of their file names
    Hosts, FirstHost,
    Operators, HostOf,      \* an actor with its evidence, and where it works
    None,                   \* no owner, hold, journal, marker, plan, daemon
    MaxWrites,              \* bound: commits of tasks by ordinary writers
    MaxStops,               \* bound: stop controls
    MaxRecoveries,          \* bound: recoveries begun
    MaxCrashes,             \* bound: commands that die
    MaxReboots              \* bound: hosts that boot again

TaskIds == ToSet(TaskOrder)

ASSUME RecoveryAssumption ==
    /\ TaskOrder \in Seq(TaskIds)
    /\ FirstHost \in Hosts /\ HostOf \in [Operators -> Hosts]
    /\ {MaxWrites, MaxStops, MaxRecoveries, MaxCrashes, MaxReboots} \subseteq Nat

VARIABLES
    tasks,          \* tasks/<id>.json
    journal,        \* runtime/pending-task-commit.json
    log,            \* events/log.ndjson: the bag of its records, and a torn tail
    manifest,       \* runtime/deployment.json
    marker,         \* runtime/pending-recovery.json
    archive,        \* the ids of runtime/recoveries/<id>.json
    daemon,         \* the holder of reconcile.lock that runs the loop
    applying,       \* the operator that holds both locks, and where it is
    reviewed,       \* the operators whose last preview is still the plan
    boot,           \* how often each host has booted
    budget          \* what the bounds leave

vars == <<tasks, journal, log, manifest, marker, archive, daemon, applying, reviewed,
          boot, budget>>

-----------------------------------------------------------------------------
(* Records. *)

Epochs == 0 .. MaxRecoveries
Plane == [host : Hosts, epoch : Epochs]
TaskEvent(kind, t, rev) == [kind |-> kind, of |-> t, n |-> rev]
FarmEvent(kind, n) == [kind |-> kind, of |-> "*", n |-> n]
Event == [kind : {"TASK", "RECOVERY_HELD"}, of : TaskIds, n : Nat]
         \cup [kind : {"FARM_STOP_DRAIN", "FARM_STOP_CLEARED", "FARM_RECOVERED"}, of : {"*"}, n : Nat]

\* lease: the host and the epoch of the daemon that issued the worker.
TaskType == [state : {"READY", "RUNNING", "WAITING", "SUBMITTED", "BLOCKED"}, rev : Nat,
             lease : Plane \cup {None}, hold : Epochs \cup {None}]
NewTask == [state |-> "READY", rev |-> 1, lease |-> None, hold |-> None]

Journal == [of : TaskIds, before : TaskType, after : TaskType, event : Event]
Manifest == [host : Hosts, epoch : Epochs, stop : Nat, pending : Event \cup {None}]
Site == [host : Hosts, boot : Nat]
Plan == [tasks : [TaskIds -> TaskType], before : Manifest, target : Site]
Txn == [id : Epochs, by : Operators, plan : Plan]

ASSUME NoneAssumption == None \notin Plane \cup Journal \cup Txn \cup Event

Places == {"archive", "oldEvent", "redo", "redoLog", "redoUnlink", "hold", "manifest",
           "event", "clear"}

IsLog(l) ==
    /\ l = [recs |-> l.recs, torn |-> l.torn]
    /\ IsABag(l.recs) /\ BagToSet(l.recs) \subseteq Event /\ l.torn \in BOOLEAN
Budget == [writes : Nat, stops : Nat, recoveries : Nat, crashes : Nat, reboots : Nat]

TypeOK ==
    /\ tasks \in [TaskIds -> TaskType]
    /\ journal = None \/ journal \in Journal
    /\ IsLog(log)
    /\ manifest \in Manifest
    /\ marker = None \/ marker \in Txn
    /\ archive \subseteq Epochs
    /\ daemon = None \/ (daemon \in Plane /\ marker = None)
    /\ applying = None \/ applying \in [by : Operators, at : Places]
    /\ reviewed \subseteq Operators
    /\ boot \in [Hosts -> Nat]
    /\ budget \in Budget

\* A farm whose daemon has started once and is down.
Init ==
    /\ tasks = [t \in TaskIds |-> NewTask]
    /\ journal = None
    /\ log = [recs |-> EmptyBag, torn |-> FALSE]
    /\ manifest = [host |-> FirstHost, epoch |-> 0, stop |-> 0, pending |-> None]
    /\ marker = None
    /\ archive = {}
    /\ daemon = None
    /\ applying = None
    /\ reviewed = {}
    /\ boot = [h \in Hosts |-> 0]
    /\ budget = [writes |-> MaxWrites, stops |-> MaxStops, recoveries |-> MaxRecoveries,
                 crashes |-> MaxCrashes, reboots |-> MaxReboots]

Spend(kind) == budget[kind] > 0 /\ budget' = [budget EXCEPT ![kind] = @ - 1]
Offline == <<marker, archive, applying, boot>>

\* A plan is every task, the manifest and the target.  Revisions, and the times in the
\* manifest, never come back: once one of them has changed, a reviewed plan is stale.
Changed == reviewed' = {}

-----------------------------------------------------------------------------
(* The audit log and the task journal (events.py, store.py). *)

With(l, e) == IF BagIn(e, l.recs) THEN l ELSE [l EXCEPT !.recs = BagAdd(@, e)]
Logged(e) == With(log, e)
Torn == [log EXCEPT !.torn = TRUE]

\* What an append of e can leave behind when its process dies in it.
HalfLogged(e) == {log, Logged(e)} \cup IF BagIn(e, log.recs) THEN {} ELSE {Torn}

Installed(j) == [tasks EXCEPT ![j.of] = j.after]

\* _recover_locked over the journal j, which is on disk or just being written: to
\* the end, or up to a point where the process dies.
Redo(j) ==
    \/ /\ tasks' = Installed(j) /\ log' = Logged(j.event) /\ journal' = None
       /\ UNCHANGED budget
    \/ /\ Spend("crashes") /\ journal' = j
       /\ \/ tasks' \in {tasks, Installed(j)} /\ UNCHANGED log
          \/ tasks' = Installed(j) /\ log' \in HalfLogged(j.event)

-----------------------------------------------------------------------------
(* Ordinary commands: a Master's or the daemon's on host h. *)

\* Mutant: the marker does not fence.
MayWrite_Unfenced(h, dispatch) ==
    /\ applying = None
    /\ manifest.pending = None
    /\ manifest.host = h
    /\ ~(dispatch /\ manifest.stop # 0)

\* The mutation lock, require_compatible_writer under the pinned-host policy and
\* require_task_writer.
MayWrite(h, dispatch) ==
    /\ applying = None
    /\ marker = None
    /\ manifest.pending = None
    /\ manifest.host = h
    /\ ~(dispatch /\ manifest.stop # 0)

\* A command that finds a journal finishes it; what it was to do itself is
\* refused or repeated.
RedoJournal(h) ==
    /\ MayWrite(h, FALSE) /\ journal # None /\ ~log.torn
    /\ Redo(journal) /\ Changed
    /\ UNCHANGED <<manifest, Offline, daemon>>

\* commit(): a journal, and its redo.
Commit(t, new) ==
    /\ journal = None /\ ~log.torn
    /\ budget.writes > 0
    /\ LET after == [new EXCEPT !.rev = tasks[t].rev + 1]
           j == [of |-> t, before |-> tasks[t], after |-> after,
                 event |-> TaskEvent("TASK", t, after.rev)]
       IN  \/ /\ tasks' = Installed(j) /\ log' = Logged(j.event) /\ journal' = None
              /\ budget' = [budget EXCEPT !.writes = @ - 1]
           \/ /\ budget.crashes > 0 /\ journal' = j
              /\ budget' = [budget EXCEPT !.writes = @ - 1, !.crashes = @ - 1]
              /\ \/ tasks' \in {tasks, Installed(j)} /\ UNCHANGED log
                 \/ tasks' = Installed(j) /\ log' \in HalfLogged(j.event)
    /\ Changed
    /\ UNCHANGED <<manifest, Offline, daemon>>

\* The daemon gives a task an owner of its own epoch ...
Dispatch(t) ==
    /\ daemon # None /\ MayWrite(daemon.host, TRUE) /\ manifest.epoch = daemon.epoch
    /\ tasks[t].state = "READY" /\ tasks[t].lease = None
    /\ Commit(t, [tasks[t] EXCEPT !.state = "RUNNING", !.lease = daemon])

\* ... and applies what the worker reports: it waits and keeps the lease, or it
\* is done and loses it, or it has surrendered.
Report(t) ==
    LET r == tasks[t] IN
    /\ daemon # None /\ MayWrite(daemon.host, FALSE) /\ manifest.epoch = daemon.epoch
    /\ \/ r.state = "RUNNING" /\ Commit(t, [r EXCEPT !.state = "WAITING"])
       \/ r.state = "RUNNING" /\ Commit(t, [r EXCEPT !.state = "SUBMITTED", !.lease = None])
       \/ r.state = "WAITING" /\ r.lease # None /\ Commit(t, [r EXCEPT !.lease = None])

\* record_decision: a ruling lets a task go that recovery holds; other decisions
\* leave the state and the hold alone.
Decide(h, t) ==
    LET r == tasks[t] IN
    /\ MayWrite(h, FALSE)
    /\ \/ r.state = "BLOCKED" /\ r.hold # None /\ r.lease = None
          /\ Commit(t, [r EXCEPT !.state = "READY", !.hold = None])
       \/ r.state # "RUNNING" /\ Commit(t, r)

\* finish_deployment_event: the event that the manifest carries is published.
Finished == [manifest EXCEPT !.pending = None]
FinishedLog == IF manifest.pending = None THEN log ELSE Logged(manifest.pending)

\* stop_drain, after it has finished a pending journal: the manifest with its
\* event, the event, the manifest without.
StopDrain(h) ==
    LET e == FarmEvent("FARM_STOP_DRAIN", MaxStops - budget.stops + 1)
        m == [manifest EXCEPT !.stop = e.n]
    IN  /\ applying = None /\ marker = None /\ ~log.torn
        /\ manifest.host = h /\ manifest.pending = None /\ manifest.stop = 0
        /\ journal = None
        /\ budget.stops > 0
        /\ \/ /\ manifest' = m /\ log' = Logged(e)
              /\ budget' = [budget EXCEPT !.stops = @ - 1]
           \/ /\ budget.crashes > 0
              /\ manifest' = [m EXCEPT !.pending = e] /\ log' \in HalfLogged(e)
              /\ budget' = [budget EXCEPT !.stops = @ - 1, !.crashes = @ - 1]
        /\ Changed
        /\ UNCHANGED <<tasks, journal, Offline, daemon>>

\* Mutant: startup overlooks the marker.
MayStart_Unfenced(h) == daemon = None /\ applying = None /\ ~log.torn /\ manifest.host = h
MayStart(h) ==
    /\ daemon = None /\ applying = None /\ marker = None /\ ~log.torn
    /\ manifest.host = h

\* cmd_reconcile up to its loop, or until it dies: it publishes a pending event
\* and clears a stop before it writes the manifest.
StartDaemon(h) ==
    LET cleared == FarmEvent("FARM_STOP_CLEARED", manifest.stop)
        l == IF manifest.stop = 0 THEN FinishedLog
             ELSE With(FinishedLog, cleared)
    IN  /\ MayStart(h)
        /\ \/ /\ manifest' = [Finished EXCEPT !.stop = 0]
              /\ log' = l
              /\ daemon' = [host |-> h, epoch |-> manifest.epoch]
              /\ UNCHANGED budget
           \/ /\ Spend("crashes") /\ UNCHANGED daemon
              /\ \/ manifest' = manifest /\ log' = FinishedLog
                 \/ manifest' = Finished /\ log' \in {FinishedLog, l}
        /\ Changed
        /\ UNCHANGED <<tasks, journal, Offline>>

\* It is stopped, or dies between two commits.
DaemonEnds ==
    /\ daemon # None
    /\ daemon' = None
    /\ UNCHANGED <<tasks, journal, log, manifest, Offline, reviewed, budget>>

-----------------------------------------------------------------------------
(* Recovery. *)

SiteOf(o) == [host |-> HostOf[o], boot |-> boot[HostOf[o]]]

\* _plan, which a pending task journal forbids.
PlanOf(o) == [tasks |-> tasks, before |-> manifest, target |-> SiteOf(o)]

\* recover without --apply: no lock, no write; of a pending recovery it shows the plan.
Preview(o) ==
    /\ IF marker = None THEN journal = None ELSE marker.by = o
    /\ reviewed' = reviewed \cup {o}
    /\ UNCHANGED <<tasks, journal, log, manifest, marker, archive, daemon, applying, boot, budget>>

\* _prepare: every owner is retired.
Owned(txn) == {t \in TaskIds : txn.plan.tasks[t].lease # None}
HeldTask(txn, t) == [state |-> "BLOCKED", rev |-> txn.plan.tasks[t].rev + 1, lease |-> None,
                     hold |-> txn.id]
TasksAfter(txn) ==
    [t \in TaskIds |-> IF t \in Owned(txn) THEN HeldTask(txn, t) ELSE txn.plan.tasks[t]]
ManifestAfter(txn) ==
    [host |-> txn.plan.target.host, epoch |-> txn.id, stop |-> 0, pending |-> None]
HeldEvent(txn, t) == TaskEvent("RECOVERY_HELD", t, TasksAfter(txn)[t].rev)

\* What _finish insists on before it writes.
Untouched(txn) ==
    /\ \A t \in TaskIds : tasks[t] \in {txn.plan.tasks[t], TasksAfter(txn)[t]}
    /\ manifest \in {txn.plan.before, ManifestAfter(txn)}
    /\ journal # None => /\ journal.of \in Owned(txn)
                         /\ journal.after = TasksAfter(txn)[journal.of]
                         /\ journal.event = HeldEvent(txn, journal.of)
    /\ ~log.torn

\* recover --apply up to the end of the checks of _finish.
Apply(o) ==
    LET fresh == [id |-> manifest.epoch + 1, by |-> o, plan |-> PlanOf(o)]
        txn == IF marker = None THEN fresh ELSE marker
    IN  /\ applying = None /\ daemon = None
        /\ IF marker = None THEN journal = None /\ Spend("recoveries")
                            ELSE marker.by = o /\ UNCHANGED budget
        /\ o \in reviewed /\ txn.plan.target = SiteOf(o)
        /\ marker' = txn /\ reviewed' = {o}
        /\ applying' = IF Untouched(txn) THEN [by |-> o, at |-> "archive"] ELSE None
        /\ UNCHANGED <<tasks, journal, log, manifest, archive, daemon, boot>>

At(place) == applying # None /\ applying.at = place
GoTo(place) == applying' = [applying EXCEPT !.at = place]
Elsewhere == <<daemon, reviewed, boot, budget>>

WriteArchive ==
    /\ At("archive") /\ GoTo("oldEvent")
    /\ archive' = archive \cup {marker.id}
    /\ UNCHANGED <<tasks, journal, log, manifest, marker, Elsewhere>>

\* Mutant: the event of an unfinished control is forgotten.
AppendOldEvent_Dropped ==
    /\ At("oldEvent") /\ GoTo("redo")
    /\ UNCHANGED <<tasks, journal, log, manifest, marker, archive, Elsewhere>>
AppendOldEvent ==
    LET e == marker.plan.before.pending IN
    /\ At("oldEvent") /\ GoTo("redo")
    /\ log' = IF e = None THEN log ELSE Logged(e)
    /\ UNCHANGED <<tasks, journal, manifest, marker, archive, Elsewhere>>

\* _recover_locked, write by write, of the journal of a retired task.
InstallTask ==
    /\ At("redo") /\ journal # None /\ GoTo("redoLog")
    /\ tasks' = Installed(journal)
    /\ UNCHANGED <<journal, log, manifest, marker, archive, Elsewhere>>
AppendHeld ==
    /\ At("redoLog") /\ GoTo("redoUnlink")
    /\ log' = Logged(journal.event)
    /\ UNCHANGED <<tasks, journal, manifest, marker, archive, Elsewhere>>
UnlinkJournal ==
    /\ At("redoUnlink") /\ GoTo("redo")
    /\ journal' = None
    /\ UNCHANGED <<tasks, log, manifest, marker, archive, Elsewhere>>
NoJournal ==
    /\ At("redo") /\ journal = None /\ GoTo("hold")
    /\ UNCHANGED <<tasks, journal, log, manifest, marker, archive, Elsewhere>>

\* _commit_locked writes the journal of the next task that still has its owner.
Retired(t) == tasks[t] = TasksAfter(marker)[t]
HoldNext ==
    /\ At("hold") /\ GoTo("redo")
    /\ \E n \in DOMAIN TaskOrder :
          LET t == TaskOrder[n] IN
          /\ ~Retired(t) /\ \A m \in 1 .. n - 1 : Retired(TaskOrder[m])
          /\ journal' = [of |-> t, before |-> tasks[t], after |-> TasksAfter(marker)[t],
                         event |-> HeldEvent(marker, t)]
    /\ UNCHANGED <<tasks, log, manifest, marker, archive, Elsewhere>>
AllHeld ==
    /\ At("hold") /\ (\A t \in TaskIds : Retired(t)) /\ GoTo("manifest")
    /\ UNCHANGED <<tasks, journal, log, manifest, marker, archive, Elsewhere>>

\* Mutant: the manifest is written before the owners are retired.
InstallManifest_First ==
    /\ (At("manifest") \/ At("oldEvent"))
    /\ manifest' = ManifestAfter(marker)
    /\ IF At("manifest") THEN GoTo("event") ELSE manifest # manifest' /\ UNCHANGED applying
    /\ UNCHANGED <<tasks, journal, log, marker, archive, Elsewhere>>
InstallManifest ==
    /\ At("manifest") /\ GoTo("event")
    /\ manifest' = ManifestAfter(marker)
    /\ UNCHANGED <<tasks, journal, log, marker, archive, Elsewhere>>

AppendRecovered ==
    /\ At("event") /\ GoTo("clear")
    /\ log' = Logged(FarmEvent("FARM_RECOVERED", marker.id))
    /\ UNCHANGED <<tasks, journal, manifest, marker, archive, Elsewhere>>

ClearMarker ==
    /\ At("clear")
    /\ marker' = None /\ applying' = None /\ Changed
    /\ UNCHANGED <<tasks, journal, log, manifest, archive, daemon, boot, budget>>

FinishStep ==
    \/ WriteArchive \/ AppendOldEvent
    \/ InstallTask \/ AppendHeld \/ UnlinkJournal \/ NoJournal
    \/ HoldNext \/ AllHeld \/ InstallManifest \/ AppendRecovered \/ ClearMarker

\* The operator's process dies before its next write, or in an append.
ApplyDies ==
    /\ applying # None /\ Spend("crashes")
    /\ applying' = None
    /\ \/ UNCHANGED log
       \/ applying.at \in {"oldEvent", "redoLog", "event"} /\ log' = Torn
    /\ UNCHANGED <<tasks, journal, manifest, marker, archive, daemon, reviewed, boot>>

-----------------------------------------------------------------------------

\* The operator inspects a torn log and removes the incomplete record.
RepairLog ==
    /\ log.torn /\ applying = None
    /\ log' = [log EXCEPT !.torn = FALSE]
    /\ UNCHANGED <<tasks, journal, manifest, Offline, reviewed, daemon, budget>>

\* The host of a pending recovery boots again.  (Any other boot is the end of the
\* daemon, and of reviews that have to be repeated.)
Reboot(h) ==
    /\ marker # None /\ HostOf[marker.by] = h
    /\ Spend("reboots")
    /\ boot' = [boot EXCEPT ![h] = @ + 1]
    /\ applying' = None
    /\ reviewed' = {o \in reviewed : HostOf[o] # h}
    /\ UNCHANGED <<tasks, journal, log, manifest, marker, archive, daemon>>

Next ==
    \/ \E h \in Hosts : RedoJournal(h) \/ StopDrain(h) \/ StartDaemon(h) \/ Reboot(h)
    \/ \E t \in TaskIds : Dispatch(t) \/ Report(t) \/ \E h \in Hosts : Decide(h, t)
    \/ DaemonEnds
    \/ \E o \in Operators : Preview(o) \/ Apply(o)
    \/ FinishStep \/ ApplyDies \/ RepairLog

Spec == Init /\ [][Next]_vars

\* The operator of a pending recovery reads its plan again and repeats the
\* command until it is through.
Fairness ==
    /\ \A o \in Operators :
          /\ WF_vars(marker # None /\ o \notin reviewed /\ Preview(o))
          /\ WF_vars(marker # None /\ Apply(o))
    /\ WF_vars(FinishStep)
FairSpec == Spec /\ Fairness

-----------------------------------------------------------------------------
(* Properties. *)

\* No owner outlives its epoch or its host: at every instant, in the middle of a
\* recovery too, a task that has an owner got it on the deployment host in the
\* deployment's epoch, so whoever reads the manifest polls the right workers; and
\* no owner is retired before the evidence for it is archived (recovery.py
\* _finish: archive, owners, manifest).
RecoveryInOrder ==
    \A t \in TaskIds :
        /\ tasks[t].lease # None =>
               tasks[t].lease = [host |-> manifest.host, epoch |-> manifest.epoch]
        /\ tasks[t].hold # None => tasks[t].hold \in archive

\* An interrupted recovery is finished by the operator who began it, unless the
\* audit log needs a repair first or its host has booted again, which the code
\* refuses on purpose (docs/OPERATIONS.md: "An interrupted recovery whose target
\* host has also been lost needs separate reviewed operator handling").
RecoveryCompletes ==
    marker # None ~>
        marker = None \/ log.torn \/ marker.plan.target # SiteOf(marker.by)

-----------------------------------------------------------------------------
(* Refinement.  A recovery happens when its marker is written, a commit when *)
(* its journal is, a control when its manifest is; the events they promise   *)
(* count as written.                                                         *)

TasksNow ==
    IF marker # None THEN TasksAfter(marker)
    ELSE IF journal # None THEN Installed(journal) ELSE tasks
PlaneNow ==
    LET m == IF marker # None THEN ManifestAfter(marker) ELSE manifest
    IN  [host |-> m.host, epoch |-> m.epoch]
Promised ==
    {manifest.pending} \cup
    (IF journal = None THEN {} ELSE {journal.event}) \cup
    (IF marker = None THEN {}
     ELSE {marker.plan.before.pending, FarmEvent("FARM_RECOVERED", marker.id)}
          \cup {HeldEvent(marker, t) : t \in Owned(marker)})
AuditNow ==
    LET told == {e \in BagToSet(log.recs) : e.kind # "FARM_STOP_CLEARED"}
    IN  [e \in told |-> log.recs[e]] (+) SetToBag(Promised \ (BagToSet(log.recs) \cup {None}))

Abstract == INSTANCE OneStepRecovery WITH
    Controls <- 1 .. MaxStops, tasks <- TasksNow, plane <- PlaneNow, audit <- AuditNow

\* However often a recovery is interrupted and repeated, it happens once and as a
\* whole, between two commits, on the tasks as they were reviewed; every event
\* that was due before it is in the audit once, and a task it holds is let go by
\* a ruling only (recovery.py:101-158, store.py:78-160, master.py:59-67).
ImplementsOneStepRecovery == Abstract!Spec
=============================================================================
