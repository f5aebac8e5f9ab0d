----------------------------- MODULE Reconciler -----------------------------
(***************************************************************************)
(* One task under the reconciler daemon of agent_farm_runtime               *)
(* (reconciler.py), with everybody else who acts on it: the workers the     *)
(* daemon launches and their receipts (adapters/codex.py), the Masters who  *)
(* record decisions at a revision they read (master.py), stop/drain         *)
(* (lifecycle.py, turnover.py), and the failures of all of them.            *)
(*                                                                          *)
(* A commit is one step here: TaskStore shows that the journaled store      *)
(* implements that.  The dispatch of a commit runs under the mutation lock  *)
(* and is broken into its external effects, so the daemon can be killed     *)
(* after the new owner is on record and before, or while, a worker starts.  *)
(* Tasks meet only in the store, so the module follows a single one.        *)
(***************************************************************************)
EXTENDS Lifecycle, Integers, Sequences

CONSTANTS
    Masters,            \* sessions that read the task and record decisions
    MaxRestarts,        \* max_auto_restarts
    MaxDecisions,       \* bound: decisions of the Masters
    MaxYields,          \* bound: AWAITING receipts
    MaxDeaths,          \* bound: workers that end without a receipt
    MaxStops,           \* bound: farm stop --drain
    MaxNotes,           \* bound: MASTER_*.md notes
    MaxFaults,          \* bound: executor operations that fail
    MaxCrashes,         \* bound: deaths of the daemon, and reboots
    MaxMishaps          \* bound: deaths, faults and crashes together

ASSUME ReconcilerAssumption ==
    /\ MaxRestarts \in Nat /\ MaxDecisions \in Nat /\ MaxYields \in Nat
    /\ MaxDeaths \in Nat /\ MaxStops \in Nat /\ MaxNotes \in Nat
    /\ MaxFaults \in Nat /\ MaxCrashes \in Nat /\ MaxMishaps \in Nat

VARIABLES
    task,       \* the task record
    control,    \* deployment.json: the stop control
    workers,    \* what is on disk and running for each lease, oldest first
    pc,         \* where the daemon is in its pass
    snap,       \* the record the pass works on
    obs,        \* the receipt the pass has read
    plan,       \* why the pass is about to dispatch
    view,       \* the revision and the contract each Master has read
    fired,      \* the event the task waits for has happened
    notes,      \* version of the Master notes in the workspace
    budget,     \* what the bounds leave of each kind of event
    past        \* history, for the properties

daemon == <<pc, snap, obs, plan>>
world == <<fired, notes>>
vars == <<task, control, workers, daemon, view, world, budget, past>>

-----------------------------------------------------------------------------
(* Records.  A worker and its lease are minted together and stay together,  *)
(* so both are the position of the worker in `workers`; lease 0 is no lease. *)

Waits == {"none", "event", "ruling", "rotation"}

\* A receipt file; attempt tells the receipts of one worker apart.
ReceiptType == [status : {"NONE", "AWAITING", "SUBMITTED", "FAILED"}, wait : Waits,
                rotation : Nat, checkpoint : BOOLEAN, attempt : Nat]
NoReceipt == [status |-> "NONE", wait |-> "none", rotation |-> 0, checkpoint |-> FALSE,
              attempt |-> 0]

\* An executor's view of one worker: its process, its receipt file, and the
\* receipt that the current attempt fences off.
WorkerType == [proc : {"none", "prepared", "queued", "running", "dead"},
               receipt : ReceiptType, previous : ReceiptType, attempt : Nat]
NoWorker == [proc |-> "none", receipt |-> NoReceipt, previous |-> NoReceipt, attempt |-> 0]

\* A copy of a nonempty checkpoint file (master.snapshot_file): the worker's, with its
\* lease and the rotation it yields to, or one that a Master attached.  The attempt is
\* the one whose work the text tells of.
CheckpointType == [by : {"none", "worker", "master"}, lease : Nat, attempt : Nat,
                   rotation : Nat]
NoCheckpoint == [by |-> "none", lease |-> 0, attempt |-> 0, rotation |-> 0]
Attached == [NoCheckpoint EXCEPT !.by = "master"]

RotationType == [id : Nat, lease : Nat, from : {"NONE", "RUNNING", "WAITING"},
                 checkpoint : CheckpointType]
NoRotation == [id |-> 0, lease |-> 0, from |-> "NONE", checkpoint |-> NoCheckpoint]

SurrenderType == [id : Nat, lease : Nat, checkpoint : CheckpointType, wait : Waits]
NoSurrender == [id |-> 0, lease |-> 0, checkpoint |-> NoCheckpoint, wait |-> "none"]

Task == [rev : Nat, state : TaskState, lease : Nat,
         restarts : Nat, limit : BOOLEAN,       \* automatic_restarts, restart_limit_reached
         error : BOOLEAN,                       \* runtime_error
         ruling : BOOLEAN, rework : BOOLEAN,    \* resume_requested, rework_requested
         wait : Waits,                          \* waiting_on
         checkpoint : CheckpointType,           \* worker_checkpoint
         rotation : RotationType,               \* rotation_request
         surrender : SurrenderType,             \* clean_surrender
         seen : Nat,                            \* master_notes_digest
         contract : Nat, accepted : Nat]        \* contract_revisions, acceptance_receipt

NewTask == [rev |-> 1, state |-> "READY", lease |-> 0, restarts |-> 0, limit |-> FALSE,
            error |-> FALSE, ruling |-> FALSE, rework |-> FALSE, wait |-> "none",
            checkpoint |-> NoCheckpoint, rotation |-> NoRotation, surrender |-> NoSurrender,
            seen |-> 0, contract |-> 1, accepted |-> 0]

View == [rev : Nat, contract : Nat]
NoView == [rev |-> 0, contract |-> 0]

Control == [draining : BOOLEAN, id : Nat]

Places == {"down", "check", "sleep", "task", "route", "alive", "commit", "fence",
           "launch", "wake", "send", "stop", "error", "errorCommit"}
Plans == {"none", "start", "adopt", "resume"}

Budget == [decisions : Nat, yields : Nat, deaths : Nat, stops : Nat, faults : Nat,
           crashes : Nat]

\* adoptions made; releases of the budget by a Master; whether the last ruling
\* a resume consumed has reached an invocation; the contract the Master who
\* accepted had read.
Past == [adoptions : Nat, releases : Nat, served : BOOLEAN, approved : Nat]

TypeOK ==
    /\ task \in Task
    /\ control \in Control
    /\ workers \in Seq(WorkerType)
    /\ pc \in Places
    /\ snap \in Task
    /\ obs \in ReceiptType
    /\ plan \in Plans
    /\ view \in [Masters -> View]
    /\ fired \in BOOLEAN /\ notes \in Nat
    /\ budget \in Budget
    /\ past \in Past

Init ==
    /\ task = NewTask
    /\ control = [draining |-> FALSE, id |-> 0]
    /\ workers = <<>>
    /\ pc = "down"
    /\ snap = NewTask
    /\ obs = NoReceipt
    /\ plan = "none"
    /\ view = [m \in Masters |-> NoView]
    /\ fired = FALSE
    /\ notes = 0
    /\ budget = [decisions |-> MaxDecisions, yields |-> MaxYields, deaths |-> MaxDeaths,
                 stops |-> MaxStops, faults |-> MaxFaults, crashes |-> MaxCrashes]
    /\ past = [adoptions |-> 0, releases |-> 0, served |-> TRUE, approved |-> 0]

Mishaps(left) == (MaxDeaths - left.deaths) + (MaxFaults - left.faults) + (MaxCrashes - left.crashes)

Spend(kind) ==
    /\ budget[kind] > 0
    /\ budget' = [budget EXCEPT ![kind] = @ - 1]
    /\ Mishaps(budget') <= MaxMishaps

-----------------------------------------------------------------------------
(* What the code asks of a task, and the records it writes.                 *)

\* turnover.clean_surrender
CleanSurrender(t) ==
    /\ t.state = "WAITING" /\ t.lease = 0
    /\ t.surrender.id # 0 /\ t.surrender.lease # 0
    /\ t.surrender.checkpoint # NoCheckpoint
    /\ t.surrender.wait = t.wait

\* Mutant: a recorded ruling is not looked at.
Unblock_NoRuling(t) ==
    \/ t.wait = "event" /\ fired
    \/ ~CleanSurrender(t) /\ notes # t.seen

\* observers.make_unblock: a ruling, the event, or a note the task has not seen.
Unblock(t) ==
    \/ t.ruling
    \/ t.wait = "event" /\ fired
    \/ ~CleanSurrender(t) /\ notes # t.seen

\* The receipt poll() surfaces: not the one the current attempt fences off.
Applicable(g) ==
    /\ workers[g].receipt # NoReceipt
    /\ workers[g].receipt # workers[g].previous

\* TaskStore.commit while the record is the one the pass read; every commit
\* advances the revision, so equal revisions are equal records.
Current == task.rev = snap.rev
Commit(new) == task' = [new EXCEPT !.rev = task.rev + 1]

\* _start: the record of the new owner.
Started(t, adopting) ==
    LET released == t.rework \/ (CleanSurrender(t) /\ t.limit /\ t.ruling)
    IN  [t EXCEPT
           !.state = "RUNNING",
           !.lease = Len(workers) + 1,
           !.error = FALSE,
           !.checkpoint = NoCheckpoint,
           !.rotation = IF CleanSurrender(t) THEN NoRotation ELSE @,
           !.ruling = IF CleanSurrender(t) THEN FALSE ELSE @,
           !.limit = IF CleanSurrender(t) /\ t.ruling THEN FALSE ELSE @,
           !.restarts = IF released THEN 0 ELSE IF adopting THEN @ + 1 ELSE @,
           !.rework = FALSE,
           !.seen = notes]

\* Mutant: every resume resets the restart budget.
Resumed_ResetsBudget(t) ==
    [t EXCEPT !.state = "RUNNING", !.ruling = FALSE, !.error = FALSE,
              !.checkpoint = NoCheckpoint, !.limit = FALSE, !.restarts = 0, !.seen = notes]

\* Mutant: the checkpoint of the attempt before is still there when this one runs.
Resumed_KeepsCheckpoint(t) ==
    [t EXCEPT !.state = "RUNNING", !.ruling = FALSE, !.error = FALSE, !.limit = FALSE,
              !.restarts = IF t.limit THEN 0 ELSE @, !.seen = notes]

\* _resume: the same owner runs again.
Resumed(t) ==
    [t EXCEPT !.state = "RUNNING", !.ruling = FALSE, !.error = FALSE,
              !.checkpoint = NoCheckpoint, !.limit = FALSE,
              !.restarts = IF t.limit THEN 0 ELSE @, !.seen = notes]

\* _start at the restart limit: wait for a ruling, keep the lease.
Paused(t) == [t EXCEPT !.state = "WAITING", !.wait = "ruling", !.limit = TRUE]

\* Mutant: the status of the receipt is written as the state of the task.
Yielded_StatusAsState(t, r) ==
    [t EXCEPT !.state = r.status, !.error = FALSE, !.wait = r.wait]

\* _apply_receipt.
Yielded(t, r) ==
    [t EXCEPT !.state = "WAITING", !.error = FALSE, !.wait = r.wait,
              !.checkpoint = IF r.checkpoint
                             THEN [by |-> "worker", lease |-> t.lease,
                                   attempt |-> r.attempt, rotation |-> r.rotation]
                             ELSE NoCheckpoint]
Finished(t, r) ==
    [t EXCEPT !.state = r.status, !.error = FALSE, !.rotation = NoRotation, !.lease = 0]

\* turnover.request_rotation: a new request, or a checkpoint for a recorded one.
Rotating(t, id, attach) ==
    LET recorded == IF t.rotation # NoRotation THEN t.rotation
                    ELSE [NoRotation EXCEPT !.id = id, !.lease = t.lease, !.from = t.state]
    IN  [t EXCEPT !.rotation = IF attach THEN [recorded EXCEPT !.checkpoint = Attached]
                               ELSE recorded]

\* _surrender: the checkpoint that lets the owner go: the Master's, or its own if it
\* waited when it was asked or wrote it for this request.
OwnCheckpoint(t) ==
    /\ t.checkpoint.lease = t.lease
    /\ t.rotation.from = "WAITING" \/ t.checkpoint.rotation = t.rotation.id
ChosenCheckpoint(t) ==
    IF t.rotation.checkpoint # NoCheckpoint THEN t.rotation.checkpoint
    ELSE IF OwnCheckpoint(t) THEN t.checkpoint ELSE NoCheckpoint
Checkpointed(t) == ChosenCheckpoint(t) # NoCheckpoint
Surrendered(t) ==
    [t EXCEPT !.lease = 0,
              !.surrender = [id |-> t.rotation.id, lease |-> t.lease,
                             checkpoint |-> ChosenCheckpoint(t), wait |-> t.wait],
              !.rotation = NoRotation, !.error = FALSE]

-----------------------------------------------------------------------------
(* The pass of the daemon: reconcile_once and _reconcile_task.              *)

\* Starting the daemon drops a stop control (cli.cmd_reconcile, D36).
StartDaemon ==
    /\ pc = "down"
    /\ pc' = "sleep"
    /\ control' = [control EXCEPT !.draining = FALSE]
    /\ UNCHANGED <<task, workers, snap, obs, plan, view, world, budget, past>>

\* recover(), then the snapshot the whole pass works on.
BeginPass ==
    /\ pc = "sleep"
    /\ pc' = "task"
    /\ snap' = task
    /\ UNCHANGED <<task, control, workers, obs, plan, view, world, budget, past>>

\* The pass is done with the task.
Done ==
    /\ pc' = "check" /\ snap' = NewTask /\ obs' = NoReceipt /\ plan' = "none"

\* Mutant: the loop never ends.
CheckDrained_Never ==
    /\ pc = "check"
    /\ pc' = "sleep"
    /\ UNCHANGED <<task, control, workers, snap, obs, plan, view, world, budget, past>>

\* The loop ends when a drain has nothing left to wait for.
CheckDrained ==
    /\ pc = "check"
    /\ pc' = IF control.draining /\ task.lease = 0 THEN "down" ELSE "sleep"
    /\ UNCHANGED <<task, control, workers, snap, obs, plan, view, world, budget, past>>

\* A drain asks the holder of the lease to yield; StoreConflict if the record
\* has changed since the snapshot.  The id of a drain is new, so no surrender of
\* the task has answered it yet.
MustRotate == control.draining /\ snap.lease # 0 /\ snap.rotation = NoRotation
AskRotation ==
    /\ pc = "task"
    /\ MustRotate
    /\ \/ /\ Current
          /\ Commit(Rotating(task, control.id, FALSE))
          /\ snap' = task'
          /\ pc' = "route"
          /\ UNCHANGED <<obs, plan>>
       \/ ~Current /\ Done /\ UNCHANGED task
    /\ UNCHANGED <<control, workers, view, world, budget, past>>

Routing == pc = "route" \/ (pc = "task" /\ ~MustRotate)

\* The executor's answer: only a process that is known to be the current
\* attempt is alive or dead.  observe_pidfile may fail to tell at any time.
Alive(g) == workers[g].proc = "running"
Dead(g) == workers[g].proc = "dead"

\* Mutant: a waiting task is started afresh even though it has an owner.
NeedsStart_Owned(t) ==
    \/ t.state = "READY"
    \/ t.state = "SUBMITTED" /\ t.rework
    \/ t.state = "WAITING" /\ (t.limit => t.ruling) /\ Unblock(t)

\* What a task that nobody holds and nobody waits for is started for.
NeedsStart(t) ==
    \/ t.state = "READY"
    \/ t.state = "SUBMITTED" /\ t.rework
    \/ t.state = "RUNNING" /\ t.lease = 0
    \/ /\ CleanSurrender(t)
       /\ t.limit => t.ruling
       /\ t.wait = "rotation" \/ Unblock(t)
NeedsResume(t) ==
    /\ t.state = "WAITING" /\ t.lease # 0 /\ t.rotation = NoRotation
    /\ t.limit => t.ruling
    /\ Unblock(t)
Yielding(t) ==
    /\ t.state = "WAITING" /\ t.lease # 0 /\ t.rotation # NoRotation
    /\ t.rotation.lease = t.lease
    /\ Checkpointed(t)

\* _start and _resume first look at the control without a lock, then validate
\* the task.
RouteDispatch ==
    /\ Routing
    /\ ~control.draining
    /\ plan' = IF NeedsStart(snap) THEN "start" ELSE "resume"
    /\ NeedsStart(snap) \/ (NeedsResume(snap) /\ Dead(snap.lease))
    /\ pc' = "commit"
    /\ UNCHANGED <<task, control, workers, snap, obs, view, world, budget, past>>

\* Nothing to do, dispatch withheld, or the worker is not known to have ended.
RouteNothing ==
    /\ Routing
    /\ snap.state = "RUNNING" => snap.lease = 0
    /\ \/ control.draining
       \/ ~NeedsStart(snap) /\ (NeedsResume(snap) => ~Dead(snap.lease))
    /\ Yielding(snap) => ~Dead(snap.lease)
    /\ Done
    /\ UNCHANGED <<task, control, workers, view, world, budget, past>>

\* The holder has yielded with a checkpoint and is positively gone.
Surrender ==
    /\ Routing
    /\ Yielding(snap)
    /\ Dead(snap.lease)
    /\ IF Current THEN Commit(Surrendered(task)) ELSE UNCHANGED task
    /\ Done
    /\ UNCHANGED <<control, workers, view, world, budget, past>>

\* Mutant: the receipt of a worker that has ended is not read.
ReadReceipt_LiveOnly ==
    /\ Routing
    /\ snap.state = "RUNNING" /\ snap.lease # 0
    /\ obs' = IF Applicable(snap.lease) /\ Alive(snap.lease)
               THEN workers[snap.lease].receipt ELSE NoReceipt
    /\ pc' = "alive"
    /\ UNCHANGED <<task, control, workers, snap, plan, view, world, budget, past>>

\* poll() reads the receipt ...
ReadReceipt ==
    /\ Routing
    /\ snap.state = "RUNNING" /\ snap.lease # 0
    /\ obs' = IF Applicable(snap.lease) THEN workers[snap.lease].receipt ELSE NoReceipt
    /\ pc' = "alive"
    /\ UNCHANGED <<task, control, workers, snap, plan, view, world, budget, past>>

\* ... and then looks at the process.  A receipt comes before any of it.
StaleRotation(r) == r.rotation # 0 /\ r.rotation # snap.rotation.id
ApplyYield ==
    /\ pc = "alive"
    /\ obs.status = "AWAITING"
    /\ IF Current /\ ~StaleRotation(obs)
       THEN Commit(Yielded(task, obs))
       ELSE UNCHANGED task
    /\ Done
    /\ UNCHANGED <<control, workers, view, world, budget, past>>

\* The checkpoint file of a receipt cannot be read (yet).
CheckpointUnreadable ==
    /\ pc = "alive"
    /\ obs.status = "AWAITING" /\ obs.checkpoint
    /\ Spend("faults")
    /\ Done
    /\ UNCHANGED <<task, control, workers, view, world, past>>

ApplyFinal ==
    /\ pc = "alive"
    /\ obs.status \in {"SUBMITTED", "FAILED"}
    /\ \/ /\ Current
          /\ Commit(Finished(task, obs))
          /\ pc' = "stop"
          /\ UNCHANGED <<snap, obs, plan>>
       \/ ~Current /\ Done /\ UNCHANGED task
    /\ UNCHANGED <<control, workers, view, world, budget, past>>

\* Positively alive: an earlier executor error is settled.
Heartbeat ==
    /\ pc = "alive"
    /\ obs = NoReceipt
    /\ Alive(snap.lease)
    /\ IF Current /\ snap.error
       THEN Commit([task EXCEPT !.error = FALSE])
       ELSE UNCHANGED task
    /\ Done
    /\ UNCHANGED <<control, workers, view, world, budget, past>>

\* Unknown, or dead and: an executor error is unresolved, a rotation is asked
\* for, the grace has not elapsed, or dispatch is withheld.
LeaveAlone ==
    /\ pc = "alive"
    /\ obs = NoReceipt
    /\ Done
    /\ UNCHANGED <<task, control, workers, view, world, budget, past>>

\* Mutant: a worker that is not known to be alive counts as dead.
DurablyDead_Unknown ==
    /\ pc = "alive"
    /\ obs = NoReceipt
    /\ ~Alive(snap.lease)
    /\ ~snap.error
    /\ snap.rotation = NoRotation
    /\ ~control.draining
DurablyDead ==
    /\ pc = "alive"
    /\ obs = NoReceipt
    /\ Dead(snap.lease)
    /\ ~snap.error
    /\ snap.rotation = NoRotation
    /\ ~control.draining

Adopt ==
    /\ DurablyDead
    /\ snap.restarts < MaxRestarts
    /\ plan' = "adopt"
    /\ pc' = "commit"
    /\ UNCHANGED <<task, control, workers, snap, obs, view, world, budget, past>>

PauseAtLimit ==
    /\ DurablyDead
    /\ snap.restarts >= MaxRestarts
    /\ IF Current THEN Commit(Paused(task)) ELSE UNCHANGED task
    /\ Done
    /\ UNCHANGED <<control, workers, view, world, budget, past>>

-----------------------------------------------------------------------------
(* Dispatch: the commit, and the callback under the mutation lock.          *)

\* Mutant: the drain is only looked at before the lock is taken.
Admitted_NoDrainCheck == Current

Admitted == Current /\ ~control.draining

CommitStart ==
    /\ pc = "commit"
    /\ plan \in {"start", "adopt"}
    /\ Admitted
    /\ Commit(Started(task, plan = "adopt"))
    /\ workers' = Append(workers, NoWorker)
    /\ past' = [past EXCEPT !.adoptions = IF plan = "adopt" THEN @ + 1 ELSE @,
                            !.served = @ /\ ~(CleanSurrender(task) /\ task.ruling)]
    /\ pc' = IF plan = "adopt" THEN "fence" ELSE "launch"
    /\ UNCHANGED <<control, snap, obs, plan, view, world, budget>>

CommitResume ==
    /\ pc = "commit"
    /\ plan = "resume"
    /\ Admitted
    /\ Commit(Resumed(task))
    /\ past' = [past EXCEPT !.served = @ /\ ~task.ruling]
    /\ pc' = "wake"
    /\ UNCHANGED <<control, workers, snap, obs, plan, view, world, budget>>

\* StoreConflict: no actuation follows a rejected commit.
CommitRejected ==
    /\ pc = "commit"
    /\ ~Admitted
    /\ Done
    /\ UNCHANGED <<task, control, workers, view, world, budget, past>>

\* executor.stop of the worker whose lease was taken; it is dead already.
Fence ==
    /\ pc = "fence"
    /\ pc' = "launch"
    /\ UNCHANGED <<task, control, workers, snap, obs, plan, view, world, budget, past>>

\* _prepare_attempt: uncertainty is on disk before anything is sent, and the
\* receipt of the attempt before is fenced off.
Prepared(w) ==
    [proc |-> "prepared", receipt |-> w.receipt, previous |-> w.receipt,
     attempt |-> w.attempt + 1]
Prepare ==
    /\ pc \in {"launch", "wake"}
    /\ workers[task.lease].proc = IF pc = "launch" THEN "none" ELSE "dead"
    /\ workers' = [workers EXCEPT ![task.lease] = Prepared(@)]
    /\ past' = [past EXCEPT !.served = TRUE]
    /\ pc' = "send"
    /\ UNCHANGED <<task, control, snap, obs, plan, view, world, budget>>

\* tmux send-keys, and the heartbeat.
Send ==
    /\ pc = "send"
    /\ workers' = [workers EXCEPT ![task.lease].proc = "queued"]
    /\ Done
    /\ UNCHANGED <<task, control, view, world, budget, past>>

\* An executor operation raises; what was sent may have arrived all the same.
ExecutorFails ==
    /\ pc \in {"fence", "launch", "wake", "send", "stop"}
    /\ Spend("faults")
    /\ \/ UNCHANGED workers
       \/ pc = "send" /\ workers' = [workers EXCEPT ![task.lease].proc = "queued"]
    /\ pc' = "error"
    /\ snap' = NewTask /\ obs' = NoReceipt /\ plan' = "none"
    /\ UNCHANGED <<task, control, view, world, past>>

\* The worker of a final receipt is interrupted, with no lock held.
StopWorker ==
    /\ pc = "stop"
    /\ Done
    /\ UNCHANGED <<task, control, workers, view, world, budget, past>>

\* The error handler reads the record again and marks it.
ReadError ==
    /\ pc = "error"
    /\ pc' = "errorCommit"
    /\ snap' = task
    /\ UNCHANGED <<task, control, workers, obs, plan, view, world, budget, past>>
RecordError ==
    /\ pc = "errorCommit"
    /\ IF Current /\ ~snap.error
       THEN Commit([task EXCEPT !.error = TRUE])
       ELSE UNCHANGED task
    /\ Done
    /\ UNCHANGED <<control, workers, view, world, budget, past>>

-----------------------------------------------------------------------------
(* The Masters.  A decision is made at the revision the Master has read; it  *)
(* waits for the mutation lock, which a dispatch holds.                     *)

Locked == pc \in {"fence", "launch", "wake", "send"}

ReadTask(m) ==
    /\ budget.decisions > 0
    /\ view[m].rev # task.rev
    /\ view' = [view EXCEPT ![m] = [rev |-> task.rev, contract |-> task.contract]]
    /\ UNCHANGED <<task, control, workers, daemon, world, budget, past>>

\* Mutant: the revision the Master has read is not compared.
Decides_Stale(m) ==
    /\ ~Locked
    /\ view[m] # NoView
    /\ Spend("decisions")
    /\ UNCHANGED <<control, workers, daemon, world, view>>

\* The session keeps what it read, so a decision may be sent twice.
Decides(m) ==
    /\ ~Locked
    /\ view[m].rev = task.rev
    /\ Spend("decisions")
    /\ UNCHANGED <<control, workers, daemon, world, view>>

Accept(m) ==
    /\ Decides(m)
    /\ task.state = "SUBMITTED" /\ ~task.rework
    /\ Commit([task EXCEPT !.state = "DONE", !.lease = 0, !.accepted = task.contract])
    /\ past' = [past EXCEPT !.approved = view[m].contract]

Amend(m) ==
    /\ Decides(m)
    /\ task.state \in {"READY", "WAITING", "SUBMITTED", "BLOCKED"}
    /\ Commit([task EXCEPT !.contract = @ + 1])
    /\ UNCHANGED past

Rule(m) ==
    /\ Decides(m)
    /\ task.state = "WAITING"
    /\ task.lease # 0 \/ CleanSurrender(task)
    /\ ~task.ruling
    /\ Commit([task EXCEPT !.ruling = TRUE])
    /\ past' = [past EXCEPT !.releases = @ + 1]

Rework(m) ==
    /\ Decides(m)
    /\ task.state = "SUBMITTED"
    /\ ~task.rework
    /\ Commit([task EXCEPT !.rework = TRUE])
    /\ past' = [past EXCEPT !.releases = @ + 1]

\* farm task-rotate, with or without a checkpoint the Master attaches for a worker
\* that waits; the id of the request is one that no drain has.
Rotate(m, attach) ==
    /\ Decides(m)
    /\ task.state \in {"RUNNING", "WAITING"} /\ task.lease # 0
    /\ attach => task.state = "WAITING"
    /\ task.rotation # NoRotation => attach
    /\ Commit(Rotating(task, MaxStops + task.rev, attach))
    /\ UNCHANGED past

Decision(m) ==
    \/ Accept(m) \/ Amend(m) \/ Rule(m) \/ Rework(m)
    \/ \E attach \in BOOLEAN : Rotate(m, attach)

\* farm stop --drain
StopDrain ==
    /\ ~Locked
    /\ ~control.draining
    /\ Spend("stops")
    /\ control' = [draining |-> TRUE, id |-> control.id + 1]
    /\ UNCHANGED <<task, workers, daemon, view, world, past>>

-----------------------------------------------------------------------------
(* Workers and the world.                                                   *)

\* The script of an attempt runs at most once; it removes the old receipt.
Begin(g) ==
    /\ workers[g].proc = "queued"
    /\ workers' = [workers EXCEPT ![g].proc = "running", ![g].receipt = NoReceipt]
    /\ UNCHANGED <<task, control, daemon, view, world, budget, past>>

Reported(g) == workers[g].receipt.attempt = workers[g].attempt
Report(g, r) ==
    /\ Alive(g)
    /\ ~Reported(g)
    /\ workers' = [workers EXCEPT ![g].receipt = [r EXCEPT !.attempt = workers[g].attempt]]

\* The worker waits for an event or a ruling, with or without a checkpoint.
Await(g, wait, checkpoint) ==
    /\ Report(g, [NoReceipt EXCEPT !.status = "AWAITING", !.wait = wait,
                                   !.checkpoint = checkpoint])
    /\ Spend("yields")
    /\ fired' = FALSE
    /\ UNCHANGED <<task, control, daemon, view, notes, past>>

\* The worker has read the request in the record it holds the lease of.
YieldToRotation(g, wait) ==
    /\ task.lease = g /\ task.rotation # NoRotation
    /\ Report(g, [NoReceipt EXCEPT !.status = "AWAITING", !.wait = wait,
                                   !.checkpoint = TRUE, !.rotation = task.rotation.id])
    /\ Spend("yields")
    /\ fired' = FALSE
    /\ UNCHANGED <<task, control, daemon, view, notes, past>>

Finish(g, status) ==
    /\ Report(g, [NoReceipt EXCEPT !.status = status])
    /\ UNCHANGED <<task, control, daemon, view, world, budget, past>>

Exit(g) ==
    /\ Alive(g)
    /\ Reported(g)
    /\ workers' = [workers EXCEPT ![g].proc = "dead"]
    /\ UNCHANGED <<task, control, daemon, view, world, budget, past>>

Die(g) ==
    /\ Alive(g)
    /\ ~Reported(g)
    /\ Spend("deaths")
    /\ workers' = [workers EXCEPT ![g].proc = "dead"]
    /\ UNCHANGED <<task, control, daemon, view, world, past>>

Work(g) ==
    \/ \E wait \in {"event", "ruling"}, c \in BOOLEAN : Await(g, wait, c)
    \/ \E wait \in {"event", "ruling", "rotation"} : YieldToRotation(g, wait)
    \/ \E status \in {"SUBMITTED", "FAILED"} : Finish(g, status)

\* The job ends, the file appears, the task waited for is DONE.
EventFires ==
    /\ task.wait = "event" /\ ~fired
    /\ fired' = TRUE
    /\ UNCHANGED <<task, control, workers, daemon, view, notes, budget, past>>

NoteLands ==
    /\ notes < MaxNotes
    /\ notes' = notes + 1
    /\ UNCHANGED <<task, control, workers, daemon, view, fired, budget, past>>

\* The daemon is killed, or the host reboots and every process is gone with it.
KillDaemon ==
    /\ pc # "down"
    /\ Spend("crashes")
    /\ pc' = "down" /\ snap' = NewTask /\ obs' = NoReceipt /\ plan' = "none"
    /\ UNCHANGED <<task, control, workers, view, world, past>>

AfterBoot(w) == IF w.proc = "none" THEN w ELSE [w EXCEPT !.proc = "dead"]
Reboot ==
    /\ Spend("crashes")
    /\ workers' = [g \in DOMAIN workers |-> AfterBoot(workers[g])]
    /\ pc' = "down" /\ snap' = NewTask /\ obs' = NoReceipt /\ plan' = "none"
    /\ UNCHANGED <<task, control, view, world, past>>

-----------------------------------------------------------------------------

Route ==
    \/ AskRotation \/ RouteDispatch \/ RouteNothing \/ Surrender \/ ReadReceipt
Observe ==
    \/ ApplyYield \/ CheckpointUnreadable \/ ApplyFinal \/ Heartbeat \/ LeaveAlone
    \/ Adopt \/ PauseAtLimit
Actuate ==
    \/ CommitStart \/ CommitResume \/ CommitRejected \/ Fence \/ Prepare \/ Send
    \/ StopWorker \/ ExecutorFails \/ ReadError \/ RecordError
Pass == BeginPass \/ Route \/ Observe \/ Actuate \/ CheckDrained

Next ==
    \/ StartDaemon
    \/ Pass
    \/ \E m \in Masters : ReadTask(m) \/ Decision(m)
    \/ StopDrain
    \/ \E g \in DOMAIN workers : Begin(g) \/ Work(g) \/ Exit(g) \/ Die(g)
    \/ EventFires \/ NoteLands
    \/ KillDaemon \/ Reboot

Spec == Init /\ [][Next]_vars

\* A daemon that is up runs passes for ever (cli.cmd_reconcile); a worker that has
\* reported ends, as its instructions say (codex.py:88-108).  Nothing starts the daemon
\* again: that is an act of the owner (docs/OPERATIONS.md:175-178).  Nothing makes a
\* command that was sent start, or a worker report.
Fairness ==
    /\ WF_vars(Pass)
    /\ WF_vars(\E g \in DOMAIN workers : Exit(g))

FairSpec == Spec /\ Fairness

\* What the owner owes, where a property depends on it: the daemon is not left down.
DaemonIsKeptUp == []<>(pc # "down")

-----------------------------------------------------------------------------

MayRun(g) == workers[g].proc \in {"prepared", "queued", "running"}

\* INV-5, INV-10: a worker that may be running keeps the lease, unless its own
\* final receipt gave the lease up; no adoption, surrender or rejected dispatch
\* ever takes it (reconciler.py:131-187, 258-284, 364-381).
LeaseFollowsLife ==
    \A g \in DOMAIN workers :
        MayRun(g) => task.lease = g \/ workers[g].receipt.status \in {"SUBMITTED", "FAILED"}

\* INV-10: restarts are bounded: each decision of a Master that releases the
\* task buys at most MaxRestarts adoptions (reconciler.py:138-145, 160-166).
RestartsBudgeted ==
    past.adoptions <= MaxRestarts * (1 + past.releases)

\* Acceptance is of the contract the Master had read, which is the contract in
\* force: amendments, reworks and the reconciler race with it (master.py:26-47).
AcceptedAsRead ==
    task.state = "DONE" =>
        /\ task.accepted = task.contract /\ past.approved = task.contract
        /\ ~task.rework

\* A checkpoint that tells of the work of the last attempt there was: a Master attached
\* it to the waiting task, or it is the newest worker's, of its newest attempt.
TellsTheLast(c) ==
    \/ c = Attached
    \/ c.by = "worker" /\ c.lease = Len(workers) /\ c.attempt = workers[Len(workers)].attempt

\* A waiting task without an owner is a clean surrender: its last owner is positively
\* gone, its request is answered, and the checkpoint on record, which is all that the
\* next owner gets, is not one of an earlier owner, of an attempt before a resume, or
\* of another request (reconciler.py:258-284, turnover.py:61-74).
SurrenderIsClean ==
    (task.state = "WAITING" /\ task.lease = 0) =>
        /\ CleanSurrender(task) /\ task.rotation = NoRotation
        /\ task.surrender.lease = Len(workers) /\ Dead(Len(workers))
        /\ TellsTheLast(task.surrender.checkpoint)
        /\ task.surrender.checkpoint.rotation \in {0, task.surrender.id}

\* Dispatch admission is serialized with drain (turnover.py:60): once a drain is
\* on record no attempt is prepared until the control is gone.
DrainWithholds ==
    [][control.draining => \A g \in DOMAIN workers : workers'[g].attempt = workers[g].attempt]_vars

\* Nothing the daemon commits is refused by the transition and lease rules,
\* whose exceptions the pass does not catch (transitions.py:41-57, 99-114).
CommitsAreLegal ==
    [][task' # task =>
        /\ task'.rev = task.rev + 1
        /\ CanMove(task.state, task'.state)
        /\ task'.lease \notin {0, task.lease} =>
              task.lease = 0 \/ (task.state = "RUNNING" /\ plan = "adopt")]_vars

\* INV-10, "with no applicable receipt taking precedence"
\* (docs/ARCHITECTURE.md:61-64): when an adoption has just been committed, the
\* worker it replaced has no receipt left to apply.
ReceiptTakesPrecedence == pc = "fence" => ~Applicable(snap.lease)

\* "a ruling resumes an eligible WAITING task" (docs/ARCHITECTURE.md:91-92): a
\* ruling that was consumed has reached an invocation before the task waits again.
RulingServed == task.state = "WAITING" => past.served

\* A receipt of the worker that holds the lease does not stay unread while a daemon is
\* kept up, whatever errors, rotations and withheld dispatches there are
\* (reconciler.py:351-362).
Pending == task.state = "RUNNING" /\ task.lease # 0 /\ Applicable(task.lease)
ReceiptHandled == DaemonIsKeptUp => (Pending ~> ~Pending)

\* Where the code reports that somebody has to inspect the task, and moves no
\* further by itself: an attempt of unknown fate; an exit without a receipt; a
\* rotation that lacks its checkpoint.
NeedsInspection ==
    /\ task.lease # 0
    /\ \/ workers[task.lease].proc \in {"none", "prepared", "queued"}
       \/ task.state = "RUNNING" /\ Dead(task.lease) /\ ~Applicable(task.lease)
       \/ task.state = "WAITING" /\ task.rotation # NoRotation /\ ~Checkpointed(task)

\* A ruling on a waiting task wakes it while a daemon is kept up, unless a drain comes
\* first (reconciler.py:230-256, 383-397).
RulingHeard ==
    DaemonIsKeptUp => (task.ruling ~> (~task.ruling \/ control.draining \/ NeedsInspection))

\* A daemon that runs under a drain for ever has a worker at work on its step or a task
\* to inspect; it surrenders every other lease and leaves (cli.py:401-408).
AtWork == task.lease # 0 /\ Alive(task.lease) /\ ~Reported(task.lease)
DrainEnds == <>[](control.draining /\ pc # "down") => <>[](AtWork \/ NeedsInspection)
=============================================================================
