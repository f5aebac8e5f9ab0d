# Verification of agent-farm-runtime

TLA+ models of the durable farm runtime (`src/agent_farm_runtime`) and of the
workers' step runner (`src/farmkit`), the TLC runs that check them on small
instances, and theorems about them that TLAPS proves for every value of the
constants. Paths below are relative to the repository root; `store.py` and the
like are under `src/agent_farm_runtime`.

## 1. The system

A *farm* is a directory of JSON records that outlives every process: agents
(Codex, Claude) work in tmux windows and may die at any time, a *reconciler*
daemon moves the task records forward, and a *Master* (a person or an agent)
decides through the command line. Everybody meets in the task store.

| Component | State | Operations | Hard part |
|---|---|---|---|
| Task lifecycle (`models.py`, `transitions.py`) | - | transition table, lease rules | - |
| Task store (`store.py`, `events.py`, `locking.py`, `posix_filesystem.py`) | one file per task, a single pending journal, an append-only audit log, a lock | get, commit (compare-and-swap, reservation, journal, redo, dispatch), recover | crashes between writes; visible is not durable; stale snapshots; torn log |
| Reconciler (`reconciler.py`, `observers.py`, `cli.py`) | nothing that survives it | recover, one pass per task: start, adopt, resume, apply a receipt, surrender, error record | read-then-act with concurrent Masters, workers and drains; a crash between commit and external effect |
| Master decisions (`master.py`, `turnover.request_rotation`) | decisions, contract revisions in the task | accept, amend, ruling, rework, rotate | decisions on a revision that has changed |
| Executors (`adapters/*.py`, `procutil.py`) | per worker: identity file, attempt id, receipt, pid file | launch, resume, poll, stop | a command whose delivery is unknown; alive, dead and UNKNOWN |
| Turnover and stop (`turnover.py`, `lifecycle.py`) | control in `deployment.json`, execution epoch, pending audit event | stop --drain, drain, release, claim, restart | control changes under a running daemon; redo of the control's own audit |
| Offline recovery (`recovery.py`) | a plan and a pending recovery | plan, apply, finish | interrupted in the middle of many tasks |
| Provenance (`provenance.py`) | host, source and protocol digests | writer policy | - |
| Access registry (`access/`, `connect.py`) | records of control sessions, two pointers per target, markers in tmux | publish, resolve, verify, connect | two publishers of one target; a reader without locks |
| farmkit ledger and intents (`farmkit/intent.py`, `ledger.py`) | attempt records | submit, reconcile | `sbatch` whose outcome is unknown |
| farmkit runner (`farmkit/runner.py`, `steps.py`, `classify.py`) | ledger, run directories, published outputs | tick: observe, verify, publish, launch, park | interrupted publication, retry budgets, chains |
| farmkit watch (`farmkit/watch.py`) | a cursor: a position in the log and acknowledged state hits | watch, ack | acknowledged but not handled; state read before the log |
| Status, doctor, shadow, logging, farmboard | - | read-only views | - |

What must hold, by component:

* store: exactly one audit event per committed revision, in order; no lost
  update; no commit half done after any crash; one owner per workspace; the
  dispatch callback once, and only for a commit that cannot be taken back;
* reconciler and executors: a worker that may be running keeps its lease;
  restarts are budgeted; nothing is dispatched under a drain; an accepted
  contract is the one the Master read; a lease is only surrendered by a dead
  worker with its checkpoint; receipts, rulings and drains get somewhere;
* turnover and recovery: one host, one epoch, one daemon may write; their audit
  is published once; an interrupted recovery blocks writers until finished, and
  is one change of the whole farm to everybody else;
* access: a pointer names a whole record and never goes back; what a reader is
  told was true at one instant;
* farmkit: an unknown submission is not repeated; a published result is
  replaced whole or not at all; budgets survive crashes; a watch skips nothing.

## 2. Modules

| Module | Models | Builds on |
|---|---|---|
| `Lifecycle` | states, legal transitions, reserved states | - |
| `AtomicStore` | what the store promises: one-step commits | `Lifecycle` |
| `TaskStore` | the store, write by write and sync by sync | `Lifecycle`, implements `AtomicStore` |
| `TaskStoreProofs` | theorems about `TaskStore` | `TaskStore` |
| `TaskStoreRefinement` | the proof that `TaskStore` implements `AtomicStore` | `TaskStoreProofs` |
| `Reconciler` | one task: daemon, Masters, workers, drain, faults | `Lifecycle`; its one-step commits are what `TaskStore` is shown to implement |
| `Turnover` | the manifest, handoffs, stops, starts, and the task writes they fence | `Lifecycle`; task commits are one step here too |
| `OneStepRecovery` | what offline recovery promises: the farm moves in one step | - |
| `Recovery` | offline recovery, write by write, with the manifest, the store and the commits around it | implements `OneStepRecovery` |
| `Access` | publications and readers of one access target | its manifest is that of `Turnover`, reduced |
| `Runner` | farmkit: the tick of one workspace, its ledger, submissions and publications | - |
| `Watch` | farmkit watch: status, pages of the log, cursor and acknowledgement | - |
| `ReconcilerProofs`, `TurnoverProofs`, `RecoveryProofs`, `AccessProofs`, `RunnerProofs`, `WatchProofs` | theorems (section 4) | the module they are named after |
| `MCTaskStore`, `MCReconciler`, ... | instances for TLC | the module they are named after |

### TaskStore

Processes (`Procs`) read a task without a lock and queue for the lock
(`AskCommit`, `AskRecover`, `Acquire`, `Refused` = `FileLockBusy` after ten
seconds). Under the lock `pc` walks through `_recover_locked`: `InstallAfter`
and `SyncFile` are the rename and the directory fsync of `atomic_write_json`;
`AppendEvent`/`EventPresent` and `SyncLog` are `EventLog.append`/`sync`;
`UnlinkJournal` and `SyncUnlink` finish. `commit` runs it twice, before its
compare (`Reject`, `WriteJournal`) and after its own journal is written
(`SyncJournal`); `Dispatch` is last and still locked.

A record is reduced to revision and state, an event to id, task and revision.
Each file has a visible value and, in `fileDisk`, `journalDisk` and `logDisk`,
the set of values a host failure may leave: a write adds its value to the set,
an fsync reduces the set to the visible value. `Abort` is a killed process or an
fsync that raises, at any step (the writes done stay, the lock is released),
`AbortAppend` leaves a torn record, `RepairLog` is the operator's repair,
`HostLoss` picks any combination of disk values.

`AtomicStore` is the store as its callers think of it: a commit is one step that
changes one record and appends its event; acting upon it is another (`Act`, the
dispatch). A host failure takes back a commit whose journal was visible but not
synced, so the abstract store may take back its last commit (`TakeBack`) until
it is safe (`Harden`), and nobody acts upon it before. `Unsynced` and `Undo` in
`TaskStore` say which commit that is; the refinement mapping counts a commit
from its journal on. One run has both aborts and host failures, at most one
fault of either kind in a behaviour (`MaxFaults`); see section 5 for two.

`AskCommit` asks for any change, legal or not, of any task: the real callers
(reconciler, Masters, recovery) ask for fewer.

### Reconciler

One task; tasks only meet in the store. `pc` is where the daemon is in
`_reconcile_task`, with the record it read (`snap`) and the receipt it read
(`obs`): there is a step of its own wherever the code reads, commits or acts on
the outside, because everything else may happen in between. The dispatch is
`CommitStart`/`CommitResume`, then `Fence` (stop of the replaced worker),
`Prepare` (identity and fenced receipt on disk), `Send` (tmux), under the lock
(`Locked`: no Master commits, no drain starts).

A worker is created with its lease, so `workers[g]` is what is on disk and
running for lease `g`: `proc` is `none` (no identity file: UNKNOWN), `prepared`
or `queued` (a command that may or may not have arrived: UNKNOWN), `running` or
`dead` (by pid, start time and boot). `poll` may also answer UNKNOWN about any
process and the grace may or may not be over: `LeaveAlone` is always possible.
`Begin` is the script of an attempt, which runs at most once (its `mkdir` guard)
and removes the old receipt first. A worker reports at most once per attempt.

A checkpoint is whose it is: the lease, the attempt and the rotation request it was
written for, or `Attached` by a Master; its text is left out, but for whether there
is one. `_apply_receipt` records or clears it (`Yielded`), a resume clears it
(`Resumed`), and `Surrendered` copies the one that `ChosenCheckpoint` takes into the
record of the surrender, where `CleanSurrender` looks for it.

Masters read (`ReadTask`) and decide later (`Decides` compares the revision).
A drain is `stop --drain`; `StartDaemon` clears it. `KillDaemon` kills the
daemon at any step; `Reboot` also every worker. The wrapper of a release
(`tools/release.py:76-92`) runs the daemon once: who starts it again is the owner
(`lifecycle.py:74-76`), so nothing makes `StartDaemon` happen.

`past` holds history for the properties only: no guard reads it.

### Turnover

`manifest` is `runtime/deployment.json`: host, build (source digest), execution
epoch, whether a started daemon is on record, the control (`stop` or `handoff`)
and the event that is still to be published. `log` has the farm events only,
`archive` the sealed records. Every command is one step, because it holds the
mutation lock from its first read to its last write; a command that dies leaves
a prefix of its writes, so `Publish` has three outcomes (manifest with the event
pending, event appended, event removed) and `Release` a fourth (only the
archive). `FinishOnly` and `FinishDies` are any command, or retry, that comes as
far as `finish_deployment_event`. `Start` is `cmd_reconcile` up to its loop, from
any host and build: policy and lease checks, pending event, `clear_stop_control`
(which may die in the middle), writer check, new manifest.

`require_compatible_writer` runs before the lock: `Ask` is that check, and
`StopDrain`, `StopNow` and `Decide` come later, when the manifest may have
changed. A dispatch takes two steps (`Launch` or `Resume`, then `Sent`) since
`stop --now` and a death can meet it there; `sending` is the lock it holds. A
worker that was sent may start at any time after, also when the daemon has
died. `Poll` judges a process only on the host that started it.

A worker may write a receipt (`WorkerReports`) and ends with one or without:
`final`, `yield` (AWAITING), or `refused`, one that `_apply_receipt` turns down for
its checkpoint or rotation id. Only a receipt takes a task out of RUNNING
(`ApplyReceipt`); a dead worker without one is replaced (`Launch`), which a drain
withholds. `Attempted` sets a receipt aside when the next attempt is prepared, so a
death before that leaves the old one, as in finding 2. A task is its revision, state,
lease, rework flag, `dispatches`, and whether a checkpoint is on record that a rotation
of this lease may use: whether a yield brought one, and whether it answers the request,
is open (`Reconciler` says which does), and a Master may attach one (`Decide`).
`Surrender` needs it. A rotation is asked for by a drain at its pass or by a Master;
the request has no state here. WAITING without a lease is a clean surrender, which is
the only way the code gets there.

### Recovery

`recover_farm` under the pinned-host policy, beside the daemon, the Masters and
the stops of the farm. `reviewed` holds the operators with a preview; `Apply`
begins a recovery (the marker `pending-recovery.json`, with plan, manifest and
retired owners as they were) or continues one after the checks of
`recovery.py:101-128` (`Untouched`). `applying.at` is where the apply is in
`_finish`: archive, the pending event of the manifest, the pending journal, each
hold as a commit of the store (`HoldNext`, `InstallTask`, `AppendHeld`,
`UnlinkJournal`), manifest, event, marker. Every durable write is a step;
`ApplyDies` may come before each of them and in each append. Commands of the rest
of the farm are one step each, but for a commit that may die with its journal
written (`RedoJournal` finishes it) and a control that may die with its event
pending. `MayWrite` and `MayStart` are the checks that keep them out meanwhile.

`OneStepRecovery` promises that all of this is one step: every owned task is
held, revision by revision as reviewed, the farm is on the new host in a new
epoch and every event is due. Before and after it tasks are written one at a
time, an owner is always of the current host and epoch, and a held task is let
go by a ruling only; each control of `Controls` is announced once. The mapping
counts a recovery from its marker on.

### Access

One target of one farm. `records` are the immutable files of epochs and
generations, `pointer` the two current pointers, `session` the tmux session of
the recorded name with its markers, `manifest` and `recovery` what `match_manifest`
and `manifest_for` look at. `writer` is the publication that holds the locks,
place by place (`bind`, `set`, `live`, `binding`, `record`, `liveAgain`,
`commit`); it may die before any of its writes (`PublicationEnds`), and whoever
asked for it may ask again at any time, although others were served since.
`reader` is a `resolve`, `verify` or `connect`, which holds no lock: pointer,
manifest, pending files, readiness, session, markers, and manifest, pending
files and pointer again, one step each; `Reverify` and `Attach` are the last
metres of `connect.py`. Meanwhile the deployment changes (`Drain`, `Claim`,
`Recover`, `StartDaemon`, `Tick`, `DaemonEnds`), a session is replaced by another
of the same name, and another farm sets its markers on ours (`ForeignSets`).
A publisher's own look at the session is one instant: what a torn look can do
is modelled for the reader, who runs the same code.

`past` and `reader.held` (there was an instant at which all was as the verdict
says) are history; no guard reads them.

### Watch

`farm status` and `farm events` are read without a lock, and the log is read
page by page (`Limit`) after the status, so a watch has four steps: `StartWatch`,
`ReadStatus`, `ReadPage`, `ReadStates`. It returns a token, which the Master
acknowledges when it has handled the hits (`Ack`); watch, token and cursor file
may be lost. There is one watch and one token at a time: acknowledging an older token
later takes the cursor back, after which hits are only told again. The farm commits, record first and event later, with half a line in
the log in between; its daemon dies, starts with an old or new pid, is late. A
position is the number of events before it, where the code counts bytes.

### Runner

One workspace (`farmkit/runner.py`, `steps.py`, `ledger.py`, `intent.py`,
`classify.py`, `adopt.py`). `ledger[s]` holds the attempt records of a step as
they are on disk, `jobs` what became of each attempt at the scheduler or in the
local process; only observation, accounting and the end of a local process read
`jobs`. The workspace has one writer, so `tick.pc` is the only control: reconcile
(`Reconcile`), unfinalized (`FinalizeLate`), in flight (`ObserveEnded`,
`ObserveElse`), launch (`Launch`), end (`EndTick`, the receipt). There is a step
between any two durable writes and around every outside call, and `Crash` may
come at each of them. The other commands that write the ledger come between ticks:
`Release`, `Adopt`, which asks nothing of the attempts a step has already, and
`FarmkitVerify`, which saves a verdict on the latest attempt and does nothing else;
`farmkit reconcile-intents` is a tick that dies after its reconciliation. Evidence and
index are rewritten from the records and have no state. A crash loses what the tick
holds in memory: the observation of an ended job is saved with its verdict only, that
of a local step before it.

Every step has a main output, a JSON file that names its attempt; `dir` says that it
has a directory as well, which names none. What a completed execution left is in
`Completed`; a directory it did not leave (`nodir`) is looked for in the workspace,
where an earlier copy will do, and is then not published.

A verdict is `Verify` (checks and input provenance) and `Classify`; then
`Verified`, `Retry` or `Park`, or the publication and `Certify`, which saves verdict
and `published` together. A new attempt is a record with status `intent`
before sbatch is called; `SbatchAccepts`, `SbatchLost` (job or no job, nobody
knows) and `SbatchRefuses` are its outcomes, `SaveReply` the second write.
`published` is what the workspace shows of main output and directory, the number of
the attempt it is a copy of; `staging` is the staging copy, marker and backup of an attempt's publication,
and `Discard` to `Unmark` are `_replace_dir` rename by rename. Removing a backup
is best effort in the code and may leave part of it.

The retries of a failure class (`MaxAuto`) include those spent before an adoption. A chain segment starts once its producer's job has an id, and its job
runs after that job completes (`EndJob`) or is cancelled (`CancelDependent`).

## 3. Runs

| Run | cfg | Properties | Instance | Shows |
|---|---|---|---|---|
| store | `TaskStore.cfg` | TypeOK, AuditComplete, AuditExact, WorkspacesExclusive, SurvivesHostLoss, DispatchIsDurable, ImplementsAtomicStore, JournalFinished | 2 processes, 2 tasks in one workspace, 2 revisions, 1 fault: an abort or a host failure | commits survive a process killed or a host lost anywhere, are finished by the next holder, and are atomic |
| pass_crash | `ReconcilerCrash.cfg` | TypeOK, SurrenderIsClean, LeaseFollowsLife, DrainWithholds, CommitsAreLegal | 1 each of decision, yield, drain; 2 of death, fault, crash | drain, surrender and dispatch with failures anywhere |
| pass_decisions | `ReconcilerDecisions.cfg` | AcceptedAsRead, RestartsBudgeted | 2 decisions, 1 yield, 3 deaths, limit 1 | races of decisions; the budget and its release |
| pass_live | `ReconcilerLive.cfg` | ReceiptHandled, RulingHeard, DrainEnds | 1 each of decision, yield, death, drain, note, fault | progress, while a daemon is kept up |
| receipt_race | `ReconcilerReceiptRace.cfg` | ReceiptTakesPrecedence (violated) | 1 worker | finding 1 |
| lost_ruling | `ReconcilerLostRuling.cfg` | RulingServed (violated) | 1 decision, 1 yield, 1 crash | finding 2 |
| turnover | `Turnover.cfg` | TypeOK, ReleaseIsQuiet, ControlAudited, HandoffHolds | 2 hosts, 2 releases, 2 tasks, 1 handoff, 1 stop id, 2 dispatches, 1 decision, 1 death; compatible policy | a sealed farm is quiet and stays as sealed; the audit of the control |
| turnover_hops | `TurnoverHops.cfg` | EpochHasOneHost, HandoffEnds | 2 handoffs, 3 dispatches, 1 death, no stop --drain and no decisions; pinned-host policy | there and back again, and progress or a named blocker |
| recovery | `Recovery.cfg` | TypeOK, RecoveryInOrder, ImplementsOneStepRecovery, RecoveryCompletes | 2 hosts with an operator each, 2 tasks, 3 writes, 1 stop, 2 recoveries, 2 deaths, 1 boot | a recovery is one step to everybody else, however often it is interrupted, and gets done |
| access | `Access.cfg` | TypeOK, PointerWhole, VerdictHeld | 2 publishers, 2 generation ids, 2 epochs, 2 starts of the daemon, 2 sessions, 1 reader; publications and their deaths without bound | pointers are whole and never go back; a verdict is of one instant |
| runner | `Runner.cfg` | TypeOK, OneJobPerStep, RetriesBudgeted, DirectoryWhole, CertifiedInstalled, NothingForgotten | a chain of two jobs and a local step; 1 death of a tick, 1 bad answer of sbatch, 2 bad ends, 1 ruling, edit, adoption or verification, 3 of all these; one retry of infrastructure failures | submissions, retries and publications survive a tick that dies anywhere |
| watch | `Watch.cfg` | TypeOK, NothingSkipped, EveryHitHeard | 1 task, 2 events, pages of 1, 1 pid for all daemons, 1 death, 1 stall, 1 fault of watch, Master or cursor file | the cursor covers handled hits only, and every lasting hit is heard |

Bounds. The store's invariants relate at most two tasks, two processes and one
journal; a journal of one process that is redone by another while a third
party's snapshot grows stale needs two processes and two revisions, and one
abort reaches every prefix of a commit. In the reconciler a worker goes through
start, yield, resume, death, adoption, pause and rework within one decision,
one yield and one death; a second generation of worker meets the receipts of
the first; three deaths with a limit of one exhaust the budget, release it and
exhaust it again. In pass_crash at most two of the three
mishaps (a worker's death, a failing operation, a crash) meet in one behaviour
(`MaxMishaps`); the other runs allow all they have. That run identifies states that
differ in what no step and none of its properties reads (`WithoutHistory`: `past`, and
which outdated revision a Master has read). The bounds are on the events
of the environment only; the daemon itself is not bounded. `MaxRev` stops a store that would count for ever,
after which processes still recover. No run but access can deadlock; there the
bounded instance may come to an end, with nothing left to publish or to read.

`RestartsBudgeted` and `AcceptedAsRead` are about counters and decisions that
crashes do not touch; they are run without crashes to keep more deaths and more
decisions affordable. A Master's session keeps the revision it read, so the
second decision of one session is as stale as that of another session.

In Turnover two hosts and two handoff ids give every order of there and back, and one
handoff and one stop id every order of those two; an id that returns, a worker that outlives its lease, a
death between two writes and a second release each need one of what the bounds
give. Two tasks are enough for one to keep the farm from being sealed while the
other is written. The tasks of that run are symmetric.

In Recovery two tasks leave room for a death between two holds, three writes
give an owner to both tasks and a write to one of them after a review, and two
recoveries are there and back. Two deaths interrupt a recovery twice, or once in
each. A stale review needs no copy of the farm: revisions and the times in the manifest
never come back, so any write of theirs invalidates every review there is (`Changed`).

In Access two epochs, two generations and the two publishers give every order of
publications between which another was current; a third would repeat one of
them. A second start of the daemon and a second session are enough to change what
a reader saw at its first look before its second one.

In Watch a page of one event needs two for a hit on the first, on the second or
beyond the page. One pid for all daemons is the case that matters: a pid
that returns.

In Runner the chain has pool limit 1 and files only, the local step has a directory
too, and two of the three steps have a result of an earlier round. One death
and one unusable answer reach every state between two writes; two bad ends are a
retry that fails again, or a failure in each segment. A second ruling or edit only
repeats an attempt, as the attempts of a step are independent but for the budget.
At most three of these mishaps meet in one behaviour (`MaxMishaps`).

Fairness. In the store: a process that holds the lock and is not killed goes on (no
step of `commit` waits for anybody), a process that polls for a free lock gets it,
and a reconciler begins every pass with `recover`. In the reconciler: the loop of
`cmd_reconcile` runs passes for ever once it is up. Nothing is assumed of its start,
which is the owner's (`lifecycle.py:74-76`, `docs/OPERATIONS.md:175-178`);
`ReceiptHandled` and `RulingHeard` say what follows if a daemon is up again and
again (`DaemonIsKeptUp`), `DrainEnds` what follows if it stays up under the drain. A
worker that has written its receipt ends, as its instructions demand
(`adapters/codex.py:88-108`). Nothing is assumed of Masters, drains, deaths, of
commands that were sent, or that a worker ever reports; the liveness properties
except the situations in which the code says that somebody has to inspect the task
(`NeedsInspection`). In Turnover operators follow the checklist of
`docs/OPERATIONS.md:337-360`: they repeat a release, a claim or a command that died
until it succeeds (strong fairness, since a running daemon holds them off now and
then), keep a daemon up while a task has an owner, and let it make a pass before
they stop it again; workers end. Nobody is assumed to start a command whose delivery
is unknown, no worker to report or to write a checkpoint, and no Master to attach
one: `HandoffEnds` says that a farm which is not claimed in the end is `Blocked`
from some time on by one of these, which is what `docs/OPERATIONS.md:342-345` wants.
A surrender is fair under a drain only, where each owner is asked for one. In
Recovery the operator of a pending recovery repeats the command until it is through,
as `docs/OPERATIONS.md` tells (weak fairness of preview and apply while a marker is
pending); a torn log and a second boot of the target host are excepted, the code
refuses to go on there. In Watch an append that has begun is finished (the store's
`JournalFinished`), a watch goes on, and the Master handles what it is told,
acknowledges it and watches again, its duty in `README.md:266`; nobody is assumed to
restart a daemon, to rule, or to lose nothing. In Runner a tick that is not killed
goes on, the farm restarts a worker that died and wakes one that waits for a job
when that job has ended, the scheduler ends every job and does not refuse to tell
for ever (strong fairness of `ObserveEnded`). Rulings are not assumed.
`NothingForgotten` starts from executions whose end can be known and from retries
that were decided, and excepts preempted jobs (see 5). `HandoffEnds` needs the
pinned-host policy: under the compatible policy a daemon may move to another host
without a handoff, and the workers of the old host are UNKNOWN there for the rest of
the epoch, so release is withheld for good.

## 4. Proofs

Every invariant and every safety action property of the runs is a theorem, for
all values of the constants that the assumption of the module admits, and so are
the refinements of `AtomicStore` and `OneStepRecovery`. The assumptions ask no more
than that bounds are numbers and that the absent value is no value: `StoreAssumption`,
`ReconcilerAssumption`, `TurnoverAssumption` (handoff and stop ids differ),
`RecoveryAssumption` (the order in which tasks are listed is a sequence of them),
`RunnerAssumption` (the table of steps lists every step), `AccessAssumption`
(names of generations are no epochs), `WatchAssumption`, and the `NoneAssumption`
of `TaskStore`, `Recovery` and `Access`.

Hardly any of the properties is inductive. Each module has an inductive invariant
`IInv` instead, which TLC checked on the runs' instances before it was proved; the
proof has one lemma per action, or per group of actions that touch the same variables,
and a theorem `Inductive == Spec => []IInv`, from which the others follow.

### TaskStoreProofs

| Theorem | States |
|---|---|
| `TypeCorrect` | `[]TypeOK` |
| `EveryCommitAudited` | `[]AuditComplete` |
| `AuditIsExact` | `[]AuditExact` |
| `RecoveryApplies` | `[]NoJournalConflict` (no run has it as a property of its own) |
| `ReservationsExclusive` | `[]WorkspacesExclusive` |
| `DispatchesDurable` | `[]DispatchIsDurable` |
| `CommitsSurvive` | `[]SurvivesHostLoss` |

The first three properties after the types are conditional on `FaultsOfOneKind`: as
long as processes die, or the host fails, but not both. That is what the code
promises and not a convenience of the proof: with both the audit can lose an event
(section 5, "a journal that was redone but not synced"). `FaultsCounted` shows that
the condition never comes back once it is gone. The next two hold whatever fails,
and however often.

`IInv` has a part for each kind of knowledge. `Control`: a process is in a section
exactly if it holds the lock, and which sections have a journal. `Disk`: about every
image a host failure may leave, not only the visible one; the visible value is one of
them (`VisibleOnDisk`), no two journals or events share an id
(`JournalsFresh`, `EventsFresh`), only the file of the journal has two
images (`FilesSettled`), a journal that is gone or logged was applied for good
(`Applied`), and what was reserved or dispatched is so in
every image (`ReservedOnDisk`, `DispatchIsDurable`). `Where` and `Own`: what the holder
of the lock has done so far. `Orderly`, while no process died: journal and log have more
than one image only where the holder of the lock is about to sync them. `Sound`, while faults are of one kind: the record of a pending
journal is one of its two images and its event is in the log only if it is the
after-image (`JournalSound`), revisions in the log increase and are not ahead of the
records (`LogSound`), and nothing is missing (`Audited`). The hard steps are those
that change a disk image (`InstallDisk`, `AppendDisk`, `UnlinkDisk`, `WriteDisk`,
`HostLossDisk`), each with a lemma for `Disk` and one for `Sound`.

`TaskStoreRefinement` proves `AtomicCommit`:
`Spec /\ []FaultsOfOneKind => ImplementsAtomicStore`, step by step: the write of the
journal is the commit (`WriteRefines`), the sync that makes it safe is `Harden`, the
dispatch is `Act`, a host failure is a stutter or `TakeBack`, everything else
stutters (`QuietRefines`). Under one fault in a behaviour, as in the run, the
condition always holds.

### ReconcilerProofs

`TypeCorrect`, `NobodyLosesItsLease` (`[]LeaseFollowsLife`), `RestartsBounded`
(`[]RestartsBudgeted`), `AcceptanceIsInformed` (`[]AcceptedAsRead`),
`SurrendersAreClean` (`[]SurrenderIsClean`), and the action properties
`EveryCommitLegal` (`CommitsAreLegal`) and `DrainsWithhold` (`DrainWithholds`).

The daemon acts on a record that it read earlier. The invariant says why that is
right: a snapshot or a Master's view is the record in force or has an older revision
(`SnapSound`, `ViewSound`), so that a commit which compares revisions commits on what
it has read, and the guards it was routed on still hold (`Placed`, `MayDispatch`: a
dead process stays dead, for the lease that the record names). `Sound` is what every
committed record is: its owner is the newest lease, a ruling or a pause is there only
while it waits, a rework only while it is submitted. `WorkerSound` and `Held` relate
what is on disk and running for a lease to the record; between a dispatch's commit
and its command the lock keeps the record as it is (`Locked` in `Placed`). `Ledger` counts:
adoptions made so far are at most those on record plus `MaxRestarts` for every
release that some dispatch has used.

`SurrendersAreClean` needs one more invariant, `Evident`, proved from the first: the
checkpoint of a record, of its rotation request and of its surrender belongs to the
owner or is a Master's (`EvidentIn`). A worker's checkpoint on record is of the last
attempt of the owner's lease, since each dispatch clears it (`CommitEvident`,
`ActuationEvident`) and a lease that is let go starts no attempt any more; the steps
that leave the record alone also leave its evidence (`StaysEvident`).

### TurnoverProofs

`TypeCorrect`, `ReleaseCertifies` (`[]ReleaseIsQuiet`), `ControlIsAudited`
(`[]ControlAudited`), `OneHostPerEpoch` (`[]EpochHasOneHost`, for
`Policy = "pinned-host"`, the policy of the run that checks it) and the action
property `HandoffOnlyMovesOn` (`HandoffHolds`).

`History` says that ids are single-use and in order, `Audit` that the log is the
history, one pending event behind it, or ahead by the clearing of the stop under way.
`EpochsUsed` and `DaemonOfEpoch`: an epoch was claimed before it was used, so a claim
brings a new one; the daemon runs the epoch of the manifest and the farm is never
sealed under it. `Fleet`: every worker of this epoch is among those that a release
asks about, every other is dead. `Pinned`: the workers of an epoch are on one host.
Receipts and checkpoints decide when a lease is let go and not whether a worker runs,
so none of these is about them; whether a drain gets there is `HandoffEnds`, for TLC.

### RecoveryProofs

`TypeCorrect`, `OwnersOfThisPlane` (`[]RecoveryInOrder`), `Promises` (`[]RInv`) and
`RecoveryIsOneStep` (`Spec => ImplementsOneStepRecovery`). `Settled` is the farm
without a recovery (owners, and those a pending journal will make, are of this host
and epoch); `Fenced` is the farm under one: each task is as the plan has it or
retired, with the evidence archived first, and the manifest changes after the last of
them; `Placed` is what the operator has written when it is at a place; `Numbered`
keeps epochs and controls in their bounds.

The refinement needs a second layer, `RInv`, about what is written and what is only
promised. `Due` is the set of events that the mapping counts as written: those in the
log and those that a journal, a manifest or a marker promises. `Once`: the log has
each record once; with `Carried` (no promised event is of the kind that the audit
leaves out) the mapped bag is `SetToBag(Due)` (`AuditIsDue`). `Fresh`: no event that
is due tells of a revision, an epoch or a control that is still to come, so that what
a step adds to the audit was not in it. `HeldWaits`: a held task waits. `Written`:
what a pending recovery has appended, up to the place where it is, so that nothing is
lost when a journal or the marker is removed. TLC checked `RInv`, and that the audit
is `SetToBag(Due)`, on the instance of the run before they were proved.

`Effect` lists what a step may do to the mapped farm: nothing (`Silent`), one revision
of a task (`Wrote`), a control (`Announced`), a recovery (`Recovered`). Every action
has one of them (`StepEffect`, from a lemma per group of actions: the writing of the
marker in `Apply` is the recovery, a commit happens with its journal, a control with
its manifest, every other write is silent by `GoingEffect` or `DueBecomes`). Every
effect keeps `Fresh` and `HeldWaits` (`EffectKeeps`), and is a step of
`OneStepRecovery` or a stutter (`EffectRefines`).

### AccessProofs

`TypeCorrect`, `PointersOnlyMoveOn` (`[]PointerWhole`), `VerdictsOfOneInstant`
(`[]VerdictHeld`). `Register`: the names a pointer has had are chained, each
generation to the one it expected, each epoch after the earlier ones, so that none
returns. `Publication`: what a publication has checked under the locks holds until
its end. `Verdict`: if the pointer or the manifest moved on while the reader looked
elsewhere, it still has when the reader looks again (`After` is an order), and it is
refused.

### RunnerProofs

`TypeCorrect`, `NeverTwoJobs` (`[]OneJobPerStep`), `EveryRetryPaid`
(`[]RetriesBudgeted`), `NothingTorn` (`[]DirectoryWhole`), `CertifiedIsShown`
(`[]CertifiedInstalled`). Adoption is open to a step in any state, so `Onto`, the
adopted attempts of a step but the first, is in all of them: each is one more job and
one more attempt that nothing paid for, and where there are any the order of
publications is left open.

`StepsSound` is about each step's data (`StepIs`): every attempt but the first and the
adopted ones was owed to a retry or release (`Owed`), and retries are within budget
(`Budgeted`); a record that has a fate, a verdict or a publication has an execution
that ended so (`Told`); a publication left a staging area from which it can be
continued, whole where it has to be (`Left`, `Settled`); a published attempt is the last
and shown (`Held`); and an earlier result is kept somewhere (`Kept`). `TodoSound` and
`HandSound` are about the tick: what it still has to look at, and what holds of the
attempt in hand at each place, in particular that sbatch is called for an attempt
without a job only, and what a publication has shown so far (`Stands`).
`farmkit verify` touches a verdict only, on which none of this rests but through the
place of a tick, and it runs between ticks.

### WatchProofs

`TypeCorrect` and `NoHitSkipped` (`[]NothingSkipped`): a position is in the log
(`FarmOK`), cursor, watch and token name positions that the log has (`MasterOK`), and
whatever a cursor, a watch or a token covers was heard, or is what that token tells
(`Heard`).

### Only model-checked

* Liveness (`JournalFinished`, `ReceiptHandled`, `RulingHeard`, `DrainEnds`,
  `HandoffEnds`, `RecoveryCompletes`, `NothingForgotten`, `EveryHitHeard`): TLAPS
  proves nothing about fairness and `ENABLED`.
* The two properties that are violated.

## 5. Findings

1. *Receipt before process* (`adapters/codex.py:564`, run receipt_race). `poll`
   reads the receipt, then the process. A worker that reports and exits in
   between looks dead without a receipt; if the grace is over (the daemon was
   down, or `grace_seconds` is 0) it is replaced and its receipt is stale.
   `docs/ARCHITECTURE.md:61-63`: "with no applicable receipt taking precedence".
2. *A ruling consumed before it is served* (`reconciler.py:243`, run
   lost_ruling). The `RESUMED` commit clears `resume_requested`; the previous
   receipt is fenced later, in `_prepare_attempt`. A daemon that dies in between
   leaves a RUNNING task whose old AWAITING receipt the next pass applies again.
   `docs/ARCHITECTURE.md:91-92`: "a ruling resumes an eligible WAITING task".

Observations without a run of their own, met while modelling:

* A journal that was redone but not synced (`store.py:92`). The rename shows the
  journal before its directory is synced. If that sync fails or the process dies,
  the next holder of the lock redoes the journal without syncing its directory; a
  host failure after the record is durable may drop the journal and with it the
  event. It takes two faults, hence the conditions `aborts = 0` in
  `SurvivesHostLoss` and `FaultsOfOneKind` in the audit's properties. `docs/LESSONS.md:91-92`: "Sync the file and its containing
  directory, and retain recovery intent if either fails."
* A stop from another release (`lifecycle.py:67`). `stop_drain` compares host and
  protocol, not the source; `_publish` writes the control with its pending event
  and then refuses, in `finish_deployment_event`, to publish for another source.
  The command fails after its first write, now and on every retry, and all writers,
  the daemon included, are blocked until the recorded build intervenes
  (`docs/OPERATIONS.md:372-374`: "ordinary writes stay blocked until a retry
  finishes its durable audit"). The pinned wrapper is not affected.
* Under the compatible policy `cmd_reconcile` reads the tasks for its lease check
  (`provenance.py:88-99`) before a pending journal is redone, so a daemon on
  another host may start beside a commit of an owner that is only in the journal.
  Recovery models the pinned-host policy, which has no such start.
* An interrupted recovery whose target host has booted again cannot be finished
  by the command (`docs/OPERATIONS.md` says that it needs "separate reviewed
  operator handling").
* A watch identifies a dead daemon by its pid alone (`farmkit/watch.py:105`): when
  a later daemon got the same pid and dies too, nothing is reported once the first
  death was acknowledged. `EveryHitHeard` takes that as heard.
* A watch reports restart limits, submitted receipts, adoptions, parks and the
  daemon, but neither a FAILED receipt nor a task that recovery holds, though
  `README.md:265` says that it returns when a task needs a ruling. With `--until`
  on a condition that is true already it returns at once every time, and a park is
  not reported at all.
* A published *file* is overwritten in place (`farmkit/runner.py:173`): a tick
  that dies in the copy leaves a torn file where the previous verified result
  was, until a later tick verifies the attempt again. `docs/ARCHITECTURE.md:122-124`:
  "Publication must preserve the previous verified result through failed attempts
  and interrupted copies". Directories are replaced whole (`DirectoryWhole`).
* PREEMPTED is an infrastructure failure with one automatic resubmit
  (`farmkit/classify.py:3`, `skills/farm-execution.md:46`), but not a terminal
  state (`farmkit/observe.py:19`): a preempted job is waited for, not classified.
* A worker killed inside a local step, or between a refusal of sbatch and its
  failure record, leaves an attempt that no later tick observes: the tick reports
  "no-progress", and `release` refuses, as nothing is parked.
* A directory of an earlier round passes for the result of a new attempt
  (`farmkit/runner.py:139-144`, `verify.py:45-71`): an attempt that wrote a good main
  output and no directory finds the copy in the workspace, passes, and publishes its
  main output beside it. Only the main output is asked for the attempt it belongs to.
  `classify.py:6`: "missing or stale output -> park".
* `farmkit adopt` does not look at the ledger, though `adopt.py:3` says "Only for jobs
  that have NO ledger record": a job may be adopted beside the step's own in flight,
  or onto a parked step. There the parked record is no longer the latest: `release`
  refuses it (`ledger.py:160`), yet the tick still waits for its ruling, even once the
  adopted job has succeeded (`runner.py:539`). The prior budget counts for the failures
  decided after the adoption only.
* `farmkit verify` saves its verdict (`farmkit/cli.py:86-88`) and does nothing else. An
  ok verdict on an attempt that no tick has finalized is never published; a bad one on
  an ended local attempt leaves it without a failure, so that it is neither retried nor
  parked.
* The pool limit is checked for first segments only, and counts later segments of
  the same chain: a retry of `a1` may have to wait for its own successor `a2`.

## 6. Not modelled

* In the store: JSON that cannot be parsed, other than a torn log; path aliases
  (`workspace_key` is the constant `WorkspaceOf`); `require_task_writer`, which
  belongs to Turnover.
* In Turnover: the rotation requests of Masters and drains (a surrender may come when
  one could have been asked for), FAILED receipts (as final as SUBMITTED), the grace
  and the restart limit (a dead worker without a receipt may be replaced or not),
  a farm without a manifest, protocol versions (all processes have
  the same), the executor settings a start compares during a handoff, scheduler
  attestations, a changed project root or a damaged archive, pending recoveries,
  host failures, `reconcile` without `--loop`. The two locks are taken to
  exclude each other across hosts, as the code requires of its file system.
* In the reconciler: several tasks and executors in one pass; `validate_task`
  failures (nothing is committed, the pass goes on); the ages behind the grace
  gate; which event a task waits for; session capture and prompts; BLOCKED tasks.
* In the runner: barrier jobs, gates, the contents of snapshots, run directories
  and evidence, outputs beyond a main file and a directory, steps without outputs,
  budgets above 1 spent before adoption, the same job adopted twice, what an adopted job
  writes into the workspace itself, a tick without accounting, a table of steps that changes. Which of
  several jobs is waited for is any of them (the code takes the lowest id).
* In recovery: the compatible policy, a farm without a manifest, evidence texts,
  symbolic links and file modes of the archive, syncs (every write is durable).
* In access: several targets and farms (another farm is only the markers it sets),
  readers and publishers as another user or on another host, the process and
  pane of a role, a registry that is not initialized, damaged files, `doctor`, ssh
  and the shell of `connect`; a pending task journal as a reason to wait; the
  clock behind a late tick.
* In watch: `--until`, errors of the reader (a cursor beyond a replaced log,
  malformed lines), `waits.py` and `health.py`.
* `farmboard`, `tools/`, the commands of `farmkit/cli.py` other than tick, verify,
  release, adopt, reconcile-intents and watch, and the rest of the command line parse
  arguments, print views or prepare a release; status (but for its event pages and
  the last tick), doctor, shadow, logging and the storage probe are views or plain
  I/O. None of them changes state that anything above reads, so there is nothing
  a model of them could check.

## 7. Plan

Done: all modules of section 2. What is left, the most important first:

1. An abstract worker for `Runner`: a step is tried, retried within its budget,
   certified; the tick shown to implement it, first by TLC and then by proof. Barrier
   jobs.
2. The compatible policy in `Recovery`; a second farm with records of its own in
   `Access`; a publisher whose look at the session is as torn as a reader's.
