------------------------------ MODULE Turnover ------------------------------
(***************************************************************************)
(* Who may run a farm (agent_farm_runtime: turnover.py, lifecycle.py,       *)
(* provenance.py and the startup of cmd_reconcile): the deployment manifest *)
(* with its control and its pending audit event, node handoff               *)
(* (drain, release, claim), stop --drain and --now, the start of a daemon   *)
(* on some host and from some build, and the task writes they fence.        *)
(*                                                                          *)
(* Every command holds the task mutation lock from its first read of the    *)
(* manifest to its last write, and so does a dispatch; only a dispatch      *)
(* needs two steps here, as stop --now and a death may hit it in between.   *)
(* A command that dies leaves a prefix of its writes.                       *)
(***************************************************************************)
EXTENDS Lifecycle, Integers, Sequences, SequencesExt

CONSTANTS
    Hosts, FirstHost,
    Builds, FirstBuild,     \* source_sha256 of the installed releases
    Tasks,
    HandoffIds, StopIds,    \* request ids; ids made from the clock, to the second
    Policy,                 \* --writer-policy of every command
    MaxAttempts,            \* bound: dispatches
    MaxDecisions,           \* bound: task writes of Masters
    MaxCrashes              \* bound: commands and daemons that die

ASSUME TurnoverAssumption ==
    /\ FirstHost \in Hosts /\ FirstBuild \in Builds
    /\ Policy \in {"compatible", "pinned-host"}
    /\ MaxAttempts \in Nat /\ MaxDecisions \in Nat /\ MaxCrashes \in Nat
    /\ HandoffIds \cap StopIds = {} /\ {"initial", "none"} \cap (HandoffIds \cup StopIds) = {}

VARIABLES
    manifest,   \* runtime/deployment.json
    log,        \* the farm events of the audit log
    archive,    \* runtime/handoffs/<id>.json: the sealed task records
    tasks,
    workers,    \* every worker ever issued, oldest first
    daemon,     \* the holder of reconcile.lock that runs the loop
    sending,    \* the worker whose dispatch holds the mutation lock, or 0
    command,    \* a command that has passed its policy check, not yet the lock
    budget,     \* what the bounds leave
    past        \* history, for the properties

vars == <<manifest, log, archive, tasks, workers, daemon, sending, command, budget, past>>

-----------------------------------------------------------------------------
(* Records. *)

NoControl == [kind |-> "none", phase |-> "none", id |-> "none", target |-> "none"]
Control == [kind : {"none", "stop", "handoff"},
            phase : {"none", "draining", "released", "claimed"},
            id : HandoffIds \cup StopIds \cup {"none"}, target : Hosts \cup {"none"}]

Kinds == {"FARM_DRAINED", "FARM_RELEASED", "FARM_CLAIMED", "FARM_STOP_DRAIN",
          "FARM_STOP_CLEARED"}
FarmEvent == [id : HandoffIds \cup StopIds, kind : Kinds]
NoEvent == [id |-> "none", kind |-> "none"]

Manifest == [host : Hosts, build : Builds, epoch : HandoffIds \cup {"initial"},
             started : BOOLEAN, control : Control, pending : FarmEvent \cup {NoEvent}]

\* issued: metadata.dispatches, the workers of one execution epoch; checkpoint: the
\* one a rotation of this lease may use is on record.
TaskType == [rev : Nat, state : TaskState, lease : Nat, rework : BOOLEAN,
             checkpoint : BOOLEAN,
             epoch : HandoffIds \cup {"initial", "none"}, issued : SUBSET Nat]
NewTask == [rev |-> 1, state |-> "READY", lease |-> 0, rework |-> FALSE,
            checkpoint |-> FALSE, epoch |-> "none", issued |-> {}]

\* unsent: no trace of the command (UNKNOWN); queued: sent, may start (UNKNOWN).
\* A receipt is final (SUBMITTED and the like), a yield (AWAITING), or refused: an
\* AWAITING one whose checkpoint or rotation id is no good.
WorkerType == [host : Hosts, epoch : HandoffIds \cup {"initial"},
               proc : {"unsent", "queued", "running", "dead"},
               receipt : {"none", "final", "yield", "refused"}]

Process == [host : Hosts, build : Builds]
Nobody == [host |-> "none", build |-> "none"]
NoDaemon == [host |-> "none", build |-> "none", epoch |-> "none"]

TypeOK ==
    /\ manifest \in Manifest
    /\ log \in Seq(FarmEvent)
    /\ archive \in [HandoffIds -> [Tasks -> TaskType] \cup {<<>>}]
    /\ tasks \in [Tasks -> TaskType]
    /\ workers \in Seq(WorkerType)
    /\ daemon \in [host : Hosts, build : Builds, epoch : HandoffIds \cup {"initial"}]
                  \cup {NoDaemon}
    /\ sending \in 0 .. Len(workers)
    /\ command \in Process \cup {Nobody}
    /\ budget \in [attempts : Nat, decisions : Nat, crashes : Nat]
    /\ past \in [changes : Seq(FarmEvent)]

\* A farm whose first daemon has started once and is down.
Init ==
    /\ manifest = [host |-> FirstHost, build |-> FirstBuild, epoch |-> "initial",
                   started |-> TRUE, control |-> NoControl, pending |-> NoEvent]
    /\ log = <<>>
    /\ archive = [id \in HandoffIds |-> <<>>]
    /\ tasks = [t \in Tasks |-> NewTask]
    /\ workers = <<>>
    /\ daemon = NoDaemon
    /\ sending = 0
    /\ command = Nobody
    /\ budget = [attempts |-> MaxAttempts, decisions |-> MaxDecisions, crashes |-> MaxCrashes]
    /\ past = [changes |-> <<>>]

Spend(kind) == budget[kind] > 0 /\ budget' = [budget EXCEPT ![kind] = @ - 1]

-----------------------------------------------------------------------------
(* The locks and the checks every command shares. *)

MutationLock == sending = 0
ReconcileLock == daemon = NoDaemon
ControlFiles == <<manifest, log, archive>>
Farm == <<tasks, workers, daemon, sending>>

Logged(l, e) == IF e \in ToSet(l) THEN l ELSE Append(l, e)

\* require_compatible_writer, before the command queues for the lock.
PolicyAllows(p) ==
    Policy = "pinned-host" => manifest.host = p.host /\ manifest.build = p.build

\* Mutant: a drain withholds every write, not only dispatch.
MayWrite_DrainStopsAll(p, dispatch) ==
    /\ manifest.pending = NoEvent
    /\ manifest.control # NoControl => manifest.host = p.host /\ manifest.build = p.build
    /\ manifest.control.phase \notin {"draining", "released"}

\* require_task_writer, under the lock.
MayWrite(p, dispatch) ==
    /\ manifest.pending = NoEvent
    /\ manifest.control # NoControl => manifest.host = p.host /\ manifest.build = p.build
    /\ manifest.control.phase # "released"
    /\ ~(dispatch /\ manifest.control.phase = "draining")

\* finish_deployment_event: who may publish an event that is pending, and what
\* that leaves.
MayFinish(p, claiming) ==
    manifest.pending # NoEvent =>
        /\ p.host = IF claiming THEN manifest.control.target ELSE manifest.host
        /\ p.build = manifest.build
\* Mutant: the redo appends without looking for the event.
FinishedLog_Blind == IF manifest.pending = NoEvent THEN log ELSE Append(log, manifest.pending)

FinishedLog == IF manifest.pending = NoEvent THEN log ELSE Logged(log, manifest.pending)

Quit(m, l) ==
    /\ manifest' = m /\ log' = l
    /\ UNCHANGED <<archive, Farm, command, past>>

\* Who comes as far as the pending event: any command but claim, and a claim of
\* a sealed handoff.
Finishes(p, claiming) ==
    /\ MutationLock
    /\ manifest.pending # NoEvent /\ MayFinish(p, claiming)
    /\ claiming => ReconcileLock /\ manifest.control.phase \in {"released", "claimed"}

\* A command that finishes the pending event and is then refused, or finds its
\* work done: the retry of a command that died.
FinishOnly(p, claiming) ==
    /\ Finishes(p, claiming)
    /\ Quit([manifest EXCEPT !.pending = NoEvent], FinishedLog)
    /\ UNCHANGED budget

\* It dies after the event is appended.
FinishDies(p, claiming) ==
    /\ Finishes(p, claiming)
    /\ Quit(manifest, FinishedLog)
    /\ Spend("crashes")

\* _publish: the new manifest with its event, the event, the manifest without.
\* It stops after the first write when finish_deployment_event refuses p.
Publish(p, m, kind) ==
    LET e == [id |-> m.control.id, kind |-> kind]
        refused == m.build # p.build \/ m.host # p.host
    IN  /\ past' = [changes |-> Append(past.changes, e)]
        /\ \/ /\ manifest' = [m EXCEPT !.pending = e]
              /\ log' = FinishedLog
              /\ IF refused THEN UNCHANGED budget ELSE Spend("crashes")
           \/ /\ ~refused
              /\ manifest' = [m EXCEPT !.pending = e]
              /\ log' = Logged(FinishedLog, e)
              /\ Spend("crashes")
           \/ /\ ~refused
              /\ manifest' = [m EXCEPT !.pending = NoEvent]
              /\ log' = Logged(FinishedLog, e)
              /\ UNCHANGED budget

-----------------------------------------------------------------------------
(* Node handoff. *)

\* Mutant: the id of an earlier handoff may be used again.
Drain_AnyId(p, id, target) ==
    /\ MutationLock /\ MayFinish(p, FALSE)
    /\ manifest.host = p.host /\ manifest.build = p.build
    /\ target # p.host
    /\ manifest.control.phase \in {"none", "claimed"}
    /\ Publish(p, [manifest EXCEPT !.control = [kind |-> "handoff", phase |-> "draining",
                                                id |-> id, target |-> target]],
               "FARM_DRAINED")
    /\ UNCHANGED <<archive, Farm, command>>

\* drain_farm
Drain(p, id, target) ==
    /\ MutationLock /\ MayFinish(p, FALSE)
    /\ manifest.host = p.host /\ manifest.build = p.build
    /\ target # p.host
    /\ manifest.control.phase \in {"none", "claimed"}
    /\ [id |-> id, kind |-> "FARM_DRAINED"] \notin ToSet(FinishedLog)
    /\ Publish(p, [manifest EXCEPT !.control = [kind |-> "handoff", phase |-> "draining",
                                                id |-> id, target |-> target]],
               "FARM_DRAINED")
    /\ UNCHANGED <<archive, Farm, command>>

\* Mutant: what is not known to be alive counts as dead.
Poll_UnknownIsDead(h, w) ==
    IF workers[w].host = h /\ workers[w].proc = "running" THEN "alive" ELSE "dead"

\* executor.poll: a process is only judged on the host that started it.
Poll(h, w) ==
    IF workers[w].host # h THEN "UNKNOWN"
    ELSE CASE workers[w].proc = "running" -> "alive"
           [] workers[w].proc = "dead"    -> "dead"
           [] OTHER                       -> "UNKNOWN"

\* The workers whose exit release asks for: all that this epoch has issued.
IssuedWorkers ==
    UNION {tasks[t].issued : t \in {u \in Tasks : tasks[u].epoch = manifest.epoch}}

\* A WAITING task without a lease is a clean surrender: only Surrender makes one.
ReadyToSeal(h) ==
    /\ \A t \in Tasks : tasks[t].lease = 0 /\ tasks[t].state # "RUNNING"
    /\ \A w \in IssuedWorkers : Poll(h, w) = "dead"

\* Mutant: an archive that exists is not written again.
Release_KeepsArchive(p) ==
    LET c == manifest.control IN
    /\ ReconcileLock /\ MutationLock /\ MayFinish(p, FALSE)
    /\ manifest.host = p.host /\ manifest.build = p.build
    /\ c.kind = "handoff" /\ c.phase = "draining"
    /\ ReadyToSeal(p.host)
    /\ archive' = IF archive[c.id] = <<>> THEN [archive EXCEPT ![c.id] = tasks] ELSE archive
    /\ \/ Publish(p, [manifest EXCEPT !.control.phase = "released"], "FARM_RELEASED")
       \/ /\ Spend("crashes")
          /\ manifest' = [manifest EXCEPT !.pending = NoEvent]
          /\ log' = FinishedLog
          /\ UNCHANGED past
    /\ UNCHANGED <<Farm, command>>

\* release_farm: the archive first, then the control.
Release(p) ==
    LET c == manifest.control IN
    /\ ReconcileLock /\ MutationLock /\ MayFinish(p, FALSE)
    /\ manifest.host = p.host /\ manifest.build = p.build
    /\ c.kind = "handoff" /\ c.phase = "draining"
    /\ ReadyToSeal(p.host)
    /\ archive' = [archive EXCEPT ![c.id] = tasks]
    /\ \/ Publish(p, [manifest EXCEPT !.control.phase = "released"], "FARM_RELEASED")
       \/ /\ Spend("crashes")
          /\ manifest' = [manifest EXCEPT !.pending = NoEvent]
          /\ log' = FinishedLog
          /\ UNCHANGED past
    /\ UNCHANGED <<Farm, command>>

\* Mutant: the epoch is named after the host.
Claim_EpochOfTarget(p) ==
    LET c == manifest.control IN
    /\ ReconcileLock /\ MutationLock /\ MayFinish(p, TRUE)
    /\ c.kind = "handoff" /\ c.phase = "released"
    /\ c.target = p.host /\ manifest.build = p.build
    /\ archive[c.id] = tasks
    /\ Publish(p, [manifest EXCEPT !.host = p.host, !.started = FALSE, !.epoch = c.target,
                                   !.control.phase = "claimed"], "FARM_CLAIMED")
    /\ UNCHANGED <<archive, Farm, command>>

\* claim_farm
Claim(p) ==
    LET c == manifest.control IN
    /\ ReconcileLock /\ MutationLock /\ MayFinish(p, TRUE)
    /\ c.kind = "handoff" /\ c.phase = "released"
    /\ c.target = p.host /\ manifest.build = p.build
    /\ archive[c.id] = tasks
    /\ Publish(p, [manifest EXCEPT !.host = p.host, !.started = FALSE, !.epoch = c.id,
                                   !.control.phase = "claimed"], "FARM_CLAIMED")
    /\ UNCHANGED <<archive, Farm, command>>

-----------------------------------------------------------------------------
(* Stop and start. *)

\* cmd_stop, cmd_accept and the like check the policy before they take the lock.
Ask(p) ==
    /\ command = Nobody /\ PolicyAllows(p)
    /\ command' = p
    /\ UNCHANGED <<ControlFiles, Farm, budget, past>>

Refused ==
    /\ command # Nobody
    /\ command' = Nobody
    /\ UNCHANGED <<ControlFiles, Farm, budget, past>>

\* Mutant: only a pending stop is respected.
StopDrain_OverridesHandoff(id) ==
    LET p == command IN
    /\ p # Nobody /\ MutationLock /\ MayFinish(p, FALSE)
    /\ manifest.host = p.host
    /\ manifest.control.kind # "stop"
    /\ [id |-> id, kind |-> "FARM_STOP_DRAIN"] \notin ToSet(FinishedLog)
    /\ Publish(p, [manifest EXCEPT !.control = [kind |-> "stop", phase |-> "draining",
                                                id |-> id, target |-> "none"]],
               "FARM_STOP_DRAIN")
    /\ command' = Nobody
    /\ UNCHANGED <<archive, Farm>>

\* stop_drain: a claimed handoff may be replaced, a pending one may not; the
\* build is not compared unless an event is pending.
StopDrain(id) ==
    LET p == command IN
    /\ p # Nobody /\ MutationLock /\ MayFinish(p, FALSE)
    /\ manifest.host = p.host
    /\ manifest.control.phase \in {"none", "claimed"}
    /\ [id |-> id, kind |-> "FARM_STOP_DRAIN"] \notin ToSet(FinishedLog)
    /\ Publish(p, [manifest EXCEPT !.control = [kind |-> "stop", phase |-> "draining",
                                                id |-> id, target |-> "none"]],
               "FARM_STOP_DRAIN")
    /\ command' = Nobody
    /\ UNCHANGED <<archive, Farm>>

\* stop_now, after finish_deployment_event: the recorded daemon is ended while
\* the lock keeps it between two commits.
StopNow ==
    /\ command # Nobody /\ MutationLock /\ MayFinish(command, FALSE)
    /\ manifest.host = command.host
    /\ manifest.started /\ daemon.host = manifest.host
    /\ daemon' = NoDaemon /\ sending' = 0
    /\ manifest' = [manifest EXCEPT !.pending = NoEvent]
    /\ log' = FinishedLog
    /\ command' = Nobody
    /\ UNCHANGED <<archive, tasks, workers, budget, past>>

\* Mutant: the pinned policy compares the source only.
MayStart_AnyHost(p, upgrade) ==
    /\ IF Policy = "pinned-host" THEN upgrade \/ manifest.build = p.build ELSE ~upgrade
    /\ (\E t \in Tasks : tasks[t].lease # 0) => manifest.host = p.host
    /\ MayFinish(p, FALSE)

\* cmd_reconcile up to the loop; upgrade: --upgrade-from-source names the
\* recorded build.
MayStart(p, upgrade) ==
    /\ IF Policy = "pinned-host" THEN manifest.host = p.host /\ (upgrade \/ manifest.build = p.build)
                                 ELSE ~upgrade
    /\ (\E t \in Tasks : tasks[t].lease # 0) => manifest.host = p.host
    /\ MayFinish(p, FALSE)

Start(p, upgrade) ==
    LET stop    == manifest.control.kind = "stop"
        cleared == [id |-> manifest.control.id, kind |-> "FARM_STOP_CLEARED"]
        m == [manifest EXCEPT !.pending = NoEvent,
                              !.control = IF stop THEN NoControl ELSE @]
        l == IF stop THEN Logged(FinishedLog, cleared) ELSE FinishedLog
        admitted == /\ m.control # NoControl =>
                          /\ m.host = p.host
                          /\ IF upgrade THEN m.control.phase = "claimed" ELSE m.build = p.build
                    /\ m.control.phase # "released"
    IN  /\ ReconcileLock /\ MutationLock /\ MayStart(p, upgrade)
        /\ \/ /\ admitted
              /\ manifest' = [m EXCEPT !.host = p.host, !.build = p.build, !.started = TRUE]
              /\ log' = l
              /\ daemon' = [host |-> p.host, build |-> p.build, epoch |-> m.epoch]
              /\ past' = IF stop THEN [past EXCEPT !.changes = Append(@, cleared)] ELSE past
              /\ UNCHANGED budget
           \/ /\ stop /\ Spend("crashes")     \* dies while it clears the stop
              /\ log' = l
              /\ \/ manifest' = [manifest EXCEPT !.pending = NoEvent] /\ UNCHANGED past
                 \/ manifest' = m /\ past' = [past EXCEPT !.changes = Append(@, cleared)]
              /\ UNCHANGED daemon
        /\ UNCHANGED <<archive, tasks, workers, sending, command>>

\* The loop ends under a drain without leases; a pass that meets a pending
\* event ends it as well (recover raises).
DaemonExits ==
    /\ daemon # NoDaemon /\ MutationLock
    /\ \/ manifest.control.phase = "draining" /\ \A t \in Tasks : tasks[t].lease = 0
       \/ ~MayWrite(daemon, FALSE) \/ manifest.epoch # daemon.epoch
    /\ daemon' = NoDaemon
    /\ UNCHANGED <<ControlFiles, tasks, workers, sending, command, budget, past>>

\* _prepare_attempt puts the receipt of the attempt before aside and leaves no
\* trace of the command, until it is sent.
Attempted(w, proc) ==
    workers' = [workers EXCEPT ![w].proc = proc, ![w].receipt = "none"]

\* The daemon dies anywhere; of a dispatch nothing, the preparation or the command
\* is out.
KillDaemon ==
    /\ daemon # NoDaemon
    /\ Spend("crashes")
    /\ daemon' = NoDaemon /\ sending' = 0
    /\ \/ UNCHANGED workers
       \/ sending # 0 /\ \E proc \in {"unsent", "queued"} : Attempted(sending, proc)
    /\ UNCHANGED <<ControlFiles, tasks, command, past>>

-----------------------------------------------------------------------------
(* The task writes of the daemon and the Masters. *)

DaemonMayCommit(dispatch) ==
    /\ daemon # NoDaemon /\ MutationLock
    /\ MayWrite(daemon, dispatch) /\ manifest.epoch = daemon.epoch

Commit(t, r) == tasks' = [tasks EXCEPT ![t] = [r EXCEPT !.rev = tasks[t].rev + 1]]

\* _start commits a new owner; the launch follows under the same lock.  A worker
\* that died is replaced when it left no receipt.
Launch(t) ==
    LET r == tasks[t]
        w == Len(workers) + 1
    IN  /\ DaemonMayCommit(TRUE) /\ Spend("attempts")
        /\ \/ r.state = "READY"
           \/ r.state = "SUBMITTED" /\ r.rework
           \/ r.state = "WAITING" /\ r.lease = 0
           \/ /\ r.state = "RUNNING" /\ Poll(daemon.host, r.lease) = "dead"
              /\ workers[r.lease].receipt = "none"
        /\ Commit(t, [r EXCEPT !.state = "RUNNING", !.lease = w, !.rework = FALSE,
                               !.checkpoint = FALSE, !.epoch = daemon.epoch,
                               !.issued = {w} \cup IF r.epoch = daemon.epoch THEN @ ELSE {}])
        /\ workers' = Append(workers, [host |-> daemon.host, epoch |-> daemon.epoch,
                                       proc |-> "unsent", receipt |-> "none"])
        /\ sending' = w
        /\ UNCHANGED <<ControlFiles, daemon, command, past>>

\* _resume gives the worker of a waiting lease another attempt; till the dispatch
\* the worker is as the attempt before left it.
Resume(t) ==
    LET r == tasks[t] IN
    /\ DaemonMayCommit(TRUE) /\ Spend("attempts")
    /\ r.state = "WAITING" /\ r.lease # 0 /\ Poll(daemon.host, r.lease) = "dead"
    /\ Commit(t, [r EXCEPT !.state = "RUNNING", !.checkpoint = FALSE])
    /\ sending' = r.lease
    /\ UNCHANGED <<ControlFiles, workers, daemon, command, past>>

\* The dispatch callback returns and the lock is released.
Sent ==
    /\ sending # 0
    /\ \E proc \in {"queued", "running"} : Attempted(sending, proc)
    /\ sending' = 0
    /\ UNCHANGED <<ControlFiles, tasks, daemon, command, budget, past>>

\* _apply_receipt: a final receipt gives up the lease, whether or not the
\* process is still there.  A yield keeps it; it may lack a checkpoint, or have one
\* that does not answer the rotation asked for while the task ran.
ApplyReceipt(t) ==
    LET r == tasks[t] IN
    /\ DaemonMayCommit(FALSE)
    /\ r.state = "RUNNING"
    /\ \/ /\ workers[r.lease].receipt = "final"
          /\ Commit(t, [r EXCEPT !.state = "SUBMITTED", !.lease = 0])
       \/ /\ workers[r.lease].receipt = "yield"
          /\ \E c \in BOOLEAN : Commit(t, [r EXCEPT !.state = "WAITING", !.checkpoint = c])
    /\ UNCHANGED <<ControlFiles, workers, daemon, sending, command, budget, past>>

\* _surrender, asked for by a drain or a Master: with the checkpoint, and once the
\* worker of the waiting lease is positively dead.
Surrender(t) ==
    LET r == tasks[t] IN
    /\ DaemonMayCommit(FALSE)
    /\ r.state = "WAITING" /\ r.lease # 0
    /\ r.checkpoint /\ Poll(daemon.host, r.lease) = "dead"
    /\ Commit(t, [r EXCEPT !.lease = 0, !.checkpoint = FALSE])
    /\ UNCHANGED <<ControlFiles, workers, daemon, sending, command, budget, past>>

\* A Master's command: accept, rework, a reviewed checkpoint for a worker that waits,
\* or a write that leaves all this alone.
Decide(t) ==
    LET r == tasks[t] IN
    /\ command # Nobody /\ MutationLock /\ MayWrite(command, FALSE) /\ Spend("decisions")
    /\ \/ r.state = "SUBMITTED" /\ ~r.rework /\ Commit(t, [r EXCEPT !.state = "DONE"])
       \/ r.state = "SUBMITTED" /\ ~r.rework /\ Commit(t, [r EXCEPT !.rework = TRUE])
       \/ r.state = "WAITING" /\ r.lease # 0 /\ Commit(t, [r EXCEPT !.checkpoint = TRUE])
       \/ Commit(t, r)
    /\ command' = Nobody
    /\ UNCHANGED <<ControlFiles, workers, daemon, sending, past>>

-----------------------------------------------------------------------------
(* Workers.  A command that was sent may start at any later time. *)

WorkerStarts(w) ==
    /\ workers[w].proc = "queued"
    /\ workers' = [workers EXCEPT ![w].proc = "running"]
    /\ UNCHANGED <<ControlFiles, tasks, daemon, sending, command, budget, past>>

WorkerReports(w) ==
    /\ workers[w].proc = "running" /\ workers[w].receipt = "none"
    /\ \E r \in {"final", "yield", "refused"} : workers' = [workers EXCEPT ![w].receipt = r]
    /\ UNCHANGED <<ControlFiles, tasks, daemon, sending, command, budget, past>>

WorkerEnds(w) ==
    /\ workers[w].proc = "running"
    /\ workers' = [workers EXCEPT ![w].proc = "dead"]
    /\ UNCHANGED <<ControlFiles, tasks, daemon, sending, command, budget, past>>

-----------------------------------------------------------------------------
Operators(p) ==
    \/ \E id \in HandoffIds, target \in Hosts : Drain(p, id, target)
    \/ Release(p) \/ Claim(p)
    \/ \E claiming \in BOOLEAN : FinishOnly(p, claiming) \/ FinishDies(p, claiming)
    \/ \E upgrade \in BOOLEAN : Start(p, upgrade)
    \/ Ask(p)

DaemonWork(t) == Launch(t) \/ Resume(t) \/ ApplyReceipt(t) \/ Surrender(t)

Next ==
    \/ \E p \in Process : Operators(p)
    \/ Refused \/ (\E id \in StopIds : StopDrain(id)) \/ StopNow
    \/ DaemonExits \/ KillDaemon \/ Sent
    \/ \E t \in Tasks : DaemonWork(t) \/ Decide(t)
    \/ \E w \in DOMAIN workers : WorkerStarts(w) \/ WorkerReports(w) \/ WorkerEnds(w)

Spec == Init /\ [][Next]_vars

-----------------------------------------------------------------------------
(* Properties. *)

Sealed == manifest.control.phase = "released"
HandedOver == manifest.control.phase = "claimed" /\ ~manifest.started

\* Release is a certificate that the old plane is quiet: from the moment the
\* farm is sealed until a daemon starts after the claim, no worker that was ever
\* issued runs or may yet start, no task has an owner (release_farm: "a missing
\* process identity is never a clean release certificate"), and nothing writes a
\* task before the claim, so the archive the claim compares is what release saw,
\* even if release died and was repeated after more writes (turnover.py
\* release_farm, claim_farm, require_task_writer).
ReleaseIsQuiet ==
    /\ Sealed \/ HandedOver =>
           /\ \A w \in DOMAIN workers : workers[w].proc = "dead"
           /\ \A t \in Tasks : tasks[t].lease = 0
    /\ Sealed => archive[manifest.control.id] = tasks

\* The audit log tells every change of the control, once and in order; it lacks
\* at most the one the manifest still carries as pending, and is ahead by at
\* most the clearing of a stop that a startup did not finish
\* (turnover.py finish_deployment_event, lifecycle.py clear_stop_control).
ControlAudited ==
    LET n == Len(past.changes)
        c == manifest.control
    IN  /\ IsInjective(log)
        /\ \/ log = past.changes
           \/ n > 0 /\ manifest.pending = past.changes[n] /\ log = SubSeq(past.changes, 1, n - 1)
           \/ c.kind = "stop" /\ log = Append(past.changes, [id |-> c.id, kind |-> "FARM_STOP_CLEARED"])
        /\ manifest.pending # NoEvent => n > 0 /\ manifest.pending = past.changes[n]

\* Under the pinned-host policy an execution epoch belongs to one host, and every
\* worker that runs or may start is on the deployment host, across restarts,
\* handoffs and upgrades: an epoch that came back would make release poll workers
\* of the wrong host (turnover.py drain_farm: "IDs remain single-use";
\* provenance.py require_compatible_writer, require_local_executor_host).
EpochHasOneHost ==
    /\ \A w \in DOMAIN workers : workers[w].proc # "dead" => workers[w].host = manifest.host
    /\ \A v, w \in DOMAIN workers :
           workers[v].epoch = workers[w].epoch => workers[v].host = workers[w].host

\* A node handoff under way is only ever moved on: no restart, upgrade, stop or
\* second drain drops or redirects it, and host, build and epoch stay as they
\* are until its claim makes its target the host (cmd_reconcile: "A restart
\* cannot erase a drain/release", require_task_writer).
HandoffHolds ==
    [][LET c == manifest.control IN
       c.kind = "handoff" /\ c.phase \in {"draining", "released"} =>
         \/ /\ manifest'.control = c \/ manifest'.control = [c EXCEPT !.phase = "released"]
            /\ manifest'.host = manifest.host /\ manifest'.build = manifest.build
            /\ manifest'.epoch = manifest.epoch
         \/ /\ c.phase = "released"
            /\ manifest'.control = [c EXCEPT !.phase = "claimed"]
            /\ manifest'.host = c.target /\ manifest'.epoch = c.id
            /\ manifest'.build = manifest.build]_vars

\* Operators follow the checklist of docs/OPERATIONS.md: they repeat a command
\* that did not succeed and keep a daemon up while a task has an owner; workers
\* end, with a receipt or without; a daemon that is up makes its pass before it is
\* stopped again, and a drain asks each owner for a surrender in it.
Fairness ==
    /\ \A p \in Process :
        /\ WF_vars(\E claiming \in BOOLEAN : FinishOnly(p, claiming))
        /\ SF_vars(Release(p)) /\ SF_vars(Claim(p))
        /\ WF_vars((\E t \in Tasks : tasks[t].lease # 0) /\ Start(p, FALSE))
    /\ \A t \in Tasks :
        /\ SF_vars(ApplyReceipt(t))
        /\ SF_vars(manifest.control.phase = "draining" /\ Surrender(t))
    /\ WF_vars(Sent) /\ SF_vars(DaemonExits)
    /\ \A w \in 1 .. MaxAttempts : WF_vars(w \in DOMAIN workers /\ WorkerEnds(w))
FairSpec == Spec /\ Fairness

\* What the code leaves to a person: a command whose delivery is unknown, a worker
\* that ended without a receipt to apply, a task that waits without a checkpoint.
Blocked ==
    \/ \E w \in DOMAIN workers : workers[w].proc \in {"unsent", "queued"}
    \/ \E t \in Tasks :
        /\ tasks[t].lease # 0
        /\ \/ /\ tasks[t].state = "RUNNING" /\ workers[tasks[t].lease].proc = "dead"
              /\ workers[tasks[t].lease].receipt \in {"none", "refused"}
           \/ tasks[t].state = "WAITING" /\ ~tasks[t].checkpoint

\* A drained farm is claimed by its target in the end, whatever dies on the way, or
\* stays blocked for one of the reasons the code wants looked into (release_farm:
\* "live/UNKNOWN issued workers"; docs/OPERATIONS.md: an "UNKNOWN worker or missing
\* clean receipt remains a blocker"; _surrender: "rotation needs a checkpoint").
HandoffEnds ==
    manifest.control.kind = "handoff" /\ manifest.control.phase = "draining" ~>
        manifest.control.phase = "claimed" \/ []Blocked
=============================================================================
