-------------------------- MODULE ReconcilerProofs --------------------------
(***************************************************************************)
(* Theorems about Reconciler, for every set of Masters and every bound.     *)
(***************************************************************************)
EXTENDS Reconciler, TLAPS

-----------------------------------------------------------------------------
(* The inductive invariant.                                                 *)

\* What every committed record of a task is, when n leases have been minted: its
\* owner, if any, is the newest; what a Master or the limit leaves on it stays on
\* it only in the state it is for; a rotation has the id of its request.
Sound(t, n) ==
    /\ t.rev >= 1
    /\ t.rev = 1 => t = NewTask
    /\ t.lease \in {0, n}
    /\ t.lease # 0 => t.state \in {"RUNNING", "WAITING"}
    /\ t.state = "RUNNING" => t.lease # 0
    /\ t.ruling => t.state = "WAITING"
    /\ t.limit => t.state = "WAITING"
    /\ t.rework => t.state = "SUBMITTED"
    /\ t.rotation # NoRotation => t.rotation.id # 0
    /\ (t.state = "WAITING" /\ t.lease = 0) => CleanSurrender(t) /\ t.rotation = NoRotation

\* A record that was read is the record in force, or has an older revision.
SnapSound ==
    /\ snap.rev <= task.rev
    /\ snap.rev = task.rev => snap = task
    /\ snap.lease \in 0 .. Len(workers)
ViewSound(m) ==
    /\ view[m].rev <= task.rev
    /\ view[m].rev = task.rev => view[m].contract = task.contract

\* What is on disk for a worker, and who holds the lease while it may run.
WorkerSound(w) ==
    /\ w.proc = "none" => w.receipt = NoReceipt
    /\ w.proc \in {"prepared", "queued"} => w.receipt = w.previous
    /\ w.proc = "running" => w.receipt = NoReceipt \/ w.receipt.attempt = w.attempt
    /\ w.receipt \in {NoReceipt, w.previous} \/ w.receipt.attempt = w.attempt
Held(g) ==
    /\ workers[g].proc \in {"prepared", "queued"} => task.lease = g
    /\ workers[g].proc = "running" =>
          task.lease = g \/ workers[g].receipt.status \in {"SUBMITTED", "FAILED"}

\* The guards a dispatch was routed on, of the record t the pass works on.
MayDispatch(t) ==
    /\ plan \in {"start", "adopt", "resume"}
    /\ plan = "start" =>
          \/ t.state = "READY"
          \/ t.state = "SUBMITTED" /\ t.rework
          \/ t.state = "RUNNING" /\ t.lease = 0
          \/ CleanSurrender(t) /\ (t.limit => t.ruling)
    /\ plan = "adopt" =>
          t.state = "RUNNING" /\ t.lease # 0 /\ t.restarts < MaxRestarts /\ Dead(t.lease)
    /\ plan = "resume" =>
          t.state = "WAITING" /\ t.lease # 0 /\ (t.limit => t.ruling) /\ Dead(t.lease)

\* Where the daemon is, and what it relies on there.
Placed ==
    /\ pc = "alive" =>
          /\ snap.state = "RUNNING" /\ snap.lease # 0
          /\ obs # NoReceipt => /\ obs = workers[snap.lease].receipt
                                /\ obs.attempt = workers[snap.lease].attempt
                                /\ workers[snap.lease].proc \in {"running", "dead"}
    /\ pc = "commit" => MayDispatch(snap)
    /\ Locked => ~control.draining /\ task.state = "RUNNING" /\ task.lease = Len(workers)
                 /\ Len(workers) > 0
    /\ pc \in {"fence", "launch"} => workers[Len(workers)].proc = "none"
    /\ pc = "wake" => workers[Len(workers)].proc = "dead"
    /\ pc = "send" => workers[Len(workers)].proc = "prepared"

\* A task that gave up its owner has seen the owner die.
Gone == (task.state = "WAITING" /\ task.lease = 0) => Len(workers) > 0 /\ Dead(Len(workers))

\* A release that no dispatch has used yet pays for MaxRestarts adoptions more.
Unused(t) == IF t.ruling \/ t.rework THEN 1 ELSE 0
Ledger ==
    /\ task.restarts <= MaxRestarts
    /\ Unused(task) <= past.releases
    /\ past.adoptions <= task.restarts + MaxRestarts * (past.releases - Unused(task))

\* A drain has an id; what was accepted is what was read.
Drains == control.draining => control.id # 0

IInv ==
    /\ TypeOK
    /\ Sound(task, Len(workers))
    /\ SnapSound
    /\ \A m \in Masters : ViewSound(m)
    /\ \A g \in DOMAIN workers : WorkerSound(workers[g]) /\ Held(g)
    /\ Placed
    /\ Gone
    /\ Ledger
    /\ Drains
    /\ AcceptedAsRead

-----------------------------------------------------------------------------
(* The records: what each of them is, field by field.                       *)

\* The empty records have their types.
LEMMA Empties ==
    /\ NoReceipt \in ReceiptType /\ NoWorker \in WorkerType
    /\ NoRotation \in RotationType /\ NoCheckpoint \in CheckpointType
    /\ Attached \in CheckpointType /\ NoSurrender \in SurrenderType /\ NewTask \in Task
    /\ NoView \in View
<1>1. NoReceipt \in ReceiptType
  BY DEF NoReceipt, ReceiptType, Waits
<1>2. NoRotation \in RotationType /\ NoCheckpoint \in CheckpointType
      /\ Attached \in CheckpointType /\ NoSurrender \in SurrenderType
  <2>1. NoCheckpoint \in CheckpointType
    BY DEF NoCheckpoint, CheckpointType
  <2>2. Attached \in CheckpointType
    BY <2>1 DEF Attached, CheckpointType
  <2> QED
    BY <2>1, <2>2 DEF NoRotation, RotationType, NoSurrender, SurrenderType, Waits
<1>3. NoWorker \in WorkerType
  BY <1>1 DEF NoWorker, WorkerType
<1>4. NewTask \in Task
  BY <1>2 DEF NewTask, Task, TaskState, Waits
<1> QED
  BY <1>1, <1>2, <1>3, <1>4 DEF NoView, View

\* The new revision of a record is that record but for its revision.
LEMMA Revised ==
    ASSUME NEW y \in Task, NEW n \in Nat
    PROVE  /\ [y EXCEPT !.rev = n] \in Task
           /\ [y EXCEPT !.rev = n].rev = n
           /\ \A f \in DOMAIN y \ {"rev"} : [y EXCEPT !.rev = n][f] = y[f]
  BY DEF Task
\* What a commit of y leaves on record: y, one revision on.
LEMMA CommitOf ==
    ASSUME task \in Task, NEW y \in Task, Commit(y)
    PROVE  /\ task' \in Task /\ task'.rev = task.rev + 1
           /\ task'.state = y.state /\ task'.lease = y.lease
           /\ task'.restarts = y.restarts /\ task'.limit = y.limit
           /\ task'.ruling = y.ruling /\ task'.rework = y.rework
           /\ task'.wait = y.wait /\ task'.rotation = y.rotation
           /\ task'.surrender = y.surrender /\ task'.checkpoint = y.checkpoint
           /\ task'.contract = y.contract /\ task'.accepted = y.accepted
<1>1. task.rev + 1 \in Nat
  BY DEF Task
<1> QED
  BY <1>1 DEF Commit, Task

\* The record of a new owner.
LEMMA StartedIs ==
    ASSUME TypeOK, NEW t \in Task, NEW adopting \in BOOLEAN,
           NEW y, y = Started(t, adopting)
    PROVE  /\ y \in Task
           /\ y.state = "RUNNING" /\ y.lease = Len(workers) + 1
           /\ y.rework = FALSE
           /\ y.ruling = IF CleanSurrender(t) THEN FALSE ELSE t.ruling
           /\ y.limit = IF CleanSurrender(t) /\ t.ruling THEN FALSE ELSE t.limit
           /\ y.rotation = IF CleanSurrender(t) THEN NoRotation ELSE t.rotation
           /\ y.restarts = IF t.rework \/ (CleanSurrender(t) /\ t.limit /\ t.ruling) THEN 0
                           ELSE IF adopting THEN t.restarts + 1 ELSE t.restarts
           /\ y.accepted = t.accepted /\ y.contract = t.contract
           /\ y.checkpoint = NoCheckpoint
<1> DEFINE released == t.rework \/ (CleanSurrender(t) /\ t.limit /\ t.ruling)
           rotation == IF CleanSurrender(t) THEN NoRotation ELSE t.rotation
           ruling == IF CleanSurrender(t) THEN FALSE ELSE t.ruling
           limit == IF CleanSurrender(t) /\ t.ruling THEN FALSE ELSE t.limit
           restarts == IF released THEN 0 ELSE IF adopting THEN t.restarts + 1 ELSE t.restarts
<1>1. y = [t EXCEPT !.state = "RUNNING", !.lease = Len(workers) + 1, !.error = FALSE,
                    !.checkpoint = NoCheckpoint, !.rotation = rotation, !.ruling = ruling,
                    !.limit = limit, !.restarts = restarts, !.rework = FALSE, !.seen = notes]
  BY Zenon DEF Started
<1>2. rotation \in RotationType /\ ruling \in BOOLEAN /\ limit \in BOOLEAN /\ restarts \in Nat
  <2>1. /\ t.rotation \in RotationType /\ t.restarts \in Nat
        /\ t.limit \in BOOLEAN /\ t.ruling \in BOOLEAN /\ t.restarts + 1 \in Nat
    BY DEF Task
  <2> QED
    BY <2>1, Empties, Zenon
<1>3. Len(workers) + 1 \in Nat /\ notes \in Nat /\ NoCheckpoint \in CheckpointType
      /\ "RUNNING" \in TaskState
  BY Empties DEF TypeOK, TaskState
<1> HIDE DEF rotation, ruling, limit, restarts
<1>4. PICK a : a = [t EXCEPT !.state = "RUNNING", !.lease = Len(workers) + 1, !.error = FALSE,
                             !.checkpoint = NoCheckpoint]
  OBVIOUS
<1>5. PICK b : b = [a EXCEPT !.rotation = rotation, !.ruling = ruling, !.limit = limit]
  OBVIOUS
<1>6. y = [b EXCEPT !.restarts = restarts, !.rework = FALSE, !.seen = notes]
  BY <1>1, <1>4, <1>5, Zenon
<1>7. a \in Task
  BY <1>3, <1>4 DEF Task
<1>8. b \in Task
  BY <1>2, <1>5, <1>7 DEF Task
<1>9. y \in Task
  BY <1>2, <1>3, <1>6, <1>8 DEF Task
<1>10. /\ a.state = "RUNNING" /\ a.lease = Len(workers) + 1
       /\ a.accepted = t.accepted /\ a.contract = t.contract
       /\ a.checkpoint = NoCheckpoint
  BY <1>4 DEF Task
<1>11. /\ b.state = a.state /\ b.lease = a.lease /\ b.accepted = a.accepted
       /\ b.contract = a.contract /\ b.checkpoint = a.checkpoint
       /\ b.rotation = rotation /\ b.ruling = ruling /\ b.limit = limit
  BY <1>5, <1>7 DEF Task
<1>12. /\ y.state = b.state /\ y.lease = b.lease /\ y.accepted = b.accepted
       /\ y.contract = b.contract /\ y.checkpoint = b.checkpoint
       /\ y.rotation = b.rotation /\ y.ruling = b.ruling /\ y.limit = b.limit
       /\ y.restarts = restarts /\ y.rework = FALSE
  BY <1>6, <1>8 DEF Task
<1> QED
  BY <1>9, <1>10, <1>11, <1>12, Zenon DEF rotation, ruling, limit, restarts

\* The record of an owner that runs again.
LEMMA ResumedIs ==
    ASSUME TypeOK, NEW t \in Task, NEW y, y = Resumed(t)
    PROVE  /\ y \in Task
           /\ y.state = "RUNNING" /\ y.lease = t.lease
           /\ y.ruling = FALSE /\ y.limit = FALSE
           /\ y.rework = t.rework /\ y.rotation = t.rotation
           /\ y.restarts = IF t.limit THEN 0 ELSE t.restarts
           /\ y.checkpoint = NoCheckpoint
<1> DEFINE restarts == IF t.limit THEN 0 ELSE t.restarts
<1>1. y = [t EXCEPT !.state = "RUNNING", !.ruling = FALSE, !.error = FALSE,
                    !.checkpoint = NoCheckpoint, !.limit = FALSE, !.restarts = restarts,
                    !.seen = notes]
  BY Zenon DEF Resumed
<1>2. restarts \in Nat
  <2>1. t.restarts \in Nat
    BY DEF Task
  <2> QED
    BY <2>1, Zenon
<1>3. notes \in Nat /\ NoCheckpoint \in CheckpointType /\ "RUNNING" \in TaskState
  BY Empties DEF TypeOK, TaskState
<1> HIDE DEF restarts
<1>4. PICK a : a = [t EXCEPT !.state = "RUNNING", !.ruling = FALSE, !.error = FALSE,
                             !.checkpoint = NoCheckpoint]
  OBVIOUS
<1>5. y = [a EXCEPT !.limit = FALSE, !.restarts = restarts, !.seen = notes]
  BY <1>1, <1>4, Zenon
<1>6. a \in Task
  BY <1>3, <1>4 DEF Task
<1>7. y \in Task
  BY <1>2, <1>3, <1>5, <1>6 DEF Task
<1>8. a.state = "RUNNING" /\ a.ruling = FALSE /\ a.lease = t.lease /\ a.rework = t.rework
      /\ a.rotation = t.rotation /\ a.checkpoint = NoCheckpoint
  BY <1>4 DEF Task
<1>9. /\ y.state = a.state /\ y.ruling = a.ruling /\ y.lease = a.lease /\ y.rework = a.rework
      /\ y.rotation = a.rotation /\ y.limit = FALSE /\ y.restarts = restarts
      /\ y.checkpoint = a.checkpoint
  BY <1>5, <1>6 DEF Task
<1> QED
  BY <1>7, <1>8, <1>9, Zenon DEF restarts

\* The record of a task that waits at the restart limit.
LEMMA PausedIs ==
    ASSUME NEW t \in Task, NEW y, y = Paused(t)
    PROVE  /\ y \in Task
           /\ y.state = "WAITING" /\ y.limit = TRUE /\ y.lease = t.lease
           /\ y.ruling = t.ruling /\ y.rework = t.rework
           /\ y.rotation = t.rotation /\ y.restarts = t.restarts
           /\ y.checkpoint = t.checkpoint
<1>1. y = [t EXCEPT !.state = "WAITING", !.wait = "ruling", !.limit = TRUE]
  BY Zenon DEF Paused
<1>2. "WAITING" \in TaskState /\ "ruling" \in Waits
  BY DEF TaskState, Waits
<1> QED
  BY <1>1, <1>2 DEF Task

\* The record of an owner that yielded with a receipt r.
LEMMA YieldedIs ==
    ASSUME NEW t \in Task, NEW r \in ReceiptType, NEW y, y = Yielded(t, r)
    PROVE  /\ y \in Task
           /\ y.state = "WAITING" /\ y.lease = t.lease
           /\ y.limit = t.limit /\ y.ruling = t.ruling /\ y.rework = t.rework
           /\ y.rotation = t.rotation /\ y.restarts = t.restarts
           /\ \/ y.checkpoint = NoCheckpoint
              \/ /\ y.checkpoint.by = "worker" /\ y.checkpoint.lease = t.lease
                 /\ y.checkpoint.attempt = r.attempt
                 /\ y.checkpoint.rotation = r.rotation
<1> DEFINE own == [by |-> "worker", lease |-> t.lease, attempt |-> r.attempt,
                   rotation |-> r.rotation]
           checkpoint == IF r.checkpoint THEN own ELSE NoCheckpoint
<1>1. y = [t EXCEPT !.state = "WAITING", !.error = FALSE, !.wait = r.wait,
                    !.checkpoint = checkpoint]
  BY Zenon DEF Yielded
<1>2. checkpoint \in CheckpointType
  <2>1. t.lease \in Nat /\ r.rotation \in Nat /\ r.attempt \in Nat
    BY DEF Task, ReceiptType
  <2>2. own \in CheckpointType
    BY <2>1 DEF CheckpointType
  <2> QED
    BY <2>2, Empties, Zenon
<1>3. r.wait \in Waits /\ "WAITING" \in TaskState
  BY DEF ReceiptType, TaskState
<1>4. checkpoint = NoCheckpoint
      \/ /\ checkpoint.by = "worker" /\ checkpoint.lease = t.lease
         /\ checkpoint.attempt = r.attempt /\ checkpoint.rotation = r.rotation
  <2>1. own.by = "worker" /\ own.lease = t.lease /\ own.attempt = r.attempt
        /\ own.rotation = r.rotation
    OBVIOUS
  <2> HIDE DEF own
  <2> QED
    BY <2>1, Zenon
<1> HIDE DEF checkpoint
<1> QED
  BY <1>1, <1>2, <1>3, <1>4 DEF Task

\* The record of an owner that is done with a receipt r.
LEMMA FinishedIs ==
    ASSUME NEW t \in Task, NEW r \in ReceiptType, r.status \in {"SUBMITTED", "FAILED"},
           NEW y, y = Finished(t, r)
    PROVE  /\ y \in Task
           /\ y.state = r.status /\ y.lease = 0
           /\ y.limit = t.limit /\ y.ruling = t.ruling /\ y.rework = t.rework
           /\ y.rotation = NoRotation /\ y.restarts = t.restarts
           /\ y.checkpoint = t.checkpoint
<1>1. y = [t EXCEPT !.state = r.status, !.error = FALSE, !.rotation = NoRotation, !.lease = 0]
  BY Zenon DEF Finished
<1>2. r.status \in TaskState /\ NoRotation \in RotationType
  BY Empties DEF TaskState
<1>3. y \in Task
  <2>1. PICK a : a = [t EXCEPT !.state = r.status, !.error = FALSE, !.rotation = NoRotation]
    OBVIOUS
  <2>2. y = [a EXCEPT !.lease = 0]
    BY <1>1, <2>1, Zenon
  <2>3. a \in Task
    BY <1>2, <2>1 DEF Task
  <2> QED
    BY <2>2, <2>3 DEF Task
<1>4. /\ y.state = r.status /\ y.lease = 0 /\ y.rotation = NoRotation
      /\ y.limit = t.limit /\ y.ruling = t.ruling /\ y.rework = t.rework
      /\ y.restarts = t.restarts /\ y.checkpoint = t.checkpoint
  BY <1>1 DEF Task
<1> QED
  BY <1>3, <1>4

\* The checkpoint that lets an owner go is a checkpoint.
LEMMA ChosenIs ==
    ASSUME NEW t \in Task
    PROVE  /\ ChosenCheckpoint(t) \in {t.rotation.checkpoint, t.checkpoint, NoCheckpoint}
           /\ ChosenCheckpoint(t) \in CheckpointType
<1>1. ChosenCheckpoint(t) \in {t.rotation.checkpoint, t.checkpoint, NoCheckpoint}
  BY Zenon DEF ChosenCheckpoint
<1>2. t.checkpoint \in CheckpointType /\ t.rotation.checkpoint \in CheckpointType
  BY DEF Task, RotationType
<1> QED
  BY <1>1, <1>2, Empties, Zenon

\* The record of an owner that was let go.
LEMMA SurrenderedIs ==
    ASSUME NEW t \in Task, NEW y, y = Surrendered(t)
    PROVE  /\ y \in Task
           /\ y.state = t.state /\ y.lease = 0 /\ y.wait = t.wait
           /\ y.surrender.id = t.rotation.id /\ y.surrender.wait = t.wait
           /\ y.surrender.lease = t.lease /\ y.surrender.checkpoint = ChosenCheckpoint(t)
           /\ y.limit = t.limit /\ y.ruling = t.ruling /\ y.rework = t.rework
           /\ y.rotation = NoRotation /\ y.restarts = t.restarts
           /\ y.checkpoint = t.checkpoint
<1> PICK c : c = ChosenCheckpoint(t)
  OBVIOUS
<1>1. PICK surrender : surrender = [id |-> t.rotation.id, lease |-> t.lease,
                                    checkpoint |-> c, wait |-> t.wait]
  OBVIOUS
<1>2. y = [t EXCEPT !.lease = 0, !.surrender = surrender, !.rotation = NoRotation,
                    !.error = FALSE]
  BY <1>1, Zenon DEF Surrendered
<1>3. t.rotation.id \in Nat /\ t.wait \in Waits /\ t.lease \in Nat
  BY DEF Task, RotationType
<1>9. c \in CheckpointType
  BY ChosenIs
<1>4. surrender \in SurrenderType
  BY <1>1, <1>3, <1>9 DEF SurrenderType
<1>5. /\ surrender.id = t.rotation.id /\ surrender.wait = t.wait
      /\ surrender.lease = t.lease /\ surrender.checkpoint = ChosenCheckpoint(t)
  BY <1>1
<1>6. y \in Task
  <2>1. PICK a : a = [t EXCEPT !.lease = 0, !.surrender = surrender]
    OBVIOUS
  <2>2. y = [a EXCEPT !.rotation = NoRotation, !.error = FALSE]
    BY <1>2, <2>1, Zenon
  <2>3. a \in Task
    BY <1>4, <2>1 DEF Task
  <2> QED
    BY <2>2, <2>3, Empties DEF Task
<1>7. y.surrender = surrender
  BY <1>2 DEF Task
<1>8. /\ y.state = t.state /\ y.lease = 0 /\ y.wait = t.wait
      /\ y.limit = t.limit /\ y.ruling = t.ruling /\ y.rework = t.rework
      /\ y.rotation = NoRotation /\ y.restarts = t.restarts
      /\ y.checkpoint = t.checkpoint
  BY <1>2 DEF Task
<1> QED
  BY <1>5, <1>6, <1>7, <1>8

\* The record of an owner that was asked to yield: the request has its id.
LEMMA RotatingIs ==
    ASSUME NEW t \in Task, t.state \in {"RUNNING", "WAITING"},
           t.rotation # NoRotation => t.rotation.id # 0,
           NEW id \in Nat, id # 0, NEW y, \E attach \in BOOLEAN : y = Rotating(t, id, attach)
    PROVE  /\ y \in Task
           /\ y.state = t.state /\ y.lease = t.lease
           /\ y.limit = t.limit /\ y.ruling = t.ruling /\ y.rework = t.rework
           /\ y.wait = t.wait /\ y.surrender = t.surrender
           /\ y.restarts = t.restarts /\ y.rotation.id # 0
           /\ y.checkpoint = t.checkpoint
           /\ t.rotation # NoRotation => y.rotation.id = t.rotation.id
           /\ y.rotation.checkpoint \in {NoCheckpoint, t.rotation.checkpoint, Attached}
<1> PICK attach \in BOOLEAN : y = Rotating(t, id, attach)
  OBVIOUS
<1> DEFINE new == [NoRotation EXCEPT !.id = id, !.lease = t.lease, !.from = t.state]
<1>1. PICK recorded : recorded = IF t.rotation # NoRotation THEN t.rotation ELSE new
  OBVIOUS
<1>2. PICK attached : attached = [recorded EXCEPT !.checkpoint = Attached]
  OBVIOUS
<1>3. PICK rotation : rotation = IF attach THEN attached ELSE recorded
  OBVIOUS
<1>4. y = [t EXCEPT !.rotation = rotation]
  BY <1>1, <1>2, <1>3, Zenon DEF Rotating
<1>5. t.rotation \in RotationType /\ t.lease \in Nat /\ Attached \in CheckpointType
      /\ NoRotation.checkpoint = NoCheckpoint
  BY Empties DEF Task, NoRotation
<1>6. new \in RotationType /\ new.id = id /\ new.checkpoint = NoCheckpoint
  <2>1. NoRotation \in RotationType
    BY Empties
  <2> QED
    BY <1>5, <2>1 DEF RotationType
<1> HIDE DEF new
<1>7. /\ recorded \in RotationType /\ recorded.id # 0
      /\ t.rotation # NoRotation => recorded.id = t.rotation.id
      /\ recorded.checkpoint \in {NoCheckpoint, t.rotation.checkpoint}
  <2>1. CASE t.rotation # NoRotation
    BY <1>1, <1>5, <2>1
  <2>2. CASE t.rotation = NoRotation
    BY <1>1, <1>6, <2>2
  <2> QED
    BY <2>1, <2>2
<1>8. attached \in RotationType /\ attached.id = recorded.id /\ attached.checkpoint = Attached
  BY <1>2, <1>5, <1>7 DEF RotationType
<1>9. /\ rotation \in RotationType /\ rotation.id # 0
      /\ t.rotation # NoRotation => rotation.id = t.rotation.id
      /\ rotation.checkpoint \in {NoCheckpoint, t.rotation.checkpoint, Attached}
  <2>1. CASE attach
    BY <1>3, <1>7, <1>8, <2>1
  <2>2. CASE ~attach
    BY <1>3, <1>7, <2>2
  <2> QED
    BY <2>1, <2>2
<1> QED
  BY <1>4, <1>9 DEF Task

-----------------------------------------------------------------------------
(* What a step has to show, by what it changes.                             *)

\* A place where the daemon relies on nothing.
Idle == {"down", "check", "sleep", "task", "route", "stop", "error", "errorCommit"}

\* Where the daemon relies on nothing, nothing has to hold.
LEMMA Idling ==
    ASSUME pc' \in Idle
    PROVE  Placed'
  BY DEF Idle, Placed, Locked

\* A step of the daemon that leaves the record and the workers alone.
LEMMA PassKeeps ==
    ASSUME IInv, UNCHANGED <<task, workers, view, world, past>>,
           pc' \in Places, snap' \in Task, obs' \in ReceiptType, plan' \in Plans,
           budget' \in Budget, control' \in Control,
           SnapSound', Placed', Drains'
    PROVE  IInv'
<1>1. TypeOK'
  BY DEF IInv, TypeOK, world
<1>2. Sound(task, Len(workers))'
  BY DEF IInv
<1>3. \A m \in Masters : ViewSound(m)'
  BY DEF IInv, ViewSound
<1>4. \A g \in DOMAIN workers' : WorkerSound(workers'[g]) /\ Held(g)'
  BY DEF IInv, Held
<1>5. Gone' /\ Ledger' /\ AcceptedAsRead'
  BY DEF IInv, Gone, Ledger, AcceptedAsRead, Dead
<1> QED
  BY <1>1, <1>2, <1>3, <1>4, <1>5 DEF IInv

\* ... and is done with the task.
LEMMA DoneKeeps ==
    ASSUME IInv, UNCHANGED <<task, control, workers, view, world, past>>, budget' \in Budget,
           pc' \in {"check", "down", "error"}, snap' = NewTask, obs' = NoReceipt, plan' = "none"
    PROVE  IInv'
<1>1. pc' \in Places /\ snap' \in Task /\ obs' \in ReceiptType /\ plan' \in Plans
      /\ control' \in Control
  BY Empties DEF Places, Plans, IInv, TypeOK
<1>2. Placed'
  BY Idling DEF Idle
<1>3. SnapSound'
  <2>1. /\ task' \in Task /\ task.rev \in Nat /\ Len(workers) \in Nat
    BY DEF IInv, TypeOK, Task
  <2>2. task.rev >= 1 /\ (task.rev = 1 => task = NewTask)
    BY DEF IInv, Sound
  <2>3. NewTask.rev = 1 /\ NewTask.lease = 0
    BY DEF NewTask
  <2> QED
    BY <2>1, <2>2, <2>3 DEF SnapSound
<1>4. Drains'
  BY DEF IInv, Drains
<1> QED
  BY <1>1, <1>2, <1>3, <1>4, PassKeeps

\* A worker that no longer needs its lease.
LetGo(g) ==
    /\ workers[g].proc \notin {"prepared", "queued"}
    /\ workers[g].proc = "running" => workers[g].receipt.status \in {"SUBMITTED", "FAILED"}

\* A commit that mints no lease.
LEMMA CommitKeeps ==
    ASSUME IInv, UNCHANGED <<control, workers, view, world>>,
           task' \in Task, task'.rev = task.rev + 1, Sound(task', Len(workers)),
           task'.lease = task.lease \/ task.lease = 0 \/ LetGo(task.lease),
           (task'.state = "WAITING" /\ task'.lease = 0) =>
              \/ task.state = "WAITING" /\ task.lease = 0
              \/ task.lease # 0 /\ Dead(task.lease),
           pc' \in Places, snap' \in {snap, NewTask, task'},
           obs' \in ReceiptType, plan' \in Plans, budget' \in Budget, past' \in Past,
           Placed', Ledger', AcceptedAsRead'
    PROVE  IInv'
<1>1. task \in Task /\ snap \in Task /\ task.rev \in Nat /\ snap.rev \in Nat
      /\ task'.rev \in Nat /\ workers \in Seq(WorkerType) /\ Len(workers) \in Nat
      /\ task.lease \in Nat /\ task'.lease \in Nat
  BY DEF IInv, TypeOK, Task
<1>2. TypeOK'
  BY <1>1, Empties DEF IInv, TypeOK, world
<1>3. Sound(task, Len(workers))'
  OBVIOUS
<1>4. SnapSound'
  <2>1. /\ snap.rev <= task.rev /\ snap.lease \in 0 .. Len(workers)
        /\ task.rev >= 1
    BY DEF IInv, SnapSound, Sound
  <2>2. NewTask.rev = 1 /\ NewTask.lease = 0
    BY DEF NewTask
  <2>3. task'.lease \in 0 .. Len(workers)
    BY <1>1 DEF Sound
  <2>4. CASE snap' = snap
    BY <1>1, <2>1, <2>4 DEF SnapSound
  <2>5. CASE snap' = NewTask
    BY <1>1, <2>1, <2>2, <2>5 DEF SnapSound
  <2>6. CASE snap' = task'
    BY <1>1, <2>3, <2>6 DEF SnapSound
  <2> QED
    BY <2>4, <2>5, <2>6
<1>5. \A m \in Masters : ViewSound(m)'
  <2> TAKE m \in Masters
  <2>1. view[m].rev \in Nat /\ view[m].rev <= task.rev /\ view' = view
    BY DEF IInv, TypeOK, View, ViewSound
  <2> QED
    BY <1>1, <2>1 DEF ViewSound
<1>6. \A g \in DOMAIN workers' : WorkerSound(workers'[g]) /\ Held(g)'
  <2> TAKE g \in DOMAIN workers'
  <2>1. WorkerSound(workers[g]) /\ Held(g)
    BY DEF IInv
  <2>2. CASE task'.lease = task.lease
    BY <2>1, <2>2 DEF Held
  <2>3. CASE task.lease # g \/ LetGo(task.lease)
    BY <2>1, <2>3 DEF Held, LetGo
  <2>4. g # 0
    BY <1>1
  <2> QED
    BY <2>2, <2>3, <2>4
<1>7. Gone'
  <2> SUFFICES ASSUME task'.state = "WAITING", task'.lease = 0
               PROVE  Len(workers) > 0 /\ Dead(Len(workers))'
    BY DEF Gone
  <2>1. CASE task.state = "WAITING" /\ task.lease = 0
    BY <2>1 DEF IInv, Gone, Dead
  <2>2. CASE task.lease # 0 /\ Dead(task.lease)
    <3>1. task.lease = Len(workers)
      BY <2>2 DEF IInv, Sound
    <3> QED
      BY <1>1, <2>2, <3>1 DEF Dead
  <2> QED
    BY <2>1, <2>2
<1>8. Drains'
  BY DEF IInv, Drains
<1> QED
  BY <1>2, <1>3, <1>4, <1>5, <1>6, <1>7, <1>8 DEF IInv

\* What a task owes and what is left to it, where neither is touched.
LEMMA LedgerSame ==
    ASSUME Ledger, UNCHANGED past, task'.restarts = task.restarts,
           task'.ruling = task.ruling, task'.rework = task.rework
    PROVE  Ledger'
  BY DEF Ledger, Unused

\* A step of somebody else while no dispatch holds the lock.
LEMMA SamePlace ==
    ASSUME Placed, ~Locked, UNCHANGED <<pc, snap, obs, plan, workers>>
    PROVE  Placed'
<1>1. pc' \notin {"fence", "launch", "wake", "send"}
  BY DEF Locked
<1>2. pc = "alive" => snap.state = "RUNNING" /\ snap.lease # 0
                      /\ (obs # NoReceipt => /\ obs = workers[snap.lease].receipt
                                             /\ obs.attempt = workers[snap.lease].attempt
                                             /\ workers[snap.lease].proc \in {"running", "dead"})
  BY DEF Placed
<1>3. pc = "commit" => MayDispatch(snap)
  BY DEF Placed
<1>4. pc' = "commit" => MayDispatch(snap)'
  BY <1>3 DEF MayDispatch, Dead, CleanSurrender
<1> QED
  BY <1>1, <1>2, <1>4 DEF Placed, Locked

-----------------------------------------------------------------------------
(* The steps, one by one: first those that only look.                       *)

\* Equal revisions are equal records.
LEMMA CurrentSnap ==
    ASSUME IInv, Current
    PROVE  snap = task
  BY DEF IInv, SnapSound, Current

\* A cost is paid from the budget.
LEMMA Spends ==
    ASSUME TypeOK, NEW kind \in {"decisions", "yields", "deaths", "stops", "faults", "crashes"},
           Spend(kind)
    PROVE  budget' \in Budget
<1>1. budget \in Budget /\ budget[kind] \in Nat /\ budget[kind] - 1 \in Nat
  BY DEF TypeOK, Budget, Spend
<1> QED
  BY <1>1 DEF Budget, Spend

\* The daemon starts, begins a pass, looks for a drain, fails to read, or stops a
\* replaced worker.
LEMMA DaemonLooks ==
    ASSUME IInv, StartDaemon \/ BeginPass \/ CheckDrained \/ ReadError \/ Fence
    PROVE  IInv'
<1> USE DEF world
<1>1. task \in Task /\ snap \in Task /\ obs \in ReceiptType /\ plan \in Plans
      /\ control \in Control /\ budget \in Budget /\ task.lease \in 0 .. Len(workers)
      /\ task.rev \in Nat /\ snap.rev \in Nat
  BY DEF IInv, TypeOK, Sound, Task
<1>2. SnapSound /\ Placed /\ Drains
  BY DEF IInv
<1>3. CASE StartDaemon
  <2>1. control' \in Control /\ control'.draining = FALSE
    BY <1>1, <1>3 DEF StartDaemon, Control
  <2>2. SnapSound' /\ Drains'
    BY <1>2, <1>3, <2>1 DEF StartDaemon, SnapSound, Drains
  <2>3. Placed' /\ pc' \in Places
    BY <1>3, Idling DEF StartDaemon, Idle, Places
  <2> QED
    BY <1>1, <1>3, <2>1, <2>2, <2>3, PassKeeps DEF StartDaemon
<1>4. CASE BeginPass \/ ReadError
  <2>1. SnapSound' /\ Drains'
    BY <1>1, <1>2, <1>4 DEF BeginPass, ReadError, SnapSound, Drains
  <2>2. Placed' /\ pc' \in Places
    BY <1>4, Idling DEF BeginPass, ReadError, Idle, Places
  <2> QED
    BY <1>1, <1>4, <2>1, <2>2, PassKeeps DEF BeginPass, ReadError
<1>5. CASE CheckDrained
  <2>1. SnapSound' /\ Drains'
    BY <1>2, <1>5 DEF CheckDrained, SnapSound, Drains
  <2>2. Placed' /\ pc' \in Places
    BY <1>5, Idling DEF CheckDrained, Idle, Places
  <2> QED
    BY <1>1, <1>5, <2>1, <2>2, PassKeeps DEF CheckDrained
<1>6. CASE Fence
  <2>1. SnapSound' /\ Drains'
    BY <1>2, <1>6 DEF Fence, SnapSound, Drains
  <2>2. Placed' /\ pc' \in Places
    BY <1>2, <1>6 DEF Fence, Placed, Locked, Places
  <2> QED
    BY <1>1, <1>6, <2>1, <2>2, PassKeeps DEF Fence
<1> QED
  BY <1>3, <1>4, <1>5, <1>6

\* The pass ends, or is ended, and nothing is committed.
LEMMA DaemonGivesUp ==
    ASSUME IInv,
           RouteNothing \/ CheckpointUnreadable \/ LeaveAlone \/ CommitRejected \/ StopWorker
           \/ KillDaemon
    PROVE  IInv'
<1> USE DEF world
<1>1. budget \in Budget /\ TypeOK
  BY DEF IInv, TypeOK
<1>2. CASE RouteNothing \/ LeaveAlone \/ CommitRejected \/ StopWorker
  BY <1>1, <1>2, DoneKeeps DEF RouteNothing, LeaveAlone, CommitRejected, StopWorker, Done
<1>3. CASE CheckpointUnreadable
  <2>1. budget' \in Budget
    BY <1>1, <1>3, Spends DEF CheckpointUnreadable
  <2> QED
    BY <1>3, <2>1, DoneKeeps DEF CheckpointUnreadable, Done
<1>4. CASE KillDaemon
  <2>1. budget' \in Budget
    BY <1>1, <1>4, Spends DEF KillDaemon
  <2> QED
    BY <1>4, <2>1, DoneKeeps DEF KillDaemon
<1> QED
  BY <1>2, <1>3, <1>4

\* A dispatch is routed on the record the pass has read.
LEMMA DaemonPlans ==
    ASSUME IInv, RouteDispatch \/ Adopt
    PROVE  IInv'
<1> USE DEF world
<1>1. snap \in Task /\ obs \in ReceiptType /\ control \in Control /\ budget \in Budget
  BY DEF IInv, TypeOK
<1>2. SnapSound /\ Placed /\ Drains
  BY DEF IInv
<1>3. UNCHANGED <<task, control, workers, snap, obs, view, world, budget, past>> /\ pc' = "commit"
  BY DEF RouteDispatch, Adopt
<1>4. SnapSound' /\ Drains' /\ pc' \in Places
  BY <1>2, <1>3 DEF SnapSound, Drains, Places
<1>5. MayDispatch(snap)'
  <2>1. CASE RouteDispatch /\ NeedsStart(snap)
    <3>1. plan' = "start"
      BY <2>1 DEF RouteDispatch
    <3> QED
      BY <1>3, <2>1, <3>1, Zenon DEF NeedsStart, MayDispatch, CleanSurrender
  <2>2. CASE RouteDispatch /\ ~NeedsStart(snap)
    <3>1. plan' = "resume" /\ NeedsResume(snap) /\ Dead(snap.lease)
      BY <2>2 DEF RouteDispatch
    <3> QED
      BY <1>3, <3>1 DEF NeedsResume, MayDispatch, Dead
  <2>3. CASE Adopt
    <3>1. plan' = "adopt" /\ snap.restarts < MaxRestarts /\ Dead(snap.lease) /\ pc = "alive"
      BY <2>3 DEF Adopt, DurablyDead
    <3> QED
      BY <1>2, <1>3, <3>1 DEF Placed, MayDispatch, Dead
  <2> QED
    BY <2>1, <2>2, <2>3
<1>6. Placed' /\ plan' \in Plans
  BY <1>3, <1>5 DEF Placed, Locked, MayDispatch, Plans
<1> QED
  BY <1>1, <1>3, <1>4, <1>6, PassKeeps

\* The receipt that is read is the one on disk, of a worker that has started.
LEMMA DaemonReads ==
    ASSUME IInv, ReadReceipt
    PROVE  IInv'
<1> USE DEF world
<1> DEFINE g == snap.lease
<1>1. snap \in Task /\ plan \in Plans /\ control \in Control /\ budget \in Budget
      /\ workers \in Seq(WorkerType)
  BY DEF IInv, TypeOK
<1>2. SnapSound /\ Drains /\ snap.state = "RUNNING" /\ snap.lease # 0
  BY DEF IInv, ReadReceipt
<1>3. g \in DOMAIN workers
  BY <1>1, <1>2 DEF SnapSound
<1>4. workers[g] \in WorkerType /\ WorkerSound(workers[g])
  BY <1>1, <1>3 DEF IInv
<1>5. UNCHANGED <<task, control, workers, snap, plan, view, world, budget, past>> /\ pc' = "alive"
  BY DEF ReadReceipt
<1>6. SnapSound' /\ Drains' /\ pc' \in Places
  BY <1>2, <1>5 DEF SnapSound, Drains, Places
<1>7. obs' = IF Applicable(g) THEN workers[g].receipt ELSE NoReceipt
  BY DEF ReadReceipt
<1>8. obs' \in ReceiptType
  BY <1>4, <1>7, Empties DEF WorkerType
<1>9. obs' # NoReceipt => /\ obs' = workers[g].receipt
                          /\ obs'.attempt = workers[g].attempt
                          /\ workers[g].proc \in {"running", "dead"}
  <2>1. Applicable(g) => /\ workers[g].proc \in {"running", "dead"}
                         /\ workers[g].receipt.attempt = workers[g].attempt
    BY <1>4 DEF Applicable, WorkerType, WorkerSound
  <2> QED
    BY <1>7, <2>1
<1>10. Placed'
  BY <1>2, <1>5, <1>9 DEF Placed, Locked
<1> QED
  BY <1>1, <1>5, <1>6, <1>8, <1>10, PassKeeps

-----------------------------------------------------------------------------
(* The commits of a pass that start nobody.                                 *)

\* Types a pass that ends leaves.
LEMMA DoneTypes ==
    ASSUME IInv, Done
    PROVE  /\ pc' \in Places /\ snap' \in {snap, NewTask, task'}
           /\ obs' \in ReceiptType /\ plan' \in Plans /\ Placed'
  BY Empties, Idling DEF Done, Places, Plans, Idle

\* A dead owner with its checkpoint gives up its lease.
LEMMA SurrenderKeeps ==
    ASSUME IInv, Surrender
    PROVE  IInv'
<1> USE DEF world
<1>1. TypeOK /\ task \in Task /\ task.rev \in Nat /\ budget \in Budget /\ past \in Past
  BY DEF IInv, TypeOK, Task
<1>2. CASE ~Current
  BY <1>1, <1>2, DoneKeeps DEF Surrender, Done
<1>3. CASE Current
  <2>1. snap = task
    BY <1>3, CurrentSnap
  <2>2. PICK y : y = Surrendered(task)
    OBVIOUS
  <2>3. Commit(y) /\ Done /\ UNCHANGED <<control, workers, view, world, budget, past>>
    BY <1>3, <2>2 DEF Surrender
  <2>4. /\ y \in Task /\ y.state = task.state /\ y.lease = 0 /\ y.wait = task.wait
        /\ y.surrender.id = task.rotation.id /\ y.surrender.wait = task.wait
        /\ y.surrender.lease = task.lease
        /\ y.surrender.checkpoint = ChosenCheckpoint(task)
        /\ y.limit = task.limit /\ y.ruling = task.ruling /\ y.rework = task.rework
        /\ y.rotation = NoRotation /\ y.restarts = task.restarts
    BY <1>1, <2>2, SurrenderedIs
  <2>5. /\ task.state = "WAITING" /\ task.lease # 0 /\ task.rotation # NoRotation
        /\ Dead(task.lease) /\ ChosenCheckpoint(task) # NoCheckpoint
    BY <2>1 DEF Surrender, Yielding, Checkpointed
  <2>6. Sound(task, Len(workers)) /\ Ledger
    BY DEF IInv
  <2>7. /\ task' \in Task /\ task'.rev = task.rev + 1
        /\ task'.state = "WAITING" /\ task'.lease = 0 /\ task'.wait = task.wait
        /\ task'.surrender.id = task.rotation.id /\ task'.surrender.wait = task.wait
        /\ task'.surrender.lease # 0 /\ task'.surrender.checkpoint # NoCheckpoint
        /\ task'.limit = task.limit /\ task'.ruling = task.ruling
        /\ task'.rework = task.rework
        /\ task'.rotation = NoRotation /\ task'.restarts = task.restarts
    BY <1>1, <2>3, <2>4, <2>5, CommitOf
  <2>8. Sound(task', Len(workers))
    BY <1>1, <2>5, <2>6, <2>7 DEF Sound, CleanSurrender
  <2>9. Ledger' /\ AcceptedAsRead'
    BY <2>3, <2>6, <2>7, LedgerSame DEF AcceptedAsRead
  <2>10. LetGo(task.lease)
    BY <2>5 DEF LetGo, Dead
  <2> QED
    BY <1>1, <2>3, <2>5, <2>7, <2>8, <2>9, <2>10, DoneTypes, CommitKeeps
<1> QED
  BY <1>2, <1>3

\* The owner yields with a receipt, or is paused at the limit: it keeps the lease.
LEMMA YieldKeeps ==
    ASSUME IInv, ApplyYield \/ PauseAtLimit
    PROVE  IInv'
<1> USE DEF world
<1>1. /\ TypeOK /\ task \in Task /\ task.rev \in Nat /\ budget \in Budget /\ past \in Past
      /\ obs \in ReceiptType
  BY DEF IInv, TypeOK, Task
<1>2. Done /\ UNCHANGED <<control, workers, view, world, budget, past>>
  BY DEF ApplyYield, PauseAtLimit
<1>3. CASE UNCHANGED task
  BY <1>1, <1>2, <1>3, DoneKeeps DEF Done
<1>4. ASSUME Current, NEW y, y \in {Yielded(task, obs), Paused(task)}, Commit(y)
      PROVE  IInv'
  <2>1. snap = task /\ pc = "alive"
    BY <1>4, CurrentSnap DEF ApplyYield, PauseAtLimit, DurablyDead
  <2>2. /\ y \in Task /\ y.state = "WAITING" /\ y.lease = task.lease
        /\ y.limit \in {TRUE, task.limit} /\ y.ruling = task.ruling /\ y.rework = task.rework
        /\ y.rotation = task.rotation /\ y.restarts = task.restarts
    <3>1. CASE y = Yielded(task, obs)
      <4>1. /\ y \in Task /\ y.state = "WAITING" /\ y.lease = task.lease
            /\ y.limit = task.limit /\ y.ruling = task.ruling /\ y.rework = task.rework
            /\ y.rotation = task.rotation /\ y.restarts = task.restarts
        BY <1>1, <3>1, YieldedIs
      <4> QED
        BY <4>1
    <3>2. CASE y = Paused(task)
      BY <1>1, <3>2, PausedIs
    <3> QED
      BY <1>4, <3>1, <3>2
  <2>3. Sound(task, Len(workers)) /\ Ledger /\ task.state = "RUNNING" /\ task.lease # 0
    BY <2>1 DEF IInv, Placed
  <2>4. /\ task' \in Task /\ task'.rev = task.rev + 1
        /\ task'.state = "WAITING" /\ task'.lease = task.lease
        /\ task'.ruling = task.ruling
        /\ task'.rework = task.rework
        /\ task'.rotation = task.rotation /\ task'.restarts = task.restarts
    BY <1>1, <1>4, <2>2, CommitOf
  <2>5. Sound(task', Len(workers))
    BY <1>1, <2>3, <2>4 DEF Sound
  <2>6. Ledger' /\ AcceptedAsRead'
    BY <1>2, <2>3, <2>4, LedgerSame DEF AcceptedAsRead
  <2> QED
    BY <1>1, <1>2, <2>3, <2>4, <2>5, <2>6, DoneTypes, CommitKeeps
<1> QED
  BY <1>3, <1>4 DEF ApplyYield, PauseAtLimit

\* A final receipt gives the lease up; the worker that wrote it needs it no more.
LEMMA FinalKeeps ==
    ASSUME IInv, ApplyFinal
    PROVE  IInv'
<1> USE DEF world
<1>1. /\ TypeOK /\ task \in Task /\ task.rev \in Nat /\ budget \in Budget /\ past \in Past
      /\ obs \in ReceiptType /\ plan \in Plans
  BY DEF IInv, TypeOK, Task
<1>2. UNCHANGED <<control, workers, view, world, budget, past>>
  BY DEF ApplyFinal
<1>3. CASE Done /\ UNCHANGED task
  BY <1>1, <1>2, <1>3, DoneKeeps DEF Done
<1>4. CASE Current /\ Commit(Finished(task, obs)) /\ pc' = "stop" /\ UNCHANGED <<snap, obs, plan>>
  <2>1. snap = task /\ pc = "alive" /\ obs.status \in {"SUBMITTED", "FAILED"}
    BY <1>4, CurrentSnap DEF ApplyFinal
  <2>2. PICK y : y = Finished(task, obs)
    OBVIOUS
  <2>3. /\ y \in Task /\ y.state = obs.status /\ y.lease = 0
        /\ y.limit = task.limit /\ y.ruling = task.ruling /\ y.rework = task.rework
        /\ y.rotation = NoRotation /\ y.restarts = task.restarts
    BY <1>1, <2>1, <2>2, FinishedIs
  <2>4. Sound(task, Len(workers)) /\ Ledger /\ task.state = "RUNNING" /\ task.lease # 0
    BY <2>1 DEF IInv, Placed
  <2>5. obs # NoReceipt
    BY <2>1 DEF NoReceipt
  <2>6. LetGo(task.lease)
    BY <2>1, <2>5 DEF IInv, Placed, LetGo
  <2>7. /\ task' \in Task /\ task'.rev = task.rev + 1
        /\ task'.state \in {"SUBMITTED", "FAILED"} /\ task'.lease = 0
        /\ task'.limit = task.limit /\ task'.ruling = task.ruling /\ task'.rework = task.rework
        /\ task'.rotation = NoRotation /\ task'.restarts = task.restarts
    BY <1>1, <1>4, <2>1, <2>2, <2>3, CommitOf
  <2>8. Sound(task', Len(workers))
    BY <1>1, <2>4, <2>7 DEF Sound
  <2>9. Ledger' /\ AcceptedAsRead'
    BY <1>2, <2>4, <2>7, LedgerSame DEF AcceptedAsRead
  <2>10. Placed' /\ pc' \in Places
    BY <1>4, Idling DEF Idle, Places
  <2>11. task'.state # "WAITING"
    BY <2>7
  <2> QED
    BY <1>1, <1>2, <1>4, <2>6, <2>7, <2>8, <2>9, <2>10, <2>11, CommitKeeps
<1> QED
  BY <1>3, <1>4 DEF ApplyFinal

\* An executor error is put on record or settled.
LEMMA ErrorKeeps ==
    ASSUME IInv, Heartbeat \/ RecordError
    PROVE  IInv'
<1> USE DEF world
<1>1. /\ TypeOK /\ task \in Task /\ task.rev \in Nat /\ budget \in Budget /\ past \in Past
  BY DEF IInv, TypeOK, Task
<1>2. Done /\ UNCHANGED <<control, workers, view, world, budget, past>>
  BY DEF Heartbeat, RecordError
<1>3. CASE UNCHANGED task
  BY <1>1, <1>2, <1>3, DoneKeeps DEF Done
<1>4. ASSUME NEW e \in BOOLEAN, Commit([task EXCEPT !.error = e])
      PROVE  IInv'
  <2>1. PICK y : y = [task EXCEPT !.error = e]
    OBVIOUS
  <2>2. y \in Task
    BY <1>1, <2>1 DEF Task
  <2>3. /\ y.state = task.state /\ y.lease = task.lease /\ y.wait = task.wait
        /\ y.surrender = task.surrender
        /\ y.limit = task.limit /\ y.ruling = task.ruling /\ y.rework = task.rework
        /\ y.rotation = task.rotation /\ y.restarts = task.restarts
        /\ y.contract = task.contract /\ y.accepted = task.accepted
    BY <1>1, <2>1 DEF Task
  <2>4. Sound(task, Len(workers)) /\ Ledger /\ AcceptedAsRead
    BY DEF IInv
  <2>5. Commit(y)
    BY <1>4, <2>1
  <2>6. /\ task' \in Task /\ task'.rev = task.rev + 1
        /\ task'.state = task.state /\ task'.lease = task.lease /\ task'.wait = task.wait
        /\ task'.surrender = task.surrender
        /\ task'.limit = task.limit /\ task'.ruling = task.ruling /\ task'.rework = task.rework
        /\ task'.rotation = task.rotation /\ task'.restarts = task.restarts
        /\ task'.contract = task.contract /\ task'.accepted = task.accepted
    BY <1>1, <2>2, <2>3, <2>5, CommitOf
  <2>7. Sound(task', Len(workers))
    BY <1>1, <2>4, <2>6 DEF Sound, CleanSurrender
  <2>8. Ledger'
    BY <1>2, <2>4, <2>6, LedgerSame
  <2>9. AcceptedAsRead'
    BY <1>2, <2>4, <2>6 DEF AcceptedAsRead
  <2> QED
    BY <1>1, <1>2, <2>6, <2>7, <2>8, <2>9, DoneTypes, CommitKeeps
<1> QED
  BY <1>3, <1>4 DEF Heartbeat, RecordError

\* A drain asks the owner to yield, under the id of the drain.
LEMMA AskKeeps ==
    ASSUME IInv, AskRotation
    PROVE  IInv'
<1> USE DEF world
<1>1. /\ TypeOK /\ task \in Task /\ task.rev \in Nat /\ budget \in Budget /\ past \in Past
      /\ obs \in ReceiptType /\ plan \in Plans /\ control.id \in Nat
  BY DEF IInv, TypeOK, Task, Control
<1>2. UNCHANGED <<control, workers, view, world, budget, past>>
  BY DEF AskRotation
<1>3. CASE Done /\ UNCHANGED task
  BY <1>1, <1>2, <1>3, DoneKeeps DEF Done
<1>4. CASE Current /\ Commit(Rotating(task, control.id, FALSE)) /\ snap' = task' /\ pc' = "route"
           /\ UNCHANGED <<obs, plan>>
  <2>1. snap = task
    BY <1>4, CurrentSnap
  <2>2. Sound(task, Len(workers)) /\ Ledger /\ control.id # 0 /\ task.lease # 0
    BY <2>1 DEF IInv, AskRotation, MustRotate, Drains
  <2>3. task.state \in {"RUNNING", "WAITING"} /\ (task.rotation # NoRotation => task.rotation.id # 0)
    BY <2>2 DEF Sound
  <2>4. PICK y : y = Rotating(task, control.id, FALSE)
    OBVIOUS
  <2>10. \E attach \in BOOLEAN : y = Rotating(task, control.id, attach)
    <3> WITNESS FALSE \in BOOLEAN
    <3> QED
      BY <2>4, Zenon
  <2>5. /\ y \in Task
        /\ y.state = task.state /\ y.lease = task.lease
        /\ y.limit = task.limit /\ y.ruling = task.ruling /\ y.rework = task.rework
        /\ y.restarts = task.restarts /\ y.rotation.id # 0
    BY <1>1, <2>2, <2>3, <2>10, RotatingIs
  <2>6. /\ task' \in Task /\ task'.rev = task.rev + 1
        /\ task'.state = task.state /\ task'.lease = task.lease
        /\ task'.limit = task.limit /\ task'.ruling = task.ruling /\ task'.rework = task.rework
        /\ task'.restarts = task.restarts /\ task'.rotation.id # 0
    BY <1>1, <1>4, <2>4, <2>5, CommitOf
  <2>7. Sound(task', Len(workers))
    BY <1>1, <2>2, <2>6 DEF Sound
  <2>8. Ledger' /\ AcceptedAsRead'
    BY <1>2, <2>2, <2>3, <2>6, LedgerSame DEF AcceptedAsRead
  <2>9. Placed' /\ pc' \in Places
    BY <1>4, Idling DEF Idle, Places
  <2> QED
    BY <1>1, <1>2, <1>4, <2>2, <2>6, <2>7, <2>8, <2>9, CommitKeeps
<1> QED
  BY <1>3, <1>4 DEF AskRotation

\* M pays for one release more.
LEMMA Pays ==
    ASSUME NEW M \in Nat, NEW r \in Nat, NEW u \in 0 .. 1, u <= r
    PROVE  M * (r - u) <= M * r /\ M * (r - u) \in Nat /\ M * (r + 1 - 1) = M * r
           /\ (u = 1 => M * (r - u) + M <= M * r)
<1>1. CASE u = 0
  BY <1>1
<1>2. CASE u = 1
  <2>1. PICK k \in Nat : r = k + 1
    BY <1>2
  <2>2. M * k \in Nat /\ M * (k + 1) = M * k + M
    BY <2>1
  <2> QED
    BY <1>2, <2>1, <2>2
<1> QED
  BY <1>1, <1>2

\* A release that is used: the budget of restarts starts again, at zero.
LEMMA LedgerReset ==
    ASSUME IInv, Unused(task) = 1 \/ task'.restarts = task.restarts,
           task'.ruling = FALSE, task'.rework = FALSE, task'.restarts \in {0, task.restarts},
           past'.adoptions = past.adoptions, past'.releases = past.releases
    PROVE  Ledger'
<1>1. /\ task.restarts \in Nat /\ past.adoptions \in Nat /\ past.releases \in Nat
      /\ MaxRestarts \in Nat
  BY ReconcilerAssumption DEF IInv, TypeOK, Task, Past
<1>2. Unused(task)' = 0 /\ Unused(task) \in 0 .. 1
  BY DEF Unused
<1>3. task.restarts <= MaxRestarts /\ Unused(task) <= past.releases
      /\ past.adoptions <= task.restarts + MaxRestarts * (past.releases - Unused(task))
  BY DEF IInv, Ledger
<1>4. /\ MaxRestarts * (past.releases - Unused(task)) <= MaxRestarts * past.releases
      /\ MaxRestarts * (past.releases - Unused(task)) \in Nat
      /\ MaxRestarts * past.releases \in Nat
      /\ Unused(task) = 1 => MaxRestarts * (past.releases - Unused(task)) + MaxRestarts
                             <= MaxRestarts * past.releases
  BY <1>1, <1>2, <1>3, Pays
<1>5. past.releases - 0 = past.releases
  BY <1>1
<1>6. task'.restarts <= MaxRestarts
      /\ past.adoptions <= task'.restarts + MaxRestarts * past.releases
  <2> DEFINE p == MaxRestarts * (past.releases - Unused(task))
             q == MaxRestarts * past.releases
  <2>1. p \in Nat /\ q \in Nat /\ p <= q /\ past.adoptions <= task.restarts + p
        /\ (Unused(task) = 1 => p + MaxRestarts <= q)
    BY <1>3, <1>4
  <2> HIDE DEF p, q
  <2>2. task'.restarts <= MaxRestarts /\ past.adoptions <= task'.restarts + q
    BY <1>1, <1>3, <2>1
  <2> QED
    BY <2>2 DEF q
<1> QED
  BY <1>1, <1>2, <1>3, <1>5, <1>6 DEF Ledger

\* The same owner runs again.
LEMMA ResumeKeeps ==
    ASSUME IInv, CommitResume
    PROVE  IInv'
<1> USE DEF world
<1>1. /\ TypeOK /\ task \in Task /\ task.rev \in Nat /\ budget \in Budget /\ past \in Past
      /\ obs \in ReceiptType /\ plan \in Plans
  BY DEF IInv, TypeOK, Task
<1>2. /\ Current /\ ~control.draining /\ plan = "resume" /\ pc = "commit" /\ pc' = "wake"
      /\ UNCHANGED <<control, workers, snap, obs, plan, view, world, budget>>
      /\ past' = [past EXCEPT !.served = @ /\ ~task.ruling]
  BY DEF CommitResume, Admitted
<1>3. snap = task
  BY <1>2, CurrentSnap
<1>4. /\ task.state = "WAITING" /\ task.lease # 0 /\ (task.limit => task.ruling)
      /\ Dead(task.lease)
  BY <1>2, <1>3 DEF IInv, Placed, MayDispatch
<1>5. Sound(task, Len(workers)) /\ Ledger
  BY DEF IInv
<1>6. PICK y : y = Resumed(task)
  OBVIOUS
<1>7. Commit(y)
  BY <1>6 DEF CommitResume
<1>8. /\ y \in Task
      /\ y.state = "RUNNING" /\ y.lease = task.lease
      /\ y.ruling = FALSE /\ y.limit = FALSE
      /\ y.rework = task.rework /\ y.rotation = task.rotation
      /\ y.restarts = IF task.limit THEN 0 ELSE task.restarts
  BY <1>1, <1>6, ResumedIs
<1>9. /\ task' \in Task /\ task'.rev = task.rev + 1
      /\ task'.state = "RUNNING" /\ task'.lease = task.lease
      /\ task'.ruling = FALSE /\ task'.limit = FALSE
      /\ task'.rework = task.rework /\ task'.rotation = task.rotation
      /\ task'.restarts = IF task.limit THEN 0 ELSE task.restarts
  BY <1>1, <1>7, <1>8, CommitOf
<1>10. Sound(task', Len(workers))
  BY <1>1, <1>4, <1>5, <1>9 DEF Sound
<1>11. past' \in Past /\ past'.adoptions = past.adoptions /\ past'.releases = past.releases
  <2>1. (past.served /\ ~task.ruling) \in BOOLEAN
    OBVIOUS
  <2> QED
    BY <1>1, <1>2, <2>1 DEF Past
<1>12. Ledger'
  <2>1. task.rework = FALSE
    BY <1>1, <1>4, <1>5 DEF Sound, Task
  <2>2. Unused(task) = 1 \/ task'.restarts = task.restarts
    BY <1>4, <1>9 DEF Unused
  <2> QED
    BY <1>9, <1>11, <2>1, <2>2, LedgerReset
<1>13. task.lease = Len(workers) /\ Len(workers) > 0 /\ workers[Len(workers)].proc = "dead"
  BY <1>4, <1>5 DEF Sound, Dead, IInv, TypeOK
<1>14. Placed'
  BY <1>2, <1>9, <1>13 DEF Placed, Locked
<1>15. AcceptedAsRead' /\ pc' \in Places
  BY <1>2, <1>9 DEF AcceptedAsRead, Places
<1> QED
  BY <1>1, <1>2, <1>9, <1>10, <1>11, <1>12, <1>14, <1>15, CommitKeeps

-----------------------------------------------------------------------------
(* The dispatch: a lease is minted, and its worker started.                 *)

\* Whoever the task is dispatched from, a new owner replaces nobody that may run.
LEMMA Replaces ==
    ASSUME IInv, MayDispatch(task), plan \in {"start", "adopt"}
    PROVE  /\ task.lease = 0 \/ Dead(task.lease)
           /\ plan = "start" => task.lease = 0
           /\ plan = "adopt" => task.state = "RUNNING" /\ task.restarts < MaxRestarts
           /\ CleanSurrender(task) \/ (~task.ruling /\ ~task.limit)
           /\ task.limit => task.ruling
<1>1. Sound(task, Len(workers)) /\ task \in Task
  BY DEF IInv, TypeOK
<1>2. CASE plan = "start"
  BY <1>1, <1>2 DEF MayDispatch, Sound, CleanSurrender
<1>3. CASE plan = "adopt"
  BY <1>1, <1>3 DEF MayDispatch, Sound
<1> QED
  BY <1>2, <1>3

\* The record of the new owner.
LEMMA StartRecord ==
    ASSUME IInv, CommitStart
    PROVE  /\ Current /\ snap = task /\ MayDispatch(task)
           /\ task' \in Task /\ task'.rev = task.rev + 1
           /\ task'.state = "RUNNING" /\ task'.lease = Len(workers) + 1
           /\ ~task'.rework /\ ~task'.ruling /\ ~task'.limit
           /\ task'.rotation # NoRotation => task'.rotation.id # 0
           /\ task'.rotation \in {NoRotation, task.rotation}
           /\ task'.checkpoint = NoCheckpoint
           /\ task'.restarts = IF task.rework \/ (CleanSurrender(task) /\ task.limit /\ task.ruling)
                               THEN 0
                               ELSE IF plan = "adopt" THEN task.restarts + 1 ELSE task.restarts
<1>1. TypeOK /\ task \in Task
  BY DEF IInv, TypeOK
<1>2. Current /\ pc = "commit" /\ plan \in {"start", "adopt"}
  BY DEF CommitStart, Admitted
<1>3. snap = task
  BY <1>2, CurrentSnap
<1>4. MayDispatch(task)
  BY <1>2, <1>3 DEF IInv, Placed
<1>5. /\ CleanSurrender(task) \/ (~task.ruling /\ ~task.limit)
      /\ task.limit => task.ruling
  BY <1>2, <1>4, Replaces
<1>6. Sound(task, Len(workers))
  BY DEF IInv
<1> DEFINE Fields(y, b) ==
      /\ y.state = "RUNNING" /\ y.lease = Len(workers) + 1
      /\ y.rework = FALSE
      /\ y.ruling = IF CleanSurrender(task) THEN FALSE ELSE task.ruling
      /\ y.limit = IF CleanSurrender(task) /\ task.ruling THEN FALSE ELSE task.limit
      /\ y.rotation = IF CleanSurrender(task) THEN NoRotation ELSE task.rotation
      /\ y.restarts = IF task.rework \/ (CleanSurrender(task) /\ task.limit /\ task.ruling)
                      THEN 0
                      ELSE IF b THEN task.restarts + 1 ELSE task.restarts
      /\ y.checkpoint = NoCheckpoint
<1>7. PICK y : y = Started(task, plan = "adopt")
  OBVIOUS
<1>8. Commit(y)
  BY <1>7 DEF CommitStart
<1>9. y \in Task /\ Fields(y, plan = "adopt")
  <2>1. CASE plan = "adopt"
    <3>1. y = Started(task, TRUE)
      BY <1>7, <2>1
    <3>2. y \in Task /\ Fields(y, TRUE)
      BY <1>1, <3>1, StartedIs, Zenon
    <3> QED
      BY <2>1, <3>2
  <2>2. CASE plan = "start"
    <3>1. y = Started(task, FALSE)
      BY <1>7, <2>2
    <3>2. y \in Task /\ Fields(y, FALSE)
      BY <1>1, <3>1, StartedIs, Zenon
    <3> QED
      BY <2>2, <3>2
  <2> QED
    BY <1>2, <2>1, <2>2
<1>10. /\ task' \in Task /\ task'.rev = task.rev + 1
       /\ task'.state = y.state /\ task'.lease = y.lease
       /\ task'.restarts = y.restarts /\ task'.limit = y.limit
       /\ task'.ruling = y.ruling /\ task'.rework = y.rework /\ task'.rotation = y.rotation
       /\ task'.checkpoint = y.checkpoint
  BY <1>1, <1>8, <1>9, CommitOf
<1>11. ~y.ruling /\ ~y.limit /\ ~y.rework
  BY <1>5, <1>9
<1>12. y.rotation # NoRotation => y.rotation.id # 0
  BY <1>6, <1>9 DEF Sound
<1>13. y.rotation \in {NoRotation, task.rotation}
  BY <1>9
<1> QED
  BY <1>2, <1>3, <1>4, <1>9, <1>10, <1>11, <1>12, <1>13

\* What the restarts have cost, after the new owner is on record.
LEMMA StartLedger ==
    ASSUME IInv, CommitStart
    PROVE  past' \in Past /\ Ledger'
<1>1. plan \in {"start", "adopt"} /\ past \in Past /\ task \in Task
      /\ past' = [past EXCEPT !.adoptions = IF plan = "adopt" THEN @ + 1 ELSE @,
                              !.served = @ /\ ~(CleanSurrender(task) /\ task.ruling)]
  BY DEF CommitStart, IInv, TypeOK
<1>2. /\ MayDispatch(task) /\ ~task'.rework /\ ~task'.ruling
      /\ task'.restarts = IF task.rework \/ (CleanSurrender(task) /\ task.limit /\ task.ruling)
                          THEN 0
                          ELSE IF plan = "adopt" THEN task.restarts + 1 ELSE task.restarts
      /\ task' \in Task
  BY StartRecord
<1>3. PICK adoptions \in Nat :
        adoptions = IF plan = "adopt" THEN past.adoptions + 1 ELSE past.adoptions
  BY <1>1 DEF Past
<1>4. PICK served \in BOOLEAN :
        served = (past.served /\ ~(CleanSurrender(task) /\ task.ruling))
  OBVIOUS
<1>5. past' = [past EXCEPT !.adoptions = adoptions, !.served = served]
  BY <1>1, <1>3, <1>4, Zenon
<1>6. past' \in Past /\ past'.adoptions = adoptions /\ past'.releases = past.releases
  BY <1>1, <1>5 DEF Past
<1>7. task'.rework = FALSE /\ task'.ruling = FALSE
  BY <1>2 DEF Task
<1>8. CASE plan = "start"
  <2>1. Unused(task) = 1 \/ task'.restarts = task.restarts
    BY <1>2, <1>8 DEF Unused
  <2>2. task'.restarts \in {0, task.restarts}
    BY <1>2, <1>8
  <2>3. Ledger'
    BY <1>3, <1>6, <1>7, <1>8, <2>1, <2>2, LedgerReset
  <2> QED
    BY <1>6, <2>3
<1>9. CASE plan = "adopt"
  <2>1. task.state = "RUNNING" /\ task.restarts < MaxRestarts
    BY <1>1, <1>2, <1>9, Replaces
  <2>2. ~task.ruling /\ ~task.rework /\ ~CleanSurrender(task)
    BY <2>1 DEF IInv, Sound, CleanSurrender
  <2>3. task'.restarts = task.restarts + 1
    BY <1>2, <1>9, <2>2
  <2>4. Unused(task) = 0 /\ Unused(task)' = 0
    BY <1>7, <2>2 DEF Unused
  <2>5. /\ task.restarts \in Nat /\ past.adoptions \in Nat /\ past.releases \in Nat
        /\ MaxRestarts \in Nat
    BY <1>1, ReconcilerAssumption DEF Task, Past
  <2>6. past.adoptions <= task.restarts + MaxRestarts * (past.releases - 0)
    BY <2>4 DEF IInv, Ledger
  <2>7. PICK p : p = MaxRestarts * (past.releases - 0)
    OBVIOUS
  <2>8. p \in Nat
    BY <2>5, <2>7
  <2>9. past'.adoptions <= task'.restarts + p /\ task'.restarts <= MaxRestarts
    BY <1>3, <1>6, <1>9, <2>1, <2>3, <2>5, <2>6, <2>7, <2>8
  <2>10. Ledger'
    BY <1>6, <2>4, <2>5, <2>7, <2>9 DEF Ledger
  <2> QED
    BY <1>6, <2>10
<1> QED
  BY <1>1, <1>8, <1>9

\* A start or an adoption mints a lease, and counts what it costs.
LEMMA StartKeeps ==
    ASSUME IInv, CommitStart
    PROVE  IInv'
<1> USE DEF world
<1>1. /\ TypeOK /\ task \in Task /\ task.rev \in Nat /\ task.lease \in Nat
      /\ workers \in Seq(WorkerType) /\ Len(workers) \in Nat
  BY DEF IInv, TypeOK, Task
<1>2. /\ plan \in {"start", "adopt"} /\ ~control.draining
      /\ workers' = Append(workers, NoWorker)
      /\ pc' \in {"fence", "launch"}
      /\ UNCHANGED <<control, snap, obs, plan, view, world, budget>>
  BY DEF CommitStart, Admitted
<1>3. /\ snap = task /\ MayDispatch(task)
      /\ task' \in Task /\ task'.rev = task.rev + 1
      /\ task'.state = "RUNNING" /\ task'.lease = Len(workers) + 1
      /\ ~task'.rework /\ ~task'.ruling /\ ~task'.limit
      /\ task'.rotation # NoRotation => task'.rotation.id # 0
  BY StartRecord
<1>4. task.lease = 0 \/ Dead(task.lease)
  BY <1>2, <1>3, Replaces
<1>5. /\ workers' \in Seq(WorkerType) /\ Len(workers') = Len(workers) + 1
      /\ workers'[Len(workers')] = NoWorker
      /\ \A g \in DOMAIN workers : workers'[g] = workers[g]
  BY <1>1, <1>2, Empties
<1>6. past' \in Past /\ Ledger'
  BY StartLedger
<1>7. TypeOK'
  BY <1>1, <1>2, <1>3, <1>5, <1>6 DEF TypeOK, Places
<1>8. Sound(task, Len(workers))'
  BY <1>1, <1>3, <1>5 DEF Sound, IInv
<1>9. SnapSound'
  <2>1. task.lease \in 0 .. Len(workers)
    BY <1>1 DEF IInv, Sound
  <2> QED
    BY <1>1, <1>2, <1>3, <1>5, <2>1 DEF SnapSound
<1>10. \A m \in Masters : ViewSound(m)'
  <2> TAKE m \in Masters
  <2>1. view[m].rev \in Nat /\ view[m].rev <= task.rev /\ view' = view
    BY <1>2 DEF IInv, TypeOK, View, ViewSound
  <2> QED
    BY <1>1, <1>3, <2>1 DEF ViewSound
<1>11. \A g \in DOMAIN workers' : WorkerSound(workers'[g]) /\ Held(g)'
  <2> TAKE g \in DOMAIN workers'
  <2>1. CASE g \in DOMAIN workers
    <3>1. WorkerSound(workers[g]) /\ Held(g) /\ workers'[g] = workers[g] /\ g # 0
      BY <1>1, <1>5, <2>1 DEF IInv
    <3>2. task.lease # g \/ workers[g].proc = "dead"
      BY <1>4, <3>1 DEF Dead
    <3> QED
      BY <3>1, <3>2 DEF Held
  <2>2. CASE g = Len(workers')
    <3>1. workers'[g].proc = "none" /\ workers'[g].receipt = NoReceipt
      BY <1>5, <2>2 DEF NoWorker
    <3> QED
      BY <3>1 DEF WorkerSound, Held
  <2> QED
    BY <1>1, <1>5, <2>1, <2>2
<1>12. Placed'
  <2>1. workers'[Len(workers')].proc = "none" /\ Len(workers') > 0
    BY <1>1, <1>5 DEF NoWorker
  <2> QED
    BY <1>2, <1>3, <1>5, <2>1 DEF Placed, Locked
<1>13. Gone' /\ Drains' /\ AcceptedAsRead'
  BY <1>2, <1>3 DEF Gone, Drains, AcceptedAsRead, IInv
<1> QED
  BY <1>6, <1>7, <1>8, <1>9, <1>10, <1>11, <1>12, <1>13 DEF IInv

-----------------------------------------------------------------------------
(* The workers: one of them changes.                                        *)

\* A worker that was sent or runs, moves on: it runs, has reported, or is gone.
LEMMA WorkerMoves ==
    ASSUME IInv, NEW g \in DOMAIN workers, NEW w \in WorkerType,
           workers[g].proc \in {"queued", "running"}, w.proc \in {"running", "dead"},
           WorkerSound(w), w.attempt = workers[g].attempt,
           (workers[g].proc = "running" /\ workers[g].receipt # NoReceipt)
              => w.receipt = workers[g].receipt,
           workers' = [workers EXCEPT ![g] = w],
           UNCHANGED <<task, control, daemon, view, notes, past>>,
           fired' \in BOOLEAN, budget' \in Budget
    PROVE  IInv'
<1> USE DEF daemon
<1>1. workers \in Seq(WorkerType) /\ Len(workers) \in Nat
  BY DEF IInv, TypeOK
<1>2. /\ workers' \in Seq(WorkerType) /\ Len(workers') = Len(workers)
      /\ DOMAIN workers' = DOMAIN workers /\ workers'[g] = w
      /\ \A h \in DOMAIN workers \ {g} : workers'[h] = workers[h]
  BY <1>1
<1>3. TypeOK'
  BY <1>2 DEF IInv, TypeOK
<1>4. Sound(task, Len(workers))' /\ SnapSound' /\ (\A m \in Masters : ViewSound(m))' /\ Drains'
  BY <1>2 DEF IInv, SnapSound, ViewSound, Drains
<1>5. \A h \in DOMAIN workers' : WorkerSound(workers'[h]) /\ Held(h)'
  <2> TAKE h \in DOMAIN workers'
  <2>1. WorkerSound(workers[h]) /\ Held(h)
    BY <1>2 DEF IInv
  <2>2. CASE h # g
    BY <1>2, <2>1, <2>2 DEF Held
  <2>3. CASE h = g
    <3>1. workers[g].proc = "queued" => task.lease = g
      BY <2>1, <2>3 DEF Held
    <3>2. workers[g].proc = "running" /\ task.lease # g =>
            w.receipt.status \in {"SUBMITTED", "FAILED"}
      BY <2>1, <2>3 DEF Held, NoReceipt
    <3> QED
      BY <1>2, <2>3, <3>1, <3>2 DEF Held
  <2> QED
    BY <2>2, <2>3
<1>6. Placed'
  <2>1. pc = "alive" => snap.lease \in DOMAIN workers
    BY <1>1 DEF IInv, Placed, SnapSound
  <2>2. pc = "alive" /\ obs # NoReceipt =>
          /\ obs = workers'[snap.lease].receipt
          /\ obs.attempt = workers'[snap.lease].attempt
          /\ workers'[snap.lease].proc \in {"running", "dead"}
    BY <1>2, <2>1 DEF IInv, Placed
  <2>3. pc = "commit" => MayDispatch(snap)'
    <3> SUFFICES ASSUME pc = "commit"
                 PROVE  MayDispatch(snap)'
      OBVIOUS
    <3>1. MayDispatch(snap) /\ snap.lease \in 0 .. Len(workers)
      BY DEF IInv, Placed, SnapSound
    <3>2. snap.lease # 0 /\ Dead(snap.lease) => Dead(snap.lease)'
      BY <1>1, <1>2, <3>1 DEF Dead
    <3> QED
      BY <3>1, <3>2 DEF MayDispatch, CleanSurrender
  <2>4. workers[Len(workers)].proc \in {"none", "dead", "prepared"}
          => g # Len(workers)
    OBVIOUS
  <2>5. Len(workers) > 0 => Len(workers) \in DOMAIN workers
    BY <1>1
  <2>6. Locked => Len(workers) > 0
    BY DEF IInv, Placed
  <2>7. /\ pc \in {"fence", "launch"} => workers'[Len(workers)].proc = "none"
        /\ pc = "wake" => workers'[Len(workers)].proc = "dead"
        /\ pc = "send" => workers'[Len(workers)].proc = "prepared"
    BY <1>2, <2>4, <2>5, <2>6 DEF IInv, Placed, Locked
  <2>8. Locked => ~control.draining /\ task.state = "RUNNING" /\ task.lease = Len(workers)
    BY DEF IInv, Placed
  <2>9. pc = "alive" => snap.state = "RUNNING" /\ snap.lease # 0
    BY DEF IInv, Placed
  <2> QED
    BY <1>2, <2>2, <2>3, <2>6, <2>7, <2>8, <2>9 DEF Placed, Locked
<1>7. Gone'
  BY <1>1, <1>2 DEF IInv, Gone, Dead
<1>8. Ledger' /\ AcceptedAsRead'
  BY DEF IInv, Ledger, AcceptedAsRead
<1> QED
  BY <1>3, <1>4, <1>5, <1>6, <1>7, <1>8 DEF IInv

\* The worker of the new lease, while the lock is held.
LEMMA LeaseWorker ==
    ASSUME IInv, Locked, NEW w \in WorkerType, w.proc \in {"prepared", "queued"},
           w.receipt = w.previous, workers' = [workers EXCEPT ![task.lease] = w],
           UNCHANGED <<task, control, view, world>>,
           pc' \in Idle \/ (pc' = "send" /\ w.proc = "prepared"),
           snap' \in {snap, NewTask}, obs' \in ReceiptType, plan' \in Plans,
           budget' \in Budget, past' \in Past,
           past'.adoptions = past.adoptions, past'.releases = past.releases,
           past'.approved = past.approved
    PROVE  IInv'
<1> USE DEF world
<1> DEFINE g == Len(workers)
<1>1. workers \in Seq(WorkerType) /\ Len(workers) \in Nat
  BY DEF IInv, TypeOK
<1>2. /\ ~control.draining /\ task.state = "RUNNING" /\ task.lease = g /\ g > 0
      /\ g \in DOMAIN workers
  BY <1>1 DEF IInv, Placed
<1>3. /\ workers' \in Seq(WorkerType) /\ Len(workers') = Len(workers)
      /\ DOMAIN workers' = DOMAIN workers /\ workers'[g] = w
      /\ \A h \in DOMAIN workers \ {g} : workers'[h] = workers[h]
  BY <1>1, <1>2
<1>4. TypeOK'
  BY <1>3, Empties DEF IInv, TypeOK, Idle, Places
<1>5. Sound(task, Len(workers))' /\ (\A m \in Masters : ViewSound(m))' /\ Drains'
  BY <1>3 DEF IInv, ViewSound, Drains
<1>6. SnapSound'
  <2>1. CASE snap' = snap
    BY <1>3, <2>1 DEF IInv, SnapSound
  <2>2. CASE snap' = NewTask
    <3>1. NewTask.rev = 1 /\ NewTask.lease = 0
      BY DEF NewTask
    <3>2. task.rev \in Nat /\ task.rev >= 1 /\ (task.rev = 1 => task = NewTask)
      BY DEF IInv, TypeOK, Task, Sound
    <3> QED
      BY <1>1, <1>3, <2>2, <3>1, <3>2 DEF SnapSound
  <2> QED
    BY <2>1, <2>2
<1>7. \A h \in DOMAIN workers' : WorkerSound(workers'[h]) /\ Held(h)'
  <2> TAKE h \in DOMAIN workers'
  <2>1. WorkerSound(workers[h]) /\ Held(h)
    BY <1>3 DEF IInv
  <2>2. CASE h # g
    BY <1>3, <2>1, <2>2 DEF Held
  <2>3. CASE h = g
    BY <1>2, <1>3, <2>3 DEF Held, WorkerSound
  <2> QED
    BY <2>2, <2>3
<1>8. Placed'
  <2>1. CASE pc' \in Idle
    BY <2>1, Idling
  <2>2. CASE pc' = "send" /\ w.proc = "prepared"
    BY <1>2, <1>3, <2>2 DEF Placed, Locked
  <2> QED
    BY <2>1, <2>2
<1>9. Gone' /\ Ledger' /\ AcceptedAsRead'
  BY <1>2 DEF IInv, Gone, Ledger, AcceptedAsRead
<1> QED
  BY <1>4, <1>5, <1>6, <1>7, <1>8, <1>9 DEF IInv

\* An attempt is prepared, and sent.
LEMMA PrepareKeeps ==
    ASSUME IInv, Prepare
    PROVE  IInv'
<1>1. Locked /\ pc' = "send" /\ UNCHANGED <<task, control, snap, obs, plan, view, world, budget>>
      /\ past' = [past EXCEPT !.served = TRUE]
  BY DEF Prepare, Locked
<1>2. task.lease \in DOMAIN workers /\ workers \in Seq(WorkerType)
      /\ obs \in ReceiptType /\ plan \in Plans /\ budget \in Budget /\ past \in Past
  BY <1>1 DEF IInv, Placed, TypeOK
<1>3. workers[task.lease] \in WorkerType
  BY <1>2
<1>4. PICK w : w = Prepared(workers[task.lease])
  OBVIOUS
<1>5. w \in WorkerType /\ w.proc = "prepared" /\ w.receipt = w.previous
  BY <1>3, <1>4 DEF Prepared, WorkerType
<1>6. workers' = [workers EXCEPT ![task.lease] = w]
  BY <1>4 DEF Prepare
<1>7. past' \in Past /\ past'.adoptions = past.adoptions /\ past'.releases = past.releases
      /\ past'.approved = past.approved
  BY <1>1, <1>2 DEF Past
<1> QED
  BY <1>1, <1>2, <1>5, <1>6, <1>7, LeaseWorker

\* The command is sent, may or may not arrive, or an executor raises.
LEMMA SendKeeps ==
    ASSUME IInv, Send \/ ExecutorFails
    PROVE  IInv'
<1> USE DEF world
<1>1. budget' \in Budget /\ TypeOK
  BY Spends DEF Send, ExecutorFails, IInv, TypeOK
<1>2. /\ snap' = NewTask /\ obs' = NoReceipt /\ plan' = "none" /\ pc' \in {"check", "error"}
      /\ UNCHANGED <<task, control, view, world, past>>
  BY DEF Send, ExecutorFails, Done
<1>3. CASE UNCHANGED workers
  BY <1>1, <1>2, <1>3, DoneKeeps
<1>4. CASE pc = "send" /\ workers' = [workers EXCEPT ![task.lease].proc = "queued"]
  <2>1. Locked
    BY <1>4 DEF Locked
  <2>2. task.lease \in DOMAIN workers /\ workers \in Seq(WorkerType) /\ past \in Past
    BY <2>1 DEF IInv, Placed, TypeOK
  <2>3. /\ workers[task.lease] \in WorkerType /\ WorkerSound(workers[task.lease])
        /\ workers[task.lease].proc = "prepared"
    BY <1>4, <2>1, <2>2 DEF IInv, Placed
  <2>4. PICK w : w = [workers[task.lease] EXCEPT !.proc = "queued"]
    OBVIOUS
  <2>5. w \in WorkerType /\ w.proc = "queued" /\ w.receipt = w.previous
    BY <2>3, <2>4 DEF WorkerSound, WorkerType
  <2>6. workers' = [workers EXCEPT ![task.lease] = w]
    BY <1>4, <2>4
  <2>7. obs' \in ReceiptType /\ plan' \in Plans /\ pc' \in Idle
    BY <1>2, Empties DEF Plans, Idle
  <2> QED
    BY <1>1, <1>2, <2>1, <2>2, <2>5, <2>6, <2>7, LeaseWorker
<1> QED
  BY <1>3, <1>4 DEF Send, ExecutorFails

\* The script of an attempt starts.
LEMMA BeginKeeps ==
    ASSUME IInv, NEW g \in DOMAIN workers, Begin(g)
    PROVE  IInv'
<1> USE DEF world
<1>1. workers[g] \in WorkerType /\ fired \in BOOLEAN /\ budget \in Budget
  BY DEF IInv, TypeOK
<1>2. PICK w : w = [workers[g] EXCEPT !.proc = "running", !.receipt = NoReceipt]
  OBVIOUS
<1>3. w \in WorkerType
  BY <1>1, <1>2, Empties DEF WorkerType
<1>4. w.proc = "running" /\ w.receipt = NoReceipt /\ w.attempt = workers[g].attempt
  BY <1>1, <1>2 DEF WorkerType
<1>5. workers' = [workers EXCEPT ![g] = w]
  BY <1>2 DEF Begin
<1>6. WorkerSound(w)
  BY <1>4 DEF WorkerSound
<1> QED
  BY <1>1, <1>3, <1>4, <1>5, <1>6, WorkerMoves DEF Begin

\* A worker reports: its attempt has not reported before.
LEMMA ReportKeeps ==
    ASSUME IInv, NEW g \in DOMAIN workers, NEW r \in ReceiptType, Report(g, r),
           UNCHANGED <<task, control, daemon, view, notes, past>>,
           fired' \in BOOLEAN, budget' \in Budget
    PROVE  IInv'
<1>1. workers[g] \in WorkerType /\ WorkerSound(workers[g]) /\ workers[g].attempt \in Nat
  <2>1. workers[g] \in WorkerType /\ WorkerSound(workers[g])
    BY DEF IInv, TypeOK
  <2> QED
    BY <2>1 DEF WorkerType
<1>2. PICK s : s = [r EXCEPT !.attempt = workers[g].attempt]
  OBVIOUS
<1>3. s \in ReceiptType /\ s.attempt = workers[g].attempt
  BY <1>1, <1>2 DEF ReceiptType
<1>4. PICK w : w = [workers[g] EXCEPT !.receipt = s]
  OBVIOUS
<1>5. w \in WorkerType
  BY <1>1, <1>3, <1>4 DEF WorkerType
<1>6. workers[g].proc = "running" /\ ~Reported(g)
  BY DEF Report, Alive
<1>7. w.proc = "running" /\ w.receipt = s /\ w.attempt = workers[g].attempt
  BY <1>1, <1>4, <1>6 DEF WorkerType
<1>8. WorkerSound(w)
  BY <1>3, <1>7 DEF WorkerSound
<1>9. workers[g].receipt = NoReceipt
  BY <1>1, <1>6 DEF WorkerSound, Reported
<1>10. workers' = [workers EXCEPT ![g] = w]
  BY <1>2, <1>4 DEF Report
<1> QED
  BY <1>5, <1>6, <1>7, <1>8, <1>9, <1>10, WorkerMoves

\* A worker begins, reports, waits, ends or dies.
LEMMA WorkKeeps ==
    ASSUME IInv, NEW g \in DOMAIN workers, Work(g)
    PROVE  IInv'
<1> USE DEF world
<1>1. TypeOK /\ fired \in BOOLEAN /\ budget \in Budget /\ NoReceipt \in ReceiptType
  BY Empties DEF IInv, TypeOK
<1>2. ASSUME NEW wait \in {"event", "ruling"}, NEW c \in BOOLEAN, Await(g, wait, c)
      PROVE  IInv'
  <2>1. PICK r : r = [NoReceipt EXCEPT !.status = "AWAITING", !.wait = wait, !.checkpoint = c]
    OBVIOUS
  <2>2. r \in ReceiptType
    BY <1>1, <2>1 DEF ReceiptType, Waits
  <2>3. Report(g, r) /\ Spend("yields") /\ fired' = FALSE
        /\ UNCHANGED <<task, control, daemon, view, notes, past>>
    BY <1>2, <2>1 DEF Await
  <2>4. budget' \in Budget
    BY <1>1, <2>3, Spends
  <2> QED
    BY <2>2, <2>3, <2>4, ReportKeeps
<1>3. ASSUME NEW wait \in {"event", "ruling", "rotation"}, YieldToRotation(g, wait)
      PROVE  IInv'
  <2>1. PICK r : r = [NoReceipt EXCEPT !.status = "AWAITING", !.wait = wait,
                                       !.checkpoint = TRUE, !.rotation = task.rotation.id]
    OBVIOUS
  <2>2. task.rotation.id \in Nat
    BY <1>1 DEF TypeOK, Task, RotationType
  <2>3. r \in ReceiptType
    BY <1>1, <2>1, <2>2 DEF ReceiptType, Waits
  <2>4. Report(g, r) /\ Spend("yields") /\ fired' = FALSE
        /\ UNCHANGED <<task, control, daemon, view, notes, past>>
    BY <1>3, <2>1 DEF YieldToRotation
  <2>5. budget' \in Budget
    BY <1>1, <2>4, Spends
  <2> QED
    BY <2>3, <2>4, <2>5, ReportKeeps
<1>4. ASSUME NEW status \in {"SUBMITTED", "FAILED"}, Finish(g, status)
      PROVE  IInv'
  <2>1. PICK r : r = [NoReceipt EXCEPT !.status = status]
    OBVIOUS
  <2>2. r \in ReceiptType
    BY <1>1, <2>1 DEF ReceiptType
  <2>3. Report(g, r) /\ UNCHANGED <<task, control, daemon, view, world, budget, past>>
    BY <1>4, <2>1 DEF Finish
  <2> QED
    BY <1>1, <2>2, <2>3, ReportKeeps
<1> QED
  BY <1>2, <1>3, <1>4 DEF Work

\* A worker ends, with or without a receipt.
LEMMA EndKeeps ==
    ASSUME IInv, NEW g \in DOMAIN workers, Exit(g) \/ Die(g)
    PROVE  IInv'
<1> USE DEF world
<1>1. TypeOK /\ workers[g] \in WorkerType /\ WorkerSound(workers[g]) /\ fired \in BOOLEAN
  BY DEF IInv, TypeOK
<1>2. budget' \in Budget
  BY <1>1, Spends DEF Exit, Die, TypeOK
<1>3. PICK w : w = [workers[g] EXCEPT !.proc = "dead"]
  OBVIOUS
<1>4. w \in WorkerType /\ w.proc = "dead" /\ w.receipt = workers[g].receipt
      /\ w.previous = workers[g].previous /\ w.attempt = workers[g].attempt
  BY <1>1, <1>3 DEF WorkerType
<1>5. workers' = [workers EXCEPT ![g] = w]
  BY <1>3 DEF Exit, Die
<1>6. WorkerSound(w)
  BY <1>1, <1>4 DEF WorkerSound
<1>7. workers[g].proc = "running" /\ UNCHANGED <<task, control, daemon, view, world, past>>
  BY DEF Exit, Die, Alive
<1> QED
  BY <1>1, <1>2, <1>4, <1>5, <1>6, <1>7, WorkerMoves

\* The host reboots: everything that was sent is gone.
LEMMA RebootKeeps ==
    ASSUME IInv, Reboot
    PROVE  IInv'
<1> USE DEF world
<1>1. TypeOK /\ workers \in Seq(WorkerType) /\ Len(workers) \in Nat
  BY DEF IInv, TypeOK
<1>2. budget' \in Budget
  BY <1>1, Spends DEF Reboot
<1>3. \A g \in DOMAIN workers :
        /\ AfterBoot(workers[g]) \in WorkerType
        /\ AfterBoot(workers[g]).proc \in {"none", "dead"}
        /\ AfterBoot(workers[g]).receipt = workers[g].receipt
        /\ AfterBoot(workers[g]).previous = workers[g].previous
        /\ AfterBoot(workers[g]).attempt = workers[g].attempt
        /\ AfterBoot(workers[g]).proc = "none" => workers[g].proc = "none"
        /\ workers[g].proc = "dead" => AfterBoot(workers[g]).proc = "dead"
  <2> TAKE g \in DOMAIN workers
  <2>1. workers[g] \in WorkerType
    BY <1>1
  <2>2. CASE workers[g].proc = "none"
    BY <2>1, <2>2 DEF AfterBoot
  <2>3. CASE workers[g].proc # "none"
    <3>1. PICK w : w = [workers[g] EXCEPT !.proc = "dead"]
      OBVIOUS
    <3>2. w \in WorkerType /\ w.proc = "dead" /\ w.receipt = workers[g].receipt
          /\ w.previous = workers[g].previous /\ w.attempt = workers[g].attempt
      BY <2>1, <3>1 DEF WorkerType
    <3>3. AfterBoot(workers[g]) = w
      BY <2>3, <3>1 DEF AfterBoot
    <3> QED
      BY <2>3, <3>2, <3>3
  <2> QED
    BY <2>2, <2>3
<1>4. /\ workers' \in Seq(WorkerType) /\ Len(workers') = Len(workers)
      /\ DOMAIN workers' = DOMAIN workers
      /\ \A g \in DOMAIN workers : workers'[g] = AfterBoot(workers[g])
  BY <1>1, <1>3 DEF Reboot
<1>5. UNCHANGED <<task, control, view, world, past>>
      /\ snap' = NewTask /\ obs' = NoReceipt /\ plan' = "none" /\ pc' = "down"
  BY DEF Reboot
<1>6. TypeOK'
  BY <1>2, <1>4, <1>5, Empties DEF IInv, TypeOK, Plans, Places
<1>7. Sound(task, Len(workers))' /\ (\A m \in Masters : ViewSound(m))' /\ Drains' /\ Ledger'
      /\ AcceptedAsRead'
  BY <1>4, <1>5 DEF IInv, ViewSound, Drains, Ledger, AcceptedAsRead
<1>8. SnapSound'
  <2>1. NewTask.rev = 1 /\ NewTask.lease = 0
    BY DEF NewTask
  <2>2. task.rev \in Nat /\ task.rev >= 1 /\ (task.rev = 1 => task = NewTask)
    BY DEF IInv, TypeOK, Task, Sound
  <2> QED
    BY <1>1, <1>4, <1>5, <2>1, <2>2 DEF SnapSound
<1>9. \A g \in DOMAIN workers' : WorkerSound(workers'[g]) /\ Held(g)'
  <2> TAKE g \in DOMAIN workers'
  <2>1. WorkerSound(workers[g])
    BY <1>4 DEF IInv
  <2> QED
    BY <1>3, <1>4, <2>1 DEF WorkerSound, Held
<1>10. Placed'
  BY <1>5, Idling DEF Idle
<1>11. Gone'
  BY <1>1, <1>3, <1>4, <1>5 DEF IInv, Gone, Dead
<1> QED
  BY <1>6, <1>7, <1>8, <1>9, <1>10, <1>11 DEF IInv

-----------------------------------------------------------------------------
(* The Masters, the drain and the world.                                    *)

\* A Master reads the task.
LEMMA ReadKeeps ==
    ASSUME IInv, NEW m \in Masters, ReadTask(m)
    PROVE  IInv'
<1> USE DEF daemon, world
<1>1. PICK v : v = [rev |-> task.rev, contract |-> task.contract]
  OBVIOUS
<1>2. view' = [view EXCEPT ![m] = v]
      /\ UNCHANGED <<task, control, workers, daemon, world, budget, past>>
  BY <1>1 DEF ReadTask
<1>3. view \in [Masters -> View] /\ task.rev \in Nat /\ task.contract \in Nat
  BY DEF IInv, TypeOK, Task
<1>4. v \in View /\ v.rev = task.rev /\ v.contract = task.contract
  BY <1>1, <1>3 DEF View
<1>5. view' \in [Masters -> View] /\ view'[m] = v /\ \A n \in Masters \ {m} : view'[n] = view[n]
  BY <1>2, <1>3, <1>4
<1>6. \A n \in Masters : ViewSound(n)'
  <2> TAKE n \in Masters
  <2>1. CASE n = m
    BY <1>2, <1>3, <1>4, <1>5, <2>1 DEF ViewSound
  <2>2. CASE n # m
    BY <1>2, <1>5, <2>2 DEF IInv, ViewSound
  <2> QED
    BY <2>1, <2>2
<1>7. TypeOK'
  BY <1>2, <1>5 DEF IInv, TypeOK
<1>8. Sound(task, Len(workers))' /\ SnapSound' /\ Drains' /\ Ledger' /\ AcceptedAsRead' /\ Gone'
  BY <1>2 DEF IInv, SnapSound, Drains, Ledger, AcceptedAsRead, Gone, Dead
<1>9. \A g \in DOMAIN workers' : WorkerSound(workers'[g]) /\ Held(g)'
  BY <1>2 DEF IInv, Held
<1>10. Placed'
  <2>1. MayDispatch(snap) => MayDispatch(snap)'
    BY <1>2 DEF MayDispatch, Dead, CleanSurrender
  <2> QED
    BY <1>2, <2>1 DEF IInv, Placed, Locked
<1> QED
  BY <1>6, <1>7, <1>8, <1>9, <1>10 DEF IInv

\* A drain is put on record, an event fires, or a note lands.
LEMMA WorldKeeps ==
    ASSUME IInv, StopDrain \/ EventFires \/ NoteLands
    PROVE  IInv'
<1> USE DEF daemon, world
<1>1. UNCHANGED <<task, workers, pc, snap, obs, plan, view, past>>
  BY DEF StopDrain, EventFires, NoteLands
<1>2. /\ control \in Control /\ budget \in Budget /\ fired \in BOOLEAN /\ notes \in Nat
      /\ control.id \in Nat /\ TypeOK
  BY DEF IInv, TypeOK, Control
<1>3. /\ fired' \in BOOLEAN /\ notes' \in Nat /\ budget' \in Budget
      /\ control' \in Control /\ Drains'
      /\ control' = control \/ ~Locked
  <2>1. CASE StopDrain
    <3>1. budget' \in Budget
      BY <1>2, <2>1, Spends DEF StopDrain
    <3>2. control' \in Control /\ control'.id # 0
      BY <1>2, <2>1 DEF StopDrain, Control
    <3> QED
      BY <1>2, <2>1, <3>1, <3>2 DEF StopDrain, Drains
  <2>2. CASE EventFires \/ NoteLands
    <3>1. control' = control /\ budget' = budget /\ notes' \in {notes, notes + 1}
      BY <2>2 DEF EventFires, NoteLands
    <3>2. fired' \in BOOLEAN
      BY <1>2, <2>2 DEF EventFires, NoteLands
    <3>3. Drains'
      BY <3>1 DEF IInv, Drains
    <3> QED
      BY <1>2, <3>1, <3>2, <3>3
  <2> QED
    BY <2>1, <2>2
<1>4. TypeOK'
  BY <1>1, <1>2, <1>3 DEF TypeOK
<1>5. Sound(task, Len(workers))' /\ SnapSound' /\ Ledger' /\ AcceptedAsRead' /\ Gone'
  BY <1>1 DEF IInv, SnapSound, Ledger, AcceptedAsRead, Gone, Dead
<1>6. (\A m \in Masters : ViewSound(m))'
      /\ \A g \in DOMAIN workers' : WorkerSound(workers'[g]) /\ Held(g)'
  BY <1>1 DEF IInv, ViewSound, Held
<1>7. Placed'
  <2>1. MayDispatch(snap) => MayDispatch(snap)'
    BY <1>1 DEF MayDispatch, Dead, CleanSurrender
  <2> QED
    BY <1>1, <1>3, <2>1 DEF IInv, Placed, Locked
<1> QED
  BY <1>3, <1>4, <1>5, <1>6, <1>7 DEF IInv

\* A decision is a commit of y; the Master has read the contract in force.
LEMMA DecisionKeeps ==
    ASSUME IInv, NEW m \in Masters, Decides(m), NEW y \in Task, Commit(y),
           y.rework => y.state = "SUBMITTED",
           y.limit = task.limit, y.ruling => y.state = "WAITING",
           y.limit => y.state = "WAITING",
           y.lease = task.lease, y.lease # 0 => y.state \in {"RUNNING", "WAITING"},
           y.state = "RUNNING" => y.lease # 0,
           y.state = "WAITING" => task.state = "WAITING",
           y.wait = task.wait, y.surrender = task.surrender,
           y.rotation = task.rotation \/ (y.lease # 0 /\ y.rotation.id # 0),
           past' \in Past,
           (past'.adoptions <= y.restarts + MaxRestarts * (past'.releases - Unused(y)))
              /\ y.restarts <= MaxRestarts /\ Unused(y) <= past'.releases,
           y.state = "DONE" => /\ y.accepted = y.contract /\ past'.approved = y.contract
                               /\ ~y.rework
    PROVE  IInv'
<1> USE DEF daemon, world
<1>1. /\ TypeOK /\ task \in Task /\ task.rev \in Nat
      /\ obs \in ReceiptType /\ plan \in Plans /\ pc \in Places
  BY DEF IInv, TypeOK, Task
<1>2. ~Locked /\ UNCHANGED <<control, workers, daemon, world, view>> /\ Spend("decisions")
  BY DEF Decides
<1>3. budget' \in Budget
  BY <1>1, <1>2, Spends
<1>4. /\ task' \in Task /\ task'.rev = task.rev + 1
      /\ task'.state = y.state /\ task'.lease = y.lease
      /\ task'.restarts = y.restarts /\ task'.limit = y.limit
      /\ task'.ruling = y.ruling /\ task'.rework = y.rework
      /\ task'.wait = y.wait /\ task'.rotation = y.rotation
      /\ task'.surrender = y.surrender
      /\ task'.contract = y.contract /\ task'.accepted = y.accepted
  BY <1>1, CommitOf
<1>5. Sound(task, Len(workers))
  BY DEF IInv
<1>6. Sound(task', Len(workers))
  <2>1. task'.rev >= 1 /\ task'.rev # 1
    BY <1>1, <1>4, <1>5 DEF Sound
  <2>2. task'.lease \in {0, Len(workers)} /\ (task'.rotation # NoRotation => task'.rotation.id # 0)
    BY <1>4, <1>5 DEF Sound
  <2>3. (task'.state = "WAITING" /\ task'.lease = 0)
          => CleanSurrender(task') /\ task'.rotation = NoRotation
    BY <1>4, <1>5 DEF Sound, CleanSurrender
  <2> QED
    BY <1>4, <2>1, <2>2, <2>3 DEF Sound
<1>7. Placed'
  BY <1>2, SamePlace DEF IInv
<1>8. Ledger'
  BY <1>4 DEF Ledger, Unused
<1>9. AcceptedAsRead'
  BY <1>4 DEF AcceptedAsRead
<1> QED
  BY <1>1, <1>2, <1>3, <1>4, <1>6, <1>7, <1>8, <1>9, CommitKeeps

\* The record a decision changes, but for what it decides.
Decided(y) ==
    /\ y.limit = task.limit /\ y.wait = task.wait /\ y.surrender = task.surrender
    /\ y.restarts = task.restarts

\* The budget, while no release is added.
LEMMA NoRelease ==
    ASSUME IInv, NEW y, y.restarts = task.restarts, y.ruling = task.ruling,
           y.rework = task.rework,
           past'.adoptions = past.adoptions, past'.releases = past.releases
    PROVE  (past'.adoptions <= y.restarts + MaxRestarts * (past'.releases - Unused(y)))
              /\ y.restarts <= MaxRestarts /\ Unused(y) <= past'.releases
  BY DEF IInv, Ledger, Unused

\* ... and when one is.
LEMMA OneRelease ==
    ASSUME IInv, NEW y, y.restarts = task.restarts, y.ruling \/ y.rework,
           ~task.ruling, ~task.rework,
           past'.adoptions = past.adoptions, past'.releases = past.releases + 1
    PROVE  (past'.adoptions <= y.restarts + MaxRestarts * (past'.releases - Unused(y)))
              /\ y.restarts <= MaxRestarts /\ Unused(y) <= past'.releases
<1>1. past.releases \in Nat
  BY DEF IInv, TypeOK, Past
<1>2. Unused(y) = 1 /\ Unused(task) = 0
  BY DEF Unused
<1>3. past'.releases - Unused(y) = past.releases - Unused(task)
  BY <1>1, <1>2
<1> QED
  BY <1>1, <1>2, <1>3 DEF IInv, Ledger

\* A Master accepts the contract it has read.
LEMMA AcceptKeeps ==
    ASSUME IInv, NEW m \in Masters, Accept(m)
    PROVE  IInv'
<1>1. task \in Task /\ past \in Past /\ view \in [Masters -> View] /\ task.contract \in Nat
      /\ Sound(task, Len(workers))
  BY DEF IInv, TypeOK, Task
<1>2. Decides(m) /\ task.state = "SUBMITTED" /\ ~task.rework
  BY DEF Accept
<1>3. PICK y : y = [task EXCEPT !.state = "DONE", !.lease = 0, !.accepted = task.contract]
  OBVIOUS
<1>4. y \in Task
  BY <1>1, <1>3 DEF Task, TaskState
<1>5. /\ y.state = "DONE" /\ y.lease = 0 /\ y.accepted = task.contract
      /\ y.contract = task.contract /\ y.rotation = task.rotation
      /\ y.ruling = task.ruling /\ y.rework = task.rework /\ Decided(y)
  BY <1>1, <1>3 DEF Task, Decided
<1>6. Commit(y)
  BY <1>3 DEF Accept
<1>7. /\ past' \in Past /\ past'.approved = task.contract
      /\ past'.adoptions = past.adoptions /\ past'.releases = past.releases
  <2>1. view[m].contract = task.contract
    BY <1>2 DEF IInv, ViewSound, Decides
  <2> QED
    BY <1>1, <2>1 DEF Accept, Past
<1>8. task.lease = 0 /\ ~task.ruling /\ ~task.limit
  BY <1>1, <1>2 DEF Sound
<1>9. (past'.adoptions <= y.restarts + MaxRestarts * (past'.releases - Unused(y)))
         /\ y.restarts <= MaxRestarts /\ Unused(y) <= past'.releases
  BY <1>5, <1>7, NoRelease DEF Decided
<1> QED
  BY <1>2, <1>4, <1>5, <1>6, <1>7, <1>8, <1>9, DecisionKeeps DEF Decided

\* A Master amends the contract.
LEMMA AmendKeeps ==
    ASSUME IInv, NEW m \in Masters, Amend(m)
    PROVE  IInv'
<1>1. task \in Task /\ past \in Past /\ task.contract + 1 \in Nat /\ Sound(task, Len(workers))
  BY DEF IInv, TypeOK, Task
<1>2. Decides(m) /\ task.state \in {"READY", "WAITING", "SUBMITTED", "BLOCKED"} /\ past' = past
  BY DEF Amend
<1>3. PICK y : y = [task EXCEPT !.contract = task.contract + 1]
  OBVIOUS
<1>4. y \in Task
  BY <1>1, <1>3 DEF Task
<1>5. /\ y.state = task.state /\ y.lease = task.lease /\ y.rotation = task.rotation
      /\ y.ruling = task.ruling /\ y.rework = task.rework /\ Decided(y)
  BY <1>1, <1>3 DEF Task, Decided
<1>6. Commit(y)
  BY <1>3 DEF Amend
<1>7. (past'.adoptions <= y.restarts + MaxRestarts * (past'.releases - Unused(y)))
         /\ y.restarts <= MaxRestarts /\ Unused(y) <= past'.releases
  BY <1>2, <1>5, NoRelease DEF Decided
<1>8. /\ y.rework => y.state = "SUBMITTED"
      /\ y.ruling => y.state = "WAITING"
      /\ y.limit => y.state = "WAITING"
      /\ y.lease # 0 => y.state \in {"RUNNING", "WAITING"}
      /\ y.state # "DONE" /\ y.state # "RUNNING"
  BY <1>1, <1>2, <1>5 DEF Sound, Decided
<1> QED
  BY <1>1, <1>2, <1>4, <1>5, <1>6, <1>7, <1>8, DecisionKeeps DEF Decided

\* A ruling or a rework, which pays for adoptions to come.
LEMMA ReleaseKeeps ==
    ASSUME IInv, NEW m \in Masters, Rule(m) \/ Rework(m)
    PROVE  IInv'
<1>1. task \in Task /\ past \in Past /\ past.releases + 1 \in Nat /\ Sound(task, Len(workers))
  BY DEF IInv, TypeOK, Past
<1>2. Decides(m) /\ past' = [past EXCEPT !.releases = @ + 1]
  BY DEF Rule, Rework
<1>3. past' \in Past /\ past'.adoptions = past.adoptions /\ past'.releases = past.releases + 1
  BY <1>1, <1>2 DEF Past
<1>4. CASE Rule(m)
  <2>1. task.state = "WAITING" /\ ~task.ruling
    BY <1>4 DEF Rule
  <2>2. PICK y : y = [task EXCEPT !.ruling = TRUE]
    OBVIOUS
  <2>3. y \in Task
    BY <1>1, <2>2 DEF Task
  <2>4. /\ y.state = "WAITING" /\ y.lease = task.lease /\ y.rotation = task.rotation
        /\ y.ruling /\ y.rework = task.rework /\ Decided(y)
    BY <1>1, <2>1, <2>2 DEF Task, Decided
  <2>5. ~task.rework
    BY <1>1, <2>1 DEF Sound
  <2>6. (past'.adoptions <= y.restarts + MaxRestarts * (past'.releases - Unused(y)))
           /\ y.restarts <= MaxRestarts /\ Unused(y) <= past'.releases
    BY <1>3, <2>1, <2>4, <2>5, OneRelease DEF Decided
  <2>7. Commit(y)
    BY <1>4, <2>2 DEF Rule
  <2>8. y.rework => y.state = "SUBMITTED"
    BY <2>4, <2>5
  <2> QED
    BY <1>2, <1>3, <2>1, <2>3, <2>4, <2>6, <2>7, <2>8, DecisionKeeps DEF Decided
<1>5. CASE Rework(m)
  <2>1. task.state = "SUBMITTED" /\ ~task.rework
    BY <1>5 DEF Rework
  <2>2. PICK y : y = [task EXCEPT !.rework = TRUE]
    OBVIOUS
  <2>3. y \in Task
    BY <1>1, <2>2 DEF Task
  <2>4. /\ y.state = "SUBMITTED" /\ y.lease = task.lease /\ y.rotation = task.rotation
        /\ y.ruling = task.ruling /\ y.rework /\ Decided(y)
    BY <1>1, <2>1, <2>2 DEF Task, Decided
  <2>5. ~task.ruling /\ ~task.limit /\ task.lease = 0
    BY <1>1, <2>1 DEF Sound
  <2>6. (past'.adoptions <= y.restarts + MaxRestarts * (past'.releases - Unused(y)))
           /\ y.restarts <= MaxRestarts /\ Unused(y) <= past'.releases
    BY <1>3, <2>1, <2>4, <2>5, OneRelease DEF Decided
  <2>7. Commit(y)
    BY <1>5, <2>2 DEF Rework
  <2>8. ~y.ruling /\ ~y.limit
    BY <2>4, <2>5 DEF Decided
  <2> QED
    BY <1>2, <1>3, <2>1, <2>3, <2>4, <2>5, <2>6, <2>7, <2>8, DecisionKeeps DEF Decided
<1> QED
  BY <1>4, <1>5

\* A Master asks for a rotation, or attaches a checkpoint to one.
LEMMA RotateKeeps ==
    ASSUME IInv, NEW m \in Masters, NEW attach \in BOOLEAN, Rotate(m, attach)
    PROVE  IInv'
<1>1. task \in Task /\ past \in Past /\ task.rev \in Nat /\ task.rev >= 1
      /\ Sound(task, Len(workers))
  BY DEF IInv, TypeOK, Task, Sound
<1>2. Decides(m) /\ past' = past /\ task.lease # 0
  BY DEF Rotate
<1>3. PICK id : id = MaxStops + task.rev
  OBVIOUS
<1>4. id \in Nat /\ id # 0
  BY <1>1, <1>3, ReconcilerAssumption
<1>5. task.state \in {"RUNNING", "WAITING"} /\ (task.rotation # NoRotation => task.rotation.id # 0)
  BY <1>1 DEF Rotate, Sound
<1>6. PICK y : y = Rotating(task, id, attach)
  OBVIOUS
<1>7. \E b \in BOOLEAN : y = Rotating(task, id, b)
  BY <1>6
<1>8. Commit(y)
  BY <1>3, <1>6 DEF Rotate
<1>9. /\ y \in Task
      /\ y.state = task.state /\ y.lease = task.lease
      /\ y.limit = task.limit /\ y.ruling = task.ruling /\ y.rework = task.rework
      /\ y.wait = task.wait /\ y.surrender = task.surrender
      /\ y.restarts = task.restarts /\ y.rotation.id # 0
  BY <1>1, <1>4, <1>5, <1>7, RotatingIs
<1>10. (past'.adoptions <= y.restarts + MaxRestarts * (past'.releases - Unused(y)))
          /\ y.restarts <= MaxRestarts /\ Unused(y) <= past'.releases
  BY <1>2, <1>9, NoRelease
<1>11. /\ y.rework => y.state = "SUBMITTED"
       /\ y.ruling => y.state = "WAITING"
       /\ y.limit => y.state = "WAITING"
       /\ y.lease # 0 /\ y.state # "DONE" /\ y.state \in {"RUNNING", "WAITING"}
  BY <1>1, <1>2, <1>5, <1>9 DEF Sound
<1> QED
  BY <1>1, <1>2, <1>8, <1>9, <1>10, <1>11, DecisionKeeps

-----------------------------------------------------------------------------
(* The theorems.                                                            *)

\* A new task, no worker, and nobody has read anything.
LEMMA InitHolds ==
    ASSUME Init
    PROVE  IInv
<1>1. TypeOK
  <2>1. workers \in Seq(WorkerType)
    BY DEF Init
  <2>2. budget \in Budget
    BY ReconcilerAssumption DEF Init, Budget
  <2>3. view \in [Masters -> View]
    BY Empties DEF Init
  <2> QED
    BY <2>1, <2>2, <2>3, Empties DEF Init, TypeOK, Control, Places, Plans, Past
<1>2. workers = <<>> /\ Len(workers) = 0 /\ task = NewTask /\ snap = NewTask /\ pc = "down"
      /\ view = [m \in Masters |-> NoView]
  BY DEF Init
<1>3. /\ NewTask.rev = 1 /\ NewTask.lease = 0 /\ NewTask.state = "READY"
      /\ ~NewTask.ruling /\ ~NewTask.limit /\ ~NewTask.rework /\ NewTask.rotation = NoRotation
      /\ NewTask.restarts = 0
  BY DEF NewTask
<1>4. Sound(task, Len(workers)) /\ SnapSound
  BY <1>2, <1>3 DEF Sound, SnapSound
<1>5. \A m \in Masters : ViewSound(m)
  BY <1>2, <1>3 DEF ViewSound, NoView
<1>6. \A g \in DOMAIN workers : WorkerSound(workers[g]) /\ Held(g)
  BY <1>2
<1>7. Placed /\ Gone /\ AcceptedAsRead
  BY <1>2, <1>3 DEF Placed, Locked, Gone, AcceptedAsRead
<1>8. Ledger
  <2>1. past.adoptions = 0 /\ past.releases = 0
    BY DEF Init
  <2>2. MaxRestarts * 0 = 0 /\ MaxRestarts \in Nat /\ MaxRestarts >= 0
    BY ReconcilerAssumption
  <2>3. Unused(task) = 0
    BY <1>2, <1>3 DEF Unused
  <2> QED
    BY <1>2, <1>3, <2>1, <2>2, <2>3 DEF Ledger
<1>9. Drains
  BY DEF Init, Drains
<1> QED
  BY <1>1, <1>4, <1>5, <1>6, <1>7, <1>8, <1>9 DEF IInv

\* A stuttering step changes nothing the invariant reads.
LEMMA StutterHolds ==
    ASSUME IInv, UNCHANGED vars
    PROVE  IInv'
<1> USE DEF vars, daemon, world
<1>1. TypeOK' /\ Sound(task, Len(workers))' /\ SnapSound' /\ Gone' /\ Ledger' /\ Drains'
      /\ AcceptedAsRead'
  BY DEF IInv, TypeOK, SnapSound, Gone, Dead, Ledger, Drains, AcceptedAsRead
<1>2. (\A m \in Masters : ViewSound(m))'
      /\ \A g \in DOMAIN workers' : WorkerSound(workers'[g]) /\ Held(g)'
  BY DEF IInv, ViewSound, Held
<1>3. Placed'
  <2>1. MayDispatch(snap) => MayDispatch(snap)'
    BY DEF MayDispatch, Dead, CleanSurrender
  <2> QED
    BY <2>1 DEF IInv, Placed, Locked
<1> QED
  BY <1>1, <1>2, <1>3 DEF IInv

\* Every step of the daemon, of workers, Masters and the outside preserves the invariant.
LEMMA StepHolds ==
    ASSUME IInv, [Next]_vars
    PROVE  IInv'
<1>1. CASE StartDaemon \/ BeginPass \/ CheckDrained
  BY <1>1, DaemonLooks
<1>2. CASE Route
  BY <1>2, AskKeeps, DaemonPlans, DaemonGivesUp, SurrenderKeeps, DaemonReads DEF Route
<1>3. CASE Observe
  BY <1>3, YieldKeeps, DaemonGivesUp, FinalKeeps, ErrorKeeps, DaemonPlans DEF Observe
<1>4. CASE Actuate
  BY <1>4, StartKeeps, ResumeKeeps, DaemonGivesUp, DaemonLooks, PrepareKeeps, SendKeeps,
     ErrorKeeps DEF Actuate
<1>5. ASSUME NEW m \in Masters, ReadTask(m) \/ Decision(m)
      PROVE  IInv'
  BY <1>5, ReadKeeps, AcceptKeeps, AmendKeeps, ReleaseKeeps, RotateKeeps DEF Decision
<1>6. ASSUME NEW g \in DOMAIN workers, Begin(g) \/ Work(g) \/ Exit(g) \/ Die(g)
      PROVE  IInv'
  BY <1>6, BeginKeeps, WorkKeeps, EndKeeps
<1>7. CASE StopDrain \/ EventFires \/ NoteLands
  BY <1>7, WorldKeeps
<1>8. CASE KillDaemon \/ Reboot
  BY <1>8, DaemonGivesUp, RebootKeeps
<1>9. CASE UNCHANGED vars
  BY <1>9, StutterHolds
<1> QED
  BY <1>1, <1>2, <1>3, <1>4, <1>5, <1>6, <1>7, <1>8, <1>9 DEF Next, Pass

\* The inductive invariant of the daemon, of the executors under it and of the Masters
\* beside it.
THEOREM Inductive == Spec => []IInv
<1>1. Init => IInv
  BY InitHolds
<1>2. IInv /\ [Next]_vars => IInv'
  BY StepHolds
<1> QED
  BY <1>1, <1>2, PTL DEF Spec

\* Every record, receipt and place of the pass keeps its type.
THEOREM TypeCorrect == Spec => []TypeOK
<1>1. IInv => TypeOK
  BY DEF IInv
<1> QED
  BY <1>1, Inductive, PTL

\* INV-5, INV-10: no adoption, surrender or rejected dispatch takes the lease from a worker
\* that may be running (reconciler.py:131-187, 258-284, 364-381).
THEOREM NobodyLosesItsLease == Spec => []LeaseFollowsLife
<1>1. IInv => LeaseFollowsLife
  BY DEF IInv, Held, LeaseFollowsLife, MayRun
<1> QED
  BY <1>1, Inductive, PTL

\* INV-10: the adoptions of a task are paid for, whatever crashes, rotations, resumes and
\* decisions come between them (reconciler.py:138-145, 160-166, 230-256).
THEOREM RestartsBounded == Spec => []RestartsBudgeted
<1>1. IInv => RestartsBudgeted
  <2> SUFFICES ASSUME IInv
               PROVE  RestartsBudgeted
    OBVIOUS
  <2>1. /\ task.restarts \in Nat /\ past.adoptions \in Nat /\ past.releases \in Nat
        /\ MaxRestarts \in Nat
    BY ReconcilerAssumption DEF IInv, TypeOK, Task, Past
  <2>2. Unused(task) \in 0 .. 1 /\ Unused(task) <= past.releases
        /\ task.restarts <= MaxRestarts
        /\ past.adoptions <= task.restarts + MaxRestarts * (past.releases - Unused(task))
    BY DEF IInv, Ledger, Unused
  <2> DEFINE p == MaxRestarts * (past.releases - Unused(task))
             q == MaxRestarts * past.releases
  <2>3. p \in Nat /\ q \in Nat /\ p <= q
    BY <2>1, <2>2, Pays
  <2>4. MaxRestarts * (1 + past.releases) = MaxRestarts + q
    BY <2>1
  <2>5. past.adoptions <= task.restarts + p
    BY <2>2
  <2> HIDE DEF p, q
  <2>6. past.adoptions <= MaxRestarts + q
    BY <2>1, <2>2, <2>3, <2>5
  <2> QED
    BY <2>4, <2>6 DEF RestartsBudgeted
<1> QED
  BY <1>1, Inductive, PTL

\* Acceptance is of the contract in force, which is the one the Master had read
\* (master.py:26-47).
THEOREM AcceptanceIsInformed == Spec => []AcceptedAsRead
<1>1. IInv => AcceptedAsRead
  BY DEF IInv
<1> QED
  BY <1>1, Inductive, PTL

-----------------------------------------------------------------------------
(* What a step may do to the record, and to the attempts.                   *)

\* The moves of the table the daemon and the Masters make.
LEMMA Moves ==
    /\ \A s \in TaskState : CanMove(s, s)
    /\ \A s \in {"READY", "WAITING", "SUBMITTED"} : CanMove(s, "RUNNING")
    /\ \A s \in {"WAITING", "SUBMITTED", "FAILED"} : CanMove("RUNNING", s)
    /\ CanMove("SUBMITTED", "DONE")
<1>1. "RUNNING" \in LegalTransitions["READY"]
  BY DEF LegalTransitions, TaskState
<1>2. "RUNNING" \in LegalTransitions["WAITING"]
  BY DEF LegalTransitions, TaskState
<1>3. {"RUNNING", "DONE"} \subseteq LegalTransitions["SUBMITTED"]
  BY DEF LegalTransitions, TaskState
<1>4. {"WAITING", "SUBMITTED", "FAILED"} \subseteq LegalTransitions["RUNNING"]
  BY DEF LegalTransitions, TaskState
<1> QED
  BY <1>1, <1>2, <1>3, <1>4 DEF CanMove

\* A step of the record that the table and the lease rules allow.
Legal ==
    task' # task =>
        /\ task'.rev = task.rev + 1
        /\ CanMove(task.state, task'.state)
        /\ task'.lease \notin {0, task.lease} =>
              task.lease = 0 \/ (task.state = "RUNNING" /\ plan = "adopt")

\* A commit that mints no lease is such a step.
LEMMA LegalCommit ==
    ASSUME task \in Task, NEW y \in Task, Commit(y), y.lease \in {0, task.lease},
           CanMove(task.state, y.state)
    PROVE  Legal
  BY CommitOf DEF Legal

\* The commits of the daemon.
LEMMA PassIsLegal ==
    ASSUME IInv, Route \/ Observe
    PROVE  Legal
<1>1. task \in Task /\ task.state \in TaskState /\ obs \in ReceiptType /\ Sound(task, Len(workers))
  BY DEF IInv, TypeOK, Task
<1>2. CASE UNCHANGED task
  BY <1>2 DEF Legal
<1>3. ASSUME Current, AskRotation, Commit(Rotating(task, control.id, FALSE))
      PROVE  Legal
  <2>1. task.lease # 0 /\ control.id # 0 /\ control.id \in Nat
    BY <1>3, CurrentSnap DEF AskRotation, MustRotate, IInv, Drains, TypeOK, Control
  <2>2. task.state \in {"RUNNING", "WAITING"} /\ (task.rotation # NoRotation => task.rotation.id # 0)
    BY <1>1, <2>1 DEF Sound
  <2>3. PICK y : y = Rotating(task, control.id, FALSE)
    OBVIOUS
  <2>4. \E attach \in BOOLEAN : y = Rotating(task, control.id, attach)
    <3> WITNESS FALSE \in BOOLEAN
    <3> QED
      BY <2>3, Zenon
  <2>5. y \in Task /\ y.state = task.state /\ y.lease = task.lease
    BY <1>1, <2>1, <2>2, <2>4, RotatingIs
  <2> QED
    BY <1>1, <1>3, <2>3, <2>5, LegalCommit, Moves
<1>4. ASSUME Current, Surrender, Commit(Surrendered(task))
      PROVE  Legal
  <2>1. PICK y : y = Surrendered(task)
    OBVIOUS
  <2>2. y \in Task /\ y.state = task.state /\ y.lease = 0
    BY <1>1, <2>1, SurrenderedIs
  <2> QED
    BY <1>1, <1>4, <2>1, <2>2, LegalCommit, Moves
<1>5. ASSUME Current, pc = "alive", NEW y, y \in {Yielded(task, obs), Paused(task)}, Commit(y)
      PROVE  Legal
  <2>1. y \in Task /\ y.state = "WAITING" /\ y.lease = task.lease
    <3>1. CASE y = Yielded(task, obs)
      BY <1>1, <3>1, YieldedIs
    <3>2. CASE y = Paused(task)
      BY <1>1, <3>2, PausedIs
    <3> QED
      BY <1>5, <3>1, <3>2
  <2>2. task.state = "RUNNING"
    BY <1>5, CurrentSnap DEF IInv, Placed
  <2> QED
    BY <1>1, <1>5, <2>1, <2>2, LegalCommit, Moves
<1>6. ASSUME Current, ApplyFinal, Commit(Finished(task, obs))
      PROVE  Legal
  <2>1. PICK y : y = Finished(task, obs)
    OBVIOUS
  <2>2. task.state = "RUNNING" /\ obs.status \in {"SUBMITTED", "FAILED"}
    BY <1>6, CurrentSnap DEF ApplyFinal, IInv, Placed
  <2>3. y \in Task /\ y.state \in {"SUBMITTED", "FAILED"} /\ y.lease = 0
    BY <1>1, <2>1, <2>2, FinishedIs
  <2> QED
    BY <1>1, <1>6, <2>1, <2>2, <2>3, LegalCommit, Moves
<1>7. ASSUME Commit([task EXCEPT !.error = FALSE])
      PROVE  Legal
  <2>1. PICK y : y = [task EXCEPT !.error = FALSE]
    OBVIOUS
  <2>2. y \in Task
    BY <1>1, <2>1 DEF Task
  <2>3. y.state = task.state /\ y.lease = task.lease
    BY <1>1, <2>1 DEF Task
  <2> QED
    BY <1>1, <1>7, <2>1, <2>2, <2>3, LegalCommit, Moves
<1>8. CASE Route
  BY <1>2, <1>3, <1>4, <1>8
     DEF Route, AskRotation, RouteDispatch, RouteNothing, Surrender, ReadReceipt
<1>9. CASE Observe
  BY <1>2, <1>5, <1>6, <1>7, <1>9
     DEF Observe, ApplyYield, CheckpointUnreadable, ApplyFinal, Heartbeat, LeaveAlone, Adopt,
         PauseAtLimit, DurablyDead
<1> QED
  BY <1>8, <1>9

\* What a pass commits on the guards it was routed on is a legal transition.
LEMMA ActuationIsLegal ==
    ASSUME IInv, Actuate
    PROVE  Legal
<1>1. task \in Task /\ task.state \in TaskState /\ TypeOK
  BY DEF IInv, TypeOK, Task
<1>2. CASE UNCHANGED task
  BY <1>2 DEF Legal
<1>3. CASE CommitStart
  <2>1. /\ MayDispatch(task) /\ plan \in {"start", "adopt"}
        /\ task'.rev = task.rev + 1 /\ task'.state = "RUNNING"
    BY <1>3, StartRecord DEF CommitStart
  <2>2. plan = "start" => task.lease = 0
    BY <2>1, Replaces
  <2>3. plan = "adopt" => task.state = "RUNNING"
    BY <2>1, Replaces
  <2>4. task.state \in {"READY", "SUBMITTED", "RUNNING", "WAITING"}
    BY <2>1 DEF MayDispatch, CleanSurrender
  <2> QED
    BY <1>1, <2>1, <2>2, <2>3, <2>4, Moves DEF Legal
<1>4. CASE CommitResume
  <2>1. PICK y : y = Resumed(task)
    OBVIOUS
  <2>2. y \in Task /\ y.state = "RUNNING" /\ y.lease = task.lease
    BY <1>1, <2>1, ResumedIs
  <2>3. task.state = "WAITING"
    BY <1>4, CurrentSnap DEF CommitResume, Admitted, IInv, Placed, MayDispatch
  <2> QED
    BY <1>1, <1>4, <2>1, <2>2, <2>3, LegalCommit, Moves DEF CommitResume
<1>5. ASSUME Commit([task EXCEPT !.error = TRUE])
      PROVE  Legal
  <2>1. PICK y : y = [task EXCEPT !.error = TRUE]
    OBVIOUS
  <2>2. y \in Task
    BY <1>1, <2>1 DEF Task
  <2>3. y.state = task.state /\ y.lease = task.lease
    BY <1>1, <2>1 DEF Task
  <2> QED
    BY <1>1, <1>5, <2>1, <2>2, <2>3, LegalCommit, Moves
<1> QED
  BY <1>2, <1>3, <1>4, <1>5
     DEF Actuate, CommitRejected, Fence, Prepare, Send, StopWorker, ExecutorFails, ReadError,
         RecordError

\* What a Master commits is a legal transition.
LEMMA DecisionIsLegal ==
    ASSUME IInv, NEW m \in Masters, Decision(m)
    PROVE  Legal
<1>1. task \in Task /\ task.state \in TaskState /\ task.contract + 1 \in Nat
  BY DEF IInv, TypeOK, Task
<1>2. CASE Accept(m)
  <2>1. PICK y : y = [task EXCEPT !.state = "DONE", !.lease = 0, !.accepted = task.contract]
    OBVIOUS
  <2>2. y \in Task
    BY <1>1, <2>1 DEF Task, TaskState
  <2>3. y.state = "DONE" /\ y.lease = 0
    BY <1>1, <2>1 DEF Task
  <2> QED
    BY <1>1, <1>2, <2>1, <2>2, <2>3, LegalCommit, Moves DEF Accept
<1>3. CASE Amend(m)
  <2>1. PICK y : y = [task EXCEPT !.contract = task.contract + 1]
    OBVIOUS
  <2>2. y \in Task /\ y.state = task.state /\ y.lease = task.lease
    BY <1>1, <2>1 DEF Task
  <2> QED
    BY <1>1, <1>3, <2>1, <2>2, LegalCommit, Moves DEF Amend
<1>4. CASE Rule(m)
  <2>1. PICK y : y = [task EXCEPT !.ruling = TRUE]
    OBVIOUS
  <2>2. y \in Task
    BY <1>1, <2>1 DEF Task
  <2>3. y.state = task.state /\ y.lease = task.lease
    BY <1>1, <2>1 DEF Task
  <2> QED
    BY <1>1, <1>4, <2>1, <2>2, <2>3, LegalCommit, Moves DEF Rule
<1>5. CASE Rework(m)
  <2>1. PICK y : y = [task EXCEPT !.rework = TRUE]
    OBVIOUS
  <2>2. y \in Task
    BY <1>1, <2>1 DEF Task
  <2>3. y.state = task.state /\ y.lease = task.lease
    BY <1>1, <2>1 DEF Task
  <2> QED
    BY <1>1, <1>5, <2>1, <2>2, <2>3, LegalCommit, Moves DEF Rework
<1>6. ASSUME NEW attach \in BOOLEAN, Rotate(m, attach)
      PROVE  Legal
  <2>1. PICK id : id = MaxStops + task.rev
    OBVIOUS
  <2>2. task.rev \in Nat /\ task.rev >= 1 /\ Sound(task, Len(workers))
    BY <1>1 DEF IInv, Sound, Task
  <2>3. id \in Nat /\ id # 0
    BY <2>1, <2>2, ReconcilerAssumption
  <2>4. task.state \in {"RUNNING", "WAITING"} /\ (task.rotation # NoRotation => task.rotation.id # 0)
    BY <1>6, <2>2 DEF Rotate, Sound
  <2>5. PICK y : y = Rotating(task, id, attach)
    OBVIOUS
  <2>6. y \in Task /\ y.state = task.state /\ y.lease = task.lease
    BY <1>1, <2>3, <2>4, <2>5, RotatingIs
  <2> QED
    BY <1>1, <1>6, <2>1, <2>5, <2>6, LegalCommit, Moves DEF Rotate
<1> QED
  BY <1>2, <1>3, <1>4, <1>5, <1>6 DEF Decision

\* Nothing that is committed is refused by the transition and lease rules
\* (transitions.py:41-57, 99-114).
THEOREM EveryCommitLegal == Spec => CommitsAreLegal
<1>1. IInv /\ [Next]_vars => [Legal]_vars
  <2> SUFFICES ASSUME IInv, [Next]_vars
               PROVE  Legal
    OBVIOUS
  <2>1. CASE UNCHANGED task
    BY <2>1 DEF Legal
  <2>2. CASE Pass
    BY <2>1, <2>2, PassIsLegal, ActuationIsLegal DEF Pass, BeginPass, CheckDrained
  <2>3. ASSUME NEW m \in Masters, ReadTask(m) \/ Decision(m)
        PROVE  Legal
    BY <2>1, <2>3, DecisionIsLegal DEF ReadTask
  <2>4. ASSUME NEW g \in DOMAIN workers, Begin(g) \/ Work(g) \/ Exit(g) \/ Die(g)
        PROVE  UNCHANGED task
    BY <2>4 DEF Begin, Work, Await, YieldToRotation, Finish, Exit, Die
  <2> QED
    BY <2>1, <2>2, <2>3, <2>4
       DEF Next, vars, StartDaemon, StopDrain, EventFires, NoteLands, KillDaemon, Reboot
<1>2. [Legal]_vars => [task' # task =>
        /\ task'.rev = task.rev + 1
        /\ CanMove(task.state, task'.state)
        /\ task'.lease \notin {0, task.lease} =>
              task.lease = 0 \/ (task.state = "RUNNING" /\ plan = "adopt")]_vars
  BY DEF Legal
<1> QED
  BY <1>1, <1>2, Inductive, PTL DEF Spec, CommitsAreLegal

\* No attempt is counted up.
NoNewAttempt == \A g \in DOMAIN workers : workers'[g].attempt = workers[g].attempt

\* A worker that changes keeps the count of its attempts.
LEMMA SameAttempt ==
    ASSUME workers \in Seq(WorkerType), NEW g \in DOMAIN workers, NEW w,
           w.attempt = workers[g].attempt, workers' = [workers EXCEPT ![g] = w]
    PROVE  NoNewAttempt
<1>1. workers'[g] = w /\ \A h \in DOMAIN workers \ {g} : workers'[h] = workers[h]
  OBVIOUS
<1> QED
  BY <1>1 DEF NoNewAttempt

\* Preparing an attempt is what counts it up, and nothing else is.
LEMMA OthersPrepareNothing ==
    ASSUME IInv, [Next]_vars
    PROVE  Prepare \/ NoNewAttempt
<1>1. workers \in Seq(WorkerType) /\ \A g \in DOMAIN workers : workers[g] \in WorkerType
  BY DEF IInv, TypeOK
<1>2. CASE UNCHANGED workers
  BY <1>2 DEF NoNewAttempt
<1>3. CASE CommitStart
  BY <1>1, <1>3 DEF CommitStart, NoNewAttempt
<1>4. ASSUME pc = "send", workers' = [workers EXCEPT ![task.lease].proc = "queued"]
      PROVE  NoNewAttempt
  <2>1. task.lease \in DOMAIN workers
    BY <1>1, <1>4 DEF IInv, Placed, Locked
  <2>2. PICK w : w = [workers[task.lease] EXCEPT !.proc = "queued"]
    OBVIOUS
  <2>3. w.attempt = workers[task.lease].attempt
    BY <1>1, <2>1, <2>2 DEF WorkerType
  <2>4. workers' = [workers EXCEPT ![task.lease] = w]
    BY <1>4, <2>2
  <2> QED
    BY <1>1, <2>1, <2>3, <2>4, SameAttempt
<1>5. ASSUME NEW g \in DOMAIN workers, Begin(g)
      PROVE  NoNewAttempt
  <2>1. PICK w : w = [workers[g] EXCEPT !.proc = "running", !.receipt = NoReceipt]
    OBVIOUS
  <2>2. w.attempt = workers[g].attempt
    BY <1>1, <2>1 DEF WorkerType
  <2>3. workers' = [workers EXCEPT ![g] = w]
    BY <1>5, <2>1 DEF Begin
  <2> QED
    BY <1>1, <2>2, <2>3, SameAttempt
<1>6. ASSUME NEW g \in DOMAIN workers, NEW r, Report(g, r)
      PROVE  NoNewAttempt
  <2>1. PICK s : s = [r EXCEPT !.attempt = workers[g].attempt]
    OBVIOUS
  <2>2. PICK w : w = [workers[g] EXCEPT !.receipt = s]
    OBVIOUS
  <2>3. w.attempt = workers[g].attempt
    BY <1>1, <2>2 DEF WorkerType
  <2>4. workers' = [workers EXCEPT ![g] = w]
    BY <1>6, <2>1, <2>2 DEF Report
  <2> QED
    BY <1>1, <2>3, <2>4, SameAttempt
<1>7. ASSUME NEW g \in DOMAIN workers, Work(g)
      PROVE  NoNewAttempt
  BY <1>6, <1>7 DEF Work, Await, YieldToRotation, Finish
<1>8. ASSUME NEW g \in DOMAIN workers, Exit(g) \/ Die(g)
      PROVE  NoNewAttempt
  <2>1. PICK w : w = [workers[g] EXCEPT !.proc = "dead"]
    OBVIOUS
  <2>2. w.attempt = workers[g].attempt
    BY <1>1, <2>1 DEF WorkerType
  <2>3. workers' = [workers EXCEPT ![g] = w]
    BY <1>8, <2>1 DEF Exit, Die
  <2> QED
    BY <1>1, <2>2, <2>3, SameAttempt
<1>9. CASE Reboot
  <2>1. \A g \in DOMAIN workers : AfterBoot(workers[g]).attempt = workers[g].attempt
    BY <1>1 DEF AfterBoot, WorkerType
  <2>2. \A g \in DOMAIN workers : workers'[g] = AfterBoot(workers[g])
    BY <1>9 DEF Reboot
  <2> QED
    BY <2>1, <2>2 DEF NoNewAttempt
<1>10. CASE Pass
  <2>1. CASE BeginPass \/ CheckDrained \/ Route \/ Observe
    BY <1>2, <2>1
       DEF BeginPass, CheckDrained, Route, AskRotation, RouteDispatch, RouteNothing, Surrender,
           ReadReceipt, Observe, ApplyYield, CheckpointUnreadable, ApplyFinal, Heartbeat,
           LeaveAlone, Adopt, PauseAtLimit
  <2>2. CASE Actuate
    BY <1>2, <1>3, <1>4, <2>2
       DEF Actuate, CommitResume, CommitRejected, Fence, Send, StopWorker, ExecutorFails,
           ReadError, RecordError
  <2> QED
    BY <1>10, <2>1, <2>2 DEF Pass
<1>11. ASSUME NEW m \in Masters, ReadTask(m) \/ Decision(m)
       PROVE  UNCHANGED workers
  BY <1>11 DEF ReadTask, Decision, Accept, Amend, Rule, Rework, Rotate, Decides
<1> QED
  BY <1>2, <1>5, <1>7, <1>8, <1>9, <1>10, <1>11
     DEF Next, vars, StartDaemon, StopDrain, EventFires, NoteLands, KillDaemon

\* Once a drain is on record no attempt is prepared until the control is gone: the dispatch
\* looks at the control under the lock that the drain takes (turnover.py:60).
THEOREM DrainsWithhold == Spec => DrainWithholds
<1>1. IInv /\ [Next]_vars
        => [control.draining
              => \A g \in DOMAIN workers : workers'[g].attempt = workers[g].attempt]_vars
  <2> SUFFICES ASSUME IInv, [Next]_vars, control.draining
               PROVE  NoNewAttempt
    BY DEF NoNewAttempt
  <2>1. ~Prepare
    BY DEF Prepare, IInv, Placed, Locked
  <2> QED
    BY <2>1, OthersPrepareNothing
<1> QED
  BY <1>1, Inductive, PTL DEF Spec, DrainWithholds

-----------------------------------------------------------------------------
(* The checkpoints on record.                                               *)

\* A checkpoint that tells of attempt a of worker n, or that a Master attached.
Tells(c, n, a) == c = Attached \/ (c.by = "worker" /\ c.lease = n /\ c.attempt = a)

\* What the checkpoints of a record t are, when worker n is the newest and a its last
\* attempt: only a waiting task has one, it tells of that attempt, and what a task was
\* surrendered with does so still.
EvidentIn(t, n, a) ==
    /\ t.checkpoint # NoCheckpoint =>
          /\ t.state = "WAITING" /\ Tells(t.checkpoint, n, a)
          /\ t.lease # 0 => t.checkpoint.rotation \in {0, t.rotation.id}
    /\ t.rotation.checkpoint \in {NoCheckpoint, Attached}
    /\ (t.state = "WAITING" /\ t.lease = 0) =>
          /\ t.surrender.lease = n
          /\ Tells(t.surrender.checkpoint, n, a)
          /\ t.surrender.checkpoint.rotation \in {0, t.surrender.id}
Evident == EvidentIn(task, Len(workers), workers[Len(workers)].attempt)

\* A record that keeps its checkpoints, its request, its owner and its state.
LEMMA SameEvidence ==
    ASSUME NEW t, NEW y, NEW n, NEW a, EvidentIn(t, n, a),
           y.state = t.state, y.lease = t.lease, y.checkpoint = t.checkpoint,
           y.rotation = t.rotation, y.surrender = t.surrender
    PROVE  EvidentIn(y, n, a)
  BY DEF EvidentIn

\* Whatever is committed, is evident on record.
LEMMA CommitEvident ==
    ASSUME task \in Task, NEW y \in Task, Commit(y), NEW n, NEW a, EvidentIn(y, n, a)
    PROVE  EvidentIn(task, n, a)'
<1>1. /\ task'.state = y.state /\ task'.lease = y.lease /\ task'.rotation = y.rotation
      /\ task'.surrender = y.surrender /\ task'.checkpoint = y.checkpoint
  BY CommitOf
<1> QED
  BY <1>1, SameEvidence

\* Where nobody waits, there is nothing to tell.
LEMMA NothingToTell ==
    ASSUME NEW y, y.state # "WAITING", y.checkpoint = NoCheckpoint,
           y.rotation.checkpoint \in {NoCheckpoint, Attached}, NEW n, NEW a
    PROVE  EvidentIn(y, n, a)
  BY DEF EvidentIn

\* The newest worker and its last attempt stay what they are while the task waits.
LEMMA LastStays ==
    ASSUME IInv, [Next]_vars, ~CommitStart
    PROVE  /\ Len(workers') = Len(workers)
           /\ task.state = "WAITING" =>
                workers'[Len(workers)].attempt = workers[Len(workers)].attempt
<1>1. workers \in Seq(WorkerType) /\ Len(workers) \in Nat
  BY DEF IInv, TypeOK
<1>2. ASSUME NEW g, NEW w, workers' = [workers EXCEPT ![g] = w]
      PROVE  Len(workers') = Len(workers)
  BY <1>1, <1>2
<1>3. Len(workers') = Len(workers)
  <2>1. CASE UNCHANGED workers
    BY <2>1
  <2>2. CASE Prepare \/ Send
    BY <1>2, <2>2 DEF Prepare, Send
  <2>3. CASE ExecutorFails
    BY <1>2, <2>3 DEF ExecutorFails
  <2>4. ASSUME NEW g \in DOMAIN workers, Begin(g) \/ Work(g) \/ Exit(g) \/ Die(g)
        PROVE  Len(workers') = Len(workers)
    <3>1. CASE Begin(g)
      <4>1. PICK w : w = [workers[g] EXCEPT !.proc = "running", !.receipt = NoReceipt]
        OBVIOUS
      <4>2. workers' = [workers EXCEPT ![g] = w]
        BY <3>1, <4>1 DEF Begin
      <4> QED
        BY <1>2, <4>2
    <3>2. CASE Work(g)
      BY <1>2, <3>2 DEF Work, Await, YieldToRotation, Finish, Report
    <3>3. CASE Exit(g) \/ Die(g)
      BY <1>2, <3>3 DEF Exit, Die
    <3> QED
      BY <2>4, <3>1, <3>2, <3>3
  <2>5. CASE Reboot
    BY <1>1, <2>5 DEF Reboot
  <2>6. CASE BeginPass \/ CheckDrained \/ Route \/ Observe
    BY <2>1, <2>6
       DEF BeginPass, CheckDrained, Route, AskRotation, RouteDispatch, RouteNothing, Surrender,
           ReadReceipt, Observe, ApplyYield, CheckpointUnreadable, ApplyFinal, Heartbeat,
           LeaveAlone, Adopt, PauseAtLimit
  <2>7. CASE Actuate
    BY <2>1, <2>2, <2>3, <2>7
       DEF Actuate, CommitResume, CommitRejected, Fence, StopWorker, ReadError, RecordError
  <2>8. ASSUME NEW m \in Masters, ReadTask(m) \/ Decision(m)
        PROVE  UNCHANGED workers
    BY <2>8 DEF ReadTask, Decision, Accept, Amend, Rule, Rework, Rotate, Decides
  <2> QED
    BY <2>1, <2>4, <2>5, <2>6, <2>7, <2>8
       DEF Next, Pass, vars, StartDaemon, StopDrain, EventFires, NoteLands, KillDaemon
<1>4. ASSUME task.state = "WAITING"
      PROVE  workers'[Len(workers)].attempt = workers[Len(workers)].attempt
  <2>1. NoNewAttempt
    <3>1. ~Prepare
      BY <1>4 DEF Prepare, IInv, Placed, Locked
    <3> QED
      BY <3>1, OthersPrepareNothing
  <2>2. Len(workers) > 0
    <3>1. CASE task.lease = 0
      BY <1>4, <3>1 DEF IInv, Gone
    <3>2. CASE task.lease # 0
      BY <1>1, <3>2 DEF IInv, Sound
    <3> QED
      BY <3>1, <3>2
  <2>3. Len(workers) \in DOMAIN workers
    BY <1>1, <2>2
  <2> QED
    BY <2>1, <2>3 DEF NoNewAttempt
<1> QED
  BY <1>3, <1>4

\* A request that is put on record, or a checkpoint that is attached to it.
LEMMA RequestEvident ==
    ASSUME NEW t \in Task, NEW n, NEW a, EvidentIn(t, n, a), t.lease # 0,
           t.state \in {"RUNNING", "WAITING"}, t.rotation # NoRotation => t.rotation.id # 0,
           NEW id \in Nat, id # 0, NEW attach \in BOOLEAN,
           NEW y, y = Rotating(t, id, attach)
    PROVE  y \in Task /\ EvidentIn(y, n, a)
<1>1. /\ y \in Task /\ y.state = t.state /\ y.lease = t.lease /\ y.checkpoint = t.checkpoint
      /\ t.rotation # NoRotation => y.rotation.id = t.rotation.id
      /\ y.rotation.checkpoint \in {NoCheckpoint, t.rotation.checkpoint, Attached}
  BY RotatingIs
<1>2. NoRotation.id = 0
  BY DEF NoRotation
<1> QED
  BY <1>1, <1>2 DEF EvidentIn

\* The checkpoints of what the passes commit that start nobody.
LEMMA PassEvident ==
    ASSUME IInv, NEW n, n = Len(workers), NEW a, a = workers[n].attempt, EvidentIn(task, n, a),
           Route \/ Observe
    PROVE  EvidentIn(task, n, a)'
<1>1. /\ task \in Task /\ task.state \in TaskState /\ obs \in ReceiptType
      /\ Sound(task, Len(workers))
  BY DEF IInv, TypeOK, Task
<1>2. CASE UNCHANGED task
  BY <1>2
<1>3. ASSUME Current, AskRotation, Commit(Rotating(task, control.id, FALSE))
      PROVE  EvidentIn(task, n, a)'
  <2>1. task.lease # 0 /\ control.id # 0 /\ control.id \in Nat
    BY <1>3, CurrentSnap DEF AskRotation, MustRotate, IInv, Drains, TypeOK, Control
  <2>2. task.state \in {"RUNNING", "WAITING"} /\ (task.rotation # NoRotation => task.rotation.id # 0)
    BY <1>1, <2>1 DEF Sound
  <2>3. PICK y : y = Rotating(task, control.id, FALSE)
    OBVIOUS
  <2>4. PICK id : id = control.id
    OBVIOUS
  <2>5. y \in Task /\ EvidentIn(y, n, a)
    BY <1>1, <2>1, <2>2, <2>3, <2>4, RequestEvident
  <2> QED
    BY <1>1, <1>3, <2>3, <2>5, CommitEvident
<1>4. ASSUME Current, Surrender, Commit(Surrendered(task))
      PROVE  EvidentIn(task, n, a)'
  <2>1. PICK y : y = Surrendered(task)
    OBVIOUS
  <2>2. /\ y \in Task /\ y.state = task.state /\ y.lease = 0 /\ y.rotation = NoRotation
        /\ y.surrender.id = task.rotation.id /\ y.surrender.lease = task.lease
        /\ y.surrender.checkpoint = ChosenCheckpoint(task) /\ y.checkpoint = task.checkpoint
    BY <1>1, <2>1, SurrenderedIs
  <2>3. /\ task.state = "WAITING" /\ task.lease = n
        /\ task.lease # 0 /\ ChosenCheckpoint(task) # NoCheckpoint
    BY <1>1, <1>4, CurrentSnap DEF Surrender, Yielding, Checkpointed, Sound
  <2>4. /\ Tells(y.surrender.checkpoint, n, a)
        /\ y.surrender.checkpoint.rotation \in {0, task.rotation.id}
    <3>1. ChosenCheckpoint(task) \in {task.rotation.checkpoint, task.checkpoint}
      BY <1>1, <2>3, ChosenIs
    <3>2. Attached.rotation = 0 /\ Tells(Attached, n, a)
      BY DEF Attached, NoCheckpoint, Tells
    <3>3. CASE ChosenCheckpoint(task) = task.rotation.checkpoint
      BY <2>2, <2>3, <3>2, <3>3 DEF EvidentIn
    <3>4. CASE ChosenCheckpoint(task) = task.checkpoint
      BY <2>2, <2>3, <3>4 DEF EvidentIn
    <3> QED
      BY <3>1, <3>3, <3>4
  <2>5. NoRotation.checkpoint = NoCheckpoint
    BY DEF NoRotation
  <2>6. EvidentIn(y, n, a)
    BY <2>2, <2>3, <2>4, <2>5 DEF EvidentIn
  <2> QED
    BY <1>1, <1>4, <2>1, <2>2, <2>6, CommitEvident
<1>5. ASSUME Current, ApplyYield, ~StaleRotation(obs), Commit(Yielded(task, obs))
      PROVE  EvidentIn(task, n, a)'
  <2>1. PICK y : y = Yielded(task, obs)
    OBVIOUS
  <2>2. /\ y \in Task /\ y.state = "WAITING" /\ y.lease = task.lease
        /\ y.rotation = task.rotation
        /\ \/ y.checkpoint = NoCheckpoint
           \/ /\ y.checkpoint.by = "worker" /\ y.checkpoint.lease = task.lease
              /\ y.checkpoint.attempt = obs.attempt
              /\ y.checkpoint.rotation = obs.rotation
    BY <1>1, <2>1, YieldedIs
  <2>3. snap = task /\ task.lease # 0 /\ obs # NoReceipt
    BY <1>5, CurrentSnap DEF ApplyYield, IInv, Placed, NoReceipt
  <2>4. task.lease = n /\ obs.attempt = a
    BY <1>1, <1>5, <2>3 DEF ApplyYield, IInv, Placed, Sound
  <2>5. obs.rotation \in {0, task.rotation.id}
    BY <1>5, <2>3 DEF StaleRotation
  <2>6. EvidentIn(y, n, a)
    BY <2>2, <2>3, <2>4, <2>5 DEF EvidentIn, Tells
  <2> QED
    BY <1>1, <1>5, <2>1, <2>2, <2>6, CommitEvident
<1>6. ASSUME Current, pc = "alive", Commit(Paused(task))
      PROVE  EvidentIn(task, n, a)'
  <2>1. PICK y : y = Paused(task)
    OBVIOUS
  <2>2. /\ y \in Task /\ y.state = "WAITING" /\ y.lease = task.lease
        /\ y.rotation = task.rotation /\ y.checkpoint = task.checkpoint
    BY <1>1, <2>1, PausedIs
  <2>3. task.state = "RUNNING" /\ task.lease # 0
    BY <1>6, CurrentSnap DEF IInv, Placed
  <2>4. EvidentIn(y, n, a)
    BY <2>2, <2>3 DEF EvidentIn
  <2> QED
    BY <1>1, <1>6, <2>1, <2>2, <2>4, CommitEvident
<1>7. ASSUME Current, ApplyFinal, Commit(Finished(task, obs))
      PROVE  EvidentIn(task, n, a)'
  <2>1. PICK y : y = Finished(task, obs)
    OBVIOUS
  <2>2. task.state = "RUNNING" /\ obs.status \in {"SUBMITTED", "FAILED"}
    BY <1>7, CurrentSnap DEF ApplyFinal, IInv, Placed
  <2>3. /\ y \in Task /\ y.state # "WAITING" /\ y.checkpoint = task.checkpoint
        /\ y.rotation = NoRotation
    BY <1>1, <2>1, <2>2, FinishedIs
  <2>4. y.checkpoint = NoCheckpoint /\ y.rotation.checkpoint = NoCheckpoint
    BY <2>2, <2>3 DEF EvidentIn, NoRotation
  <2>5. EvidentIn(y, n, a)
    BY <2>3, <2>4, NothingToTell
  <2> QED
    BY <1>1, <1>7, <2>1, <2>3, <2>5, CommitEvident
<1>8. ASSUME Commit([task EXCEPT !.error = FALSE])
      PROVE  EvidentIn(task, n, a)'
  <2>1. PICK y : y = [task EXCEPT !.error = FALSE]
    OBVIOUS
  <2>2. y \in Task
    BY <1>1, <2>1 DEF Task
  <2>3. /\ y.state = task.state /\ y.lease = task.lease /\ y.checkpoint = task.checkpoint
        /\ y.rotation = task.rotation /\ y.surrender = task.surrender
    BY <1>1, <2>1 DEF Task
  <2>4. EvidentIn(y, n, a)
    BY <2>3, SameEvidence
  <2> QED
    BY <1>1, <1>8, <2>1, <2>2, <2>4, CommitEvident
<1>9. CASE Route
  BY <1>2, <1>3, <1>4, <1>9
     DEF Route, AskRotation, RouteDispatch, RouteNothing, Surrender, ReadReceipt
<1>10. CASE ApplyYield
  BY <1>2, <1>5, <1>10 DEF ApplyYield
<1>11. CASE PauseAtLimit
  BY <1>2, <1>6, <1>11 DEF PauseAtLimit, DurablyDead
<1>12. CASE Observe /\ ~ApplyYield /\ ~PauseAtLimit
  BY <1>2, <1>7, <1>8, <1>12
     DEF Observe, CheckpointUnreadable, ApplyFinal, Heartbeat, LeaveAlone, Adopt
<1> QED
  BY <1>9, <1>10, <1>11, <1>12

\* The checkpoints after a dispatch, or after an error of one.
LEMMA ActuationEvident ==
    ASSUME IInv, NEW n, NEW a, Actuate, EvidentIn(task, n, a), NEW m, NEW b,
           (CommitStart \/ task.state # "WAITING") \/ (m = n /\ b = a)
    PROVE  EvidentIn(task, m, b)'
<1>1. task \in Task /\ TypeOK
  BY DEF IInv, TypeOK
<1>2. NoRotation.checkpoint = NoCheckpoint
  BY DEF NoRotation
<1>3. task.rotation.checkpoint \in {NoCheckpoint, Attached}
  BY DEF EvidentIn
<1>4. ASSUME ~CommitStart
      PROVE  EvidentIn(task, m, b)
  BY <1>3, <1>4, NothingToTell DEF EvidentIn
<1>5. CASE CommitStart
  <2>1. /\ task'.state = "RUNNING" /\ task'.checkpoint = NoCheckpoint
        /\ task'.rotation \in {NoRotation, task.rotation}
    BY <1>5, StartRecord
  <2> QED
    BY <1>2, <1>3, <2>1, NothingToTell
<1>6. CASE CommitResume
  <2>1. PICK y : y = Resumed(task)
    OBVIOUS
  <2>2. /\ y \in Task /\ y.state = "RUNNING" /\ y.checkpoint = NoCheckpoint
        /\ y.rotation = task.rotation
    BY <1>1, <2>1, ResumedIs
  <2>3. EvidentIn(y, m, b)
    BY <1>3, <2>2, NothingToTell
  <2> QED
    BY <1>1, <1>6, <2>1, <2>2, <2>3, CommitEvident DEF CommitResume
<1>7. ASSUME ~CommitStart, Commit([task EXCEPT !.error = TRUE])
      PROVE  EvidentIn(task, m, b)'
  <2>1. PICK y : y = [task EXCEPT !.error = TRUE]
    OBVIOUS
  <2>2. y \in Task
    BY <1>1, <2>1 DEF Task
  <2>3. /\ y.state = task.state /\ y.lease = task.lease /\ y.checkpoint = task.checkpoint
        /\ y.rotation = task.rotation /\ y.surrender = task.surrender
    BY <1>1, <2>1 DEF Task
  <2>4. EvidentIn(y, m, b)
    BY <1>4, <1>7, <2>3, SameEvidence
  <2> QED
    BY <1>1, <1>7, <2>1, <2>2, <2>4, CommitEvident
<1>8. CASE UNCHANGED task /\ ~CommitStart
  BY <1>4, <1>8
<1> QED
  BY <1>5, <1>6, <1>7, <1>8
     DEF Actuate, CommitRejected, Fence, Prepare, Send, StopWorker, ExecutorFails, ReadError,
         RecordError

\* The checkpoints after a decision of a Master.
LEMMA DecisionEvident ==
    ASSUME IInv, NEW n, NEW a, EvidentIn(task, n, a), NEW m \in Masters, Decision(m)
    PROVE  EvidentIn(task, n, a)'
<1>1. task \in Task /\ task.contract + 1 \in Nat
  BY DEF IInv, TypeOK, Task
<1>2. CASE Accept(m)
  <2>1. PICK y : y = [task EXCEPT !.state = "DONE", !.lease = 0, !.accepted = task.contract]
    OBVIOUS
  <2>2. y \in Task
    BY <1>1, <2>1 DEF Task, TaskState
  <2>3. y.state = "DONE" /\ y.checkpoint = task.checkpoint /\ y.rotation = task.rotation
    BY <1>1, <2>1 DEF Task
  <2>4. task.state = "SUBMITTED"
    BY <1>2 DEF Accept
  <2>5. EvidentIn(y, n, a)
    BY <2>3, <2>4, NothingToTell DEF EvidentIn
  <2> QED
    BY <1>1, <1>2, <2>1, <2>2, <2>5, CommitEvident DEF Accept
<1>3. ASSUME NEW y \in Task, Commit(y), y.state = task.state, y.lease = task.lease,
             y.checkpoint = task.checkpoint, y.rotation = task.rotation,
             y.surrender = task.surrender
      PROVE  EvidentIn(task, n, a)'
  BY <1>1, <1>3, SameEvidence, CommitEvident
<1>4. CASE Amend(m)
  <2>1. PICK y : y = [task EXCEPT !.contract = task.contract + 1]
    OBVIOUS
  <2>2. y \in Task /\ y.state = task.state /\ y.lease = task.lease
        /\ y.checkpoint = task.checkpoint /\ y.rotation = task.rotation
        /\ y.surrender = task.surrender
    BY <1>1, <2>1 DEF Task
  <2> QED
    BY <1>3, <1>4, <2>1, <2>2 DEF Amend
<1>5. CASE Rule(m)
  <2>1. PICK y : y = [task EXCEPT !.ruling = TRUE]
    OBVIOUS
  <2>2. y \in Task
    BY <1>1, <2>1 DEF Task
  <2>3. y.state = task.state /\ y.lease = task.lease
        /\ y.checkpoint = task.checkpoint /\ y.rotation = task.rotation
        /\ y.surrender = task.surrender
    BY <1>1, <2>1 DEF Task
  <2> QED
    BY <1>3, <1>5, <2>1, <2>2, <2>3 DEF Rule
<1>6. CASE Rework(m)
  <2>1. PICK y : y = [task EXCEPT !.rework = TRUE]
    OBVIOUS
  <2>2. y \in Task
    BY <1>1, <2>1 DEF Task
  <2>3. y.state = task.state /\ y.lease = task.lease
        /\ y.checkpoint = task.checkpoint /\ y.rotation = task.rotation
        /\ y.surrender = task.surrender
    BY <1>1, <2>1 DEF Task
  <2> QED
    BY <1>3, <1>6, <2>1, <2>2, <2>3 DEF Rework
<1>7. ASSUME NEW attach \in BOOLEAN, Rotate(m, attach)
      PROVE  EvidentIn(task, n, a)'
  <2>1. PICK id : id = MaxStops + task.rev
    OBVIOUS
  <2>2. task.rev \in Nat /\ task.rev >= 1 /\ Sound(task, Len(workers))
    BY <1>1 DEF IInv, Sound, Task
  <2>3. id \in Nat /\ id # 0
    BY <2>1, <2>2, ReconcilerAssumption
  <2>4. task.state \in {"RUNNING", "WAITING"} /\ task.lease # 0
        /\ (task.rotation # NoRotation => task.rotation.id # 0)
    BY <1>7, <2>2 DEF Rotate, Sound
  <2>5. PICK y : y = Rotating(task, id, attach)
    OBVIOUS
  <2>6. y \in Task /\ EvidentIn(y, n, a)
    BY <1>1, <2>3, <2>4, <2>5, RequestEvident
  <2> QED
    BY <1>1, <1>7, <2>1, <2>5, <2>6, CommitEvident DEF Rotate
<1> QED
  BY <1>2, <1>4, <1>5, <1>6, <1>7 DEF Decision

\* Every step keeps the checkpoints evident.
LEMMA StaysEvident ==
    ASSUME IInv, Evident, [Next]_vars
    PROVE  Evident'
<1>1. PICK n : n = Len(workers)
  OBVIOUS
<1>2. PICK a : a = workers[n].attempt
  OBVIOUS
<1>3. EvidentIn(task, n, a)
  BY <1>1, <1>2 DEF Evident
<1>4. PICK m, b : m = Len(workers') /\ b = workers'[m].attempt
  OBVIOUS
<1>5. CommitStart \/ task.state # "WAITING" \/ (m = n /\ b = a)
  BY <1>1, <1>2, <1>4, LastStays
<1>6. SUFFICES EvidentIn(task, m, b)'
  BY <1>4 DEF Evident
<1>7. ASSUME ~CommitStart
      PROVE  EvidentIn(task, m, b)
  BY <1>3, <1>5, <1>7, NothingToTell DEF EvidentIn
<1>8. CASE Actuate
  BY <1>3, <1>5, <1>8, ActuationEvident
<1>9. CASE Route \/ Observe
  <2>1. UNCHANGED workers
    BY <1>9
       DEF Route, AskRotation, RouteDispatch, RouteNothing, Surrender, ReadReceipt, Observe,
           ApplyYield, CheckpointUnreadable, ApplyFinal, Heartbeat, LeaveAlone, Adopt,
           PauseAtLimit
  <2>2. m = n /\ b = a
    BY <1>1, <1>2, <1>4, <2>1
  <2> QED
    BY <1>1, <1>2, <1>3, <1>9, <2>2, PassEvident
<1>10. ASSUME NEW i \in Masters, Decision(i)
       PROVE  EvidentIn(task, m, b)'
  <2>1. UNCHANGED workers
    BY <1>10 DEF Decision, Accept, Amend, Rule, Rework, Rotate, Decides
  <2>2. m = n /\ b = a
    BY <1>1, <1>2, <1>4, <2>1
  <2> QED
    BY <1>3, <1>10, <2>2, DecisionEvident
<1>11. CASE UNCHANGED task /\ ~CommitStart
  BY <1>7, <1>11
<1>12. CASE CommitStart
  BY <1>8, <1>12 DEF Actuate
<1> QED
  BY <1>8, <1>9, <1>10, <1>11, <1>12
     DEF Next, Pass, vars, StartDaemon, BeginPass, CheckDrained, ReadTask, StopDrain, Begin,
         Work, Await, YieldToRotation, Finish, Exit, Die, EventFires, NoteLands, KillDaemon,
         Reboot

\* A task that waits without an owner is a clean surrender: its last owner is dead, its
\* request is answered, and the checkpoint on record tells of the last attempt there was,
\* not of one before a resume or of another owner (reconciler.py:258-284,
\* turnover.py:61-74).
THEOREM SurrendersAreClean == Spec => []SurrenderIsClean
<1>1. Init => Evident
  BY DEF Init, NewTask, NoRotation, Evident, EvidentIn
<1>2. IInv /\ Evident /\ [Next]_vars => Evident'
  BY StaysEvident
<1>3. IInv /\ Evident => SurrenderIsClean
  BY DEF IInv, Sound, Gone, Evident, EvidentIn, Tells, TellsTheLast, SurrenderIsClean
<1> QED
  BY <1>1, <1>2, <1>3, Inductive, PTL DEF Spec
=============================================================================
