---------------------------- MODULE RecoveryProofs ----------------------------
(***************************************************************************)
(* Theorems about Recovery, for every set of hosts, operators and tasks and  *)
(* every bound.                                                              *)
(***************************************************************************)
EXTENDS Recovery, TLAPS

-----------------------------------------------------------------------------
(* The inductive invariant.                                                 *)

PlaneOf(m) == [host |-> m.host, epoch |-> m.epoch]

\* An owner is of the plane p, and a hold has its evidence archived.
InPlace(r, p) ==
    /\ r.lease # None => r.lease = p
    /\ r.hold # None => r.hold \in archive

\* Epochs and controls are numbered within the bounds.
Numbered ==
    /\ budget.stops <= MaxStops
    /\ (IF marker = None THEN manifest.epoch ELSE marker.id) + budget.recoveries <= MaxRecoveries

\* No recovery pends: tasks, and what a journal makes of them, are in place.
Settled ==
    marker = None =>
        /\ applying = None
        /\ \A t \in TaskIds : InPlace(tasks[t], PlaneOf(manifest))
        /\ journal # None => InPlace(journal.after, PlaneOf(manifest))

\* A recovery pends: nothing has changed since its plan but what the recovery itself
\* writes, in its order.
Fenced ==
    marker # None =>
        /\ \A t \in TaskIds :
              /\ InPlace(marker.plan.tasks[t], PlaneOf(marker.plan.before))
              /\ tasks[t] = marker.plan.tasks[t] \/ (Retired(t) /\ marker.id \in archive)
        /\ journal # None => /\ journal.of \in Owned(marker) /\ marker.id \in archive
                             /\ journal.after = TasksAfter(marker)[journal.of]
        /\ \/ manifest = marker.plan.before
           \/ manifest = ManifestAfter(marker) /\ \A t \in TaskIds : Retired(t)

\* Where the operator is, what it has written is there.
Placed ==
    applying # None =>
        /\ applying.at # "archive" => marker.id \in archive
        /\ applying.at = "redoLog" => journal # None
        /\ applying.at \in {"manifest", "event", "clear"} => \A t \in TaskIds : Retired(t)
        /\ applying.at \in {"event", "clear"} => manifest = ManifestAfter(marker)

IInv == TypeOK /\ Numbered /\ Settled /\ Fenced /\ Placed

-----------------------------------------------------------------------------
(* Lemmas about the operators.                                              *)

\* A write is paid for, and so is the crash in the middle of it.
LEMMA SpendTypes ==
    ASSUME budget \in Budget,
           \/ budget' = budget \/ Spend("crashes")
           \/ budget.writes > 0 /\ budget' = [budget EXCEPT !.writes = @ - 1]
           \/ budget.writes > 0 /\ budget.crashes > 0
              /\ budget' = [budget EXCEPT !.writes = @ - 1, !.crashes = @ - 1]
           \/ budget.stops > 0 /\ budget' = [budget EXCEPT !.stops = @ - 1]
           \/ budget.stops > 0 /\ budget.crashes > 0
              /\ budget' = [budget EXCEPT !.stops = @ - 1, !.crashes = @ - 1]
    PROVE  budget' \in Budget /\ budget'.stops <= budget.stops /\ budget'.recoveries = budget.recoveries
<1>1. PICK w \in Nat, s \in Nat, r \in Nat, c \in Nat, b \in Nat :
        /\ budget = [writes |-> w, stops |-> s, recoveries |-> r, crashes |-> c, reboots |-> b]
        /\ budget.writes = w /\ budget.stops = s /\ budget.recoveries = r /\ budget.crashes = c
  BY DEF Budget
<1>2. /\ w > 0 => w - 1 \in Nat
      /\ s > 0 => s - 1 \in Nat /\ s - 1 <= s
      /\ c > 0 => c - 1 \in Nat
      /\ s <= s
  OBVIOUS
<1>3. CASE budget' = budget
  BY <1>1, <1>2, <1>3
<1>4. CASE Spend("crashes")
  <2>1. c > 0 /\ budget' = [budget EXCEPT !.crashes = c - 1]
    BY <1>1, <1>4 DEF Spend
  <2> QED
    BY <1>1, <1>2, <2>1 DEF Budget
<1>5. CASE budget.writes > 0 /\ budget' = [budget EXCEPT !.writes = @ - 1]
  <2>1. w > 0 /\ budget' = [budget EXCEPT !.writes = w - 1]
    BY <1>1, <1>5
  <2> QED
    BY <1>1, <1>2, <2>1 DEF Budget
<1>6. CASE budget.writes > 0 /\ budget.crashes > 0
           /\ budget' = [budget EXCEPT !.writes = @ - 1, !.crashes = @ - 1]
  <2>1. w > 0 /\ c > 0 /\ budget' = [budget EXCEPT !.writes = w - 1, !.crashes = c - 1]
    BY <1>1, <1>6
  <2> QED
    BY <1>1, <1>2, <2>1 DEF Budget
<1>7. CASE budget.stops > 0 /\ budget' = [budget EXCEPT !.stops = @ - 1]
  <2>1. s > 0 /\ budget' = [budget EXCEPT !.stops = s - 1]
    BY <1>1, <1>7
  <2> QED
    BY <1>1, <1>2, <2>1 DEF Budget
<1>8. CASE budget.stops > 0 /\ budget.crashes > 0
           /\ budget' = [budget EXCEPT !.stops = @ - 1, !.crashes = @ - 1]
  <2>1. s > 0 /\ c > 0 /\ budget' = [budget EXCEPT !.stops = s - 1, !.crashes = c - 1]
    BY <1>1, <1>8
  <2> QED
    BY <1>1, <1>2, <2>1 DEF Budget
<1> QED
  BY <1>3, <1>4, <1>5, <1>6, <1>7, <1>8

\* A record is added to the log at most, and its tail is torn or not.
LEMMA LogTypes ==
    ASSUME NEW l, IsLog(l)
    PROVE  /\ \A e \in Event : IsLog(With(l, e))
           /\ \A torn \in BOOLEAN : IsLog([l EXCEPT !.torn = torn])
<1>1. PICK recs, tail : l = [recs |-> recs, torn |-> tail] /\ IsABag(recs)
                        /\ BagToSet(recs) \subseteq Event /\ tail \in BOOLEAN
  BY DEF IsLog
<1>2. ASSUME NEW e \in Event
      PROVE  IsLog(With(l, e))
  <2>1. CASE BagIn(e, recs)
    BY <1>1, <2>1 DEF With, IsLog
  <2>2. CASE ~BagIn(e, recs)
    <3>1. PICK b : b = BagAdd(recs, e) /\ IsABag(b) /\ BagToSet(b) \subseteq Event
      <4>1. e \notin DOMAIN recs
        BY <2>2 DEF BagIn, BagToSet
      <4>2. BagAdd(recs, e) = [x \in DOMAIN recs \cup {e} |-> IF x = e THEN 1 ELSE recs[x]]
        BY <4>1 DEF BagAdd
      <4>3. recs \in [DOMAIN recs -> {n \in Nat : n > 0}] /\ DOMAIN recs \subseteq Event
        BY <1>1 DEF IsABag, BagToSet
      <4>4. IsABag(BagAdd(recs, e)) /\ DOMAIN BagAdd(recs, e) \subseteq Event
        BY <4>2, <4>3 DEF IsABag
      <4> QED
        BY <4>4 DEF BagToSet
    <3>2. With(l, e) = [recs |-> b, torn |-> tail]
      BY <1>1, <2>2, <3>1 DEF With
    <3> QED
      BY <1>1, <3>1, <3>2 DEF IsLog
  <2> QED
    BY <2>1, <2>2
<1>3. ASSUME NEW torn \in BOOLEAN
      PROVE  IsLog([l EXCEPT !.torn = torn])
  <2>1. [l EXCEPT !.torn = torn] = [recs |-> recs, torn |-> torn]
    BY <1>1
  <2> QED
    BY <1>1, <2>1 DEF IsLog
<1> QED
  BY <1>2, <1>3

\* An append that is finished, or dies, leaves a log.
LEMMA HalfLoggedTypes ==
    ASSUME IsLog(log), NEW e \in Event
    PROVE  IsLog(Logged(e)) /\ IsLog(Torn) /\ \A l \in HalfLogged(e) : IsLog(l)
<1>1. IsLog(Logged(e)) /\ IsLog(Torn)
  BY LogTypes DEF Logged, Torn
<1> QED
  BY <1>1 DEF HalfLogged

\* What a recovery is to write is of its type, and puts every task in place.
LEMMA AfterTypes ==
    ASSUME NEW txn \in Txn
    PROVE  /\ TasksAfter(txn) \in [TaskIds -> TaskType]
           /\ ManifestAfter(txn) \in Manifest
           /\ ManifestAfter(txn).epoch = txn.id
           /\ \A t \in TaskIds :
                 /\ HeldEvent(txn, t) \in Event
                 /\ t \in Owned(txn) => /\ TasksAfter(txn)[t].lease = None
                                        /\ TasksAfter(txn)[t].hold = txn.id
                 /\ t \notin Owned(txn) => /\ TasksAfter(txn)[t] = txn.plan.tasks[t]
                                           /\ txn.plan.tasks[t].lease = None
<1>1. txn.plan \in Plan /\ txn.id \in Epochs /\ txn.plan.tasks \in [TaskIds -> TaskType]
      /\ txn.plan.target.host \in Hosts
  BY DEF Txn, Plan, Site
<1>2. ASSUME NEW t \in TaskIds
      PROVE  HeldTask(txn, t) \in TaskType
  <2>1. PICK n \in Nat : n = txn.plan.tasks[t].rev + 1
    BY <1>1 DEF TaskType
  <2> QED
    BY <1>1, <2>1 DEF HeldTask, TaskType
<1>3. TasksAfter(txn) \in [TaskIds -> TaskType]
  BY <1>1, <1>2 DEF TasksAfter
<1>4. ManifestAfter(txn) \in Manifest /\ ManifestAfter(txn).epoch = txn.id
  BY <1>1 DEF ManifestAfter, Manifest
<1>5. ASSUME NEW t \in TaskIds
      PROVE  HeldEvent(txn, t) \in Event
  <2>1. TasksAfter(txn)[t].rev \in Nat
    BY <1>3 DEF TaskType
  <2> QED
    BY <2>1 DEF HeldEvent, TaskEvent, Event
<1>6. ASSUME NEW t \in TaskIds
      PROVE  /\ t \in Owned(txn) => /\ TasksAfter(txn)[t].lease = None
                                    /\ TasksAfter(txn)[t].hold = txn.id
             /\ t \notin Owned(txn) => /\ TasksAfter(txn)[t] = txn.plan.tasks[t]
                                       /\ txn.plan.tasks[t].lease = None
  BY DEF TasksAfter, HeldTask, Owned
<1> QED
  BY <1>3, <1>4, <1>5, <1>6

\* What the parts of the invariant about the recovery look at.
Frame == <<tasks, journal, manifest, marker, archive, applying>>

\* Steps that touch no record, journal, manifest, marker or archive leave the order alone.
LEMMA FrameStays ==
    ASSUME IInv, UNCHANGED Frame
    PROVE  Settled' /\ Fenced' /\ Placed'
BY DEF IInv, Frame, Settled, Fenced, Placed, InPlace, PlaneOf, Retired

-----------------------------------------------------------------------------
(* Ordinary commands.                                                       *)

\* Without a marker, what the invariant asks of a command's writes.
LEMMA Command ==
    ASSUME IInv, marker = None, UNCHANGED <<marker, archive, applying, boot>>,
           tasks' \in [TaskIds -> TaskType], journal' = None \/ journal' \in Journal,
           IsLog(log'), manifest' \in Manifest, daemon' = None \/ daemon' \in Plane,
           reviewed' \subseteq Operators, budget' \in Budget,
           budget'.stops <= budget.stops, budget'.recoveries = budget.recoveries,
           PlaneOf(manifest') = PlaneOf(manifest),
           \A t \in TaskIds : InPlace(tasks'[t], PlaneOf(manifest)),
           journal' # None => InPlace(journal'.after, PlaneOf(manifest))
    PROVE  IInv'
<1>1. TypeOK'
  BY DEF IInv, TypeOK
<1>2. Numbered'
  <2>1. /\ budget.stops \in Nat /\ budget'.stops \in Nat /\ budget.recoveries \in Nat
        /\ budget.stops <= MaxStops /\ MaxStops \in Nat
        /\ manifest.epoch + budget.recoveries <= MaxRecoveries
    BY RecoveryAssumption DEF IInv, TypeOK, Budget, Numbered
  <2>2. manifest'.epoch = manifest.epoch
    BY DEF PlaneOf
  <2>3. budget'.stops <= MaxStops
    BY <2>1
  <2> QED
    BY <2>1, <2>2, <2>3 DEF Numbered
<1>3. Settled' /\ Fenced' /\ Placed'
  BY DEF IInv, Settled, Fenced, Placed, InPlace
<1> QED
  BY <1>1, <1>2, <1>3 DEF IInv

\* Installing what a journal holds keeps every task in place.
LEMMA InstalledInPlace ==
    ASSUME NEW j, NEW p, tasks \in [TaskIds -> TaskType], j.of \in TaskIds, j.after \in TaskType,
           \A t \in TaskIds : InPlace(tasks[t], p), InPlace(j.after, p)
    PROVE  /\ Installed(j) \in [TaskIds -> TaskType]
           /\ \A t \in TaskIds : InPlace(Installed(j)[t], p)
BY DEF Installed

\* A task is written with a record that is in place.
LEMMA CommitStep ==
    ASSUME IInv, NEW h, NEW dispatch \in BOOLEAN, MayWrite(h, dispatch),
           NEW t \in TaskIds, NEW new \in TaskType, InPlace(new, PlaneOf(manifest)), Commit(t, new)
    PROVE  IInv'
<1>0. TypeOK /\ marker = None /\ budget \in Budget /\ IsLog(log) /\ tasks \in [TaskIds -> TaskType]
      /\ \A u \in TaskIds : InPlace(tasks[u], PlaneOf(manifest))
  BY DEF IInv, TypeOK, MayWrite, Settled
<1>1. PICK after \in TaskType : after = [new EXCEPT !.rev = tasks[t].rev + 1]
                                /\ InPlace(after, PlaneOf(manifest))
  <2>1. PICK n \in Nat : n = tasks[t].rev + 1
    BY <1>0 DEF TaskType
  <2>2. PICK after : after = [new EXCEPT !.rev = n]
    OBVIOUS
  <2>3. after \in TaskType /\ after.lease = new.lease /\ after.hold = new.hold
    BY <2>2 DEF TaskType
  <2> QED
    BY <2>1, <2>2, <2>3 DEF InPlace
<1>2. PICK e \in Event : e = TaskEvent("TASK", t, after.rev)
  BY DEF TaskEvent, Event, TaskType
<1>3. PICK j \in Journal : /\ j = [of |-> t, before |-> tasks[t], after |-> after, event |-> e]
                           /\ j.of = t /\ j.after = after /\ j.event = e
  <2>1. PICK j : j = [of |-> t, before |-> tasks[t], after |-> after, event |-> e]
    OBVIOUS
  <2>2. j \in Journal /\ j.of = t /\ j.after = after /\ j.event = e
    BY <1>0, <2>1 DEF Journal
  <2> QED
    BY <2>1, <2>2
<1>4. /\ tasks' \in {tasks, Installed(j)} /\ log' \in {log, Logged(e)} \cup HalfLogged(e)
      /\ journal' \in {None, j}
      /\ \/ budget' = [budget EXCEPT !.writes = @ - 1]
         \/ budget.crashes > 0 /\ budget' = [budget EXCEPT !.writes = @ - 1, !.crashes = @ - 1]
      /\ budget.writes > 0
      /\ reviewed' = {} /\ UNCHANGED <<manifest, marker, archive, applying, boot, daemon>>
  BY <1>1, <1>2, <1>3 DEF Commit, Changed, Offline
<1>5. budget' \in Budget /\ budget'.stops <= budget.stops /\ budget'.recoveries = budget.recoveries
  BY <1>0, <1>4, SpendTypes
<1>6. tasks' \in [TaskIds -> TaskType] /\ \A u \in TaskIds : InPlace(tasks'[u], PlaneOf(manifest))
  BY <1>0, <1>1, <1>3, <1>4, InstalledInPlace
<1>7. IsLog(log')
  BY <1>0, <1>4, HalfLoggedTypes
<1>8. /\ journal' = None \/ journal' \in Journal
      /\ journal' # None => InPlace(journal'.after, PlaneOf(manifest))
  BY <1>1, <1>3, <1>4
<1>9. /\ manifest' \in Manifest /\ PlaneOf(manifest') = PlaneOf(manifest)
      /\ daemon' = None \/ daemon' \in Plane
      /\ reviewed' \subseteq Operators
  BY <1>0, <1>4, <1>5 DEF TypeOK, Budget
<1> QED
  BY <1>0, <1>4, <1>5, <1>6, <1>7, <1>8, <1>9, Command

\* A journal that is found is finished.
LEMMA RedoStep ==
    ASSUME IInv, NEW h \in Hosts, RedoJournal(h)
    PROVE  IInv'
<1>0. TypeOK /\ marker = None /\ budget \in Budget /\ IsLog(log) /\ tasks \in [TaskIds -> TaskType]
      /\ \A u \in TaskIds : InPlace(tasks[u], PlaneOf(manifest))
  BY DEF IInv, TypeOK, MayWrite, Settled, RedoJournal
<1>1. /\ journal # None /\ journal \in Journal /\ InPlace(journal.after, PlaneOf(manifest))
      /\ journal.of \in TaskIds /\ journal.after \in TaskType /\ journal.event \in Event
  BY <1>0 DEF IInv, TypeOK, Settled, RedoJournal, Journal
<1>2. /\ tasks' \in {tasks, Installed(journal)}
      /\ log' \in {log, Logged(journal.event)} \cup HalfLogged(journal.event)
      /\ journal' \in {None, journal}
      /\ budget' = budget \/ Spend("crashes")
      /\ reviewed' = {} /\ UNCHANGED <<manifest, marker, archive, applying, boot, daemon>>
  BY DEF RedoJournal, Redo, Changed, Offline
<1>3. budget' \in Budget /\ budget'.stops <= budget.stops /\ budget'.recoveries = budget.recoveries
  BY <1>0, <1>2, SpendTypes
<1>4. tasks' \in [TaskIds -> TaskType] /\ \A u \in TaskIds : InPlace(tasks'[u], PlaneOf(manifest))
  BY <1>0, <1>1, <1>2, InstalledInPlace
<1>5. IsLog(log')
  BY <1>0, <1>1, <1>2, HalfLoggedTypes
<1>6. /\ journal' = None \/ journal' \in Journal
      /\ journal' # None => InPlace(journal'.after, PlaneOf(manifest))
  BY <1>1, <1>2
<1>7. /\ manifest' \in Manifest /\ PlaneOf(manifest') = PlaneOf(manifest)
      /\ daemon' = None \/ daemon' \in Plane
      /\ reviewed' \subseteq Operators
  BY <1>0, <1>2, <1>3 DEF TypeOK, Budget
<1> QED
  BY <1>0, <1>2, <1>3, <1>4, <1>5, <1>6, <1>7, Command

\* The daemon and the Masters: an owner is of the plane of the manifest.
LEMMA TaskStep ==
    ASSUME IInv, NEW t \in TaskIds, Dispatch(t) \/ Report(t) \/ \E h \in Hosts : Decide(h, t)
    PROVE  IInv'
<1> DEFINE r == tasks[t]
<1>0. r \in TaskType /\ (daemon = None \/ daemon \in Plane)
  BY DEF IInv, TypeOK
<1>1. ASSUME NEW h, NEW dispatch, MayWrite(h, dispatch)
      PROVE  InPlace(r, PlaneOf(manifest))
  BY <1>1 DEF IInv, Settled, MayWrite
<1>2. CASE Dispatch(t)
  <2>1. daemon \in Plane /\ daemon = PlaneOf(manifest) /\ MayWrite(daemon.host, TRUE)
    BY <1>0, <1>2 DEF Dispatch, MayWrite, PlaneOf, Plane
  <2>2. PICK new : new = [r EXCEPT !.state = "RUNNING", !.lease = daemon] /\ Commit(t, new)
    BY <1>2 DEF Dispatch
  <2>3. new \in TaskType /\ new.lease = daemon /\ new.hold = r.hold
    BY <1>0, <2>1, <2>2 DEF TaskType
  <2>4. InPlace(new, PlaneOf(manifest))
    BY <1>1, <2>1, <2>3 DEF InPlace
  <2> QED
    BY <2>1, <2>2, <2>3, <2>4, CommitStep
<1>3. CASE Report(t)
  <2>1. MayWrite(daemon.host, FALSE)
    BY <1>3 DEF Report
  <2>2. PICK new \in {[r EXCEPT !.state = "WAITING"], [r EXCEPT !.state = "SUBMITTED", !.lease = None],
                      [r EXCEPT !.lease = None]} : Commit(t, new)
    BY <1>3 DEF Report
  <2>3. new \in TaskType /\ new.lease \in {None, r.lease} /\ new.hold = r.hold
    BY <1>0, <2>2 DEF TaskType
  <2>4. InPlace(new, PlaneOf(manifest))
    BY <1>1, <2>1, <2>3 DEF InPlace
  <2> QED
    BY <2>1, <2>2, <2>3, <2>4, CommitStep
<1>4. ASSUME NEW h \in Hosts, Decide(h, t)
      PROVE  IInv'
  <2>1. MayWrite(h, FALSE)
    BY <1>4 DEF Decide
  <2>2. PICK new \in {[r EXCEPT !.state = "READY", !.hold = None], r} : Commit(t, new)
    BY <1>4 DEF Decide
  <2>3. new \in TaskType /\ new.lease = r.lease /\ new.hold \in {None, r.hold}
    BY <1>0, <2>2 DEF TaskType
  <2>4. InPlace(new, PlaneOf(manifest))
    BY <1>1, <2>1, <2>3 DEF InPlace
  <2> QED
    BY <2>1, <2>2, <2>3, <2>4, CommitStep
<1> QED
  BY <1>2, <1>3, <1>4

\* stop_drain and the startup of the daemon change neither host nor epoch.
LEMMA ControlStep ==
    ASSUME IInv, NEW h \in Hosts, StopDrain(h) \/ StartDaemon(h)
    PROVE  IInv'
<1>0. /\ TypeOK /\ marker = None /\ budget \in Budget /\ IsLog(log) /\ manifest \in Manifest
      /\ \A u \in TaskIds : InPlace(tasks[u], PlaneOf(manifest))
      /\ journal # None => InPlace(journal.after, PlaneOf(manifest))
  BY DEF IInv, TypeOK, Settled, StopDrain, StartDaemon, MayStart
<1>1. /\ UNCHANGED <<tasks, journal, marker, archive, applying, boot>> /\ reviewed' = {}
  BY DEF StopDrain, StartDaemon, Changed, Offline
<1>2. CASE StopDrain(h)
  <2>1. PICK n \in Nat : n = MaxStops - budget.stops + 1
    <3>1. budget.stops \in Nat /\ MaxStops \in Nat /\ budget.stops <= MaxStops
      BY <1>0, RecoveryAssumption DEF IInv, Numbered, Budget
    <3> QED
      BY <3>1
  <2>2. PICK e \in Event : e = FarmEvent("FARM_STOP_DRAIN", n) /\ e.n = n
    <3>1. PICK e : e = FarmEvent("FARM_STOP_DRAIN", n)
      OBVIOUS
    <3>2. e \in Event /\ e.n = n
      BY <3>1 DEF FarmEvent, Event
    <3> QED
      BY <3>1, <3>2
  <2>3. /\ manifest' \in {[manifest EXCEPT !.stop = n], [[manifest EXCEPT !.stop = n] EXCEPT !.pending = e]}
        /\ log' \in {Logged(e)} \cup HalfLogged(e)
        /\ \/ budget' = [budget EXCEPT !.stops = @ - 1]
           \/ budget.crashes > 0 /\ budget' = [budget EXCEPT !.stops = @ - 1, !.crashes = @ - 1]
        /\ budget.stops > 0 /\ daemon' = daemon
    BY <1>2, <2>1, <2>2 DEF StopDrain
  <2>4. /\ manifest' \in Manifest /\ manifest'.host = manifest.host /\ manifest'.epoch = manifest.epoch
    BY <1>0, <2>3 DEF Manifest
  <2>5. budget' \in Budget /\ budget'.stops <= budget.stops /\ budget'.recoveries = budget.recoveries
    BY <1>0, <2>3, SpendTypes
  <2>6. IsLog(log')
    BY <1>0, <2>3, HalfLoggedTypes
  <2>7. PlaneOf(manifest') = PlaneOf(manifest) /\ tasks' \in [TaskIds -> TaskType]
        /\ (journal' = None \/ journal' \in Journal) /\ (daemon' = None \/ daemon' \in Plane)
        /\ reviewed' \subseteq Operators
    BY <1>0, <1>1, <2>3, <2>4 DEF TypeOK, PlaneOf
  <2> QED
    BY <1>0, <1>1, <2>4, <2>5, <2>6, <2>7, Command
<1>3. CASE StartDaemon(h)
  <2>1. PICK e \in Event : e = FarmEvent("FARM_STOP_CLEARED", manifest.stop)
    BY <1>0 DEF FarmEvent, Event, Manifest
  <2>2. IsLog(FinishedLog) /\ IsLog(With(FinishedLog, e))
    <3>1. IsLog(FinishedLog)
      BY <1>0, HalfLoggedTypes DEF FinishedLog, Manifest
    <3> QED
      BY <3>1, LogTypes
  <2>3. /\ manifest' \in {[[manifest EXCEPT !.pending = None] EXCEPT !.stop = 0], manifest,
                          [manifest EXCEPT !.pending = None]}
        /\ log' \in {FinishedLog, With(FinishedLog, e)}
        /\ daemon' \in {daemon, [host |-> h, epoch |-> manifest.epoch]}
        /\ budget' = budget \/ Spend("crashes")
    BY <1>3, <2>1 DEF StartDaemon, Finished
  <2>4. /\ manifest' \in Manifest /\ manifest'.host = manifest.host /\ manifest'.epoch = manifest.epoch
    <3>1. PICK m : m = [manifest EXCEPT !.pending = None]
      OBVIOUS
    <3>2. m \in Manifest /\ m.host = manifest.host /\ m.epoch = manifest.epoch
      BY <1>0, <3>1 DEF Manifest
    <3>3. PICK m2 : m2 = [m EXCEPT !.stop = 0]
      OBVIOUS
    <3>4. m2 \in Manifest /\ m2.host = manifest.host /\ m2.epoch = manifest.epoch
      BY <3>2, <3>3 DEF Manifest
    <3> QED
      BY <1>0, <2>3, <3>1, <3>2, <3>3, <3>4
  <2>5. budget' \in Budget /\ budget'.stops <= budget.stops /\ budget'.recoveries = budget.recoveries
    BY <1>0, <2>3, SpendTypes
  <2>6. IsLog(log')
    BY <2>2, <2>3
  <2>7. [host |-> h, epoch |-> manifest.epoch] \in Plane
    BY <1>0 DEF Plane, Manifest
  <2>8. PlaneOf(manifest') = PlaneOf(manifest) /\ tasks' \in [TaskIds -> TaskType]
        /\ (journal' = None \/ journal' \in Journal) /\ (daemon' = None \/ daemon' \in Plane)
        /\ reviewed' \subseteq Operators
    BY <1>0, <1>1, <2>3, <2>4, <2>5, <2>7 DEF TypeOK, PlaneOf, Budget
  <2> QED
    BY <1>0, <1>1, <2>4, <2>5, <2>6, <2>8, Command
<1> QED
  BY <1>2, <1>3
\* The daemon ends, a plan is shown, the log is repaired, the operator dies or its host
\* boots: nothing is written but the tail of the log.
LEMMA QuietStep ==
    ASSUME IInv, \/ DaemonEnds \/ ApplyDies \/ RepairLog
                 \/ \E o \in Operators : Preview(o)
                 \/ \E h \in Hosts : Reboot(h)
    PROVE  IInv'
<1>0. TypeOK /\ budget \in Budget /\ IsLog(log) /\ boot \in [Hosts -> Nat]
  BY DEF IInv, TypeOK
<1>1. /\ UNCHANGED <<tasks, journal, manifest, marker, archive>>
      /\ applying' = applying \/ (marker # None /\ applying' = None)
      /\ daemon' \in {daemon, None}
      /\ log' \in {log, Torn, [log EXCEPT !.torn = FALSE]}
  BY DEF DaemonEnds, ApplyDies, RepairLog, Preview, Reboot, Offline, IInv, Settled
<1>2. IsLog(log')
  BY <1>0, <1>1, LogTypes DEF Torn
<1>3. reviewed' \subseteq Operators
  BY <1>0 DEF TypeOK, DaemonEnds, ApplyDies, RepairLog, Preview, Reboot
<1>4. boot' \in [Hosts -> Nat]
  BY <1>0 DEF DaemonEnds, ApplyDies, RepairLog, Preview, Reboot, Offline
<1>5. /\ budget' \in Budget /\ budget'.stops = budget.stops
      /\ budget'.recoveries = budget.recoveries
  <2>1. budget' = budget \/ Spend("crashes") \/ Spend("reboots")
    BY DEF DaemonEnds, ApplyDies, RepairLog, Preview, Reboot
  <2>2. CASE Spend("crashes")
    BY <1>0, <2>2 DEF Spend, Budget
  <2>3. CASE Spend("reboots")
    BY <1>0, <2>3 DEF Spend, Budget
  <2> QED
    BY <1>0, <2>1, <2>2, <2>3
<1>6. TypeOK'
  BY <1>0, <1>1, <1>2, <1>3, <1>4, <1>5 DEF TypeOK
<1>7. Numbered'
  BY <1>1, <1>5 DEF IInv, Numbered
<1>8. Settled' /\ Fenced' /\ Placed'
  BY <1>1 DEF IInv, Settled, Fenced, Placed, InPlace, PlaneOf, Retired
<1> QED
  BY <1>6, <1>7, <1>8 DEF IInv

-----------------------------------------------------------------------------
(* The recovery.                                                            *)

\* The transaction of a new recovery.
LEMMA NewTxn ==
    ASSUME IInv, NEW o \in Operators, Apply(o), marker = None
    PROVE  /\ budget' \in Budget /\ budget'.stops = budget.stops
           /\ marker' \in Txn /\ marker'.id + budget'.recoveries <= MaxRecoveries
           /\ marker'.plan.tasks = tasks /\ marker'.plan.before = manifest
<1>0. /\ TypeOK /\ budget \in Budget /\ manifest \in Manifest
  BY DEF IInv, TypeOK
<1>1. /\ marker' = [id |-> manifest.epoch + 1, by |-> o, plan |-> PlanOf(o)]
      /\ journal = None /\ Spend("recoveries")
  BY DEF Apply
<1>2. /\ budget' \in Budget /\ budget'.stops = budget.stops
      /\ budget.recoveries > 0 /\ budget'.recoveries = budget.recoveries - 1
  BY <1>0, <1>1 DEF Spend, Budget
<1>3. PICK id \in Epochs : id = manifest.epoch + 1 /\ id + budget'.recoveries <= MaxRecoveries
  <2>1. /\ manifest.epoch \in Nat /\ budget.recoveries \in Nat /\ MaxRecoveries \in Nat
        /\ manifest.epoch + budget.recoveries <= MaxRecoveries
    BY <1>0, RecoveryAssumption DEF IInv, Numbered, Manifest, Epochs, Budget
  <2> QED
    BY <1>2, <2>1 DEF Epochs
<1>4. PICK plan \in Plan : plan = PlanOf(o) /\ plan.tasks = tasks /\ plan.before = manifest
  <2>1. PICK site \in Site : site = SiteOf(o)
    <3>1. HostOf[o] \in Hosts /\ boot[HostOf[o]] \in Nat
      BY <1>0, RecoveryAssumption DEF TypeOK
    <3> QED
      BY <3>1 DEF SiteOf, Site
  <2>2. PICK plan : plan = [tasks |-> tasks, before |-> manifest, target |-> site]
    OBVIOUS
  <2>3. plan \in Plan /\ plan.tasks = tasks /\ plan.before = manifest
    BY <1>0, <2>2 DEF Plan, TypeOK
  <2> QED
    BY <2>1, <2>2, <2>3 DEF PlanOf
<1>5. marker' \in Txn /\ marker'.id = id /\ marker'.plan = plan
  <2>1. PICK txn : txn = [id |-> id, by |-> o, plan |-> plan]
    OBVIOUS
  <2>2. txn \in Txn /\ txn.id = id /\ txn.plan = plan
    BY <2>1 DEF Txn
  <2> QED
    BY <1>1, <1>3, <1>4, <2>1, <2>2
<1> QED
  BY <1>2, <1>3, <1>4, <1>5

\* recover --apply, up to its first write: the plan of a new recovery is what is there.
LEMMA ApplyStep ==
    ASSUME IInv, NEW o \in Operators, Apply(o)
    PROVE  IInv'
<1>0. /\ TypeOK /\ budget \in Budget /\ manifest \in Manifest /\ applying = None /\ daemon = None
      /\ UNCHANGED <<tasks, journal, log, manifest, archive, daemon, boot>>
      /\ reviewed' = {o}
      /\ applying' = None \/ applying' = [by |-> o, at |-> "archive"]
  BY DEF IInv, TypeOK, Apply
<1>1. applying' = None \/ applying' \in [by : Operators, at : Places]
  BY <1>0 DEF Places
<1>2. applying' # None => applying'.at = "archive"
  BY <1>0
<1>3. Placed'
  BY <1>2 DEF Placed
<1>4. CASE marker # None
  <2>1. marker' = marker /\ budget' = budget
    BY <1>4 DEF Apply
  <2>2. TypeOK'
    BY <1>0, <1>1, <2>1 DEF TypeOK
  <2>3. Numbered' /\ Settled' /\ Fenced'
    BY <1>0, <1>4, <2>1 DEF IInv, Numbered, Settled, Fenced, InPlace, PlaneOf, Retired
  <2> QED
    BY <1>3, <2>2, <2>3 DEF IInv
<1>5. CASE marker = None
  <2>1. /\ marker' = [id |-> manifest.epoch + 1, by |-> o, plan |-> PlanOf(o)]
        /\ journal = None /\ Spend("recoveries")
    BY <1>5 DEF Apply
  <2>2. /\ budget' \in Budget /\ budget'.stops = budget.stops
        /\ marker' \in Txn /\ marker'.id + budget'.recoveries <= MaxRecoveries
        /\ marker'.plan.tasks = tasks /\ marker'.plan.before = manifest
    BY <1>5, NewTxn
  <2>3. marker' # None
    BY <2>2, NoneAssumption
  <2>4. TypeOK'
    BY <1>0, <1>1, <2>2 DEF TypeOK
  <2>5. Numbered'
    BY <2>2, <2>3 DEF IInv, Numbered
  <2>6. Settled'
    BY <2>3 DEF Settled
  <2>7. Fenced'
    BY <1>0, <1>5, <2>1, <2>2 DEF IInv, Settled, Fenced, InPlace, PlaneOf
  <2> QED
    BY <1>3, <2>4, <2>5, <2>6, <2>7 DEF IInv
<1> QED
  BY <1>4, <1>5

\* The place of an operator that goes on.
LEMMA GoneTo ==
    ASSUME IInv, NEW from, At(from), NEW to \in Places, GoTo(to)
    PROVE  /\ marker # None /\ marker \in Txn /\ applying' \in [by : Operators, at : Places]
           /\ applying'.at = to
BY NoneAssumption DEF IInv, TypeOK, Settled, At, GoTo, Places

\* What every write of a recovery leaves alone.
LEMMA Going ==
    ASSUME IInv, applying # None, marker \in Txn, marker' = marker, UNCHANGED Elsewhere,
           applying' \in [by : Operators, at : Places],
           tasks' \in [TaskIds -> TaskType], journal' = None \/ journal' \in Journal,
           IsLog(log'), manifest' \in Manifest, archive' \subseteq Epochs,
           Fenced', Placed'
    PROVE  IInv'
<1>1. marker # None
  BY NoneAssumption
<1>2. TypeOK'
  BY DEF IInv, TypeOK, Elsewhere
<1>3. Numbered'
  BY <1>1 DEF IInv, Numbered, Elsewhere
<1>4. Settled'
  BY <1>1 DEF Settled
<1> QED
  BY <1>2, <1>3, <1>4 DEF IInv

\* The writes that no task, journal or manifest is touched by.
LEMMA LogSteps ==
    ASSUME IInv, WriteArchive \/ AppendOldEvent \/ AppendHeld \/ NoJournal \/ AllHeld \/ AppendRecovered
    PROVE  IInv'
<1>0. /\ TypeOK /\ applying # None /\ UNCHANGED <<tasks, journal, manifest, marker>> /\ UNCHANGED Elsewhere
      /\ IsLog(log) /\ (journal = None \/ journal \in Journal) /\ manifest \in Manifest
  BY DEF IInv, TypeOK, WriteArchive, AppendOldEvent, AppendHeld, NoJournal, AllHeld, AppendRecovered, At
<1>1. PICK from \in Places, to \in Places :
        /\ At(from) /\ GoTo(to)
        /\ from # "archive" \/ archive' = archive \cup {marker.id}
        /\ from = "archive" \/ archive' = archive
        /\ to \notin {"archive", "redoLog"}
        /\ to = "manifest" => \A t \in TaskIds : Retired(t)
        /\ to \in {"event", "clear"} => from = "event"
  <2>1. CASE WriteArchive
    BY <2>1 DEF WriteArchive, Places
  <2>2. CASE AppendOldEvent
    BY <2>2 DEF AppendOldEvent, Places
  <2>3. CASE AppendHeld
    BY <2>3 DEF AppendHeld, Places
  <2>4. CASE NoJournal
    BY <2>4 DEF NoJournal, Places
  <2>5. CASE AllHeld
    BY <2>5 DEF AllHeld, Places
  <2>6. CASE AppendRecovered
    BY <2>6 DEF AppendRecovered, Places
  <2> QED
    BY <2>1, <2>2, <2>3, <2>4, <2>5, <2>6
<1>2. /\ marker # None /\ marker \in Txn /\ applying' \in [by : Operators, at : Places]
      /\ applying'.at = to
  BY <1>1, GoneTo
<1>3. archive' \subseteq Epochs /\ archive \subseteq archive' /\ marker.id \in archive'
  BY <1>0, <1>1, <1>2 DEF IInv, Placed, TypeOK, Txn, At
<1>4. IsLog(log')
  <2>1. CASE UNCHANGED log
    BY <1>0, <2>1
  <2>2. CASE AppendOldEvent
    BY <1>0, <1>2, <2>2, HalfLoggedTypes DEF AppendOldEvent, Txn, Plan, Manifest
  <2>3. CASE AppendHeld
    <3>1. journal \in Journal
      BY <1>0, <2>3 DEF IInv, Placed, AppendHeld, At
    <3> QED
      BY <1>0, <2>3, <3>1, HalfLoggedTypes DEF AppendHeld, Journal
  <2>4. CASE AppendRecovered
    <3>1. FarmEvent("FARM_RECOVERED", marker.id) \in Event
      BY <1>2 DEF FarmEvent, Event, Txn, Epochs
    <3> QED
      BY <1>0, <2>4, <3>1, HalfLoggedTypes DEF AppendRecovered
  <2> QED
    BY <2>1, <2>2, <2>3, <2>4 DEF WriteArchive, NoJournal, AllHeld
<1>5. Fenced'
  BY <1>0, <1>2, <1>3 DEF IInv, Fenced, InPlace, PlaneOf, Retired
<1>6. Placed'
  BY <1>0, <1>1, <1>2, <1>3 DEF IInv, Placed, Retired, At
<1>7. tasks' \in [TaskIds -> TaskType]
  BY <1>0 DEF TypeOK
<1> QED
  BY <1>0, <1>2, <1>3, <1>4, <1>5, <1>6, <1>7, Going

\* A journal is written, installed and unlinked: only for an owner that is retired, with
\* its evidence archived.
LEMMA HoldSteps ==
    ASSUME IInv, HoldNext \/ InstallTask \/ UnlinkJournal
    PROVE  IInv'
<1>0. /\ TypeOK /\ Fenced /\ Placed /\ applying # None /\ UNCHANGED <<log, manifest, marker, archive>>
      /\ UNCHANGED Elsewhere /\ IsLog(log) /\ manifest \in Manifest /\ tasks \in [TaskIds -> TaskType]
      /\ archive \subseteq Epochs
  BY DEF IInv, TypeOK, HoldNext, InstallTask, UnlinkJournal, At
<1>1. CASE HoldNext
  <2>1. At("hold") /\ GoTo("redo") /\ "redo" \in Places /\ tasks' = tasks
    BY <1>1 DEF HoldNext, Places
  <2>2. /\ marker # None /\ marker \in Txn /\ applying' \in [by : Operators, at : Places]
        /\ applying'.at = "redo"
    BY <2>1, GoneTo
  <2>3. PICK n \in DOMAIN TaskOrder :
          /\ ~Retired(TaskOrder[n])
          /\ journal' = [of |-> TaskOrder[n], before |-> tasks[TaskOrder[n]],
                         after |-> TasksAfter(marker)[TaskOrder[n]],
                         event |-> HeldEvent(marker, TaskOrder[n])]
    BY <1>1 DEF HoldNext
  <2>4. PICK t \in TaskIds : t = TaskOrder[n]
    BY <2>3, RecoveryAssumption DEF TaskIds
  <2>5. t \in Owned(marker) /\ marker.id \in archive
    BY <1>0, <2>1, <2>2, <2>3, <2>4, AfterTypes DEF Fenced, Placed, Retired, At
  <2>6. PICK j \in Journal : /\ j = [of |-> t, before |-> tasks[t], after |-> TasksAfter(marker)[t],
                                     event |-> HeldEvent(marker, t)]
                             /\ j.of = t /\ j.after = TasksAfter(marker)[t]
    <3>1. PICK j : j = [of |-> t, before |-> tasks[t], after |-> TasksAfter(marker)[t],
                        event |-> HeldEvent(marker, t)]
      OBVIOUS
    <3>2. j \in Journal /\ j.of = t /\ j.after = TasksAfter(marker)[t]
      BY <1>0, <2>2, <3>1, AfterTypes DEF Journal
    <3> QED
      BY <3>1, <3>2
  <2>7. journal' = j
    BY <2>3, <2>4, <2>6
  <2>8. Fenced'
    <3>1. \A u \in TaskIds : Retired(u)' = Retired(u)
      BY <1>0, <2>1 DEF Retired
    <3> QED
      BY <1>0, <2>1, <2>2, <2>5, <2>6, <2>7, <3>1 DEF Fenced, InPlace, PlaneOf
  <2>9. Placed'
    BY <1>0, <2>2, <2>5 DEF Placed
  <2> QED
    BY <1>0, <2>1, <2>2, <2>7, <2>8, <2>9, Going
<1>2. CASE InstallTask
  <2>1. At("redo") /\ GoTo("redoLog") /\ "redoLog" \in Places /\ journal' = journal /\ journal # None
        /\ tasks' = Installed(journal)
    BY <1>2 DEF InstallTask, Places
  <2>2. /\ marker # None /\ marker \in Txn /\ applying' \in [by : Operators, at : Places]
        /\ applying'.at = "redoLog"
    BY <2>1, GoneTo
  <2>3. /\ journal \in Journal /\ journal.of \in TaskIds /\ journal.after \in TaskType
        /\ marker.id \in archive /\ journal.after = TasksAfter(marker)[journal.of]
    BY <1>0, <2>1, <2>2 DEF TypeOK, Fenced, Journal
  <2>4. /\ tasks' \in [TaskIds -> TaskType] /\ tasks'[journal.of] = TasksAfter(marker)[journal.of]
        /\ \A t \in TaskIds \ {journal.of} : tasks'[t] = tasks[t]
    BY <1>0, <2>1, <2>3 DEF Installed
  <2>5. \A t \in TaskIds : Retired(t)' \/ (tasks'[t] = tasks[t] /\ Retired(t)' = Retired(t))
    BY <1>0, <2>4 DEF Retired
  <2>6. Fenced'
    BY <1>0, <2>1, <2>2, <2>3, <2>5 DEF Fenced, InPlace, PlaneOf
  <2>7. Placed'
    BY <1>0, <2>1, <2>2, <2>3 DEF Placed
  <2> QED
    BY <1>0, <2>1, <2>2, <2>3, <2>4, <2>6, <2>7, Going
<1>3. CASE UnlinkJournal
  <2>1. At("redoUnlink") /\ GoTo("redo") /\ "redo" \in Places /\ journal' = None /\ tasks' = tasks
    BY <1>3 DEF UnlinkJournal, Places
  <2>2. /\ marker # None /\ marker \in Txn /\ applying' \in [by : Operators, at : Places]
        /\ applying'.at = "redo"
    BY <2>1, GoneTo
  <2>3. Fenced'
    BY <1>0, <2>1 DEF Fenced, InPlace, PlaneOf, Retired
  <2>4. Placed'
    BY <1>0, <2>1, <2>2 DEF Placed, At
  <2> QED
    BY <1>0, <2>1, <2>2, <2>3, <2>4, Going
<1> QED
  BY <1>1, <1>2, <1>3

\* The manifest is written when no owner is left.
LEMMA InstallManifestStep ==
    ASSUME IInv, InstallManifest
    PROVE  IInv'
<1>0. /\ TypeOK /\ Fenced /\ Placed /\ applying # None /\ UNCHANGED <<tasks, journal, log, marker, archive>>
      /\ UNCHANGED Elsewhere /\ IsLog(log) /\ tasks \in [TaskIds -> TaskType]
      /\ (journal = None \/ journal \in Journal) /\ archive \subseteq Epochs
  BY DEF IInv, TypeOK, InstallManifest, At
<1>1. At("manifest") /\ GoTo("event") /\ "event" \in Places /\ manifest' = ManifestAfter(marker)
  BY DEF InstallManifest, Places
<1>2. /\ marker # None /\ marker \in Txn /\ applying' \in [by : Operators, at : Places]
      /\ applying'.at = "event"
  BY <1>1, GoneTo
<1>3. marker.id \in archive /\ \A t \in TaskIds : Retired(t)
  BY <1>0, <1>1 DEF Placed, At
<1>4. Fenced'
  BY <1>0, <1>1, <1>2, <1>3 DEF Fenced, InPlace, PlaneOf, Retired
<1>5. Placed'
  BY <1>0, <1>1, <1>2, <1>3 DEF Placed, Retired
<1>6. manifest' \in Manifest
  BY <1>1, <1>2, AfterTypes
<1> QED
  BY <1>0, <1>2, <1>4, <1>5, <1>6, Going

\* The marker goes when the new plane is settled.
LEMMA ClearMarkerStep ==
    ASSUME IInv, ClearMarker
    PROVE  IInv'
<1>0. /\ TypeOK /\ Fenced /\ At("clear") /\ marker # None /\ marker \in Txn
      /\ UNCHANGED <<tasks, journal, log, manifest, archive, daemon, boot, budget>>
      /\ marker' = None /\ applying' = None /\ reviewed' = {}
  BY DEF IInv, TypeOK, Settled, ClearMarker, At, Changed
<1>1. /\ marker.id \in archive /\ manifest = ManifestAfter(marker) /\ manifest.epoch = marker.id
      /\ \A t \in TaskIds : Retired(t)
  BY <1>0, AfterTypes DEF IInv, Placed, At
<1>2. TypeOK'
  BY <1>0 DEF TypeOK
<1>3. Numbered'
  BY <1>0, <1>1 DEF IInv, Numbered
<1>4. Settled'
  <2>1. ASSUME NEW t \in TaskIds
        PROVE  TasksAfter(marker)[t].lease = None
               /\ (TasksAfter(marker)[t].hold # None => TasksAfter(marker)[t].hold \in archive)
    BY <1>0, <1>1, AfterTypes DEF Fenced, InPlace
  <2>2. ASSUME NEW t \in TaskIds
        PROVE  InPlace(tasks[t], PlaneOf(manifest))
    BY <1>1, <2>1 DEF InPlace, Retired
  <2>3. journal # None => InPlace(journal.after, PlaneOf(manifest))
    <3>1. ASSUME journal # None
          PROVE  journal.of \in TaskIds /\ journal.after = TasksAfter(marker)[journal.of]
      BY <1>0, <3>1 DEF Fenced, TypeOK, Journal
    <3> QED
      BY <2>1, <3>1 DEF InPlace
  <2> QED
    BY <1>0, <2>2, <2>3 DEF Settled, InPlace, PlaneOf
<1>5. Fenced' /\ Placed'
  BY <1>0 DEF Fenced, Placed
<1> QED
  BY <1>2, <1>3, <1>4, <1>5 DEF IInv

-----------------------------------------------------------------------------
(* The theorems.                                                            *)

\* A farm before any recovery.
LEMMA InitIInv == Init => IInv
<1> SUFFICES ASSUME Init PROVE IInv
  OBVIOUS
<1>1. IsLog(log)
  <2>1. EmptyBag = [e \in {} |-> 1]
    BY DEF EmptyBag, SetToBag
  <2>2. IsABag(EmptyBag) /\ BagToSet(EmptyBag) \subseteq Event
    BY <2>1 DEF IsABag, BagToSet
  <2>3. log.recs = EmptyBag /\ log.torn = FALSE /\ log = [recs |-> EmptyBag, torn |-> FALSE]
    BY DEF Init
  <2> QED
    BY <2>2, <2>3 DEF IsLog
<1>2. manifest \in Manifest /\ manifest.epoch = 0
  BY RecoveryAssumption DEF Init, Manifest, Epochs
<1>3. budget \in Budget /\ budget.stops = MaxStops /\ budget.recoveries = MaxRecoveries
  BY RecoveryAssumption DEF Init, Budget
<1>4. NewTask \in TaskType /\ NewTask.lease = None /\ NewTask.hold = None
  BY DEF NewTask, TaskType
<1>5. TypeOK
  BY <1>1, <1>2, <1>3, <1>4 DEF Init, TypeOK
<1>6. Numbered
  BY <1>2, <1>3, RecoveryAssumption DEF Init, Numbered
<1>7. Settled /\ Fenced /\ Placed
  BY <1>4 DEF Init, Settled, Fenced, Placed, InPlace
<1> QED
  BY <1>5, <1>6, <1>7 DEF IInv

\* Every step of the writers and of the recovery preserves the invariant.
LEMMA NextIInv == IInv /\ [Next]_vars => IInv'
<1> SUFFICES ASSUME IInv, [Next]_vars PROVE IInv'
  OBVIOUS
<1>1. CASE UNCHANGED vars
  BY <1>1 DEF vars, IInv, TypeOK, Numbered, Settled, Fenced, Placed, InPlace, PlaneOf, Retired
<1>2. ASSUME NEW h \in Hosts, RedoJournal(h) \/ StopDrain(h) \/ StartDaemon(h) \/ Reboot(h)
      PROVE  IInv'
  BY <1>2, RedoStep, ControlStep, QuietStep
<1>3. ASSUME NEW t \in TaskIds, Dispatch(t) \/ Report(t) \/ \E h \in Hosts : Decide(h, t)
      PROVE  IInv'
  BY <1>3, TaskStep
<1>4. ASSUME NEW o \in Operators, Preview(o) \/ Apply(o)
      PROVE  IInv'
  BY <1>4, QuietStep, ApplyStep
<1>5. CASE FinishStep
  BY <1>5, LogSteps, HoldSteps, InstallManifestStep, ClearMarkerStep DEF FinishStep
<1>6. CASE DaemonEnds \/ ApplyDies \/ RepairLog
  BY <1>6, QuietStep
<1> QED
  BY <1>1, <1>2, <1>3, <1>4, <1>5, <1>6 DEF Next

\* The strengthened invariant holds whatever dies and whatever is repeated.
THEOREM Inductive == Spec => []IInv
BY InitIInv, NextIInv, PTL DEF Spec

\* Every reachable state of the farm and of a recovery has the declared types.
THEOREM TypeCorrect == Spec => []TypeOK
<1>1. IInv => TypeOK
  BY DEF IInv
<1> QED
  BY <1>1, Inductive, PTL

\* No owner outlives its epoch or its host, in the middle of a recovery too, and no owner
\* is retired before its evidence is archived (recovery.py _finish).
THEOREM OwnersOfThisPlane == Spec => []RecoveryInOrder
<1>1. IInv => RecoveryInOrder
  <2> SUFFICES ASSUME IInv, NEW t \in TaskIds
               PROVE  InPlace(tasks[t], PlaneOf(manifest))
    BY DEF RecoveryInOrder, InPlace, PlaneOf
  <2>1. CASE marker = None
    BY <2>1 DEF IInv, Settled
  <2>2. CASE marker # None
    <3>1. marker \in Txn
      BY <2>2 DEF IInv, TypeOK
    <3>2. CASE manifest = marker.plan.before /\ tasks[t] = marker.plan.tasks[t]
      BY <2>2, <3>2 DEF IInv, Fenced
    <3>3. CASE Retired(t)
      <4>1. tasks[t].lease = None
        BY <3>1, <3>3, AfterTypes DEF Retired
      <4>2. tasks[t].hold # None => tasks[t].hold \in archive
        BY <2>2, <3>1, <3>3, AfterTypes DEF IInv, Fenced, Retired, InPlace
      <4> QED
        BY <4>1, <4>2 DEF InPlace
    <3> QED
      BY <2>2, <3>2, <3>3 DEF IInv, Fenced
  <2> QED
    BY <2>1, <2>2
<1> QED
  BY <1>1, Inductive, PTL

-----------------------------------------------------------------------------
(* The refinement of OneStepRecovery: what its mapping needs.               *)

\* The events that count as written, and the log that keeps each record once.
Due ==
    {e \in BagToSet(log.recs) : e.kind # "FARM_STOP_CLEARED"} \cup (Promised \ {None})
Once == \A e \in DOMAIN log.recs : log.recs[e] = 1

\* A promised event is not the one that the audit leaves out.
Carried ==
    /\ manifest.pending # None => manifest.pending.kind = "FARM_STOP_DRAIN"
    /\ marker # None /\ marker.plan.before.pending # None =>
           marker.plan.before.pending.kind = "FARM_STOP_DRAIN"
    /\ journal # None => journal.event.kind \in {"TASK", "RECOVERY_HELD"}

\* No event tells of a revision, an epoch or a control that is still to come.
Fresh ==
    \A e \in Due :
        /\ e.kind \in {"TASK", "RECOVERY_HELD"} => e.n <= TasksNow[e.of].rev
        /\ e.kind = "FARM_RECOVERED" => e.n <= PlaneNow.epoch
        /\ e.kind = "FARM_STOP_DRAIN" => e.n <= MaxStops - budget.stops

\* A held task waits.
HeldWaits ==
    \A t \in TaskIds : TasksNow[t].hold # None => TasksNow[t].state = "BLOCKED" /\ TasksNow[t].lease = None

\* The recovery that pends has written what it promised, up to where it is.
InLog(e) == e \in BagToSet(log.recs)
Written ==
    marker # None =>
        /\ journal # None => journal.event = HeldEvent(marker, journal.of)
        /\ \A t \in Owned(marker) : Retired(t) =>
              InLog(HeldEvent(marker, t)) \/ (journal # None /\ journal.of = t)
        /\ applying # None =>
              /\ applying.at \notin {"archive", "oldEvent"} =>
                    marker.plan.before.pending = None \/ InLog(marker.plan.before.pending)
              /\ applying.at = "redoUnlink" => journal # None /\ InLog(journal.event)
              /\ applying.at \in {"hold", "manifest", "event", "clear"} => journal = None
              /\ applying.at = "clear" => InLog(FarmEvent("FARM_RECOVERED", marker.id))

RInv == Once /\ Carried /\ Fresh /\ HeldWaits /\ Written

\* What a step does to the farm as OneStepRecovery sees it: nothing, ...
Silent ==
    UNCHANGED <<TasksNow, PlaneNow, Due>> /\ budget'.stops = budget.stops
\* ... one revision of one task, ...
MayBecome(old, new) ==
    /\ new.rev = old.rev + 1
    /\ new.lease \in {old.lease, None} \/ (old.lease = None /\ new.lease = PlaneNow)
    /\ \/ new.hold = old.hold /\ (old.hold # None => new.state = "BLOCKED" /\ new.lease = None)
       \/ old.hold # None /\ new.hold = None /\ new.state = "READY" /\ new.lease = None
Wrote(t) ==
    /\ \E new \in TaskType :
          /\ MayBecome(TasksNow[t], new)
          /\ TasksNow' = [TasksNow EXCEPT ![t] = new]
          /\ Due' = Due \cup {TaskEvent("TASK", t, new.rev)}
    /\ PlaneNow' = PlaneNow /\ budget'.stops = budget.stops
\* ... a farm control, ...
NextControl == MaxStops - budget.stops + 1
Announced ==
    /\ UNCHANGED <<TasksNow, PlaneNow>>
    /\ Due' = Due \cup {FarmEvent("FARM_STOP_DRAIN", NextControl)}
    /\ budget.stops > 0 /\ budget'.stops = budget.stops - 1
\* ... or a recovery as a whole.
OwnedNow == {t \in TaskIds : TasksNow[t].lease # None}
Recovered(h) ==
    LET id == PlaneNow.epoch + 1 IN
    /\ TasksNow' = [t \in TaskIds |->
                      IF t \in OwnedNow
                      THEN [state |-> "BLOCKED", rev |-> TasksNow[t].rev + 1, lease |-> None, hold |-> id]
                      ELSE TasksNow[t]]
    /\ PlaneNow' = [host |-> h, epoch |-> id]
    /\ Due' = Due \cup ({TaskEvent("RECOVERY_HELD", t, TasksNow[t].rev + 1) : t \in OwnedNow}
                          \cup {FarmEvent("FARM_RECOVERED", id)})
    /\ budget'.stops = budget.stops
Effect ==
    \/ Silent
    \/ \E t \in TaskIds : Wrote(t)
    \/ Announced
    \/ \E h \in Hosts : Recovered(h)

-----------------------------------------------------------------------------
(* Lemmas about the mapping.                                                *)

\* What an append does to the records, whether it is finished or not.
LEMMA Appends ==
    ASSUME NEW l, IsLog(l), \A x \in DOMAIN l.recs : l.recs[x] = 1, NEW e
    PROVE  /\ BagToSet(With(l, e).recs) = BagToSet(l.recs) \cup {e}
           /\ \A x \in DOMAIN With(l, e).recs : With(l, e).recs[x] = 1
           /\ With(l, e).torn = l.torn
<1>1. PICK recs, tail : l = [recs |-> recs, torn |-> tail] /\ l.recs = recs /\ l.torn = tail
                        /\ \A x \in DOMAIN recs : recs[x] = 1
  BY DEF IsLog
<1>2. CASE BagIn(e, recs)
  BY <1>1, <1>2 DEF With, BagIn, BagToSet
<1>3. CASE ~BagIn(e, recs)
  <2>1. e \notin DOMAIN recs
    BY <1>3 DEF BagIn, BagToSet
  <2>2. PICK b : b = BagAdd(recs, e)
    OBVIOUS
  <2>3. b = [x \in DOMAIN recs \cup {e} |-> IF x = e THEN 1 ELSE recs[x]]
    BY <2>1, <2>2 DEF BagAdd
  <2>4. DOMAIN b = DOMAIN recs \cup {e} /\ \A x \in DOMAIN b : b[x] = 1
    BY <1>1, <2>3
  <2>5. With(l, e) = [recs |-> b, torn |-> tail]
    BY <1>1, <1>3, <2>2 DEF With
  <2> QED
    BY <1>1, <2>4, <2>5 DEF BagToSet
<1> QED
  BY <1>1, <1>2, <1>3

\* The same of the log, and what a repair or a torn tail leaves alone.
LEMMA LogMoves ==
    ASSUME IsLog(log), Once, NEW e
    PROVE  /\ log' = Logged(e) => Once' /\ BagToSet(log.recs)' = BagToSet(log.recs) \cup {e}
           /\ log' \in HalfLogged(e) =>
                 Once' /\ BagToSet(log.recs)' \in {BagToSet(log.recs), BagToSet(log.recs) \cup {e}}
           /\ log' \in {log, Torn, [log EXCEPT !.torn = FALSE]} =>
                 Once' /\ BagToSet(log.recs)' = BagToSet(log.recs)
<1>1. /\ BagToSet(Logged(e).recs) = BagToSet(log.recs) \cup {e}
      /\ \A x \in DOMAIN Logged(e).recs : Logged(e).recs[x] = 1
  BY Appends DEF Logged, Once
<1>2. Torn.recs = log.recs /\ [log EXCEPT !.torn = FALSE].recs = log.recs
  BY DEF IsLog, Torn
<1>3. ASSUME log' = Logged(e)
      PROVE  Once' /\ BagToSet(log.recs)' = BagToSet(log.recs) \cup {e}
  BY <1>1, <1>3 DEF Once, BagToSet
<1>4. ASSUME log' \in {log, Torn, [log EXCEPT !.torn = FALSE]}
      PROVE  Once' /\ BagToSet(log.recs)' = BagToSet(log.recs)
  <2>1. log'.recs = log.recs
    BY <1>2, <1>4
  <2> QED
    BY <2>1 DEF Once, BagToSet
<1>5. ASSUME log' \in HalfLogged(e)
      PROVE  Once' /\ BagToSet(log.recs)' \in {BagToSet(log.recs), BagToSet(log.recs) \cup {e}}
  BY <1>3, <1>4, <1>5 DEF HalfLogged
<1> QED
  BY <1>3, <1>4, <1>5

\* The promised events, now and after a step.
LEMMA PromisedIs ==
    /\ \A e : e \in Promised <=>
          \/ e = manifest.pending
          \/ journal # None /\ e = journal.event
          \/ marker # None /\ \/ e = marker.plan.before.pending
                              \/ e = FarmEvent("FARM_RECOVERED", marker.id)
                              \/ \E t \in Owned(marker) : e = HeldEvent(marker, t)
    /\ \A e : e \in Promised' <=>
          \/ e = manifest'.pending
          \/ journal' # None /\ e = journal'.event
          \/ marker' # None /\ \/ e = marker'.plan.before.pending
                               \/ e = FarmEvent("FARM_RECOVERED", marker'.id)
                               \/ \E t \in Owned(marker') : e = HeldEvent(marker', t)
BY DEF Promised

\* The events that are promised are events, and not the one that the audit leaves out.
LEMMA PromisedTypes ==
    ASSUME IInv, Carried, NEW e \in Promised \ {None}
    PROVE  e \in Event /\ e.kind # "FARM_STOP_CLEARED"
<1>1. TypeOK
  BY DEF IInv
<1>2. CASE e = manifest.pending
  BY <1>1, <1>2 DEF TypeOK, Manifest, Carried
<1>3. CASE journal # None /\ e = journal.event
  BY <1>1, <1>3 DEF TypeOK, Journal, Carried
<1>4. CASE marker # None
  <2>1. marker \in Txn /\ marker.plan.before \in Manifest /\ marker.id \in Nat
    BY <1>1, <1>4 DEF TypeOK, Txn, Plan, Epochs
  <2>2. CASE e = marker.plan.before.pending
    BY <1>4, <2>1, <2>2 DEF Manifest, Carried
  <2>3. CASE e = FarmEvent("FARM_RECOVERED", marker.id)
    BY <2>1, <2>3 DEF FarmEvent, Event
  <2>4. ASSUME NEW t \in Owned(marker), e = HeldEvent(marker, t)
        PROVE  e \in Event /\ e.kind # "FARM_STOP_CLEARED"
    <3>1. t \in TaskIds
      BY DEF Owned
    <3> QED
      BY <2>1, <2>4, <3>1, AfterTypes DEF HeldEvent, TaskEvent
  <2> QED
    BY <1>2, <1>3, <2>2, <2>3, <2>4, PromisedIs
<1> QED
  BY <1>2, <1>3, <1>4, PromisedIs

\* What is due changes by the new events that are written or promised, if nothing that is
\* written or promised is lost.
LEMMA DueBecomes ==
    ASSUME IInv, IInv', Carried, NEW new, None \notin new,
           \A e \in new : e.kind # "FARM_STOP_CLEARED",
           BagToSet(log.recs) \subseteq BagToSet(log.recs)',
           \A e \in BagToSet(log.recs)' :
              \/ e \in BagToSet(log.recs) \cup Promised \cup new
              \/ e.kind = "FARM_STOP_CLEARED",
           new \subseteq BagToSet(log.recs)' \cup Promised',
           Promised' \subseteq Promised \cup new \cup {None},
           Promised \subseteq Promised' \cup BagToSet(log.recs)' \cup {None}
    PROVE  Due' = Due \cup new
<1>1. BagToSet(log.recs) \subseteq Event /\ BagToSet(log.recs)' \subseteq Event /\ None \notin Event
  BY NoneAssumption DEF IInv, TypeOK, IsLog
<1>2. \A e \in Promised \ {None} : e.kind # "FARM_STOP_CLEARED"
  BY PromisedTypes
<1>3. PICK R, S, P, Q : R = BagToSet(log.recs) /\ S = BagToSet(log.recs)' /\ P = Promised /\ Q = Promised'
  OBVIOUS
<1>4. /\ Due = {e \in R : e.kind # "FARM_STOP_CLEARED"} \cup (P \ {None})
      /\ Due' = {e \in S : e.kind # "FARM_STOP_CLEARED"} \cup (Q \ {None})
  BY <1>3 DEF Due
<1>5. ASSUME NEW e PROVE e \in Due' <=> e \in Due \cup new
  BY <1>1, <1>2, <1>3, <1>4
<1> QED
  BY <1>5

\* The audit is the events that are due, each once.
LEMMA AuditIsDue ==
    ASSUME IInv, Once, Carried
    PROVE  AuditNow = SetToBag(Due)
<1>1. BagToSet(log.recs) \subseteq Event /\ BagToSet(log.recs) = DOMAIN log.recs /\ None \notin Event
  BY NoneAssumption DEF IInv, TypeOK, IsLog, BagToSet
<1>2. \A e \in Promised \ {None} : e.kind # "FARM_STOP_CLEARED"
  BY PromisedTypes
<1>3. PICK told, due : /\ told = {e \in BagToSet(log.recs) : e.kind # "FARM_STOP_CLEARED"}
                       /\ due = Promised \ (BagToSet(log.recs) \cup {None})
  OBVIOUS
<1>4. [e \in told |-> log.recs[e]] = SetToBag(told)
  BY <1>1, <1>3 DEF Once, SetToBag
<1>5. AuditNow = SetToBag(told) (+) SetToBag(due)
  BY <1>3, <1>4 DEF AuditNow
<1>6. told \cap due = {} /\ told \cup due = Due
  BY <1>1, <1>2, <1>3 DEF Due
<1>7. SetToBag(told) (+) SetToBag(due) = SetToBag(told \cup due)
  BY <1>6 DEF SetToBag, (+)
<1> QED
  BY <1>5, <1>6, <1>7

\* The farm as the mapping shows it.
LEMMA NowTypes ==
    ASSUME IInv, Carried
    PROVE  /\ TasksNow \in [TaskIds -> TaskType] /\ PlaneNow \in Plane
           /\ PlaneNow.epoch \in Nat /\ \A t \in TaskIds : TasksNow[t].rev \in Nat
           /\ Due \subseteq Event
           /\ budget.stops \in 0 .. MaxStops /\ MaxStops \in Nat
<1>1. TypeOK
  BY DEF IInv
<1>2. TasksNow \in [TaskIds -> TaskType]
  BY <1>1, AfterTypes DEF TypeOK, TasksNow, Installed, Journal
<1>3. PlaneNow \in Plane /\ PlaneNow.epoch \in Nat
  BY <1>1, AfterTypes DEF TypeOK, PlaneNow, Plane, Manifest, Epochs
<1>4. \A t \in TaskIds : TasksNow[t].rev \in Nat
  BY <1>2 DEF TaskType
<1>5. Due \subseteq Event
  BY <1>1, PromisedTypes DEF Due, TypeOK, IsLog
<1>6. budget.stops \in 0 .. MaxStops /\ MaxStops \in Nat
  BY <1>1, RecoveryAssumption DEF IInv, Numbered, TypeOK, Budget
<1> QED
  BY <1>2, <1>3, <1>4, <1>5, <1>6

\* What an event that is due may tell of.
Tells(e, T, p, stops) ==
    /\ e.kind \in {"TASK", "RECOVERY_HELD"} => e.n <= T[e.of].rev
    /\ e.kind = "FARM_RECOVERED" => e.n <= p.epoch
    /\ e.kind = "FARM_STOP_DRAIN" => e.n <= MaxStops - stops
Waits(r) == r.hold # None => r.state = "BLOCKED" /\ r.lease = None

\* No step lets an event tell of what is to come, or a held task go on.
LEMMA EffectKeeps ==
    ASSUME IInv, Carried, Fresh, HeldWaits, Effect
    PROVE  Fresh' /\ HeldWaits'
<1>1. PICK T, p, D, stops : T = TasksNow /\ p = PlaneNow /\ D = Due /\ stops = budget.stops
  OBVIOUS
<1>2. /\ T \in [TaskIds -> TaskType] /\ p.epoch \in Nat /\ \A t \in TaskIds : T[t].rev \in Nat
      /\ D \subseteq Event /\ stops \in 0 .. MaxStops /\ MaxStops \in Nat
      /\ \A e \in D : Tells(e, T, p, stops)
      /\ \A t \in TaskIds : Waits(T[t])
  BY <1>1, NowTypes DEF Fresh, HeldWaits, Tells, Waits
<1>3. SUFFICES /\ \A e \in Due' : Tells(e, TasksNow', PlaneNow', budget'.stops)
               /\ \A t \in TaskIds : Waits(TasksNow'[t])
  BY DEF Fresh, HeldWaits, Tells, Waits
<1>4. \A e \in Event : e.n \in Nat /\ (e.kind \in {"TASK", "RECOVERY_HELD"} => e.of \in TaskIds)
  BY DEF Event
<1>5. CASE Silent
  BY <1>1, <1>2, <1>5 DEF Silent
<1>6. ASSUME NEW t \in TaskIds, Wrote(t)
      PROVE  /\ \A e \in Due' : Tells(e, TasksNow', PlaneNow', budget'.stops)
             /\ \A u \in TaskIds : Waits(TasksNow'[u])
  <2>1. PICK new \in TaskType :
          /\ new.rev = T[t].rev + 1
          /\ \/ new.hold = T[t].hold /\ (T[t].hold # None => new.state = "BLOCKED" /\ new.lease = None)
             \/ new.hold = None
          /\ TasksNow' = [T EXCEPT ![t] = new]
          /\ Due' = D \cup {TaskEvent("TASK", t, new.rev)}
          /\ PlaneNow' = p /\ budget'.stops = stops
    BY <1>1, <1>6 DEF Wrote, MayBecome
  <2>2. TasksNow'[t] = new /\ \A u \in TaskIds \ {t} : TasksNow'[u] = T[u]
    BY <1>2, <2>1
  <2>3. \A u \in TaskIds : T[u].rev <= TasksNow'[u].rev
    BY <1>2, <2>1, <2>2
  <2>4. ASSUME NEW e \in D
        PROVE  Tells(e, TasksNow', PlaneNow', budget'.stops)
    <3>1. e.kind \in {"TASK", "RECOVERY_HELD"} =>
            e.of \in TaskIds /\ e.n \in Nat /\ e.n <= T[e.of].rev /\ TasksNow'[e.of].rev \in Nat
            /\ T[e.of].rev <= TasksNow'[e.of].rev
      BY <1>2, <1>4, <2>1, <2>2, <2>3 DEF Tells, TaskType
    <3>2. e.kind \in {"TASK", "RECOVERY_HELD"} => e.n <= TasksNow'[e.of].rev
      BY <1>2, <3>1
    <3> QED
      BY <1>2, <2>1, <3>2 DEF Tells
  <2>5. Tells(TaskEvent("TASK", t, new.rev), TasksNow', PlaneNow', budget'.stops)
    BY <1>2, <2>1, <2>2 DEF Tells, TaskEvent
  <2>6. Waits(new)
    BY <1>2, <2>1 DEF Waits
  <2> QED
    BY <1>2, <2>1, <2>2, <2>4, <2>5, <2>6
<1>7. CASE Announced
  <2>1. PICK e : e = FarmEvent("FARM_STOP_DRAIN", NextControl)
    OBVIOUS
  <2>2. /\ Due' = D \cup {e} /\ TasksNow' = T /\ PlaneNow' = p /\ budget'.stops = stops - 1
        /\ e.kind = "FARM_STOP_DRAIN" /\ e.n = MaxStops - stops + 1 /\ stops - 1 \in Int
    BY <1>1, <1>2, <1>7, <2>1 DEF Announced, FarmEvent, NextControl
  <2>3. Tells(e, T, p, budget'.stops)
    BY <1>2, <2>2 DEF Tells
  <2>4. ASSUME NEW x \in D
        PROVE  Tells(x, T, p, budget'.stops)
    BY <1>2, <1>4, <2>2 DEF Tells
  <2> QED
    BY <1>2, <2>2, <2>3, <2>4
<1>8. ASSUME NEW h \in Hosts, Recovered(h)
      PROVE  /\ \A e \in Due' : Tells(e, TasksNow', PlaneNow', budget'.stops)
             /\ \A u \in TaskIds : Waits(TasksNow'[u])
  <2>1. PICK id \in Nat : id = p.epoch + 1
    BY <1>2
  <2>2. /\ PlaneNow'.epoch = id /\ budget'.stops = stops
        /\ \A t \in TaskIds : TasksNow'[t] =
             IF T[t].lease # None
             THEN [state |-> "BLOCKED", rev |-> T[t].rev + 1, lease |-> None, hold |-> id]
             ELSE T[t]
        /\ Due' = D \cup ({TaskEvent("RECOVERY_HELD", t, T[t].rev + 1) : t \in {u \in TaskIds : T[u].lease # None}}
                            \cup {FarmEvent("FARM_RECOVERED", id)})
    BY <1>1, <1>8, <2>1 DEF Recovered, OwnedNow
  <2>3. ASSUME NEW u \in TaskIds
        PROVE  /\ T[u].rev \in Nat
               /\ T[u].lease # None => /\ TasksNow'[u].rev = T[u].rev + 1
                                       /\ TasksNow'[u].state = "BLOCKED" /\ TasksNow'[u].lease = None
               /\ T[u].lease = None => TasksNow'[u] = T[u]
    <3>1. CASE T[u].lease = None
      BY <1>2, <2>2, <3>1
    <3>2. CASE T[u].lease # None
      <4>1. TasksNow'[u] = [state |-> "BLOCKED", rev |-> T[u].rev + 1, lease |-> None, hold |-> id]
        BY <2>2, <3>2
      <4> QED
        BY <1>2, <3>2, <4>1
    <3> QED
      BY <3>1, <3>2
  <2>4. \A u \in TaskIds : /\ T[u].rev \in Nat /\ TasksNow'[u].rev \in Nat
                           /\ T[u].rev <= TasksNow'[u].rev
                           /\ T[u].lease # None => TasksNow'[u].rev = T[u].rev + 1
    BY <2>3
  <2>5. ASSUME NEW e \in D
        PROVE  Tells(e, TasksNow', PlaneNow', budget'.stops)
    <3>1. e.kind \in {"TASK", "RECOVERY_HELD"} =>
            e.of \in TaskIds /\ e.n \in Nat /\ e.n <= T[e.of].rev
      BY <1>2, <1>4 DEF Tells
    <3>2. e.kind \in {"TASK", "RECOVERY_HELD"} => e.n <= TasksNow'[e.of].rev
      BY <2>4, <3>1
    <3>3. e.n \in Nat /\ (e.kind = "FARM_RECOVERED" => e.n <= id)
      BY <1>2, <1>4, <2>1 DEF Tells
    <3> QED
      BY <1>2, <2>2, <3>2, <3>3 DEF Tells
  <2>6. ASSUME NEW t \in TaskIds, T[t].lease # None
        PROVE  Tells(TaskEvent("RECOVERY_HELD", t, T[t].rev + 1), TasksNow', PlaneNow', budget'.stops)
    BY <2>4, <2>6 DEF Tells, TaskEvent
  <2>7. Tells(FarmEvent("FARM_RECOVERED", id), TasksNow', PlaneNow', budget'.stops)
    BY <2>2 DEF Tells, FarmEvent
  <2>8. \A u \in TaskIds : Waits(TasksNow'[u])
    BY <1>2, <2>3 DEF Waits
  <2> QED
    BY <2>2, <2>5, <2>6, <2>7, <2>8
<1> QED
  BY <1>5, <1>6, <1>7, <1>8 DEF Effect

\* An event that was not due is added to the bag of the audit.
LEMMA AddsDue ==
    ASSUME NEW new, new \cap Due = {}, Due' = Due \cup new,
           AuditNow = SetToBag(Due), AuditNow' = SetToBag(Due')
    PROVE  Abstract!Adds(new)
<1>1. PICK D, B : D = Due /\ B = AuditNow /\ B = [e \in D |-> 1] /\ DOMAIN B = D
  BY DEF SetToBag
<1>2. AuditNow' = [e \in D \cup new |-> 1]
  BY <1>1 DEF SetToBag
<1>3. \A e : Abstract!Copies(e) = IF e \in D THEN 1 ELSE 0
  BY <1>1 DEF Abstract!Copies, Abstract!BagIn, Abstract!BagToSet
<1>4. \A e \in D \cup new : Abstract!Copies(e) + (IF e \in new THEN 1 ELSE 0) = 1
  BY <1>1, <1>3
<1>5. AuditNow' = [e \in DOMAIN AuditNow \cup new |-> Abstract!Copies(e) + (IF e \in new THEN 1 ELSE 0)]
  BY <1>1, <1>2, <1>4
<1> QED
  BY <1>5 DEF Abstract!Adds

\* What a step does to the mapped farm is a step of OneStepRecovery.
LEMMA EffectRefines ==
    ASSUME IInv, Carried, Fresh, Effect, AuditNow = SetToBag(Due), AuditNow' = SetToBag(Due')
    PROVE  [Abstract!Next]_(Abstract!absVars)
<1>1. /\ TasksNow \in [TaskIds -> TaskType] /\ PlaneNow \in Plane /\ Due \subseteq Event
      /\ PlaneNow.epoch \in Nat /\ \A t \in TaskIds : TasksNow[t].rev \in Nat
      /\ budget.stops \in 0 .. MaxStops /\ MaxStops \in Nat
  BY NowTypes
<1>2. CASE Silent
  BY <1>2 DEF Silent, Abstract!absVars, SetToBag
<1>3. ASSUME NEW t \in TaskIds, Wrote(t)
      PROVE  Abstract!Write(t)
  <2>1. PICK new \in TaskType :
          /\ MayBecome(TasksNow[t], new)
          /\ TasksNow' = [TasksNow EXCEPT ![t] = new]
          /\ Due' = Due \cup {TaskEvent("TASK", t, new.rev)}
    BY <1>3 DEF Wrote
  <2>2. PICK e : e = TaskEvent("TASK", t, new.rev)
    OBVIOUS
  <2>3. e.kind = "TASK" /\ e.of = t /\ e.n = TasksNow[t].rev + 1
    BY <2>1, <2>2 DEF TaskEvent, MayBecome
  <2>4. {e} \cap Due = {}
    BY <1>1, <2>3 DEF Fresh
  <2>5. Abstract!Adds({Abstract!TaskEvent("TASK", t, TasksNow[t].rev + 1)})
    <3>1. Abstract!TaskEvent("TASK", t, TasksNow[t].rev + 1) = e
      BY <2>1, <2>2 DEF Abstract!TaskEvent, TaskEvent, MayBecome
    <3>2. Abstract!Adds({e})
      BY <2>1, <2>2, <2>4, AddsDue
    <3> QED
      BY <3>1, <3>2
  <2>6. PICK s, l, h : s = new.state /\ l = new.lease /\ h = new.hold
    OBVIOUS
  <2>7. /\ new = [state |-> s, rev |-> TasksNow[t].rev + 1, lease |-> l, hold |-> h]
        /\ s \in {"READY", "RUNNING", "WAITING", "SUBMITTED", "BLOCKED"}
    BY <2>1, <2>6 DEF TaskType, MayBecome
  <2>8. /\ l \in {TasksNow[t].lease, PlaneNow, None} /\ h \in {TasksNow[t].hold, None}
        /\ Abstract!OwnerMayBecome(TasksNow[t].lease, l)
        /\ Abstract!HoldMayBecome(TasksNow[t], new)
    BY <2>1, <2>6 DEF MayBecome, Abstract!OwnerMayBecome, Abstract!HoldMayBecome
  <2>9. PlaneNow' = PlaneNow
    BY <1>3 DEF Wrote
  <2> QED
    BY <2>1, <2>5, <2>7, <2>8, <2>9 DEF Abstract!Write
<1>4. CASE Announced
  <2>1. PICK n : n = NextControl
    OBVIOUS
  <2>2. PICK e : e = FarmEvent("FARM_STOP_DRAIN", n)
    OBVIOUS
  <2>3. n \in 1 .. MaxStops /\ n = MaxStops - budget.stops + 1
    BY <1>1, <1>4, <2>1 DEF Announced, NextControl
  <2>4. e.kind = "FARM_STOP_DRAIN" /\ e.n = n
    BY <2>2 DEF FarmEvent
  <2>5. e \notin Due
    BY <1>1, <2>3, <2>4 DEF Fresh
  <2>6. Due' = Due \cup {e} /\ UNCHANGED <<TasksNow, PlaneNow>>
    BY <1>4, <2>1, <2>2 DEF Announced
  <2>7. Abstract!FarmEvent("FARM_STOP_DRAIN", n) = e
    BY <2>2 DEF Abstract!FarmEvent, FarmEvent
  <2>8. ~Abstract!BagIn(e, AuditNow)
    BY <2>5 DEF Abstract!BagIn, Abstract!BagToSet, SetToBag
  <2>9. Abstract!Adds({e})
    BY <2>5, <2>6, AddsDue
  <2> QED
    BY <2>3, <2>6, <2>7, <2>8, <2>9 DEF Abstract!Next, Abstract!Announce
<1>5. ASSUME NEW h \in Hosts, Recovered(h)
      PROVE  Abstract!Recover(h)
  <2>1. PICK id, new :
          /\ id = PlaneNow.epoch + 1
          /\ new = {TaskEvent("RECOVERY_HELD", t, TasksNow[t].rev + 1) : t \in OwnedNow}
                     \cup {FarmEvent("FARM_RECOVERED", id)}
    OBVIOUS
  <2>2. Due' = Due \cup new
    BY <1>5, <2>1 DEF Recovered
  <2>3. new \cap Due = {}
    <3>1. ASSUME NEW t \in OwnedNow
          PROVE  TaskEvent("RECOVERY_HELD", t, TasksNow[t].rev + 1) \notin Due
      <4>1. t \in TaskIds
        BY DEF OwnedNow
      <4>2. PICK e : e = TaskEvent("RECOVERY_HELD", t, TasksNow[t].rev + 1)
        OBVIOUS
      <4>3. e.kind = "RECOVERY_HELD" /\ e.of = t /\ e.n = TasksNow[t].rev + 1
        BY <4>2 DEF TaskEvent
      <4> QED
        BY <1>1, <4>1, <4>2, <4>3 DEF Fresh
    <3>2. FarmEvent("FARM_RECOVERED", id) \notin Due
      <4>1. PICK e : e = FarmEvent("FARM_RECOVERED", id)
        OBVIOUS
      <4>2. e.kind = "FARM_RECOVERED" /\ e.n = PlaneNow.epoch + 1
        BY <2>1, <4>1 DEF FarmEvent
      <4> QED
        BY <1>1, <4>1, <4>2 DEF Fresh
    <3> QED
      BY <2>1, <3>1, <3>2
  <2>4. Abstract!Adds(new)
    BY <2>2, <2>3, AddsDue
  <2>5. Abstract!Owned = OwnedNow
    BY DEF Abstract!Owned, OwnedNow
  <2>6. new = {Abstract!TaskEvent("RECOVERY_HELD", t, TasksNow[t].rev + 1) : t \in Abstract!Owned}
                \cup {Abstract!FarmEvent("FARM_RECOVERED", id)}
    BY <2>1, <2>5 DEF TaskEvent, FarmEvent, Abstract!TaskEvent, Abstract!FarmEvent
  <2> QED
    BY <1>5, <2>1, <2>4, <2>5, <2>6 DEF Recovered, Abstract!Recover
<1> QED
  BY <1>2, <1>3, <1>4, <1>5 DEF Effect, Abstract!Next

-----------------------------------------------------------------------------
(* What every step does to the mapped farm.                                 *)

RStep == Effect /\ Once' /\ Carried' /\ Written'

\* Steps that write no record.
LEMMA QuietEffect ==
    ASSUME IInv, IInv', RInv, \/ DaemonEnds \/ ApplyDies \/ RepairLog \/ UNCHANGED vars
                              \/ \E o \in Operators : Preview(o)
                              \/ \E h \in Hosts : Reboot(h)
    PROVE  RStep
<1>0. Once /\ Carried /\ Written /\ IsLog(log) /\ budget \in Budget
  BY DEF RInv, IInv, TypeOK
<1>1. /\ UNCHANGED <<tasks, journal, manifest, marker>>
      /\ applying' = applying \/ applying' = None
      /\ log' \in {log, Torn, [log EXCEPT !.torn = FALSE]}
  BY DEF DaemonEnds, ApplyDies, RepairLog, Preview, Reboot, Offline, vars
<1>2. Once' /\ BagToSet(log.recs)' = BagToSet(log.recs)
  BY <1>0, <1>1, LogMoves
<1>3. budget'.stops = budget.stops
  <2>1. budget' = budget \/ Spend("crashes") \/ Spend("reboots")
    BY DEF DaemonEnds, ApplyDies, RepairLog, Preview, Reboot, vars
  <2> QED
    BY <1>0, <2>1 DEF Spend, Budget
<1>4. Promised' = Promised
  BY <1>1 DEF Promised
<1>5. TasksNow' = TasksNow /\ PlaneNow' = PlaneNow
  BY <1>1 DEF TasksNow, PlaneNow, Installed
<1>6. Silent
  BY <1>2, <1>3, <1>4, <1>5 DEF Silent, Due
<1>7. Carried'
  BY <1>0, <1>1 DEF Carried
<1>8. Written'
  BY <1>0, <1>1, <1>2 DEF Written, InLog, Retired
<1> QED
  BY <1>2, <1>6, <1>7, <1>8 DEF RStep, Effect

\* A journal that is installed once more changes nothing.
LEMMA InstalledTwice ==
    ASSUME tasks \in [TaskIds -> TaskType], NEW j, tasks' \in {tasks, Installed(j)}
    PROVE  Installed(j)' = Installed(j)
<1>1. PICK T : T = [tasks EXCEPT ![j.of] = j.after]
  OBVIOUS
<1>2. Installed(j) = T
  BY <1>1 DEF Installed
<1>3. [T EXCEPT ![j.of] = j.after] = T
  BY <1>1
<1> QED
  BY <1>1, <1>2, <1>3 DEF Installed

\* A commit is one revision of its task as soon as its journal is written.
LEMMA CommitEffect ==
    ASSUME IInv, IInv', RInv, NEW h, NEW dispatch \in BOOLEAN, MayWrite(h, dispatch),
           NEW t \in TaskIds, NEW new \in TaskType, Commit(t, new),
           MayBecome(tasks[t], [new EXCEPT !.rev = tasks[t].rev + 1])
    PROVE  RStep
<1>0. /\ TypeOK /\ Once /\ Carried /\ marker = None /\ journal = None /\ budget \in Budget /\ IsLog(log)
      /\ tasks \in [TaskIds -> TaskType]
  BY DEF IInv, TypeOK, MayWrite, Commit, RInv
<1>1. PICK after \in TaskType : after = [new EXCEPT !.rev = tasks[t].rev + 1] /\ MayBecome(tasks[t], after)
  <2>1. PICK n \in Nat : n = tasks[t].rev + 1
    BY <1>0 DEF TaskType
  <2>2. PICK after : after = [new EXCEPT !.rev = n]
    OBVIOUS
  <2>3. after \in TaskType
    BY <2>2 DEF TaskType
  <2> QED
    BY <2>1, <2>2, <2>3
<1>2. PICK e \in Event : e = TaskEvent("TASK", t, after.rev)
  BY DEF TaskEvent, Event, TaskType
<1>3. PICK j \in Journal : /\ j = [of |-> t, before |-> tasks[t], after |-> after, event |-> e]
                           /\ j.of = t /\ j.after = after /\ j.event = e
  <2>1. PICK j : j = [of |-> t, before |-> tasks[t], after |-> after, event |-> e]
    OBVIOUS
  <2>2. j \in Journal /\ j.of = t /\ j.after = after /\ j.event = e
    BY <1>0, <2>1 DEF Journal
  <2> QED
    BY <2>1, <2>2
<1>4. /\ tasks' \in {tasks, Installed(j)} /\ log' \in {log, Logged(e)} \cup HalfLogged(e)
      /\ \/ journal' = None /\ tasks' = Installed(j) /\ log' = Logged(e)
         \/ journal' = j
      /\ \/ budget' = [budget EXCEPT !.writes = @ - 1]
         \/ budget' = [budget EXCEPT !.writes = @ - 1, !.crashes = @ - 1]
      /\ UNCHANGED <<manifest, marker>>
  BY <1>1, <1>2, <1>3 DEF Commit, Offline
<1>5. e.kind = "TASK" /\ None # e /\ j # None
  BY <1>2, NoneAssumption DEF TaskEvent
<1>6. /\ Once'
      /\ BagToSet(log.recs)' \in {BagToSet(log.recs), BagToSet(log.recs) \cup {e}}
      /\ journal' = None => BagToSet(log.recs)' = BagToSet(log.recs) \cup {e}
  BY <1>0, <1>4, <1>5, LogMoves
<1>7. Due' = Due \cup {e}
  <2>1. \A x : x \in Promised <=> x = manifest.pending
    BY <1>0, PromisedIs
  <2>2. \A x : x \in Promised' <=> x = manifest.pending \/ (journal' # None /\ x = e)
    BY <1>0, <1>3, <1>4, <1>5, PromisedIs
  <2> QED
    BY <1>0, <1>4, <1>5, <1>6, <2>1, <2>2, DueBecomes
<1>8. /\ TasksNow = tasks /\ TasksNow' = [tasks EXCEPT ![t] = after]
      /\ PlaneNow' = PlaneNow
  <2>1. Installed(j) = [tasks EXCEPT ![t] = after]
    BY <1>3 DEF Installed
  <2>2. Installed(j)' = Installed(j)
    BY <1>0, <1>4, InstalledTwice
  <2>3. TasksNow = tasks /\ PlaneNow' = PlaneNow
    BY <1>0, <1>4 DEF TasksNow, PlaneNow
  <2>4. TasksNow' = Installed(j)
    <3>1. CASE journal' = None
      BY <1>0, <1>4, <1>5, <3>1 DEF TasksNow
    <3>2. CASE journal' = j
      <4>1. Installed(journal)' = Installed(j)'
        BY <3>2 DEF Installed
      <4> QED
        BY <1>0, <1>4, <1>5, <2>2, <3>2, <4>1 DEF TasksNow
    <3> QED
      BY <1>4, <3>1, <3>2
  <2> QED
    BY <2>1, <2>3, <2>4
<1>9. budget'.stops = budget.stops
  BY <1>0, <1>4 DEF Budget
<1>10. Wrote(t)
  BY <1>1, <1>2, <1>7, <1>8, <1>9 DEF Wrote
<1>11. Carried' /\ Written'
  BY <1>0, <1>3, <1>4, <1>5 DEF Carried, Written
<1> QED
  BY <1>6, <1>10, <1>11 DEF RStep, Effect

\* A journal that is found was counted already.
LEMMA RedoEffect ==
    ASSUME IInv, IInv', RInv, NEW h \in Hosts, RedoJournal(h)
    PROVE  RStep
<1>0. /\ TypeOK /\ Once /\ Carried /\ marker = None /\ journal # None /\ budget \in Budget /\ IsLog(log)
      /\ tasks \in [TaskIds -> TaskType] /\ journal \in Journal
  BY DEF IInv, TypeOK, MayWrite, RInv, RedoJournal
<1>1. PICK j \in Journal, e \in Event : j = journal /\ e = j.event /\ j.of \in TaskIds
  BY <1>0 DEF Journal
<1>2. /\ tasks' \in {tasks, Installed(j)} /\ log' \in {log, Logged(e)} \cup HalfLogged(e)
      /\ \/ journal' = None /\ tasks' = Installed(j) /\ log' = Logged(e)
         \/ journal' = j
      /\ budget' = budget \/ Spend("crashes")
      /\ UNCHANGED <<manifest, marker>>
  BY <1>1 DEF RedoJournal, Redo, Offline
<1>3. /\ Once'
      /\ BagToSet(log.recs)' \in {BagToSet(log.recs), BagToSet(log.recs) \cup {e}}
      /\ journal' = None => BagToSet(log.recs)' = BagToSet(log.recs) \cup {e}
  BY <1>0, <1>1, <1>2, LogMoves
<1>4. Due' = Due
  <2>1. \A x : x \in Promised <=> x = manifest.pending \/ x = e
    BY <1>0, <1>1, PromisedIs
  <2>2. \A x : x \in Promised' <=> x = manifest.pending \/ (journal' # None /\ x = e)
    BY <1>0, <1>1, <1>2, PromisedIs
  <2>3. Due' = Due \cup {}
    BY <1>0, <1>2, <1>3, <2>1, <2>2, DueBecomes
  <2> QED
    BY <2>3
<1>5. TasksNow' = TasksNow /\ PlaneNow' = PlaneNow
  <2>1. TasksNow = Installed(j) /\ PlaneNow' = PlaneNow
    BY <1>0, <1>1, <1>2 DEF TasksNow, PlaneNow
  <2>2. Installed(j)' = Installed(j)
    BY <1>0, <1>2, InstalledTwice
  <2>3. CASE journal' = None
    BY <1>0, <1>1, <1>2, <2>1, <2>3 DEF TasksNow
  <2>4. CASE journal' = j
    <3>1. Installed(journal)' = Installed(j)'
      BY <2>4 DEF Installed
    <3> QED
      BY <1>0, <1>1, <1>2, <2>1, <2>2, <2>4, <3>1 DEF TasksNow
  <2> QED
    BY <1>2, <2>1, <2>3, <2>4
<1>6. budget'.stops = budget.stops
  BY <1>0, <1>2 DEF Budget, Spend
<1>7. Carried' /\ Written'
  BY <1>0, <1>1, <1>2 DEF Carried, Written
<1> QED
  BY <1>3, <1>4, <1>5, <1>6, <1>7 DEF RStep, Effect, Silent

\* Dispatches, reports and rulings: an owner of this plane, and a held task waits.
LEMMA TaskEffect ==
    ASSUME IInv, IInv', RInv, NEW t \in TaskIds, Dispatch(t) \/ Report(t) \/ \E h \in Hosts : Decide(h, t)
    PROVE  RStep
<1>0. TypeOK /\ HeldWaits /\ tasks \in [TaskIds -> TaskType]
  BY DEF IInv, TypeOK, RInv
<1>1. PICK r \in TaskType, n \in Nat : r = tasks[t] /\ n = r.rev + 1
  BY <1>0 DEF TaskType
<1>2. /\ marker = None /\ journal = None
  BY DEF Dispatch, Report, Decide, MayWrite, Commit
<1>3. TasksNow = tasks /\ PlaneNow = [host |-> manifest.host, epoch |-> manifest.epoch]
  BY <1>2 DEF TasksNow, PlaneNow
<1>4. r.hold # None => r.state = "BLOCKED" /\ r.lease = None
  BY <1>0, <1>1, <1>3 DEF HeldWaits
<1>5. CASE Dispatch(t)
  <2>1. /\ MayWrite(daemon.host, TRUE) /\ manifest.epoch = daemon.epoch /\ daemon # None
        /\ r.state = "READY" /\ r.lease = None
        /\ Commit(t, [r EXCEPT !.state = "RUNNING", !.lease = daemon])
    BY <1>1, <1>5 DEF Dispatch
  <2>2. daemon \in Plane /\ daemon = PlaneNow
    BY <1>0, <1>3, <2>1 DEF TypeOK, MayWrite, Plane
  <2>3. PICK new : new = [r EXCEPT !.state = "RUNNING", !.lease = daemon]
    OBVIOUS
  <2>4. new \in TaskType /\ new.lease = daemon /\ new.hold = r.hold
    BY <2>2, <2>3 DEF TaskType
  <2>5. PICK after : after = [new EXCEPT !.rev = n]
    OBVIOUS
  <2>6. after.rev = n /\ after.lease = daemon /\ after.hold = r.hold
    BY <2>4, <2>5 DEF TaskType
  <2>7. MayBecome(r, after)
    BY <1>1, <1>4, <2>1, <2>2, <2>6 DEF MayBecome
  <2> QED
    BY <1>1, <2>1, <2>3, <2>4, <2>5, <2>7, CommitEffect
<1>6. CASE Report(t)
  <2>1. MayWrite(daemon.host, FALSE)
    BY <1>6 DEF Report
  <2>2. PICK new \in {[r EXCEPT !.state = "WAITING"], [r EXCEPT !.state = "SUBMITTED", !.lease = None],
                      [r EXCEPT !.lease = None]} : Commit(t, new) /\ r.state \in {"RUNNING", "WAITING"}
    BY <1>1, <1>6 DEF Report
  <2>3. new \in TaskType /\ new.lease \in {None, r.lease} /\ new.hold = r.hold
    BY <2>2 DEF TaskType
  <2>4. PICK after : after = [new EXCEPT !.rev = n]
    OBVIOUS
  <2>5. after.rev = n /\ after.lease = new.lease /\ after.hold = new.hold
    BY <2>3, <2>4 DEF TaskType
  <2>6. MayBecome(r, after)
    BY <1>1, <1>4, <2>2, <2>3, <2>5 DEF MayBecome
  <2> QED
    BY <1>1, <2>1, <2>2, <2>3, <2>4, <2>6, CommitEffect
<1>7. ASSUME NEW h \in Hosts, Decide(h, t)
      PROVE  RStep
  <2>1. MayWrite(h, FALSE)
    BY <1>7 DEF Decide
  <2>2. CASE r.hold # None /\ r.lease = None /\ Commit(t, [r EXCEPT !.state = "READY", !.hold = None])
    <3>1. PICK new : new = [r EXCEPT !.state = "READY", !.hold = None]
      OBVIOUS
    <3>2. new \in TaskType /\ new.lease = None /\ new.hold = None /\ new.state = "READY"
      BY <2>2, <3>1 DEF TaskType
    <3>3. PICK after : after = [new EXCEPT !.rev = n]
      OBVIOUS
    <3>4. after.rev = n /\ after.lease = None /\ after.hold = None /\ after.state = "READY"
      BY <3>2, <3>3 DEF TaskType
    <3>5. MayBecome(r, after)
      BY <1>1, <2>2, <3>4 DEF MayBecome
    <3> QED
      BY <1>1, <2>1, <2>2, <3>1, <3>2, <3>3, <3>5, CommitEffect
  <2>3. CASE Commit(t, r)
    <3>1. PICK after : after = [r EXCEPT !.rev = n]
      OBVIOUS
    <3>2. after.rev = n /\ after.lease = r.lease /\ after.hold = r.hold /\ after.state = r.state
      BY <3>1 DEF TaskType
    <3>3. MayBecome(r, after)
      BY <1>1, <1>4, <3>2 DEF MayBecome
    <3> QED
      BY <1>1, <2>1, <2>3, <3>1, <3>3, CommitEffect
  <2> QED
    BY <1>1, <1>7, <2>2, <2>3 DEF Decide
<1> QED
  BY <1>5, <1>6, <1>7

\* A control is announced when its manifest is written.
LEMMA DrainEffect ==
    ASSUME IInv, IInv', RInv, NEW h \in Hosts, StopDrain(h)
    PROVE  RStep
<1>0. /\ TypeOK /\ Once /\ Carried /\ IsLog(log) /\ marker = None /\ journal = None
      /\ manifest \in Manifest /\ manifest.pending = None /\ budget \in Budget
      /\ budget.stops \in 0 .. MaxStops /\ MaxStops \in Nat
  <2>1. /\ TypeOK /\ Once /\ Carried /\ IsLog(log) /\ marker = None /\ journal = None
        /\ manifest \in Manifest /\ manifest.pending = None /\ budget \in Budget
    BY DEF IInv, TypeOK, RInv, StopDrain
  <2>2. budget.stops \in 0 .. MaxStops /\ MaxStops \in Nat
    BY <2>1, NowTypes
  <2> QED
    BY <2>1, <2>2
<1>1. PICK n \in Nat : n = NextControl /\ n = MaxStops - budget.stops + 1
  BY <1>0 DEF NextControl
<1>2. PICK e \in Event : e = FarmEvent("FARM_STOP_DRAIN", n) /\ e.kind = "FARM_STOP_DRAIN" /\ e.n = n
  <2>1. PICK e : e = FarmEvent("FARM_STOP_DRAIN", n)
    OBVIOUS
  <2>2. e \in Event /\ e.kind = "FARM_STOP_DRAIN" /\ e.n = n
    BY <2>1 DEF FarmEvent, Event
  <2> QED
    BY <2>1, <2>2
<1>3. /\ \/ manifest' = [manifest EXCEPT !.stop = n] /\ log' = Logged(e)
         \/ manifest' = [[manifest EXCEPT !.stop = n] EXCEPT !.pending = e] /\ log' \in HalfLogged(e)
      /\ budget.stops > 0
      /\ \/ budget' = [budget EXCEPT !.stops = @ - 1]
         \/ budget' = [budget EXCEPT !.stops = @ - 1, !.crashes = @ - 1]
      /\ UNCHANGED <<tasks, journal, marker>>
  BY <1>1, <1>2 DEF StopDrain, Offline
<1>4. /\ manifest'.host = manifest.host /\ manifest'.epoch = manifest.epoch
      /\ (manifest'.pending = None /\ log' = Logged(e)) \/ manifest'.pending = e
  BY <1>0, <1>3 DEF Manifest
<1>5. /\ Once'
      /\ BagToSet(log.recs)' \in {BagToSet(log.recs), BagToSet(log.recs) \cup {e}}
      /\ manifest'.pending = None => BagToSet(log.recs)' = BagToSet(log.recs) \cup {e}
  BY <1>0, <1>2, <1>3, <1>4, LogMoves, NoneAssumption
<1>6. Due' = Due \cup {e}
  <2>1. \A x : x \in Promised <=> x = None
    BY <1>0, PromisedIs
  <2>2. \A x : x \in Promised' <=> x = manifest'.pending
    BY <1>0, <1>3, PromisedIs
  <2> QED
    BY <1>0, <1>2, <1>4, <1>5, <2>1, <2>2, DueBecomes, NoneAssumption
<1>7. TasksNow' = TasksNow /\ PlaneNow' = PlaneNow
  BY <1>0, <1>3, <1>4 DEF TasksNow, PlaneNow, Installed
<1>8. budget'.stops = budget.stops - 1
  BY <1>0, <1>3 DEF Budget
<1>9. Announced
  BY <1>1, <1>2, <1>3, <1>6, <1>7, <1>8 DEF Announced
<1>10. Carried' /\ Written'
  BY <1>0, <1>2, <1>3, <1>4 DEF Carried, Written
<1> QED
  BY <1>5, <1>9, <1>10 DEF RStep, Effect

\* A start publishes what is promised, and says that the stop is cleared.
LEMMA StartEffect ==
    ASSUME IInv, IInv', RInv, NEW h \in Hosts, StartDaemon(h)
    PROVE  RStep
<1>0. /\ TypeOK /\ Once /\ Carried /\ IsLog(log) /\ marker = None
      /\ manifest \in Manifest /\ budget \in Budget /\ (journal = None \/ journal \in Journal)
  BY DEF IInv, TypeOK, RInv, StartDaemon, MayStart
<1>1. PICK e, c : e = manifest.pending /\ c = FarmEvent("FARM_STOP_CLEARED", manifest.stop)
                  /\ c.kind = "FARM_STOP_CLEARED"
  <2>1. FarmEvent("FARM_STOP_CLEARED", manifest.stop).kind = "FARM_STOP_CLEARED"
    BY DEF FarmEvent
  <2> QED
    BY <2>1
<1>2. /\ log' \in {FinishedLog, With(FinishedLog, c)}
      /\ manifest' \in {[[manifest EXCEPT !.pending = None] EXCEPT !.stop = 0], manifest,
                        [manifest EXCEPT !.pending = None]}
      /\ budget' = budget \/ Spend("crashes")
      /\ UNCHANGED <<tasks, journal, marker>>
  BY <1>1 DEF StartDaemon, Finished, Offline
<1>3. /\ manifest'.host = manifest.host /\ manifest'.epoch = manifest.epoch
      /\ manifest'.pending \in {None, e}
  BY <1>0, <1>1, <1>2 DEF Manifest
<1>4. /\ IsLog(FinishedLog) /\ \A x \in DOMAIN FinishedLog.recs : FinishedLog.recs[x] = 1
      /\ BagToSet(FinishedLog.recs) = BagToSet(log.recs) \cup ({e} \ {None})
  <2>1. CASE e = None
    BY <1>0, <1>1, <2>1 DEF FinishedLog, Once
  <2>2. CASE e # None
    <3>1. e \in Event /\ FinishedLog = With(log, e)
      BY <1>0, <1>1, <2>2 DEF Manifest, FinishedLog, Logged
    <3> QED
      BY <1>0, <2>2, <3>1, LogTypes, Appends DEF Once
  <2> QED
    BY <2>1, <2>2
<1>5. /\ BagToSet(With(FinishedLog, c).recs) = BagToSet(FinishedLog.recs) \cup {c}
      /\ \A x \in DOMAIN With(FinishedLog, c).recs : With(FinishedLog, c).recs[x] = 1
  <2>1. PICK l : l = FinishedLog
    OBVIOUS
  <2>2. IsLog(l) /\ \A x \in DOMAIN l.recs : l.recs[x] = 1
    BY <1>4, <2>1
  <2>3. /\ BagToSet(With(l, c).recs) = BagToSet(l.recs) \cup {c}
        /\ \A x \in DOMAIN With(l, c).recs : With(l, c).recs[x] = 1
    BY <2>2, Appends
  <2> QED
    BY <2>1, <2>3
<1>6. /\ Once'
      /\ BagToSet(log.recs)' \in {BagToSet(log.recs) \cup ({e} \ {None}),
                                  BagToSet(log.recs) \cup ({e} \ {None}) \cup {c}}
  <2>1. Once'
    BY <1>2, <1>4, <1>5 DEF Once
  <2>2. BagToSet(log.recs)' = BagToSet(log'.recs)
    BY DEF BagToSet
  <2> QED
    BY <1>2, <1>4, <1>5, <2>1, <2>2
<1>7. Due' = Due
  <2>1. \A x : x \in Promised <=> x = e \/ (journal # None /\ x = journal.event)
    BY <1>0, <1>1, PromisedIs
  <2>2. \A x : x \in Promised' <=> x = manifest'.pending \/ (journal # None /\ x = journal.event)
    BY <1>0, <1>2, PromisedIs
  <2>3. Promised' \subseteq Promised \cup {None} /\ Promised \subseteq Promised' \cup {e}
    BY <1>3, <2>1, <2>2
  <2>4. e \in BagToSet(log.recs)' \cup {None} /\ e \in Promised
    BY <1>6, <2>1
  <2>5. Due' = Due \cup {}
    BY <1>0, <1>1, <1>6, <2>3, <2>4, DueBecomes
  <2> QED
    BY <2>5
<1>8. TasksNow' = TasksNow /\ PlaneNow' = PlaneNow
  BY <1>0, <1>2, <1>3 DEF TasksNow, PlaneNow, Installed
<1>9. budget'.stops = budget.stops
  BY <1>0, <1>2 DEF Budget, Spend
<1>10. Carried' /\ Written'
  BY <1>0, <1>1, <1>2, <1>3 DEF Carried, Written
<1> QED
  BY <1>6, <1>7, <1>8, <1>9, <1>10 DEF RStep, Effect, Silent

\* A recovery happens as a whole when its marker is written; to repeat it is nothing new.
LEMMA ApplyEffect ==
    ASSUME IInv, IInv', RInv, NEW o \in Operators, Apply(o)
    PROVE  RStep
<1>0. /\ TypeOK /\ Once /\ Carried /\ Written /\ IsLog(log) /\ applying = None
      /\ manifest \in Manifest /\ budget \in Budget /\ tasks \in [TaskIds -> TaskType]
      /\ UNCHANGED <<tasks, journal, log, manifest>>
      /\ applying' = None \/ applying' = [by |-> o, at |-> "archive"]
  BY DEF IInv, TypeOK, RInv, Apply
<1>1. Once' /\ BagToSet(log.recs)' = BagToSet(log.recs)
  BY <1>0, LogMoves
<1>2. CASE marker # None
  <2>1. marker' = marker /\ budget' = budget
    BY <1>2 DEF Apply
  <2>2. Silent
    BY <1>0, <1>1, <2>1 DEF Silent, Due, Promised, TasksNow, PlaneNow, Installed
  <2>3. Carried'
    BY <1>0, <2>1 DEF Carried
  <2>4. applying' # None => applying'.at = "archive"
    BY <1>0
  <2>5. Written'
    BY <1>0, <1>1, <1>2, <2>1, <2>4 DEF Written, InLog, Retired
  <2> QED
    BY <1>1, <2>2, <2>3, <2>5 DEF RStep, Effect
<1>3. CASE marker = None
  <2>1. /\ marker' = [id |-> manifest.epoch + 1, by |-> o, plan |-> PlanOf(o)]
        /\ journal = None /\ Spend("recoveries")
    BY <1>3 DEF Apply
  <2>2. PICK txn : txn = marker'
    OBVIOUS
  <2>3. /\ txn.id = manifest.epoch + 1 /\ txn.plan.tasks = tasks /\ txn.plan.before = manifest
        /\ txn.plan.target.host = HostOf[o]
    BY <2>1, <2>2 DEF PlanOf, SiteOf
  <2>4. marker' # None /\ txn \in Txn
    BY <1>3, <2>2, NewTxn, NoneAssumption
  <2>5. /\ TasksNow = tasks /\ PlaneNow = [host |-> manifest.host, epoch |-> manifest.epoch]
        /\ TasksNow' = TasksAfter(txn) /\ PlaneNow' = [host |-> HostOf[o], epoch |-> txn.id]
        /\ OwnedNow = Owned(txn)
    <3>1. TasksNow = tasks /\ PlaneNow = [host |-> manifest.host, epoch |-> manifest.epoch]
      BY <1>3, <2>1 DEF TasksNow, PlaneNow
    <3>2. TasksNow' = TasksAfter(txn)
      <4>1. TasksAfter(marker)' = TasksAfter(txn)
        BY <2>2 DEF TasksAfter, Owned, HeldTask
      <4> QED
        BY <2>4, <4>1 DEF TasksNow
    <3>3. PlaneNow' = [host |-> HostOf[o], epoch |-> txn.id]
      BY <2>2, <2>3, <2>4 DEF PlaneNow, ManifestAfter
    <3>4. OwnedNow = Owned(txn)
      BY <2>3, <3>1 DEF OwnedNow, Owned
    <3> QED
      BY <3>1, <3>2, <3>3, <3>4
  <2>6. PICK held, done :
          /\ held = {TaskEvent("RECOVERY_HELD", t, TasksNow[t].rev + 1) : t \in OwnedNow}
          /\ done = FarmEvent("FARM_RECOVERED", txn.id)
    OBVIOUS
  <2>7. \A t \in Owned(txn) : HeldEvent(txn, t) = TaskEvent("RECOVERY_HELD", t, TasksNow[t].rev + 1)
    <3>1. ASSUME NEW t \in Owned(txn)
          PROVE  TasksAfter(txn)[t].rev = tasks[t].rev + 1
      BY <2>3 DEF TasksAfter, HeldTask, Owned
    <3> QED
      BY <2>5, <3>1 DEF HeldEvent
  <2>8. Due' = Due \cup (held \cup {done})
    <3>1. \A x : x \in Promised <=> x = manifest.pending
      BY <1>3, <2>1, PromisedIs
    <3>2. \A x : x \in Promised' <=> x = manifest.pending \/ x = done \/ x \in held
      <4>1. \A x : x \in Promised' <=> \/ x = manifest.pending
                                       \/ x = FarmEvent("FARM_RECOVERED", txn.id)
                                       \/ \E t \in Owned(txn) : x = HeldEvent(txn, t)
        BY <1>0, <2>1, <2>2, <2>3, <2>4, PromisedIs
      <4> QED
        BY <2>5, <2>6, <2>7, <4>1
    <3>3. \A x \in held \cup {done} : x.kind # "FARM_STOP_CLEARED" /\ x # None
      <4>1. done \in Event /\ done.kind = "FARM_RECOVERED"
        BY <2>4, <2>6 DEF FarmEvent, Event, Txn, Epochs
      <4>2. ASSUME NEW t \in Owned(txn)
            PROVE  HeldEvent(txn, t) \in Event /\ HeldEvent(txn, t).kind = "RECOVERY_HELD"
        <5>1. t \in TaskIds
          BY DEF Owned
        <5>2. HeldEvent(txn, t) \in Event
          BY <2>4, <5>1, AfterTypes
        <5> QED
          BY <5>2 DEF HeldEvent, TaskEvent
      <4>3. \A x \in held : \E t \in Owned(txn) : x = HeldEvent(txn, t)
        BY <2>5, <2>6, <2>7
      <4> QED
        BY <4>1, <4>2, <4>3, NoneAssumption
    <3>4. PICK new : new = held \cup {done}
      OBVIOUS
    <3>5. /\ None \notin new /\ (\A x \in new : x.kind # "FARM_STOP_CLEARED")
          /\ new \subseteq Promised' /\ Promised' \subseteq Promised \cup new /\ Promised \subseteq Promised'
      BY <3>1, <3>2, <3>3, <3>4
    <3>6. Due' = Due \cup new
      BY <1>0, <1>1, <3>5, DueBecomes
    <3> QED
      BY <3>4, <3>6
  <2>9. TasksAfter(txn) = [t \in TaskIds |->
                             IF t \in OwnedNow
                             THEN [state |-> "BLOCKED", rev |-> TasksNow[t].rev + 1, lease |-> None,
                                   hold |-> txn.id]
                             ELSE TasksNow[t]]
    BY <2>3, <2>5 DEF TasksAfter, HeldTask
  <2>10. budget'.stops = budget.stops
    BY <1>0, <2>1 DEF Spend, Budget
  <2>11. txn.id = PlaneNow.epoch + 1
    BY <2>3, <2>5
  <2>12. Recovered(HostOf[o]) /\ HostOf[o] \in Hosts
    BY <2>5, <2>6, <2>8, <2>9, <2>10, <2>11, RecoveryAssumption DEF Recovered
  <2>13. Carried'
    BY <1>0, <2>1, <2>2, <2>3 DEF Carried
  <2>14. Written'
    <3>1. ASSUME NEW t \in Owned(txn)
          PROVE  ~Retired(t)'
      <4>1. TasksAfter(txn)[t].lease = None /\ tasks[t].lease # None
        BY <2>3, <2>4, AfterTypes DEF Owned
      <4>2. tasks'[t] # TasksAfter(txn)[t]
        BY <1>0, <4>1
      <4>3. TasksAfter(marker)' = TasksAfter(txn)
        BY <2>2 DEF TasksAfter, Owned, HeldTask
      <4> QED
        BY <4>2, <4>3 DEF Retired
    <3>2. applying' # None => applying'.at = "archive"
      BY <1>0
    <3>3. journal' = None /\ Owned(marker)' = Owned(txn)
      BY <1>0, <2>1, <2>2 DEF Owned
    <3> QED
      BY <3>1, <3>2, <3>3 DEF Written
  <2> QED
    BY <1>1, <2>12, <2>13, <2>14 DEF RStep, Effect
<1> QED
  BY <1>2, <1>3

\* A write of the pending recovery is silent: what it writes was promised, and what it no
\* longer promises is written.
LEMMA GoingEffect ==
    ASSUME IInv, IInv', RInv, marker # None, marker' = marker, budget' = budget,
           NEW e, log' = log \/ (log' = Logged(e) /\ e \in Promised \ {None}),
           manifest' = manifest \/ manifest' = ManifestAfter(marker),
           journal' # None => journal'.event \in Promised /\ journal'.event.kind \in {"TASK", "RECOVERY_HELD"},
           journal # None => journal' = journal \/ InLog(journal.event)
    PROVE  /\ Silent /\ Once' /\ Carried'
           /\ \A x : InLog(x) => InLog(x)'
           /\ log' = Logged(e) => InLog(e)'
<1>0. TypeOK /\ Fenced /\ Once /\ Carried /\ IsLog(log) /\ marker \in Txn
  BY DEF IInv, TypeOK, RInv
<1>1. /\ Once'
      /\ \/ BagToSet(log.recs)' = BagToSet(log.recs)
         \/ e \in Promised \ {None} /\ BagToSet(log.recs)' = BagToSet(log.recs) \cup {e}
      /\ log' = Logged(e) => BagToSet(log.recs)' = BagToSet(log.recs) \cup {e}
  BY <1>0, LogMoves
<1>2. manifest.pending \in {None, marker.plan.before.pending} /\ manifest'.pending \in {None, manifest.pending}
  BY <1>0 DEF Fenced, ManifestAfter
<1>3. Promised' \subseteq Promised \cup {None}
  <2>1. ASSUME NEW x \in Promised'
        PROVE  x \in Promised \cup {None}
    <3>1. CASE x = manifest'.pending
      BY <1>2, <3>1, PromisedIs
    <3>2. CASE journal' # None /\ x = journal'.event
      BY <3>2
    <3>3. CASE marker' # None /\ \/ x = marker'.plan.before.pending
                                 \/ x = FarmEvent("FARM_RECOVERED", marker'.id)
                                 \/ \E t \in Owned(marker') : x = HeldEvent(marker', t)
      <4>1. \/ x = marker.plan.before.pending
            \/ x = FarmEvent("FARM_RECOVERED", marker.id)
            \/ \E t \in Owned(marker) : x = HeldEvent(marker, t)
        BY <3>3
      <4> QED
        BY <4>1, PromisedIs
    <3> QED
      BY <3>1, <3>2, <3>3, PromisedIs
  <2> QED
    BY <2>1
<1>4. Promised \subseteq Promised' \cup BagToSet(log.recs)' \cup {None}
  <2>1. ASSUME NEW x \in Promised
        PROVE  x \in Promised' \cup BagToSet(log.recs)' \cup {None}
    <3>1. CASE x = manifest.pending
      <4>1. x = None \/ x = marker'.plan.before.pending
        BY <1>2, <3>1
      <4> QED
        BY <4>1, PromisedIs
    <3>2. CASE journal # None /\ x = journal.event
      BY <1>1, <3>2, PromisedIs DEF InLog
    <3>3. CASE \/ x = marker.plan.before.pending
               \/ x = FarmEvent("FARM_RECOVERED", marker.id)
               \/ \E t \in Owned(marker) : x = HeldEvent(marker, t)
      <4>1. \/ x = marker'.plan.before.pending
            \/ x = FarmEvent("FARM_RECOVERED", marker'.id)
            \/ \E t \in Owned(marker') : x = HeldEvent(marker', t)
        BY <3>3
      <4> QED
        BY <4>1, PromisedIs
    <3> QED
      BY <3>1, <3>2, <3>3, PromisedIs
  <2> QED
    BY <2>1
<1>5. Due' = Due
  <2>1. Due' = Due \cup {}
    BY <1>0, <1>1, <1>3, <1>4, DueBecomes
  <2> QED
    BY <2>1
<1>6. TasksNow' = TasksNow /\ PlaneNow' = PlaneNow
  BY DEF TasksNow, PlaneNow
<1>7. Silent
  BY <1>5, <1>6 DEF Silent
<1>8. Carried'
  BY <1>0, <1>2 DEF Carried
<1>9. (\A x : InLog(x) => InLog(x)') /\ (log' = Logged(e) => InLog(e)')
  BY <1>1 DEF InLog
<1> QED
  BY <1>1, <1>7, <1>8, <1>9

\* What is left to show of such a write.
LEMMA GoingWritten ==
    ASSUME RInv, marker # None, marker' = marker, tasks' = tasks, journal' = journal,
           \A x : InLog(x) => InLog(x)',
           NEW to, applying'.at = to,
           to \notin {"archive", "oldEvent"} =>
               marker.plan.before.pending = None \/ InLog(marker.plan.before.pending)',
           to = "redoUnlink" => journal # None /\ InLog(journal.event)',
           to \in {"hold", "manifest", "event", "clear"} => journal = None,
           to = "clear" => InLog(FarmEvent("FARM_RECOVERED", marker.id))'
    PROVE  Written'
<1>1. \A t \in TaskIds : Retired(t)' = Retired(t)
  BY DEF Retired
<1>2. \A t \in Owned(marker) : t \in TaskIds
  BY DEF Owned
<1>3. ASSUME NEW t \in Owned(marker), Retired(t)
      PROVE  InLog(HeldEvent(marker, t))' \/ (journal # None /\ journal.of = t)
  BY <1>3 DEF RInv, Written
<1>4. journal # None => journal.event = HeldEvent(marker, journal.of)
  BY DEF RInv, Written
<1> QED
  BY <1>1, <1>2, <1>3, <1>4 DEF Written

\* The archive, the appends and the checks in between.
LEMMA LogEffect ==
    ASSUME IInv, IInv', RInv,
           WriteArchive \/ AppendOldEvent \/ AppendHeld \/ NoJournal \/ AllHeld \/ AppendRecovered
    PROVE  RStep
<1>0. /\ TypeOK /\ Placed /\ Written /\ Carried /\ UNCHANGED <<tasks, journal, manifest, marker>>
      /\ budget' = budget /\ (journal = None \/ journal \in Journal)
  BY DEF IInv, TypeOK, RInv, WriteArchive, AppendOldEvent, AppendHeld, NoJournal, AllHeld,
         AppendRecovered, Elsewhere
<1>1. ASSUME marker # None, applying # None, NEW e, log' = log \/ (log' = Logged(e) /\ e \in Promised \ {None}),
             NEW to, applying'.at = to,
             to \notin {"archive", "oldEvent"} =>
                 \/ marker.plan.before.pending = None \/ InLog(marker.plan.before.pending)
                 \/ marker.plan.before.pending = e /\ log' = Logged(e),
             to = "redoUnlink" => journal # None /\ e = journal.event /\ log' = Logged(e),
             to \in {"hold", "manifest", "event", "clear"} => journal = None,
             to = "clear" => e = FarmEvent("FARM_RECOVERED", marker.id) /\ log' = Logged(e)
      PROVE  RStep
  <2>1. /\ Silent /\ Once' /\ Carried' /\ (\A x : InLog(x) => InLog(x)')
        /\ log' = Logged(e) => InLog(e)'
    <3>1. journal' # None => journal'.event \in Promised /\ journal'.event.kind \in {"TASK", "RECOVERY_HELD"}
      BY <1>0, PromisedIs DEF Carried
    <3> QED
      BY <1>0, <1>1, <3>1, GoingEffect
  <2>2. to \notin {"archive", "oldEvent"} =>
            marker.plan.before.pending = None \/ InLog(marker.plan.before.pending)'
    <3>1. PICK p : p = marker.plan.before.pending /\ p = marker'.plan.before.pending
      BY <1>0
    <3> QED
      BY <1>1, <2>1, <3>1
  <2>3. Written'
    BY <1>0, <1>1, <2>1, <2>2, GoingWritten
  <2> QED
    BY <2>1, <2>3 DEF RStep, Effect
<1>2. CASE WriteArchive
  <2>1. At("archive") /\ GoTo("oldEvent") /\ "oldEvent" \in Places /\ log' = log
    BY <1>2 DEF WriteArchive, Places
  <2>2. marker # None /\ applying'.at = "oldEvent" /\ applying # None
    BY <2>1, GoneTo DEF At
  <2> QED
    BY <1>1, <2>1, <2>2
<1>3. CASE AppendOldEvent
  <2>1. PICK e : e = marker.plan.before.pending
    OBVIOUS
  <2>2. /\ At("oldEvent") /\ GoTo("redo") /\ "redo" \in Places
        /\ log' = IF e = None THEN log ELSE Logged(e)
    BY <1>3, <2>1 DEF AppendOldEvent, Places
  <2>3. marker # None /\ applying'.at = "redo" /\ applying # None /\ applying.at = "oldEvent"
    BY <2>2, GoneTo DEF At
  <2>4. e \in Promised
    BY <2>1, <2>3, PromisedIs
  <2> QED
    BY <1>1, <2>1, <2>2, <2>3, <2>4
<1>4. CASE AppendHeld
  <2>1. PICK e : e = journal.event
    OBVIOUS
  <2>2. At("redoLog") /\ GoTo("redoUnlink") /\ "redoUnlink" \in Places /\ log' = Logged(e)
    BY <1>4, <2>1 DEF AppendHeld, Places
  <2>3. marker # None /\ applying'.at = "redoUnlink" /\ applying # None /\ applying.at = "redoLog"
    BY <2>2, GoneTo DEF At
  <2>4. journal # None /\ e \in Event /\ e \in Promised \ {None}
    BY <1>0, <2>1, <2>3, PromisedIs, NoneAssumption DEF Placed, Journal
  <2>5. marker.plan.before.pending = None \/ InLog(marker.plan.before.pending)
    BY <1>0, <2>3 DEF Written
  <2> QED
    BY <1>1, <2>1, <2>2, <2>3, <2>4, <2>5
<1>5. CASE NoJournal \/ AllHeld
  <2>1. PICK to \in {"hold", "manifest"} : GoTo(to) /\ to \in Places /\ log' = log
    BY <1>5 DEF NoJournal, AllHeld, Places
  <2>2. PICK from : At(from) /\ from \in {"redo", "hold"} /\ (from = "redo" => journal = None)
    BY <1>5 DEF NoJournal, AllHeld
  <2>3. marker # None /\ applying'.at = to /\ applying # None /\ applying.at = from
    BY <2>1, <2>2, GoneTo DEF At
  <2>4. /\ marker.plan.before.pending = None \/ InLog(marker.plan.before.pending)
        /\ journal = None
    BY <1>0, <2>2, <2>3 DEF Written
  <2> QED
    BY <1>1, <2>1, <2>2, <2>3, <2>4
<1>6. CASE AppendRecovered
  <2>1. PICK e : e = FarmEvent("FARM_RECOVERED", marker.id)
    OBVIOUS
  <2>2. At("event") /\ GoTo("clear") /\ "clear" \in Places /\ log' = Logged(e)
    BY <1>6, <2>1 DEF AppendRecovered, Places
  <2>3. /\ marker # None /\ marker \in Txn /\ applying'.at = "clear" /\ applying # None
        /\ applying.at = "event"
    BY <2>2, GoneTo DEF At
  <2>4. e \in Promised \ {None}
    <3>1. e \in Event
      BY <2>1, <2>3 DEF FarmEvent, Event, Txn, Epochs
    <3> QED
      BY <2>1, <2>3, <3>1, PromisedIs, NoneAssumption
  <2>5. /\ marker.plan.before.pending = None \/ InLog(marker.plan.before.pending)
        /\ journal = None
    BY <1>0, <2>3 DEF Written
  <2> QED
    BY <1>1, <2>1, <2>2, <2>3, <2>4, <2>5
<1> QED
  BY <1>2, <1>3, <1>4, <1>5, <1>6

\* The journal of an owner that is retired: written, installed and unlinked.
LEMMA HoldEffect ==
    ASSUME IInv, IInv', RInv, HoldNext \/ InstallTask \/ UnlinkJournal
    PROVE  RStep
<1>0. /\ TypeOK /\ Fenced /\ Placed /\ Written /\ Carried /\ UNCHANGED <<log, manifest, marker>>
      /\ budget' = budget /\ (journal = None \/ journal \in Journal)
      /\ tasks \in [TaskIds -> TaskType]
  BY DEF IInv, TypeOK, RInv, HoldNext, InstallTask, UnlinkJournal, Elsewhere
<1>1. marker # None /\ marker \in Txn /\ applying # None
  BY <1>0, NoneAssumption DEF IInv, Settled, TypeOK, HoldNext, InstallTask, UnlinkJournal, At
<1>2. /\ journal # None => journal.event = HeldEvent(marker, journal.of)
      /\ \A t \in Owned(marker) : Retired(t) =>
            InLog(HeldEvent(marker, t)) \/ (journal # None /\ journal.of = t)
  BY <1>0, <1>1 DEF Written
<1>3. Owned(marker) \subseteq TaskIds
  BY DEF Owned
<1>4. CASE HoldNext
  <2>1. At("hold") /\ GoTo("redo") /\ "redo" \in Places /\ tasks' = tasks
    BY <1>4 DEF HoldNext, Places
  <2>2. applying'.at = "redo" /\ applying.at = "hold"
    BY <2>1, GoneTo DEF At
  <2>3. /\ journal = None
        /\ marker.plan.before.pending = None \/ InLog(marker.plan.before.pending)
    BY <1>0, <1>1, <2>2 DEF Written
  <2>4. PICK n \in DOMAIN TaskOrder :
          /\ ~Retired(TaskOrder[n])
          /\ journal' = [of |-> TaskOrder[n], before |-> tasks[TaskOrder[n]],
                         after |-> TasksAfter(marker)[TaskOrder[n]],
                         event |-> HeldEvent(marker, TaskOrder[n])]
    BY <1>4 DEF HoldNext
  <2>5. PICK t \in TaskIds : t = TaskOrder[n]
    BY <2>4, RecoveryAssumption DEF TaskIds
  <2>6. t \in Owned(marker)
    BY <1>0, <1>1, <2>4, <2>5, AfterTypes DEF Fenced, Retired
  <2>7. PICK e : e = HeldEvent(marker, t) /\ e.kind = "RECOVERY_HELD"
    <3>1. HeldEvent(marker, t).kind = "RECOVERY_HELD"
      BY DEF HeldEvent, TaskEvent
    <3> QED
      BY <3>1
  <2>8. journal' # None /\ journal'.of = t /\ journal'.event = e
    <3>1. PICK j : j = [of |-> t, before |-> tasks[t], after |-> TasksAfter(marker)[t], event |-> e]
      OBVIOUS
    <3>2. j.of = t /\ j.event = e
      BY <3>1
    <3>3. j \in Journal
      BY <1>0, <1>1, <2>7, <3>1, AfterTypes DEF Journal
    <3> QED
      BY <2>4, <2>5, <2>7, <3>1, <3>2, <3>3, NoneAssumption
  <2>9. e \in Promised
    BY <1>1, <2>6, <2>7, PromisedIs
  <2>10. Silent /\ Once' /\ Carried' /\ (\A x : InLog(x) => InLog(x)')
    BY <1>0, <1>1, <2>3, <2>7, <2>8, <2>9, GoingEffect
  <2>11. Written'
    <3>1. \A u \in TaskIds : Retired(u)' = Retired(u)
      BY <1>0, <2>1 DEF Retired
    <3>2. journal'.event = HeldEvent(marker, journal'.of)
      BY <2>7, <2>8
    <3> QED
      BY <1>0, <1>1, <1>2, <1>3, <2>2, <2>3, <2>8, <2>10, <3>1, <3>2 DEF Written
  <2> QED
    BY <2>10, <2>11 DEF RStep, Effect
<1>5. CASE InstallTask
  <2>1. /\ At("redo") /\ GoTo("redoLog") /\ "redoLog" \in Places /\ journal' = journal /\ journal # None
        /\ tasks' = Installed(journal)
    BY <1>5 DEF InstallTask, Places
  <2>2. applying'.at = "redoLog" /\ applying.at = "redo"
    BY <2>1, GoneTo DEF At
  <2>3. marker.plan.before.pending = None \/ InLog(marker.plan.before.pending)
    BY <1>0, <1>1, <2>2 DEF Written
  <2>4. Silent /\ Once' /\ Carried' /\ (\A x : InLog(x) => InLog(x)')
    <3>1. journal'.event \in Promised /\ journal'.event.kind \in {"TASK", "RECOVERY_HELD"}
      BY <1>0, <2>1, PromisedIs DEF Carried
    <3> QED
      BY <1>0, <1>1, <2>1, <3>1, GoingEffect
  <2>5. \A t \in TaskIds \ {journal.of} : Retired(t)' = Retired(t)
    <3>1. \A t \in TaskIds \ {journal.of} : tasks'[t] = tasks[t]
      BY <1>0, <2>1 DEF Installed
    <3> QED
      BY <1>0, <3>1 DEF Retired
  <2>6. Written'
    BY <1>0, <1>1, <1>2, <1>3, <2>1, <2>2, <2>3, <2>4, <2>5 DEF Written
  <2> QED
    BY <2>4, <2>6 DEF RStep, Effect
<1>6. CASE UnlinkJournal
  <2>1. At("redoUnlink") /\ GoTo("redo") /\ "redo" \in Places /\ journal' = None /\ tasks' = tasks
    BY <1>6 DEF UnlinkJournal, Places
  <2>2. applying'.at = "redo" /\ applying.at = "redoUnlink"
    BY <2>1, GoneTo DEF At
  <2>3. /\ marker.plan.before.pending = None \/ InLog(marker.plan.before.pending)
        /\ journal # None /\ InLog(journal.event)
    BY <1>0, <1>1, <2>2 DEF Written
  <2>4. Silent /\ Once' /\ Carried' /\ (\A x : InLog(x) => InLog(x)')
    BY <1>0, <1>1, <2>1, <2>3, GoingEffect
  <2>5. \A t \in TaskIds : Retired(t)' = Retired(t)
    BY <1>0, <2>1 DEF Retired
  <2>6. Written'
    BY <1>0, <1>1, <1>2, <1>3, <2>1, <2>2, <2>3, <2>4, <2>5 DEF Written
  <2> QED
    BY <2>4, <2>6 DEF RStep, Effect
<1> QED
  BY <1>4, <1>5, <1>6

\* The manifest moves to where the mapping has shown the farm since the marker was written.
LEMMA InstallManifestEffect ==
    ASSUME IInv, IInv', RInv, InstallManifest
    PROVE  RStep
<1>0. /\ TypeOK /\ Written /\ Carried /\ UNCHANGED <<tasks, journal, log, marker>>
      /\ budget' = budget /\ manifest' = ManifestAfter(marker)
      /\ At("manifest") /\ GoTo("event") /\ "event" \in Places
  BY DEF IInv, RInv, InstallManifest, Elsewhere, Places
<1>1. marker # None /\ applying'.at = "event" /\ applying # None /\ applying.at = "manifest"
  BY <1>0, GoneTo DEF At
<1>2. /\ marker.plan.before.pending = None \/ InLog(marker.plan.before.pending)
      /\ journal = None
  BY <1>0, <1>1 DEF Written
<1>3. Silent /\ Once' /\ Carried' /\ (\A x : InLog(x) => InLog(x)')
  BY <1>0, <1>1, <1>2, GoingEffect
<1>4. marker.plan.before.pending = None \/ InLog(marker.plan.before.pending)'
  <2>1. PICK p : p = marker.plan.before.pending /\ p = marker'.plan.before.pending
    BY <1>0
  <2> QED
    BY <1>2, <1>3, <2>1
<1>5. Written'
  BY <1>0, <1>1, <1>2, <1>3, <1>4, GoingWritten
<1> QED
  BY <1>3, <1>5 DEF RStep, Effect

\* When the marker goes, everything it stood for is there.
LEMMA ClearMarkerEffect ==
    ASSUME IInv, IInv', RInv, ClearMarker
    PROVE  RStep
<1>0. /\ TypeOK /\ Fenced /\ Written /\ Carried /\ Once /\ IsLog(log) /\ tasks \in [TaskIds -> TaskType]
      /\ UNCHANGED <<tasks, journal, log, manifest>> /\ budget' = budget
      /\ marker # None /\ marker \in Txn /\ marker' = None
      /\ applying # None /\ applying.at = "clear"
  BY DEF IInv, TypeOK, Settled, RInv, ClearMarker, At
<1>1. manifest = ManifestAfter(marker) /\ \A t \in TaskIds : Retired(t)
  BY <1>0 DEF IInv, Placed
<1>2. /\ marker.plan.before.pending = None \/ InLog(marker.plan.before.pending)
      /\ journal = None
      /\ InLog(FarmEvent("FARM_RECOVERED", marker.id))
      /\ \A t \in Owned(marker) : InLog(HeldEvent(marker, t))
  <2>1. Owned(marker) \subseteq TaskIds
    BY DEF Owned
  <2> QED
    BY <1>0, <1>1, <2>1 DEF Written
<1>3. Once' /\ BagToSet(log.recs)' = BagToSet(log.recs)
  BY <1>0, LogMoves
<1>4. Due' = Due
  <2>1. Promised \subseteq Promised' \cup BagToSet(log.recs)' \cup {None}
    <3>1. ASSUME NEW x \in Promised
          PROVE  x \in Promised' \cup BagToSet(log.recs)' \cup {None}
      <4>1. CASE x = manifest.pending
        BY <1>0, <4>1, PromisedIs
      <4>2. CASE x # manifest.pending
        <5>1. \/ x = marker.plan.before.pending
              \/ x = FarmEvent("FARM_RECOVERED", marker.id)
              \/ \E t \in Owned(marker) : x = HeldEvent(marker, t)
          BY <1>0, <1>2, <4>2, PromisedIs
        <5> QED
          BY <1>2, <1>3, <5>1 DEF InLog
      <4> QED
        BY <4>1, <4>2
    <3> QED
      BY <3>1
  <2>2. Promised' \subseteq Promised
    <3>1. \A x : x \in Promised' <=> x = manifest.pending
      BY <1>0, <1>2, PromisedIs
    <3> QED
      BY <3>1, PromisedIs
  <2>3. Due' = Due \cup {}
    BY <1>0, <1>3, <2>1, <2>2, DueBecomes
  <2> QED
    BY <2>3
<1>5. TasksNow' = TasksNow
  <2>1. TasksAfter(marker) \in [TaskIds -> TaskType]
    BY <1>0, AfterTypes
  <2>2. tasks = TasksAfter(marker)
    BY <1>0, <1>1, <2>1 DEF Retired
  <2>3. TasksNow = TasksAfter(marker) /\ TasksNow' = tasks
    BY <1>0, <1>2 DEF TasksNow
  <2> QED
    BY <2>2, <2>3
<1>6. PlaneNow' = PlaneNow
  BY <1>0, <1>1 DEF PlaneNow
<1>7. Carried' /\ Written'
  BY <1>0 DEF Carried, Written
<1> QED
  BY <1>0, <1>3, <1>4, <1>5, <1>6, <1>7 DEF RStep, Effect, Silent

-----------------------------------------------------------------------------
(* The refinement theorem.                                                  *)

\* A farm before any recovery promises nothing, and looks like OneStepRecovery's.
LEMMA InitRefines == Init => RInv /\ Abstract!Init
<1> SUFFICES ASSUME Init PROVE RInv /\ Abstract!Init
  OBVIOUS
<1>1. /\ marker = None /\ journal = None /\ manifest.pending = None /\ log.recs = EmptyBag
      /\ tasks = [t \in TaskIds |-> NewTask]
      /\ manifest.host = FirstHost /\ manifest.epoch = 0
  BY DEF Init
<1>2. EmptyBag = [e \in {} |-> 1]
  BY DEF EmptyBag, SetToBag
<1>3. BagToSet(log.recs) = {} /\ Promised \subseteq {None}
  BY <1>1, <1>2, PromisedIs DEF BagToSet
<1>4. Due = {}
  BY <1>3 DEF Due
<1>5. Once /\ Carried /\ Written
  BY <1>1, <1>2 DEF Once, Carried, Written
<1>6. TasksNow = tasks /\ PlaneNow = [host |-> FirstHost, epoch |-> 0]
  BY <1>1 DEF TasksNow, PlaneNow
<1>7. Fresh /\ HeldWaits
  <2>1. NewTask.hold = None
    BY DEF NewTask
  <2> QED
    BY <1>1, <1>4, <1>6, <2>1 DEF Fresh, HeldWaits
<1>8. AuditNow = SetToBag({})
  BY <1>4, <1>5, InitIInv, AuditIsDue
<1>9. Abstract!Init
  <2>1. Abstract!EmptyBag = SetToBag({})
    BY DEF Abstract!EmptyBag, Abstract!SetToBag, SetToBag
  <2>2. Abstract!NewTask = NewTask
    BY DEF Abstract!NewTask, NewTask
  <2> QED
    BY <1>1, <1>6, <1>8, <2>1, <2>2 DEF Abstract!Init
<1> QED
  BY <1>5, <1>7, <1>9 DEF RInv

\* Every step has one of the effects that OneStepRecovery allows.
LEMMA StepEffect ==
    ASSUME IInv, IInv', RInv, [Next]_vars
    PROVE  RStep
<1>1. CASE UNCHANGED vars
  BY <1>1, QuietEffect
<1>2. ASSUME NEW h \in Hosts, RedoJournal(h) \/ StopDrain(h) \/ StartDaemon(h) \/ Reboot(h)
      PROVE  RStep
  BY <1>2, RedoEffect, DrainEffect, StartEffect, QuietEffect
<1>3. ASSUME NEW t \in TaskIds, Dispatch(t) \/ Report(t) \/ \E h \in Hosts : Decide(h, t)
      PROVE  RStep
  BY <1>3, TaskEffect
<1>4. ASSUME NEW o \in Operators, Preview(o) \/ Apply(o)
      PROVE  RStep
  BY <1>4, QuietEffect, ApplyEffect
<1>5. CASE FinishStep
  BY <1>5, LogEffect, HoldEffect, InstallManifestEffect, ClearMarkerEffect DEF FinishStep
<1>6. CASE DaemonEnds \/ ApplyDies \/ RepairLog
  BY <1>6, QuietEffect
<1> QED
  BY <1>1, <1>2, <1>3, <1>4, <1>5, <1>6 DEF Next

\* The second layer of the invariant is preserved, given the first.
LEMMA NextRInv == IInv /\ IInv' /\ RInv /\ [Next]_vars => RInv'
<1> SUFFICES ASSUME IInv, IInv', RInv, [Next]_vars PROVE RInv'
  OBVIOUS
<1>1. Effect /\ Once' /\ Carried' /\ Written'
  BY StepEffect DEF RStep
<1>2. Fresh' /\ HeldWaits'
  BY <1>1, EffectKeeps DEF RInv
<1> QED
  BY <1>1, <1>2 DEF RInv

\* Every event is in the log once at most, tells of nothing that is still to come, and a
\* recovery that pends has written what it promised up to where it is.
THEOREM Promises == Spec => []RInv
<1>1. Init => RInv
  BY InitRefines
<1> QED
  BY <1>1, NextRInv, Inductive, PTL DEF Spec

\* The audit that the mapping shows is the set of the events that are due.
LEMMA AuditOnce == IInv /\ RInv => AuditNow = SetToBag(Due)
BY AuditIsDue DEF RInv

\* However often a recovery is interrupted and repeated, it happens once and as a whole,
\* between two commits, on the tasks as they were reviewed; every event is in the audit
\* once, and a task that it holds is let go by a ruling only (recovery.py apply, _finish).
THEOREM RecoveryIsOneStep == Spec => ImplementsOneStepRecovery
<1>1. Init => Abstract!Init
  BY InitRefines
<1> DEFINE Same == AuditNow = SetToBag(Due)
<1>2. IInv /\ RInv => Same
  BY AuditOnce
<1>3. IInv /\ IInv' /\ RInv /\ Same /\ Same' /\ [Next]_vars => [Abstract!Next]_(Abstract!absVars)
  <2> SUFFICES ASSUME IInv, IInv', RInv, Same, Same', [Next]_vars
               PROVE  [Abstract!Next]_(Abstract!absVars)
    OBVIOUS
  <2>1. Effect
    BY StepEffect DEF RStep
  <2> QED
    BY <2>1, EffectRefines DEF RInv
<1> HIDE DEF Same
<1> QED
  BY <1>1, <1>2, <1>3, Inductive, Promises, PTL DEF Spec, ImplementsOneStepRecovery, Abstract!Spec
=============================================================================
