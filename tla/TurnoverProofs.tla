---------------------------- MODULE TurnoverProofs ----------------------------
(***************************************************************************)
(* Theorems about Turnover, for every set of hosts, builds, tasks and        *)
(* request ids and every bound.                                             *)
(***************************************************************************)
EXTENDS Turnover, SequenceTheorems, TLAPS

-----------------------------------------------------------------------------
(* The inductive invariant.                                                 *)

\* A control is of one of three shapes.
ControlShape ==
    LET c == manifest.control IN
    \/ c = NoControl
    \/ c.kind = "stop" /\ c.phase = "draining" /\ c.id \in StopIds /\ c.target = "none"
    \/ /\ c.kind = "handoff" /\ c.phase \in {"draining", "released", "claimed"}
       /\ c.id \in HandoffIds /\ c.target \in Hosts

Happened(id, kind) == [id |-> id, kind |-> kind] \in ToSet(past.changes)

\* Ids are single-use: a handoff is released and claimed, and a stop cleared, only after
\* the drain of that id; and what is under way has not gone further before.
History ==
    /\ \A id \in HandoffIds : Happened(id, "FARM_RELEASED") \/ Happened(id, "FARM_CLAIMED")
                                => Happened(id, "FARM_DRAINED")
    /\ \A id \in StopIds : Happened(id, "FARM_STOP_CLEARED") => Happened(id, "FARM_STOP_DRAIN")
    /\ LET c == manifest.control IN
       /\ c.kind = "stop" => /\ Happened(c.id, "FARM_STOP_DRAIN")
                             /\ ~Happened(c.id, "FARM_STOP_CLEARED")
       /\ c.kind = "handoff" =>
             /\ Happened(c.id, "FARM_DRAINED")
             /\ c.phase = "draining" => ~Happened(c.id, "FARM_RELEASED")
             /\ c.phase # "claimed" => ~Happened(c.id, "FARM_CLAIMED")
    /\ IsInjective(past.changes)

\* The log is the history, or one event behind it, which is pending, or ahead of it by
\* the clearing of the stop under way.
Ahead ==
    /\ manifest.control.kind = "stop"
    /\ log = Append(past.changes, [id |-> manifest.control.id, kind |-> "FARM_STOP_CLEARED"])
Behind(n) == n > 0 /\ manifest.pending = past.changes[n]
Audit ==
    LET n == Len(past.changes) IN
    \/ manifest.pending = NoEvent /\ (log = past.changes \/ Ahead)
    \/ Behind(n) /\ (log = past.changes \/ log = SubSeq(past.changes, 1, n - 1))

\* An epoch is the first, or one that was claimed.
EpochUsed(e) == e = "initial" \/ Happened(e, "FARM_CLAIMED")
EpochsUsed ==
    /\ EpochUsed(manifest.epoch)
    /\ \A w \in DOMAIN workers : EpochUsed(workers[w].epoch)

\* The daemon runs the epoch of the manifest, on its host and from its build; a farm is
\* never sealed under it; and only a daemon dispatches.
DaemonOfEpoch ==
    /\ daemon # NoDaemon =>
          /\ daemon = [host |-> manifest.host, build |-> manifest.build, epoch |-> manifest.epoch]
          /\ manifest.started /\ ~Sealed
    /\ sending # 0 => daemon # NoDaemon /\ workers[sending].epoch = manifest.epoch

\* Every worker of this epoch is one whose exit release asks for, every other is dead;
\* a lease is of this epoch.
Issued(w) == \E t \in Tasks : tasks[t].epoch = manifest.epoch /\ w \in tasks[t].issued
Fleet ==
    /\ \A w \in DOMAIN workers :
          IF workers[w].epoch = manifest.epoch THEN Issued(w) ELSE workers[w].proc = "dead"
    /\ \A t \in Tasks : tasks[t].lease # 0 =>
          tasks[t].lease \in DOMAIN workers /\ workers[tasks[t].lease].epoch = manifest.epoch

\* Under the pinned-host policy the workers of an epoch are on one host, and those of
\* this epoch on the deployment host.
Pinned ==
    Policy = "pinned-host" =>
        /\ \A w \in DOMAIN workers :
              workers[w].epoch = manifest.epoch => workers[w].host = manifest.host
        /\ \A v, w \in DOMAIN workers :
              workers[v].epoch = workers[w].epoch => workers[v].host = workers[w].host

IInv ==
    /\ TypeOK /\ ControlShape /\ History /\ Audit
    /\ EpochsUsed /\ DaemonOfEpoch /\ Fleet /\ ReleaseIsQuiet /\ Pinned

-----------------------------------------------------------------------------
(* Lemmas about the operators.                                              *)

\* Appending something new to a sequence without duplicates.
LEMMA AppendNew ==
    ASSUME NEW S, NEW s \in Seq(S), NEW e \in S
    PROVE  /\ Append(s, e) \in Seq(S) /\ Len(Append(s, e)) = Len(s) + 1 /\ Len(s) \in Nat
           /\ Append(s, e)[Len(s) + 1] = e
           /\ SubSeq(Append(s, e), 1, Len(s)) = s
           /\ \A x : x \in ToSet(Append(s, e)) <=> x \in ToSet(s) \/ x = e
           /\ IsInjective(s) /\ e \notin ToSet(s) => IsInjective(Append(s, e))
<1>1. /\ Append(s, e) \in Seq(S) /\ Len(Append(s, e)) = Len(s) + 1 /\ Len(s) \in Nat
      /\ DOMAIN s = 1 .. Len(s) /\ DOMAIN Append(s, e) = 1 .. Len(s) + 1
      /\ Append(s, e)[Len(s) + 1] = e
      /\ \A i \in 1 .. Len(s) : Append(s, e)[i] = s[i]
  OBVIOUS
<1>2. \A i \in 1 .. Len(s) + 1 : i \in 1 .. Len(s) \/ i = Len(s) + 1
  BY <1>1
<1>3. ASSUME NEW x
      PROVE  x \in ToSet(Append(s, e)) <=> x \in ToSet(s) \/ x = e
  BY <1>1, <1>2 DEF ToSet
<1>4. ASSUME IsInjective(s), e \notin ToSet(s)
      PROVE  IsInjective(Append(s, e))
  <2>1. ASSUME NEW i \in 1 .. Len(s) + 1, NEW j \in 1 .. Len(s) + 1, Append(s, e)[i] = Append(s, e)[j]
        PROVE  i = j
    <3>1. \A k \in 1 .. Len(s) : s[k] # e
      BY <1>1, <1>4 DEF ToSet
    <3>2. CASE i \in 1 .. Len(s) /\ j \in 1 .. Len(s)
      BY <1>1, <1>4, <2>1, <3>2 DEF IsInjective
    <3>3. CASE i = Len(s) + 1
      BY <1>1, <1>2, <2>1, <3>1, <3>3
    <3>4. CASE j = Len(s) + 1
      BY <1>1, <1>2, <2>1, <3>1, <3>4
    <3> QED
      BY <1>2, <3>2, <3>3, <3>4
  <2> QED
    BY <1>1, <2>1 DEF IsInjective
<1>5. SubSeq(Append(s, e), 1, Len(s)) = s
  <2>1. /\ SubSeq(Append(s, e), 1, Len(s)) \in Seq(S)
        /\ Len(SubSeq(Append(s, e), 1, Len(s))) = Len(s)
        /\ \A i \in 1 .. Len(s) : SubSeq(Append(s, e), 1, Len(s))[i] = s[i]
    BY <1>1
  <2> QED
    BY <2>1, SeqEqual
<1> QED
  BY <1>1, <1>3, <1>4, <1>5

\* All but the last of a sequence without duplicates lacks the last.
LEMMA AllButLast ==
    ASSUME NEW S, NEW s \in Seq(S), Len(s) > 0
    PROVE  /\ SubSeq(s, 1, Len(s) - 1) \in Seq(S) /\ s[Len(s)] \in S
           /\ Append(SubSeq(s, 1, Len(s) - 1), s[Len(s)]) = s
           /\ s[Len(s)] \in ToSet(s)
           /\ IsInjective(s) => /\ s[Len(s)] \notin ToSet(SubSeq(s, 1, Len(s) - 1))
                                /\ IsInjective(SubSeq(s, 1, Len(s) - 1))
<1>1. PICK m \in Nat : Len(s) = m + 1
  <2>1. Len(s) \in Nat /\ Len(s) - 1 \in Nat /\ Len(s) = (Len(s) - 1) + 1
    OBVIOUS
  <2> QED
    BY <2>1
<1>2. PICK f \in Seq(S) : f = SubSeq(s, 1, m) /\ Len(f) = m /\ \A i \in 1 .. m : f[i] = s[i]
  <2>1. \A i \in 1 .. m : s[i] \in S
    BY <1>1
  <2>2. /\ SubSeq(s, 1, m) \in Seq(S)
        /\ Len(SubSeq(s, 1, m)) = IF 1 <= m THEN m - 1 + 1 ELSE 0
        /\ \A i \in 1 .. m - 1 + 1 : SubSeq(s, 1, m)[i] = s[1 + i - 1]
    BY <2>1, SubSeqProperties
  <2>3. m - 1 + 1 = m /\ (~(1 <= m) => m = 0)
    OBVIOUS
  <2>4. ASSUME NEW i \in 1 .. m
        PROVE  SubSeq(s, 1, m)[i] = s[i]
    <3>1. 1 + i - 1 = i
      OBVIOUS
    <3> QED
      BY <2>2, <2>3, <3>1
  <2> QED
    BY <2>2, <2>3, <2>4
<1>3. \A i \in 1 .. m + 1 : i \in 1 .. m \/ i = m + 1
  OBVIOUS
<1>4. /\ DOMAIN s = 1 .. m + 1 /\ DOMAIN f = 1 .. m /\ s[m + 1] \in S
      /\ m + 1 \in 1 .. m + 1 /\ \A i \in 1 .. m : i \in 1 .. m + 1 /\ i # m + 1
  BY <1>1, <1>2
<1>5. Append(f, s[m + 1]) = s
  <2>1. /\ Append(f, s[m + 1]) \in Seq(S) /\ Len(Append(f, s[m + 1])) = m + 1
        /\ \A i \in 1 .. m : Append(f, s[m + 1])[i] = f[i]
        /\ Append(f, s[m + 1])[m + 1] = s[m + 1]
    BY <1>2, <1>4
  <2>2. \A i \in 1 .. m + 1 : Append(f, s[m + 1])[i] = s[i]
    BY <1>2, <1>3, <2>1
  <2> QED
    BY <1>1, <2>1, <2>2, SeqEqual
<1>6. s[m + 1] \in ToSet(s)
  BY <1>4 DEF ToSet
<1>7. ASSUME IsInjective(s)
      PROVE  s[m + 1] \notin ToSet(f) /\ IsInjective(f)
  BY <1>2, <1>4, <1>7 DEF ToSet, IsInjective
<1>8. Len(s) - 1 = m
  BY <1>1
<1> QED
  BY <1>1, <1>2, <1>4, <1>5, <1>6, <1>7, <1>8

Budget == [attempts : Nat, decisions : Nat, crashes : Nat]

\* The bounds of the environment only go down.
LEMMA SpendTypes ==
    ASSUME budget \in Budget
    PROVE  \A kind \in {"attempts", "decisions", "crashes"} : Spend(kind) => budget' \in Budget
BY DEF Budget, Spend

\* What is left after the pending event is finished is the history, unless a startup
\* has died while it cleared a stop.
LEMMA Finished ==
    ASSUME TypeOK, History, Audit
    PROVE  /\ FinishedLog \in Seq(FarmEvent)
           /\ FinishedLog = past.changes \/ (manifest.pending = NoEvent /\ Ahead /\ FinishedLog = log)
<1> DEFINE n == Len(past.changes)
<1>1. past.changes \in Seq(FarmEvent) /\ log \in Seq(FarmEvent) /\ IsInjective(past.changes)
  BY DEF TypeOK, History
<1>2. CASE manifest.pending = NoEvent
  <2>1. n > 0 => past.changes[n].id \in HandoffIds \cup StopIds
    <3>1. n > 0 => past.changes[n] \in FarmEvent
      BY <1>1, AllButLast
    <3> QED
      BY <3>1 DEF FarmEvent
  <2>2. ~Behind(n)
    BY <1>2, <2>1, TurnoverAssumption DEF Behind, NoEvent
  <2> QED
    BY <1>1, <1>2, <2>2 DEF FinishedLog, Audit
<1>3. CASE manifest.pending # NoEvent
  <2>1. n > 0 /\ manifest.pending = past.changes[n]
        /\ (log = past.changes \/ log = SubSeq(past.changes, 1, n - 1))
    BY <1>3 DEF Audit, Behind
  <2>2. Logged(log, past.changes[n]) = past.changes
    BY <1>1, <2>1, AllButLast DEF Logged
  <2> QED
    BY <1>1, <1>3, <2>1, <2>2 DEF FinishedLog
<1> QED
  BY <1>2, <1>3

\* An event that has not happened is published whole: with its control, after what was
\* pending, whatever dies.
LEMMA Published ==
    ASSUME TypeOK, History, Audit, ~Ahead,
           NEW p \in Process, NEW m \in Manifest, NEW kind \in Kinds,
           m.control.id \in HandoffIds \cup StopIds, ~Happened(m.control.id, kind),
           Publish(p, m, kind)
    PROVE  /\ manifest' \in Manifest
           /\ \A f \in {"host", "build", "epoch", "started", "control"} : manifest'[f] = m[f]
           /\ log' \in Seq(FarmEvent)
           /\ past' \in [changes : Seq(FarmEvent)] /\ IsInjective(past'.changes)
           /\ \A id, k : Happened(id, k)' <=> Happened(id, k) \/ (id = m.control.id /\ k = kind)
           /\ budget' \in Budget
           /\ Audit'
<1> DEFINE e == [id |-> m.control.id, kind |-> kind]
<1>1. e \in FarmEvent /\ past.changes \in Seq(FarmEvent) /\ FinishedLog = past.changes
      /\ e \notin ToSet(past.changes) /\ IsInjective(past.changes)
  BY Finished DEF FarmEvent, TypeOK, History, Happened
<1>2. /\ past' = [changes |-> Append(past.changes, e)]
      /\ manifest' \in {[m EXCEPT !.pending = e], [m EXCEPT !.pending = NoEvent]}
      /\ manifest' = [m EXCEPT !.pending = e] => log' \in {past.changes, Logged(past.changes, e)}
      /\ manifest' # [m EXCEPT !.pending = e] => log' = Logged(past.changes, e)
      /\ budget' = budget \/ Spend("crashes")
  BY <1>1 DEF Publish
<1>3. Logged(past.changes, e) = Append(past.changes, e)
  BY <1>1 DEF Logged
<1>4. /\ manifest' \in Manifest
      /\ \A f \in {"host", "build", "epoch", "started", "control"} : manifest'[f] = m[f]
  BY <1>1, <1>2 DEF Manifest
<1>5. /\ manifest' = [m EXCEPT !.pending = e] => manifest'.pending = e
      /\ manifest' # [m EXCEPT !.pending = e] => manifest'.pending = NoEvent
  BY <1>1, <1>2 DEF Manifest
<1>6. /\ past'.changes = Append(past.changes, e) /\ past'.changes \in Seq(FarmEvent)
      /\ Len(past'.changes) = Len(past.changes) + 1 /\ past'.changes[Len(past'.changes)] = e
      /\ SubSeq(past'.changes, 1, Len(past'.changes) - 1) = past.changes
      /\ IsInjective(past'.changes) /\ Len(past.changes) \in Nat
      /\ \A x : x \in ToSet(past'.changes) <=> x \in ToSet(past.changes) \/ x = e
  BY <1>1, <1>2, AppendNew
<1>7. Audit'
  BY <1>2, <1>3, <1>5, <1>6 DEF Audit, Behind
<1>8. \A id, k : Happened(id, k)' <=> Happened(id, k) \/ (id = m.control.id /\ k = kind)
  BY <1>6 DEF Happened
<1>9. budget' \in Budget
  BY <1>2, SpendTypes DEF TypeOK, Budget
<1> QED
  BY <1>1, <1>2, <1>3, <1>4, <1>6, <1>7, <1>8, <1>9

-----------------------------------------------------------------------------
(* What a step leaves alone.                                                *)

\* The fleet, while the execution epoch and its host stay.
LEMMA FleetStays ==
    ASSUME Fleet, Pinned, EpochsUsed, UNCHANGED <<tasks, workers>>,
           manifest'.epoch = manifest.epoch, manifest'.host = manifest.host,
           \A id, k : Happened(id, k) => Happened(id, k)'
    PROVE  Fleet' /\ Pinned' /\ EpochsUsed'
<1>1. \A e : EpochUsed(e) => EpochUsed(e)'
  BY DEF EpochUsed
<1>2. EpochsUsed'
  BY <1>1 DEF EpochsUsed
<1>3. Fleet'
  BY DEF Fleet, Issued
<1>4. Pinned'
  BY DEF Pinned
<1> QED
  BY <1>2, <1>3, <1>4

\* The history, while the control stays.
LEMMA HistoryStays ==
    ASSUME ControlShape, History, past' = past, manifest'.control = manifest.control
    PROVE  ControlShape' /\ History' /\ \A id, k : Happened(id, k)' <=> Happened(id, k)
BY DEF ControlShape, History, Happened

\* The pending event is finished.
LEMMA AuditFinished ==
    ASSUME TypeOK, History, Audit,
           past' = past, manifest'.control = manifest.control, log' = FinishedLog,
           \/ manifest'.pending = NoEvent
           \/ manifest'.pending = manifest.pending /\ manifest.pending # NoEvent
    PROVE  Audit' /\ log' \in Seq(FarmEvent)
<1>1. /\ FinishedLog \in Seq(FarmEvent)
      /\ FinishedLog = past.changes \/ (manifest.pending = NoEvent /\ Ahead /\ FinishedLog = log)
  BY Finished
<1>2. manifest.pending # NoEvent => Behind(Len(past.changes))
  BY DEF Audit
<1> QED
  BY <1>1, <1>2 DEF Audit, Ahead, Behind

-----------------------------------------------------------------------------
(* Node handoff.                                                            *)

\* A control that may be replaced is not a stop, so that the log is not ahead.
LEMMA NotAhead ==
    ASSUME IInv, manifest.control.kind # "stop"
    PROVE  ~Ahead /\ FinishedLog = past.changes
BY Finished DEF IInv, Ahead

\* A drain publishes a handoff that is new.
LEMMA DrainStep ==
    ASSUME IInv, NEW p \in Process, NEW id \in HandoffIds, NEW target \in Hosts, Drain(p, id, target)
    PROVE  IInv'
<1> DEFINE c == [kind |-> "handoff", phase |-> "draining", id |-> id, target |-> target]
           m == [manifest EXCEPT !.control = c]
<1>0. /\ TypeOK /\ ControlShape /\ History /\ Audit /\ EpochsUsed /\ DaemonOfEpoch /\ Fleet
      /\ Pinned /\ manifest \in Manifest
  BY DEF IInv, TypeOK
<1>1. /\ manifest.control.phase \in {"none", "claimed"}
      /\ [id |-> id, kind |-> "FARM_DRAINED"] \notin ToSet(FinishedLog)
      /\ Publish(p, m, "FARM_DRAINED")
      /\ UNCHANGED <<archive, Farm, command>>
  BY DEF Drain
<1>2. manifest.control.kind # "stop"
  BY <1>0, <1>1 DEF ControlShape, NoControl
<1>3. ~Happened(id, "FARM_DRAINED") /\ ~Ahead
  BY <1>1, <1>2, NotAhead DEF Happened
<1>4. /\ m \in Manifest /\ m.control = c /\ m.host = manifest.host /\ m.build = manifest.build
      /\ m.epoch = manifest.epoch /\ m.started = manifest.started
  BY <1>0 DEF Manifest, Control
<1> HIDE DEF m
<1>5. /\ manifest' \in Manifest
      /\ \A f \in {"host", "build", "epoch", "started", "control"} : manifest'[f] = m[f]
      /\ log' \in Seq(FarmEvent)
      /\ past' \in [changes : Seq(FarmEvent)] /\ IsInjective(past'.changes)
      /\ \A i, k : Happened(i, k)' <=> Happened(i, k) \/ (i = id /\ k = "FARM_DRAINED")
      /\ budget' \in Budget
      /\ Audit'
  BY <1>0, <1>1, <1>3, <1>4, Published DEF Kinds
<1>6. /\ manifest'.control = c /\ manifest'.host = manifest.host /\ manifest'.build = manifest.build
      /\ manifest'.epoch = manifest.epoch /\ manifest'.started = manifest.started
  BY <1>4, <1>5
<1>7. TypeOK'
  BY <1>0, <1>1, <1>5 DEF TypeOK, Farm, Budget
<1>8. ControlShape'
  BY <1>6 DEF ControlShape
<1>9. History'
  BY <1>0, <1>3, <1>5, <1>6 DEF History
<1>10. DaemonOfEpoch'
  BY <1>0, <1>1, <1>6 DEF DaemonOfEpoch, Farm, Sealed
<1>11. Fleet' /\ Pinned' /\ EpochsUsed'
  BY <1>0, <1>1, <1>5, <1>6, FleetStays DEF Farm
<1>12. ReleaseIsQuiet'
  BY <1>6 DEF ReleaseIsQuiet, Sealed, HandedOver
<1> QED
  BY <1>5, <1>7, <1>8, <1>9, <1>10, <1>11, <1>12 DEF IInv

\* Every worker that was ever issued is dead where the release has looked: those of the
\* epoch it polls, the others were before.
LEMMA AllDead ==
    ASSUME IInv, NEW h \in Hosts, ReadyToSeal(h)
    PROVE  /\ \A w \in DOMAIN workers : workers[w].proc = "dead"
           /\ \A t \in Tasks : tasks[t].lease = 0
<1>1. ASSUME NEW w \in DOMAIN workers, workers[w].epoch = manifest.epoch
      PROVE  workers[w].proc = "dead"
  <2>1. w \in IssuedWorkers
    BY <1>1 DEF IInv, Fleet, Issued, IssuedWorkers
  <2>2. Poll(h, w) = "dead"
    BY <2>1 DEF ReadyToSeal
  <2> QED
    BY <2>2 DEF Poll
<1> QED
  BY <1>1 DEF IInv, Fleet, ReadyToSeal

\* A release seals the farm: every worker is dead and nothing is being sent.
LEMMA ReleaseStep ==
    ASSUME IInv, NEW p \in Process, Release(p)
    PROVE  IInv'
<1> DEFINE c == manifest.control
           m == [manifest EXCEPT !.control.phase = "released"]
<1>0. /\ TypeOK /\ ControlShape /\ History /\ Audit /\ EpochsUsed /\ DaemonOfEpoch /\ Fleet
      /\ Pinned /\ manifest \in Manifest
  BY DEF IInv, TypeOK
<1>1. /\ daemon = NoDaemon /\ sending = 0 /\ p.host \in Hosts
      /\ c.kind = "handoff" /\ c.phase = "draining" /\ c.id \in HandoffIds /\ c.target \in Hosts
      /\ ReadyToSeal(p.host)
      /\ archive' = [archive EXCEPT ![c.id] = tasks]
      /\ UNCHANGED <<Farm, command>>
  BY <1>0 DEF Release, ReconcileLock, MutationLock, Process, ControlShape, NoControl
<1>2. /\ \A w \in DOMAIN workers : workers[w].proc = "dead"
      /\ \A t \in Tasks : tasks[t].lease = 0
  BY <1>1, AllDead
<1>3. /\ archive' \in [HandoffIds -> [Tasks -> TaskType] \cup {<<>>}] /\ archive'[c.id] = tasks
  BY <1>0, <1>1 DEF TypeOK
<1>4. CASE Publish(p, m, "FARM_RELEASED")
  <2>1. ~Happened(c.id, "FARM_RELEASED") /\ ~Happened(c.id, "FARM_CLAIMED") /\ ~Ahead
        /\ Happened(c.id, "FARM_DRAINED")
    BY <1>0, <1>1, NotAhead DEF History
  <2>2. /\ m \in Manifest /\ m.control = [c EXCEPT !.phase = "released"]
        /\ m.host = manifest.host /\ m.build = manifest.build
        /\ m.epoch = manifest.epoch /\ m.started = manifest.started
        /\ m.control.id = c.id
    BY <1>0, <1>1 DEF Manifest, Control
  <2> HIDE DEF m
  <2>a. m.control.id \in HandoffIds \cup StopIds /\ ~Happened(m.control.id, "FARM_RELEASED")
    BY <1>1, <2>1, <2>2
  <2>3. /\ manifest' \in Manifest
        /\ \A f \in {"host", "build", "epoch", "started", "control"} : manifest'[f] = m[f]
        /\ log' \in Seq(FarmEvent)
        /\ past' \in [changes : Seq(FarmEvent)] /\ IsInjective(past'.changes)
        /\ \A i, k : Happened(i, k)' <=> Happened(i, k) \/ (i = c.id /\ k = "FARM_RELEASED")
        /\ budget' \in Budget
        /\ Audit'
    <3>1. "FARM_RELEASED" \in Kinds
      BY DEF Kinds
    <3>2. /\ manifest' \in Manifest
          /\ \A f \in {"host", "build", "epoch", "started", "control"} : manifest'[f] = m[f]
          /\ log' \in Seq(FarmEvent)
          /\ past' \in [changes : Seq(FarmEvent)] /\ IsInjective(past'.changes)
          /\ \A i, k : Happened(i, k)' <=> Happened(i, k) \/ (i = m.control.id /\ k = "FARM_RELEASED")
          /\ budget' \in Budget
          /\ Audit'
      BY <1>0, <1>4, <2>1, <2>2, <2>a, <3>1, Published
    <3> QED
      BY <2>2, <3>2
  <2>4. /\ manifest'.control = [c EXCEPT !.phase = "released"]
        /\ manifest'.host = manifest.host /\ manifest'.build = manifest.build
        /\ manifest'.epoch = manifest.epoch /\ manifest'.started = manifest.started
    BY <2>2, <2>3
  <2>5. /\ manifest'.control.kind = "handoff" /\ manifest'.control.phase = "released"
        /\ manifest'.control.id = c.id /\ manifest'.control.target = c.target
    BY <1>0, <1>1, <2>4 DEF Manifest, Control
  <2>6. TypeOK'
    BY <1>0, <1>1, <1>3, <2>3 DEF TypeOK, Farm, Budget
  <2>7. ControlShape'
    BY <1>1, <2>5 DEF ControlShape
  <2>8. History'
    BY <1>0, <2>1, <2>3, <2>5 DEF History
  <2>9. DaemonOfEpoch'
    BY <1>1 DEF DaemonOfEpoch, Farm
  <2>10. Fleet' /\ Pinned' /\ EpochsUsed'
    BY <1>0, <1>1, <2>3, <2>4, FleetStays DEF Farm
  <2>11. ReleaseIsQuiet'
    BY <1>1, <1>2, <1>3, <2>5 DEF ReleaseIsQuiet, Farm
  <2> QED
    BY <2>3, <2>6, <2>7, <2>8, <2>9, <2>10, <2>11 DEF IInv
<1>5. CASE /\ Spend("crashes") /\ manifest' = [manifest EXCEPT !.pending = NoEvent]
           /\ log' = FinishedLog /\ UNCHANGED past
  <2>1. /\ manifest' \in Manifest /\ manifest'.pending = NoEvent /\ manifest'.control = c
        /\ manifest'.epoch = manifest.epoch /\ manifest'.host = manifest.host
    BY <1>0, <1>5 DEF Manifest
  <2>2. Audit' /\ log' \in Seq(FarmEvent)
    BY <1>0, <1>5, <2>1, AuditFinished
  <2>3. budget' \in Budget
    BY <1>0, <1>5, SpendTypes DEF TypeOK, Budget
  <2>4. TypeOK'
    BY <1>0, <1>1, <1>3, <1>5, <2>1, <2>2, <2>3 DEF TypeOK, Farm, Budget
  <2>5. ControlShape' /\ History' /\ \A i, k : Happened(i, k)' <=> Happened(i, k)
    BY <1>0, <1>5, <2>1, HistoryStays
  <2>6. Fleet' /\ Pinned' /\ EpochsUsed'
    BY <1>0, <1>1, <2>1, <2>5, FleetStays DEF Farm
  <2>7. DaemonOfEpoch' /\ ReleaseIsQuiet'
    BY <1>1, <2>1 DEF DaemonOfEpoch, ReleaseIsQuiet, Sealed, HandedOver, Farm
  <2> QED
    BY <2>2, <2>4, <2>5, <2>6, <2>7 DEF IInv
<1> QED
  BY <1>4, <1>5 DEF Release

\* A claim opens an epoch that no worker has, when all workers are dead.
LEMMA ClaimStep ==
    ASSUME IInv, NEW p \in Process, Claim(p)
    PROVE  IInv'
<1> DEFINE c == manifest.control
           m == [manifest EXCEPT !.host = p.host, !.started = FALSE, !.epoch = c.id,
                                 !.control.phase = "claimed"]
<1>0. /\ TypeOK /\ ControlShape /\ History /\ Audit /\ EpochsUsed /\ DaemonOfEpoch /\ Fleet
      /\ Pinned /\ ReleaseIsQuiet /\ manifest \in Manifest
  BY DEF IInv, TypeOK
<1>1. /\ daemon = NoDaemon /\ sending = 0 /\ p.host \in Hosts
      /\ c.kind = "handoff" /\ c.phase = "released" /\ c.id \in HandoffIds /\ c.target \in Hosts
      /\ Publish(p, m, "FARM_CLAIMED")
      /\ UNCHANGED <<archive, Farm, command>>
  BY <1>0 DEF Claim, ReconcileLock, MutationLock, Process, ControlShape, NoControl
<1>2. /\ \A w \in DOMAIN workers : workers[w].proc = "dead"
      /\ \A t \in Tasks : tasks[t].lease = 0
  BY <1>0, <1>1 DEF ReleaseIsQuiet, Sealed
<1>3. ~Happened(c.id, "FARM_CLAIMED") /\ ~Ahead /\ Happened(c.id, "FARM_DRAINED") /\ c.id # "initial"
  BY <1>0, <1>1, NotAhead, TurnoverAssumption DEF History
<1>4. /\ m \in Manifest /\ m.control = [c EXCEPT !.phase = "claimed"]
      /\ m.host = p.host /\ m.build = manifest.build
      /\ m.epoch = c.id /\ m.started = FALSE
      /\ m.control.id = c.id
  BY <1>0, <1>1 DEF Manifest, Control
<1> HIDE DEF m
<1>5. m.control.id \in HandoffIds \cup StopIds /\ ~Happened(m.control.id, "FARM_CLAIMED")
      /\ "FARM_CLAIMED" \in Kinds
  BY <1>1, <1>3, <1>4 DEF Kinds
<1>6. /\ manifest' \in Manifest
      /\ \A f \in {"host", "build", "epoch", "started", "control"} : manifest'[f] = m[f]
      /\ log' \in Seq(FarmEvent)
      /\ past' \in [changes : Seq(FarmEvent)] /\ IsInjective(past'.changes)
      /\ \A i, k : Happened(i, k)' <=> Happened(i, k) \/ (i = m.control.id /\ k = "FARM_CLAIMED")
      /\ budget' \in Budget
      /\ Audit'
  BY <1>0, <1>1, <1>3, <1>4, <1>5, Published
<1>7. /\ manifest'.control = [c EXCEPT !.phase = "claimed"]
      /\ manifest'.host = p.host /\ manifest'.build = manifest.build
      /\ manifest'.epoch = c.id /\ ~manifest'.started
      /\ \A i, k : Happened(i, k)' <=> Happened(i, k) \/ (i = c.id /\ k = "FARM_CLAIMED")
  BY <1>4, <1>6
<1>8. /\ manifest'.control.kind = "handoff" /\ manifest'.control.phase = "claimed"
      /\ manifest'.control.id = c.id /\ manifest'.control.target = c.target
  BY <1>0, <1>1, <1>7 DEF Manifest, Control
<1>9. TypeOK'
  BY <1>0, <1>1, <1>6 DEF TypeOK, Farm, Budget
<1>10. ControlShape'
  BY <1>1, <1>8 DEF ControlShape
<1>11. History'
  BY <1>0, <1>3, <1>6, <1>7, <1>8 DEF History
<1>12. DaemonOfEpoch'
  BY <1>1 DEF DaemonOfEpoch, Farm
<1>13. \A w \in DOMAIN workers : workers[w].epoch # c.id
  BY <1>0, <1>3 DEF EpochsUsed, EpochUsed
<1>14. EpochsUsed'
  BY <1>0, <1>1, <1>7 DEF EpochsUsed, EpochUsed, Farm
<1>15. Fleet' /\ Pinned'
  BY <1>0, <1>1, <1>2, <1>7, <1>13 DEF Fleet, Pinned, Farm
<1>16. ReleaseIsQuiet'
  BY <1>1, <1>2, <1>8 DEF ReleaseIsQuiet, Sealed, Farm
<1> QED
  BY <1>6, <1>9, <1>10, <1>11, <1>12, <1>14, <1>15, <1>16 DEF IInv

-----------------------------------------------------------------------------
(* Stop and start.                                                          *)

\* A stop publishes its control, on a look that may be stale.
LEMMA StopDrainStep ==
    ASSUME IInv, NEW id \in StopIds, StopDrain(id)
    PROVE  IInv'
<1> DEFINE c == [kind |-> "stop", phase |-> "draining", id |-> id, target |-> "none"]
           m == [manifest EXCEPT !.control = c]
<1>0. /\ TypeOK /\ ControlShape /\ History /\ Audit /\ EpochsUsed /\ DaemonOfEpoch /\ Fleet
      /\ Pinned /\ manifest \in Manifest
  BY DEF IInv, TypeOK
<1>1. /\ command \in Process /\ manifest.control.phase \in {"none", "claimed"}
      /\ [id |-> id, kind |-> "FARM_STOP_DRAIN"] \notin ToSet(FinishedLog)
      /\ Publish(command, m, "FARM_STOP_DRAIN")
      /\ command' = Nobody /\ UNCHANGED <<archive, Farm>>
  BY <1>0 DEF StopDrain, TypeOK
<1>2. manifest.control.kind # "stop"
  BY <1>0, <1>1 DEF ControlShape, NoControl
<1>3. ~Happened(id, "FARM_STOP_DRAIN") /\ ~Ahead
  BY <1>1, <1>2, NotAhead DEF Happened
<1>4. /\ m \in Manifest /\ m.control = c /\ m.host = manifest.host /\ m.build = manifest.build
      /\ m.epoch = manifest.epoch /\ m.started = manifest.started
  BY <1>0 DEF Manifest, Control
<1> HIDE DEF m
<1>5. /\ manifest' \in Manifest
      /\ \A f \in {"host", "build", "epoch", "started", "control"} : manifest'[f] = m[f]
      /\ log' \in Seq(FarmEvent)
      /\ past' \in [changes : Seq(FarmEvent)] /\ IsInjective(past'.changes)
      /\ \A i, k : Happened(i, k)' <=> Happened(i, k) \/ (i = id /\ k = "FARM_STOP_DRAIN")
      /\ budget' \in Budget
      /\ Audit'
  BY <1>0, <1>1, <1>3, <1>4, Published DEF Kinds
<1>6. /\ manifest'.control = c /\ manifest'.host = manifest.host /\ manifest'.build = manifest.build
      /\ manifest'.epoch = manifest.epoch /\ manifest'.started = manifest.started
  BY <1>4, <1>5
<1>7. TypeOK'
  BY <1>0, <1>1, <1>5 DEF TypeOK, Farm, Budget
<1>8. ControlShape'
  BY <1>6 DEF ControlShape
<1>9. History'
  BY <1>0, <1>3, <1>5, <1>6 DEF History
<1>10. DaemonOfEpoch'
  BY <1>0, <1>1, <1>6 DEF DaemonOfEpoch, Farm, Sealed
<1>11. Fleet' /\ Pinned' /\ EpochsUsed'
  BY <1>0, <1>1, <1>5, <1>6, FleetStays DEF Farm
<1>12. ReleaseIsQuiet'
  BY <1>6 DEF ReleaseIsQuiet, Sealed, HandedOver
<1> QED
  BY <1>5, <1>7, <1>8, <1>9, <1>10, <1>11, <1>12 DEF IInv

\* A command that finishes the pending event and moves nothing else, or ends the daemon.
LEMMA FinishStep ==
    ASSUME IInv,
           \/ \E p \in Process, claiming \in BOOLEAN : FinishOnly(p, claiming) \/ FinishDies(p, claiming)
           \/ StopNow
    PROVE  IInv'
<1>0. /\ TypeOK /\ ControlShape /\ History /\ Audit /\ EpochsUsed /\ DaemonOfEpoch /\ Fleet
      /\ Pinned /\ ReleaseIsQuiet /\ manifest \in Manifest
  BY DEF IInv, TypeOK
<1>1. /\ UNCHANGED <<archive, tasks, workers, past>> /\ log' = FinishedLog
      /\ budget' = budget \/ Spend("crashes")
      /\ sending = 0 /\ sending' = 0 /\ daemon' \in {daemon, NoDaemon} /\ command' \in {command, Nobody}
      /\ \/ manifest' = [manifest EXCEPT !.pending = NoEvent]
         \/ manifest' = manifest /\ manifest.pending # NoEvent
  BY DEF FinishOnly, FinishDies, Finishes, Quit, Farm, StopNow, MutationLock
<1>2. /\ manifest' \in Manifest
      /\ \A f \in {"host", "build", "epoch", "started", "control"} : manifest'[f] = manifest[f]
      /\ \/ manifest'.pending = NoEvent
         \/ manifest'.pending = manifest.pending /\ manifest.pending # NoEvent
  BY <1>0, <1>1 DEF Manifest
<1>3. /\ manifest'.host = manifest.host /\ manifest'.build = manifest.build
      /\ manifest'.epoch = manifest.epoch /\ manifest'.started = manifest.started
      /\ manifest'.control = manifest.control
  BY <1>2
<1>4. Audit' /\ log' \in Seq(FarmEvent)
  BY <1>0, <1>1, <1>2, <1>3, AuditFinished
<1>5. budget' \in Budget
  BY <1>0, <1>1, SpendTypes DEF TypeOK, Budget
<1>6. TypeOK'
  BY <1>0, <1>1, <1>2, <1>4, <1>5 DEF TypeOK, Budget
<1>7. ControlShape' /\ History' /\ \A i, k : Happened(i, k)' <=> Happened(i, k)
  BY <1>0, <1>1, <1>3, HistoryStays
<1>8. Fleet' /\ Pinned' /\ EpochsUsed'
  BY <1>0, <1>1, <1>3, <1>7, FleetStays
<1>9. DaemonOfEpoch' /\ ReleaseIsQuiet'
  BY <1>0, <1>1, <1>3 DEF DaemonOfEpoch, ReleaseIsQuiet, Sealed, HandedOver
<1> QED
  BY <1>4, <1>6, <1>7, <1>8, <1>9 DEF IInv

\* A start clears a stop and puts its daemon on record.
LEMMA StartStep ==
    ASSUME IInv, NEW p \in Process, NEW upgrade \in BOOLEAN, Start(p, upgrade)
    PROVE  IInv'
<1> DEFINE stop == manifest.control.kind = "stop"
           cleared == [id |-> manifest.control.id, kind |-> "FARM_STOP_CLEARED"]
           control == IF stop THEN NoControl ELSE manifest.control
           l == IF stop THEN Logged(FinishedLog, cleared) ELSE FinishedLog
<1>0. /\ TypeOK /\ ControlShape /\ History /\ Audit /\ EpochsUsed /\ DaemonOfEpoch /\ Fleet
      /\ Pinned /\ manifest \in Manifest /\ past \in [changes : Seq(FarmEvent)]
      /\ p.host \in Hosts /\ p.build \in Builds
  BY DEF IInv, TypeOK, Process
<1>1. /\ sending = 0 /\ daemon = NoDaemon
      /\ UNCHANGED <<archive, tasks, workers, sending, command>>
      /\ log' = l
      /\ budget' = budget \/ Spend("crashes")
      /\ Policy = "pinned-host" => manifest.host = p.host
  BY DEF Start, ReconcileLock, MutationLock, MayStart
<1>2. NoControl \in Control /\ NoControl.kind = "none" /\ NoControl.phase = "none"
  BY DEF NoControl, Control
<1>3. stop => /\ cleared \in FarmEvent /\ manifest.control.id \in StopIds
              /\ Happened(manifest.control.id, "FARM_STOP_DRAIN") /\ cleared \notin ToSet(past.changes)
  BY <1>0, <1>2 DEF ControlShape, History, FarmEvent, Kinds, Happened
<1>4. /\ stop => log' = Append(past.changes, cleared) /\ log' \in Seq(FarmEvent)
      /\ ~stop => log' = past.changes /\ log' \in Seq(FarmEvent)
  <2>1. /\ FinishedLog \in Seq(FarmEvent)
        /\ FinishedLog = past.changes \/ (Ahead /\ FinishedLog = log)
    BY <1>0, Finished
  <2>2. stop /\ FinishedLog = log /\ Ahead => cleared \in ToSet(FinishedLog)
    BY <1>0, <1>3, AppendNew DEF Ahead
  <2> QED
    BY <1>0, <1>1, <1>3, <2>1, <2>2, AppendNew DEF Logged, Ahead
<1> HIDE DEF l
<1>5. budget' \in Budget
  BY <1>0, <1>1, SpendTypes DEF TypeOK, Budget
<1>6. \/ /\ manifest' \in Manifest /\ manifest'.host = p.host /\ manifest'.build = p.build
         /\ manifest'.epoch = manifest.epoch /\ manifest'.started /\ manifest'.control = control
         /\ manifest'.pending = NoEvent /\ control.phase # "released"
         /\ daemon' = [host |-> p.host, build |-> p.build, epoch |-> manifest.epoch]
         /\ past' = IF stop THEN [changes |-> Append(past.changes, cleared)] ELSE past
      \/ /\ stop /\ manifest' \in Manifest /\ manifest'.host = manifest.host
         /\ manifest'.epoch = manifest.epoch
         /\ manifest'.pending = NoEvent /\ daemon' = NoDaemon
         /\ \/ manifest'.control = manifest.control /\ past' = past
            \/ manifest'.control = NoControl /\ past' = [changes |-> Append(past.changes, cleared)]
  <2> DEFINE m == [manifest EXCEPT !.pending = NoEvent, !.control = IF stop THEN NoControl ELSE @]
  <2>1. /\ m \in Manifest /\ m.host = manifest.host /\ m.build = manifest.build
        /\ m.epoch = manifest.epoch /\ m.control = control /\ m.pending = NoEvent
    BY <1>0, <1>2 DEF Manifest
  <2>2. [past EXCEPT !.changes = Append(@, cleared)] = [changes |-> Append(past.changes, cleared)]
    BY <1>0
  <2>3. CASE /\ m.control.phase # "released"
             /\ manifest' = [m EXCEPT !.host = p.host, !.build = p.build, !.started = TRUE]
             /\ daemon' = [host |-> p.host, build |-> p.build, epoch |-> m.epoch]
             /\ past' = IF stop THEN [past EXCEPT !.changes = Append(@, cleared)] ELSE past
    <3> HIDE DEF m
    <3>1. /\ manifest' \in Manifest /\ manifest'.host = p.host /\ manifest'.build = p.build
          /\ manifest'.epoch = m.epoch /\ manifest'.started /\ manifest'.control = m.control
          /\ manifest'.pending = m.pending
      BY <1>0, <2>1, <2>3 DEF Manifest
    <3> QED
      BY <2>1, <2>2, <2>3, <3>1
  <2>4. CASE /\ stop /\ daemon' = daemon
             /\ \/ manifest' = [manifest EXCEPT !.pending = NoEvent] /\ UNCHANGED past
                \/ manifest' = m /\ past' = [past EXCEPT !.changes = Append(@, cleared)]
    <3>1. /\ [manifest EXCEPT !.pending = NoEvent] \in Manifest
          /\ [manifest EXCEPT !.pending = NoEvent].host = manifest.host
          /\ [manifest EXCEPT !.pending = NoEvent].epoch = manifest.epoch
          /\ [manifest EXCEPT !.pending = NoEvent].control = manifest.control
          /\ [manifest EXCEPT !.pending = NoEvent].pending = NoEvent
      BY <1>0 DEF Manifest
    <3> HIDE DEF m
    <3> QED
      BY <1>1, <2>1, <2>2, <2>4, <3>1
  <2> QED
    BY <2>3, <2>4 DEF Start
<1>7. \/ past' = past /\ manifest'.control = manifest.control
      \/ past' = [changes |-> Append(past.changes, cleared)] /\ manifest'.control = NoControl /\ stop
  BY <1>6
<1>8. /\ past' \in [changes : Seq(FarmEvent)] /\ IsInjective(past'.changes)
      /\ \A id, k : Happened(id, k) => Happened(id, k)'
      /\ \A id, k : Happened(id, k)' => Happened(id, k) \/ (stop /\ id = manifest.control.id /\ k = "FARM_STOP_CLEARED")
      /\ past' = past => \A id, k : Happened(id, k)' <=> Happened(id, k)
  <2>1. CASE past' = past
    BY <1>0, <2>1 DEF Happened, History
  <2>2. CASE past' = [changes |-> Append(past.changes, cleared)] /\ stop
    <3>1. /\ past'.changes = Append(past.changes, cleared) /\ past.changes \in Seq(FarmEvent)
          /\ IsInjective(past.changes)
      BY <1>0, <2>2 DEF History
    <3>2. /\ past'.changes \in Seq(FarmEvent) /\ IsInjective(past'.changes)
          /\ \A x : x \in ToSet(past'.changes) <=> x \in ToSet(past.changes) \/ x = cleared
      BY <1>3, <2>2, <3>1, AppendNew
    <3>3. past' # past
      BY <1>3, <2>2, <3>2
    <3> QED
      BY <2>2, <3>2, <3>3 DEF Happened
  <2> QED
    BY <1>7, <2>1, <2>2
<1>9. TypeOK'
  <2>1. manifest' \in Manifest
    BY <1>6
  <2>2. daemon' \in [host : Hosts, build : Builds, epoch : HandoffIds \cup {"initial"}] \cup {NoDaemon}
    BY <1>0, <1>6 DEF Manifest
  <2>3. log' \in Seq(FarmEvent)
    BY <1>4
  <2> QED
    BY <1>0, <1>1, <1>5, <1>8, <2>1, <2>2, <2>3 DEF TypeOK, Budget
<1>10. ControlShape'
  BY <1>0, <1>7 DEF ControlShape
<1>11. History'
  <2>1. HandoffIds \cap StopIds = {}
    BY TurnoverAssumption
  <2> QED
    BY <1>0, <1>2, <1>3, <1>7, <1>8, <2>1 DEF History
<1>12. Audit'
  BY <1>4, <1>6 DEF Audit, Ahead
<1>13. EpochsUsed'
  BY <1>0, <1>1, <1>6, <1>8 DEF EpochsUsed, EpochUsed
<1>14. DaemonOfEpoch'
  BY <1>1, <1>6 DEF DaemonOfEpoch, Sealed
<1>15. Fleet'
  BY <1>0, <1>1, <1>6 DEF Fleet, Issued
<1>16. Pinned'
  BY <1>0, <1>1, <1>6 DEF Pinned
<1>17. ReleaseIsQuiet'
  BY <1>0, <1>2, <1>6, <1>7 DEF ReleaseIsQuiet, Sealed, HandedOver, ControlShape
<1> QED
  BY <1>9, <1>10, <1>11, <1>12, <1>13, <1>14, <1>15, <1>16, <1>17 DEF IInv

-----------------------------------------------------------------------------
(* The daemon, the Masters and the workers.                                 *)

\* The control and its history while only the farm moves.
LEMMA ControlStays ==
    ASSUME IInv, UNCHANGED <<ControlFiles, past>>
    PROVE  /\ ControlShape' /\ History' /\ Audit'
           /\ \A e : EpochUsed(e)' <=> EpochUsed(e)
           /\ Sealed' = Sealed /\ HandedOver' = HandedOver
BY DEF IInv, ControlFiles, ControlShape, History, Happened, Audit, Ahead, Behind, EpochUsed,
       Sealed, HandedOver

\* One worker changes, and is still of its host and epoch.
WorkerIs(w, x) ==
    /\ workers' \in Seq(WorkerType) /\ Len(workers') = Len(workers)
    /\ DOMAIN workers' = DOMAIN workers
    /\ \A v \in DOMAIN workers :
          /\ workers'[v].epoch = workers[v].epoch /\ workers'[v].host = workers[v].host
          /\ workers'[v].proc = IF v = w THEN x.proc ELSE workers[v].proc
LEMMA WorkerChanged ==
    ASSUME workers \in Seq(WorkerType), NEW w \in DOMAIN workers, NEW x \in WorkerType,
           x.epoch = workers[w].epoch, x.host = workers[w].host,
           workers' = [workers EXCEPT ![w] = x]
    PROVE  WorkerIs(w, x)
<1>1. w \in 1 .. Len(workers) /\ DOMAIN workers = 1 .. Len(workers)
  OBVIOUS
<1>4. /\ workers' \in Seq(WorkerType) /\ Len(workers') = Len(workers)
      /\ \A v \in 1 .. Len(workers) : workers'[v] = IF v = w THEN x ELSE workers[v]
  BY <1>1, ExceptSeq
<1>5. DOMAIN workers' = 1 .. Len(workers)
  BY <1>4
<1>6. ASSUME NEW v \in 1 .. Len(workers)
      PROVE  /\ workers'[v].epoch = workers[v].epoch /\ workers'[v].host = workers[v].host
             /\ workers'[v].proc = IF v = w THEN x.proc ELSE workers[v].proc
  <2>1. CASE v = w
    BY <1>4, <2>1
  <2>2. CASE v # w
    BY <1>4, <2>2
  <2> QED
    BY <2>1, <2>2
<1> QED
  BY <1>1, <1>4, <1>5, <1>6 DEF WorkerIs

\* A worker that may move does so in its epoch: nothing does on a quiet farm.
LEMMA WorkerMoves ==
    ASSUME IInv, NEW w \in DOMAIN workers, NEW x \in WorkerType,
           workers' = [workers EXCEPT ![w] = x],
           x.epoch = workers[w].epoch, x.host = workers[w].host,
           workers[w].epoch = manifest.epoch,
           x.proc = "dead" \/ ~(Sealed \/ HandedOver),
           UNCHANGED <<ControlFiles, past>>,
           tasks' = tasks
    PROVE  Fleet' /\ Pinned' /\ EpochsUsed' /\ ReleaseIsQuiet' /\ workers' \in Seq(WorkerType)
           /\ Len(workers') = Len(workers) /\ \A v \in DOMAIN workers : workers'[v].epoch = workers[v].epoch
<1>1. /\ workers' \in Seq(WorkerType) /\ Len(workers') = Len(workers)
      /\ DOMAIN workers' = DOMAIN workers
      /\ \A v \in DOMAIN workers :
            /\ workers'[v].epoch = workers[v].epoch /\ workers'[v].host = workers[v].host
            /\ workers'[v].proc = IF v = w THEN x.proc ELSE workers[v].proc
  <2>1. workers \in Seq(WorkerType)
    BY DEF IInv, TypeOK
  <2>2. WorkerIs(w, x)
    BY <2>1, WorkerChanged
  <2> QED
    BY <2>2 DEF WorkerIs
<1>2. Fleet'
  BY <1>1 DEF IInv, Fleet, Issued, ControlFiles
<1>3. Pinned'
  BY <1>1 DEF IInv, Pinned, ControlFiles
<1>4. EpochsUsed'
  BY <1>1, ControlStays DEF IInv, EpochsUsed, ControlFiles
<1>5. ReleaseIsQuiet'
  BY <1>1, ControlStays DEF IInv, ReleaseIsQuiet, ControlFiles
<1> QED
  BY <1>1, <1>2, <1>3, <1>4, <1>5

\* Commands that queue or give up, the end of the loop.
LEMMA IdleStep ==
    ASSUME IInv, (\E p \in Process : Ask(p)) \/ Refused \/ DaemonExits
    PROVE  IInv'
<1>1. /\ UNCHANGED <<ControlFiles, past, tasks, workers, sending, budget>>
      /\ command' \in Process \cup {Nobody} /\ daemon' \in {daemon, NoDaemon}
      /\ daemon' # daemon => sending = 0
  BY DEF IInv, TypeOK, Ask, Refused, DaemonExits, ControlFiles, Farm, MutationLock
<1>2. TypeOK'
  BY <1>1 DEF IInv, TypeOK, ControlFiles
<1>3. DaemonOfEpoch'
  BY <1>1, ControlStays DEF IInv, DaemonOfEpoch, ControlFiles
<1>4. Fleet' /\ Pinned' /\ EpochsUsed'
  BY <1>1, ControlStays DEF IInv, Fleet, Issued, Pinned, EpochsUsed, ControlFiles
<1>5. ReleaseIsQuiet'
  BY <1>1, ControlStays DEF IInv, ReleaseIsQuiet, ControlFiles
<1> QED
  BY <1>1, <1>2, <1>3, <1>4, <1>5, ControlStays DEF IInv

\* The command of a dispatch is out or not, whether the daemon lives or dies; a worker
\* starts, reports and ends.
WorkerMay(w) == WorkerStarts(w) \/ WorkerReports(w) \/ WorkerEnds(w)
LEMMA ProcessStep ==
    ASSUME IInv, KillDaemon \/ Sent \/ \E w \in DOMAIN workers : WorkerMay(w)
    PROVE  IInv'
<1>0. TypeOK /\ DaemonOfEpoch /\ Fleet /\ ReleaseIsQuiet
  BY DEF IInv
<1>1. /\ UNCHANGED <<ControlFiles, past, tasks, command>>
      /\ budget' = budget \/ Spend("crashes")
      /\ \/ daemon' = daemon /\ sending' = sending
         \/ daemon' = daemon /\ sending' = 0
         \/ daemon' = NoDaemon /\ sending' = 0
  BY DEF KillDaemon, Sent, WorkerMay, WorkerStarts, WorkerReports, WorkerEnds, ControlFiles
<1>2. budget' \in Budget
  BY <1>0, <1>1, SpendTypes DEF TypeOK, Budget
<1>3. CASE workers' = workers
  <2>1. TypeOK'
    BY <1>0, <1>1, <1>2, <1>3 DEF TypeOK, ControlFiles, Budget
  <2>2. DaemonOfEpoch'
    BY <1>0, <1>1, <1>3, ControlStays DEF DaemonOfEpoch, ControlFiles
  <2>3. Fleet' /\ Pinned' /\ EpochsUsed'
    BY <1>1, <1>3, ControlStays DEF IInv, Fleet, Issued, Pinned, EpochsUsed, ControlFiles
  <2>4. ReleaseIsQuiet'
    BY <1>1, <1>3, ControlStays DEF IInv, ReleaseIsQuiet, ControlFiles
  <2> QED
    BY <1>1, <2>1, <2>2, <2>3, <2>4, ControlStays DEF IInv
<1>4. CASE workers' # workers
  <2>0. sending # 0 => sending \in DOMAIN workers
    BY <1>0 DEF TypeOK
  <2>1. PICK w \in DOMAIN workers, proc \in {"unsent", "queued", "running", "dead"},
             receipt \in {"none", "final", "yield", "refused"} :
          /\ workers' = [workers EXCEPT ![w].proc = proc, ![w].receipt = receipt]
          /\ w = sending \/ workers[w].proc \in {"queued", "running"}
    <3>1. workers \in Seq(WorkerType)
      BY <1>0 DEF TypeOK
    <3>2. CASE KillDaemon
      BY <1>4, <2>0, <3>2 DEF KillDaemon, Attempted
    <3>3. CASE Sent
      BY <2>0, <3>3 DEF Sent, Attempted
    <3>4. CASE \E w \in DOMAIN workers : WorkerMay(w)
      <4>1. PICK w \in DOMAIN workers : WorkerMay(w)
        BY <3>4
      <4>2. PICK v \in WorkerType : v = workers[w]
        BY <3>1
      <4>3. v.proc \in {"queued", "running"}
        BY <4>1, <4>2 DEF WorkerMay, WorkerStarts, WorkerReports, WorkerEnds
      <4>4. /\ v.proc \in {"unsent", "queued", "running", "dead"}
            /\ v.receipt \in {"none", "final", "yield", "refused"}
        BY DEF WorkerType
      <4> DEFINE To(proc, receipt) == [v EXCEPT !.proc = proc, !.receipt = receipt]
      <4>5. /\ \A q : [v EXCEPT !.proc = q] = To(q, v.receipt)
            /\ \A q : [v EXCEPT !.receipt = q] = To(v.proc, q)
        BY DEF WorkerType
      <4>6. \/ \E q \in {"running", "dead"} : workers' = [workers EXCEPT ![w] = [v EXCEPT !.proc = q]]
            \/ \E q \in {"final", "yield", "refused"} :
                  workers' = [workers EXCEPT ![w] = [v EXCEPT !.receipt = q]]
        BY <4>1, <4>2 DEF WorkerMay, WorkerStarts, WorkerReports, WorkerEnds
      <4>7. PICK proc \in {"unsent", "queued", "running", "dead"},
                 receipt \in {"none", "final", "yield", "refused"} :
               workers' = [workers EXCEPT ![w] = To(proc, receipt)]
        <5> HIDE DEF To
        <5> QED
          BY <4>4, <4>5, <4>6
      <4>8. workers' = [workers EXCEPT ![w].proc = proc, ![w].receipt = receipt]
        BY <3>1, <4>2, <4>7
      <4> QED
        BY <4>2, <4>3, <4>8
    <3> QED
      BY <3>2, <3>3, <3>4
  <2>2. w # 0
    BY <1>0 DEF TypeOK
  <2>3. workers[w].epoch = manifest.epoch
    BY <1>0, <2>1, <2>2 DEF DaemonOfEpoch, Fleet
  <2>4. ~(Sealed \/ HandedOver)
    BY <1>0, <2>1, <2>2 DEF DaemonOfEpoch, ReleaseIsQuiet, HandedOver
  <2>5. PICK x : /\ x \in WorkerType /\ x.epoch = workers[w].epoch /\ x.host = workers[w].host
                 /\ workers' = [workers EXCEPT ![w] = x]
    <3>1. PICK v \in WorkerType : v = workers[w]
      BY <1>0 DEF TypeOK
    <3>2. PICK x : x = [v EXCEPT !.proc = proc, !.receipt = receipt]
      OBVIOUS
    <3>3. x \in WorkerType /\ x.epoch = v.epoch /\ x.host = v.host
      BY <3>2 DEF WorkerType
    <3>4. workers' = [workers EXCEPT ![w] = x]
      BY <2>1, <3>1, <3>2
    <3> QED
      BY <3>1, <3>3, <3>4
  <2>6. Fleet' /\ Pinned' /\ EpochsUsed' /\ ReleaseIsQuiet' /\ workers' \in Seq(WorkerType)
        /\ Len(workers') = Len(workers) /\ \A v \in DOMAIN workers : workers'[v].epoch = workers[v].epoch
    BY <1>1, <2>3, <2>4, <2>5, WorkerMoves
  <2>7. TypeOK'
    BY <1>0, <1>1, <1>2, <2>6 DEF TypeOK, ControlFiles, Budget
  <2>8. DaemonOfEpoch'
    BY <1>0, <1>1, <2>0, <2>6, ControlStays DEF DaemonOfEpoch, ControlFiles
  <2> QED
    BY <1>1, <2>6, <2>7, <2>8, ControlStays DEF IInv
<1> QED
  BY <1>3, <1>4

\* One task is written, and neither its epoch nor its workers change; it may give up its
\* lease.  Nothing is written on a sealed farm.
LEMMA TaskStep ==
    ASSUME IInv, NEW t \in Tasks, ApplyReceipt(t) \/ Surrender(t) \/ Decide(t)
    PROVE  IInv'
<1>0. TypeOK /\ DaemonOfEpoch /\ Fleet /\ ReleaseIsQuiet /\ tasks[t] \in TaskType
  BY DEF IInv, TypeOK
<1>1. /\ UNCHANGED <<ControlFiles, past, workers, daemon, sending>>
      /\ command' \in {command, Nobody}
      /\ budget' = budget \/ Spend("decisions")
      /\ ~Sealed
  <2>1. MayWrite(daemon, FALSE) \/ MayWrite(command, FALSE)
    BY DEF ApplyReceipt, Surrender, Decide, DaemonMayCommit
  <2> QED
    BY <2>1 DEF ApplyReceipt, Surrender, Decide, MayWrite, Sealed
<1>2. budget' \in Budget
  BY <1>0, <1>1, SpendTypes DEF TypeOK, Budget
<1>3. PICK state \in TaskState, rework \in BOOLEAN, checkpoint \in BOOLEAN, lease \in {0, tasks[t].lease},
           n \in Nat :
        tasks' = [tasks EXCEPT ![t] = [tasks[t] EXCEPT !.rev = n, !.state = state, !.lease = lease,
                                                       !.rework = rework, !.checkpoint = checkpoint]]
  <2>0. PICK r \in TaskType : r = tasks[t]
    BY <1>0
  <2> DEFINE To(state, lease, rework, checkpoint) ==
                [r EXCEPT !.rev = r.rev + 1, !.state = state, !.lease = lease, !.rework = rework,
                          !.checkpoint = checkpoint]
  <2>1. /\ r = [rev |-> r.rev, state |-> r.state, lease |-> r.lease, rework |-> r.rework,
                checkpoint |-> r.checkpoint, epoch |-> r.epoch, issued |-> r.issued]
        /\ r.state \in TaskState /\ r.rework \in BOOLEAN /\ r.checkpoint \in BOOLEAN /\ r.rev + 1 \in Nat
    BY DEF TaskType
  <2>2. /\ [[r EXCEPT !.state = "SUBMITTED", !.lease = 0] EXCEPT !.rev = r.rev + 1]
              = To("SUBMITTED", 0, r.rework, r.checkpoint)
        /\ \A c : [[r EXCEPT !.state = "WAITING", !.checkpoint = c] EXCEPT !.rev = r.rev + 1]
              = To("WAITING", r.lease, r.rework, c)
        /\ [[r EXCEPT !.lease = 0, !.checkpoint = FALSE] EXCEPT !.rev = r.rev + 1]
              = To(r.state, 0, r.rework, FALSE)
        /\ [[r EXCEPT !.state = "DONE"] EXCEPT !.rev = r.rev + 1]
              = To("DONE", r.lease, r.rework, r.checkpoint)
        /\ [[r EXCEPT !.rework = TRUE] EXCEPT !.rev = r.rev + 1]
              = To(r.state, r.lease, TRUE, r.checkpoint)
        /\ [[r EXCEPT !.checkpoint = TRUE] EXCEPT !.rev = r.rev + 1]
              = To(r.state, r.lease, r.rework, TRUE)
        /\ [r EXCEPT !.rev = r.rev + 1] = To(r.state, r.lease, r.rework, r.checkpoint)
    BY <2>1
  <2>3. {"SUBMITTED", "WAITING", "DONE"} \subseteq TaskState
    BY DEF TaskState
  <2> HIDE DEF To
  <2>4. \E state \in TaskState, rework \in BOOLEAN, checkpoint \in BOOLEAN, lease \in {0, r.lease} :
           tasks' = [tasks EXCEPT ![t] = To(state, lease, rework, checkpoint)]
    <3>1. CASE ApplyReceipt(t)
      <4>1. CASE Commit(t, [r EXCEPT !.state = "SUBMITTED", !.lease = 0])
        <5>1. tasks' = [tasks EXCEPT ![t] = To("SUBMITTED", 0, r.rework, r.checkpoint)]
          BY <2>0, <2>2, <4>1 DEF Commit
        <5> QED
          BY <2>1, <2>3, <5>1
      <4>2. ASSUME NEW c \in BOOLEAN, Commit(t, [r EXCEPT !.state = "WAITING", !.checkpoint = c])
            PROVE  \E state \in TaskState, rework \in BOOLEAN, checkpoint \in BOOLEAN, lease \in {0, r.lease} :
                      tasks' = [tasks EXCEPT ![t] = To(state, lease, rework, checkpoint)]
        <5>1. tasks' = [tasks EXCEPT ![t] = To("WAITING", r.lease, r.rework, c)]
          BY <2>0, <2>2, <4>2 DEF Commit
        <5> QED
          BY <2>1, <2>3, <5>1
      <4> QED
        BY <2>0, <3>1, <4>1, <4>2 DEF ApplyReceipt
    <3>2. CASE Surrender(t)
      <4>1. tasks' = [tasks EXCEPT ![t] = To(r.state, 0, r.rework, FALSE)]
        BY <2>0, <2>2, <3>2 DEF Surrender, Commit
      <4> QED
        BY <2>1, <4>1
    <3>3. CASE Decide(t)
      <4>1. \/ tasks' = [tasks EXCEPT ![t] = To("DONE", r.lease, r.rework, r.checkpoint)]
            \/ tasks' = [tasks EXCEPT ![t] = To(r.state, r.lease, TRUE, r.checkpoint)]
            \/ tasks' = [tasks EXCEPT ![t] = To(r.state, r.lease, r.rework, TRUE)]
            \/ tasks' = [tasks EXCEPT ![t] = To(r.state, r.lease, r.rework, r.checkpoint)]
        BY <2>0, <2>2, <3>3 DEF Decide, Commit
      <4> QED
        BY <2>1, <2>3, <4>1
    <3> QED
      BY <3>1, <3>2, <3>3
  <2>5. PICK state \in TaskState, rework \in BOOLEAN, checkpoint \in BOOLEAN, lease \in {0, r.lease} :
           tasks' = [tasks EXCEPT ![t] = To(state, lease, rework, checkpoint)]
    BY <2>4
  <2>6. PICK n \in Nat : n = r.rev + 1
    BY <2>1
  <2>7. tasks' = [tasks EXCEPT ![t] = [tasks[t] EXCEPT !.rev = n, !.state = state, !.lease = lease,
                                                       !.rework = rework, !.checkpoint = checkpoint]]
    BY <2>0, <2>5, <2>6 DEF To
  <2> QED
    BY <2>0, <2>7
<1>4. /\ tasks' \in [Tasks -> TaskType]
      /\ \A u \in Tasks : /\ tasks'[u].epoch = tasks[u].epoch /\ tasks'[u].issued = tasks[u].issued
                          /\ tasks'[u].lease \in {0, tasks[u].lease}
  <2>1. PICK y : y = [tasks[t] EXCEPT !.rev = n, !.state = state, !.lease = lease,
                                      !.rework = rework, !.checkpoint = checkpoint]
    OBVIOUS
  <2>2. lease \in Nat
    BY <1>0 DEF TaskType
  <2>3. y \in TaskType /\ y.epoch = tasks[t].epoch /\ y.issued = tasks[t].issued /\ y.lease = lease
    BY <1>0, <2>1, <2>2 DEF TaskType
  <2>4. tasks' = [tasks EXCEPT ![t] = y] /\ tasks \in [Tasks -> TaskType]
    BY <1>0, <1>3, <2>1 DEF TypeOK
  <2> QED
    BY <2>3, <2>4
<1>5. TypeOK'
  BY <1>0, <1>1, <1>2, <1>4 DEF TypeOK, ControlFiles, Budget
<1>6. DaemonOfEpoch'
  BY <1>0, <1>1, ControlStays DEF DaemonOfEpoch, ControlFiles
<1>7. Fleet'
  BY <1>0, <1>1, <1>4 DEF Fleet, Issued, ControlFiles
<1>8. Pinned' /\ EpochsUsed'
  BY <1>1, ControlStays DEF IInv, Pinned, EpochsUsed, ControlFiles
<1>9. ReleaseIsQuiet'
  BY <1>0, <1>1, <1>4, ControlStays DEF ReleaseIsQuiet, ControlFiles
<1> QED
  BY <1>1, <1>5, <1>6, <1>7, <1>8, <1>9, ControlStays DEF IInv

\* _start: the new worker is of the epoch and on the host of the daemon, and is among
\* those whose exit a release asks for.
LEMMA LaunchStep ==
    ASSUME IInv, NEW t \in Tasks, Launch(t)
    PROVE  IInv'
<1> DEFINE r == tasks[t]
<1>0. TypeOK /\ DaemonOfEpoch /\ Fleet /\ Pinned /\ EpochsUsed /\ r \in TaskType /\ manifest \in Manifest
  BY DEF IInv, TypeOK
<1>1. /\ daemon # NoDaemon /\ sending = 0 /\ ~Sealed /\ ~HandedOver
      /\ daemon.host = manifest.host /\ daemon.epoch = manifest.epoch
      /\ Spend("attempts") /\ UNCHANGED <<ControlFiles, daemon, command, past>>
  BY <1>0 DEF Launch, DaemonMayCommit, MutationLock, DaemonOfEpoch, HandedOver
<1>2. PICK w \in Nat \ {0} : w = Len(workers) + 1
  BY <1>0 DEF TypeOK
<1>3. PICK x \in WorkerType : x = [host |-> manifest.host, epoch |-> manifest.epoch,
                               proc |-> "unsent", receipt |-> "none"]
  BY <1>0 DEF Manifest, WorkerType
<1>4. PICK issued \in SUBSET Nat :
        issued = {w} \cup IF r.epoch = manifest.epoch THEN r.issued ELSE {}
  BY <1>0, <1>2 DEF TaskType
<1>5. PICK y \in TaskType :
        /\ y = [r EXCEPT !.state = "RUNNING", !.lease = w, !.rework = FALSE, !.checkpoint = FALSE,
                         !.epoch = manifest.epoch, !.issued = issued, !.rev = r.rev + 1]
        /\ y.lease = w /\ y.epoch = manifest.epoch /\ y.issued = issued
  <2>1. "RUNNING" \in TaskState /\ manifest.epoch \in HandoffIds \cup {"initial"}
    BY <1>0 DEF TaskState, Manifest
  <2>2. PICK n \in Nat : n = r.rev + 1
    BY <1>0 DEF TaskType
  <2>3. PICK y : y = [r EXCEPT !.state = "RUNNING", !.lease = w, !.rework = FALSE, !.checkpoint = FALSE,
                               !.epoch = manifest.epoch, !.issued = issued, !.rev = n]
    OBVIOUS
  <2>4. y \in TaskType /\ y.lease = w /\ y.epoch = manifest.epoch /\ y.issued = issued
    BY <1>0, <2>1, <2>3 DEF TaskType
  <2> QED
    BY <2>2, <2>3, <2>4
<1>6. /\ workers' = Append(workers, x) /\ sending' = w
      /\ tasks' = [tasks EXCEPT ![t] = y]
  BY <1>1, <1>2, <1>3, <1>4, <1>5 DEF Launch, Commit
<1>7. /\ workers' \in Seq(WorkerType) /\ Len(workers') = w /\ DOMAIN workers' = 1 .. w
      /\ DOMAIN workers = 1 .. w - 1
      /\ workers'[w] = x /\ \A v \in DOMAIN workers : workers'[v] = workers[v]
      /\ \A v \in 1 .. w : v \in DOMAIN workers \/ v = w
  BY <1>0, <1>2, <1>6 DEF TypeOK
<1>8. tasks' \in [Tasks -> TaskType] /\ tasks'[t] = y /\ \A u \in Tasks \ {t} : tasks'[u] = tasks[u]
  BY <1>0, <1>6 DEF TypeOK
<1>9. x.epoch = manifest.epoch /\ x.host = manifest.host
  BY <1>3
<1>10. TypeOK'
  <2>1. budget' \in Budget
    BY <1>0, <1>1, SpendTypes DEF TypeOK, Budget
  <2>2. sending' \in 0 .. Len(workers')
    BY <1>6, <1>7
  <2> QED
    BY <1>0, <1>1, <1>7, <1>8, <2>1, <2>2 DEF TypeOK, ControlFiles, Budget
<1>11. DaemonOfEpoch'
  BY <1>0, <1>1, <1>6, <1>7, <1>9, ControlStays DEF DaemonOfEpoch, ControlFiles
<1>12. Fleet'
  <2>1. ASSUME NEW v \in DOMAIN workers, Issued(v)
        PROVE  Issued(v)'
    <3>1. PICK u \in Tasks : tasks[u].epoch = manifest.epoch /\ v \in tasks[u].issued
      BY <2>1 DEF Issued
    <3>2. tasks'[u].epoch = manifest.epoch /\ v \in tasks'[u].issued
      BY <1>4, <1>5, <1>8, <3>1
    <3> QED
      BY <1>1, <3>2 DEF Issued, ControlFiles
  <2>2. Issued(w)'
    BY <1>1, <1>4, <1>5, <1>8 DEF Issued, ControlFiles
  <2>3. ASSUME NEW v \in DOMAIN workers'
        PROVE  IF workers'[v].epoch = manifest'.epoch THEN Issued(v)' ELSE workers'[v].proc = "dead"
    BY <1>0, <1>1, <1>7, <1>9, <2>1, <2>2 DEF Fleet, ControlFiles
  <2>4. ASSUME NEW u \in Tasks, tasks'[u].lease # 0
        PROVE  tasks'[u].lease \in DOMAIN workers' /\ workers'[tasks'[u].lease].epoch = manifest'.epoch
    <3>1. CASE u = t
      <4>1. tasks'[u].lease = w
        BY <1>5, <1>8, <3>1
      <4>2. w \in DOMAIN workers'
        BY <1>7
      <4>3. workers'[w].epoch = manifest.epoch
        BY <1>7, <1>9
      <4> QED
        BY <1>1, <4>1, <4>2, <4>3 DEF ControlFiles
    <3>2. CASE u # t
      BY <1>0, <1>1, <1>7, <1>8, <2>4, <3>2 DEF Fleet, ControlFiles
    <3> QED
      BY <3>1, <3>2
  <2> QED
    BY <2>3, <2>4 DEF Fleet
<1>13. Pinned'
  <2> SUFFICES ASSUME Policy = "pinned-host" PROVE Pinned'
    BY DEF Pinned
  <2>1. \A v \in DOMAIN workers : workers[v].epoch = manifest.epoch => workers[v].host = manifest.host
    BY <1>0 DEF Pinned
  <2>2. \A v \in DOMAIN workers' : workers'[v].epoch = manifest.epoch => workers'[v].host = manifest.host
    BY <1>7, <1>9, <2>1
  <2>3. ASSUME NEW u \in DOMAIN workers', NEW v \in DOMAIN workers', workers'[u].epoch = workers'[v].epoch
        PROVE  workers'[u].host = workers'[v].host
    <3>1. CASE u \in DOMAIN workers /\ v \in DOMAIN workers
      BY <1>0, <1>7, <2>3, <3>1 DEF Pinned
    <3>2. CASE u = w \/ v = w
      BY <1>7, <1>9, <2>2, <2>3, <3>2
    <3> QED
      BY <1>7, <3>1, <3>2
  <2> QED
    BY <1>1, <2>2, <2>3 DEF Pinned, ControlFiles
<1>14. EpochsUsed'
  BY <1>0, <1>1, <1>7, <1>9, ControlStays DEF EpochsUsed, ControlFiles
<1>15. ReleaseIsQuiet'
  BY <1>1, ControlStays DEF ReleaseIsQuiet
<1> QED
  BY <1>1, <1>10, <1>11, <1>12, <1>13, <1>14, <1>15, ControlStays DEF IInv

\* _resume: a lease is of the epoch of the daemon that resumes it.
LEMMA ResumeStep ==
    ASSUME IInv, NEW t \in Tasks, Resume(t)
    PROVE  IInv'
<1> DEFINE r == tasks[t]
<1>0. TypeOK /\ DaemonOfEpoch /\ Fleet /\ r \in TaskType
  BY DEF IInv, TypeOK
<1>1. /\ daemon # NoDaemon /\ ~Sealed /\ ~HandedOver
      /\ Spend("attempts") /\ UNCHANGED <<ControlFiles, daemon, command, past>>
      /\ r.lease # 0 /\ UNCHANGED workers /\ sending' = r.lease
  BY <1>0 DEF Resume, DaemonMayCommit, DaemonOfEpoch, HandedOver
<1>2. PICK w \in DOMAIN workers : w = r.lease /\ workers[w].epoch = manifest.epoch
  BY <1>0, <1>1 DEF Fleet
<1>3. /\ tasks' \in [Tasks -> TaskType]
      /\ \A u \in Tasks : /\ tasks'[u].epoch = tasks[u].epoch /\ tasks'[u].issued = tasks[u].issued
                          /\ tasks'[u].lease = tasks[u].lease
  <2>1. PICK y : /\ y = [r EXCEPT !.state = "RUNNING", !.checkpoint = FALSE, !.rev = r.rev + 1]
                 /\ y.epoch = r.epoch /\ y.issued = r.issued /\ y.lease = r.lease
                 /\ y \in TaskType
    <3>1. PICK n \in Nat : n = r.rev + 1
      BY <1>0 DEF TaskType
    <3>2. PICK y : y = [r EXCEPT !.state = "RUNNING", !.checkpoint = FALSE, !.rev = n]
      OBVIOUS
    <3>3. "RUNNING" \in TaskState
      BY DEF TaskState
    <3>4. y \in TaskType /\ y.epoch = r.epoch /\ y.issued = r.issued /\ y.lease = r.lease
      BY <1>0, <3>2, <3>3 DEF TaskType
    <3> QED
      BY <3>1, <3>2, <3>4
  <2>2. tasks' = [tasks EXCEPT ![t] = y] /\ tasks \in [Tasks -> TaskType]
    BY <1>0, <2>1 DEF Resume, Commit, TypeOK
  <2> QED
    BY <2>1, <2>2
<1>4. Fleet' /\ Pinned' /\ EpochsUsed' /\ ReleaseIsQuiet'
  <2>1. Fleet'
    BY <1>0, <1>1, <1>3 DEF Fleet, Issued, ControlFiles
  <2>2. Pinned' /\ EpochsUsed'
    BY <1>1, ControlStays DEF IInv, Pinned, EpochsUsed, ControlFiles
  <2>3. ReleaseIsQuiet'
    BY <1>1, ControlStays DEF ReleaseIsQuiet
  <2> QED
    BY <2>1, <2>2, <2>3
<1>5. TypeOK'
  <2>1. budget' \in Budget
    BY <1>0, <1>1, SpendTypes DEF TypeOK, Budget
  <2>2. sending' \in 0 .. Len(workers')
    BY <1>0, <1>1, <1>2 DEF TypeOK
  <2> QED
    <3>1. tasks' \in [Tasks -> TaskType] /\ workers' \in Seq(WorkerType)
      BY <1>0, <1>1, <1>3 DEF TypeOK
    <3>2. UNCHANGED <<manifest, log, archive, daemon, command, past>>
      BY <1>1 DEF ControlFiles
    <3> QED
      BY <1>0, <2>1, <2>2, <3>1, <3>2 DEF TypeOK, Budget
<1>6. DaemonOfEpoch'
  <2>1. /\ daemon = [host |-> manifest.host, build |-> manifest.build, epoch |-> manifest.epoch]
        /\ manifest.started
    BY <1>0, <1>1 DEF DaemonOfEpoch
  <2>2. sending' = w /\ workers'[w].epoch = manifest.epoch
    BY <1>1, <1>2, <1>4
  <2>3. manifest' = manifest /\ daemon' = daemon /\ Sealed' = Sealed
    BY <1>1, ControlStays DEF ControlFiles
  <2> QED
    BY <1>1, <2>1, <2>2, <2>3 DEF DaemonOfEpoch
<1> QED
  BY <1>1, <1>4, <1>5, <1>6, ControlStays DEF IInv

-----------------------------------------------------------------------------
(* The theorems.                                                            *)

\* A farm that has started once, without workers.
LEMMA InitIInv == Init => IInv
<1> SUFFICES ASSUME Init PROVE IInv
  OBVIOUS
<1>1. past.changes = <<>> /\ log = <<>> /\ workers = <<>> /\ ToSet(past.changes) = {}
  BY DEF Init, ToSet
<1>2. NoControl \in Control /\ NewTask \in TaskType
  BY DEF NoControl, Control, NewTask, TaskType, TaskState
<1>3. TypeOK
  <2>1. manifest \in Manifest
    BY <1>2, TurnoverAssumption DEF Init, Manifest
  <2> QED
    BY <1>2, <2>1, TurnoverAssumption, EmptySeq DEF Init, TypeOK
<1>4. ControlShape /\ Audit
  BY <1>1 DEF Init, ControlShape, Audit
<1>5. History
  BY <1>1 DEF Init, History, Happened, NoControl, IsInjective
<1>6. EpochsUsed /\ Fleet /\ Pinned
  BY <1>1 DEF Init, EpochsUsed, EpochUsed, Fleet, Pinned, NewTask
<1>7. DaemonOfEpoch /\ ReleaseIsQuiet
  BY DEF Init, DaemonOfEpoch, ReleaseIsQuiet, Sealed, HandedOver, NoControl
<1> QED
  BY <1>3, <1>4, <1>5, <1>6, <1>7 DEF IInv

\* Every step of the control plane and of the workers preserves the invariant.
LEMMA NextIInv == IInv /\ [Next]_vars => IInv'
<1> SUFFICES ASSUME IInv, [Next]_vars PROVE IInv'
  OBVIOUS
<1>1. CASE UNCHANGED vars
  <2>1. UNCHANGED <<ControlFiles, past, tasks, workers, daemon, sending, command, budget>>
    BY <1>1 DEF vars, ControlFiles
  <2>2. TypeOK' /\ DaemonOfEpoch' /\ Fleet' /\ Pinned' /\ EpochsUsed' /\ ReleaseIsQuiet'
    BY <2>1, ControlStays DEF IInv, TypeOK, DaemonOfEpoch, Fleet, Issued, Pinned, EpochsUsed,
                              ReleaseIsQuiet, ControlFiles
  <2> QED
    BY <2>1, <2>2, ControlStays DEF IInv
<1>2. ASSUME NEW p \in Process, Operators(p)
      PROVE  IInv'
  BY <1>2, DrainStep, ReleaseStep, ClaimStep, FinishStep, StartStep, IdleStep DEF Operators
<1>3. ASSUME NEW t \in Tasks, DaemonWork(t) \/ Decide(t)
      PROVE  IInv'
  BY <1>3, LaunchStep, ResumeStep, TaskStep DEF DaemonWork
<1> QED
  BY <1>1, <1>2, <1>3, StopDrainStep, FinishStep, IdleStep, ProcessStep DEF Next, WorkerMay

\* The strengthened invariant holds under every policy, whatever dies.
THEOREM Inductive == Spec => []IInv
BY InitIInv, NextIInv, PTL DEF Spec

\* Every variable has its type in every state of every instance.
THEOREM TypeCorrect == Spec => []TypeOK
<1>1. IInv => TypeOK
  BY DEF IInv
<1> QED
  BY <1>1, Inductive, PTL

\* A release certifies that the old plane is quiet, whatever the policy, and nothing
\* writes what it has sealed before the claim (turnover.py release_farm, claim_farm).
THEOREM ReleaseCertifies == Spec => []ReleaseIsQuiet
<1>1. IInv => ReleaseIsQuiet
  BY DEF IInv
<1> QED
  BY <1>1, Inductive, PTL

\* The audit log tells every change of the control, once and in order
\* (turnover.py finish_deployment_event, lifecycle.py clear_stop_control).
THEOREM ControlIsAudited == Spec => []ControlAudited
<1>1. IInv => ControlAudited
  <2> SUFFICES ASSUME IInv PROVE ControlAudited
    OBVIOUS
  <2> DEFINE n == Len(past.changes)
             cleared == [id |-> manifest.control.id, kind |-> "FARM_STOP_CLEARED"]
  <2>1. past.changes \in Seq(FarmEvent) /\ IsInjective(past.changes) /\ Audit
    BY DEF IInv, TypeOK, History
  <2>2. IsInjective(log)
    <3>1. CASE log = past.changes
      BY <2>1, <3>1
    <3>2. CASE Ahead
      <4>1. cleared \notin ToSet(past.changes) /\ cleared \in FarmEvent /\ log = Append(past.changes, cleared)
        BY <3>2 DEF IInv, Ahead, ControlShape, NoControl, History, Happened, FarmEvent, Kinds
      <4> QED
        BY <2>1, <4>1, AppendNew
    <3>3. CASE n > 0 /\ log = SubSeq(past.changes, 1, n - 1)
      BY <2>1, <3>3, AllButLast
    <3> QED
      BY <2>1, <3>1, <3>2, <3>3 DEF Audit, Behind
  <2>3. \/ log = past.changes
        \/ n > 0 /\ manifest.pending = past.changes[n] /\ log = SubSeq(past.changes, 1, n - 1)
        \/ manifest.control.kind = "stop" /\ log = Append(past.changes, cleared)
    BY <2>1 DEF Audit, Behind, Ahead
  <2>4. manifest.pending # NoEvent => n > 0 /\ manifest.pending = past.changes[n]
    BY <2>1 DEF Audit, Behind
  <2> QED
    BY <2>2, <2>3, <2>4 DEF ControlAudited
<1> QED
  BY <1>1, Inductive, PTL

\* Under the pinned-host policy an epoch belongs to one host, and what runs or may start is
\* on the deployment host (turnover.py drain_farm, provenance.py
\* require_compatible_writer).
THEOREM OneHostPerEpoch == Policy = "pinned-host" => (Spec => []EpochHasOneHost)
<1> SUFFICES ASSUME Policy = "pinned-host" PROVE Spec => []EpochHasOneHost
  OBVIOUS
<1>1. IInv => EpochHasOneHost
  BY DEF IInv, Pinned, Fleet, EpochHasOneHost
<1> QED
  BY <1>1, Inductive, PTL

\* A node handoff under way is only moved on (cmd_reconcile, require_task_writer).
THEOREM HandoffOnlyMovesOn == Spec => HandoffHolds
<1> DEFINE c == manifest.control
           Moves == c.kind = "handoff" /\ c.phase \in {"draining", "released"} =>
             \/ /\ manifest'.control = c \/ manifest'.control = [c EXCEPT !.phase = "released"]
                /\ manifest'.host = manifest.host /\ manifest'.build = manifest.build
                /\ manifest'.epoch = manifest.epoch
             \/ /\ c.phase = "released"
                /\ manifest'.control = [c EXCEPT !.phase = "claimed"]
                /\ manifest'.host = c.target /\ manifest'.epoch = c.id
                /\ manifest'.build = manifest.build
<1>1. IInv /\ [Next]_vars => [Moves]_vars
  <2> SUFFICES ASSUME IInv, [Next]_vars, c.kind = "handoff", c.phase \in {"draining", "released"} PROVE Moves
    OBVIOUS
  <2>0. manifest \in Manifest
    BY DEF IInv, TypeOK
  <2>1. CASE manifest' = manifest
    BY <2>1
  <2>2. CASE manifest' = [manifest EXCEPT !.pending = NoEvent]
    BY <2>0, <2>2 DEF Manifest
  <2>3. ASSUME NEW p \in Process, NEW kind, NEW m \in Manifest, Publish(p, m, kind)
        PROVE  \A f \in {"host", "build", "epoch", "control"} : manifest'[f] = m[f]
    BY <2>3 DEF Publish, Manifest
  <2>4. ASSUME NEW p \in Process, Release(p)
        PROVE  Moves
    <3> DEFINE m == [manifest EXCEPT !.control.phase = "released"]
    <3>1. /\ m \in Manifest /\ m.control = [c EXCEPT !.phase = "released"] /\ m.host = manifest.host
          /\ m.build = manifest.build /\ m.epoch = manifest.epoch
      BY <2>0 DEF Manifest, Control
    <3>2. CASE Publish(p, m, "FARM_RELEASED")
      <4> HIDE DEF m
      <4>1. \A f \in {"host", "build", "epoch", "control"} : manifest'[f] = m[f]
        BY <2>3, <3>1, <3>2
      <4> QED
        BY <3>1, <4>1
    <3> QED
      BY <2>2, <2>4, <3>2 DEF Release
  <2>5. ASSUME NEW p \in Process, Claim(p)
        PROVE  Moves
    <3> DEFINE m == [manifest EXCEPT !.host = p.host, !.started = FALSE, !.epoch = c.id,
                                     !.control.phase = "claimed"]
    <3>1. /\ c.phase = "released" /\ c.target = p.host /\ Publish(p, m, "FARM_CLAIMED") /\ c.id \in HandoffIds
          /\ p.host \in Hosts
      BY <2>5 DEF Claim, IInv, ControlShape, NoControl, Process
    <3>2. /\ m \in Manifest /\ m.control = [c EXCEPT !.phase = "claimed"] /\ m.host = p.host
          /\ m.build = manifest.build /\ m.epoch = c.id
      BY <2>0, <3>1 DEF Manifest, Control
    <3> HIDE DEF m
    <3>3. \A f \in {"host", "build", "epoch", "control"} : manifest'[f] = m[f]
      BY <2>3, <3>1, <3>2
    <3> QED
      BY <3>1, <3>2, <3>3
  <2>6. ASSUME NEW p \in Process, NEW upgrade \in BOOLEAN, Start(p, upgrade)
        PROVE  Moves
    <3> DEFINE m == [manifest EXCEPT !.pending = NoEvent]
    <3>1. /\ m \in Manifest /\ m.control = c /\ m.host = manifest.host /\ m.build = manifest.build
          /\ m.epoch = manifest.epoch
      BY <2>0 DEF Manifest
    <3>2. c # NoControl /\ c.kind # "stop" /\ c.phase # "claimed"
      BY DEF NoControl
    <3>3. [manifest EXCEPT !.pending = NoEvent, !.control = c] = m
      BY <2>0 DEF Manifest
    <3>4. /\ manifest.host = p.host /\ manifest.build = p.build
          /\ manifest' = [m EXCEPT !.host = p.host, !.build = p.build, !.started = TRUE]
      BY <2>6, <3>1, <3>2, <3>3 DEF Start
    <3> HIDE DEF m
    <3> QED
      BY <3>1, <3>4 DEF Manifest
  <2>7. (\E p \in Process, id \in HandoffIds, target \in Hosts : Drain(p, id, target)) => FALSE
    BY DEF Drain
  <2>8. (\E id \in StopIds : StopDrain(id)) => FALSE
    BY DEF StopDrain
  <2>9. ASSUME NEW p \in Process, Operators(p)
        PROVE  Moves
    BY <2>1, <2>2, <2>4, <2>5, <2>6, <2>7, <2>9
       DEF Operators, FinishOnly, FinishDies, Quit, Ask, ControlFiles
  <2> QED
    BY <2>1, <2>2, <2>8, <2>9
       DEF Next, vars, Refused, StopNow, DaemonExits, KillDaemon, Sent, DaemonWork, Launch, Resume,
           ApplyReceipt, Surrender, Decide, WorkerStarts, WorkerReports, WorkerEnds, ControlFiles
<1> QED
  BY <1>1, Inductive, PTL DEF Spec, HandoffHolds
=============================================================================
