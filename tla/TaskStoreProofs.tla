--------------------------- MODULE TaskStoreProofs ---------------------------
(***************************************************************************)
(* Theorems about TaskStore, for every set of processes and tasks and every *)
(* bound.                                                                   *)
(***************************************************************************)
EXTENDS TaskStore, TLAPS

-----------------------------------------------------------------------------
(* The inductive invariant.                                                 *)

\* The lock serializes the sections; a process asks for something exactly
\* while it is in commit() or recover().
LockControl ==
    /\ \A p \in Procs : pc[p] \in Sections <=> lock = p
    /\ \A p \in Procs : pc[p] = "idle" <=> req[p] = None

Redoing == {"fileSync", "append", "logSync", "unlink"}

\* What the holder of the lock knows of the journal at each of its steps.
JournalControl ==
    \A p \in Procs :
        /\ pc[p] \in Redoing \cup {"journalSync"} => journal # None
        /\ pc[p] \in {"unlinkSync", "check", "dispatch"} => journal = None

Control == TypeOK /\ LockControl /\ JournalControl

\* The journals a host failure may leave.
Journals == journalDisk \ {None}

\* What the next reader sees is one of the values a host failure may leave.
VisibleOnDisk ==
    /\ \A t \in Tasks : file[t] \in fileDisk[t]
    /\ journal \in journalDisk
    /\ log \in logDisk

\* A journal is one step of its task; no two have the same event id.
JournalsFresh ==
    /\ \A j \in Journals : j.id < nextId /\ j.after.rev = j.before.rev + 1
    /\ \A j, k \in Journals : j.id = k.id => j = k

\* An event that has the id of a journal is the event of that journal.
EventsFresh ==
    \A l \in logDisk : \A i \in DOMAIN l.recs :
        /\ l.recs[i].id < nextId
        /\ \A j \in Journals : l.recs[i].id = j.id => l.recs[i] = EventOf(j)

\* Only the task of the journal has two images on disk.
FilesSettled ==
    \A t \in Tasks :
        \/ fileDisk[t] = {file[t]}
        \/ /\ journal # None /\ journal.task = t
           /\ file[t] = journal.after
           /\ fileDisk[t] = {journal.before, journal.after}

\* A journal that is gone, or whose event is logged, was applied for good: its
\* task never falls back to the before-image.
Applied ==
    \A j \in Journals : (j # journal \/ \E l \in logDisk : j.id \in EventIds(l)) =>
        \A f \in fileDisk[j.task] : f.rev > j.before.rev

\* WorkspacesExclusive, of every image a host failure may leave.
Reserves(t) ==
    \/ \E f \in fileDisk[t] : f.state \in ReservedStates
    \/ /\ journal # None
       /\ journal.task = t
       /\ ~Conflicting(journal, file[t])
       /\ journal.after.state \in ReservedStates
ReservedOnDisk ==
    \A t, u \in Tasks :
        (t # u /\ Reserves(t) /\ Reserves(u) /\ WorkspaceOf[t] # NoWorkspace)
            => WorkspaceOf[t] # WorkspaceOf[u]

\* What is true of the storage whatever fails, and however often.
Disk ==
    /\ VisibleOnDisk /\ JournalsFresh /\ EventsFresh /\ FilesSettled /\ Applied
    /\ ReservedOnDisk /\ DispatchIsDurable

\* Where the holder of the lock is tells how far the redo has come.
Where ==
    \A p \in Procs :
        /\ pc[p] = "journalSync" => file[journal.task] = journal.before
        /\ pc[p] \in Redoing => file[journal.task] = journal.after
        /\ pc[p] \in {"append", "logSync", "unlink"} => fileDisk[journal.task] = {journal.after}
        /\ pc[p] \in {"logSync", "unlink"} => journal.id \in EventIds(log)
        /\ pc[p] = "unlink" => logDisk = {log}

\* What a request of each kind stands for.  A commit whose journal is written
\* owns that journal until the event is synced; from then on it is durable; and
\* nobody acted upon its revision yet.
RequestOK(p) ==
    /\ pc[p] = "queued" => req[p].kind # "written"
    /\ pc[p] \in {"check", "journalSync"} => req[p].kind = "commit"
    /\ pc[p] = "dispatch" => req[p].kind = "written"
    /\ (req[p] # None /\ req[p].kind # "recover" /\ req[p].before = NoRecord) => req[p].target = "READY"
Writing(p) == pc[p] = "journalSync" \/ (pc[p] \in Sections /\ req[p].kind = "written")
OwnsCommit(p) ==
    /\ \A i \in DOMAIN effects : effects[i].task = req[p].task => effects[i].rev <= req[p].before.rev
    /\ IF pc[p] \in {"unlinkSync", "dispatch"}
       THEN /\ file[req[p].task] = AfterOf(req[p])
            /\ Durable([task |-> req[p].task, rev |-> AfterOf(req[p]).rev])
       ELSE journal # None /\ journal.task = req[p].task /\ journal.after = AfterOf(req[p])
Own == \A p \in Procs : RequestOK(p) /\ (Writing(p) => OwnsCommit(p))

\* While no process dies, a file has several images on disk only while the
\* holder of the lock is about to sync it.
Orderly ==
    /\ (\A p \in Procs : pc[p] \notin {"journalSync", "unlinkSync"}) => journalDisk = {journal}
    /\ (\A p \in Procs : pc[p] # "logSync") => logDisk = {log}
    /\ \A p \in Procs :
          /\ pc[p] = "journalSync" => journalDisk \subseteq {None, journal}
          /\ pc[p] = "unlinkSync" =>
                \A j \in Journals : file[j.task] = j.after /\ j.id \in EventIds(log)
          /\ pc[p] = "logSync" =>
                \A l \in logDisk :
                    l.recs = log.recs \/ log.recs = Append(l.recs, EventOf(journal))

\* The audit trail of one image of the storage.  A journal is one step ahead of
\* the log, and of the record until recovery installs the after-image; its own
\* event is only in the log once it did.
JournalSound(files, j, l) ==
    j # None =>
        /\ files[j.task] \in {j.before, j.after}
        /\ \A i \in DOMAIN l.recs :
              IF l.recs[i].id = j.id
              THEN files[j.task] = j.after
              ELSE l.recs[i].task = j.task => l.recs[i].rev <= j.before.rev

LogSound(files, l) ==
    /\ \A i \in DOMAIN l.recs : l.recs[i].rev <= files[l.recs[i].task].rev
    /\ \A i, k \in DOMAIN l.recs :
          (i < k /\ l.recs[i].task = l.recs[k].task) => l.recs[i].rev < l.recs[k].rev

Audited(files, j, l) ==
    \A t \in Tasks : \A r \in 1..files[t].rev : InLog(l, t, r) \/ InJournal(j, t, r)

Sound(files, j, l) == JournalSound(files, j, l) /\ LogSound(files, l) /\ Audited(files, j, l)

IInv ==
    /\ Control /\ Disk /\ Where /\ Own
    /\ aborts = 0 => Orderly
    /\ FaultsOfOneKind => Sound(file, journal, log)


-----------------------------------------------------------------------------

\* What a process can do to the storage is one of these steps; the lemmas that
\* follow need only say what each of them does.
LEMMA NextCases ==
    ASSUME Next
    PROVE  \/ \E p \in Procs : \E t \in Tasks, s \in TaskState, d \in BOOLEAN :
                AskCommit(p, t, s, d)
           \/ \E p \in Procs : AskRecover(p)
           \/ \E p \in Procs : Acquire(p)
           \/ \E p \in Procs : Refused(p)
           \/ \E p \in Procs : RecoverNothing(p)
           \/ \E p \in Procs : RecoverRefuse(p)
           \/ \E p \in Procs : InstallAfter(p)
           \/ \E p \in Procs : SyncFile(p)
           \/ \E p \in Procs : AppendEvent(p)
           \/ \E p \in Procs : EventPresent(p)
           \/ \E p \in Procs : SyncLog(p)
           \/ \E p \in Procs : UnlinkJournal(p)
           \/ \E p \in Procs : SyncUnlink(p)
           \/ \E p \in Procs : Reject(p)
           \/ \E p \in Procs : WriteJournal(p)
           \/ \E p \in Procs : SyncJournal(p)
           \/ \E p \in Procs : Dispatch(p)
           \/ \E p \in Procs : Abort(p)
           \/ \E p \in Procs : AbortAppend(p)
           \/ RepairLog
           \/ HostLoss
  BY DEF Next, Ask, Locked, Redo

\* The facts about who is where hold at the start.
LEMMA InitControl == Init => Control
  BY StoreAssumption
  DEF Init, Control, TypeOK, LockControl, JournalControl, Record, NoRecord, Log,
      Sections, Redoing

\* A new journal is a journal: its after-image is one revision on.
LEMMA NewJournalType ==
    ASSUME NEW r \in Request, nextId \in Nat
    PROVE  /\ AfterOf(r) \in Record
           /\ NewJournal(r) \in Journal
           /\ NewJournal(r) # None
  BY NoneAssumption DEF AfterOf, NewJournal, Journal, Record, NoRecord, Request

\* A log with one more event is a log.
LEMMA AppendType ==
    ASSUME log \in Log, journal \in Journal
    PROVE  EventOf(journal) \in Event /\ Appended \in Log /\ TornAppend \in Log
  BY DEF Log, Event, Journal, EventOf, Appended, TornAppend, Record, NoRecord

\* The types of the variables that say where the processes are, and of those
\* that say what is stored.
ProcessOK ==
    /\ lock \in Procs \cup {None}
    /\ pc \in [Procs -> Sections \cup {"idle", "queued"}]
    /\ req \in [Procs -> Request \cup {None}]
    /\ LockControl

StorageOK ==
    /\ file \in [Tasks -> Record]
    /\ fileDisk \in [Tasks -> SUBSET Record]
    /\ journal \in Journal \cup {None}
    /\ journalDisk \subseteq Journal \cup {None}
    /\ log \in Log
    /\ logDisk \subseteq Log

CountersOK ==
    /\ nextId \in Nat
    /\ effects \in Seq([task : Tasks, rev : Nat])
    /\ aborts \in Nat /\ hostLosses \in Nat

\* Control falls apart into what processes, storage and counters must satisfy ...
LEMMA ControlParts ==
    Control <=> ProcessOK /\ StorageOK /\ CountersOK /\ JournalControl
  BY DEF Control, TypeOK, ProcessOK, StorageOK, CountersOK

\* ... and so does its next value.
LEMMA ControlPartsNext ==
    ProcessOK' /\ StorageOK' /\ CountersOK' /\ JournalControl' => Control'
  BY DEF Control, TypeOK, ProcessOK, StorageOK, CountersOK

\* Nobody else is in a section while p is; p has a request.
LEMMA Alone ==
    ASSUME ProcessOK, NEW p \in Procs, pc[p] \in Sections
    PROVE  /\ lock = p
           /\ req[p] \in Request
           /\ \A q \in Procs : pc[q] \in Sections => q = p
  BY DEF ProcessOK, LockControl, Sections

\* The holder of the lock goes on to its next section.
LEMMA GotoProcess ==
    ASSUME ProcessOK, NEW p \in Procs, NEW w \in Sections,
           pc[p] \in Sections, Goto(p, w)
    PROVE  /\ ProcessOK'
           /\ \A q \in Procs : pc'[q] \in Sections => q = p
           /\ pc'[p] = w
  BY Alone DEF ProcessOK, LockControl, Goto, Sections

\* A process gives up or ends; a lock it holds is free again.
LEMMA LeaveProcess ==
    ASSUME ProcessOK, NEW p \in Procs, pc[p] # "idle", Leave(p)
    PROVE  /\ ProcessOK'
           /\ \A q \in Procs : pc'[q] \in Sections => q # p /\ pc'[q] = pc[q]
<1> USE StoreAssumption, NoneAssumption
<1>1. pc' \in [Procs -> Sections \cup {"idle", "queued"}] /\ pc'[p] = "idle"
  BY DEF ProcessOK, Leave
<1>2. req' \in [Procs -> Request \cup {None}] /\ req'[p] = None
  BY DEF ProcessOK, Leave
<1>3. lock' \in Procs \cup {None} /\ lock' # p
  BY DEF ProcessOK, Leave
<1>4. \A q \in Procs : q # p => pc'[q] = pc[q] /\ req'[q] = req[q]
  BY DEF ProcessOK, Leave
<1>5. \A q \in Procs : q # p => (lock' = q <=> lock = q)
  BY DEF ProcessOK, Leave
<1>6. LockControl'
  BY <1>1, <1>2, <1>3, <1>4, <1>5 DEF ProcessOK, LockControl, Sections
<1> QED
  BY <1>1, <1>2, <1>3, <1>4, <1>6 DEF ProcessOK, Sections

\* Recovery returns to its caller: it leaves the lock or goes on to the commit.
LEMMA ReturnProcess ==
    ASSUME ProcessOK, NEW p \in Procs, pc[p] \in Sections, Return(p)
    PROVE  /\ ProcessOK'
           /\ \A q \in Procs : pc'[q] \in Sections => q = p
           /\ pc'[p] \in {"idle", "check", "dispatch"}
<1>1. CASE Leave(p)
  <2>1. pc'[p] = "idle"
    BY <1>1 DEF Leave, ProcessOK
  <2> QED
    BY <1>1, <2>1, LeaveProcess, Alone DEF Sections
<1>2. CASE Goto(p, "check") \/ Goto(p, "dispatch")
  BY <1>2, GotoProcess DEF Sections
<1> QED
  BY <1>1, <1>2 DEF Return

\* Every step of every process, and every fault, preserves Control.
LEMMA ControlStep ==
    ASSUME Control, [Next]_vars
    PROVE  Control'
<1> USE StoreAssumption, NoneAssumption
<1>0. ProcessOK /\ StorageOK /\ CountersOK /\ JournalControl
  BY ControlParts
<1> SUFFICES ProcessOK' /\ StorageOK' /\ CountersOK' /\ JournalControl'
  BY ControlPartsNext
<1>1. ASSUME NEW p \in Procs, NEW t \in Tasks, NEW s \in TaskState, NEW d \in BOOLEAN,
             AskCommit(p, t, s, d)
      PROVE  ProcessOK' /\ StorageOK' /\ CountersOK' /\ JournalControl'
  <2>1. [kind |-> "commit", task |-> t, before |-> file[t], target |-> s,
         dispatch |-> d] \in Request
    BY <1>0 DEF StorageOK, Request
  <2>2. ProcessOK' /\ \A q \in Procs : pc'[q] \in Sections => q # p /\ pc'[q] = pc[q]
    BY <1>0, <1>1, <2>1 DEF AskCommit, ProcessOK, LockControl, Sections
  <2> QED
    BY <1>0, <1>1, <2>2 DEF AskCommit, StorageOK, CountersOK, JournalControl, storage, counters, Sections, Redoing
<1>2. ASSUME NEW p \in Procs, AskRecover(p)
      PROVE  ProcessOK' /\ StorageOK' /\ CountersOK' /\ JournalControl'
  <2>1. PICK r \in Request : req' = [req EXCEPT ![p] = r]
    BY <1>2 DEF AskRecover, Request, Record, TaskState
  <2>2. ProcessOK' /\ \A q \in Procs : pc'[q] \in Sections => q # p /\ pc'[q] = pc[q]
    BY <1>0, <1>2, <2>1 DEF AskRecover, ProcessOK, LockControl, Sections
  <2> QED
    BY <1>0, <1>2, <2>2 DEF AskRecover, StorageOK, CountersOK, JournalControl, storage, counters, Sections, Redoing
<1>3. ASSUME NEW p \in Procs, Acquire(p)
      PROVE  ProcessOK' /\ StorageOK' /\ CountersOK' /\ JournalControl'
  BY <1>0, <1>3 DEF Acquire, ProcessOK, LockControl, StorageOK, CountersOK, JournalControl, storage, counters, Sections, Redoing
<1>4. ASSUME NEW p \in Procs, Refused(p) \/ RecoverRefuse(p) \/ Reject(p) \/ Abort(p)
      PROVE  ProcessOK' /\ StorageOK' /\ CountersOK' /\ JournalControl'
  <2>1. pc[p] # "idle" /\ Leave(p) /\ UNCHANGED <<storage, nextId, effects, hostLosses>> /\ aborts' \in Nat
    BY <1>0, <1>4 DEF Refused, RecoverRefuse, Reject, Abort, Sections, counters, CountersOK
  <2>2. ProcessOK' /\ \A q \in Procs : pc'[q] \in Sections => q # p /\ pc'[q] = pc[q]
    BY <1>0, <2>1, LeaveProcess
  <2> QED
    BY <1>0, <2>1, <2>2 DEF StorageOK, CountersOK, JournalControl, storage, Sections, Redoing
<1>5. ASSUME NEW p \in Procs, RecoverNothing(p)
      PROVE  ProcessOK' /\ StorageOK' /\ CountersOK' /\ JournalControl'
  <2>1. pc[p] \in Sections
    BY <1>5 DEF RecoverNothing, Sections
  <2>2. /\ ProcessOK'
        /\ \A q \in Procs : pc'[q] \in Sections => q = p
        /\ pc'[p] \in {"idle", "check", "dispatch"}
    BY <1>0, <1>5, <2>1, ReturnProcess DEF RecoverNothing
  <2> QED
    BY <1>0, <1>5, <2>2 DEF RecoverNothing, StorageOK, CountersOK, JournalControl, storage, counters, Sections, Redoing
<1>6. ASSUME NEW p \in Procs, InstallAfter(p)
      PROVE  ProcessOK' /\ StorageOK' /\ CountersOK' /\ JournalControl'
  <2>1. journal.task \in Tasks /\ journal.after \in Record
    BY <1>0, <1>6 DEF InstallAfter, StorageOK, Journal
  <2>2. ProcessOK' /\ (\A q \in Procs : pc'[q] \in Sections => q = p) /\ pc'[p] = "fileSync"
    BY <1>0, <1>6, GotoProcess DEF InstallAfter, Sections
  <2>3. file' \in [Tasks -> Record] /\ fileDisk' \in [Tasks -> SUBSET Record]
    BY <1>0, <1>6, <2>1 DEF InstallAfter, StorageOK
  <2> QED
    BY <1>0, <1>6, <2>2, <2>3 DEF InstallAfter, StorageOK, CountersOK, JournalControl, counters, Sections, Redoing
<1>7. ASSUME NEW p \in Procs, SyncFile(p)
      PROVE  ProcessOK' /\ StorageOK' /\ CountersOK' /\ JournalControl'
  <2>1. journal \in Journal /\ journal # None
    BY <1>0, <1>7 DEF SyncFile, StorageOK, JournalControl, Redoing
  <2>2. ProcessOK' /\ (\A q \in Procs : pc'[q] \in Sections => q = p) /\ pc'[p] = "append"
    BY <1>0, <1>7, GotoProcess DEF SyncFile, Sections
  <2>3. fileDisk' \in [Tasks -> SUBSET Record]
    BY <1>0, <1>7, <2>1 DEF SyncFile, StorageOK, Journal
  <2> QED
    BY <1>0, <1>7, <2>1, <2>2, <2>3 DEF SyncFile, StorageOK, CountersOK, JournalControl, counters, Sections, Redoing
<1>8. ASSUME NEW p \in Procs, AppendEvent(p)
      PROVE  ProcessOK' /\ StorageOK' /\ CountersOK' /\ JournalControl'
  <2>1. journal \in Journal /\ journal # None
    BY <1>0, <1>8 DEF AppendEvent, StorageOK, JournalControl, Redoing
  <2>2. ProcessOK' /\ (\A q \in Procs : pc'[q] \in Sections => q = p) /\ pc'[p] = "logSync"
    BY <1>0, <1>8, GotoProcess DEF AppendEvent, Sections
  <2>3. log' \in Log /\ logDisk' \subseteq Log
    BY <1>0, <1>8, <2>1, AppendType DEF AppendEvent, StorageOK
  <2> QED
    BY <1>0, <1>8, <2>1, <2>2, <2>3 DEF AppendEvent, StorageOK, CountersOK, JournalControl, counters, Sections, Redoing
<1>9. ASSUME NEW p \in Procs, EventPresent(p)
      PROVE  ProcessOK' /\ StorageOK' /\ CountersOK' /\ JournalControl'
  <2>1. ProcessOK' /\ (\A q \in Procs : pc'[q] \in Sections => q = p) /\ pc'[p] = "logSync"
    BY <1>0, <1>9, GotoProcess DEF EventPresent, Sections
  <2> QED
    BY <1>0, <1>9, <2>1 DEF EventPresent, StorageOK, CountersOK, JournalControl, storage, counters, Sections, Redoing
<1>10. ASSUME NEW p \in Procs, SyncLog(p)
       PROVE  ProcessOK' /\ StorageOK' /\ CountersOK' /\ JournalControl'
  <2>1. ProcessOK' /\ (\A q \in Procs : pc'[q] \in Sections => q = p) /\ pc'[p] = "unlink"
    BY <1>0, <1>10, GotoProcess DEF SyncLog, Sections
  <2> QED
    BY <1>0, <1>10, <2>1 DEF SyncLog, StorageOK, CountersOK, JournalControl, counters, Sections, Redoing
<1>11. ASSUME NEW p \in Procs, UnlinkJournal(p)
       PROVE  ProcessOK' /\ StorageOK' /\ CountersOK' /\ JournalControl'
  <2>1. ProcessOK' /\ (\A q \in Procs : pc'[q] \in Sections => q = p) /\ pc'[p] = "unlinkSync"
    BY <1>0, <1>11, GotoProcess DEF UnlinkJournal, Sections
  <2> QED
    BY <1>0, <1>11, <2>1 DEF UnlinkJournal, StorageOK, CountersOK, JournalControl, counters, Sections, Redoing
<1>12. ASSUME NEW p \in Procs, SyncUnlink(p)
       PROVE  ProcessOK' /\ StorageOK' /\ CountersOK' /\ JournalControl'
  <2>1. pc[p] \in Sections /\ journal = None
    BY <1>0, <1>12 DEF SyncUnlink, Sections, JournalControl
  <2>2. /\ ProcessOK'
        /\ \A q \in Procs : pc'[q] \in Sections => q = p
        /\ pc'[p] \in {"idle", "check", "dispatch"}
    BY <1>0, <1>12, <2>1, ReturnProcess DEF SyncUnlink
  <2> QED
    BY <1>0, <1>12, <2>1, <2>2 DEF SyncUnlink, StorageOK, CountersOK, JournalControl, counters, Sections, Redoing
<1>13. ASSUME NEW p \in Procs, WriteJournal(p)
       PROVE  ProcessOK' /\ StorageOK' /\ CountersOK' /\ JournalControl'
  <2>1. NewJournal(req[p]) \in Journal /\ NewJournal(req[p]) # None
    BY <1>0, <1>13, Alone, NewJournalType DEF WriteJournal, Sections, CountersOK
  <2>2. ProcessOK' /\ (\A q \in Procs : pc'[q] \in Sections => q = p) /\ pc'[p] = "journalSync"
    BY <1>0, <1>13, GotoProcess DEF WriteJournal, Sections
  <2> QED
    BY <1>0, <1>13, <2>1, <2>2 DEF WriteJournal, StorageOK, CountersOK, JournalControl, counters, Sections, Redoing
<1>14. ASSUME NEW p \in Procs, SyncJournal(p)
       PROVE  ProcessOK' /\ StorageOK' /\ CountersOK' /\ JournalControl'
  <2>1. req[p] \in Request /\ (\A q \in Procs : pc[q] \in Sections => q = p) /\ lock = p
    BY <1>0, <1>14, Alone DEF SyncJournal, Sections
  <2>2. [req[p] EXCEPT !.kind = "written"] \in Request
    BY <2>1 DEF Request
  <2>3. /\ req' = [req EXCEPT ![p] = [req[p] EXCEPT !.kind = "written"]]
        /\ req'[p] # None
    BY <1>0, <1>14, <2>2 DEF SyncJournal, ProcessOK
  <2>4. ProcessOK' /\ (\A q \in Procs : pc'[q] \in Sections => q = p) /\ pc'[p] = "recover"
    BY <1>0, <1>14, <2>1, <2>2, <2>3 DEF SyncJournal, Sections, ProcessOK, LockControl
  <2> QED
    BY <1>0, <1>14, <2>4 DEF SyncJournal, StorageOK, CountersOK, JournalControl, counters, Sections, Redoing
<1>15. ASSUME NEW p \in Procs, Dispatch(p)
       PROVE  ProcessOK' /\ StorageOK' /\ CountersOK' /\ JournalControl'
  <2>1. ProcessOK' /\ \A q \in Procs : pc'[q] \in Sections => q # p /\ pc'[q] = pc[q]
    BY <1>0, <1>15, LeaveProcess DEF Dispatch
  <2>2. [task |-> req[p].task, rev |-> AfterOf(req[p]).rev] \in [task : Tasks, rev : Nat]
    BY <1>0, <1>15, Alone DEF Dispatch, Sections, Request, AfterOf, Record, NoRecord
  <2>3. effects' \in Seq([task : Tasks, rev : Nat])
    BY <1>0, <1>15, <2>2 DEF Dispatch, CountersOK
  <2> QED
    BY <1>0, <1>15, <2>1, <2>3 DEF Dispatch, StorageOK, CountersOK, JournalControl, storage, counters, Sections, Redoing
<1>16. ASSUME NEW p \in Procs, AbortAppend(p)
       PROVE  ProcessOK' /\ StorageOK' /\ CountersOK' /\ JournalControl'
  <2>1. ProcessOK' /\ \A q \in Procs : pc'[q] \in Sections => q # p /\ pc'[q] = pc[q]
    BY <1>0, <1>16, LeaveProcess DEF AbortAppend
  <2>2. TornAppend \in Log
    BY <1>0 DEF StorageOK, TornAppend, Log
  <2> QED
    BY <1>0, <1>16, <2>1, <2>2 DEF AbortAppend, StorageOK, CountersOK, JournalControl, Sections, Redoing
<1>17. ASSUME RepairLog
       PROVE  ProcessOK' /\ StorageOK' /\ CountersOK' /\ JournalControl'
  <2>1. log' \in Log /\ logDisk' \subseteq Log
    BY <1>0, <1>17 DEF RepairLog, StorageOK, Log
  <2> QED
    BY <1>0, <1>17, <2>1 DEF RepairLog, ProcessOK, LockControl, StorageOK, CountersOK, JournalControl, counters
<1>18. ASSUME HostLoss
       PROVE  ProcessOK' /\ StorageOK' /\ CountersOK' /\ JournalControl'
  <2>1. file' \in [Tasks -> Record]
    BY <1>0, <1>18 DEF HostLoss, StorageOK
  <2>2. journal' \in Journal \cup {None} /\ log' \in Log
    BY <1>0, <1>18 DEF HostLoss, StorageOK
  <2>3. StorageOK'
    BY <1>18, <2>1, <2>2 DEF HostLoss, StorageOK
  <2> QED
    BY <1>0, <1>18, <2>3 DEF HostLoss, ProcessOK, LockControl, CountersOK, JournalControl, Sections, Redoing
<1>19. ASSUME UNCHANGED vars
       PROVE  ProcessOK' /\ StorageOK' /\ CountersOK' /\ JournalControl'
  BY <1>0, <1>19 DEF vars, storage, counters, ProcessOK, LockControl, StorageOK, CountersOK, JournalControl
<1> QED
  BY NextCases, <1>1, <1>2, <1>3, <1>4, <1>5, <1>6, <1>7, <1>8, <1>9, <1>10, <1>11,
     <1>12, <1>13, <1>14, <1>15, <1>16, <1>17, <1>18, <1>19

\* Every variable of the store has its type in every state of every instance
\* (store.py:54-166).
THEOREM TypeCorrect == Spec => []TypeOK
<1>1. Init => Control
  BY InitControl
<1>2. Control /\ [Next]_vars => Control'
  BY ControlStep
<1>3. Control => TypeOK
  BY DEF Control
<1> QED
  BY <1>1, <1>2, <1>3, PTL DEF Spec


-----------------------------------------------------------------------------
(* The storage, whatever fails.                                             *)

\* Everything that is stored, or may be on disk, has the types of StorageOK.
LEMMA StorageTypes ==
    ASSUME StorageOK
    PROVE  /\ \A t \in Tasks : file[t] \in Record /\ file[t].rev \in Nat
           /\ \A t \in Tasks : \A f \in fileDisk[t] : f \in Record /\ f.rev \in Nat
           /\ \A j \in Journals \cup ({journal} \ {None}) :
                /\ j \in Journal /\ j # None /\ j.task \in Tasks /\ j.id \in Nat
                /\ j.before \in Record /\ j.after \in Record
                /\ j.before.rev \in Nat /\ j.after.rev \in Nat
           /\ \A l \in logDisk \cup {log} :
                /\ l \in Log /\ l.recs \in Seq(Event)
                /\ \A i \in DOMAIN l.recs :
                      /\ l.recs[i] \in Event /\ l.recs[i].id \in Nat
                      /\ l.recs[i].task \in Tasks /\ l.recs[i].rev \in Nat
<1>1. \A r \in Record : r.rev \in Nat
  BY DEF Record, NoRecord
<1>2. /\ \A t \in Tasks : file[t] \in Record
      /\ \A t \in Tasks : \A f \in fileDisk[t] : f \in Record
  BY DEF StorageOK
<1>3. \A j \in Journals \cup ({journal} \ {None}) : j \in Journal /\ j # None
  BY NoneAssumption DEF StorageOK, Journals
<1>4. \A j \in Journal : j.task \in Tasks /\ j.id \in Nat /\ j.before \in Record /\ j.after \in Record
  BY DEF Journal
<1>5. \A l \in logDisk \cup {log} : l \in Log
  BY DEF StorageOK
<1>6. ASSUME NEW l \in Log
      PROVE  /\ l.recs \in Seq(Event)
             /\ \A i \in DOMAIN l.recs :
                   /\ l.recs[i] \in Event /\ l.recs[i].id \in Nat
                   /\ l.recs[i].task \in Tasks /\ l.recs[i].rev \in Nat
  <2>1. l.recs \in Seq(Event)
    BY DEF Log
  <2>2. \A i \in DOMAIN l.recs : l.recs[i] \in Event
    BY <2>1
  <2> QED
    BY <2>1, <2>2 DEF Event
<1> QED
  BY <1>1, <1>2, <1>3, <1>4, <1>5, <1>6

\* The members of a sequence over a set are in the set.
LEMMA SeqMember ==
    ASSUME NEW S, NEW s \in Seq(S)
    PROVE  \A i \in DOMAIN s : s[i] \in S
  OBVIOUS

\* The dispatches name tasks and revisions.
LEMMA EffectTypes ==
    ASSUME CountersOK
    PROVE  \A i \in DOMAIN effects : effects[i].task \in Tasks /\ effects[i].rev \in Nat
<1>1. effects \in Seq([task : Tasks, rev : Nat])
  BY DEF CountersOK
<1>2. \A i \in DOMAIN effects : effects[i] \in [task : Tasks, rev : Nat]
  BY <1>1, SeqMember
<1> QED
  BY <1>2

\* A step that leaves the visible storage as it is and only narrows what a host
\* failure may leave of it; a torn tail of the log makes no difference.
LEMMA NarrowStep ==
    ASSUME StorageOK, CountersOK, Disk, UNCHANGED <<file, journal, nextId, effects>>,
           log'.recs = log.recs, log' \in logDisk',
           fileDisk' \in [Tasks -> SUBSET Record],
           \A t \in Tasks : fileDisk'[t] = fileDisk[t] \/ fileDisk'[t] = {file[t]},
           journal \in journalDisk', journalDisk' \subseteq journalDisk,
           \A l \in logDisk' : \E m \in logDisk : l.recs = m.recs
    PROVE  Disk'
<1>1. /\ \A t \in Tasks : fileDisk'[t] \subseteq fileDisk[t] /\ file[t] \in fileDisk'[t]
      /\ Journals' \subseteq Journals
  BY DEF Disk, VisibleOnDisk, Journals
<1>2. \A l \in logDisk' : \E m \in logDisk :
         /\ l.recs = m.recs
         /\ EventIds(l) = EventIds(m)
         /\ \A t, r : InLog(m, t, r) => InLog(l, t, r)
  BY DEF EventIds, InLog
<1>3. VisibleOnDisk' /\ JournalsFresh' /\ FilesSettled'
  BY <1>1 DEF Disk, VisibleOnDisk, JournalsFresh, FilesSettled
<1>4. EventsFresh'
  BY <1>1, <1>2 DEF Disk, EventsFresh
<1>5. Applied'
  BY <1>1, <1>2, StorageTypes DEF Disk, Applied
<1>6. ReservedOnDisk'
  <2>1. \A t \in Tasks : Reserves(t)' => Reserves(t)
    BY <1>1 DEF Reserves, Conflicting
  <2> QED
    BY <2>1 DEF Disk, ReservedOnDisk
<1>7. DispatchIsDurable'
  <2> SUFFICES ASSUME NEW i \in DOMAIN effects
               PROVE  Durable(effects[i])'
    BY DEF DispatchIsDurable
  <2>1. Durable(effects[i]) /\ effects[i].task \in Tasks
    BY EffectTypes DEF Disk, DispatchIsDurable
  <2> QED
    BY <1>1, <1>2, <2>1 DEF Durable
<1> QED
  BY <1>3, <1>4, <1>5, <1>6, <1>7 DEF Disk

\* Recovery renames the after-image into place.
LEMMA InstallDisk ==
    ASSUME StorageOK, CountersOK, Disk, NEW p \in Procs, InstallAfter(p)
    PROVE  Disk'
<1> DEFINE t == journal.task
<1>1. /\ journal \in Journals /\ t \in Tasks
      /\ file' = [file EXCEPT ![t] = journal.after]
      /\ fileDisk' = [fileDisk EXCEPT ![t] = @ \cup {journal.after}]
      /\ file[t] \in {journal.before, journal.after}
      /\ file[t] \in fileDisk[t]
      /\ UNCHANGED <<journal, journalDisk, Journals, log, logDisk, nextId, effects>>
  BY StorageTypes DEF InstallAfter, Disk, VisibleOnDisk, Conflicting, Journals
<1>2. /\ file'[t] = journal.after /\ fileDisk'[t] = fileDisk[t] \cup {journal.after}
      /\ \A u \in Tasks : u # t => file'[u] = file[u] /\ fileDisk'[u] = fileDisk[u]
      /\ journal.after.rev = journal.before.rev + 1
      /\ journal.before.rev \in Nat /\ file[t].rev \in Nat /\ journal.after.rev >= file[t].rev
  BY <1>1, StorageTypes DEF StorageOK, Disk, JournalsFresh
<1>3. VisibleOnDisk' /\ JournalsFresh' /\ EventsFresh'
  BY <1>1, <1>2 DEF Disk, VisibleOnDisk, JournalsFresh, EventsFresh
<1>4. FilesSettled'
  <2> SUFFICES ASSUME NEW u \in Tasks
               PROVE  \/ fileDisk'[u] = {file'[u]}
                      \/ /\ journal.task = u
                         /\ file'[u] = journal.after
                         /\ fileDisk'[u] = {journal.before, journal.after}
    BY <1>1, StorageTypes DEF FilesSettled
  <2>1. \/ fileDisk[u] = {file[u]}
        \/ /\ journal.task = u
           /\ file[u] = journal.after
           /\ fileDisk[u] = {journal.before, journal.after}
    BY DEF Disk, FilesSettled
  <2> QED
    BY <1>1, <1>2, <2>1
<1>5. Applied'
  <2> SUFFICES ASSUME NEW j \in Journals, j # journal \/ \E l \in logDisk : j.id \in EventIds(l),
                      NEW f \in fileDisk'[j.task]
               PROVE  f.rev > j.before.rev
    BY <1>1 DEF Applied
  <2>1. \A g \in fileDisk[j.task] : g.rev > j.before.rev
    BY DEF Disk, Applied
  <2>2. CASE f \in fileDisk[j.task]
    BY <2>1, <2>2
  <2>3. CASE f \notin fileDisk[j.task]
    <3>1. f = journal.after /\ j.task = t /\ j.before.rev \in Nat
      BY <1>1, <1>2, <2>3, StorageTypes
    <3>2. file[t].rev > j.before.rev
      BY <1>1, <2>1, <3>1
    <3> QED
      BY <1>2, <3>1, <3>2
  <2> QED
    BY <2>2, <2>3
<1>6. ReservedOnDisk'
  <2>1. \A u \in Tasks : Reserves(u)' => Reserves(u)
    BY <1>1, <1>2, StorageTypes DEF Reserves, Conflicting
  <2> QED
    BY <2>1 DEF Disk, ReservedOnDisk
<1>7. DispatchIsDurable'
  <2> SUFFICES ASSUME NEW i \in DOMAIN effects
               PROVE  Durable(effects[i])'
    BY <1>1 DEF DispatchIsDurable
  <2>1. Durable(effects[i]) /\ effects[i].task \in Tasks /\ effects[i].rev \in Nat
    BY EffectTypes DEF Disk, DispatchIsDurable
  <2>2. \A f \in fileDisk'[effects[i].task] : f.rev >= effects[i].rev
    <3> SUFFICES ASSUME NEW f \in fileDisk'[effects[i].task], f \notin fileDisk[effects[i].task]
                 PROVE  f.rev >= effects[i].rev
      BY <2>1 DEF Durable
    <3>1. effects[i].task = t /\ f = journal.after
      BY <1>2, <2>1
    <3> QED
      BY <1>1, <1>2, <2>1, <3>1 DEF Durable
  <2> QED
    BY <1>1, <2>1, <2>2 DEF Durable
<1> QED
  BY <1>3, <1>4, <1>5, <1>6, <1>7 DEF Disk

\* The event is appended once its record is durable.
LEMMA AppendDisk ==
    ASSUME Control, Disk, Where, NEW p \in Procs, AppendEvent(p)
    PROVE  Disk'
<1> DEFINE e == EventOf(journal)
           n == Len(log.recs)
<1>1. /\ StorageOK /\ CountersOK /\ journal # None
      /\ log' = Appended /\ logDisk' = logDisk \cup {TornAppend, Appended}
      /\ UNCHANGED <<file, fileDisk, journal, journalDisk, Journals, nextId, effects>>
      /\ fileDisk[journal.task] = {journal.after}
  BY ControlParts DEF AppendEvent, JournalControl, Redoing, Where, Journals
<1>2. /\ journal \in Journals /\ e.id = journal.id /\ e.id < nextId /\ e.id \in Nat
      /\ journal.after.rev = journal.before.rev + 1 /\ journal.before.rev \in Nat
      /\ log \in logDisk
  BY <1>1, StorageTypes DEF Disk, VisibleOnDisk, JournalsFresh, Journals, EventOf
<1>3. /\ log.recs \in Seq(Event) /\ e \in Event /\ Appended.recs = Append(log.recs, e)
      /\ TornAppend.recs = log.recs
  BY <1>1, <1>2, StorageTypes, AppendType DEF Appended, TornAppend
<1>4. /\ DOMAIN log.recs = 1..n /\ n \in Nat /\ DOMAIN Appended.recs = 1..(n + 1)
      /\ \A i \in 1..n : Appended.recs[i] = log.recs[i]
      /\ Appended.recs[n + 1] = e
  BY <1>3
<1>5. \A l \in logDisk' : \E m \in logDisk :
         \A i \in DOMAIN l.recs : (i \in DOMAIN m.recs /\ l.recs[i] = m.recs[i]) \/ l.recs[i] = e
  <2> SUFFICES ASSUME NEW l \in logDisk', l \notin logDisk
               PROVE  \A i \in DOMAIN l.recs :
                        (i \in DOMAIN log.recs /\ l.recs[i] = log.recs[i]) \/ l.recs[i] = e
    BY <1>2
  <2>1. CASE l = TornAppend
    BY <1>3, <2>1
  <2>2. CASE l = Appended
    <3> SUFFICES ASSUME NEW i \in 1..(n + 1)
                 PROVE  (i \in 1..n /\ Appended.recs[i] = log.recs[i]) \/ Appended.recs[i] = e
      BY <1>4, <2>2
    <3> QED
      BY <1>4
  <2> QED
    BY <1>1, <2>1, <2>2
<1>6. VisibleOnDisk' /\ JournalsFresh' /\ FilesSettled'
  BY <1>1 DEF Disk, VisibleOnDisk, JournalsFresh, FilesSettled
<1>7. EventsFresh'
  <2> SUFFICES ASSUME NEW l \in logDisk', NEW i \in DOMAIN l.recs
               PROVE  /\ l.recs[i].id < nextId
                      /\ \A j \in Journals : l.recs[i].id = j.id => l.recs[i] = EventOf(j)
    BY <1>1 DEF EventsFresh
  <2>1. CASE l.recs[i] = e
    BY <1>2, <2>1 DEF Disk, JournalsFresh
  <2>2. CASE l.recs[i] # e
    BY <1>5, <2>2 DEF Disk, EventsFresh
  <2> QED
    BY <2>1, <2>2
<1>8. Applied'
  <2> SUFFICES ASSUME NEW j \in Journals, NEW f \in fileDisk[j.task],
                      j # journal \/ \E l \in logDisk' : j.id \in EventIds(l)
               PROVE  f.rev > j.before.rev
    BY <1>1 DEF Applied
  <2>1. CASE j = journal
    BY <1>1, <1>2, <2>1
  <2>2. CASE j # journal
    BY <2>2 DEF Disk, Applied
  <2> QED
    BY <2>1, <2>2
<1>9. ReservedOnDisk'
  <2>1. \A u \in Tasks : Reserves(u)' <=> Reserves(u)
    BY <1>1 DEF Reserves
  <2> QED
    BY <2>1 DEF Disk, ReservedOnDisk
<1>10. DispatchIsDurable'
  <2>1. \A t, r : InLog(log, t, r) => InLog(Appended, t, r) /\ InLog(TornAppend, t, r)
    BY <1>3, <1>4 DEF InLog
  <2>2. \A t, r : (\A l \in logDisk : InLog(l, t, r)) => \A l \in logDisk' : InLog(l, t, r)
    BY <1>1, <1>2, <2>1
  <2> QED
    BY <1>1, <2>2 DEF Disk, DispatchIsDurable, Durable
<1> QED
  BY <1>6, <1>7, <1>8, <1>9, <1>10 DEF Disk

\* The journal goes when its event is synced.
LEMMA UnlinkDisk ==
    ASSUME Control, Disk, Where, NEW p \in Procs, UnlinkJournal(p)
    PROVE  Disk'
<1>1. /\ StorageOK /\ CountersOK /\ journal # None /\ journal' = None
      /\ journalDisk' = journalDisk \cup {None} /\ Journals' = Journals
      /\ UNCHANGED <<file, fileDisk, log, logDisk, nextId, effects>>
      /\ file[journal.task] = journal.after /\ fileDisk[journal.task] = {journal.after}
      /\ journal.id \in EventIds(log)
  BY ControlParts DEF UnlinkJournal, JournalControl, Redoing, Where, Journals
<1>2. VisibleOnDisk' /\ JournalsFresh' /\ EventsFresh'
  BY <1>1 DEF Disk, VisibleOnDisk, JournalsFresh, EventsFresh
<1>3. FilesSettled'
  BY <1>1 DEF Disk, FilesSettled
<1>4. Applied'
  BY <1>1 DEF Disk, VisibleOnDisk, Applied
<1>5. ReservedOnDisk'
  <2>1. \A u \in Tasks : Reserves(u)' => Reserves(u)
    BY <1>1 DEF Reserves
  <2> QED
    BY <2>1 DEF Disk, ReservedOnDisk
<1>6. DispatchIsDurable'
  BY <1>1 DEF Disk, DispatchIsDurable, Durable
<1> QED
  BY <1>2, <1>3, <1>4, <1>5, <1>6 DEF Disk

\* The compare and the reservation check admit the new journal.
LEMMA WriteDisk ==
    ASSUME Control, Disk, NEW p \in Procs, WriteJournal(p)
    PROVE  Disk'
<1> DEFINE r == req[p]
           j == NewJournal(r)
<1>1. /\ StorageOK /\ CountersOK /\ nextId \in Nat /\ r \in Request /\ r.task \in Tasks
      /\ journal = None /\ journal' = j
      /\ journalDisk' = journalDisk \cup {j} /\ nextId' = nextId + 1
      /\ UNCHANGED <<file, fileDisk, log, logDisk, effects>>
      /\ Admissible(r)
  BY ControlParts, Alone DEF WriteJournal, CountersOK, JournalControl, Sections, Request
<1>2. j \in Journal /\ j # None /\ Journals' = Journals \cup {j}
  BY <1>1, NewJournalType DEF Journals
<1>3. /\ j.id = nextId /\ j.task = r.task /\ j.before = file[r.task]
      /\ j.after = [rev |-> file[r.task].rev + 1, state |-> r.target]
      /\ file[r.task].rev \in Nat
      /\ WorkspaceFree(r.task, r.target)
  BY <1>1, StorageTypes DEF NewJournal, Admissible, AfterOf
<1>4. /\ \A k \in Journals : k.id \in Nat /\ k.id < nextId /\ k # journal
      /\ \A l \in logDisk : \A i \in DOMAIN l.recs : l.recs[i].id \in Nat /\ l.recs[i].id < nextId
  BY <1>1, StorageTypes DEF Disk, JournalsFresh, EventsFresh
<1>5. \A t \in Tasks : fileDisk[t] = {file[t]}
  BY <1>1 DEF Disk, FilesSettled
<1>6. VisibleOnDisk' /\ FilesSettled'
  BY <1>1, <1>5 DEF Disk, VisibleOnDisk, FilesSettled
<1>7. JournalsFresh'
  <2>1. j.id < nextId + 1 /\ j.after.rev = j.before.rev + 1
    BY <1>1, <1>3
  <2>2. \A k \in Journals : k.id < nextId + 1 /\ k.after.rev = k.before.rev + 1 /\ k.id # j.id
    BY <1>1, <1>3, <1>4 DEF Disk, JournalsFresh
  <2>3. \A k, m \in Journals : k.id = m.id => k = m
    BY DEF Disk, JournalsFresh
  <2> QED
    BY <1>1, <1>2, <2>1, <2>2, <2>3 DEF JournalsFresh
<1>8. EventsFresh'
  <2> SUFFICES ASSUME NEW l \in logDisk, NEW i \in DOMAIN l.recs
               PROVE  /\ l.recs[i].id < nextId + 1
                      /\ \A k \in Journals \cup {j} : l.recs[i].id = k.id => l.recs[i] = EventOf(k)
    BY <1>1, <1>2 DEF EventsFresh
  <2>1. l.recs[i].id < nextId + 1 /\ l.recs[i].id # j.id
    BY <1>1, <1>3, <1>4
  <2>2. \A k \in Journals : l.recs[i].id = k.id => l.recs[i] = EventOf(k)
    BY DEF Disk, EventsFresh
  <2> QED
    BY <2>1, <2>2
<1>9. Applied'
  <2>1. \A l \in logDisk : j.id \notin EventIds(l)
    BY <1>1, <1>3, <1>4 DEF EventIds
  <2> QED
    BY <1>1, <1>2, <1>4, <2>1 DEF Disk, Applied
<1>10. ReservedOnDisk'
  <2>1. \A u \in Tasks : Reserves(u) <=> file[u].state \in ReservedStates
    BY <1>1, <1>5 DEF Reserves
  <2>2. \A u \in Tasks : Reserves(u)' => Reserves(u) \/ (u = r.task /\ r.target \in ReservedStates)
    BY <1>1, <1>3 DEF Reserves
  <2> QED
    BY <1>1, <1>3, <2>1, <2>2 DEF Disk, ReservedOnDisk, WorkspaceFree
<1>11. DispatchIsDurable'
  BY <1>1 DEF Disk, DispatchIsDurable, Durable
<1> QED
  BY <1>6, <1>7, <1>8, <1>9, <1>10, <1>11 DEF Disk

\* The host fails: any combination of the images on disk is left.
LEMMA HostLossDisk ==
    ASSUME Control, Disk, HostLoss
    PROVE  Disk'
<1>1. /\ StorageOK /\ CountersOK
      /\ \A t \in Tasks : file'[t] \in fileDisk[t] /\ fileDisk'[t] = {file'[t]}
      /\ journal' \in journalDisk /\ journalDisk' = {journal'}
      /\ log' \in logDisk /\ logDisk' = {log'}
      /\ nextId' = nextId /\ effects' = effects
      /\ Journals' = {journal'} \ {None} /\ Journals' \subseteq Journals
  BY ControlParts DEF HostLoss, Journals
<1>2. VisibleOnDisk' /\ JournalsFresh' /\ EventsFresh' /\ FilesSettled'
  BY <1>1 DEF Disk, VisibleOnDisk, JournalsFresh, EventsFresh, FilesSettled
<1>3. Applied'
  BY <1>1, StorageTypes DEF Disk, Applied
<1>4. ReservedOnDisk'
  <2>1. ASSUME NEW t \in Tasks, Reserves(t)'
        PROVE  Reserves(t)
    <3>1. CASE file'[t].state \in ReservedStates
      BY <1>1, <3>1 DEF Reserves
    <3>2. CASE file'[t].state \notin ReservedStates
      <4>1. /\ journal' # None /\ journal'.task = t /\ file'[t] = journal'.before
            /\ journal'.after.state \in ReservedStates /\ journal' \in Journals
        BY <1>1, <2>1, <3>2 DEF Reserves, Conflicting, Journals
      <4>2. journal' = journal
        BY <1>1, <4>1, StorageTypes DEF Disk, Applied
      <4>3. file[t] \in {journal.before, journal.after}
        BY <1>1, <4>1, <4>2 DEF Disk, FilesSettled
      <4> QED
        BY <4>1, <4>2, <4>3 DEF Reserves, Conflicting
    <3> QED
      BY <3>1, <3>2
  <2> QED
    BY <2>1 DEF Disk, ReservedOnDisk
<1>5. DispatchIsDurable'
  <2> SUFFICES ASSUME NEW i \in DOMAIN effects
               PROVE  Durable(effects[i])'
    BY <1>1 DEF DispatchIsDurable
  <2>1. Durable(effects[i]) /\ effects[i].task \in Tasks
    BY <1>1, EffectTypes DEF Disk, DispatchIsDurable
  <2> QED
    BY <1>1, <2>1 DEF Durable
<1> QED
  BY <1>2, <1>3, <1>4, <1>5 DEF Disk

\* The callback runs when its commit is durable.
LEMMA DispatchDisk ==
    ASSUME Control, Disk, Own, NEW p \in Procs, Dispatch(p)
    PROVE  Disk'
<1> DEFINE e == [task |-> req[p].task, rev |-> AfterOf(req[p]).rev]
<1>1. effects \in Seq([task : Tasks, rev : Nat]) /\ effects' = Append(effects, e)
  BY ControlParts DEF Dispatch, CountersOK
<1>2. UNCHANGED <<file, fileDisk, journal, journalDisk, log, logDisk, nextId, Journals>>
  BY DEF Dispatch, storage, Journals
<1>3. Durable(e)
  BY DEF Dispatch, Own, RequestOK, Writing, OwnsCommit, Sections
<1>4. DispatchIsDurable'
  <2> SUFFICES ASSUME NEW i \in DOMAIN effects'
               PROVE  Durable(effects'[i])
    BY <1>2 DEF DispatchIsDurable, Durable
  <2>1. effects'[i] = e \/ (i \in DOMAIN effects /\ effects'[i] = effects[i])
    <3>1. DOMAIN effects' = 1..(Len(effects) + 1) /\ DOMAIN effects = 1..Len(effects)
      BY <1>1
    <3> QED
      BY <1>1, <3>1
  <2> QED
    BY <1>3, <2>1 DEF Disk, DispatchIsDurable
<1>5. ReservedOnDisk'
  <2>1. \A u \in Tasks : Reserves(u)' <=> Reserves(u)
    BY <1>2 DEF Reserves
  <2> QED
    BY <2>1 DEF Disk, ReservedOnDisk
<1>6. VisibleOnDisk' /\ JournalsFresh' /\ EventsFresh' /\ FilesSettled' /\ Applied'
  BY <1>2 DEF Disk, VisibleOnDisk, JournalsFresh, EventsFresh, FilesSettled, Applied
<1> QED
  BY <1>4, <1>5, <1>6 DEF Disk

\* Every step of every process, and every fault, preserves Disk.
LEMMA DiskStep ==
    ASSUME Control, Disk, Where, Own, [Next]_vars
    PROVE  Disk'
<1>1. StorageOK /\ StorageOK' /\ CountersOK
  BY ControlParts, ControlStep DEF Control, TypeOK, StorageOK
<1>2. ASSUME UNCHANGED <<storage, nextId, effects>>
      PROVE  Disk'
  BY <1>1, <1>2, NarrowStep DEF storage, Disk, VisibleOnDisk, StorageOK
<1>3. ASSUME NEW p \in Procs, SyncFile(p)
      PROVE  Disk'
  <2>1. /\ file[journal.task] = journal.after /\ journal.task \in Tasks
        /\ fileDisk' = [fileDisk EXCEPT ![journal.task] = {journal.after}]
        /\ UNCHANGED <<file, journal, journalDisk, log, logDisk, nextId, effects>>
    BY <1>1, <1>3, StorageTypes, ControlParts DEF SyncFile, Where, Redoing, JournalControl
  <2>2. fileDisk' \in [Tasks -> SUBSET Record]
    BY <1>1 DEF StorageOK
  <2>3. \A t \in Tasks : fileDisk'[t] = fileDisk[t] \/ fileDisk'[t] = {file[t]}
    BY <1>1, <2>1 DEF StorageOK
  <2> QED
    BY <1>1, <2>1, <2>2, <2>3, NarrowStep DEF Disk, VisibleOnDisk
<1>4. ASSUME NEW p \in Procs, SyncLog(p) \/ SyncJournal(p) \/ SyncUnlink(p)
      PROVE  Disk'
  <2>1. /\ UNCHANGED <<file, fileDisk, journal, log, nextId, effects>>
        /\ logDisk' = logDisk \/ logDisk' = {log}
        /\ journalDisk' = journalDisk \/ journalDisk' = {journal}
    BY <1>4, ControlParts DEF SyncLog, SyncJournal, SyncUnlink, JournalControl
  <2> QED
    BY <1>1, <2>1, NarrowStep DEF Disk, VisibleOnDisk, StorageOK
<1>5. ASSUME \/ RepairLog
             \/ \E p \in Procs : AbortAppend(p)
      PROVE  Disk'
  <2>1. /\ UNCHANGED <<file, fileDisk, journal, journalDisk, nextId, effects>>
        /\ log'.recs = log.recs
        /\ logDisk' = {log'} \/ logDisk' = logDisk \cup {log'}
    BY <1>1, <1>5 DEF RepairLog, AbortAppend, TornAppend, StorageOK, Log
  <2> QED
    BY <1>1, <2>1, NarrowStep DEF Disk, VisibleOnDisk, StorageOK
<1> QED
  BY NextCases, <1>1, <1>2, <1>3, <1>4, <1>5, InstallDisk, AppendDisk, UnlinkDisk, WriteDisk,
     DispatchDisk, HostLossDisk
  DEF vars, AskCommit, AskRecover, Acquire, Refused, RecoverNothing, RecoverRefuse,
      EventPresent, Reject, Abort

\* Nobody enters a section that knows something of the journal.
LEMMA QuietWhere ==
    ASSUME Where, UNCHANGED <<file, fileDisk, journal, log, logDisk>>,
           \A q \in Procs : pc'[q] \in Redoing \cup {"journalSync"} => pc'[q] = pc[q]
    PROVE  Where'
  BY DEF Where, Redoing

\* A step that leaves every such section establishes nothing.
LEMMA NobodyWhere ==
    ASSUME \A q \in Procs : pc'[q] \notin Redoing \cup {"journalSync"}
    PROVE  Where'
  BY DEF Where, Redoing

\* Every step preserves what the holder of the lock knows of the journal.
LEMMA WhereStep ==
    ASSUME Control, Disk, Where, [Next]_vars
    PROVE  Where'
<1> USE DEF Sections, Redoing
<1>0. ProcessOK /\ StorageOK /\ JournalControl
  BY ControlParts
<1>1. ASSUME NEW p \in Procs, NEW t \in Tasks, NEW s \in TaskState, NEW d \in BOOLEAN,
             AskCommit(p, t, s, d)
      PROVE  Where'
  BY <1>0, <1>1, QuietWhere DEF AskCommit, storage, ProcessOK
<1>2. ASSUME NEW p \in Procs, AskRecover(p) \/ Acquire(p)
      PROVE  Where'
  BY <1>0, <1>2, QuietWhere DEF AskRecover, Acquire, storage, ProcessOK
<1>3. ASSUME NEW p \in Procs,
             Refused(p) \/ RecoverRefuse(p) \/ Reject(p) \/ Abort(p) \/ Dispatch(p)
      PROVE  Where'
  <2>1. pc[p] # "idle" /\ Leave(p) /\ UNCHANGED <<file, fileDisk, journal, log, logDisk>>
    BY <1>3 DEF Refused, RecoverRefuse, Reject, Abort, Dispatch, storage
  <2>2. \A q \in Procs : pc'[q] \in Sections => pc'[q] = pc[q]
    BY <1>0, <2>1, LeaveProcess
  <2> QED
    BY <2>1, <2>2, QuietWhere
<1>4. ASSUME NEW p \in Procs, RecoverNothing(p) \/ SyncUnlink(p)
      PROVE  Where'
  <2>1. pc[p] \in Sections /\ Return(p)
    BY <1>4 DEF RecoverNothing, SyncUnlink
  <2>2. \A q \in Procs : pc'[q] \in Sections => pc'[q] \in {"check", "dispatch"}
    BY <1>0, <2>1, ReturnProcess
  <2> QED
    BY <2>2, NobodyWhere
<1>5. ASSUME NEW p \in Procs, AbortAppend(p)
      PROVE  Where'
  <2>1. \A q \in Procs : pc'[q] \in Sections => q # p /\ pc'[q] = pc[q]
    BY <1>0, <1>5, LeaveProcess DEF AbortAppend
  <2>2. \A q \in Procs : pc[q] \in Sections => q = p
    BY <1>0, <1>5, Alone DEF AbortAppend
  <2> QED
    BY <2>1, <2>2, NobodyWhere
<1>6. CASE RepairLog
  BY <1>0, <1>6, StoreAssumption, NobodyWhere DEF RepairLog, ProcessOK, LockControl
<1>7. CASE HostLoss
  BY <1>7, NobodyWhere DEF HostLoss
<1>8. ASSUME NEW p \in Procs, InstallAfter(p)
      PROVE  Where'
  <2>1. (\A q \in Procs : pc'[q] \in Sections => q = p) /\ pc'[p] = "fileSync"
    BY <1>0, <1>8, GotoProcess DEF InstallAfter
  <2>2. file'[journal.task] = journal.after /\ journal' = journal
    BY <1>0, <1>8, StorageTypes DEF InstallAfter, StorageOK
  <2> QED
    BY <2>1, <2>2 DEF Where
<1>9. ASSUME NEW p \in Procs, SyncFile(p)
      PROVE  Where'
  <2>1. (\A q \in Procs : pc'[q] \in Sections => q = p) /\ pc'[p] = "append"
    BY <1>0, <1>9, GotoProcess DEF SyncFile
  <2>2. /\ fileDisk'[journal.task] = {journal.after} /\ journal' = journal
        /\ file' = file /\ file[journal.task] = journal.after
    BY <1>0, <1>9, StorageTypes DEF SyncFile, StorageOK, Where, JournalControl
  <2> QED
    BY <2>1, <2>2 DEF Where
<1>10. ASSUME NEW p \in Procs, AppendEvent(p) \/ EventPresent(p)
       PROVE  Where'
  <2>1. (\A q \in Procs : pc'[q] \in Sections => q = p) /\ pc'[p] = "logSync"
    BY <1>0, <1>10, GotoProcess DEF AppendEvent, EventPresent
  <2>2. /\ UNCHANGED <<file, fileDisk, journal>>
        /\ file[journal.task] = journal.after /\ fileDisk[journal.task] = {journal.after}
    BY <1>10 DEF AppendEvent, EventPresent, storage, Where
  <2>3. journal.id \in EventIds(log')
    <3>1. CASE AppendEvent(p)
      <4>1. log.recs \in Seq(Event) /\ log'.recs = Append(log.recs, EventOf(journal))
        BY <1>0, <3>1, StorageTypes DEF AppendEvent, Appended
      <4>2. DOMAIN log'.recs = 1..(Len(log.recs) + 1) /\ log'.recs[Len(log.recs) + 1].id = journal.id
        BY <4>1 DEF EventOf
      <4>3. Len(log.recs) + 1 \in DOMAIN log'.recs
        BY <4>1, <4>2
      <4> QED
        BY <4>2, <4>3 DEF EventIds
    <3>2. CASE EventPresent(p)
      BY <3>2 DEF EventPresent, storage
    <3> QED
      BY <1>10, <3>1, <3>2
  <2> QED
    BY <2>1, <2>2, <2>3 DEF Where
<1>11. ASSUME NEW p \in Procs, SyncLog(p)
       PROVE  Where'
  <2>1. (\A q \in Procs : pc'[q] \in Sections => q = p) /\ pc'[p] = "unlink"
    BY <1>0, <1>11, GotoProcess DEF SyncLog
  <2> QED
    BY <1>11, <2>1 DEF SyncLog, Where
<1>12. ASSUME NEW p \in Procs, UnlinkJournal(p)
       PROVE  Where'
  <2>1. (\A q \in Procs : pc'[q] \in Sections => q = p) /\ pc'[p] = "unlinkSync"
    BY <1>0, <1>12, GotoProcess DEF UnlinkJournal
  <2> QED
    BY <2>1, NobodyWhere
<1>13. ASSUME NEW p \in Procs, WriteJournal(p)
       PROVE  Where'
  <2>1. (\A q \in Procs : pc'[q] \in Sections => q = p) /\ pc'[p] = "journalSync"
    BY <1>0, <1>13, GotoProcess DEF WriteJournal
  <2>2. file'[journal'.task] = journal'.before
    BY <1>13 DEF WriteJournal, NewJournal, Admissible
  <2> QED
    BY <2>1, <2>2 DEF Where
<1>14. ASSUME NEW p \in Procs, SyncJournal(p)
       PROVE  Where'
  <2>1. /\ \A q \in Procs : pc[q] \in Sections => q = p
        /\ pc' = [pc EXCEPT ![p] = "recover"]
    BY <1>0, <1>14, Alone DEF SyncJournal
  <2> QED
    BY <1>0, <2>1, NobodyWhere DEF ProcessOK
<1>15. CASE UNCHANGED vars
  BY <1>15, QuietWhere DEF vars, storage
<1> QED
  BY NextCases, <1>1, <1>2, <1>3, <1>4, <1>5, <1>6, <1>7, <1>8, <1>9, <1>10, <1>11,
     <1>12, <1>13, <1>14, <1>15

\* A process owns a commit only in a section: others may come and go.
LEMMA QuietOwn ==
    ASSUME Own, UNCHANGED <<file, fileDisk, journal, log, logDisk, effects>>,
           \A q \in Procs : pc'[q] \in Sections =>
               /\ req'[q] = req[q]
               /\ pc'[q] = pc[q] \/ (pc'[q] = "recover" /\ req[q].kind # "written"),
           \A q \in Procs : \/ pc'[q] = pc[q] /\ req'[q] = req[q]
                            \/ pc'[q] = "idle" /\ req'[q] = None
                            \/ RequestOK(q)'
    PROVE  Own'
<1> SUFFICES ASSUME NEW q \in Procs
             PROVE  RequestOK(q)' /\ (Writing(q)' => OwnsCommit(q)')
  BY DEF Own
<1>1. RequestOK(q)'
  BY DEF Own, RequestOK
<1>2. Writing(q)' => pc'[q] = pc[q] /\ req'[q] = req[q] /\ Writing(q)
  BY DEF Writing, Sections
<1>3. Writing(q)' => OwnsCommit(q)'
  BY <1>2 DEF Own, OwnsCommit, Durable
<1> QED
  BY <1>1, <1>3

\* The holder of the lock moves, everybody else stays away: what it owns decides.
LEMMA HolderOwn ==
    ASSUME ProcessOK, Own, NEW p \in Procs, pc[p] \in Sections,
           \A q \in Procs : q # p => pc'[q] = pc[q] /\ req'[q] = req[q],
           RequestOK(p)', Writing(p)' => OwnsCommit(p)'
    PROVE  Own'
<1> SUFFICES ASSUME NEW q \in Procs, q # p
             PROVE  RequestOK(q)' /\ ~Writing(q)'
  BY DEF Own
<1>1. pc[q] \notin Sections
  BY Alone
<1> QED
  BY <1>1 DEF Own, RequestOK, Writing, Sections

\* Every step preserves what the requests stand for.
LEMMA OwnStep ==
    ASSUME Control, Disk, Where, Own, [Next]_vars
    PROVE  Own'
<1> USE DEF Sections
<1>0. ProcessOK /\ StorageOK /\ CountersOK /\ JournalControl
  BY ControlParts
<1>1. ASSUME NEW p \in Procs, NEW t \in Tasks, NEW s \in TaskState, NEW d \in BOOLEAN,
             AskCommit(p, t, s, d)
      PROVE  Own'
  <2>1. /\ pc'[p] = "queued" /\ req'[p].kind = "commit"
        /\ req'[p].before = file[t] /\ req'[p].target = s
        /\ \A q \in Procs : q # p => pc'[q] = pc[q] /\ req'[q] = req[q]
    BY <1>0, <1>1 DEF AskCommit, ProcessOK
  <2>2. RequestOK(p)'
    BY <1>1, <2>1 DEF AskCommit, RequestOK
  <2> QED
    BY <1>1, <2>1, <2>2, QuietOwn DEF AskCommit, storage
<1>2. ASSUME NEW p \in Procs, AskRecover(p)
      PROVE  Own'
  <2>1. /\ pc'[p] = "queued" /\ req'[p].kind = "recover"
        /\ \A q \in Procs : q # p => pc'[q] = pc[q] /\ req'[q] = req[q]
    BY <1>0, <1>2 DEF AskRecover, ProcessOK
  <2>2. RequestOK(p)'
    BY <2>1 DEF RequestOK
  <2> QED
    BY <1>2, <2>1, <2>2, QuietOwn DEF AskRecover, storage
<1>3. ASSUME NEW p \in Procs, Acquire(p)
      PROVE  Own'
  <2>1. /\ pc'[p] = "recover" /\ req' = req /\ req[p].kind # "written"
        /\ \A q \in Procs : q # p => pc'[q] = pc[q]
    BY <1>0, <1>3 DEF Acquire, ProcessOK, Own, RequestOK
  <2>2. RequestOK(p)'
    BY <2>1 DEF Own, RequestOK
  <2> QED
    BY <1>3, <2>1, <2>2, QuietOwn DEF Acquire, storage
<1>4. ASSUME NEW p \in Procs, Refused(p) \/ RecoverRefuse(p) \/ Reject(p) \/ Abort(p)
      PROVE  Own'
  <2>1. Leave(p) /\ UNCHANGED <<file, fileDisk, journal, log, logDisk, effects>>
    BY <1>4 DEF Refused, RecoverRefuse, Reject, Abort, storage
  <2>2. /\ pc'[p] = "idle" /\ req'[p] = None
        /\ \A q \in Procs : q # p => pc'[q] = pc[q] /\ req'[q] = req[q]
    BY <1>0, <2>1 DEF Leave, ProcessOK
  <2> QED
    BY <2>1, <2>2, QuietOwn
<1>5. ASSUME NEW p \in Procs, Dispatch(p) \/ AbortAppend(p)
      PROVE  Own'
  <2>1. pc[p] \in Sections /\ Leave(p)
    BY <1>5 DEF Dispatch, AbortAppend
  <2>2. /\ pc'[p] = "idle" /\ req'[p] = None
        /\ \A q \in Procs : q # p => pc'[q] = pc[q] /\ req'[q] = req[q]
    BY <1>0, <2>1 DEF Leave, ProcessOK
  <2>3. RequestOK(p)' /\ ~Writing(p)'
    BY <2>2 DEF RequestOK, Writing
  <2> QED
    BY <1>0, <2>1, <2>2, <2>3, HolderOwn
<1>6. ASSUME NEW p \in Procs,
             \/ InstallAfter(p) \/ SyncFile(p) \/ AppendEvent(p) \/ EventPresent(p) \/ SyncLog(p)
      PROVE  Own'
  <2>1. PICK w \in {"fileSync", "append", "logSync", "unlink"} :
           Goto(p, w) /\ UNCHANGED <<journal, effects>>
    BY <1>6 DEF InstallAfter, SyncFile, AppendEvent, EventPresent, SyncLog, storage
  <2>2. pc[p] \in Sections \ {"unlinkSync", "dispatch", "journalSync"}
    BY <1>6 DEF InstallAfter, SyncFile, AppendEvent, EventPresent, SyncLog
  <2>3. /\ pc'[p] = w /\ req' = req
        /\ \A q \in Procs : q # p => pc'[q] = pc[q]
    BY <1>0, <2>1 DEF Goto, ProcessOK
  <2>4. RequestOK(p)'
    BY <2>3 DEF Own, RequestOK
  <2>5. Writing(p)' => Writing(p)
    BY <2>2, <2>3 DEF Writing
  <2>6. Writing(p)' => OwnsCommit(p)'
    BY <2>1, <2>2, <2>3, <2>5 DEF Own, OwnsCommit
  <2> QED
    BY <1>0, <2>2, <2>3, <2>4, <2>6, HolderOwn
<1>7. ASSUME NEW p \in Procs, UnlinkJournal(p)
      PROVE  Own'
  <2>1. /\ pc[p] = "unlink" /\ pc'[p] = "unlinkSync" /\ req' = req
        /\ \A q \in Procs : q # p => pc'[q] = pc[q]
        /\ UNCHANGED <<file, fileDisk, logDisk, effects>>
    BY <1>0, <1>7 DEF UnlinkJournal, Goto, ProcessOK
  <2>2. RequestOK(p)'
    BY <2>1 DEF Own, RequestOK
  <2>3. ASSUME Writing(p)'
        PROVE  OwnsCommit(p)'
    <3>1. OwnsCommit(p) /\ journal.task = req[p].task /\ journal.after = AfterOf(req[p])
      BY <2>1, <2>3 DEF Own, OwnsCommit, Writing
    <3>2. /\ file[journal.task] = journal.after /\ fileDisk[journal.task] = {journal.after}
          /\ logDisk = {log} /\ journal.id \in EventIds(log) /\ journal \in Journals
          /\ journal.after.rev \in Nat
      BY <1>0, <1>7, <2>1, StorageTypes DEF Where, Redoing, JournalControl, Journals, Disk, VisibleOnDisk
    <3>3. PICK i \in DOMAIN log.recs : log.recs[i].id = journal.id
      BY <3>2 DEF EventIds
    <3>4. log.recs[i] = EventOf(journal)
      BY <3>2, <3>3 DEF Disk, EventsFresh
    <3>5. InLog(log, journal.task, journal.after.rev)
      BY <3>3, <3>4 DEF InLog, EventOf
    <3>6. Durable([task |-> req[p].task, rev |-> AfterOf(req[p]).rev])
      BY <3>1, <3>2, <3>5 DEF Durable
    <3> QED
      BY <2>1, <3>1, <3>2, <3>6 DEF OwnsCommit, Durable
  <2> QED
    BY <1>0, <2>1, <2>2, <2>3, HolderOwn
<1>8. ASSUME NEW p \in Procs, RecoverNothing(p) \/ SyncUnlink(p)
      PROVE  Own'
  <2>1. /\ pc[p] \in {"recover", "unlinkSync"} /\ Return(p) /\ journal = None
        /\ UNCHANGED <<file, fileDisk, journal, log, logDisk, effects>>
    BY <1>0, <1>8 DEF RecoverNothing, SyncUnlink, storage, JournalControl
  <2>2. req[p].kind = "written" => pc[p] = "unlinkSync" /\ OwnsCommit(p)
    BY <2>1 DEF Own, Writing, OwnsCommit
  <2>3. CASE Leave(p)
    <3>1. /\ pc'[p] = "idle" /\ req'[p] = None
          /\ \A q \in Procs : q # p => pc'[q] = pc[q] /\ req'[q] = req[q]
      BY <1>0, <2>3 DEF Leave, ProcessOK
    <3> QED
      BY <2>1, <3>1, QuietOwn
  <2>4. CASE req[p].kind = "commit" /\ Goto(p, "check")
    <3>1. /\ pc'[p] = "check" /\ req' = req
          /\ \A q \in Procs : q # p => pc'[q] = pc[q]
      BY <1>0, <2>4 DEF Goto, ProcessOK
    <3>2. RequestOK(p)' /\ ~Writing(p)'
      BY <2>4, <3>1 DEF Own, RequestOK, Writing
    <3> QED
      BY <1>0, <2>1, <3>1, <3>2, HolderOwn
  <2>5. CASE req[p].kind = "written" /\ Goto(p, "dispatch")
    <3>1. /\ pc'[p] = "dispatch" /\ req' = req
          /\ \A q \in Procs : q # p => pc'[q] = pc[q]
      BY <1>0, <2>5 DEF Goto, ProcessOK
    <3>2. RequestOK(p)'
      BY <2>5, <3>1 DEF Own, RequestOK
    <3>3. OwnsCommit(p)'
      BY <2>1, <2>2, <2>5, <3>1 DEF OwnsCommit, Durable
    <3> QED
      BY <1>0, <2>1, <3>1, <3>2, <3>3, HolderOwn
  <2> QED
    BY <2>1, <2>3, <2>4, <2>5 DEF Return
<1>9. ASSUME NEW p \in Procs, WriteJournal(p)
      PROVE  Own'
  <2>1. /\ pc[p] = "check" /\ pc'[p] = "journalSync" /\ req' = req
        /\ \A q \in Procs : q # p => pc'[q] = pc[q]
        /\ effects' = effects /\ journal' = NewJournal(req[p]) /\ Admissible(req[p])
    BY <1>0, <1>9 DEF WriteJournal, Goto, ProcessOK
  <2>2. RequestOK(p)'
    BY <2>1 DEF Own, RequestOK
  <2>3. /\ req[p] \in Request /\ NewJournal(req[p]) # None
    BY <1>0, <2>1, Alone, NewJournalType DEF CountersOK
  <2>4. \A i \in DOMAIN effects : effects[i].task = req[p].task => effects[i].rev <= req[p].before.rev
    <3>1. req[p].task \in Tasks /\ file[req[p].task] = req[p].before
      BY <2>1, <2>3 DEF Request, Admissible
    <3>2. file[req[p].task] \in fileDisk[req[p].task] /\ file[req[p].task].rev \in Nat
      BY <1>0, <3>1, StorageTypes DEF Disk, VisibleOnDisk
    <3>3. \A i \in DOMAIN effects : effects[i].rev \in Nat
      BY <1>0, EffectTypes
    <3>4. \A i \in DOMAIN effects :
             effects[i].task = req[p].task => file[req[p].task].rev >= effects[i].rev
      BY <3>2 DEF Disk, DispatchIsDurable, Durable
    <3> QED
      BY <3>1, <3>2, <3>3, <3>4
  <2>5. OwnsCommit(p)'
    BY <2>1, <2>3, <2>4 DEF OwnsCommit, NewJournal, AfterOf
  <2> QED
    BY <1>0, <2>1, <2>2, <2>5, HolderOwn
<1>10. ASSUME NEW p \in Procs, SyncJournal(p)
       PROVE  Own'
  <2>1. /\ pc[p] = "journalSync" /\ pc'[p] = "recover" /\ req[p] \in Request
        /\ req' = [req EXCEPT ![p].kind = "written"]
        /\ \A q \in Procs : q # p => pc'[q] = pc[q]
        /\ effects' = effects /\ journal' = journal
    BY <1>0, <1>10, Alone DEF SyncJournal, ProcessOK
  <2>2. /\ req'[p] = [req[p] EXCEPT !.kind = "written"]
        /\ \A q \in Procs : q # p => req'[q] = req[q]
    BY <1>0, <2>1 DEF ProcessOK
  <2>3. /\ req'[p].kind = "written" /\ req'[p].task = req[p].task /\ req'[p].before = req[p].before
        /\ req'[p].target = req[p].target
    BY <2>1, <2>2 DEF Request
  <2>4. RequestOK(p) /\ OwnsCommit(p) /\ req[p] # None /\ req[p].kind = "commit"
    BY <2>1, NoneAssumption DEF Own, Writing, RequestOK
  <2>5. RequestOK(p)'
    BY <2>1, <2>3, <2>4 DEF RequestOK
  <2>6. OwnsCommit(p)'
    BY <2>1, <2>3, <2>4 DEF OwnsCommit, AfterOf
  <2> QED
    BY <1>0, <2>1, <2>2, <2>5, <2>6, HolderOwn
<1>11. CASE RepairLog
  <2>1. \A q \in Procs : pc'[q] = pc[q] /\ req'[q] = req[q] /\ pc[q] \notin Sections
    BY <1>0, <1>11, StoreAssumption DEF RepairLog, ProcessOK, LockControl
  <2> QED
    BY <2>1 DEF Own, RequestOK, Writing
<1>12. CASE HostLoss
  BY <1>12 DEF HostLoss, Own, RequestOK, Writing
<1>13. CASE UNCHANGED vars
  BY <1>13, QuietOwn DEF vars, storage
<1> QED
  BY NextCases, <1>1, <1>2, <1>3, <1>4, <1>5, <1>6, <1>7, <1>8, <1>9, <1>10, <1>11,
     <1>12, <1>13

-----------------------------------------------------------------------------
(* The order of the writes while no process dies.                           *)

\* Every step but a killed process preserves the order of the syncs.
LEMMA OrderlyStep ==
    ASSUME Control, Disk, Where, Orderly, [Next]_vars, aborts' = aborts
    PROVE  Orderly'
<1> USE DEF Sections
<1>0. ProcessOK /\ StorageOK /\ CountersOK /\ JournalControl
  BY ControlParts
\* Nobody is about to sync anything, and the images are single.
<1>1. ASSUME NEW p \in Procs, pc[p] \in Sections \ {"journalSync", "unlinkSync", "logSync"}
      PROVE  journalDisk = {journal} /\ logDisk = {log}
  <2>1. \A q \in Procs : pc[q] \notin {"journalSync", "unlinkSync", "logSync"}
    BY <1>0, <1>1, Alone
  <2> QED
    BY <2>1 DEF Orderly
<1>2. ASSUME journalDisk' = {journal'}, logDisk' = {log'},
             \A q \in Procs : pc'[q] \notin {"journalSync", "unlinkSync", "logSync"}
      PROVE  Orderly'
  BY <1>2 DEF Orderly
<1>3. ASSUME UNCHANGED <<storage, Journals>>,
             \A q \in Procs : (pc'[q] \in {"journalSync", "unlinkSync", "logSync"}
                               \/ pc[q] \in {"journalSync", "unlinkSync", "logSync"}) => pc'[q] = pc[q]
      PROVE  Orderly'
  <2> USE <1>3 DEF storage
  <2>1. /\ (\A q \in Procs : pc'[q] \notin {"journalSync", "unlinkSync"}) => journalDisk' = {journal'}
        /\ (\A q \in Procs : pc'[q] # "logSync") => logDisk' = {log'}
    BY DEF Orderly
  <2>2. ASSUME NEW q \in Procs
        PROVE  /\ pc'[q] = "journalSync" => journalDisk' \subseteq {None, journal'}
               /\ pc'[q] = "unlinkSync" =>
                    \A j \in Journals' : file'[j.task] = j.after /\ j.id \in EventIds(log')
               /\ pc'[q] = "logSync" =>
                    \A l \in logDisk' :
                        l.recs = log'.recs \/ log'.recs = Append(l.recs, EventOf(journal'))
    BY DEF Orderly
  <2> QED
    BY <2>1, <2>2 DEF Orderly
<1>4. ASSUME NEW p \in Procs, NEW t \in Tasks, NEW s \in TaskState, NEW d \in BOOLEAN,
             AskCommit(p, t, s, d)
      PROVE  Orderly'
  BY <1>0, <1>3, <1>4 DEF AskCommit, storage, ProcessOK, Journals
<1>5. ASSUME NEW p \in Procs, AskRecover(p) \/ Acquire(p)
      PROVE  Orderly'
  BY <1>0, <1>3, <1>5 DEF AskRecover, Acquire, storage, ProcessOK, Journals
<1>6. ASSUME NEW p \in Procs, Refused(p)
      PROVE  Orderly'
  <2>1. /\ pc[p] = "queued" /\ pc'[p] = "idle"
        /\ \A q \in Procs : q # p => pc'[q] = pc[q]
    BY <1>0, <1>6 DEF Refused, Leave, ProcessOK
  <2> QED
    BY <1>3, <1>6, <2>1 DEF Refused, storage, Journals
<1>7. ASSUME NEW p \in Procs, RecoverRefuse(p) \/ Reject(p) \/ Dispatch(p)
      PROVE  Orderly'
  <2>1. /\ pc[p] \in {"recover", "check", "dispatch"} /\ Leave(p) /\ UNCHANGED storage
    BY <1>7 DEF RecoverRefuse, Reject, Dispatch
  <2>2. \A q \in Procs : pc'[q] \in Sections => q # p /\ pc'[q] = pc[q]
    BY <1>0, <2>1, LeaveProcess
  <2>3. \A q \in Procs : pc'[q] \notin Sections
    BY <1>0, <2>1, <2>2, Alone
  <2> QED
    BY <1>1, <1>2, <2>1, <2>3 DEF storage
<1>8. ASSUME NEW p \in Procs, RecoverNothing(p) \/ SyncUnlink(p)
      PROVE  Orderly'
  <2>1. /\ pc[p] \in Sections /\ pc[p] # "logSync" /\ Return(p) /\ journal' = None
        /\ journalDisk' = {None} /\ logDisk' = logDisk /\ log' = log
    BY <1>0, <1>1, <1>8 DEF RecoverNothing, SyncUnlink, storage, JournalControl
  <2>2. \A q \in Procs : pc'[q] \in Sections => pc'[q] \in {"check", "dispatch"}
    BY <1>0, <2>1, ReturnProcess
  <2>3. logDisk = {log}
    BY <1>0, <2>1, Alone DEF Orderly
  <2> QED
    BY <1>2, <2>1, <2>2, <2>3
<1>9. ASSUME NEW p \in Procs, InstallAfter(p) \/ SyncFile(p)
      PROVE  Orderly'
  <2>1. PICK w \in {"fileSync", "append"} : Goto(p, w)
    BY <1>9 DEF InstallAfter, SyncFile
  <2>2. pc[p] \in {"recover", "fileSync"} /\ UNCHANGED <<journal, journalDisk, log, logDisk>>
    BY <1>9 DEF InstallAfter, SyncFile
  <2>3. \A q \in Procs : pc'[q] \in Sections => pc'[q] = w
    BY <1>0, <2>1, <2>2, GotoProcess
  <2> QED
    BY <1>1, <1>2, <2>2, <2>3
<1>10. ASSUME NEW p \in Procs, AppendEvent(p) \/ EventPresent(p)
       PROVE  Orderly'
  <2>1. pc[p] = "append" /\ Goto(p, "logSync") /\ UNCHANGED <<journal, journalDisk>>
    BY <1>10 DEF AppendEvent, EventPresent, storage
  <2>2. (\A q \in Procs : pc'[q] \in Sections => q = p) /\ pc'[p] = "logSync"
    BY <1>0, <2>1, GotoProcess
  <2>3. journalDisk = {journal} /\ logDisk = {log}
    BY <1>1, <2>1
  <2>4. \A l \in logDisk' : l.recs = log'.recs \/ log'.recs = Append(l.recs, EventOf(journal))
    BY <1>10, <2>3 DEF AppendEvent, EventPresent, storage, Appended, TornAppend
  <2> QED
    BY <2>1, <2>2, <2>3, <2>4 DEF Orderly
<1>11. ASSUME NEW p \in Procs, SyncLog(p)
       PROVE  Orderly'
  <2>1. (\A q \in Procs : pc'[q] \in Sections => q = p) /\ pc'[p] = "unlink"
    BY <1>0, <1>11, GotoProcess DEF SyncLog
  <2>2. journalDisk = {journal}
    BY <1>0, <1>11, Alone DEF SyncLog, Orderly
  <2> QED
    BY <1>2, <1>11, <2>1, <2>2 DEF SyncLog
<1>12. ASSUME NEW p \in Procs, UnlinkJournal(p)
       PROVE  Orderly'
  <2>1. (\A q \in Procs : pc'[q] \in Sections => q = p) /\ pc'[p] = "unlinkSync"
    BY <1>0, <1>12, GotoProcess DEF UnlinkJournal
  <2>2. journalDisk = {journal} /\ logDisk = {log}
    BY <1>1, <1>12 DEF UnlinkJournal
  <2>3. Journals' \subseteq {journal} /\ file' = file /\ log' = log /\ logDisk' = logDisk
    BY <1>12, <2>2 DEF UnlinkJournal, Journals
  <2>4. file[journal.task] = journal.after /\ journal.id \in EventIds(log)
    BY <1>12 DEF UnlinkJournal, Where, Redoing
  <2> QED
    BY <2>1, <2>2, <2>3, <2>4 DEF Orderly
<1>13. ASSUME NEW p \in Procs, WriteJournal(p)
       PROVE  Orderly'
  <2>1. (\A q \in Procs : pc'[q] \in Sections => q = p) /\ pc'[p] = "journalSync"
    BY <1>0, <1>13, GotoProcess DEF WriteJournal
  <2>2. journalDisk = {None} /\ logDisk = {log}
    BY <1>0, <1>1, <1>13 DEF WriteJournal, JournalControl
  <2> QED
    BY <1>13, <2>1, <2>2 DEF WriteJournal, Orderly
<1>14. ASSUME NEW p \in Procs, SyncJournal(p)
       PROVE  Orderly'
  <2>1. /\ \A q \in Procs : pc[q] \in Sections => q = p
        /\ pc' = [pc EXCEPT ![p] = "recover"]
    BY <1>0, <1>14, Alone DEF SyncJournal
  <2>2. logDisk = {log}
    BY <1>14, <2>1 DEF SyncJournal, Orderly
  <2> QED
    BY <1>0, <1>2, <1>14, <2>1, <2>2 DEF SyncJournal, ProcessOK
<1>15. CASE RepairLog
  <2>1. \A q \in Procs : pc'[q] = pc[q] /\ pc[q] \notin Sections
    BY <1>0, <1>15, StoreAssumption DEF RepairLog, ProcessOK, LockControl
  <2> QED
    BY <1>2, <1>15, <2>1 DEF RepairLog, Orderly
<1>16. CASE HostLoss
  BY <1>2, <1>16 DEF HostLoss
<1>17. CASE UNCHANGED vars
  BY <1>3, <1>17 DEF vars, storage, Journals
<1>18. ASSUME NEW p \in Procs, Abort(p) \/ AbortAppend(p)
       PROVE  FALSE
  BY <1>0, <1>18 DEF Abort, AbortAppend, CountersOK
<1> QED
  BY NextCases, <1>4, <1>5, <1>6, <1>7, <1>8, <1>9, <1>10, <1>11,
     <1>12, <1>13, <1>14, <1>15, <1>16, <1>17, <1>18

-----------------------------------------------------------------------------
(* The audit trail, as long as faults are of one kind.                      *)

\* A step that leaves the record, the journal and the events alone.
LEMMA QuietSound ==
    ASSUME Sound(file, journal, log), UNCHANGED <<file, journal>>, log'.recs = log.recs
    PROVE  Sound(file, journal, log)'
  BY DEF Sound, JournalSound, LogSound, Audited, InLog

\* Recovery renames the after-image into place.
LEMMA InstallSound ==
    ASSUME Control, Disk, Sound(file, journal, log), NEW p \in Procs, InstallAfter(p)
    PROVE  Sound(file, journal, log)'
<1> DEFINE t == journal.task
<1>1. /\ StorageOK /\ journal # None /\ t \in Tasks
      /\ journal.before.rev \in Nat /\ journal.after.rev = journal.before.rev + 1
      /\ file' = [file EXCEPT ![t] = journal.after] /\ journal' = journal /\ log' = log
      /\ file[t] \in {journal.before, journal.after}
  BY ControlParts, StorageTypes DEF InstallAfter, Conflicting, Disk, VisibleOnDisk, JournalsFresh, Journals
<1>2. /\ file'[t] = journal.after
      /\ \A u \in Tasks : u # t => file'[u] = file[u]
      /\ \A u \in Tasks : file[u].rev \in Nat /\ file'[u].rev \in Nat /\ file[u].rev <= file'[u].rev
  BY <1>1, StorageTypes DEF StorageOK
<1>3. JournalSound(file, journal, log)'
  BY <1>1, <1>2 DEF Sound, JournalSound
<1>4. LogSound(file, log)'
  <2>1. \A i \in DOMAIN log.recs : log.recs[i].task \in Tasks /\ log.recs[i].rev \in Nat
    BY <1>1, StorageTypes
  <2>2. \A i \in DOMAIN log.recs : log.recs[i].rev <= file'[log.recs[i].task].rev
    BY <1>2, <2>1 DEF Sound, LogSound
  <2> QED
    BY <1>1, <2>2 DEF Sound, LogSound
<1>5. Audited(file, journal, log)'
  <2> SUFFICES ASSUME NEW u \in Tasks, NEW r \in 1..file'[u].rev
               PROVE  InLog(log, u, r) \/ InJournal(journal, u, r)
    BY <1>1 DEF Audited, InLog, InJournal
  <2>1. CASE r \in 1..file[u].rev
    BY <2>1 DEF Sound, Audited
  <2>2. CASE r \notin 1..file[u].rev
    <3>1. u = t
      BY <1>2, <2>2
    <3>2. file[t] = journal.before
      BY <1>1, <1>2, <2>2, <3>1
    <3>3. r = journal.after.rev
      BY <1>1, <1>2, <2>2, <3>1, <3>2
    <3> QED
      BY <1>1, <3>1, <3>3 DEF InJournal
  <2> QED
    BY <2>1, <2>2
<1> QED
  BY <1>3, <1>4, <1>5 DEF Sound

\* The event is appended once, after the events of the earlier revisions.
LEMMA AppendSound ==
    ASSUME Control, Disk, Where, Sound(file, journal, log), NEW p \in Procs, AppendEvent(p)
    PROVE  Sound(file, journal, log)'
<1> DEFINE n == Len(log.recs)
           e == EventOf(journal)
<1>1. /\ StorageOK /\ journal \in Journal /\ journal # None
      /\ journal' = journal /\ file' = file
      /\ journal.id \notin EventIds(log)
      /\ journal.after.rev = journal.before.rev + 1
      /\ file[journal.task] = journal.after
  BY ControlParts DEF AppendEvent, StorageOK, JournalControl, Redoing, Where, Disk,
     VisibleOnDisk, JournalsFresh, Journals
<1>2. log.recs \in Seq(Event) /\ e \in Event /\ log'.recs = Append(log.recs, e)
  BY <1>1, StorageTypes, AppendType DEF AppendEvent, Appended, StorageOK
<1>3. /\ DOMAIN log.recs = 1..n /\ DOMAIN log'.recs = 1..(n + 1) /\ n \in Nat
      /\ \A i \in 1..n : log'.recs[i] = log.recs[i]
      /\ log'.recs[n + 1] = e
  BY <1>2
<1>4. /\ e.id = journal.id /\ e.task = journal.task /\ e.rev = journal.after.rev
      /\ e.rev \in Nat /\ journal.before.rev \in Nat
      /\ \A i \in 1..n : log.recs[i].rev \in Nat
  BY <1>1, <1>3, StorageTypes DEF EventOf
<1>5. /\ \A i \in 1..n : log.recs[i].id # journal.id
      /\ \A i \in 1..n : log.recs[i].task = journal.task => log.recs[i].rev <= journal.before.rev
  <2>1. \A i \in 1..n : log.recs[i].id # journal.id
    BY <1>1, <1>3 DEF EventIds
  <2> QED
    BY <1>1, <1>3, <2>1 DEF Sound, JournalSound
<1>6. JournalSound(file, journal, log)'
  <2>1. \A i \in DOMAIN log'.recs :
           IF log'.recs[i].id = journal.id
           THEN file[journal.task] = journal.after
           ELSE log'.recs[i].task = journal.task => log'.recs[i].rev <= journal.before.rev
    BY <1>1, <1>3, <1>4, <1>5
  <2> QED
    BY <1>1, <2>1 DEF JournalSound
<1>7. LogSound(file, log)'
  <2>1. /\ \A i \in 1..n : log.recs[i].rev <= file[log.recs[i].task].rev
        /\ \A i, k \in 1..n : (i < k /\ log.recs[i].task = log.recs[k].task)
                                 => log.recs[i].rev < log.recs[k].rev
    BY <1>3 DEF Sound, LogSound
  <2>2. ASSUME NEW i \in 1..(n + 1)
        PROVE  log'.recs[i].rev <= file[log'.recs[i].task].rev
    <3>1. CASE i \in 1..n
      BY <1>3, <2>1, <3>1
    <3>2. CASE i = n + 1
      BY <1>1, <1>3, <1>4, <3>2
    <3> QED
      BY <3>1, <3>2
  <2>3. ASSUME NEW i \in 1..(n + 1), NEW k \in 1..(n + 1), i < k,
               log'.recs[i].task = log'.recs[k].task
        PROVE  log'.recs[i].rev < log'.recs[k].rev
    <3>1. CASE k \in 1..n
      <4>1. i \in 1..n /\ log'.recs[i] = log.recs[i] /\ log'.recs[k] = log.recs[k]
        BY <1>3, <2>3, <3>1
      <4> QED
        BY <2>1, <2>3, <3>1, <4>1
    <3>2. CASE k = n + 1
      <4>1. i \in 1..n /\ log'.recs[i] = log.recs[i] /\ log'.recs[k] = e
        BY <1>3, <2>3, <3>2
      <4>2. log.recs[i].rev <= journal.before.rev
        BY <1>4, <1>5, <2>3, <4>1
      <4> QED
        BY <1>1, <1>4, <4>1, <4>2
    <3> QED
      BY <3>1, <3>2
  <2> QED
    BY <1>1, <1>3, <2>2, <2>3 DEF LogSound
<1>8. Audited(file, journal, log)'
  <2>1. \A u \in Tasks, r \in Nat : InLog(log, u, r) => InLog(log', u, r)
    BY <1>3 DEF InLog
  <2>2. \A u \in Tasks : \A r \in 1..file[u].rev : r \in Nat
    BY <1>1, StorageTypes
  <2> QED
    BY <1>1, <2>1, <2>2 DEF Sound, Audited, InJournal
<1> QED
  BY <1>6, <1>7, <1>8 DEF Sound

\* The journal goes when its event is in the log.
LEMMA UnlinkSound ==
    ASSUME Control, Disk, Where, Sound(file, journal, log), NEW p \in Procs, UnlinkJournal(p)
    PROVE  Sound(file, journal, log)'
<1>1. /\ journal \in Journals /\ log \in logDisk /\ journal' = None
      /\ file' = file /\ log' = log
      /\ journal.id \in EventIds(log)
  BY ControlParts DEF UnlinkJournal, JournalControl, Redoing, Where, Disk, VisibleOnDisk, Journals
<1>2. PICK i \in DOMAIN log.recs : log.recs[i].id = journal.id
  BY <1>1 DEF EventIds
<1>3. log.recs[i] = EventOf(journal)
  BY <1>1, <1>2 DEF Disk, EventsFresh
<1>4. InLog(log, journal.task, journal.after.rev)
  BY <1>2, <1>3 DEF InLog, EventOf
<1>5. Audited(file, journal, log)'
  BY <1>1, <1>4 DEF Sound, Audited, InJournal, InLog
<1>6. JournalSound(file, journal, log)' /\ LogSound(file, log)'
  BY <1>1 DEF Sound, JournalSound, LogSound
<1> QED
  BY <1>5, <1>6 DEF Sound

\* The compare admits the new journal: it is one step ahead of the record.
LEMMA WriteSound ==
    ASSUME Control, Disk, Sound(file, journal, log), NEW p \in Procs, WriteJournal(p)
    PROVE  Sound(file, journal, log)'
<1> DEFINE r == req[p]
           j == NewJournal(r)
<1>1. /\ StorageOK /\ nextId \in Nat /\ r \in Request /\ journal = None /\ journal' = j
      /\ file' = file /\ log' = log
      /\ file[r.task] = r.before
      /\ log \in logDisk
  BY ControlParts, Alone DEF WriteJournal, CountersOK, JournalControl, Sections, Admissible, Disk,
     VisibleOnDisk
<1>2. j # None /\ j.id = nextId /\ j.task = r.task /\ j.before = file[r.task]
  BY <1>1, NewJournalType DEF NewJournal
<1>3. \A i \in DOMAIN log.recs : /\ log.recs[i].id \in Nat /\ log.recs[i].id < nextId
                                 /\ log.recs[i].rev <= file[log.recs[i].task].rev
  BY <1>1, StorageTypes DEF Disk, EventsFresh, Sound, LogSound
<1>4. JournalSound(file, journal, log)'
  <2>1. \A i \in DOMAIN log.recs : /\ log.recs[i].id # j.id
                                   /\ log.recs[i].task = j.task => log.recs[i].rev <= j.before.rev
    BY <1>1, <1>2, <1>3
  <2> QED
    BY <1>1, <1>2, <2>1 DEF JournalSound
<1>5. LogSound(file, log)' /\ Audited(file, journal, log)'
  BY <1>1 DEF Sound, LogSound, Audited, InJournal, InLog
<1> QED
  BY <1>4, <1>5 DEF Sound

\* Every step but a failure of the host preserves the audit trail.
LEMMA SoundStep ==
    ASSUME Control, Disk, Where, Sound(file, journal, log), [Next]_vars, ~HostLoss
    PROVE  Sound(file, journal, log)'
<1>1. ASSUME UNCHANGED <<file, journal, log>>
      PROVE  Sound(file, journal, log)'
  BY <1>1, QuietSound
<1>2. ASSUME \/ RepairLog
             \/ \E p \in Procs : AbortAppend(p)
      PROVE  Sound(file, journal, log)'
  <2>1. UNCHANGED <<file, journal>> /\ log'.recs = log.recs
    BY <1>2, ControlParts DEF RepairLog, AbortAppend, TornAppend, StorageOK, Log
  <2> QED
    BY <2>1, QuietSound
<1> QED
  BY NextCases, <1>1, <1>2, InstallSound, AppendSound, UnlinkSound, WriteSound
  DEF vars, storage, AskCommit, AskRecover, Acquire, Refused, RecoverNothing, RecoverRefuse,
      SyncFile, EventPresent, SyncLog, SyncUnlink, Reject, SyncJournal, Dispatch, Abort

\* While no process dies, every combination of images that a failure of the host
\* may leave has a sound audit trail.
LEMMA HostLossSound ==
    ASSUME Control, Disk, Where, Orderly, Sound(file, journal, log),
           NEW files \in [Tasks -> Record], \A t \in Tasks : files[t] \in fileDisk[t],
           NEW j \in journalDisk, NEW l \in logDisk
    PROVE  Sound(files, j, l)
<1>0. ProcessOK /\ StorageOK /\ JournalControl
  BY ControlParts
\* The types, once for all that follows.
<1>1. /\ \A t \in Tasks : files[t].rev \in Nat /\ file[t].rev \in Nat
      /\ \A i \in DOMAIN log.recs : log.recs[i].task \in Tasks /\ log.recs[i].rev \in Nat
      /\ \A i \in DOMAIN l.recs : l.recs[i].task \in Tasks /\ l.recs[i].rev \in Nat
      /\ log.recs \in Seq(Event) /\ l.recs \in Seq(Event)
      /\ j # None => /\ j \in Journals /\ j.task \in Tasks
                     /\ j.before.rev \in Nat /\ j.after.rev = j.before.rev + 1
      /\ journal # None => /\ journal \in Journals /\ journal.task \in Tasks
                           /\ journal.before.rev \in Nat /\ journal.after.rev = journal.before.rev + 1
  BY <1>0, StorageTypes DEF Journals, Disk, VisibleOnDisk, JournalsFresh
\* The record is the visible one, or the before-image of the journal.
<1>2. \A t \in Tasks : \/ files[t] = file[t]
                       \/ /\ journal # None /\ journal.task = t
                          /\ file[t] = journal.after /\ files[t] = journal.before
  BY DEF Disk, FilesSettled
\* The log is the visible one, or lacks its last event, the one of the journal.
<1>3. \/ l.recs = log.recs
      \/ \E p \in Procs : pc[p] = "logSync" /\ log.recs = Append(l.recs, EventOf(journal))
  BY DEF Orderly
\* The journal is the visible one, or not there yet, or still there.
<1>4. \/ j = journal
      \/ j = None /\ \E p \in Procs : pc[p] = "journalSync"
      \/ /\ journal = None /\ j \in Journals
         /\ file[j.task] = j.after /\ j.id \in EventIds(log)
         /\ \E p \in Procs : pc[p] = "unlinkSync"
  <2>1. CASE \A p \in Procs : pc[p] \notin {"journalSync", "unlinkSync"}
    BY <2>1 DEF Orderly
  <2>2. CASE \E p \in Procs : pc[p] = "journalSync"
    BY <2>2 DEF Orderly
  <2>3. CASE \E p \in Procs : pc[p] = "unlinkSync"
    BY <1>0, <2>3 DEF Orderly, Journals, JournalControl
  <2> QED
    BY <2>1, <2>2, <2>3
<1>5. /\ DOMAIN l.recs \subseteq DOMAIN log.recs
      /\ \A i \in DOMAIN l.recs : l.recs[i] = log.recs[i] /\ i \in Int
  <2>1. CASE l.recs = log.recs
    BY <1>1, <2>1
  <2>2. CASE log.recs = Append(l.recs, EventOf(journal))
    BY <1>1, <2>2
  <2> QED
    BY <1>3, <2>1, <2>2
<1>6. LogSound(files, l)
  <2>1. ASSUME NEW i \in DOMAIN l.recs
        PROVE  l.recs[i].rev <= files[l.recs[i].task].rev
    <3>1. l.recs[i].rev <= file[l.recs[i].task].rev
      BY <1>5 DEF Sound, LogSound
    <3>2. CASE files[l.recs[i].task] = file[l.recs[i].task]
      BY <3>1, <3>2
    <3>3. CASE files[l.recs[i].task] # file[l.recs[i].task]
      <4>1. /\ journal # None /\ journal.task = l.recs[i].task
            /\ files[journal.task] = journal.before
        BY <1>1, <1>2, <3>3
      <4>2. journal.id \notin EventIds(l)
        <5>1. journal \in Journals /\ journal.task \in Tasks /\ journal.before.rev \in Nat
          BY <1>1, <4>1
        <5>2. journal.before \in fileDisk[journal.task]
          BY <4>1, <5>1
        <5>3. ~(journal.before.rev > journal.before.rev)
          BY <5>1
        <5> QED
          BY <5>1, <5>2, <5>3 DEF Disk, Applied
      <4>3. l.recs[i].id # journal.id
        BY <4>2 DEF EventIds
      <4>4. l.recs[i].rev <= journal.before.rev
        BY <1>5, <4>1, <4>3 DEF Sound, JournalSound
      <4> QED
        BY <4>1, <4>4
    <3> QED
      BY <3>2, <3>3
  <2>2. \A i, k \in DOMAIN l.recs :
           (i < k /\ l.recs[i].task = l.recs[k].task) => l.recs[i].rev < l.recs[k].rev
    BY <1>5 DEF Sound, LogSound
  <2> QED
    BY <2>1, <2>2 DEF LogSound
<1>7. JournalSound(files, j, l)
  <2> SUFFICES ASSUME j # None
               PROVE  /\ files[j.task] \in {j.before, j.after}
                      /\ \A i \in DOMAIN l.recs :
                            IF l.recs[i].id = j.id
                            THEN files[j.task] = j.after
                            ELSE l.recs[i].task = j.task => l.recs[i].rev <= j.before.rev
    BY DEF JournalSound
  <2>1. CASE j = journal
    <3>1. files[j.task] \in {j.before, j.after}
      BY <1>1, <1>2, <2>1 DEF Sound, JournalSound
    <3>2. ASSUME NEW i \in DOMAIN l.recs, l.recs[i].id = j.id
          PROVE  files[j.task] = j.after
      <4>1. j.id \in EventIds(l)
        BY <3>2 DEF EventIds
      <4>2. files[j.task].rev > j.before.rev
        BY <1>1, <4>1 DEF Disk, Applied
      <4> QED
        BY <1>1, <3>1, <4>2
    <3>3. ASSUME NEW i \in DOMAIN l.recs, l.recs[i].id # j.id, l.recs[i].task = j.task
          PROVE  l.recs[i].rev <= j.before.rev
      BY <1>5, <2>1, <3>3 DEF Sound, JournalSound
    <3> QED
      BY <3>1, <3>2, <3>3
  <2>2. CASE j # journal
    <3>1. /\ journal = None /\ j \in Journals
          /\ file[j.task] = j.after /\ j.id \in EventIds(log)
          /\ \E p \in Procs : pc[p] = "unlinkSync"
      BY <1>4, <2>2
    <3>2. files[j.task] = j.after
      BY <1>1, <1>2, <3>1
    <3>3. PICK k \in DOMAIN log.recs : log.recs[k].id = j.id
      BY <3>1 DEF EventIds
    <3>4. log.recs[k] = EventOf(j)
      BY <3>1, <3>3 DEF Disk, VisibleOnDisk, EventsFresh
    <3>5. ASSUME NEW i \in DOMAIN l.recs, l.recs[i].id # j.id, l.recs[i].task = j.task
          PROVE  l.recs[i].rev <= j.before.rev
      <4>1. /\ i \in DOMAIN log.recs /\ log.recs[i] = l.recs[i] /\ i # k
            /\ i \in Int /\ k \in Int
            /\ log.recs[i].rev <= j.after.rev
        BY <1>1, <1>5, <3>1, <3>3, <3>5 DEF Sound, LogSound
      <4>2. /\ log.recs[k].task = j.task /\ log.recs[k].rev = j.after.rev
        BY <3>4 DEF EventOf
      <4>3. log.recs[i].rev # j.after.rev
        <5>1. CASE i < k
          BY <1>1, <3>5, <4>1, <4>2, <5>1 DEF Sound, LogSound
        <5>2. CASE k < i
          <6>1. log.recs[k].rev < log.recs[i].rev
            BY <1>1, <3>5, <4>1, <4>2, <5>2 DEF Sound, LogSound
          <6> QED
            BY <1>1, <4>1, <4>2, <6>1
        <5> QED
          BY <4>1, <5>1, <5>2
      <4> QED
        BY <1>1, <4>1, <4>3
    <3> QED
      BY <3>2, <3>5
  <2> QED
    BY <2>1, <2>2
<1>8. Audited(files, j, l)
  <2> SUFFICES ASSUME NEW t \in Tasks, NEW r \in 1..files[t].rev
               PROVE  InLog(l, t, r) \/ InJournal(j, t, r)
    BY DEF Audited
  <2>1. r \in 1..file[t].rev
    BY <1>1, <1>2
  <2>2. InLog(log, t, r) \/ InJournal(journal, t, r)
    BY <2>1 DEF Sound, Audited
  \* The event of the visible log that l may lack is the one of the journal.
  <2>3. InLog(log, t, r) => InLog(l, t, r) \/ InJournal(journal, t, r)
    <3>1. CASE l.recs = log.recs
      BY <3>1 DEF InLog
    <3>2. CASE \E p \in Procs : pc[p] = "logSync" /\ log.recs = Append(l.recs, EventOf(journal))
      <4>1. journal # None
        BY <1>0, <3>2 DEF JournalControl, Redoing
      <4>2. /\ DOMAIN log.recs = 1..(Len(l.recs) + 1) /\ DOMAIN l.recs = 1..Len(l.recs)
            /\ log.recs[Len(l.recs) + 1] = EventOf(journal) /\ Len(l.recs) \in Nat
        BY <1>1, <3>2
      <4>3. ASSUME NEW i \in DOMAIN log.recs, log.recs[i].task = t, log.recs[i].rev = r
            PROVE  InLog(l, t, r) \/ InJournal(journal, t, r)
        <5>1. CASE i \in DOMAIN l.recs
          BY <1>5, <4>3, <5>1 DEF InLog
        <5>2. CASE i = Len(l.recs) + 1
          BY <4>1, <4>2, <4>3, <5>2 DEF InJournal, EventOf
        <5> QED
          BY <4>2, <4>3, <5>1, <5>2
      <4> QED
        BY <4>3 DEF InLog
    <3> QED
      BY <1>3, <3>1, <3>2
  <2>4. CASE j = journal
    BY <2>2, <2>3, <2>4
  <2>5. CASE journal = None
    BY <2>2, <2>3, <2>5 DEF InJournal
  <2>6. CASE j = None /\ j # journal
    \* The journal is not written yet: its revision is ahead of the record.
    <3>1. file[journal.task] = journal.before /\ l.recs = log.recs
      <4>1. PICK p \in Procs : pc[p] = "journalSync"
        BY <1>4, <2>6
      <4>2. file[journal.task] = journal.before
        BY <4>1 DEF Where
      <4>3. \A q \in Procs : pc[q] # "logSync"
        BY <1>0, <4>1, Alone DEF Sections
      <4> QED
        BY <1>3, <4>2, <4>3
    <3>2. ~InJournal(journal, t, r)
      BY <1>1, <2>1, <3>1 DEF InJournal
    <3> QED
      BY <2>2, <3>1, <3>2 DEF InLog
  <2> QED
    BY <1>4, <2>4, <2>5, <2>6
<1> QED
  BY <1>6, <1>7, <1>8 DEF Sound

-----------------------------------------------------------------------------
(* The theorems.                                                            *)

\* Everything holds of the empty store.
LEMMA InitIInv == Init => IInv
<1> SUFFICES ASSUME Init PROVE IInv
  OBVIOUS
<1>1. /\ \A t \in Tasks : file[t] = NoRecord /\ fileDisk[t] = {NoRecord}
      /\ journal = None /\ journalDisk = {None} /\ Journals = {}
      /\ log.recs = <<>> /\ DOMAIN log.recs = {} /\ logDisk = {log}
      /\ \A p \in Procs : pc[p] = "idle" /\ req[p] = None
      /\ effects = <<>> /\ DOMAIN effects = {}
  BY DEF Init, Journals
<1>2. NoRecord.rev = 0 /\ NoRecord.state = "NONE"
  BY DEF NoRecord
<1>3. Disk
  <2>1. VisibleOnDisk /\ JournalsFresh /\ EventsFresh /\ FilesSettled /\ Applied
    BY <1>1 DEF VisibleOnDisk, JournalsFresh, EventsFresh, FilesSettled, Applied
  <2>2. ReservedOnDisk /\ DispatchIsDurable
    BY <1>1, <1>2 DEF ReservedOnDisk, Reserves, ReservedStates, DispatchIsDurable
  <2> QED
    BY <2>1, <2>2 DEF Disk
<1>4. Where /\ Own
  BY <1>1 DEF Where, Redoing, Own, RequestOK, Writing, Sections
<1>5. Orderly
  BY <1>1 DEF Orderly
<1>6. Sound(file, journal, log)
  BY <1>1, <1>2 DEF Sound, JournalSound, LogSound, Audited
<1> QED
  BY <1>3, <1>4, <1>5, <1>6, InitControl DEF IInv

\* Faults are counted and never forgotten.
LEMMA FaultsCounted ==
    ASSUME Control, [Next]_vars
    PROVE  /\ aborts \in Nat /\ hostLosses \in Nat
           /\ HostLoss => aborts' = aborts /\ hostLosses' = hostLosses + 1
           /\ ~HostLoss => hostLosses' = hostLosses /\ aborts' \in {aborts, aborts + 1}
  BY NextCases
  DEF Control, TypeOK, HostLoss, vars, counters, AskCommit, AskRecover, Acquire, Refused,
      RecoverNothing, RecoverRefuse, InstallAfter, SyncFile, AppendEvent, EventPresent, SyncLog,
      UnlinkJournal, SyncUnlink, Reject, WriteJournal, SyncJournal, Dispatch, Abort, AbortAppend,
      RepairLog

\* The inductive invariant: what is on disk, what the holder of the lock knows, and,
\* while faults are of one kind, the audit trail (store.py:54-166).
THEOREM Inductive == Spec => []IInv
<1>1. Init => IInv
  BY InitIInv
<1>2. ASSUME IInv, [Next]_vars
      PROVE  IInv'
  <2>1. Control' /\ Disk' /\ Where' /\ Own'
    BY <1>2, ControlStep, DiskStep, WhereStep, OwnStep DEF IInv
  <2>2. ASSUME aborts' = 0
        PROVE  Orderly'
    <3>1. aborts = 0
      BY <1>2, <2>2, FaultsCounted DEF IInv
    <3> QED
      BY <1>2, <2>2, <3>1, OrderlyStep DEF IInv
  <2>3. ASSUME FaultsOfOneKind'
        PROVE  Sound(file, journal, log)'
    <3>1. FaultsOfOneKind
      BY <1>2, <2>3, FaultsCounted DEF IInv, FaultsOfOneKind
    <3>2. CASE ~HostLoss
      BY <1>2, <3>1, <3>2, SoundStep DEF IInv
    <3>3. CASE HostLoss
      <4>1. aborts = 0
        BY <1>2, <2>3, <3>3, FaultsCounted DEF IInv, FaultsOfOneKind
      <4>2. /\ file' \in [Tasks -> Record] /\ journal' \in journalDisk /\ log' \in logDisk
            /\ \A t \in Tasks : file'[t] \in fileDisk[t]
        BY <2>1, <3>3 DEF HostLoss, Control, TypeOK
      <4> QED
        BY <1>2, <3>1, <4>1, <4>2, HostLossSound DEF IInv
    <3> QED
      BY <3>2, <3>3
  <2> QED
    BY <2>1, <2>2, <2>3 DEF IInv
<1> QED
  BY <1>1, <1>2, PTL DEF Spec

\* As long as processes die or the host fails, but not both, every revision of every
\* task has its event in the audit log or in the journal (INV-8).
THEOREM EveryCommitAudited == Spec => []AuditComplete
<1>1. IInv => AuditComplete
  BY DEF IInv, Sound, Audited, AuditComplete, EveryRevisionAudited
<1> QED
  BY <1>1, Inductive, PTL

\* Under the same condition no redo appends an event twice, no commit reuses a
\* revision, and no event runs ahead of its record (INV-8, compare and swap).
THEOREM AuditIsExact == Spec => []AuditExact
<1>1. IInv => AuditExact
  BY DEF IInv, Sound, LogSound, AuditExact
<1> QED
  BY <1>1, Inductive, PTL

\* Under the same condition recovery never finds a record that is neither image of
\* the journal.
THEOREM RecoveryApplies == Spec => []NoJournalConflict
<1>1. IInv => NoJournalConflict
  BY DEF IInv, Sound, JournalSound, NoJournalConflict, Conflicting
<1> QED
  BY <1>1, Inductive, PTL

\* Whatever fails, and however often, two tasks that hold their workspaces have
\* different ones, the reservation of an unfinished commit included (INV-12).
THEOREM ReservationsExclusive == Spec => []WorkspacesExclusive
<1>1. IInv => WorkspacesExclusive
  <2> SUFFICES ASSUME IInv PROVE WorkspacesExclusive
    OBVIOUS
  <2>1. \A t \in Tasks : Holds(t) => Reserves(t)
    BY DEF IInv, Disk, VisibleOnDisk, Holds, Reserves
  <2> QED
    BY <2>1 DEF IInv, Disk, ReservedOnDisk, WorkspacesExclusive
<1> QED
  BY <1>1, Inductive, PTL

\* Whatever fails, and however often, a dispatch callback was only invoked for a
\* commit that no failure of the host can take back any more (INV-9).
THEOREM DispatchesDurable == Spec => []DispatchIsDurable
<1>1. IInv => DispatchIsDurable
  BY DEF IInv, Disk
<1> QED
  BY <1>1, Inductive, PTL

\* While no process dies, the order of the writes and syncs makes every commit
\* survive a failure of the host at any instant (INV-2, store.py:109-166).
THEOREM CommitsSurvive == Spec => []SurvivesHostLoss
<1>1. IInv => SurvivesHostLoss
  <2> SUFFICES ASSUME IInv, aborts = 0,
                      NEW t \in Tasks, NEW f \in fileDisk[t],
                      NEW j \in journalDisk, NEW l \in logDisk
               PROVE  /\ \A r \in 1..f.rev : InLog(l, t, r) \/ InJournal(j, t, r)
                      /\ (j # None /\ j.task = t) => ~Conflicting(j, f)
    BY DEF SurvivesHostLoss
  <2> DEFINE files == [file EXCEPT ![t] = f]
  <2>1. /\ files \in [Tasks -> Record] /\ files[t] = f
        /\ \A u \in Tasks : files[u] \in fileDisk[u]
    BY DEF IInv, Control, TypeOK, Disk, VisibleOnDisk
  <2> HIDE DEF files
  <2>2. Sound(files, j, l)
    BY <2>1, HostLossSound DEF IInv, FaultsOfOneKind
  <2> QED
    BY <2>1, <2>2 DEF Sound, JournalSound, Audited, Conflicting
<1> QED
  BY <1>1, Inductive, PTL
=============================================================================
