------------------------- MODULE TaskStoreRefinement -------------------------
(***************************************************************************)
(* The journaled store of TaskStore implements the atomic store of          *)
(* AtomicStore, for every set of processes and tasks and every bound, as    *)
(* long as processes die or the host fails, but not both.                   *)
(***************************************************************************)
EXTENDS TaskStoreProofs, SequenceTheorems

\* What the refinement mapping looks at, besides Undo.
mapped == <<Committed, CommittedAudit, effects>>

-----------------------------------------------------------------------------
(* The abstract audit.                                                      *)

\* An entry is an event without its id.
Entries(l) == [i \in 1..Len(l.recs) |-> Entry(l.recs[i])]
EntrySet == [task : Tasks, rev : Nat]

\* The entries of a log are a sequence; those of a longer log are longer by one.
LEMMA EntriesType ==
    ASSUME NEW l, l.recs \in Seq(Event)
    PROVE  /\ Entries(l) \in Seq(EntrySet)
           /\ Len(Entries(l)) = Len(l.recs)
<1>1. \A i \in 1..Len(l.recs) : Entry(l.recs[i]) \in EntrySet
  <2>1. \A i \in 1..Len(l.recs) : l.recs[i] \in Event
    BY ElementOfSeq
  <2> QED
    BY <2>1 DEF Event, Entry, EntrySet
<1>2. Len(l.recs) \in Nat
  BY LenProperties
<1> QED
  BY <1>1, <1>2, IsASeq DEF Entries

\* One event more in the log is one entry more in the audit.
LEMMA EntriesAppend ==
    ASSUME NEW l, NEW m, NEW e \in Event, l.recs \in Seq(Event), m.recs = Append(l.recs, e)
    PROVE  Entries(m) = Append(Entries(l), Entry(e))
<1>1. /\ m.recs \in Seq(Event) /\ Len(m.recs) = Len(l.recs) + 1 /\ Len(l.recs) \in Nat
      /\ \A i \in 1..Len(l.recs) : m.recs[i] = l.recs[i]
      /\ m.recs[Len(l.recs) + 1] = e
  BY AppendProperties, LenProperties
<1>2. Entries(m) \in Seq(EntrySet) /\ Len(Entries(m)) = Len(l.recs) + 1
  BY <1>1, EntriesType
<1>3. Entries(l) \in Seq(EntrySet) /\ Len(Entries(l)) = Len(l.recs) /\ Entry(e) \in EntrySet
  BY EntriesType DEF Event, Entry, EntrySet
<1>4. /\ Append(Entries(l), Entry(e)) \in Seq(EntrySet)
      /\ Len(Append(Entries(l), Entry(e))) = Len(l.recs) + 1
      /\ \A i \in 1..Len(l.recs) : Append(Entries(l), Entry(e))[i] = Entries(l)[i]
      /\ Append(Entries(l), Entry(e))[Len(l.recs) + 1] = Entry(e)
  BY <1>3, AppendProperties
<1>5. ASSUME NEW i \in 1..(Len(l.recs) + 1)
      PROVE  Entries(m)[i] = Append(Entries(l), Entry(e))[i]
  <2>1. Entries(m)[i] = Entry(m.recs[i])
    BY <1>1 DEF Entries
  <2>2. CASE i \in 1..Len(l.recs)
    <3>1. Entries(l)[i] = Entry(l.recs[i])
      BY <2>2 DEF Entries
    <3> QED
      BY <1>1, <1>4, <2>1, <2>2, <3>1
  <2>3. CASE i = Len(l.recs) + 1
    BY <1>1, <1>4, <2>1, <2>3
  <2>4. i \in 1..Len(l.recs) \/ i = Len(l.recs) + 1
    BY <1>1
  <2> QED
    BY <2>2, <2>3, <2>4
<1> QED
  BY <1>2, <1>4, <1>5, SeqEqual

\* Taking back the last entry gives the entries before it.
LEMMA DropLast ==
    ASSUME NEW S, NEW s \in Seq(S), NEW e \in S
    PROVE  SubSeq(Append(s, e), 1, Len(Append(s, e)) - 1) = s
<1> DEFINE a == Append(s, e)
           d == SubSeq(a, 1, Len(a) - 1)
<1>1. /\ a \in Seq(S) /\ Len(a) = Len(s) + 1 /\ Len(s) \in Nat
      /\ \A i \in 1..Len(s) : a[i] = s[i]
  BY AppendProperties, LenProperties
<1> HIDE DEF a
<1>2. \A i \in 1..(Len(a) - 1) : a[i] \in S
  BY <1>1, ElementOfSeq
<1>3. /\ d \in Seq(S) /\ Len(d) = Len(s)
      /\ \A i \in 1..Len(s) : d[i] = s[i]
  BY <1>1, <1>2, SubSeqProperties
<1> HIDE DEF d
<1>4. d = s
  BY <1>3, SeqEqual
<1> QED
  BY <1>4 DEF a, d

\* The committed audit is the log, and the event of a journal that is not logged.
LEMMA AuditMapping ==
    CommittedAudit = IF journal = None \/ journal.id \in EventIds(log)
                     THEN Entries(log)
                     ELSE Append(Entries(log), Entry(EventOf(journal)))
  BY DEF CommittedAudit, LoggedEntries, Entries

-----------------------------------------------------------------------------
(* Every step of the store is a step of the atomic store, or none.          *)

\* A step that keeps the record, the journal, the events and the syncs is none.
LEMMA QuietRefines ==
    ASSUME UNCHANGED <<file, journal, effects, Undo>>, log'.recs = log.recs
    PROVE  UNCHANGED Abstract!absVars
<1>1. Committed' = Committed
  BY DEF Committed
<1>2. CommittedAudit' = CommittedAudit
  BY DEF CommittedAudit, LoggedEntries, EventIds
<1> QED
  BY <1>1, <1>2 DEF Abstract!absVars

\* A sync of the journal's directory ends the time in which it can be lost.
LEMMA HardenRefines ==
    ASSUME UNCHANGED mapped, Undo' = None
    PROVE  [Abstract!Next]_(Abstract!absVars)
  BY DEF mapped, Abstract!absVars, Abstract!Next, Abstract!Harden

\* The rename makes the record what it counts as already.
LEMMA InstallRefines ==
    ASSUME Control, NEW p \in Procs, InstallAfter(p)
    PROVE  UNCHANGED Abstract!absVars
<1>1. /\ StorageOK /\ journal # None
      /\ file' = [file EXCEPT ![journal.task] = journal.after]
      /\ UNCHANGED <<journal, journalDisk, log, effects>>
  BY ControlParts DEF InstallAfter
<1>2. journal.task \in Tasks /\ file \in [Tasks -> Record]
  BY <1>1, StorageTypes DEF StorageOK
<1>3. Committed' = Committed
  BY <1>1, <1>2 DEF Committed
<1>4. CommittedAudit' = CommittedAudit /\ Undo' = Undo
  BY <1>1 DEF CommittedAudit, LoggedEntries, Undo, Unsynced
<1> QED
  BY <1>1, <1>3, <1>4 DEF Abstract!absVars

\* The append makes the event what it counts as already.
LEMMA AppendRefines ==
    ASSUME Control, NEW p \in Procs, AppendEvent(p)
    PROVE  UNCHANGED Abstract!absVars
<1>1. /\ StorageOK /\ journal \in Journal /\ journal # None
      /\ journal.id \notin EventIds(log) /\ log' = Appended
      /\ UNCHANGED <<file, journal, journalDisk, effects>>
  BY ControlParts DEF AppendEvent, JournalControl, Redoing, StorageOK
<1>2. log.recs \in Seq(Event) /\ EventOf(journal) \in Event /\ log'.recs = Append(log.recs, EventOf(journal))
  BY <1>1, StorageTypes, AppendType DEF Appended, StorageOK
<1>3. /\ Len(log.recs) + 1 \in DOMAIN log'.recs
      /\ log'.recs[Len(log.recs) + 1].id = journal.id
  BY <1>2 DEF EventOf
<1>4. journal.id \in EventIds(log')
  BY <1>3 DEF EventIds
<1>5. Entries(log') = Append(Entries(log), Entry(EventOf(journal)))
  BY <1>2, EntriesAppend
<1>6. CommittedAudit' = Entries(log')
  BY <1>1, <1>4 DEF CommittedAudit, LoggedEntries, Entries
<1>7. CommittedAudit' = CommittedAudit
  BY <1>1, <1>5, <1>6, AuditMapping
<1>8. Committed' = Committed /\ Undo' = Undo
  BY <1>1 DEF Committed, Undo, Unsynced
<1> QED
  BY <1>1, <1>7, <1>8 DEF Abstract!absVars

\* Without its journal the commit is in the record and in the log.
LEMMA UnlinkRefines ==
    ASSUME Control, Where, NEW p \in Procs, UnlinkJournal(p)
    PROVE  [Abstract!Next]_(Abstract!absVars)
<1>1. /\ StorageOK /\ journal # None /\ journal' = None
      /\ file[journal.task] = journal.after /\ journal.id \in EventIds(log)
      /\ UNCHANGED <<file, log, effects>>
  BY ControlParts DEF UnlinkJournal, JournalControl, Redoing, Where
<1>2. Committed' = Committed
  BY <1>1, StorageTypes DEF Committed, StorageOK
<1>3. CommittedAudit' = CommittedAudit
  BY <1>1 DEF CommittedAudit, LoggedEntries
<1>4. Undo' = None
  BY <1>1 DEF Undo, Unsynced
<1> QED
  BY <1>1, <1>2, <1>3, <1>4, HardenRefines DEF mapped

\* Both stores use the table of Lifecycle.
LEMMA SameLifecycle ==
    /\ Abstract!TaskState = TaskState
    /\ Abstract!ReservedStates = ReservedStates
    /\ Abstract!LegalTransitions = LegalTransitions
    /\ Abstract!NoRecord = NoRecord
  BY DEF Abstract!TaskState, TaskState, Abstract!ReservedStates, ReservedStates,
         Abstract!LegalTransitions, LegalTransitions, Abstract!NoRecord, NoRecord

\* Both stores have the same legal transitions.
LEMMA SameMoves ==
    ASSUME NEW from, NEW to
    PROVE  Abstract!CanMove(from, to) <=> CanMove(from, to)
  BY SameLifecycle DEF Abstract!CanMove, CanMove

\* The visible journal is the commit.
LEMMA WriteRefines ==
    ASSUME Control, Disk, Own, NEW p \in Procs, WriteJournal(p)
    PROVE  Abstract!Next
<1> DEFINE r == req[p]
           t == r.task
           j == NewJournal(r)
<1>1. /\ StorageOK /\ nextId \in Nat /\ r \in Request /\ t \in Tasks
      /\ journal = None /\ journal' = j /\ j \in Journal /\ j # None
      /\ journalDisk' = journalDisk \cup {j}
      /\ UNCHANGED <<file, log, effects>>
      /\ Admissible(r) /\ file[t] = r.before
      /\ log \in logDisk /\ None \in journalDisk
      /\ pc[p] = "check"
  BY ControlParts, Alone, NewJournalType DEF WriteJournal, CountersOK, JournalControl, Sections,
     Request, Admissible, Disk, VisibleOnDisk
<1>2. /\ j.id = nextId /\ j.task = t /\ j.before = file[t]
      /\ j.after = [rev |-> file[t].rev + 1, state |-> r.target]
      /\ file[t] \in Record /\ r.target \in TaskState
  BY <1>1, StorageTypes DEF NewJournal, AfterOf, Request
<1>3. Committed = file /\ CommittedAudit = Entries(log) /\ Undo = None
  BY <1>1, AuditMapping DEF Committed, Undo, Unsynced
<1>4. Committed' = [file EXCEPT ![t] = [rev |-> file[t].rev + 1, state |-> r.target]]
  BY <1>1, <1>2 DEF Committed
<1>5. CommittedAudit' = Append(Entries(log), [task |-> t, rev |-> file[t].rev + 1])
  <2>1. j.id \notin EventIds(log)
    BY <1>1, <1>2, StorageTypes DEF EventIds, Disk, EventsFresh
  <2>2. Entry(EventOf(j)) = [task |-> t, rev |-> file[t].rev + 1]
    BY <1>2 DEF Entry, EventOf
  <2>3. CommittedAudit' = Append(Entries(log), Entry(EventOf(j)))
    BY <1>1, <2>1 DEF CommittedAudit, LoggedEntries, Entries
  <2> QED
    BY <2>2, <2>3
<1>6. Undo' = [task |-> t, record |-> file[t]]
  BY <1>1, <1>2 DEF Undo, Unsynced
<1>7. \/ file[t] = NoRecord /\ r.target = "READY"
      \/ file[t].state \in TaskState /\ CanMove(file[t].state, r.target)
  <2>1. CASE file[t] = NoRecord
    <3>1. r # None /\ r.kind = "commit" /\ r.before = NoRecord
      BY <1>1, <2>1, NoneAssumption DEF Own, RequestOK
    <3> QED
      BY <2>1, <3>1 DEF Own, RequestOK
  <2>2. CASE file[t] # NoRecord
    BY <1>1, <1>2, <2>2 DEF Admissible, Record
  <2> QED
    BY <2>1, <2>2
<1>8. Abstract!WorkspaceFree(t, r.target)
  BY <1>1, <1>3, SameLifecycle DEF Admissible, WorkspaceFree, Abstract!WorkspaceFree
<1>9. Abstract!Commit(t, r.target)
  BY <1>1, <1>3, <1>4, <1>5, <1>6, <1>7, <1>8, SameLifecycle, SameMoves DEF Abstract!Commit
<1> QED
  BY <1>1, <1>2, <1>9, SameLifecycle DEF Abstract!Next

\* The callback acts upon the current revision of its task, and nobody did before.
LEMMA DispatchRefines ==
    ASSUME Control, Own, NEW p \in Procs, Dispatch(p)
    PROVE  Abstract!Next
<1> DEFINE r == req[p]
           t == r.task
           e == [task |-> t, rev |-> AfterOf(r).rev]
<1>1. /\ StorageOK /\ CountersOK /\ r \in Request /\ t \in Tasks /\ journal = None
      /\ UNCHANGED storage /\ effects' = Append(effects, e)
      /\ pc[p] = "dispatch"
  BY ControlParts, Alone DEF Dispatch, JournalControl, Sections, Request
<1>2. /\ file[t] = AfterOf(r)
      /\ \A i \in DOMAIN effects : effects[i].task = t => effects[i].rev <= r.before.rev
  BY <1>1 DEF Own, RequestOK, Writing, OwnsCommit, Sections
<1>3. AfterOf(r).rev = r.before.rev + 1 /\ r.before.rev \in Nat
  BY <1>1 DEF AfterOf, Request, Record, NoRecord
<1>4. Committed = file /\ Undo = None
  BY <1>1 DEF Committed, Undo, Unsynced
<1>5. UNCHANGED <<Committed, CommittedAudit, Undo>>
  BY <1>1 DEF storage, Committed, CommittedAudit, LoggedEntries, Undo, Unsynced
<1>6. \A i \in 1..Len(effects) : effects[i] # e
  <2>1. \A i \in 1..Len(effects) : i \in DOMAIN effects
    BY <1>1 DEF CountersOK
  <2>2. \A i \in DOMAIN effects : effects[i].rev \in Nat
    BY <1>1, EffectTypes
  <2>3. ASSUME NEW i \in 1..Len(effects), effects[i] = e
        PROVE  FALSE
    BY <1>2, <1>3, <2>1, <2>2, <2>3
  <2> QED
    BY <2>3
<1>7. e = [task |-> t, rev |-> Committed[t].rev] /\ e.rev > 0
  BY <1>2, <1>3, <1>4
<1>8. Abstract!Act(t)
  BY <1>1, <1>4, <1>5, <1>6, <1>7 DEF Abstract!Act
<1> QED
  BY <1>1, <1>8 DEF Abstract!Next

\* A failure of the host loses nothing, or takes back the commit that could be lost.
LEMMA HostLossRefines ==
    ASSUME Control, Disk, Where, Orderly, Sound(file, journal, log), HostLoss
    PROVE  [Abstract!Next]_(Abstract!absVars)
<1>0. ProcessOK /\ StorageOK /\ JournalControl
  BY ControlParts
<1>1. /\ journal' \in journalDisk /\ journalDisk' = {journal'} /\ log' \in logDisk
      /\ file' \in [Tasks -> Record] /\ file \in [Tasks -> Record]
      /\ \A t \in Tasks : file'[t] \in fileDisk[t]
      /\ effects' = effects
  BY ControlParts, ControlStep DEF HostLoss, Next, StorageOK, Control, TypeOK
<1>2. Undo' = None
  BY <1>1 DEF Undo, Unsynced
<1>3. /\ log \in logDisk
      /\ log.recs \in Seq(Event) /\ log'.recs \in Seq(Event)
      /\ \A i \in DOMAIN log.recs : log.recs[i].rev \in Nat
      /\ journal # None => /\ journal \in Journals /\ journal.task \in Tasks
                           /\ EventOf(journal) \in Event
                           /\ journal.before.rev \in Nat /\ journal.after.rev \in Nat
                           /\ journal.after.rev = journal.before.rev + 1
  BY <1>0, <1>1, StorageTypes DEF Journals, Disk, VisibleOnDisk, JournalsFresh, EventOf, Event
<1>4. \A t \in Tasks : \/ file'[t] = file[t]
                       \/ /\ journal # None /\ journal.task = t
                          /\ file[t] = journal.after /\ file'[t] = journal.before
  BY <1>1 DEF Disk, FilesSettled
<1>5. \/ log'.recs = log.recs
      \/ \E p \in Procs : pc[p] = "logSync" /\ log.recs = Append(log'.recs, EventOf(journal))
  BY <1>1 DEF Orderly
\* The journal is left as it was seen: nothing is lost.
<1>6. CASE journal' = journal
  <2>1. Committed' = Committed
    <3>1. CASE journal = None
      <4>1. file' = file
        BY <1>1, <1>4, <3>1
      <4> QED
        BY <1>6, <3>1, <4>1 DEF Committed
    <3>2. CASE journal # None
      <4>1. [file' EXCEPT ![journal.task] = journal.after] = [file EXCEPT ![journal.task] = journal.after]
        BY <1>1, <1>4
      <4> QED
        BY <1>6, <3>2, <4>1 DEF Committed
    <3> QED
      BY <3>1, <3>2
  <2>2. CommittedAudit' = CommittedAudit
    <3>1. CASE log'.recs = log.recs
      BY <1>6, <3>1 DEF CommittedAudit, LoggedEntries, EventIds
    <3>2. CASE \E p \in Procs : pc[p] = "logSync" /\ log.recs = Append(log'.recs, EventOf(journal))
      <4> DEFINE n == Len(log'.recs)
      <4>1. journal # None /\ journal.id \in EventIds(log)
        BY <1>0, <3>2 DEF JournalControl, Redoing, Where
      <4>2. CommittedAudit = Append(Entries(log'), Entry(EventOf(journal)))
        BY <1>3, <3>2, <4>1, EntriesAppend, AuditMapping
      <4>3. /\ n \in Nat /\ DOMAIN log'.recs = 1..n /\ DOMAIN log.recs = 1..(n + 1)
            /\ \A i \in 1..n : log.recs[i] = log'.recs[i]
            /\ log.recs[n + 1] = EventOf(journal)
        BY <1>3, <3>2, <4>1
      <4>4. ASSUME journal.id \in EventIds(log')
            PROVE  FALSE
        <5>1. PICK i \in 1..n : log'.recs[i].id = journal.id
          BY <4>3, <4>4 DEF EventIds
        <5>2. i \in DOMAIN log.recs /\ log.recs[i].id = journal.id /\ i < n + 1
          BY <4>3, <5>1
        <5>3. log.recs[i] = EventOf(journal)
          BY <1>3, <4>1, <5>2 DEF Disk, EventsFresh
        <5>4. n + 1 \in DOMAIN log.recs
          BY <4>3
        <5>5. log.recs[i].rev < log.recs[n + 1].rev
          BY <4>3, <5>2, <5>3, <5>4 DEF Sound, LogSound
        <5> QED
          BY <1>3, <4>1, <4>3, <5>3, <5>5 DEF EventOf
      <4>5. CommittedAudit' = Append(Entries(log'), Entry(EventOf(journal)))
        BY <1>6, <4>1, <4>4 DEF CommittedAudit, LoggedEntries, Entries
      <4> QED
        BY <4>2, <4>5
    <3> QED
      BY <1>5, <3>1, <3>2
  <2> QED
    BY <1>1, <1>2, <2>1, <2>2, HardenRefines DEF mapped
\* The journal was not synced: its commit is taken back.
<1>7. CASE journal' # journal /\ journal' = None
  <2>1. PICK p \in Procs : pc[p] = "journalSync"
    <3>1. journalDisk # {journal}
      BY <1>1, <1>7
    <3>2. \A q \in Procs : pc[q] = "unlinkSync" => journal = None
      BY <1>0 DEF JournalControl
    <3> QED
      BY <1>7, <3>1, <3>2 DEF Orderly
  <2>2. /\ journal # None /\ file[journal.task] = journal.before
        /\ \A q \in Procs : pc[q] # "logSync"
    BY <1>0, <1>7, <2>1, Alone DEF Where, Sections
  <2>3. file' = file /\ log'.recs = log.recs
    BY <1>1, <1>3, <1>4, <1>5, <2>2
  <2>4. Undo = [task |-> journal.task, record |-> journal.before] /\ Undo # None
    <3>1. Undo = [task |-> journal.task, record |-> journal.before]
      BY <1>1, <1>7, <2>2 DEF Undo, Unsynced
    <3>2. Undo \in Undoable
      BY <1>0, <2>2, <3>1, StorageTypes DEF Undoable
    <3> QED
      BY <3>1, <3>2, NoneAssumption
  <2>5. Committed = [file EXCEPT ![journal.task] = journal.after] /\ Committed' = file
    BY <1>7, <2>2, <2>3 DEF Committed
  <2>6. Committed' = [Committed EXCEPT ![journal.task] = journal.before]
    BY <1>1, <1>3, <2>2, <2>5
  <2>7. journal.id \notin EventIds(log)
    <3>1. file[journal.task] \in fileDisk[journal.task]
      BY <1>3, <2>2 DEF Disk, VisibleOnDisk
    <3>2. ~(journal.before.rev > journal.before.rev)
      BY <1>3, <2>2
    <3> QED
      BY <1>3, <2>2, <3>1, <3>2 DEF Disk, Applied
  <2>8. /\ CommittedAudit = Append(Entries(log), Entry(EventOf(journal)))
        /\ CommittedAudit' = Entries(log)
    BY <1>7, <2>2, <2>3, <2>7 DEF CommittedAudit, LoggedEntries, Entries
  <2>9. CommittedAudit' = SubSeq(CommittedAudit, 1, Len(CommittedAudit) - 1)
    <3>1. Entry(EventOf(journal)) \in EntrySet
      BY <1>3, <2>2 DEF Event, Entry, EntrySet
    <3> QED
      BY <1>3, <2>8, <3>1, EntriesType, DropLast
  <2> QED
    BY <1>1, <1>2, <2>4, <2>6, <2>9 DEF Abstract!Next, Abstract!TakeBack
\* The unlink was not synced: the journal is back, and is redone to no effect.
<1>8. CASE journal' # journal /\ journal' # None
  <2>1. PICK p \in Procs : pc[p] = "unlinkSync"
    BY <1>1, <1>8 DEF Orderly
  <2>2. /\ journal = None /\ journal' \in Journals
        /\ file[journal'.task] = journal'.after /\ journal'.id \in EventIds(log)
        /\ \A q \in Procs : pc[q] # "logSync"
    BY <1>0, <1>1, <1>8, <2>1, Alone DEF JournalControl, Journals, Orderly, Sections
  <2>3. file' = file /\ log'.recs = log.recs
    BY <1>1, <1>4, <1>5, <2>2
  <2>4. Committed' = file
    BY <1>1, <1>8, <2>2, <2>3 DEF Committed
  <2>5. CommittedAudit' = Entries(log) /\ CommittedAudit = Entries(log)
    BY <2>2, <2>3 DEF CommittedAudit, LoggedEntries, Entries, EventIds
  <2>6. Committed = file /\ Undo = None
    BY <2>2 DEF Committed, Undo, Unsynced
  <2> QED
    BY <1>1, <1>2, <2>4, <2>5, <2>6 DEF Abstract!absVars
<1> QED
  BY <1>6, <1>7, <1>8

\* Every step of the store, under the inductive invariant.
LEMMA StepRefines ==
    ASSUME IInv, [Next]_vars, FaultsOfOneKind'
    PROVE  [Abstract!Next]_(Abstract!absVars)
<1>0. Control /\ Disk /\ Where /\ Own
  BY DEF IInv
<1>1. ASSUME UNCHANGED <<file, journal, journalDisk, log, effects>>
      PROVE  UNCHANGED Abstract!absVars
  BY <1>1, QuietRefines DEF Undo, Unsynced
<1>2. ASSUME NEW p \in Procs, SyncJournal(p) \/ SyncUnlink(p)
      PROVE  [Abstract!Next]_(Abstract!absVars)
  <2>1. /\ UNCHANGED <<file, journal, log, effects>>
        /\ journalDisk' = {journal}
    BY <1>0, <1>2, ControlParts DEF SyncJournal, SyncUnlink, JournalControl
  <2>2. Undo' = None /\ UNCHANGED mapped
    BY <2>1 DEF Undo, Unsynced, mapped, Committed, CommittedAudit, LoggedEntries
  <2> QED
    BY <2>2, HardenRefines
<1>3. ASSUME \/ RepairLog
             \/ \E p \in Procs : AbortAppend(p)
      PROVE  UNCHANGED Abstract!absVars
  <2>1. UNCHANGED <<file, journal, journalDisk, effects>> /\ log'.recs = log.recs
    BY <1>0, <1>3, ControlParts DEF RepairLog, AbortAppend, TornAppend, StorageOK, Log
  <2> QED
    BY <2>1, QuietRefines DEF Undo, Unsynced
<1>4. CASE HostLoss
  <2>1. aborts = 0 /\ FaultsOfOneKind
    BY <1>0, <1>4, FaultsCounted DEF FaultsOfOneKind
  <2> QED
    BY <1>0, <1>4, <2>1, HostLossRefines DEF IInv
<1> QED
  BY NextCases, <1>0, <1>1, <1>2, <1>3, <1>4, InstallRefines, AppendRefines, UnlinkRefines,
     WriteRefines, DispatchRefines
  DEF vars, storage, AskCommit, AskRecover, Acquire, Refused, RecoverNothing, RecoverRefuse,
      SyncFile, EventPresent, SyncLog, Reject, Abort

\* Nothing is committed at the start.
LEMMA InitRefines == Init => Abstract!Init
  BY SameLifecycle DEF Init, Abstract!Init, Committed, CommittedAudit, LoggedEntries, Undo, Unsynced

\* As long as processes die or the host fails, but not both, every behaviour of the
\* journaled store is one of the atomic store: a commit happens once or not at all, is
\* taken back only before anybody acted upon it, and is acted upon at most once
\* (store.py:54-166; INV-2, INV-8, INV-9).
THEOREM AtomicCommit == Spec /\ []FaultsOfOneKind => ImplementsAtomicStore
<1>1. Init => Abstract!Init
  BY InitRefines
<1>2. IInv /\ [Next]_vars /\ FaultsOfOneKind' => [Abstract!Next]_(Abstract!absVars)
  BY StepRefines
<1> QED
  BY <1>1, <1>2, Inductive, PTL DEF Spec, ImplementsAtomicStore, Abstract!Spec
=============================================================================
