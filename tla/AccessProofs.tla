----------------------------- MODULE AccessProofs -----------------------------
(***************************************************************************)
(* Theorems about Access, for every set of publishers and generations and   *)
(* every bound.                                                             *)
(***************************************************************************)
EXTENDS Access, SequenceTheorems, TLAPS

-----------------------------------------------------------------------------
(* The inductive invariant.                                                 *)

Keys == {"current", "current.daemon"}
Writer == [by : Publishers, at : WriterPlaces, record : Record, missing : SUBSET MarkerKeys]
Reader == [at : ReaderPlaces, from : Keys, verify : BOOLEAN, record : Record,
           manifest : Manifest \cup {None}, held : BOOLEAN]

\* TypeOK, with the shape of every record and function; an epoch was left for a recovery
\* that has begun.
Types ==
    /\ manifest \in Manifest
    /\ recovery \in {"none", "begun", "installed"}
    /\ recovery = "begun" => manifest.epoch < MaxEpochs
    /\ daemon \in {"down", "up", "ticked"}
    /\ session.id \in 1 .. MaxSessions /\ DOMAIN session.markers = MarkerKeys
    /\ session = [id |-> session.id, markers |-> session.markers]
    /\ foreign \subseteq DOMAIN ForeignMarkers
    /\ binding \in BOOLEAN
    /\ records \in [Names -> Record \cup {None}]
    /\ \A n \in Names : records[n] # None => records[n].name = n
    /\ pointer \in [Keys -> Record \cup {None}]
    /\ past \in [Keys -> Seq(Names)]
    /\ asked \in [Publishers -> Request \cup {None}]
    /\ writer \in Writer \cup {None}
    /\ reader \in Reader \cup {None}

\* What a pointer has named: immutable records on disk.  A generation followed the one
\* it expected; epochs came in their order, and none after a generation.
Chained(names, i) ==
    /\ records[names[i]] # None
    /\ names[i] \in Generations =>
          records[names[i]].previous = IF i = 1 THEN None ELSE names[i - 1]
    /\ names[i] \notin Generations =>
          /\ names[i] <= manifest.epoch
          /\ \A j \in 1 .. i - 1 : names[j] \notin Generations /\ names[j] < names[i]
Past(k) ==
    /\ \A i \in 1 .. Len(past[k]) : Chained(past[k], i)
    /\ IsInjective(past[k])

\* The pointer is the last of them.
Current(k) ==
    IF pointer[k] = None THEN past[k] = <<>>
    ELSE /\ binding
         /\ records[pointer[k].name] = pointer[k]
         /\ PointerOf(pointer[k].role) = k
         /\ past[k] # <<>> /\ past[k][Len(past[k])] = pointer[k].name
Register == \A k \in Keys : Past(k) /\ Current(k)

\* Under the locks nothing moves: what a publication has checked holds until its end.
Publication ==
    writer # None =>
        /\ recovery = "none"
        /\ Acceptable(writer.record)
        /\ writer.record.name \notin Generations => writer.record.name = manifest.epoch
        /\ writer.at \in {"record", "liveAgain", "commit"} => binding
        /\ writer.at \in {"liveAgain", "commit"} => records[writer.record.name] = writer.record

\* m is a later manifest than n: a new epoch, another start, a drain.
After(m, n) ==
    \/ n.epoch < m.epoch
    \/ n.epoch = m.epoch /\ n.start < m.start
    \/ n.epoch = m.epoch /\ n.start = m.start /\ n.open /\ ~m.open

\* The pointer has named the record that the reader read.  If it, or the manifest, had
\* moved on when the reader had its verdict, it still has, and the reader will see it.
Named(k, r) == records[r.name] = r /\ \E i \in 1 .. Len(past[k]) : past[k][i] = r.name
Moved == pointer[reader.from] # reader.record
Verdict ==
    reader # None =>
        /\ Named(reader.from, reader.record)
        /\ reader.at \in {"ready", "control", "markers", "controlAgain", "manifestAgain",
                          "pendingAgain", "attached"} => reader.verify
        /\ reader.at # "manifest" =>
              /\ reader.manifest \in Manifest
              /\ reader.manifest = manifest \/ After(manifest, reader.manifest)
        /\ ~reader.held =>
              /\ reader.at \in {"controlAgain", "manifestAgain"} =>
                    Moved \/ After(manifest, reader.manifest)
              /\ reader.at \in {"pendingAgain", "pointerAgain"} => Moved
              /\ reader.at = "pending" /\ ~reader.verify => Moved
              /\ reader.at \notin {"done", "attached"}

IInv == Types /\ Register /\ Publication /\ Verdict

-----------------------------------------------------------------------------
(* Lemmas about the operators.                                              *)

\* A longer history of names keeps what it had.
LEMMA AppendNames ==
    ASSUME NEW names \in Seq(Names), NEW n \in Names
    PROVE  /\ Append(names, n) \in Seq(Names) /\ Append(names, n) # <<>>
           /\ Len(names) \in Nat /\ Len(Append(names, n)) = Len(names) + 1
           /\ \A i \in 1 .. Len(names) : Append(names, n)[i] = names[i]
           /\ Append(names, n)[Len(names) + 1] = n
OBVIOUS

\* A manifest that is after one that is after a third is after that one; none is after itself.
LEMMA AfterIsAnOrder ==
    ASSUME NEW l \in Manifest, NEW m \in Manifest, NEW n \in Manifest
    PROVE  /\ ~After(m, m)
           /\ After(l, m) /\ After(m, n) => After(l, n)
BY AccessAssumption DEF Manifest, Epochs, After

\* A record of a publication has its type; its name is the epoch, or a generation.
LEMMA RecordTypes ==
    ASSUME Types, NEW p \in Publishers, asked[p] # None
    PROVE  /\ RecordFor(asked[p]) \in Record
           /\ RecordFor(asked[p]).epoch = manifest.epoch
           /\ RecordFor(asked[p]).name \notin Generations
                => RecordFor(asked[p]).name = manifest.epoch
<1>1. asked[p] \in Request /\ manifest \in Manifest /\ session.id \in 1 .. MaxSessions
  BY DEF Types
<1>2. /\ asked[p].generation \in Generations \cup {None} /\ asked[p].role \in Roles
      /\ asked[p].expected \in Names \cup {None}
      /\ manifest.epoch \in Epochs /\ manifest.build \in 0 .. MaxUpgrades
  BY <1>1 DEF Request, Manifest
<1>3. (IF asked[p].generation = None THEN manifest.epoch ELSE asked[p].generation) \in Names
  BY <1>2 DEF Names
<1> QED
  BY <1>1, <1>2, <1>3 DEF RecordFor, Record

\* The pointer of a role is one of the two pointers.
LEMMA KeyOfRole == \A role : PointerOf(role) \in Keys
BY DEF PointerOf, Keys

\* A pointer is None or a record with its name.
LEMMA PointerTypes ==
    ASSUME Types, NEW k \in Keys
    PROVE  /\ pointer[k] = None \/ pointer[k] \in Record
           /\ NameOf(pointer[k]) \in Names \cup {None}
           /\ NameOf(pointer[k]) = None => pointer[k] = None
<1>1. pointer[k] = None \/ pointer[k] \in Record
  BY DEF Types
<1>2. ASSUME pointer[k] \in Record
      PROVE  pointer[k].name \in Names /\ pointer[k].name # None
  BY <1>2, AccessAssumption DEF Record, Names, Epochs
<1> QED
  BY <1>1, <1>2 DEF NameOf

-----------------------------------------------------------------------------
(* What was replaced stays replaced.                                         *)

\* A record that a pointer does not name, and that may be committed, is one the pointer
\* has never named: the generation that expected what is current is the only one that
\* did, and an epoch is after all that were published.
LEMMA Fresh ==
    ASSUME Types, Register, NEW r \in Record,
           Acceptable(r), records[r.name] = r,
           r.name \notin Generations => r.name = manifest.epoch,
           pointer[PointerOf(r.role)] # r,
           NEW i \in 1 .. Len(past[PointerOf(r.role)])
    PROVE  past[PointerOf(r.role)][i] # r.name
<1> DEFINE k == PointerOf(r.role)
           L == Len(past[k])
<1>0. k \in Keys /\ past[k] \in Seq(Names) /\ L \in Nat /\ i \in 1 .. L /\ L \in 1 .. L
  BY KeyOfRole DEF Types
<1>1. /\ pointer[k] # None /\ pointer[k] \in Record
      /\ records[pointer[k].name] = pointer[k] /\ past[k][L] = pointer[k].name
      /\ pointer[k].name \in Names /\ pointer[k].name # None
  <2>1. pointer[k] # None
    BY <1>0 DEF Register, Current
  <2> QED
    BY <1>0, <2>1, PointerTypes DEF Register, Current, NameOf
<1>2. past[k][L] # r.name
  BY <1>1
<1>3. /\ Chained(past[k], i) /\ Chained(past[k], L) /\ IsInjective(past[k])
  BY <1>0 DEF Register, Past
<1> SUFFICES ASSUME past[k][i] = r.name, i # L
             PROVE  FALSE
  BY <1>0, <1>2
<1>4. CASE r.name \in Generations
  <2>1. pointer[k].name = r.previous
    BY <1>1, <1>4 DEF Acceptable, Expected, NameOf
  <2>2. r.previous = IF i = 1 THEN None ELSE past[k][i - 1]
    BY <1>3, <1>4 DEF Chained
  <2>3. i # 1
    BY <1>1, <2>1, <2>2
  <2>4. i - 1 \in DOMAIN past[k] /\ L \in DOMAIN past[k] /\ i - 1 # L
    BY <1>0, <2>3
  <2>5. past[k][i - 1] = past[k][L]
    BY <1>1, <2>1, <2>2, <2>3
  <2> QED
    BY <1>3, <2>4, <2>5 DEF IsInjective
<1>5. CASE r.name \notin Generations
  <2>1. pointer[k].name \notin Generations
    BY <1>1, <1>5 DEF Acceptable
  <2>2. past[k][L] <= manifest.epoch /\ past[k][i] < past[k][L]
    <3>1. i \in 1 .. L - 1
      BY <1>0
    <3> QED
      BY <1>1, <1>3, <2>1, <3>1 DEF Chained
  <2>3. past[k][i] = manifest.epoch /\ past[k][L] \in Epochs /\ manifest.epoch \in Epochs
    BY <1>1, <1>5, <2>1 DEF Names, Types, Manifest
  <2> QED
    BY <2>2, <2>3 DEF Epochs
<1> QED
  BY <1>4, <1>5

\* What a reader knows outlives the steps of the others, as long as a pointer that moved
\* on does not come back and the manifest only moves on.
LEMMA VerdictStays ==
    ASSUME IInv, Types', reader' = reader,
           manifest' = manifest \/ After(manifest', manifest),
           reader # None => Named(reader.from, reader.record)',
           reader # None /\ Moved => Moved'
    PROVE  Verdict'
<1> SUFFICES ASSUME reader # None PROVE Verdict'
  BY DEF Verdict
<1>1. Types /\ Verdict
  BY DEF IInv
<1>2. ASSUME reader.manifest \in Manifest
      PROVE  After(manifest, reader.manifest) => After(manifest', reader.manifest)
  BY <1>1, <1>2, AfterIsAnOrder DEF Types
<1>3. reader.at # "manifest" =>
        /\ reader.manifest \in Manifest
        /\ reader.manifest = manifest' \/ After(manifest', reader.manifest)
  BY <1>1, <1>2 DEF Verdict
<1>4. After(manifest, reader.manifest)' <=> After(manifest', reader.manifest)
  BY DEF After
<1>5. (After(manifest, reader.manifest) /\ reader.at # "manifest") => After(manifest, reader.manifest)'
  BY <1>1, <1>2, <1>4 DEF Verdict
<1>6. (reader.manifest = manifest \/ After(manifest, reader.manifest))'
        <=> (reader.manifest = manifest' \/ After(manifest', reader.manifest))
  BY <1>4
<1> QED
  BY <1>1, <1>3, <1>5, <1>6 DEF Verdict

-----------------------------------------------------------------------------
(* The steps.                                                               *)

\* The deployment moves on, unless a publication holds the lock.
LEMMA DeploymentStep ==
    ASSUME IInv, Drain \/ Claim \/ Recover \/ StartDaemon \/ Tick \/ DaemonEnds
    PROVE  IInv'
<1> USE AccessAssumption
<1>0. Types /\ Register /\ Publication /\ Verdict /\ manifest \in Manifest
  BY DEF IInv, Types
<1>1. UNCHANGED <<tmux, registry, asked, writer, reader>>
  BY DEF Drain, Claim, Recover, StartDaemon, Tick, DaemonEnds
<1>2. /\ manifest' \in Manifest
      /\ manifest' = manifest \/ After(manifest', manifest)
      /\ manifest.epoch <= manifest'.epoch
      /\ writer # None => manifest' = manifest
  <2>0. /\ manifest.epoch \in 1 .. MaxEpochs /\ manifest.start \in 0 .. MaxStarts
        /\ manifest.build \in 0 .. MaxUpgrades /\ manifest.open \in BOOLEAN
    BY <1>0 DEF Manifest, Epochs
  <2>1. CASE Drain
    <3>1. manifest' \in Manifest
      BY <1>0, <2>1 DEF Drain, Manifest
    <3>2. /\ manifest'.epoch = manifest.epoch /\ manifest'.start = manifest.start
          /\ manifest.open /\ ~manifest'.open /\ writer = None
      BY <1>0, <2>1 DEF Drain, MutationLock, Manifest
    <3> QED
      BY <2>0, <3>1, <3>2 DEF After
  <2>2. ASSUME manifest.epoch < MaxEpochs, manifest' = NewEpoch
        PROVE  manifest' \in Manifest /\ After(manifest', manifest) /\ manifest.epoch <= manifest'.epoch
    <3>1. manifest.epoch + 1 \in Epochs /\ 0 \in 0 .. MaxStarts
      BY <2>0, <2>2 DEF Epochs
    <3>2. manifest' \in Manifest /\ manifest'.epoch = manifest.epoch + 1
      BY <1>0, <2>2, <3>1 DEF Manifest, NewEpoch
    <3> QED
      BY <2>0, <3>2 DEF After
  <2>3. CASE StartDaemon
    <3>1. writer = None /\ manifest.start < MaxStarts
      BY <2>3 DEF StartDaemon, MutationLock
    <3>2. PICK build \in {manifest.build, manifest.build + 1}, open \in {manifest.open, TRUE} :
            /\ build <= MaxUpgrades
            /\ manifest' = [manifest EXCEPT !.start = @ + 1, !.build = build, !.open = open]
      BY <2>3 DEF StartDaemon
    <3>3. manifest.start + 1 \in 0 .. MaxStarts /\ build \in 0 .. MaxUpgrades
      BY <2>0, <3>1, <3>2
    <3>4. open \in BOOLEAN
      BY <2>0
    <3>5. manifest' \in Manifest /\ manifest'.epoch = manifest.epoch /\ manifest'.start = manifest.start + 1
      BY <1>0, <3>2, <3>3, <3>4 DEF Manifest
    <3> QED
      BY <2>0, <3>1, <3>5 DEF After
  <2>4. CASE UNCHANGED manifest
    BY <1>0, <2>0, <2>4
  <2>5. CASE Claim
    BY <2>2, <2>5 DEF Claim, MutationLock
  <2>6. CASE Recover
    <3>1. manifest' = manifest \/ (manifest.epoch < MaxEpochs /\ manifest' = NewEpoch)
      BY <1>0, <2>6 DEF Recover, Types
    <3>2. writer = None
      BY <2>6 DEF Recover
    <3> QED
      BY <2>2, <2>4, <3>1, <3>2
  <2> QED
    BY <2>1, <2>3, <2>4, <2>5, <2>6 DEF Tick, DaemonEnds
<1>3. /\ recovery' \in {"none", "begun", "installed"} /\ (writer # None => recovery' = recovery)
      /\ recovery' = "begun" => manifest'.epoch < MaxEpochs
  <2>1. CASE Recover
    BY <2>1 DEF Recover
  <2>2. CASE recovery' = recovery /\ (recovery = "begun" => manifest' = manifest)
    BY <1>0, <2>2 DEF Types
  <2> QED
    BY <2>1, <2>2 DEF Drain, Claim, StartDaemon, Tick, DaemonEnds, MutationLock
<1>4. daemon' \in {"down", "up", "ticked"}
  BY <1>0 DEF Types, Drain, Claim, Recover, StartDaemon, Tick, DaemonEnds
<1>5. Types'
  BY <1>0, <1>1, <1>2, <1>3, <1>4 DEF Types, tmux, registry
<1>6. Register'
  <2>1. ASSUME NEW k \in Keys
        PROVE  Past(k)'
    <3>1. ASSUME NEW i \in 1 .. Len(past[k])
          PROVE  Chained(past[k], i)'
      <4>1. Chained(past[k], i) /\ past[k][i] \in Names
        BY <1>0 DEF Register, Past, Types
      <4>2. past[k][i] \notin Generations => past[k][i] \in Epochs
        BY <4>1 DEF Names
      <4>3. past' = past /\ records' = records
        BY <1>1 DEF registry
      <4>4. manifest.epoch \in Nat /\ manifest'.epoch \in Nat /\ manifest'.epoch >= manifest.epoch
        BY <1>0, <1>2 DEF Types, Epochs, Manifest
      <4>5. past[k][i] \notin Generations => past[k][i] <= manifest'.epoch
        <5> HAVE past[k][i] \notin Generations
        <5>1. PICK e \in Nat : e = past[k][i]
          BY <4>2 DEF Epochs
        <5>2. e <= manifest.epoch
          BY <4>1, <5>1 DEF Chained
        <5> QED
          BY <4>4, <5>1, <5>2
      <4> QED
        BY <4>1, <4>3, <4>5 DEF Chained
    <3> QED
      BY <1>0, <1>1, <3>1 DEF Register, Past, registry
  <2> QED
    BY <1>0, <1>1, <2>1 DEF Register, Current, registry
<1>7. Publication'
  BY <1>0, <1>1, <1>2, <1>3 DEF Publication, Acceptable, Expected, registry
<1>8. Verdict'
  BY <1>0, <1>1, <1>2, <1>5, VerdictStays DEF Named, Moved, registry, Verdict
<1> QED
  BY <1>5, <1>6, <1>7, <1>8 DEF IInv

\* The session is replaced, or marked by another farm; an operator asks.
LEMMA SessionStep ==
    ASSUME IInv,
           \/ Replaced \/ ForeignObserves \/ \E key \in DOMAIN ForeignMarkers : ForeignSets(key)
           \/ \E p \in Publishers, g \in Generations \cup {None}, role \in Roles : Ask(p, g, role)
    PROVE  IInv'
<1>0. Types /\ Register /\ Publication /\ Verdict
  BY DEF IInv
<1>1. UNCHANGED <<deployment, registry, writer, reader>>
  BY DEF Replaced, ForeignObserves, ForeignSets, Ask
<1>2. Types'
  <2>1. CASE Replaced
    <3>1. session' = [id |-> session.id + 1, markers |-> Unset] /\ session.id + 1 \in 1 .. MaxSessions
      BY <1>0, <2>1, AccessAssumption DEF Replaced, Types
    <3>2. foreign' = {} /\ asked' = asked
      BY <2>1 DEF Replaced
    <3> QED
      BY <1>0, <1>1, <3>1, <3>2 DEF Types, deployment, registry, Unset
  <2>2. CASE ForeignObserves
    BY <1>0, <1>1, <2>2 DEF ForeignObserves, Types, deployment, registry
  <2>3. ASSUME NEW key \in DOMAIN ForeignMarkers, ForeignSets(key)
        PROVE  Types'
    <3>1. /\ session'.id = session.id /\ DOMAIN session'.markers = DOMAIN session.markers
          /\ session' = [id |-> session'.id, markers |-> session'.markers]
      BY <1>0, <2>3 DEF ForeignSets, Types
    <3>2. foreign' \subseteq foreign /\ asked' = asked
      BY <2>3 DEF ForeignSets
    <3> QED
      BY <1>0, <1>1, <3>1, <3>2 DEF Types, deployment, registry
  <2>4. ASSUME NEW p \in Publishers, NEW g \in Generations \cup {None}, NEW role \in Roles, Ask(p, g, role)
        PROVE  Types'
    <3> DEFINE req == [generation |-> g, role |-> role,
                       expected |-> IF g = None THEN None ELSE NameOf(pointer[PointerOf(role)])]
    <3>1. req \in Request
      BY <1>0, KeyOfRole, PointerTypes DEF Request
    <3>2. asked' = [asked EXCEPT ![p] = req] /\ UNCHANGED tmux
      BY <2>4 DEF Ask
    <3> QED
      BY <1>0, <1>1, <3>1, <3>2 DEF Types, deployment, registry, tmux
  <2> QED
    BY <2>1, <2>2, <2>3, <2>4
<1>3. Register' /\ Publication'
  BY <1>0, <1>1 DEF Register, Past, Chained, Current, Publication, Acceptable, Expected, registry, deployment
<1>4. Verdict'
  BY <1>0, <1>1, <1>2, VerdictStays DEF Named, Moved, registry, deployment, Verdict
<1> QED
  BY <1>2, <1>3, <1>4 DEF IInv

\* A publication begins under the locks, with what it has checked.
LEMMA BeginStep ==
    ASSUME IInv, NEW p \in Publishers, Begin(p)
    PROVE  IInv'
<1> DEFINE r == RecordFor(asked[p])
<1>0. Types /\ Register /\ Publication /\ Verdict
  BY DEF IInv
<1>1. /\ writer = None /\ recovery = "none" /\ asked[p] # None
      /\ Acceptable(r)
      /\ writer' = [by |-> p, at |-> "bind", record |-> r, missing |-> {}]
      /\ UNCHANGED <<deployment, tmux, registry, asked, reader>>
  BY DEF Begin, MutationLock
<1>2. r \in Record /\ (r.name \notin Generations => r.name = manifest.epoch)
  BY <1>0, <1>1, RecordTypes
<1> HIDE DEF r
<1>3. Types'
  BY <1>0, <1>1, <1>2 DEF Types, deployment, tmux, registry, Writer, WriterPlaces
<1>4. Register'
  BY <1>0, <1>1 DEF Register, Past, Chained, Current, registry, deployment
<1>5. Publication'
  BY <1>0, <1>1, <1>2 DEF Publication, Acceptable, Expected, registry, deployment
<1>6. Verdict'
  BY <1>0, <1>1, <1>3, VerdictStays DEF Named, Moved, registry, deployment, Verdict
<1> QED
  BY <1>3, <1>4, <1>5, <1>6 DEF IInv

\* It looks at the session and marks it, looks at everything once more, or ends.
LEMMA ObserveStep ==
    ASSUME IInv, BindObserves \/ BindSets \/ CheckLive \/ PublicationEnds
    PROVE  IInv'
<1>0. Types /\ Register /\ Publication /\ Verdict
  BY DEF IInv
<1>1. /\ writer \in Writer /\ writer # None
      /\ UNCHANGED <<deployment, foreign, registry, asked, reader>>
  BY <1>0 DEF BindObserves, BindSets, CheckLive, PublicationEnds, At, Types, tmux
<1>2. \/ writer' = None
      \/ /\ writer' \in Writer /\ writer'.record = writer.record
         /\ writer'.at \in {"record", "liveAgain"} => writer.at = writer'.at
         /\ writer'.at = "commit" => writer.at = "liveAgain"
  <2>1. CASE BindObserves
    BY <1>1, <2>1 DEF BindObserves, Writer, WriterPlaces, Given
  <2>2. CASE BindSets
    BY <1>1, <2>2 DEF BindSets, GoTo, At, Writer, WriterPlaces
  <2>3. CASE CheckLive
    BY <1>1, <2>3 DEF CheckLive, GoTo, At, Writer, WriterPlaces
  <2>4. CASE PublicationEnds
    BY <2>4 DEF PublicationEnds
  <2> QED
    BY <2>1, <2>2, <2>3, <2>4
<1>3. /\ session'.id = session.id /\ DOMAIN session'.markers = DOMAIN session.markers
      /\ session' = [id |-> session'.id, markers |-> session'.markers]
  <2>1. CASE session' = session
    BY <1>0, <2>1 DEF Types
  <2>2. CASE BindSets /\ session' # session
    <3>1. PICK k \in writer.missing : session' = [session EXCEPT !.markers[k] = MarkersOf(writer.record)[k]]
      BY <2>2 DEF BindSets
    <3> QED
      BY <1>0, <3>1 DEF Types
  <2> QED
    BY <2>1, <2>2 DEF BindObserves, CheckLive, PublicationEnds, tmux
<1>4. Types'
  BY <1>0, <1>1, <1>2, <1>3 DEF Types, deployment, registry
<1>5. Register'
  BY <1>0, <1>1 DEF Register, Past, Chained, Current, registry, deployment
<1>6. Publication'
  <2> SUFFICES ASSUME writer' # None PROVE Publication'
    BY DEF Publication
  <2>1. Acceptable(writer.record)'
    BY <1>0, <1>1, <1>2 DEF Publication, Acceptable, Expected, registry
  <2> QED
    BY <1>0, <1>1, <1>2, <2>1 DEF Publication, registry, deployment
<1>7. Verdict'
  BY <1>0, <1>1, <1>4, VerdictStays DEF Named, Moved, registry, deployment, Verdict
<1> QED
  BY <1>4, <1>5, <1>6, <1>7 DEF IInv

\* Registry.prepare: the binding, and a record that nobody can change.
LEMMA PrepareStep ==
    ASSUME IInv, WriteBinding \/ WriteRecord
    PROVE  IInv'
<1> DEFINE r == writer.record
<1>0. Types /\ Register /\ Publication /\ Verdict
  BY DEF IInv
<1>1. /\ writer \in Writer /\ writer # None /\ r \in Record /\ r.name \in Names
      /\ UNCHANGED <<deployment, tmux, pointer, past, asked, reader>>
  BY <1>0 DEF WriteBinding, WriteRecord, At, Types, Writer, Record
<1>2. /\ writer' \in Writer /\ writer'.record = r
      /\ writer'.at \in {"record", "liveAgain"}
      /\ binding => binding'
      /\ binding' \in BOOLEAN /\ binding'
  <2>1. CASE WriteBinding
    BY <1>1, <2>1 DEF WriteBinding, GoTo, At, Writer, WriterPlaces
  <2>2. CASE WriteRecord
    BY <1>0, <1>1, <2>2 DEF WriteRecord, GoTo, At, Writer, WriterPlaces, Types, Publication
  <2> QED
    BY <2>1, <2>2
<1>3. /\ records' \in [Names -> Record \cup {None}]
      /\ \A n \in Names : records'[n] # None => records'[n].name = n
      /\ \A n \in Names : records[n] # None => records'[n] = records[n]
      /\ records'[r.name] \in {None, r}
      /\ writer'.at = "liveAgain" => records'[r.name] = r
  <2>1. CASE WriteBinding
    BY <1>0, <1>1, <2>1 DEF WriteBinding, GoTo, Types, Publication, Acceptable, Writer
  <2>2. CASE WriteRecord
    <3>1. records' = [records EXCEPT ![r.name] = r] /\ records[r.name] \in {None, r}
      BY <1>0, <1>1, <2>2 DEF WriteRecord, Publication, Acceptable
    <3> QED
      BY <1>0, <1>1, <3>1, NoneAssumption DEF Types
  <2> QED
    BY <2>1, <2>2
<1> HIDE DEF r
<1>4. Types'
  BY <1>0, <1>1, <1>2, <1>3 DEF Types, deployment, tmux
<1>5. Register'
  <2> SUFFICES ASSUME NEW k \in Keys PROVE (Past(k) /\ Current(k))'
    BY DEF Register
  <2>1. past[k] \in Seq(Names) /\ Past(k) /\ Current(k) /\ (pointer[k] = None \/ pointer[k] \in Record)
    BY <1>0 DEF Types, Register
  <2>2. ASSUME NEW i \in 1 .. Len(past[k])
        PROVE  Chained(past[k], i)'
    <3>1. past[k][i] \in Names /\ Chained(past[k], i)
      BY <2>1 DEF Past
    <3> QED
      BY <1>1, <1>3, <3>1 DEF Chained, deployment
  <2>3. Past(k)'
    BY <1>1, <2>1, <2>2 DEF Past
  <2>4. Current(k)'
    <3>1. pointer[k] # None => pointer[k].name \in Names /\ records[pointer[k].name] # None
      BY <2>1, NoneAssumption DEF Current, Record
    <3> QED
      BY <1>1, <1>2, <1>3, <2>1, <3>1 DEF Current
  <2> QED
    BY <2>3, <2>4
<1>6. Publication'
  <2>1. Acceptable(writer.record)'
    BY <1>0, <1>1, <1>2, <1>3 DEF Publication, Acceptable, Expected, r
  <2> QED
    BY <1>0, <1>1, <1>2, <1>3, <2>1 DEF Publication, deployment, r
<1>7. Verdict'
  <2>1. reader # None => Named(reader.from, reader.record)'
    <3> SUFFICES ASSUME reader # None PROVE Named(reader.from, reader.record)'
      OBVIOUS
    <3>1. reader.record \in Record /\ Named(reader.from, reader.record)
      BY <1>0 DEF Types, Reader, Verdict
    <3>2. reader.record.name \in Names /\ reader.record # None
      BY <3>1, NoneAssumption DEF Record
    <3> QED
      BY <1>1, <1>3, <3>1, <3>2 DEF Named
  <2> QED
    BY <1>0, <1>1, <1>4, <2>1, VerdictStays DEF Moved, deployment
<1> QED
  BY <1>4, <1>5, <1>6, <1>7 DEF IInv

\* Registry.commit: the pointer names a record it has never named, or named already.
LEMMA CommitStep ==
    ASSUME IInv, Commit
    PROVE  IInv'
<1>0. Types /\ Register /\ Publication /\ Verdict
  BY DEF IInv
<1>a. writer \in Writer /\ writer # None /\ writer.at = "commit" /\ writer.record \in Record
  BY <1>0 DEF Commit, At, Types, Writer
<1>b. PICK r \in Record, k \in Keys : r = writer.record /\ k = PointerOf(r.role)
  BY <1>a, KeyOfRole
<1>d. past[k] \in Seq(Names)
  BY <1>0, <1>b DEF Types
<1>c. PICK L \in Nat : L = Len(past[k])
  BY <1>d
<1>1. /\ r.name \in Names /\ writer' = None
      /\ pointer' = [pointer EXCEPT ![k] = r]
      /\ UNCHANGED <<deployment, tmux, binding, records, asked, reader>>
  BY <1>b DEF Commit, Record
<1>2. /\ binding /\ records[r.name] = r /\ Acceptable(r) /\ r # None
      /\ r.name \notin Generations => r.name = manifest.epoch
  BY <1>0, <1>a, <1>b, NoneAssumption DEF Publication
<1>3. past[k] \in Seq(Names) /\ L = Len(past[k])
  BY <1>0, <1>c DEF Types
<1>4. CASE pointer[k] = r
  <2>1. pointer' = pointer /\ past' = past
    BY <1>0, <1>1, <1>b, <1>4 DEF Commit, Types
  <2>2. Types'
    BY <1>0, <1>1, <2>1 DEF Types, deployment, tmux
  <2>3. Register' /\ Publication'
    BY <1>0, <1>1, <2>1 DEF Register, Past, Chained, Current, Publication, deployment
  <2>4. Verdict'
    BY <1>0, <1>1, <2>1, <2>2, VerdictStays DEF Named, Moved, deployment, Verdict
  <2> QED
    BY <2>2, <2>3, <2>4 DEF IInv
<1>5. CASE pointer[k] # r
  <2>1. past' = [past EXCEPT ![k] = Append(past[k], r.name)]
    BY <1>b, <1>5 DEF Commit
  <2>2. /\ past'[k] \in Seq(Names) /\ past'[k] # <<>> /\ Len(past'[k]) = L + 1
        /\ \A i \in 1 .. L : past'[k][i] = past[k][i]
        /\ past'[k][L + 1] = r.name
        /\ \A j \in Keys : j # k => past'[j] = past[j] /\ pointer'[j] = pointer[j]
        /\ pointer'[k] = r
    BY <1>0, <1>1, <1>3, <2>1, AppendNames DEF Types
  <2>3. \A i \in 1 .. L : past[k][i] # r.name
    BY <1>0, <1>2, <1>b, <1>c, <1>5, Fresh
  <2>4. Types'
    BY <1>0, <1>1, <1>3, <2>1, AppendNames DEF Types, deployment, tmux
  <2>5. Register'
    <3>1. \A j \in Keys : j # k => (Past(j) /\ Current(j))'
      BY <1>0, <1>1, <2>2 DEF Register, Past, Chained, Current, deployment
    <3>2. Current(k)'
      BY <1>1, <1>2, <1>b, <2>2 DEF Current
    <3>3. ASSUME NEW i \in 1 .. L
          PROVE  Chained(past[k], i)'
      <4>0. k \in Keys /\ i \in 1 .. Len(past[k])
        BY <1>3
      <4>a. Chained(past[k], i)
        BY <1>0, <4>0 DEF Register, Past
      <4>b. \A j \in 1 .. i : j \in 1 .. L
        BY <1>3
      <4>1. Chained(past[k], i) /\ \A j \in 1 .. i : past'[k][j] = past[k][j]
        BY <2>2, <4>a, <4>b
      <4>2. i - 1 \in 1 .. i \/ i = 1
        BY <1>3
      <4> QED
        BY <1>1, <1>3, <4>1, <4>2 DEF Chained, deployment
    <3>4. Chained(past[k], L + 1)'
      <4>1. CASE r.name \in Generations
        <5>1. r.previous = NameOf(pointer[k])
          BY <1>2, <1>b, <4>1 DEF Acceptable, Expected
        <5>2. IF L = 0 THEN pointer[k] = None ELSE pointer[k] # None /\ past[k][L] = pointer[k].name
          BY <1>0, <1>1, <1>3 DEF Register, Current
        <5>3. r.previous = IF L = 0 THEN None ELSE past'[k][L]
          BY <1>3, <2>2, <5>1, <5>2 DEF NameOf
        <5> QED
          BY <1>1, <1>2, <1>3, <2>2, <4>1, <5>3 DEF Chained
      <4>2. CASE r.name \notin Generations
        <5>1. ASSUME NEW j \in 1 .. L
              PROVE  past[k][j] \notin Generations /\ past[k][j] < r.name
          <6>1. /\ past[k][L] = pointer[k].name /\ pointer[k] # None /\ L \in 1 .. L
            BY <1>0, <1>1, <1>3, <5>1 DEF Register, Current
          <6>2. past[k][L] \notin Generations
            BY <1>2, <1>b, <4>2, <6>1 DEF Acceptable
          <6>3. past[k][L] <= manifest.epoch /\ (j # L => past[k][j] \notin Generations /\ past[k][j] < past[k][L])
            <7>1. Chained(past[k], L)
              BY <1>0, <1>3, <6>1 DEF Register, Past
            <7>2. j # L => j \in 1 .. L - 1
              BY <1>3
            <7> QED
              BY <6>2, <7>1, <7>2 DEF Chained
          <6>4. past[k][j] \in Names /\ past[k][L] \in Names
            BY <1>3, <6>1
          <6>5. past[k][j] \notin Generations
            BY <6>2, <6>3
          <6>6. past[k][j] \in Epochs /\ past[k][L] \in Epochs /\ manifest.epoch \in Epochs
            BY <1>0, <6>2, <6>4, <6>5 DEF Names, Types, Manifest
          <6>7. past[k][j] <= manifest.epoch
            BY <6>3, <6>6 DEF Epochs
          <6> QED
            BY <1>2, <2>3, <4>2, <6>5, <6>6, <6>7 DEF Epochs
        <5>2. manifest.epoch \in Epochs
          BY <1>0 DEF Types, Manifest
        <5>3. \A j \in 1 .. (L + 1) - 1 : past'[k][j] \notin Generations /\ past'[k][j] < r.name
          BY <1>3, <2>2, <5>1
        <5> QED
          BY <1>1, <1>2, <2>2, <4>2, <5>2, <5>3 DEF Chained, deployment, Epochs
      <4> QED
        BY <4>1, <4>2
    <3>5. IsInjective(past[k])'
      <4>1. IsInjective(past[k])
        BY <1>0, <1>1 DEF Register, Past
      <4>2. DOMAIN past'[k] = 1 .. L + 1 /\ DOMAIN past[k] = 1 .. L
        BY <1>3, <2>2
      <4>3. \A i \in 1 .. L + 1 : i \in 1 .. L \/ i = L + 1
        BY <1>3
      <4>4. \A i, j \in 1 .. L + 1 : past'[k][i] = past'[k][j] => i = j
        BY <2>2, <2>3, <4>1, <4>2, <4>3 DEF IsInjective
      <4> QED
        BY <4>2, <4>4 DEF IsInjective
    <3>6. Past(k)'
      <4>1. \A i \in 1 .. L + 1 : i \in 1 .. L \/ i = L + 1
        BY <1>3
      <4> QED
        BY <2>2, <3>3, <3>4, <3>5, <4>1 DEF Past
    <3> QED
      BY <3>1, <3>2, <3>6 DEF Register
  <2>6. Publication'
    BY <1>1 DEF Publication
  <2>7. Verdict'
    <3>1. reader # None => Named(reader.from, reader.record)'
      <4> SUFFICES ASSUME reader # None PROVE Named(reader.from, reader.record)'
        OBVIOUS
      <4>1. /\ reader.from \in Keys /\ records[reader.record.name] = reader.record
            /\ \E i \in 1 .. Len(past[reader.from]) : past[reader.from][i] = reader.record.name
        BY <1>0 DEF Types, Reader, Verdict, Named
      <4> QED
        BY <1>1, <1>3, <2>2, <4>1 DEF Named
    <3>2. reader # None /\ Moved => Moved'
      <4> SUFFICES ASSUME reader # None, Moved PROVE Moved'
        OBVIOUS
      <4>1. reader.from \in Keys /\ Named(reader.from, reader.record)
        BY <1>0 DEF Types, Reader, Verdict
      <4>2. reader.from = k => reader.record # r
        BY <1>3, <2>3, <4>1 DEF Named
      <4>3. reader' = reader /\ pointer[reader.from] # reader.record
        BY <1>1 DEF Moved
      <4>4. CASE reader.from = k
        BY <2>2, <4>2, <4>3, <4>4 DEF Moved
      <4>5. CASE reader.from # k
        BY <2>2, <4>1, <4>3, <4>5 DEF Moved
      <4> QED
        BY <4>4, <4>5
    <3> QED
      BY <1>0, <1>1, <2>4, <3>1, <3>2, VerdictStays DEF deployment
  <2> QED
    BY <2>4, <2>5, <2>6, <2>7 DEF IInv
<1> QED
  BY <1>4, <1>5

\* A reader goes on: what it has not seen change had not changed.
LEMMA ReadStep ==
    ASSUME IInv, Read
    PROVE  IInv'
<1>0. Types /\ Register /\ Publication /\ Verdict
  BY DEF IInv
<1>1. UNCHANGED NotReader
  BY DEF Read, ReadPointer, ReadManifest, ReadPending, ReadReady, ReadControl, ReadMarkers,
         ReadManifestAgain, ReadPendingAgain, ReadPointerAgain, Reverify, Attach, ReaderReturns
<1>2. Register' /\ Publication'
  BY <1>0, <1>1 DEF Register, Past, Chained, Current, Publication, Acceptable, Expected,
                    NotReader, registry, deployment
<1>3. reader' \in Reader \cup {None} => Types'
  BY <1>0, <1>1 DEF Types, NotReader, deployment, tmux, registry
<1>4. CASE reader' = None
  BY <1>2, <1>3, <1>4 DEF IInv, Verdict
<1>5. CASE \E k \in Keys, verify \in BOOLEAN : ReadPointer(k, verify)
  <2>1. PICK k \in Keys, verify \in BOOLEAN :
          /\ reader' = [at |-> "manifest", from |-> k, verify |-> verify, record |-> pointer[k],
                        manifest |-> None, held |-> FALSE]
          /\ pointer[k] # None /\ records[pointer[k].name] = pointer[k]
    BY <1>5 DEF ReadPointer
  <2>2. pointer[k] \in Record
    BY <1>0, <2>1 DEF Types
  <2>3. reader' \in Reader
    BY <2>1, <2>2 DEF Reader, ReaderPlaces
  <2>4. Named(k, pointer[k])
    <3>1. past[k] # <<>> /\ past[k][Len(past[k])] = pointer[k].name /\ past[k] \in Seq(Names)
      BY <1>0, <2>1 DEF Register, Current, Types
    <3>2. Len(past[k]) \in 1 .. Len(past[k])
      BY <3>1
    <3> QED
      BY <2>1, <3>1, <3>2 DEF Named
  <2>5. Verdict'
    BY <1>1, <2>1, <2>4 DEF Verdict, Named, NotReader, registry
  <2> QED
    BY <1>2, <1>3, <2>3, <2>5 DEF IInv
<1>6. ASSUME reader # None, reader' # None,
             \/ ReadManifest \/ ReadPending \/ ReadReady \/ ReadControl \/ ReadMarkers
             \/ ReadManifestAgain \/ ReadPendingAgain \/ ReadPointerAgain \/ Reverify \/ Attach
      PROVE  IInv'
  <2>0. /\ reader \in Reader /\ reader.at \in ReaderPlaces /\ reader.from \in Keys
        /\ reader.verify \in BOOLEAN /\ reader.record \in Record
        /\ reader.manifest \in Manifest \cup {None} /\ reader.held \in BOOLEAN
        /\ manifest \in Manifest
    BY <1>0, <1>6 DEF Types, Reader
  <2>1. /\ manifest' = manifest /\ pointer' = pointer /\ records' = records /\ past' = past
    BY <1>1 DEF NotReader, deployment, registry
  <2>2. Named(reader.from, reader.record)
    BY <1>0, <1>6 DEF Verdict
  <2> DEFINE Kept == \A f \in {"from", "record", "verify", "manifest", "held"} : reader'[f] = reader[f]
  <2>3. ASSUME reader' \in Reader, reader'.from = reader.from, reader'.record = reader.record,
               reader'.at \in {"ready", "control", "markers", "controlAgain", "manifestAgain",
                               "pendingAgain", "attached"} => reader'.verify,
               reader'.at # "manifest" =>
                 /\ reader'.manifest \in Manifest
                 /\ reader'.manifest = manifest \/ After(manifest, reader'.manifest),
               ~reader'.held =>
                 /\ reader'.at \in {"controlAgain", "manifestAgain"} =>
                       Moved \/ After(manifest, reader'.manifest)
                 /\ reader'.at \in {"pendingAgain", "pointerAgain"} => Moved
                 /\ reader'.at = "pending" /\ ~reader'.verify => Moved
                 /\ reader'.at \notin {"done", "attached"}
        PROVE  IInv'
    <3>1. Named(reader.from, reader.record)' /\ (Moved => Moved')
      BY <2>1, <2>2, <2>3 DEF Named, Moved
    <3>2. Verdict'
      BY <2>1, <2>3, <3>1 DEF Verdict, After
    <3> QED
      BY <1>2, <1>3, <2>3, <3>2 DEF IInv
  <2>4. reader.at # "manifest" =>
          /\ reader.manifest \in Manifest
          /\ reader.manifest = manifest \/ After(manifest, reader.manifest)
    BY <1>0, <1>6 DEF Verdict
  <2>5. CASE ReadManifest
    <3>1. /\ reader'.at = "pending" /\ reader'.manifest = manifest
          /\ reader'.from = reader.from /\ reader'.record = reader.record
          /\ reader'.verify = reader.verify
      BY <2>0, <2>5 DEF ReadManifest, Reader
    <3>2. reader'.held = (~reader.verify /\ pointer[reader.from] = reader.record)
      BY <2>0, <2>5 DEF ReadManifest, Reader, HoldsNow
    <3>3. reader' \in Reader
      BY <2>0, <2>5, <3>2 DEF ReadManifest, Reader, ReaderPlaces
    <3> QED
      BY <2>0, <2>3, <3>1, <3>2, <3>3 DEF Moved
  <2>6. CASE ReadPending
    <3>1. /\ reader.at = "pending"
          /\ reader' = [reader EXCEPT !.at = IF reader.verify THEN "ready" ELSE "pointerAgain"]
      BY <1>6, <2>6 DEF ReadPending, ReadOn, Reading
    <3>2. /\ reader' \in Reader /\ reader'.at = (IF reader.verify THEN "ready" ELSE "pointerAgain")
          /\ Kept
      BY <2>0, <3>1 DEF Reader, ReaderPlaces
    <3>3. ~reader.held /\ ~reader.verify => Moved
      BY <1>0, <1>6, <3>1 DEF Verdict
    <3> QED
      BY <2>0, <2>3, <2>4, <3>1, <3>2, <3>3
  <2>7. CASE ReadReady
    <3>1. reader.at = "ready" /\ reader' = [reader EXCEPT !.at = "control"]
      BY <1>6, <2>7 DEF ReadReady, ReadOn, Reading
    <3>2. reader' \in Reader /\ reader'.at = "control" /\ Kept
      BY <2>0, <3>1 DEF Reader, ReaderPlaces
    <3> QED
      BY <1>0, <1>6, <2>3, <2>4, <3>1, <3>2 DEF Verdict
  <2>8. CASE ReadControl
    <3>1. \/ reader.at = "control" /\ reader' = [reader EXCEPT !.at = "markers"]
          \/ reader.at = "controlAgain" /\ reader' = [reader EXCEPT !.at = "manifestAgain"]
      BY <1>6, <2>8 DEF ReadControl, ReadOn, Reading
    <3>2. /\ reader' \in Reader /\ Kept
          /\ \/ reader.at = "control" /\ reader'.at = "markers"
             \/ reader.at = "controlAgain" /\ reader'.at = "manifestAgain"
      BY <2>0, <3>1 DEF Reader, ReaderPlaces
    <3> QED
      BY <1>0, <1>6, <2>3, <2>4, <3>2 DEF Verdict
  <2>9. CASE ReadMarkers
    <3>1. /\ reader.at = "markers"
          /\ session = [id |-> reader.record.session, markers |-> MarkersOf(reader.record)]
          /\ reader' = [reader EXCEPT !.at = "controlAgain", !.held = HoldsNow(reader)]
      BY <1>6, <2>9 DEF ReadMarkers, Reading
    <3>2. HoldsNow(reader) <=> ~Moved /\ manifest = reader.manifest
      BY <3>1 DEF HoldsNow, Moved
    <3>3. HoldsNow(reader) \in BOOLEAN
      BY DEF HoldsNow
    <3>4. /\ reader' \in Reader /\ reader'.at = "controlAgain" /\ reader'.held = HoldsNow(reader)
          /\ reader'.from = reader.from /\ reader'.record = reader.record
          /\ reader'.verify = reader.verify /\ reader'.manifest = reader.manifest
      BY <2>0, <3>1, <3>3 DEF Reader, ReaderPlaces
    <3>5. reader.verify
      BY <1>0, <1>6, <3>1 DEF Verdict
    <3> QED
      BY <2>3, <2>4, <3>1, <3>2, <3>4, <3>5
  <2>10. CASE ReadManifestAgain
    <3>1. /\ reader.at = "manifestAgain" /\ manifest = reader.manifest
          /\ reader' = [reader EXCEPT !.at = "pendingAgain"]
      BY <1>6, <2>10 DEF ReadManifestAgain, ReadOn, Reading
    <3>2. reader' \in Reader /\ reader'.at = "pendingAgain" /\ Kept
      BY <2>0, <3>1 DEF Reader, ReaderPlaces
    <3>3. reader.verify /\ (~reader.held => Moved)
      BY <1>0, <1>6, <2>0, <3>1, AfterIsAnOrder DEF Verdict
    <3> QED
      BY <2>3, <2>4, <3>1, <3>2, <3>3
  <2>11. CASE ReadPendingAgain
    <3>1. reader.at = "pendingAgain" /\ reader' = [reader EXCEPT !.at = "pointerAgain"]
      BY <1>6, <2>11 DEF ReadPendingAgain, ReadOn, Reading
    <3>2. reader' \in Reader /\ reader'.at = "pointerAgain" /\ Kept
      BY <2>0, <3>1 DEF Reader, ReaderPlaces
    <3> QED
      BY <1>0, <1>6, <2>3, <2>4, <3>1, <3>2 DEF Verdict
  <2>12. CASE ReadPointerAgain
    <3>1. /\ reader.at = "pointerAgain" /\ ~Moved
          /\ reader' = [reader EXCEPT !.at = "done"]
      BY <1>6, <2>12 DEF ReadPointerAgain, ReadOn, Reading, Moved
    <3>2. reader' \in Reader /\ reader'.at = "done" /\ Kept
      BY <2>0, <3>1 DEF Reader, ReaderPlaces
    <3> QED
      BY <1>0, <1>6, <2>3, <2>4, <3>1, <3>2 DEF Verdict
  <2>13. CASE Reverify
    <3>1. reader' = [reader EXCEPT !.at = "manifest", !.verify = TRUE, !.manifest = None, !.held = FALSE]
      BY <2>13 DEF Reverify
    <3>2. /\ reader' \in Reader /\ reader'.at = "manifest"
          /\ reader'.from = reader.from /\ reader'.record = reader.record
      BY <2>0, <3>1 DEF Reader, ReaderPlaces
    <3> QED
      BY <2>3, <3>2
  <2>14. CASE Attach
    <3>1. reader.at = "done" /\ reader.verify /\ reader' = [reader EXCEPT !.at = "attached"]
      BY <2>14 DEF Attach, ReadOn, Reading
    <3>2. reader' \in Reader /\ reader'.at = "attached" /\ Kept
      BY <2>0, <3>1 DEF Reader, ReaderPlaces
    <3> QED
      BY <1>0, <1>6, <2>3, <2>4, <3>1, <3>2 DEF Verdict
  <2> QED
    BY <1>6, <2>5, <2>6, <2>7, <2>8, <2>9, <2>10, <2>11, <2>12, <2>13, <2>14
<1> QED
  BY <1>4, <1>5, <1>6 DEF Read, Keys, ReadManifest, ReadPending, ReadReady, ReadControl, ReadMarkers,
         ReadManifestAgain, ReadPendingAgain, ReadPointerAgain, Reverify, Attach, ReaderReturns, Reading

\* A farm in its first epoch: nothing is published.
LEMMA InitIInv == Init => IInv
<1> SUFFICES ASSUME Init PROVE IInv
  OBVIOUS
<1>1. Types
  <2>1. manifest \in Manifest
    BY AccessAssumption DEF Init, Manifest, Epochs
  <2>2. /\ session.id \in 1 .. MaxSessions /\ DOMAIN session.markers = MarkerKeys
        /\ session = [id |-> session.id, markers |-> session.markers]
    BY AccessAssumption DEF Init, Unset
  <2>3. /\ records \in [Names -> Record \cup {None}] /\ \A n \in Names : records[n] = None
        /\ pointer \in [Keys -> Record \cup {None}]
        /\ past \in [Keys -> Seq(Names)]
    BY EmptySeq DEF Init, Keys
  <2> QED
    BY <2>1, <2>2, <2>3 DEF Init, Types
<1>2. Register
  <2>1. ASSUME NEW k \in Keys
        PROVE  pointer[k] = None /\ past[k] = <<>>
    BY DEF Init, Keys
  <2> QED
    BY <2>1 DEF Register, Past, Current, IsInjective
<1> QED
  BY <1>1, <1>2 DEF Init, IInv, Publication, Verdict

-----------------------------------------------------------------------------
\* The inductive invariant: a pointer only moves on, and whatever a reader has not seen
\* move had not moved (registry.py, access/__init__.py).
THEOREM Inductive == Spec => []IInv
<1>1. Init => IInv
  BY InitIInv
<1>2. ASSUME IInv, [Next]_vars
      PROVE  IInv'
  <2>1. CASE UNCHANGED vars
    BY <1>2, <2>1 DEF vars, deployment, tmux, registry, IInv, Types, Register, Past, Chained, Current,
                      Publication, Acceptable, Expected, Verdict, Named, Moved, After
  <2> QED
    BY <1>2, <2>1, DeploymentStep, SessionStep, BeginStep, ObserveStep, PrepareStep, CommitStep, ReadStep
       DEF Next, Publish
<1> QED
  BY <1>1, <1>2, PTL DEF Spec

\* Every variable has its type in every state of every instance.
THEOREM TypeCorrect == Spec => []TypeOK
<1>1. IInv => TypeOK
  <2> SUFFICES ASSUME IInv PROVE TypeOK
    OBVIOUS
  <2>1. ASSUME NEW k \in Keys
        PROVE  /\ pointer[k] # None => /\ pointer[k] \in Record
                                       /\ pointer[k].role = "daemon" <=> k = "current.daemon"
               /\ past[k] \in Seq(Names)
    BY <2>1 DEF IInv, Types, Register, Current, PointerOf, Keys
  <2>2. writer = None \/ (writer.by \in Publishers /\ writer.at \in WriterPlaces
                          /\ writer.record \in Record /\ writer.missing \subseteq MarkerKeys)
    BY DEF IInv, Types, Writer
  <2>3. reader = None \/ (reader.at \in ReaderPlaces /\ reader.record \in Record)
    BY DEF IInv, Types, Reader
  <2> QED
    BY <2>1, <2>2, <2>3 DEF IInv, Types, TypeOK, Keys
<1> QED
  BY <1>1, Inductive, PTL

\* Whenever a publication dies and whoever publishes beside it, a pointer names a record
\* on disk, and a record that was replaced never becomes current again
\* (registry.py immutable, prepare, commit).
THEOREM PointersOnlyMoveOn == Spec => []PointerWhole
<1>1. IInv => PointerWhole
  <2> SUFFICES ASSUME IInv, NEW k \in DOMAIN pointer
               PROVE  /\ pointer[k] # None => binding /\ records[pointer[k].name] = pointer[k]
                      /\ IsInjective(past[k])
    BY DEF PointerWhole
  <2> QED
    BY DEF IInv, Types, Register, Past, Current
<1> QED
  BY <1>1, Inductive, PTL

\* A reader that holds no lock gives a verdict of one instant
\* (access/__init__.py live, resolve, verify; connect.py).
THEOREM VerdictsOfOneInstant == Spec => []VerdictHeld
<1>1. IInv => VerdictHeld
  BY DEF IInv, Verdict, VerdictHeld, Reading
<1> QED
  BY <1>1, Inductive, PTL
=============================================================================
