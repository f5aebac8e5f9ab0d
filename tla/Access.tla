------------------------------- MODULE Access -------------------------------
(***************************************************************************)
(* The access registry (agent_farm_runtime/access/): where the control      *)
(* session of a farm is.  A publication holds the publish lock of its       *)
(* target and the task mutation lock, which every change of the deployment  *)
(* takes too; it may die before each of its writes and be repeated, over    *)
(* and over.  The tmux session, the daemon and a publisher of another farm  *)
(* hold neither.                                                            *)
(* Readers (resolve, verify, connect) hold no lock: they read the pointer,   *)
(* the manifest, the session and then the manifest and the pointer again.   *)
(*                                                                          *)
(* One target of one farm with its two pointers, one control session name,  *)
(* one allocation per execution epoch, all commands as the owner and on the *)
(* deployment host.  A record stands for its digest: files are immutable.   *)
(***************************************************************************)
EXTENDS Integers, Sequences, FiniteSets, Functions

CONSTANTS
    Publishers,
    Generations,            \* --generation
    None,
    MaxEpochs,              \* bound: execution epochs
    MaxStarts,              \* bound: starts of the daemon
    MaxUpgrades,            \* bound: starts from another release
    MaxSessions             \* bound: sessions that had the name, one after another

ASSUME AccessAssumption ==
    /\ {MaxEpochs, MaxSessions} \subseteq Nat \ {0}
    /\ {MaxStarts, MaxUpgrades} \subseteq Nat
    /\ Generations \cap 1 .. MaxEpochs = {}
    /\ None \notin Generations \cup 1 .. MaxEpochs

VARIABLES
    manifest,       \* runtime/deployment.json
    recovery,       \* where offline recovery is: runtime/pending-recovery.json
    daemon,         \* the recorded daemon: down, up, or ticked (last_tick.json is its own)
    session,        \* the tmux session of that name, and its FARM_* environment
    foreign,        \* the markers another farm's publisher is about to set
    binding,        \* binding.json exists
    records,        \* epochs/<epoch>.json and generations/<id>.json
    pointer,        \* current.json and current.daemon.json
    past,           \* history: the records each pointer has named, oldest first
    asked,          \* what each publisher was asked for; it may repeat it at any time
    writer,         \* the publication that holds the locks
    reader          \* a resolve or verify under way

deployment == <<manifest, recovery, daemon>>
tmux == <<session, foreign>>
registry == <<binding, records, pointer, past>>
vars == <<deployment, tmux, registry, asked, writer, reader>>

-----------------------------------------------------------------------------
(* Records. *)

Epochs == 1 .. MaxEpochs
Roles == {"none", "interactive", "daemon"}
\* Mutant: one pointer for every role.
PointerOf_Shared(role) == "current"
PointerOf(role) == IF role = "daemon" THEN "current.daemon" ELSE "current"

\* open: no handoff phase but "claimed", no pending event.  start: the daemon
\* that wrote it, 0 after a claim or a recovery; it attests the allocation.
Manifest == [epoch : Epochs, start : 0 .. MaxStarts, build : 0 .. MaxUpgrades, open : BOOLEAN]

\* A schema-1 record is named by its epoch, a schema-2 record by its generation.
Names == Epochs \cup Generations
Record == [name : Names, role : Roles, epoch : Epochs, build : 0 .. MaxUpgrades,
           session : 1 .. MaxSessions, previous : Names \cup {None}]
Request == [generation : Generations \cup {None}, role : Roles, expected : Names \cup {None}]
ASSUME NoneAssumption == None \notin Record

MarkerKeys == {"farm", "epoch", "role"}
Unset == [k \in MarkerKeys |-> None]
ForeignMarkers == [farm |-> "them", epoch |-> 0]
Rank == [farm |-> 1, epoch |-> 2, role |-> 3]
IsFirst(key, keys) == key \in keys /\ \A k \in keys : Rank[key] <= Rank[k]

\* contract.markers: the role only when there is one.
MarkersOf(r) == [farm |-> "us", epoch |-> r.epoch,
                 role |-> IF r.role = "none" THEN None ELSE r.role]

WriterPlaces == {"bind", "set", "live", "binding", "record", "liveAgain", "commit"}
ReaderPlaces == {"manifest", "pending", "ready", "control", "markers", "controlAgain",
                 "manifestAgain", "pendingAgain", "pointerAgain", "done", "attached"}

TypeOK ==
    /\ manifest \in Manifest
    /\ recovery \in {"none", "begun", "installed"}
    /\ daemon \in {"down", "up", "ticked"}
    /\ session.id \in 1 .. MaxSessions
    /\ DOMAIN session.markers = MarkerKeys
    /\ foreign \subseteq DOMAIN ForeignMarkers
    /\ binding \in BOOLEAN
    /\ \A n \in Names : records[n] = None \/ (records[n] \in Record /\ records[n].name = n)
    /\ \A k \in {"current", "current.daemon"} :
          /\ pointer[k] # None => /\ pointer[k] \in Record
                                  /\ pointer[k].role = "daemon" <=> k = "current.daemon"
          /\ past[k] \in Seq(Names)
    /\ \A p \in Publishers : asked[p] = None \/ asked[p] \in Request
    /\ writer = None \/ (writer.by \in Publishers /\ writer.at \in WriterPlaces
                         /\ writer.record \in Record /\ writer.missing \subseteq MarkerKeys)
    /\ reader = None \/ (reader.at \in ReaderPlaces /\ reader.record \in Record)

\* A farm in its first epoch whose daemon has not started.
Init ==
    /\ manifest = [epoch |-> 1, start |-> 0, build |-> 0, open |-> TRUE]
    /\ recovery = "none"
    /\ daemon = "down"
    /\ session = [id |-> 1, markers |-> Unset]
    /\ foreign = {}
    /\ binding = FALSE
    /\ records = [n \in Names |-> None]
    /\ pointer = [k \in {"current", "current.daemon"} |-> None]
    /\ past = [k \in {"current", "current.daemon"} |-> <<>>]
    /\ asked = [p \in Publishers |-> None]
    /\ writer = None
    /\ reader = None

-----------------------------------------------------------------------------
(* The deployment.  Its writers hold the task mutation lock; see Turnover and *)
(* Recovery for what they do besides.                                         *)

MutationLock == writer = None /\ recovery = "none"

\* A handoff is announced, or a stop: closed to access.
Drain ==
    /\ MutationLock /\ manifest.open
    /\ manifest' = [manifest EXCEPT !.open = FALSE]
    /\ UNCHANGED <<recovery, daemon, tmux, registry, asked, writer, reader>>

\* claim_farm: a new epoch without a daemon and without an attestation.
NewEpoch == [manifest EXCEPT !.epoch = @ + 1, !.start = 0, !.open = TRUE]
Claim ==
    /\ MutationLock /\ ~manifest.open /\ daemon = "down"
    /\ manifest.epoch < MaxEpochs
    /\ manifest' = NewEpoch
    /\ UNCHANGED <<recovery, daemon, tmux, registry, asked, writer, reader>>

\* recover_farm: the marker, the manifest, the marker again.
Recover ==
    /\ writer = None /\ daemon = "down"
    /\ \/ /\ recovery = "none" /\ manifest.epoch < MaxEpochs
          /\ recovery' = "begun" /\ UNCHANGED manifest
       \/ recovery = "begun" /\ recovery' = "installed" /\ manifest' = NewEpoch
       \/ recovery = "installed" /\ recovery' = "none" /\ UNCHANGED manifest
    /\ UNCHANGED <<daemon, tmux, registry, asked, writer, reader>>

\* cmd_reconcile: capture_allocation attests the allocation of the epoch; a start
\* clears a stop.
StartDaemon ==
    /\ MutationLock /\ daemon = "down"
    /\ manifest.start < MaxStarts
    /\ \E build \in {manifest.build, manifest.build + 1}, open \in {manifest.open, TRUE} :
          /\ build <= MaxUpgrades
          /\ manifest' = [manifest EXCEPT !.start = @ + 1, !.build = build, !.open = open]
    /\ daemon' = "up"
    /\ UNCHANGED <<recovery, tmux, registry, asked, writer, reader>>

Tick ==
    /\ daemon = "up" /\ daemon' = "ticked"
    /\ UNCHANGED <<manifest, recovery, tmux, registry, asked, writer, reader>>

DaemonEnds ==
    /\ daemon # "down" /\ daemon' = "down"
    /\ UNCHANGED <<manifest, recovery, tmux, registry, asked, writer, reader>>

-----------------------------------------------------------------------------
(* tmux. *)

\* The session ends and another one takes its name; markers are set by session id,
\* so nothing that was under way reaches the new one.
Replaced ==
    /\ session.id < MaxSessions
    /\ session' = [id |-> session.id + 1, markers |-> Unset]
    /\ foreign' = {}
    /\ UNCHANGED <<deployment, registry, asked, writer, reader>>

\* Observations.bind of another farm's publication, which holds other locks: it
\* has seen a session without markers, and sets its own one by one.
ForeignObserves ==
    /\ session.markers = Unset /\ foreign = {}
    /\ foreign' = DOMAIN ForeignMarkers
    /\ UNCHANGED <<deployment, session, registry, asked, writer, reader>>
ForeignSets(key) ==
    /\ IsFirst(key, foreign)
    /\ foreign' = foreign \ {key}
    /\ session' = [session EXCEPT !.markers[key] = ForeignMarkers[key]]
    /\ UNCHANGED <<deployment, registry, asked, writer, reader>>

-----------------------------------------------------------------------------
(* Publication. *)

NameOf(r) == IF r = None THEN None ELSE r.name

\* An operator asks for a publication over what it has resolved, once.
Ask(p, generation, role) ==
    /\ asked[p] = None
    /\ generation = None => role = "none"
    /\ asked' = [asked EXCEPT ![p] =
                   [generation |-> generation, role |-> role,
                    expected |-> IF generation = None THEN None
                                 ELSE NameOf(pointer[PointerOf(role)])]]
    /\ UNCHANGED <<deployment, tmux, registry, writer, reader>>

\* manifest_for and match_manifest.
Admits(m, pending, r) ==
    ~pending /\ m.open /\ m.start # 0 /\ r.epoch = m.epoch /\ r.build = m.build

\* Access.live, at one instant: the ready daemon, the session and its markers.
Live(r) == /\ Admits(manifest, recovery # "none", r)
           /\ daemon = "ticked"
           /\ session = [id |-> r.session, markers |-> MarkersOf(r)]

RecordFor(req) ==
    [name |-> IF req.generation = None THEN manifest.epoch ELSE req.generation,
     role |-> req.role, epoch |-> manifest.epoch, build |-> manifest.build,
     session |-> session.id, previous |-> req.expected]

\* The compare-and-set of a generation, asked before the session is touched and
\* once more by Registry.commit.
\* Mutant: a generation is finished whatever is current.
Expected_Any(r) == TRUE
Expected(r) == r.name \in Generations => NameOf(pointer[PointerOf(r.role)]) = r.previous

\* An existing record is the same one; the pointer is where the caller saw it; a
\* target with a role, or with generations, is not published without.
Acceptable(r) ==
    LET current == pointer[PointerOf(r.role)] IN
    /\ records[r.name] \in {None, r}
    /\ current # None /\ current.role # "none" => r.role # "none"
    /\ current # None /\ current.name \in Generations => r.name \in Generations
    /\ Expected(r)

\* publish up to Observations.bind.
Begin(p) ==
    /\ asked[p] # None /\ MutationLock
    /\ LET r == RecordFor(asked[p]) IN
       /\ Admits(manifest, FALSE, r) /\ daemon = "ticked"
       /\ Acceptable(r)
       /\ r.name \in Generations => pointer[PointerOf(r.role)] # r
       /\ writer' = [by |-> p, at |-> "bind", record |-> r, missing |-> {}]
    /\ UNCHANGED <<deployment, tmux, registry, asked, reader>>

At(place) == writer # None /\ writer.at = place
GoTo(place) == writer' = [writer EXCEPT !.at = place]

Given(markers) == {k \in MarkerKeys : markers[k] # None}
BindObserves ==
    LET expected == MarkersOf(writer.record) IN
    /\ At("bind") /\ session.id = writer.record.session
    /\ \A k \in Given(session.markers) : session.markers[k] = expected[k]
    /\ writer' = [writer EXCEPT !.at = "set", !.missing = Given(expected) \ Given(session.markers)]
    /\ UNCHANGED <<deployment, tmux, registry, asked, reader>>

\* set-environment of one marker that was missing.
BindSets ==
    /\ At("set") /\ session.id = writer.record.session
    /\ \/ writer.missing = {} /\ GoTo("live") /\ UNCHANGED session
       \/ \E k \in writer.missing :
             /\ IsFirst(k, writer.missing)
             /\ session' = [session EXCEPT !.markers[k] = MarkersOf(writer.record)[k]]
             /\ writer' = [writer EXCEPT !.missing = @ \ {k}]
    /\ UNCHANGED <<deployment, foreign, registry, asked, reader>>

CheckLive ==
    /\ \/ At("live") /\ GoTo("binding")
       \/ At("liveAgain") /\ GoTo("commit")
    /\ Live(writer.record)
    /\ UNCHANGED <<deployment, tmux, registry, asked, reader>>

\* Registry.prepare: the permanent binding, then the immutable record.
WriteBinding ==
    /\ At("binding") /\ GoTo("record")
    /\ binding' = TRUE
    /\ UNCHANGED <<deployment, tmux, records, pointer, past, asked, reader>>
WriteRecord ==
    /\ At("record") /\ GoTo("liveAgain")
    /\ records' = [records EXCEPT ![writer.record.name] = writer.record]
    /\ UNCHANGED <<deployment, tmux, binding, pointer, past, asked, reader>>

\* Registry.commit: the pointer names the record.
Commit ==
    LET r == writer.record
        k == PointerOf(r.role)
    IN  /\ At("commit") /\ Expected(r)
        /\ pointer' = [pointer EXCEPT ![k] = r]
        /\ past' = IF pointer[k] = r THEN past ELSE [past EXCEPT ![k] = Append(@, r.name)]
        /\ writer' = None
        /\ UNCHANGED <<deployment, tmux, binding, records, asked, reader>>

\* A check of the session fails, or the command dies: the locks are released.
PublicationEnds ==
    /\ writer # None
    /\ writer' = None
    /\ UNCHANGED <<deployment, tmux, registry, asked, reader>>

Publish ==
    \/ BindObserves \/ BindSets \/ CheckLive \/ WriteBinding \/ WriteRecord \/ Commit
    \/ PublicationEnds

-----------------------------------------------------------------------------
(* Readers. *)

NotReader == <<deployment, tmux, registry, asked, writer>>
Reading(place) == reader # None /\ reader.at = place
ReadOn(place) == reader' = [reader EXCEPT !.at = place]

\* Registry.current: the pointer, its record and the binding.
ReadPointer(k, verify) ==
    /\ reader = None /\ pointer[k] # None
    /\ binding /\ records[pointer[k].name] = pointer[k]
    /\ reader' = [at |-> "manifest", from |-> k, verify |-> verify, record |-> pointer[k],
                  manifest |-> None, held |-> FALSE]
    /\ UNCHANGED NotReader

\* Whether what a verdict is about holds at this instant.
HoldsNow(r) ==
    /\ pointer[reader.from] = reader.record
    /\ manifest = r.manifest
    /\ r.verify => session = [id |-> reader.record.session, markers |-> MarkersOf(reader.record)]

\* manifest_for reads the manifest first ...
ReadManifest ==
    /\ Reading("manifest")
    /\ LET r == [reader EXCEPT !.at = "pending", !.manifest = manifest]
       IN  reader' = [r EXCEPT !.held = ~r.verify /\ HoldsNow(r)]
    /\ UNCHANGED NotReader

\* ... and the pending files second; match_manifest.
ReadPending ==
    /\ Reading("pending")
    /\ IF Admits(reader.manifest, recovery # "none", reader.record)
       THEN ReadOn(IF reader.verify THEN "ready" ELSE "pointerAgain")
       ELSE reader' = None
    /\ UNCHANGED NotReader

ReadReady ==
    /\ Reading("ready")
    /\ IF daemon = "ticked" /\ manifest.start = reader.manifest.start
       THEN ReadOn("control") ELSE reader' = None
    /\ UNCHANGED NotReader

ReadControl ==
    /\ Reading("control") \/ Reading("controlAgain")
    /\ IF session.id = reader.record.session
       THEN ReadOn(IF reader.at = "control" THEN "markers" ELSE "manifestAgain")
       ELSE reader' = None
    /\ UNCHANGED NotReader

ReadMarkers ==
    /\ Reading("markers")
    /\ IF session = [id |-> reader.record.session, markers |-> MarkersOf(reader.record)]
       THEN reader' = [reader EXCEPT !.at = "controlAgain", !.held = HoldsNow(reader)]
       ELSE reader' = None
    /\ UNCHANGED NotReader

\* Mutant: the manifest is not read a second time.
ReadManifestAgain_Skipped ==
    /\ Reading("manifestAgain") /\ ReadOn("pendingAgain")
    /\ UNCHANGED NotReader
ReadManifestAgain ==
    /\ Reading("manifestAgain")
    /\ IF manifest = reader.manifest THEN ReadOn("pendingAgain") ELSE reader' = None
    /\ UNCHANGED NotReader
ReadPendingAgain ==
    /\ Reading("pendingAgain")
    /\ IF recovery = "none" THEN ReadOn("pointerAgain") ELSE reader' = None
    /\ UNCHANGED NotReader

\* The verdict: RESOLVED or VERIFIED.
ReadPointerAgain ==
    /\ Reading("pointerAgain")
    /\ IF pointer[reader.from] = reader.record THEN ReadOn("done") ELSE reader' = None
    /\ UNCHANGED NotReader

\* connect and remote_attach: the same record, which has a role, is verified on its
\* host, again just before the attachment, and once more by the tmux server itself.
Reverify ==
    /\ Reading("done") /\ reader.record.role # "none"
    /\ pointer[reader.from] = reader.record
    /\ reader' = [reader EXCEPT !.at = "manifest", !.verify = TRUE, !.manifest = None, !.held = FALSE]
    /\ UNCHANGED NotReader
Attach ==
    /\ Reading("done") /\ reader.verify /\ session.id = reader.record.session
    /\ reader.record.name \in Generations => session.markers = MarkersOf(reader.record)
    /\ ReadOn("attached")
    /\ UNCHANGED NotReader

ReaderReturns ==
    /\ Reading("done") \/ Reading("attached")
    /\ reader' = None
    /\ UNCHANGED NotReader

Read ==
    \/ \E k \in {"current", "current.daemon"}, verify \in BOOLEAN : ReadPointer(k, verify)
    \/ ReadManifest \/ ReadPending \/ ReadReady \/ ReadControl \/ ReadMarkers
    \/ ReadManifestAgain \/ ReadPendingAgain \/ ReadPointerAgain
    \/ Reverify \/ Attach \/ ReaderReturns

-----------------------------------------------------------------------------
Next ==
    \/ Drain \/ Claim \/ Recover \/ StartDaemon \/ Tick \/ DaemonEnds
    \/ Replaced \/ ForeignObserves \/ \E key \in DOMAIN ForeignMarkers : ForeignSets(key)
    \/ \E p \in Publishers :
          \/ \E g \in Generations \cup {None}, role \in Roles : Ask(p, g, role)
          \/ Begin(p)
    \/ Publish \/ Read

Spec == Init /\ [][Next]_vars

-----------------------------------------------------------------------------
(* Properties. *)

\* Whenever a publication dies, and whoever publishes beside it, a pointer names a
\* record that is on disk as it was committed, with its target's binding, and a
\* record that was once replaced never becomes current again: neither a repeated
\* publication nor a generation id that is used twice brings an old endpoint back
\* (registry.py immutable, prepare, commit; docs/ACCESS_PROTOCOL.md:526-531).
PointerWhole ==
    \A k \in DOMAIN pointer :
        /\ pointer[k] # None => binding /\ records[pointer[k].name] = pointer[k]
        /\ IsInjective(past[k])

\* A verdict is of one instant: although a reader looks at the pointer, the
\* manifest, the session and its markers one after the other and holds no lock,
\* there was a moment at which all of them were as the verdict says
\* (access/__init__.py live, resolve, verify: "Point-in-time verification").  A
\* terminal is attached only upon such a verdict (connect.py).
VerdictHeld == Reading("done") \/ Reading("attached") => reader.held
=============================================================================
