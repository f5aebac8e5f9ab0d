-------------------------------- MODULE Watch --------------------------------
(***************************************************************************)
(* farmkit watch (farmkit/watch.py): how the Master hears of what needs it.  *)
(* A watch polls `farm status` and pages through the audit log from the      *)
(* persisted cursor, without any lock; it returns hits and a token, and the  *)
(* Master acknowledges the token, which moves the cursor, when it has        *)
(* handled them.  The watch or the Master may die anywhere, and a token may  *)
(* be lost.  One token is outstanding at a time: acknowledging an older one  *)
(* late moves the cursor back, and the watch reports again what it reported. *)
(*                                                                          *)
(* A task is whether it is parked on a ruling, and its revision; an event is *)
(* a hit (a receipt to SUBMITTED, RESTART_LIMIT_REACHED, WORKER_ADOPTED) or  *)
(* noise; a position in the log is the number of events before it.  No       *)
(* --until.                                                                  *)
(***************************************************************************)
EXTENDS Integers, Sequences

CONSTANTS
    Tasks,
    None,
    Limit,              \* events --limit: the length of a page
    MaxEvents,          \* bound: audit events
    MaxPids,            \* bound: pids that daemons have; a later one may reuse a pid
    MaxDeaths,          \* bound: daemons that die
    MaxStalls,          \* bound: daemons that stall
    MaxFaults           \* bound: watches and Masters that die, cursors lost

ASSUME WatchAssumption ==
    /\ {Limit, MaxPids} \subseteq Nat \ {0}
    /\ {MaxEvents, MaxDeaths, MaxStalls, MaxFaults} \subseteq Nat
    /\ None \notin {"hit", "noise"}

VARIABLES
    tasks,          \* tasks/: parked, revision
    journal,        \* the event of the commit under way
    log,            \* events/log.ndjson: its complete lines
    torn,           \* the log ends in half a line
    daemon,         \* pid, up, the last tick, and whether it is 3 intervals old
    cursor,         \* the cursor file: events and states acknowledged
    watch,          \* the watch process
    token,          \* what the last watch returned, not acknowledged
    heard,          \* history: the hits the Master has handled
    faults          \* watches and Masters that died, cursors lost

farm == <<tasks, journal, log, torn, daemon>>
vars == <<farm, cursor, watch, token, heard, faults>>

-----------------------------------------------------------------------------
(* The farm. *)

Positions == 0 .. MaxEvents
EventHit(i) == <<"event", i>>
Park(t) == <<"ruling", t, tasks[t].revision>>
Down(pid) == <<"daemon-down", pid>>
Stalled(tick) == <<"daemon-stalled", tick>>
StateIds ==
    {<<"ruling", t, r>> : t \in Tasks, r \in Positions}
    \cup {Down(p) : p \in 1 .. MaxPids} \cup {Stalled(n) : n \in 0 .. MaxStalls}
Hits == StateIds \cup {EventHit(i) : i \in 1 .. MaxEvents}

Token == [hits : SUBSET Hits, events : Positions, states : SUBSET StateIds]
WatchPlaces == {"status", "events", "states"}

\* read_cursor of no file.
NoCursor == [events |-> 0, states |-> {}]

TypeOK ==
    /\ tasks \in [Tasks -> [parked : BOOLEAN, revision : Positions]]
    /\ journal \in {None, "hit", "noise"}
    /\ log \in Seq({"hit", "noise"}) /\ Len(log) <= MaxEvents
    /\ torn => journal # None
    /\ daemon \in [pid : 1 .. MaxPids, up : BOOLEAN, deaths : 0 .. MaxDeaths,
                   tick : 0 .. MaxStalls, late : BOOLEAN]
    /\ cursor.events <= Len(log) /\ cursor.states \subseteq StateIds
    /\ watch = None \/ (/\ watch.at \in WatchPlaces
                        /\ watch.scan \in 0 .. Len(log)
                        /\ watch.acked \subseteq StateIds /\ watch.seen \subseteq StateIds)
    /\ token = None \/ token \in Token

Init ==
    /\ tasks = [t \in Tasks |-> [parked |-> FALSE, revision |-> 0]]
    /\ journal = None /\ log = <<>> /\ torn = FALSE
    /\ daemon = [pid |-> 1, up |-> TRUE, deaths |-> 0, tick |-> 0, late |-> FALSE]
    /\ cursor = NoCursor
    /\ watch = None /\ token = None /\ heard = {} /\ faults = 0

master == <<cursor, watch, token, heard, faults>>

\* A commit of one task; its event follows.  A receipt that parks the task is noise
\* to a watch, a restart limit both parks it and is a hit.
Commit(t, parked, event) ==
    /\ journal = None /\ Len(log) < MaxEvents
    /\ tasks' = [tasks EXCEPT ![t] = [parked |-> parked, revision |-> @.revision + 1]]
    /\ journal' = event
    /\ UNCHANGED <<log, torn, daemon, master>>

\* EventLog.append, which a reader may see half done.
HalfAppend ==
    /\ journal # None /\ ~torn
    /\ torn' = TRUE
    /\ UNCHANGED <<tasks, journal, log, daemon, master>>
FinishAppend ==
    /\ journal # None
    /\ log' = Append(log, journal)
    /\ journal' = None /\ torn' = FALSE
    /\ UNCHANGED <<tasks, daemon, master>>

DaemonDies ==
    /\ daemon.up /\ daemon.deaths < MaxDeaths
    /\ daemon' = [daemon EXCEPT !.up = FALSE, !.deaths = @ + 1]
    /\ UNCHANGED <<tasks, journal, log, torn, master>>
DaemonStarts(pid) ==
    /\ ~daemon.up
    /\ daemon' = [daemon EXCEPT !.up = TRUE, !.pid = pid]
    /\ UNCHANGED <<tasks, journal, log, torn, master>>

\* Three intervals pass without a tick; and the next tick.
TickIsLate ==
    /\ ~daemon.late /\ daemon.tick < MaxStalls
    /\ daemon' = [daemon EXCEPT !.late = TRUE]
    /\ UNCHANGED <<tasks, journal, log, torn, master>>
Tick ==
    /\ daemon.up /\ daemon.late
    /\ daemon' = [daemon EXCEPT !.tick = @ + 1, !.late = FALSE]
    /\ UNCHANGED <<tasks, journal, log, torn, master>>

-----------------------------------------------------------------------------
(* The watch. *)

Smaller(a, b) == IF a < b THEN a ELSE b

\* Mutant: the cursor counts an append in progress.
EventsAfter_Torn(position) ==
    Smaller(position + Limit, IF torn THEN Len(log) + 1 ELSE Len(log))
\* events_after: the end of the page, after complete lines only.
EventsAfter(position) == Smaller(position + Limit, Len(log))

EventHits(from, to) ==
    {EventHit(i) : i \in {j \in from + 1 .. to : j <= Len(log) /\ log[j] = "hit"}}

\* What status shows: the parks, and what is wrong with the daemon.
StateHits ==
    {Park(t) : t \in {x \in Tasks : tasks[x].parked}}
    \cup IF ~daemon.up THEN {Down(daemon.pid)}
         ELSE IF daemon.late THEN {Stalled(daemon.tick)} ELSE {}
DaemonHits(seen) == {h \in seen : h[1] # "ruling"}

StartWatch ==
    /\ watch = None /\ token = None
    /\ watch' = [at |-> "status", scan |-> cursor.events, acked |-> cursor.states, seen |-> {}]
    /\ UNCHANGED <<farm, cursor, token, heard, faults>>

\* Status is read first; what it shows is used after the log was read.
ReadStatus ==
    /\ watch # None /\ watch.at = "status"
    /\ watch' = [watch EXCEPT !.at = "events", !.seen = StateHits]
    /\ UNCHANGED <<farm, cursor, token, heard, faults>>

Return(hits, events, states) ==
    /\ token' = [hits |-> hits, events |-> events, states |-> states]
    /\ watch' = None
    /\ UNCHANGED <<farm, cursor, heard, faults>>

\* Mutant: the status hits are looked at after the first page.
ReadPage_One ==
    /\ watch # None /\ watch.at = "events"
    /\ LET to == EventsAfter(watch.scan)
           hits == EventHits(watch.scan, to)
       IN  IF hits # {} THEN Return(hits, to, watch.acked)
           ELSE /\ watch' = [watch EXCEPT !.at = "states"]
                /\ UNCHANGED <<farm, cursor, token, heard, faults>>

\* One page: its hits are returned; a page without hits moves the scan on.
ReadPage ==
    /\ watch # None /\ watch.at = "events"
    /\ LET to == EventsAfter(watch.scan)
           hits == EventHits(watch.scan, to)
       IN  IF hits # {} THEN Return(hits, to, watch.acked)
           ELSE /\ watch' = IF to = watch.scan THEN [watch EXCEPT !.at = "states"]
                                               ELSE [watch EXCEPT !.scan = to]
                /\ UNCHANGED <<farm, cursor, token, heard, faults>>

\* Mutant: everything that was seen is acknowledged with what is returned.
ReadStates_Seen ==
    /\ watch # None /\ watch.at = "states"
    /\ LET down == DaemonHits(watch.seen) \ watch.acked
           parks == watch.seen \ (DaemonHits(watch.seen) \cup watch.acked)
       IN  \/ Return(IF down # {} THEN down ELSE parks, watch.scan, watch.acked \cup watch.seen)
           \/ /\ down \cup parks = {}
              /\ watch' = [watch EXCEPT !.at = "status"]
              /\ UNCHANGED <<farm, cursor, token, heard, faults>>

\* The daemon first, then the parks; then the deadline, or the next poll.
ReadStates ==
    /\ watch # None /\ watch.at = "states"
    /\ LET down == DaemonHits(watch.seen) \ watch.acked
           parks == watch.seen \ (DaemonHits(watch.seen) \cup watch.acked)
           news == IF down # {} THEN down ELSE parks
       IN  \/ Return(news, watch.scan, watch.acked \cup news)
           \/ /\ news = {}
              /\ watch' = [watch EXCEPT !.at = "status"]
              /\ UNCHANGED <<farm, cursor, token, heard, faults>>

\* The Master has handled the hits, and acknowledges the token.
Ack ==
    /\ token # None
    /\ heard' = heard \cup token.hits
    /\ cursor' = [events |-> token.events, states |-> token.states]
    /\ token' = None
    /\ UNCHANGED <<farm, watch, faults>>

\* The next watch finds no cursor file, which is kept per working directory.
CursorLost ==
    /\ faults < MaxFaults /\ faults' = faults + 1
    /\ cursor' = NoCursor
    /\ UNCHANGED <<farm, watch, token, heard>>

\* The watch dies, or the Master's session is lost with what it had to handle.
Loss ==
    /\ faults < MaxFaults /\ faults' = faults + 1
    /\ watch' = None /\ token' = None
    /\ UNCHANGED <<farm, cursor, heard>>

-----------------------------------------------------------------------------
Watching == StartWatch \/ ReadStatus \/ ReadPage \/ ReadStates

Next ==
    \/ \E t \in Tasks, parked \in BOOLEAN, event \in {"hit", "noise"} : Commit(t, parked, event)
    \/ HalfAppend \/ FinishAppend
    \/ DaemonDies \/ TickIsLate \/ Tick
    \/ \E pid \in 1 .. MaxPids : DaemonStarts(pid)
    \/ Watching \/ Ack \/ CursorLost \/ Loss

Spec == Init /\ [][Next]_vars

\* A commit is finished (its journal is redone); the loop of a watch goes on; the
\* Master handles what it is told and watches again, which is its documented duty
\* (README.md:266).  Nobody has to restart the daemon or to rule.
Fairness == WF_vars(FinishAppend) /\ WF_vars(Watching) /\ WF_vars(Ack)
FairSpec == Spec /\ Fairness

-----------------------------------------------------------------------------
(* Properties. *)

\* The cursor file never covers a hit the Master has not handled: not after a watch
\* that died, a token or a cursor that was lost, a page without hits, an
\* append in progress, or a status that was older than the log (watch.py:4-6 "until
\* then the same events are replayed on the next watch"; status.py events_after).
NothingSkipped ==
    /\ EventHits(0, cursor.events) \subseteq heard
    /\ cursor.states \subseteq heard

\* Every hit is heard: an event whatever stands before it in the log, a park that
\* lasts although its event is noise, a daemon that stays down or stalled.  (A
\* daemon that dies with the pid of an earlier one counts as heard with that one.)
EveryHitHeard ==
    /\ \A i \in 1 .. MaxEvents : (EventHit(i) \in EventHits(0, Len(log))) ~> (EventHit(i) \in heard)
    /\ \A t \in Tasks, n \in 1 .. MaxEvents :
          (tasks[t] = [parked |-> TRUE, revision |-> n])
             ~> (tasks[t].revision # n \/ Park(t) \in heard)
    /\ \A h \in {Down(p) : p \in 1 .. MaxPids} \cup {Stalled(n) : n \in 0 .. MaxStalls - 1} :
          (h \in StateHits) ~> (h \notin StateHits \/ h \in heard)
=============================================================================
