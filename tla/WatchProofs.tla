----------------------------- MODULE WatchProofs -----------------------------
(***************************************************************************)
(* Theorems about Watch, for every set of tasks, page length and bound.     *)
(***************************************************************************)
EXTENDS Watch, TLAPS

-----------------------------------------------------------------------------
(* The inductive invariant.                                                 *)

\* TypeOK, with the shape of the records, and with what keeps the counters in
\* their bounds: a revision is an event, and only a tick that may come is late.
Watcher == [at : WatchPlaces, scan : Positions, acked : SUBSET StateIds, seen : SUBSET StateIds]
FarmOK ==
    /\ tasks \in [Tasks -> [parked : BOOLEAN, revision : Positions]]
    /\ journal \in {None, "hit", "noise"}
    /\ log \in Seq({"hit", "noise"}) /\ Len(log) <= MaxEvents
    /\ journal # None => Len(log) < MaxEvents
    /\ \A t \in Tasks : tasks[t].revision <= Len(log) + (IF journal = None THEN 0 ELSE 1)
    /\ torn => journal # None
    /\ daemon \in [pid : 1 .. MaxPids, up : BOOLEAN, deaths : 0 .. MaxDeaths,
                   tick : 0 .. MaxStalls, late : BOOLEAN]
    /\ daemon.late => daemon.tick < MaxStalls
MasterOK ==
    /\ cursor \in [events : Positions, states : SUBSET StateIds] /\ cursor.events <= Len(log)
    /\ watch = None \/ (watch \in Watcher /\ watch.scan <= Len(log))
    /\ token = None \/ (token \in Token /\ token.events <= Len(log))

\* What a position and a set of states cover was heard, or is in the token.
Covered(position, states, told) ==
    EventHits(0, position) \cup states \subseteq told
Heard ==
    /\ Covered(cursor.events, cursor.states, heard)
    /\ watch # None => Covered(watch.scan, watch.acked, heard)
    /\ token # None => Covered(token.events, token.states, heard \cup token.hits)

IInv == FarmOK /\ MasterOK /\ Heard

-----------------------------------------------------------------------------
(* Lemmas about the operators.                                              *)

\* The end of a page is a position of the log, not before its start.
LEMMA PageEnd ==
    ASSUME FarmOK, NEW from \in Positions, from <= Len(log)
    PROVE  /\ EventsAfter(from) \in Positions
           /\ from <= EventsAfter(from) /\ EventsAfter(from) <= Len(log)
<1>1. Len(log) \in Nat /\ Len(log) <= MaxEvents
  BY DEF FarmOK
<1> QED
  BY <1>1, WatchAssumption DEF EventsAfter, Smaller, Positions

\* The hits up to the end of a page are those before it and those of the page.
LEMMA HitsSplit ==
    ASSUME NEW from \in Nat, NEW to \in Nat, from <= to
    PROVE  EventHits(0, to) = EventHits(0, from) \cup EventHits(from, to)
<1>1. {j \in 0 + 1 .. to : j <= Len(log) /\ log[j] = "hit"} =
        {j \in 0 + 1 .. from : j <= Len(log) /\ log[j] = "hit"}
        \cup {j \in from + 1 .. to : j <= Len(log) /\ log[j] = "hit"}
  OBVIOUS
<1> QED
  BY <1>1 DEF EventHits

\* An event that is appended is after every position of the log.
LEMMA HitsStay ==
    ASSUME FarmOK, FinishAppend, NEW to \in Positions, to <= Len(log)
    PROVE  EventHits(0, to)' = EventHits(0, to)
<1>1. log \in Seq({"hit", "noise"}) /\ journal \in {"hit", "noise"} /\ log' = Append(log, journal)
  BY DEF FarmOK, FinishAppend
<1>2. Len(log') = Len(log) + 1 /\ \A j \in 1 .. Len(log) : log'[j] = log[j]
  BY <1>1
<1>3. {j \in 0 + 1 .. to : j <= Len(log') /\ log'[j] = "hit"} =
        {j \in 0 + 1 .. to : j <= Len(log) /\ log[j] = "hit"}
  BY <1>1, <1>2 DEF Positions
<1> QED
  BY <1>3 DEF EventHits

\* Hits have the type of a token's.
LEMMA HitTypes ==
    ASSUME FarmOK
    PROVE  /\ StateHits \subseteq StateIds
           /\ \A from, to \in Positions : EventHits(from, to) \subseteq Hits
<1>1. ASSUME NEW t \in Tasks
      PROVE  Park(t) \in StateIds
  <2>1. tasks[t].revision \in Positions
    BY DEF FarmOK
  <2> QED
    BY <2>1 DEF Park, StateIds
<1>2. Down(daemon.pid) \in StateIds /\ Stalled(daemon.tick) \in StateIds
  BY DEF FarmOK, StateIds
<1>3. \A from, to \in Positions : EventHits(from, to) \subseteq Hits
  BY WatchAssumption DEF EventHits, Hits, Positions
<1> QED
  BY <1>1, <1>2, <1>3 DEF StateHits

-----------------------------------------------------------------------------
(* The steps.                                                               *)

\* The farm: a commit, its event, the daemon.
LEMMA FarmStep ==
    ASSUME IInv, UNCHANGED master,
           \/ \E t \in Tasks, parked \in BOOLEAN, event \in {"hit", "noise"} : Commit(t, parked, event)
           \/ HalfAppend \/ FinishAppend
           \/ DaemonDies \/ TickIsLate \/ Tick
           \/ \E pid \in 1 .. MaxPids : DaemonStarts(pid)
    PROVE  IInv'
<1> USE WatchAssumption
<1>0. FarmOK /\ MasterOK /\ Heard /\ Len(log) \in Nat
  BY DEF IInv, FarmOK
<1>1. FarmOK'
  <2>1. ASSUME NEW t \in Tasks, NEW parked \in BOOLEAN, NEW event \in {"hit", "noise"},
               Commit(t, parked, event)
        PROVE  FarmOK'
    <3>1. /\ tasks[t].revision \in Nat /\ tasks[t].revision <= Len(log) /\ Len(log) < MaxEvents
          /\ journal = None
          /\ tasks' = [tasks EXCEPT ![t] = [parked |-> parked, revision |-> tasks[t].revision + 1]]
          /\ journal' = event /\ UNCHANGED <<log, torn, daemon>>
      BY <1>0, <2>1 DEF FarmOK, Commit, Positions
    <3>2. tasks[t].revision + 1 \in Positions
      BY <1>0, <3>1 DEF Positions
    <3>3. tasks' \in [Tasks -> [parked : BOOLEAN, revision : Positions]]
      BY <1>0, <3>1, <3>2 DEF FarmOK
    <3>4. \A u \in Tasks : tasks'[u].revision <= Len(log) + 1
      BY <1>0, <3>1 DEF FarmOK, Positions
    <3>5. journal' # None /\ journal' \in {"hit", "noise"}
      BY <3>1
    <3> QED
      BY <1>0, <3>1, <3>3, <3>4, <3>5 DEF FarmOK
  <2>2. CASE HalfAppend
    BY <1>0, <2>2 DEF FarmOK, HalfAppend
  <2>3. CASE FinishAppend
    <3>1. /\ journal \in {"hit", "noise"} /\ log' = Append(log, journal) /\ Len(log) < MaxEvents
          /\ UNCHANGED <<tasks, daemon>> /\ torn' = FALSE /\ journal' = None
      BY <1>0, <2>3 DEF FarmOK, FinishAppend
    <3>2. log' \in Seq({"hit", "noise"}) /\ Len(log') = Len(log) + 1
      BY <1>0, <3>1 DEF FarmOK
    <3>3. \A t \in Tasks : tasks'[t].revision <= Len(log')
      BY <1>0, <3>1, <3>2 DEF FarmOK, Positions
    <3> QED
      BY <1>0, <3>1, <3>2, <3>3 DEF FarmOK
  <2>4. ASSUME DaemonDies \/ TickIsLate \/ Tick \/ \E pid \in 1 .. MaxPids : DaemonStarts(pid)
        PROVE  FarmOK'
    <3> DEFINE Daemon == [pid : 1 .. MaxPids, up : BOOLEAN, deaths : 0 .. MaxDeaths,
                          tick : 0 .. MaxStalls, late : BOOLEAN]
    <3>0. daemon \in Daemon /\ (daemon.late => daemon.tick < MaxStalls)
      BY <1>0 DEF FarmOK
    <3>1. UNCHANGED <<tasks, journal, log, torn>>
      BY <2>4 DEF DaemonDies, TickIsLate, Tick, DaemonStarts
    <3>2. daemon' \in Daemon /\ (daemon'.late => daemon'.tick < MaxStalls)
      <4>1. CASE DaemonDies
        <5>1. daemon.deaths + 1 \in 0 .. MaxDeaths
          BY <3>0, <4>1 DEF DaemonDies
        <5> QED
          BY <3>0, <4>1, <5>1 DEF DaemonDies
      <4>2. CASE TickIsLate
        BY <3>0, <4>2 DEF TickIsLate
      <4>3. CASE Tick
        <5>1. daemon.tick + 1 \in 0 .. MaxStalls
          BY <3>0, <4>3 DEF Tick
        <5> QED
          BY <3>0, <4>3, <5>1 DEF Tick
      <4>4. CASE \E pid \in 1 .. MaxPids : DaemonStarts(pid)
        BY <3>0, <4>4 DEF DaemonStarts
      <4> QED
        BY <2>4, <4>1, <4>2, <4>3, <4>4
    <3> QED
      BY <1>0, <3>1, <3>2 DEF FarmOK
  <2> QED
    BY <2>1, <2>2, <2>3, <2>4
<1>2. CASE FinishAppend
  <2>1. Len(log') = Len(log) + 1
    BY <1>0, <1>2 DEF FinishAppend, FarmOK
  <2>2. MasterOK'
    BY <1>0, <2>1 DEF MasterOK, master, Watcher, Token, Positions
  <2>3. Heard'
    <3>1. \A to \in Positions : to <= Len(log) => EventHits(0, to)' = EventHits(0, to)
      BY <1>0, <1>2, HitsStay
    <3>2. /\ EventHits(0, cursor.events)' = EventHits(0, cursor.events)
          /\ watch # None => EventHits(0, watch.scan)' = EventHits(0, watch.scan)
          /\ token # None => EventHits(0, token.events)' = EventHits(0, token.events)
      BY <1>0, <3>1 DEF MasterOK, master, Watcher, Token
    <3> QED
      BY <1>0, <3>2 DEF Heard, Covered, master
  <2> QED
    BY <1>1, <2>2, <2>3 DEF IInv
<1>3. CASE ~FinishAppend
  <2>1. log' = log
    BY <1>3 DEF Commit, HalfAppend, DaemonDies, TickIsLate, Tick, DaemonStarts
  <2> QED
    BY <1>0, <1>1, <2>1 DEF IInv, MasterOK, Heard, Covered, EventHits, master
<1> QED
  BY <1>2, <1>3

\* The watch starts at the cursor, reads the status, pages through the log, looks
\* at the states.
LEMMA WatchStep ==
    ASSUME IInv, Watching
    PROVE  IInv'
<1>0. FarmOK /\ MasterOK /\ Heard
  BY DEF IInv
<1>1. FarmOK' /\ UNCHANGED <<log, cursor, heard>>
  BY <1>0 DEF FarmOK, Watching, StartWatch, ReadStatus, ReadPage, ReadStates, Return, farm
<1>2. \A from, to : EventHits(from, to)' = EventHits(from, to)
  BY <1>1 DEF EventHits
<1>3. CASE StartWatch
  <2>1. watch' \in Watcher /\ watch'.scan = cursor.events /\ watch'.acked = cursor.states /\ token' = token
    BY <1>0, <1>3 DEF StartWatch, MasterOK, Watcher, WatchPlaces
  <2> QED
    BY <1>0, <1>1, <1>2, <2>1 DEF IInv, MasterOK, Heard, Covered
<1>4. CASE ReadStatus
  <2>1. /\ watch \in Watcher /\ watch' \in Watcher /\ watch'.scan = watch.scan
        /\ watch'.acked = watch.acked /\ token' = token
    BY <1>0, <1>4, HitTypes DEF ReadStatus, MasterOK, Watcher, WatchPlaces
  <2> QED
    BY <1>0, <1>1, <1>2, <1>4, <2>1 DEF ReadStatus, IInv, MasterOK, Heard, Covered
<1>5. CASE ReadPage
  <2> DEFINE to == EventsAfter(watch.scan)
             hits == EventHits(watch.scan, to)
  <2>1. /\ watch # None /\ watch \in Watcher /\ watch.scan \in Positions /\ watch.scan <= Len(log)
        /\ watch.acked \in SUBSET StateIds
        /\ Covered(watch.scan, watch.acked, heard)
    BY <1>0, <1>5 DEF ReadPage, MasterOK, Watcher, Heard
  <2>2. to \in Positions /\ watch.scan <= to /\ to <= Len(log) /\ hits \in SUBSET Hits
    BY <1>0, <2>1, PageEnd, HitTypes
  <2>3. EventHits(0, to) = EventHits(0, watch.scan) \cup hits
    BY <2>1, <2>2, HitsSplit DEF Positions
  <2>4. CASE Return(hits, to, watch.acked)
    <3>1. token' = [hits |-> hits, events |-> to, states |-> watch.acked] /\ watch' = None
      BY <2>4 DEF Return
    <3>2. token' \in Token
      BY <2>1, <2>2, <3>1 DEF Token
    <3>3. Covered(to, watch.acked, heard \cup hits)
      BY <2>1, <2>3 DEF Covered
    <3> QED
      BY <1>0, <1>1, <1>2, <2>2, <3>1, <3>2, <3>3 DEF IInv, MasterOK, Heard, Covered
  <2>5. CASE hits = {} /\ token' = token /\ watch' \in {[watch EXCEPT !.at = "states"], [watch EXCEPT !.scan = to]}
    <3>1. /\ watch' \in Watcher /\ watch'.acked = watch.acked
          /\ watch'.scan \in {watch.scan, to}
      BY <2>1, <2>2, <2>5 DEF Watcher, WatchPlaces
    <3>2. EventHits(0, watch'.scan) = EventHits(0, watch.scan)
      BY <2>3, <2>5, <3>1
    <3> QED
      BY <1>0, <1>1, <1>2, <2>1, <2>2, <2>5, <3>1, <3>2 DEF IInv, MasterOK, Heard, Covered
  <2> QED
    BY <1>5, <2>4, <2>5 DEF ReadPage
<1>6. CASE ReadStates
  <2>1. /\ watch # None /\ watch \in Watcher /\ watch.scan \in Positions /\ watch.scan <= Len(log)
        /\ watch.acked \in SUBSET StateIds /\ watch.seen \in SUBSET StateIds
        /\ Covered(watch.scan, watch.acked, heard)
    BY <1>0, <1>6 DEF ReadStates, MasterOK, Watcher, Heard
  <2>2. ASSUME NEW news \in SUBSET watch.seen, Return(news, watch.scan, watch.acked \cup news)
        PROVE  IInv'
    <3>1. /\ token' = [hits |-> news, events |-> watch.scan, states |-> watch.acked \cup news]
          /\ watch' = None
      BY <2>2 DEF Return
    <3>2. token' \in Token
      BY <2>1, <2>2, <3>1 DEF Token, Hits
    <3> QED
      BY <1>0, <1>1, <1>2, <2>1, <3>1, <3>2 DEF IInv, MasterOK, Heard, Covered
  <2>3. CASE token' = token /\ watch' = [watch EXCEPT !.at = "status"]
    <3>1. watch' \in Watcher /\ watch'.acked = watch.acked /\ watch'.scan = watch.scan
      BY <2>1, <2>3 DEF Watcher, WatchPlaces
    <3> QED
      BY <1>0, <1>1, <1>2, <2>1, <2>3, <3>1 DEF IInv, MasterOK, Heard, Covered
  <2> QED
    BY <1>6, <2>2, <2>3 DEF ReadStates, DaemonHits
<1> QED
  BY <1>3, <1>4, <1>5, <1>6 DEF Watching

\* The Master acknowledges what it has handled; watches, Masters and cursors are lost.
LEMMA MasterStep ==
    ASSUME IInv, Ack \/ CursorLost \/ Loss
    PROVE  IInv'
<1>0. FarmOK /\ MasterOK /\ Heard
  BY DEF IInv
<1>1. FarmOK' /\ UNCHANGED log
  BY <1>0 DEF FarmOK, Ack, CursorLost, Loss, farm
<1>2. \A from, to : EventHits(from, to)' = EventHits(from, to)
  BY <1>1 DEF EventHits
<1>3. CASE Ack
  <2>1. /\ token \in Token /\ token.events <= Len(log)
        /\ Covered(token.events, token.states, heard \cup token.hits)
    BY <1>0, <1>3 DEF Ack, MasterOK, Heard
  <2>2. /\ cursor' = [events |-> token.events, states |-> token.states]
        /\ heard' = heard \cup token.hits /\ watch' = watch /\ token' = None
    BY <1>3 DEF Ack
  <2>3. cursor' \in [events : Positions, states : SUBSET StateIds]
    BY <2>1, <2>2 DEF Token
  <2> QED
    BY <1>0, <1>1, <1>2, <2>1, <2>2, <2>3 DEF IInv, MasterOK, Heard, Covered
<1>4. CASE CursorLost
  <2>1. cursor' = [events |-> 0, states |-> {}] /\ UNCHANGED <<watch, token, heard>>
    BY <1>4 DEF CursorLost, NoCursor
  <2>2. EventHits(0, 0) = {}
    BY DEF EventHits
  <2>3. 0 \in Positions /\ 0 <= Len(log)
    BY <1>0, WatchAssumption DEF Positions, FarmOK
  <2> QED
    BY <1>0, <1>1, <1>2, <2>1, <2>2, <2>3 DEF IInv, MasterOK, Heard, Covered
<1>5. CASE Loss
  BY <1>0, <1>1, <1>2, <1>5 DEF Loss, IInv, MasterOK, Heard, Covered
<1> QED
  BY <1>3, <1>4, <1>5

\* Nothing happened yet.
LEMMA InitIInv == Init => IInv
<1> SUFFICES ASSUME Init PROVE IInv
  OBVIOUS
<1>1. 0 \in Positions /\ Len(<<>>) = 0
  BY WatchAssumption DEF Positions
<1>2. FarmOK
  BY <1>1, WatchAssumption DEF Init, FarmOK
<1>3. EventHits(0, 0) = {}
  BY DEF EventHits
<1> QED
  BY <1>1, <1>2, <1>3 DEF Init, IInv, MasterOK, Heard, Covered, NoCursor

\* The inductive invariant: whatever the cursor, a scan or a token covers was heard,
\* or is in the token (watch.py, status.py events_after).
THEOREM Inductive == Spec => []IInv
<1>1. Init => IInv
  BY InitIInv
<1>2. ASSUME IInv, [Next]_vars
      PROVE  IInv'
  <2>1. CASE \/ \E t \in Tasks, parked \in BOOLEAN, event \in {"hit", "noise"} : Commit(t, parked, event)
             \/ HalfAppend \/ FinishAppend
             \/ DaemonDies \/ TickIsLate \/ Tick
             \/ \E pid \in 1 .. MaxPids : DaemonStarts(pid)
    <3>1. UNCHANGED master
      BY <2>1 DEF Commit, HalfAppend, FinishAppend, DaemonDies, TickIsLate, Tick, DaemonStarts
    <3> QED
      BY <1>2, <2>1, <3>1, FarmStep
  <2>2. CASE UNCHANGED vars
    BY <1>2, <2>2 DEF vars, farm, IInv, FarmOK, MasterOK, Heard, Covered, EventHits
  <2> QED
    BY <1>2, <2>1, <2>2, WatchStep, MasterStep DEF Next
<1> QED
  BY <1>1, <1>2, PTL DEF Spec

\* Every variable of the watch has its type in every state of every instance.
THEOREM TypeCorrect == Spec => []TypeOK
<1>1. IInv => TypeOK
  <2> SUFFICES ASSUME IInv PROVE TypeOK
    OBVIOUS
  <2>1. Len(log) \in Nat
    BY DEF IInv, FarmOK
  <2>2. watch = None \/ (/\ watch.at \in WatchPlaces
                         /\ watch.scan \in 0 .. Len(log)
                         /\ watch.acked \subseteq StateIds /\ watch.seen \subseteq StateIds)
    BY <2>1 DEF IInv, MasterOK, Watcher, Positions
  <2> QED
    BY <2>2 DEF IInv, FarmOK, MasterOK, TypeOK
<1> QED
  BY <1>1, Inductive, PTL

\* The cursor never covers a hit the Master has not handled, whatever dies or is
\* lost, and in whatever order tokens are acknowledged (watch.py:4-6).
THEOREM NoHitSkipped == Spec => []NothingSkipped
<1>1. IInv => NothingSkipped
  BY DEF IInv, Heard, Covered, NothingSkipped
<1> QED
  BY <1>1, Inductive, PTL
=============================================================================
