------------------------------- MODULE Runner -------------------------------
(***************************************************************************)
(* The worker's tick (farmkit: runner.py, steps.py, ledger.py, intent.py,   *)
(* classify.py, adopt.py): it reconciles submissions whose job id is        *)
(* unknown, observes jobs, verifies and publishes what ended, retries or    *)
(* parks what failed, launches what is ready and tells what it waits for.   *)
(*                                                                          *)
(* A workspace has one writer, so a tick is sequential; what meets it is    *)
(* the scheduler, people who edit inputs or release a parked step, and its  *)
(* own death. There is a step of its own between any two durable writes.    *)
(***************************************************************************)
EXTENDS Integers, FiniteSets, Sequences, SequencesExt

CONSTANTS
    Steps,          \* ids of the expanded steps
    Specs,          \* the steps in the order of steps.toml
    Plan,           \* per step, the fields of StepSpec that control it
    MaxAuto,        \* automatic retries per failure class
    Earlier,        \* steps with a published result of an earlier round
    MaxCrashes,     \* bound: ticks that die
    MaxAnswers,     \* bound: sbatch calls that are refused or without a usable answer
    MaxBadEnds,     \* bound: executions that end badly
    MaxActs,        \* bound: releases by a ruling, edits of inputs, adoptions, verifications
    MaxMishaps      \* bound: all of these together

Classes == {"infra", "code", "science", "budget", "unknown"}

StepSpec == [kind : {"sbatch", "local"},
             after : SUBSET Steps,              \* plain and group dependencies
             prev : Steps \cup {"none"},        \* chain:<previous segment>
             pool : STRING, root : STRING,      \* template, chain_root
             segment : Nat, concurrency : Nat,  \* 0 for None
             dir : BOOLEAN]                     \* its second output is a directory

\* Every step declares a main output, a JSON file (path_problems, main_output).

ASSUME RunnerAssumption ==
    /\ "none" \notin Steps /\ Specs \in Seq(Steps) /\ Range(Specs) = Steps
    /\ \A s \in Steps : Plan[s] \in StepSpec
    /\ MaxAuto \in [Classes -> Nat] /\ Earlier \subseteq Steps
    /\ {MaxCrashes, MaxAnswers, MaxBadEnds, MaxActs, MaxMishaps} \subseteq Nat

VARIABLES
    ledger,     \* per step, its attempt records as they are on disk, oldest first
    jobs,       \* per attempt, the execution: the scheduler's job or the local process
    published,  \* per step, what the workspace shows of its outputs: Gone, Torn or an attempt
    staging,    \* per attempt, what its publication left beside the directory
    inputs,     \* per step, the version of its inputs in the workspace
    tick,       \* the running tick: pc and what it holds in memory
    wait,       \* the receipt of the last tick, "none" before it and after a crash
    budget      \* what the bounds leave

vars == <<ledger, jobs, published, staging, inputs, tick, wait, budget>>
files == <<published, staging>>

-----------------------------------------------------------------------------
(* Records. *)

Gone == -1      \* no such path
Torn == -2      \* an incomplete copy; n > 0 is a copy of attempt n, 0 of an earlier round

\* How an execution ended. COMPLETED is split by what it left in its run directory: good
\* outputs, a main output that does not verify ("wrong"), a good one without the directory
\* ("nodir"), or no main output of its own ("missing").
Completed == {"good", "wrong", "nodir", "missing"}
Terminal == Completed \cup {"FAILED", "CANCELLED", "TIMEOUT", "NODE_FAIL"}
Execution == Terminal \cup {"none", "queued", "PREEMPTED"}

Attempt == [sub : {"intent", "submitted", "rejected", "unverified", "local", "adopted"},
            seen : BOOLEAN,                     \* a terminal observation is saved
            verdict : {"none", "ok", "bad"},
            failure : (Classes \ {"unknown"}) \cup {"none"},
            fate : {"none", "retried", "parked", "released"},
            published : BOOLEAN,                \* a tick published its outputs
            prior : 0..1,                       \* budget spent before adoption
            input : Nat,                        \* version of the inputs at submission
            dep : Nat]                          \* the producer's attempt it runs after, or 0

Free == [old |-> Gone, fresh |-> Gone, marker |-> FALSE]
Idle == [pc |-> "idle", at |-> <<>>, todo |-> {}, submitted |-> {}, back |-> "idle", reply |-> "none"]
NoWait == [kind |-> "none", at |-> <<>>]

Attempts == UNION {{<<s, n>> : n \in 1..Len(ledger[s])} : s \in Steps}
Rec(id) == ledger[id[1]][id[2]]
Job(id) == jobs[id[1]][id[2]]

Spend(what) == /\ budget[what] > 0 /\ budget.all > 0
               /\ budget' = [budget EXCEPT ![what] = @ - 1, !.all = @ - 1]

Init ==
    /\ ledger = [s \in Steps |-> <<>>]
    /\ jobs = [s \in Steps |-> <<>>]
    /\ published = [s \in Steps |-> LET copy == IF s \in Earlier THEN 0 ELSE Gone
                                    IN [main |-> copy, dir |-> copy]]
    /\ staging = [s \in Steps |-> <<>>]
    /\ inputs = [s \in Steps |-> 0]
    /\ tick = Idle
    /\ wait = NoWait
    /\ budget = [crash |-> MaxCrashes, answer |-> MaxAnswers, bad |-> MaxBadEnds, act |-> MaxActs,
                 all |-> MaxMishaps]

-----------------------------------------------------------------------------
(* What the ledger says (ledger.py, steps.py). *)

HasJob(a) == a.sub \in {"submitted", "adopted"}
Unknown == {id \in Attempts : Rec(id).sub \in {"intent", "unverified"}}
Unfinalized == {id \in Attempts : Rec(id).seen /\ Rec(id).verdict = "none" /\ Rec(id).failure = "none"}
InFlight == {id \in Attempts : HasJob(Rec(id)) /\ ~Rec(id).seen}
Parked == {id \in Attempts : Rec(id).fate = "parked"}

Tried(s) == ledger[s] # <<>>
Ok(s) == Tried(s) /\ Last(ledger[s]).verdict = "ok"

\* Mutant: a submission that accounting could not confirm counts as one that never was.
Unresolved_NotIfUnverified(s) ==
    Tried(s) /\ ~Ok(s) /\ Last(ledger[s]).fate = "none" /\ Last(ledger[s]).sub # "unverified"
\* Mutant: a retry that was decided and not yet submitted counts as one in progress.
Unresolved_Retried(s) == Tried(s) /\ ~Ok(s) /\ Last(ledger[s]).fate \in {"none", "retried"}

Unresolved(s) == Tried(s) /\ ~Ok(s) /\ Last(ledger[s]).fate = "none"

DependencyMet(s) ==
    /\ \A d \in Plan[s].after : Ok(d)
    /\ LET p == Plan[s].prev
       IN p # "none" => Tried(p) /\ HasJob(Last(ledger[p])) /\ Last(ledger[p]).fate # "parked"

ActiveInPool(s) ==
    {Plan[o].root : o \in {o \in Steps : /\ Plan[o].pool = Plan[s].pool
                                         /\ Plan[o].segment > 0
                                         /\ Unresolved(o)}}

Ready(s) ==
    /\ ~Ok(s) /\ ~Unresolved(s)
    /\ Tried(s) => Last(ledger[s]).fate # "parked"
    /\ DependencyMet(s)
    /\ ~ /\ Plan[s].concurrency > 0 /\ Plan[s].segment = 1
         /\ Cardinality(ActiveInPool(s)) >= Plan[s].concurrency

\* Mutant: what was spent before adoption is forgotten.
Used_SinceAdoption(s, class) ==
    Cardinality({n \in DOMAIN ledger[s] : ledger[s][n].failure = class})

\* Failures of a class so far, those from before adoption included; classify.retry_allowed.
Used(s, class) ==
    Cardinality({n \in DOMAIN ledger[s] : ledger[s][n].failure = class})
      + Cardinality({n \in DOMAIN ledger[s] : ledger[s][n].prior = 1})

\* What the checks say of a job that completed. An output that the run directory lacks is
\* looked for in the workspace. A main output found there "belongs to a different attempt",
\* and so does that of an adopted job, which cannot carry the attempt id of a record made
\* after it. A directory carries no attempt id: one of an earlier attempt passes.
Verify(id) ==
    CASE \/ Job(id) = "missing" \/ Rec(id).sub = "adopted"
         \/ Job(id) = "nodir" /\ published[id[1]].dir = Gone -> "code"
      [] Job(id) = "wrong" \/ Rec(id).input # inputs[id[1]] -> "science"
      [] OTHER -> "ok"

\* Mutant: NODE_FAIL is not among the infrastructure states.
Classify_NodeFail(id) ==
    CASE Job(id) = "NODE_FAIL" -> "unknown"
      [] Job(id) = "TIMEOUT" -> "budget"
      [] Job(id) \in {"FAILED", "CANCELLED"} -> "code"
      [] OTHER -> Verify(id)

Classify(id) ==
    CASE Job(id) = "NODE_FAIL" -> "infra"
      [] Job(id) = "TIMEOUT" -> "budget"
      [] Job(id) \in {"FAILED", "CANCELLED"} -> "code"
      [] OTHER -> Verify(id)

-----------------------------------------------------------------------------
(* The tick up to its launches: reconcile intents, finalize, observe. *)

Save(id, rec) == ledger' = [ledger EXCEPT ![id[1]][id[2]] = rec]
Goto(label) == tick' = [tick EXCEPT !.pc = label]
Turn(label, todo) == tick' = [tick EXCEPT !.pc = label, !.todo = todo]

\* The worker is launched or woken and runs `farmkit tick`.
StartTick ==
    /\ tick.pc = "idle"
    /\ Turn("reconcile", Unknown)
    /\ wait' = NoWait
    /\ UNCHANGED <<ledger, jobs, files, inputs, budget>>

\* intent.reconcile: accounting shows the job of this attempt, or nothing (yet).
Reconcile(id) ==
    /\ tick.pc = "reconcile" /\ id \in tick.todo
    /\ Turn("reconcile", tick.todo \ {id})
    /\ \/ Job(id) # "none" /\ Save(id, [Rec(id) EXCEPT !.sub = "submitted"])
       \/ Save(id, [Rec(id) EXCEPT !.sub = "unverified"])
    /\ UNCHANGED <<jobs, files, budget, inputs, wait>>

Reconciled ==
    /\ tick.pc = "reconcile" /\ tick.todo = {}
    /\ Turn("unfinalized", Unfinalized)
    /\ UNCHANGED <<ledger, jobs, files, budget, inputs, wait>>

Judge(id, from) == tick' = [tick EXCEPT !.pc = "judge", !.at = id, !.todo = @ \ {id}, !.back = from]

\* An execution ended and its verification was never recorded.
FinalizeLate(id) ==
    /\ tick.pc = "unfinalized" /\ id \in tick.todo
    /\ Judge(id, "unfinalized")
    /\ UNCHANGED <<ledger, jobs, files, budget, inputs, wait>>

Finalized ==
    /\ tick.pc = "unfinalized" /\ tick.todo = {}
    /\ Turn("inflight", InFlight)
    /\ UNCHANGED <<ledger, jobs, files, budget, inputs, wait>>

\* The scheduler says that the job ended. The observation is saved with its verdict only.
ObserveEnded(id) ==
    /\ tick.pc = "inflight" /\ id \in tick.todo /\ Job(id) \in Terminal
    /\ Judge(id, "inflight")
    /\ UNCHANGED <<ledger, jobs, files, budget, inputs, wait>>

\* It says something else, or cannot be asked: UNKNOWN never means ended.
ObserveElse(id) ==
    /\ tick.pc = "inflight" /\ id \in tick.todo
    /\ Turn("inflight", tick.todo \ {id})
    /\ UNCHANGED <<ledger, jobs, files, budget, inputs, wait>>

Observed ==
    /\ tick.pc = "inflight" /\ tick.todo = {}
    /\ Goto("launch")
    /\ UNCHANGED <<ledger, jobs, files, budget, inputs, wait>>

-----------------------------------------------------------------------------
(* _finalize: publish and certify, or retry, or park. *)

\* Mutant: the verdict is saved and the publication follows.
Verified_SaveFirst ==
    /\ tick.pc = "judge" /\ Classify(tick.at) = "ok"
    /\ Save(tick.at, [Rec(tick.at) EXCEPT !.seen = TRUE, !.verdict = "ok", !.published = TRUE])
    /\ Goto("publish")
    /\ UNCHANGED <<jobs, files, budget, inputs, wait>>

Verified ==
    /\ tick.pc = "judge" /\ Classify(tick.at) = "ok"
    /\ Goto("publish")
    /\ UNCHANGED <<ledger, jobs, files, budget, inputs, wait>>

\* Outputs are only verified of an execution that completed; else a verdict stays as it was.
Fail(fate) ==
    Save(tick.at, [Rec(tick.at) EXCEPT !.seen = TRUE, !.failure = Classify(tick.at), !.fate = fate,
                                       !.verdict = IF Job(tick.at) \in Completed THEN "bad" ELSE @])

Retry ==
    LET class == Classify(tick.at)
    IN /\ tick.pc = "judge" /\ class # "ok"
       /\ Used(tick.at[1], class) < MaxAuto[class]
       /\ Fail("retried")
       /\ Goto("relaunch")
       /\ UNCHANGED <<jobs, files, budget, inputs, wait>>

Park ==
    LET class == Classify(tick.at)
    IN /\ tick.pc = "judge" /\ class # "ok"
       /\ Used(tick.at[1], class) >= MaxAuto[class]
       /\ Fail("parked")
       /\ Goto(tick.back)
       /\ UNCHANGED <<jobs, files, budget, inputs, wait>>

Certify ==
    /\ tick.pc = "certify"
    /\ Save(tick.at, [Rec(tick.at) EXCEPT !.seen = TRUE, !.verdict = "ok", !.published = TRUE])
    /\ Goto(tick.back)
    /\ UNCHANGED <<jobs, files, budget, inputs, wait>>

-----------------------------------------------------------------------------
(* _publish. The main output is copied over the published file; then a directory that the
   attempt left is replaced by _replace_dir, with a staging copy, its marker and a backup. *)

Output == tick.at[1]
Staged == staging[tick.at[1]][tick.at[2]]
Stage(new) == staging' = [staging EXCEPT ![tick.at[1]][tick.at[2]] = new]
Show(copy) == published' = [published EXCEPT ![Output].dir = copy]
ShowMain(copy) == published' = [published EXCEPT ![Output].main = copy]
Whole(copy) == copy >= 0

OpenFile ==
    /\ tick.pc = "publish"
    /\ ShowMain(Torn)
    /\ Goto("file")
    /\ UNCHANGED <<ledger, jobs, staging, budget, inputs, wait>>

WriteFile ==
    /\ tick.pc = "file"
    /\ ShowMain(tick.at[2])
    /\ Goto(IF Plan[Output].dir /\ Job(tick.at) = "good" THEN "dir" ELSE "certify")
    /\ UNCHANGED <<ledger, jobs, staging, budget, inputs, wait>>

\* A staging copy without a marker is incomplete.
Discard ==
    /\ tick.pc = "dir"
    /\ Staged.fresh # Gone /\ ~Staged.marker
    /\ Stage([Staged EXCEPT !.fresh = Gone])
    /\ UNCHANGED <<ledger, jobs, published, tick, budget, inputs, wait>>

\* An earlier run installed the output; removing the backup is best effort.
FinishCleanup ==
    /\ tick.pc = "dir"
    /\ Staged.fresh = Gone /\ Staged.old # Gone /\ published[Output].dir # Gone
    /\ \E left \in {Gone, Torn} : Stage([Staged EXCEPT !.old = left, !.marker = FALSE])
    /\ Goto("certify")
    /\ UNCHANGED <<ledger, jobs, published, budget, inputs, wait>>

\* Mutant: the marker is written before the copy is complete.
StartCopy_MarksFirst ==
    /\ tick.pc = "dir"
    /\ Staged.fresh = Gone /\ (Staged.old = Gone \/ published[Output].dir = Gone)
    /\ Stage([Staged EXCEPT !.fresh = Torn, !.marker = TRUE])
    /\ Goto("copy")
    /\ UNCHANGED <<ledger, jobs, published, budget, inputs, wait>>

StartCopy ==
    /\ tick.pc = "dir"
    /\ Staged.fresh = Gone /\ (Staged.old = Gone \/ published[Output].dir = Gone)
    /\ Stage([Staged EXCEPT !.fresh = Torn, !.marker = FALSE])
    /\ Goto("copy")
    /\ UNCHANGED <<ledger, jobs, published, budget, inputs, wait>>

Copied ==
    /\ tick.pc = "copy"
    /\ Stage([Staged EXCEPT !.fresh = tick.at[2]])
    /\ Goto("mark")
    /\ UNCHANGED <<ledger, jobs, published, budget, inputs, wait>>

Mark ==
    /\ tick.pc = "mark"
    /\ Stage([Staged EXCEPT !.marker = TRUE])
    /\ Goto("aside")
    /\ UNCHANGED <<ledger, jobs, published, budget, inputs, wait>>

\* A complete staging copy is never copied again.
ReuseCopy ==
    /\ tick.pc = "dir"
    /\ Staged.fresh # Gone /\ Staged.marker
    /\ Goto("aside")
    /\ UNCHANGED <<ledger, jobs, files, budget, inputs, wait>>

\* dst -> old, over the backup of an even earlier run.
MoveAside ==
    /\ tick.pc = "aside"
    /\ IF published[Output].dir = Gone THEN UNCHANGED files
       ELSE Stage([Staged EXCEPT !.old = published[Output].dir]) /\ Show(Gone)
    /\ Goto("install")
    /\ UNCHANGED <<ledger, jobs, budget, inputs, wait>>

\* fresh -> dst.
Install ==
    /\ tick.pc = "install"
    /\ Show(Staged.fresh)
    /\ Stage([Staged EXCEPT !.fresh = Gone])
    /\ Goto("tidy")
    /\ UNCHANGED <<ledger, jobs, budget, inputs, wait>>

Tidy ==
    /\ tick.pc = "tidy"
    /\ \E left \in IF Staged.old = Gone THEN {Gone} ELSE {Gone, Torn} :
          Stage([Staged EXCEPT !.old = left])
    /\ Goto("unmark")
    /\ UNCHANGED <<ledger, jobs, published, budget, inputs, wait>>

Unmark ==
    /\ tick.pc = "unmark"
    /\ Stage([Staged EXCEPT !.marker = FALSE])
    /\ Goto("certify")
    /\ UNCHANGED <<ledger, jobs, published, budget, inputs, wait>>

-----------------------------------------------------------------------------
(* _launch: a new attempt, its intent on disk before anything is called. *)

\* Launches go on until nothing new is ready; a step is attempted once per tick.
Launchable(s) == Ready(s) /\ s \notin tick.submitted

Launching(s) ==
    \/ tick.pc = "relaunch" /\ s = tick.at[1]
    \/ /\ tick.pc = "launch" /\ Launchable(s)
       /\ \E n \in DOMAIN Specs : s = Specs[n] /\ \A m \in 1 .. n - 1 : ~Launchable(Specs[m])

\* The job a chain successor runs after: that of the producer's latest attempt, if known.
PreviousJob(s) ==
    LET p == Plan[s].prev
    IN IF p # "none" /\ Tried(p) /\ HasJob(Last(ledger[p])) THEN Len(ledger[p]) ELSE 0

Launch(s) ==
    LET local == Plan[s].kind = "local"
        rec == [sub |-> IF local THEN "local" ELSE "intent", seen |-> FALSE,
                verdict |-> "none", failure |-> "none", fate |-> "none", published |-> FALSE,
                prior |-> 0, input |-> inputs[s], dep |-> PreviousJob(s)]
    IN /\ Launching(s)
       /\ ledger' = [ledger EXCEPT ![s] = Append(@, rec)]
       /\ jobs' = [jobs EXCEPT ![s] = Append(@, "none")]
       /\ staging' = [staging EXCEPT ![s] = Append(@, Free)]
       /\ tick' = [tick EXCEPT !.pc = IF local THEN "run" ELSE "intent",
                               !.at = <<s, Len(ledger[s]) + 1>>,
                               !.submitted = @ \cup {s},
                               !.back = IF tick.pc = "launch" THEN "launch" ELSE @]
       /\ UNCHANGED <<published, budget, inputs, wait>>

Reply(answer, job) ==
    /\ jobs' = [jobs EXCEPT ![tick.at[1]][tick.at[2]] = job]
    /\ tick' = [tick EXCEPT !.pc = "called", !.reply = answer]
    /\ UNCHANGED <<ledger, files, inputs, wait>>

SbatchAccepts == tick.pc = "intent" /\ Reply("id", "queued") /\ UNCHANGED budget
\* It raises, times out or prints no job id: the job may be queued or not.
SbatchLost == /\ tick.pc = "intent" /\ Spend("answer")
              /\ \E job \in {"none", "queued"} : Reply("lost", job)
SbatchRefuses == tick.pc = "intent" /\ Spend("answer") /\ Reply("refused", "none")

SaveReply ==
    /\ tick.pc = "called"
    /\ Save(tick.at, [Rec(tick.at) EXCEPT !.sub = CASE tick.reply = "id" -> "submitted"
                                                    [] tick.reply = "refused" -> "rejected"
                                                    [] OTHER -> @])
    /\ tick' = [tick EXCEPT !.pc = IF tick.reply = "refused" THEN "refused" ELSE tick.back,
                            !.reply = "none"]
    /\ UNCHANGED <<jobs, files, budget, inputs, wait>>

ParkRefused ==
    /\ tick.pc = "refused"
    /\ Save(tick.at, [Rec(tick.at) EXCEPT !.failure = "code", !.fate = "parked"])
    /\ Goto(tick.back)
    /\ UNCHANGED <<jobs, files, budget, inputs, wait>>

\* A local step runs inside the tick; its end is saved before it is verified.
RunLocal ==
    /\ tick.pc = "run"
    /\ \E end \in Completed \cup {"FAILED"} :
          /\ end = "nodir" => Plan[Output].dir
          /\ jobs' = [jobs EXCEPT ![tick.at[1]][tick.at[2]] = end]
          /\ IF end = "good" THEN UNCHANGED budget ELSE Spend("bad")
    /\ Save(tick.at, [Rec(tick.at) EXCEPT !.seen = TRUE])
    /\ Goto("judge")
    /\ UNCHANGED <<files, inputs, wait>>

-----------------------------------------------------------------------------
(* _decide: what the receipt of this tick says. *)

Decide(w) ==
    IF InFlight # {} THEN w.kind = "job" /\ w.at \in InFlight   \* the lowest job id
    ELSE w = [kind |-> IF Unknown # {} THEN "submit"
                       ELSE IF Parked # {} THEN "parked"
                       ELSE IF \A s \in Steps : Ok(s) THEN "done" ELSE "no-progress",
              at |-> <<>>]

EndTick ==
    /\ tick.pc = "launch" /\ \A s \in Steps : ~Launchable(s)
    /\ tick' = Idle
    /\ \E w \in [kind : {"job", "submit", "parked", "done", "no-progress"},
                 at : InFlight \cup {<<>>}] : Decide(w) /\ wait' = w
    /\ UNCHANGED <<ledger, jobs, files, inputs, budget>>

\* The worker dies, or a publication raises. What it called may have been done.
Crash ==
    /\ tick.pc # "idle"
    /\ Spend("crash")
    /\ tick' = Idle
    /\ UNCHANGED <<ledger, jobs, files, inputs, wait>>

-----------------------------------------------------------------------------
(* The environment: scheduler, rulings, edits, jobs from before the ledger. *)

Producer(id) == IF Rec(id).dep = 0 THEN "good" ELSE jobs[Plan[id[1]].prev][Rec(id).dep]

EndJob(id) ==
    /\ id \in Attempts /\ Job(id) = "queued" /\ Producer(id) \in Completed
    /\ \E end \in (Terminal \ {"CANCELLED"}) \cup {"PREEMPTED"} :
          /\ end = "nodir" => Plan[id[1]].dir
          /\ jobs' = [jobs EXCEPT ![id[1]][id[2]] = end]
          /\ IF end = "good" THEN UNCHANGED budget ELSE Spend("bad")
    /\ UNCHANGED <<ledger, files, inputs, tick, wait>>

\* afterok of a job that did not complete can never be satisfied.
CancelDependent(id) ==
    /\ id \in Attempts /\ Job(id) = "queued" /\ Producer(id) \in Terminal \ Completed
    /\ jobs' = [jobs EXCEPT ![id[1]][id[2]] = "CANCELLED"]
    /\ UNCHANGED <<ledger, files, inputs, tick, wait, budget>>

\* `farmkit release`, by the worker that was woken with a ruling; it ticks next.
Release(s) ==
    /\ tick.pc = "idle" /\ Spend("act")
    /\ Tried(s) /\ Last(ledger[s]).fate = "parked"
    /\ Save(<<s, Len(ledger[s])>>, [Last(ledger[s]) EXCEPT !.fate = "released"])
    /\ wait' = NoWait
    /\ UNCHANGED <<jobs, files, inputs, tick>>

\* `farmkit adopt`: a job from before the ledger, of a step with or without attempts.
Adopt(s, prior) ==
    LET rec == [sub |-> "adopted", seen |-> FALSE, verdict |-> "none", failure |-> "none",
                fate |-> "none", published |-> FALSE,
                prior |-> prior, input |-> inputs[s], dep |-> 0]
    IN /\ tick.pc = "idle" /\ Spend("act")
       /\ ledger' = [ledger EXCEPT ![s] = Append(@, rec)]
       /\ jobs' = [jobs EXCEPT ![s] = Append(@, "queued")]
       /\ staging' = [staging EXCEPT ![s] = Append(@, Free)]
       /\ wait' = NoWait
       /\ UNCHANGED <<published, inputs, tick>>

\* `farmkit verify`: the verdict on the latest attempt is made anew and saved, whatever its
\* state and with no failure and no publication. An execution that has not completed may
\* have written its outputs, or not; one that was never started has not.
FarmkitVerify(s, verdict) ==
    LET id == <<s, Len(ledger[s])>>
    IN /\ tick.pc = "idle" /\ Spend("act")
       /\ Tried(s)
       /\ Job(id) \in Completed => (verdict = "ok" <=> Verify(id) = "ok")
       /\ verdict = "ok" => /\ Rec(id).sub # "adopted" /\ Rec(id).input = inputs[s]
                            /\ Job(id) \notin {"none", "CANCELLED"} \/ Rec(id).sub = "local"
       /\ Save(id, [Rec(id) EXCEPT !.verdict = verdict])
       /\ wait' = NoWait
       /\ UNCHANGED <<jobs, files, inputs, tick>>

Edit(s) ==
    /\ Spend("act")
    /\ inputs' = [inputs EXCEPT ![s] = @ + 1]
    /\ UNCHANGED <<ledger, jobs, files, tick, wait>>

-----------------------------------------------------------------------------
Verdicts == Verified \/ Retry \/ Park \/ Certify
Publication ==
    \/ OpenFile \/ WriteFile \/ Discard \/ FinishCleanup \/ StartCopy \/ Copied \/ Mark
    \/ ReuseCopy \/ MoveAside \/ Install \/ Tidy \/ Unmark
Submission ==
    \/ \E s \in Steps : Launch(s)
    \/ SbatchAccepts \/ SbatchLost \/ SbatchRefuses \/ SaveReply \/ ParkRefused \/ RunLocal

Tick ==
    \/ \E id \in tick.todo : Reconcile(id) \/ FinalizeLate(id) \/ ObserveEnded(id) \/ ObserveElse(id)
    \/ Reconciled \/ Finalized \/ Observed
    \/ Verdicts \/ Publication \/ Submission
    \/ EndTick

Scheduler == \E id \in Attempts : EndJob(id) \/ CancelDependent(id)

People == \E s \in Steps : \/ Release(s) \/ Edit(s)
                           \/ \E prior \in 0..1 : Adopt(s, prior)
                           \/ \E verdict \in {"ok", "bad"} : FarmkitVerify(s, verdict)

Next == StartTick \/ Tick \/ Crash \/ Scheduler \/ People

\* A tick that is not killed goes on; the farm restarts a worker that died, and wakes one
\* that waits for a job when the scheduler says that this job has ended. The scheduler ends
\* every job, and does not refuse to tell for ever.
Woken == StartTick /\ (wait.kind = "job" => Job(wait.at) \in Terminal)
                   /\ wait.kind \in {"none", "job"}

Spec == Init /\ [][Next]_vars

FairSpec ==
    /\ Spec
    /\ WF_vars(Tick) /\ WF_vars(Woken) /\ WF_vars(Scheduler)
    /\ SF_vars(\E id \in tick.todo : ObserveEnded(id))

-----------------------------------------------------------------------------
(* Properties. *)

Busy == {"judge", "publish", "file", "dir", "copy", "mark", "aside", "install", "tidy", "unmark",
         "certify", "relaunch", "intent", "called", "refused", "run"}

\* Every record has one of the forms the code writes, and a tick that works on an attempt
\* works on one that exists.
Phases == {"idle", "reconcile", "unfinalized", "inflight", "launch"}
Id == (Steps \X Nat) \cup {<<>>}
TypeOK ==
    /\ ledger \in [Steps -> Seq(Attempt)] /\ jobs \in [Steps -> Seq(Execution)]
    /\ staging \in [Steps -> Seq([old : Int, fresh : Int, marker : BOOLEAN])]
    /\ published \in [Steps -> [main : Int, dir : Int]] /\ inputs \in [Steps -> Nat]
    /\ \A s \in Steps : /\ Len(jobs[s]) = Len(ledger[s]) /\ Len(staging[s]) = Len(ledger[s])
                        /\ {published[s].main, published[s].dir}
                               \subseteq {Gone, Torn} \cup 0..Len(ledger[s])
    /\ tick \in [pc : Busy \cup Phases, at : Id, todo : SUBSET Attempts, submitted : SUBSET Steps,
                 back : Phases, reply : {"none", "id", "refused", "lost"}]
    /\ tick.pc \in Busy => tick.at \in Attempts
    /\ wait \in [kind : {"none", "job", "submit", "parked", "done", "no-progress"}, at : Id]
    /\ wait.kind = "job" => wait.at \in Attempts
    /\ budget \in [crash : Nat, answer : Nat, bad : Nat, act : Nat, all : Nat]

\* The jobs that people adopted onto a step that had an attempt already.
AdoptedOnto(s) == {n \in 2..Len(ledger[s]) : ledger[s][n].sub = "adopted"}

\* A step never has two jobs at the scheduler at once (intent.py "Nothing here ever
\* resubmits"; ready, reconcile), but for those that people adopt beside it: not after an
\* sbatch call whose outcome is unknown, not after a tick that died between the call and
\* its record, not after a retry or a release.
OneJobPerStep ==
    \A s \in Steps : Cardinality({n \in DOMAIN jobs[s] : jobs[s][n] = "queued"})
                         <= 1 + Cardinality(AdoptedOnto(s))

\* Attempts are paid for (classify.retry_allowed, _finalize, release, adopt): every one but
\* the first and the adopted ones by a retry or a release of another, each of which pays
\* once, and the retries of a class, with what was spent before an adoption that one of
\* them could know of, stay within its budget; however ticks die, and although adopt asks
\* nothing of the step's earlier attempts.
RetriesBudgeted ==
    \A s \in Steps :
        LET A == ledger[s]
            retried(c) == {n \in DOMAIN A : A[n].fate = "retried" /\ A[n].failure = c}
            known(c) == {k \in DOMAIN A : A[k].prior = 1 /\ \E n \in retried(c) : k <= n}
        IN /\ Len(A) <= 1 + Cardinality(AdoptedOnto(s))
                          + Cardinality({n \in DOMAIN A : A[n].fate \in {"retried", "released"}})
           /\ \A c \in Classes : Cardinality(retried(c)) + Cardinality(known(c)) <= MaxAuto[c]

\* Replacing a published directory (_replace_dir): the workspace never shows part of a copy,
\* and a result that was there exists whole under some name at every instant.
DirectoryWhole ==
    \A s \in Steps : Plan[s].dir =>
        /\ published[s].dir # Torn
        /\ s \in Earlier => \/ Whole(published[s].dir)
                            \/ \E n \in DOMAIN staging[s] :
                                  \/ Whole(staging[s][n].old)
                                  \/ staging[s][n].marker /\ Whole(staging[s][n].fresh)

\* What a tick certifies is what the workspace shows (_finalize publishes, then saves): an
\* attempt that its record calls published is the step's last, and every output it left is
\* installed, unless jobs were adopted onto the step, which may end in any order. What is
\* shown of an attempt at all is from an execution that left it as a good output, whatever
\* ticks died and whatever `farmkit verify` said in between.
CertifiedInstalled ==
    \A s \in Steps :
        LET p == published[s]
        IN /\ p.main > 0 => jobs[s][p.main] \in {"good", "nodir"}
           /\ p.dir > 0 => jobs[s][p.dir] = "good"
           /\ AdoptedOnto(s) = {} =>
                 \A n \in DOMAIN ledger[s] : ledger[s][n].published =>
                     /\ n = Len(ledger[s])
                     /\ p.main = n
                     /\ Plan[s].dir /\ jobs[s][n] = "good" => p.dir = n

\* Nothing is forgotten (tick, _decide): an execution whose end can be known gets its verdict
\* and a retry that was decided is submitted, however often ticks die, unless a preempted
\* job blocks the wait, the retry has to wait for a dependency or for its pool, in which a
\* later segment of its own chain takes a place too, or `farmkit verify` settled it: an ended
\* local execution that it judged before a tick did gets no failure, and a step whose latest
\* attempt it found good gets no retry.
Pending(s) ==
    \/ \E n \in DOMAIN ledger[s] :
          \/ <<s, n>> \in Unfinalized
          \/ <<s, n>> \in InFlight /\ jobs[s][n] \in Terminal
    \/ /\ Tried(s) /\ Last(ledger[s]).fate = "retried" /\ ~Ok(s)
       /\ DependencyMet(s)
       /\ \A o \in Steps \ {s} : Plan[o].pool = Plan[s].pool => ~Unresolved(o)
Preempted == \E id \in Attempts : Job(id) = "PREEMPTED"
NothingForgotten == []<>(Preempted \/ \A s \in Steps : ~Pending(s))
=============================================================================
