----------------------------- MODULE RunnerProofs -----------------------------
(***************************************************************************)
(* Theorems about Runner, for every plan of steps and every bound.          *)
(***************************************************************************)
EXTENDS Runner, SequenceTheorems, FiniteSetTheorems, TLAPS

-----------------------------------------------------------------------------
(* The inductive invariant: of a step, with its attempt records A, their     *)
(* executions J, what their publications left G and what the workspace        *)
(* shows p, and of the tick.                                                  *)

Moved == {"retried", "released"}
Movers(A) == {n \in DOMAIN A : A[n].fate \in Moved}
Onto(A) == {n \in 2 .. Len(A) : A[n].sub = "adopted"}
Retried(A, c) == {n \in DOMAIN A : A[n].fate = "retried" /\ A[n].failure = c}
Spent(A) == {n \in DOMAIN A : A[n].prior = 1}
Known(A, c) == {k \in DOMAIN A : A[k].prior = 1 /\ \E n \in Retried(A, c) : k <= n}

\* The attempts are paid for, and one more is.
Due(A) == Len(A) <= Cardinality(Onto(A)) + Cardinality(Movers(A))

\* Attempts are paid for by adoptions, retries and releases, each once; a step onto which
\* nothing was adopted moved on from every attempt but its last.
Owed(A) ==
    /\ Len(A) <= 1 + Cardinality(Onto(A)) + Cardinality(Movers(A))
    /\ Len(A) \in Movers(A) => Due(A)
    /\ Onto(A) = {} => \A n \in 1 .. Len(A) - 1 : A[n].fate \in Moved

\* Retries are within budget.
Budgeted(A) == \A c \in Classes : Cardinality(Retried(A, c)) + Cardinality(Known(A, c)) <= MaxAuto[c]

\* What a record says of its execution.
Told(a, job) ==
    /\ a.failure = "none" => a.fate = "none"
    /\ a.failure # "none" => a.seen \/ a.sub = "rejected"
    /\ a.sub \in {"intent", "unverified"} => ~a.seen
    /\ a.fate # "none" => job # "queued"
    /\ a.seen => job \in Terminal
    /\ a.published => a.seen /\ a.failure = "none" /\ a.verdict # "none"

\* What the publication of attempt n of a directory left: a marker is that of a whole copy
\* of a good output.
Left(x, n, job) ==
    /\ x.fresh \in {Gone, Torn, n} /\ (x.fresh = n => job = "good")
    /\ x.marker => x.fresh # Torn

\* A copy without a marker has no backup beside it, and a backup without a copy to install
\* is what is left of a publication that is through.
Settled(x, n, d) ==
    /\ ~x.marker /\ x.fresh # Gone => x.old = Gone
    /\ x.old # Gone /\ x.fresh = Gone => d = n

\* What was published is shown.
Held(s, a, job, n, p) == a.published => p.main = n /\ (Plan[s].dir /\ job = "good" => p.dir = n)

Kept(G, d) ==
    \/ Whole(d)
    \/ \E n \in DOMAIN G : Whole(G[n].old) \/ (G[n].marker /\ Whole(G[n].fresh))

StepIs(s, A, J, G, p) ==
    /\ A \in Seq(Attempt) /\ J \in Seq(Execution) /\ Len(J) = Len(A) /\ Len(G) = Len(A)
    /\ G \in Seq([old : Int, fresh : Int, marker : BOOLEAN]) /\ p \in [main : Int, dir : Int]
    /\ p.main \in {Gone, Torn} \cup 0 .. Len(A) /\ p.dir \in {Gone, Torn} \cup 0 .. Len(A)
    /\ Owed(A) /\ Budgeted(A)
    /\ \A n \in 1 .. Len(A) : Told(A[n], J[n])
    /\ p.main > 0 => J[p.main] \in {"good", "nodir"}
    /\ p.dir > 0 => J[p.dir] = "good"
    /\ \A n \in 1 .. Len(A) : IF Plan[s].dir THEN Left(G[n], n, J[n]) ELSE G[n] = Free
    /\ Plan[s].dir => p.dir # Torn /\ (s \in Earlier => Kept(G, p.dir))
    /\ Onto(A) = {} => \A n \in 1 .. Len(A) :
          /\ Held(s, A[n], J[n], n, p)
          /\ n = Len(A) => Settled(G[n], n, p.dir)

\* The publication of attempt n, whose execution ended as job says, leaves x, and the
\* workspace shows q: nothing that was kept is lost.
Moves(s, G, job, p, n, x, q) ==
    /\ x \in [old : Int, fresh : Int, marker : BOOLEAN] /\ q \in [main : Int, dir : Int]
    /\ q.main \in {p.main, Torn, n} /\ q.dir \in {p.dir, Gone, n}
    /\ IF Plan[s].dir /\ job = "good"
       THEN Left(x, n, job) /\ (Settled(G[n], n, p.dir) => Settled(x, n, q.dir))
       ELSE x = G[n] /\ q.dir = p.dir
    /\ Plan[s].dir /\ s \in Earlier /\ Kept(G, p.dir) =>
           \/ Whole(q.dir) \/ Whole(x.old) \/ (x.marker /\ Whole(x.fresh))
           \/ /\ q.dir = p.dir /\ x.old = G[n].old
              /\ G[n].marker /\ Whole(G[n].fresh) => x.marker /\ x.fresh = G[n].fresh

StepsSound == \A s \in Steps : StepIs(s, ledger[s], jobs[s], staging[s], published[s])

\* What a pass of the tick has still to look at is of the kind it looks for, and the
\* attempt in hand is not in it.
Phase == IF tick.pc \in Busy THEN tick.back ELSE tick.pc
TodoSound ==
    /\ Phase = "reconcile" => tick.todo \subseteq Unknown
    /\ Phase = "unfinalized" => tick.todo \subseteq Unfinalized
    /\ Phase = "inflight" => tick.todo \subseteq InFlight
    /\ Phase \in {"idle", "launch"} => tick.todo = {}
    /\ tick.pc \in Busy => tick.back \in {"unfinalized", "inflight", "launch"} /\ tick.at \notin tick.todo

\* The attempt in hand, with the records A of its step, where the tick is with it.
Replacing == {"copy", "mark", "aside", "install", "tidy", "unmark"}
Publishing == {"publish", "file", "dir", "certify"} \cup Replacing

\* Of a publication that is at pc: what it left, x, and what is shown, p.
Stands(pc, job, x, p, s, n, A) ==
    /\ job \in {"good", "nodir"}
    /\ pc \in {"dir"} \cup Replacing => Plan[s].dir /\ job = "good"
    /\ pc \in {"dir", "certify"} \cup Replacing => p.main = n
    /\ pc = "copy" => x.fresh = Torn /\ ~x.marker
    /\ pc = "mark" => x.fresh = n
    /\ pc \in {"aside", "install"} => x.fresh = n /\ x.marker
    /\ pc \in {"tidy", "unmark"} => x.fresh = Gone /\ p.dir = n
    /\ pc = "certify" /\ Onto(A) = {} /\ Plan[s].dir /\ job = "good" => p.dir = n

InHand(pc, a, job, x, p, s, n, A, reply) ==
    /\ pc \in {"judge"} \cup Publishing =>
          a.failure = "none" /\ ~a.published /\ job \in Terminal /\ a.sub \notin {"intent", "unverified"}
    /\ pc \in Publishing => Stands(pc, job, x, p, s, n, A)
    /\ pc = "relaunch" => a.fate = "retried" /\ Due(A) /\ (Onto(A) = {} => n = Len(A))
    /\ pc \in {"intent", "called", "refused", "run"} => a.failure = "none" /\ ~a.seen
    /\ pc = "intent" => a.sub = "intent" /\ job = "none"
    /\ pc = "called" => a.sub = "intent" /\ (reply = "refused" => job = "none")
    /\ pc = "refused" => a.sub = "rejected" /\ job = "none"
    /\ pc = "run" => a.sub = "local" /\ job = "none"
HandSound ==
    tick.pc \in Busy =>
        InHand(tick.pc, Rec(tick.at), Job(tick.at), Staged, published[Output], Output, tick.at[2],
               ledger[Output], tick.reply)

IInv == TypeOK /\ StepsSound /\ TodoSound /\ HandSound
-----------------------------------------------------------------------------
(* Lemmas about the records of a step.                                      *)

\* The attempts of a step are finitely many, and a subset has no more of them.
LEMMA Counted ==
    ASSUME NEW A \in Seq(Attempt)
    PROVE  /\ \A S : S \subseteq DOMAIN A => IsFiniteSet(S) /\ Cardinality(S) \in Nat
           /\ \A S, T : T \subseteq DOMAIN A /\ S \subseteq T => Cardinality(S) <= Cardinality(T)
<1>1. DOMAIN A = 1 .. Len(A) /\ Len(A) \in Nat
  BY LenProperties
<1>2. IsFiniteSet(DOMAIN A)
  <2>1. IsFiniteSet(1 .. Len(A))
    BY <1>1, FS_Interval
  <2> QED
    BY <1>1, <2>1
<1>3. ASSUME NEW S, S \subseteq DOMAIN A
      PROVE  IsFiniteSet(S) /\ Cardinality(S) \in Nat
  <2>1. IsFiniteSet(S)
    BY <1>2, <1>3, FS_Subset
  <2> QED
    BY <2>1, FS_CardinalityType
<1>4. ASSUME NEW S, NEW T, T \subseteq DOMAIN A, S \subseteq T
      PROVE  Cardinality(S) <= Cardinality(T)
  <2>1. IsFiniteSet(T)
    BY <1>3, <1>4
  <2> QED
    BY <1>4, <2>1, FS_Subset
<1> QED
  BY <1>3, <1>4

\* The sets of attempts that the invariant counts.
LEMMA CountedSets ==
    ASSUME NEW A \in Seq(Attempt)
    PROVE  /\ DOMAIN A = 1 .. Len(A) /\ Len(A) \in Nat
           /\ Onto(A) \subseteq DOMAIN A /\ Movers(A) \subseteq DOMAIN A
           /\ Cardinality(Onto(A)) \in Nat /\ Cardinality(Movers(A)) \in Nat
<1>1. DOMAIN A = 1 .. Len(A) /\ Len(A) \in Nat
  BY LenProperties
<1>2. Onto(A) \subseteq DOMAIN A /\ Movers(A) \subseteq DOMAIN A
  BY <1>1 DEF Onto, Movers
<1> QED
  BY <1>1, <1>2, Counted

\* A member of a sequence over S is in S.
LEMMA Element ==
    ASSUME NEW S, NEW A \in Seq(S), NEW n \in 1 .. Len(A)
    PROVE  A[n] \in S
OBVIOUS

\* What the invariant of a step says of one attempt.
LEMMA OneAttempt ==
    ASSUME NEW s \in Steps, NEW A, NEW J, NEW G, NEW p, StepIs(s, A, J, G, p), NEW n \in 1 .. Len(A)
    PROVE  /\ A[n] \in Attempt /\ J[n] \in Execution /\ Told(A[n], J[n]) /\ A \in Seq(Attempt)
           /\ G[n] \in [old : Int, fresh : Int, marker : BOOLEAN] /\ p \in [main : Int, dir : Int]
           /\ Owed(A) /\ Budgeted(A)
           /\ Plan[s].dir => Left(G[n], n, J[n]) /\ (p.dir = Gone \/ Whole(p.dir))
           /\ ~Plan[s].dir => G[n] = Free
           /\ Onto(A) = {} /\ A[n].fate \notin Moved => n = Len(A)
           /\ Onto(A) = {} /\ n = Len(A) => Settled(G[n], n, p.dir)
<1>1. /\ A \in Seq(Attempt) /\ J \in Seq(Execution) /\ Len(J) = Len(A) /\ Len(G) = Len(A)
      /\ G \in Seq([old : Int, fresh : Int, marker : BOOLEAN]) /\ p \in [main : Int, dir : Int]
      /\ Len(A) \in Nat
  BY LenProperties DEF StepIs
<1>2. A[n] \in Attempt /\ J[n] \in Execution
  BY <1>1, Element
<1>3. G[n] \in [old : Int, fresh : Int, marker : BOOLEAN]
  BY <1>1, Element
<1>4. Told(A[n], J[n]) /\ Owed(A) /\ Budgeted(A)
  BY DEF StepIs
<1>5. /\ Plan[s].dir => Left(G[n], n, J[n])
      /\ ~Plan[s].dir => G[n] = Free
      /\ Onto(A) = {} /\ n = Len(A) => Settled(G[n], n, p.dir)
  BY DEF StepIs
<1>7. Plan[s].dir => p.dir = Gone \/ Whole(p.dir)
  BY <1>1 DEF StepIs, Whole
<1>6. Onto(A) = {} /\ A[n].fate \notin Moved => n = Len(A)
  BY <1>1, <1>4 DEF Owed
<1> QED
  BY <1>1, <1>2, <1>3, <1>4, <1>5, <1>6, <1>7

\* The n-th element changes, and the others stay.
LEMMA Saved ==
    ASSUME NEW S, NEW A \in Seq(S), NEW n \in 1 .. Len(A), NEW rec \in S,
           NEW B, B = [A EXCEPT ![n] = rec]
    PROVE  /\ B \in Seq(S) /\ Len(B) = Len(A) /\ DOMAIN B = DOMAIN A /\ DOMAIN A = 1 .. Len(A)
           /\ B[n] = rec /\ \A m \in 1 .. Len(A) : m # n => B[m] = A[m]
BY ExceptSeq, LenProperties

\* One element more.
LEMMA Appended ==
    ASSUME NEW S, NEW A \in Seq(S), NEW rec \in S, NEW B, B = Append(A, rec)
    PROVE  /\ B \in Seq(S) /\ Len(A) \in Nat /\ Len(B) = Len(A) + 1 /\ B[Len(A) + 1] = rec
           /\ DOMAIN B = 1 .. Len(A) + 1 /\ DOMAIN A = 1 .. Len(A)
           /\ \A m \in 1 .. Len(A) : B[m] = A[m]
BY AppendProperties, LenProperties

\* Two records cost a step the same: neither moves it on, or both do for the same reason.
CostsAs(rec, a) ==
    /\ rec.prior = a.prior /\ (rec.sub = "adopted" <=> a.sub = "adopted")
    /\ \/ rec.fate \notin Moved /\ a.fate \notin Moved
       \/ rec.fate = a.fate /\ rec.failure = a.failure

\* A record that does not move its step on costs nothing.
LEMMA PaidOther ==
    ASSUME NEW A \in Seq(Attempt), Owed(A), Budgeted(A), NEW n \in 1 .. Len(A), NEW rec \in Attempt,
           CostsAs(rec, A[n]), NEW B, B = [A EXCEPT ![n] = rec]
    PROVE  Owed(B) /\ Budgeted(B) /\ Onto(B) = Onto(A)
<1>1. /\ B \in Seq(Attempt) /\ Len(B) = Len(A) /\ DOMAIN B = DOMAIN A /\ DOMAIN A = 1 .. Len(A)
      /\ B[n] = rec /\ \A m \in 1 .. Len(A) : m # n => B[m] = A[m]
      /\ Len(A) \in Nat
  BY Saved, LenProperties
<1>2. ASSUME NEW m \in DOMAIN A
      PROVE  /\ B[m].fate \in Moved <=> A[m].fate \in Moved
             /\ B[m].sub = "adopted" <=> A[m].sub = "adopted"
             /\ B[m].prior = A[m].prior
             /\ B[m].fate = "retried" <=> A[m].fate = "retried"
             /\ A[m].fate = "retried" => B[m].failure = A[m].failure
  BY <1>1 DEF CostsAs, Moved
<1>3. Movers(B) = Movers(A)
  BY <1>1, <1>2 DEF Movers
<1>4. Onto(B) = Onto(A)
  BY <1>1, <1>2 DEF Onto
<1>5. ASSUME NEW c
      PROVE  Retried(B, c) = Retried(A, c)
  <2>1. \A m \in DOMAIN A : /\ B[m].fate = "retried" <=> A[m].fate = "retried"
                            /\ A[m].fate = "retried" => B[m].failure = A[m].failure
    BY <1>2
  <2> QED
    BY <1>1, <2>1 DEF Retried
<1>6. ASSUME NEW c
      PROVE  Known(B, c) = Known(A, c)
  <2>1. \A m \in DOMAIN A : B[m].prior = A[m].prior
    BY <1>2
  <2>2. Retried(B, c) = Retried(A, c)
    BY <1>5
  <2> QED
    BY <1>1, <2>1, <2>2 DEF Known
<1>7. \A m \in 1 .. Len(A) - 1 : B[m].fate \in Moved <=> A[m].fate \in Moved
  BY <1>1, <1>2
<1> QED
  BY <1>1, <1>3, <1>4, <1>5, <1>6, <1>7 DEF Owed, Due, Budgeted

\* A retry or a release pays for one attempt more.
LEMMA Pays ==
    ASSUME NEW A \in Seq(Attempt), Owed(A), NEW n \in 1 .. Len(A), NEW rec \in Attempt,
           A[n].fate \notin Moved, rec.fate \in Moved, rec.sub = A[n].sub,
           NEW B, B = [A EXCEPT ![n] = rec]
    PROVE  Owed(B) /\ Due(B) /\ Onto(B) = Onto(A) /\ (Onto(B) = {} => n = Len(A))
<1>1. /\ B \in Seq(Attempt) /\ Len(B) = Len(A) /\ DOMAIN B = DOMAIN A /\ DOMAIN A = 1 .. Len(A)
      /\ B[n] = rec /\ (\A m \in 1 .. Len(A) : m # n => B[m] = A[m]) /\ Len(A) \in Nat
  BY Saved, LenProperties
<1>2. Onto(B) = Onto(A)
  BY <1>1 DEF Onto
<1>3. Movers(B) = Movers(A) \cup {n} /\ n \notin Movers(A)
  BY <1>1 DEF Movers
<1>4. Cardinality(Movers(B)) = Cardinality(Movers(A)) + 1
  <2>1. IsFiniteSet(Movers(A))
    BY CountedSets, Counted
  <2> QED
    BY <1>3, <2>1, FS_AddElement
<1>5. Due(B)
  <2>1. Cardinality(Movers(A)) \in Nat /\ Cardinality(Onto(A)) \in Nat
    BY CountedSets
  <2>2. Len(A) <= 1 + Cardinality(Onto(A)) + Cardinality(Movers(A))
    BY DEF Owed
  <2> QED
    BY <1>1, <1>2, <1>4, <2>1, <2>2 DEF Due
<1>6. Len(B) <= 1 + Cardinality(Onto(B)) + Cardinality(Movers(B))
  <2>1. Cardinality(Movers(B)) \in Nat /\ Cardinality(Onto(B)) \in Nat
    BY <1>1, CountedSets
  <2> QED
    BY <1>1, <1>5, <2>1 DEF Due
<1>7. Onto(A) = {} => n = Len(A)
  BY <1>1 DEF Owed
<1>8. Onto(B) = {} => \A m \in 1 .. Len(B) - 1 : B[m].fate \in Moved
  BY <1>1, <1>2 DEF Owed
<1> QED
  BY <1>2, <1>5, <1>6, <1>7, <1>8 DEF Owed

\* A release leaves the budgets alone.
LEMMA PaidRelease ==
    ASSUME NEW A \in Seq(Attempt), Budgeted(A), NEW n \in 1 .. Len(A), NEW rec \in Attempt,
           A[n].fate # "retried", rec.fate # "retried", rec.prior = A[n].prior,
           NEW B, B = [A EXCEPT ![n] = rec]
    PROVE  Budgeted(B)
<1>1. /\ DOMAIN B = DOMAIN A /\ DOMAIN A = 1 .. Len(A)
      /\ B[n] = rec /\ (\A m \in 1 .. Len(A) : m # n => B[m] = A[m])
  BY Saved
<1>2. ASSUME NEW c
      PROVE  Retried(B, c) = Retried(A, c)
  BY <1>1 DEF Retried
<1>3. ASSUME NEW c
      PROVE  Known(B, c) = Known(A, c)
  BY <1>1, <1>2 DEF Known
<1> QED
  BY <1>2, <1>3 DEF Budgeted

\* A retry is within the budget of its class, of which every failure and every adoption with
\* a budget spent takes a part.
LEMMA PaidRetry ==
    ASSUME NEW A \in Seq(Attempt), Budgeted(A), NEW n \in 1 .. Len(A),
           NEW rec \in Attempt, NEW class \in Classes, A[n].failure = "none", A[n].fate # "retried",
           rec.fate = "retried", rec.prior = A[n].prior, rec.failure = class,
           Cardinality({m \in DOMAIN A : A[m].failure = class}) + Cardinality(Spent(A)) < MaxAuto[class],
           NEW B, B = [A EXCEPT ![n] = rec]
    PROVE  Budgeted(B)
<1>1. /\ B \in Seq(Attempt) /\ DOMAIN B = DOMAIN A /\ DOMAIN A = 1 .. Len(A)
      /\ B[n] = rec /\ \A m \in 1 .. Len(A) : m # n => B[m] = A[m]
  BY Saved
<1>2. ASSUME NEW c \in Classes
      PROVE  Cardinality(Retried(B, c)) + Cardinality(Known(B, c)) <= MaxAuto[c]
  <2>1. CASE c = class
    <3> DEFINE F == {m \in DOMAIN A : A[m].failure = class}
    <3>1. Retried(B, c) \subseteq F \cup {n} /\ Known(B, c) \subseteq Spent(A)
      BY <1>1, <2>1 DEF Retried, Known, Spent
    <3>2. F \subseteq DOMAIN A /\ F \cup {n} \subseteq DOMAIN A /\ Retried(B, c) \subseteq DOMAIN A
          /\ n \notin F /\ Spent(A) \subseteq DOMAIN A /\ Known(B, c) \subseteq DOMAIN A
      BY <1>1 DEF Retried, Classes, Spent, Known
    <3>3. IsFiniteSet(F) /\ Cardinality(F) \in Nat /\ Cardinality(Spent(A)) \in Nat
          /\ Cardinality(Retried(B, c)) \in Nat /\ Cardinality(Known(B, c)) \in Nat
      BY <3>2, Counted
    <3>4. Cardinality(F \cup {n}) = Cardinality(F) + 1
      BY <3>2, <3>3, FS_AddElement
    <3>5. /\ Cardinality(Retried(B, c)) <= Cardinality(F \cup {n})
          /\ Cardinality(Known(B, c)) <= Cardinality(Spent(A))
      <4> HIDE DEF F
      <4> QED
        BY <3>1, <3>2, Counted, Zenon
    <3>6. MaxAuto[c] \in Nat
      BY RunnerAssumption
    <3> HIDE DEF F
    <3>7. Cardinality(F) + Cardinality(Spent(A)) < MaxAuto[c]
      BY <2>1 DEF F
    <3> QED
      BY <3>3, <3>4, <3>5, <3>6, <3>7
  <2>2. CASE c # class
    <3>1. Retried(B, c) = Retried(A, c)
      BY <1>1, <2>2 DEF Retried, Classes
    <3>2. Known(B, c) = Known(A, c)
      BY <1>1, <3>1 DEF Known
    <3> QED
      BY <3>1, <3>2 DEF Budgeted
  <2> QED
    BY <2>1, <2>2
<1> QED
  BY <1>2 DEF Budgeted

\* A record is saved: it says what its execution did.
LEMMA SavedStep ==
    ASSUME NEW s \in Steps, NEW A, NEW J, NEW G, NEW p, StepIs(s, A, J, G, p),
           NEW n \in 1 .. Len(A), NEW rec \in Attempt, NEW B, B = [A EXCEPT ![n] = rec],
           Owed(B), Budgeted(B), Onto(B) = Onto(A), Told(rec, J[n]),
           Onto(A) = {} => Held(s, rec, J[n], n, p)
    PROVE  StepIs(s, B, J, G, p)
<1>1. /\ B \in Seq(Attempt) /\ Len(B) = Len(A)
      /\ B[n] = rec /\ \A m \in 1 .. Len(A) : m # n => B[m] = A[m]
  BY Saved DEF StepIs
<1>2. \A m \in 1 .. Len(B) : Told(B[m], J[m])
  BY <1>1 DEF StepIs
<1>3. Onto(B) = {} => \A m \in 1 .. Len(B) : Held(s, B[m], J[m], m, p)
  BY <1>1 DEF StepIs
<1>4. Onto(B) = {} => \A m \in 1 .. Len(B) : m = Len(B) => Settled(G[m], m, p.dir)
  BY <1>1 DEF StepIs
<1> QED
  BY <1>1, <1>2, <1>3, <1>4 DEF StepIs

\* A new attempt may be made: it is the first, or adopted, or paid for.
MayGrow(A, rec) ==
    \/ A = <<>> \/ rec.sub = "adopted"
    \/ Due(A) /\ (Onto(A) = {} => A[Len(A)].fate \in Moved)

\* What a new attempt does to the counts.
LEMMA PaidNew ==
    ASSUME NEW A \in Seq(Attempt), Owed(A), Budgeted(A), NEW rec \in Attempt, rec.fate = "none",
           MayGrow(A, rec), NEW B, B = Append(A, rec)
    PROVE  /\ Owed(B) /\ Budgeted(B) /\ (Onto(B) = {} => Onto(A) = {})
           /\ Onto(B) = {} => \A m \in 1 .. Len(A) : A[m].fate \in Moved
<1> DEFINE N == Len(A)
<1>1. /\ B \in Seq(Attempt) /\ Len(B) = N + 1 /\ B[N + 1] = rec /\ (\A m \in 1 .. N : B[m] = A[m])
      /\ DOMAIN B = 1 .. N + 1 /\ DOMAIN A = 1 .. N /\ N \in Nat
  BY Appended
<1>2. \A m \in 1 .. N + 1 : m \in 1 .. N \/ m = N + 1
  BY <1>1
<1>3. Movers(B) = Movers(A)
  BY <1>1, <1>2 DEF Movers, Moved
<1>4. Onto(B) = Onto(A) \cup (IF rec.sub = "adopted" /\ N > 0 THEN {N + 1} ELSE {})
  <2>1. \A m \in 2 .. N + 1 : m \in 2 .. N \/ (m = N + 1 /\ N > 0)
    BY <1>1
  <2>2. \A m \in 2 .. N : m \in 1 .. N /\ m \in 2 .. N + 1
    BY <1>1
  <2>3. N > 0 => N + 1 \in 2 .. N + 1
    BY <1>1
  <2> QED
    BY <1>1, <2>1, <2>2, <2>3 DEF Onto
<1>5. /\ Cardinality(Onto(A)) \in Nat /\ Cardinality(Movers(A)) \in Nat /\ Cardinality(Onto(B)) \in Nat
      /\ Cardinality(Onto(A)) <= Cardinality(Onto(B))
  <2>1. Onto(A) \subseteq Onto(B) /\ Onto(B) \subseteq DOMAIN B
    BY <1>1, <1>4, CountedSets
  <2> QED
    BY <1>1, <2>1, CountedSets, Counted
<1>6. A = <<>> <=> N = 0
  BY EmptySeq
<1>7. Len(B) <= 1 + Cardinality(Onto(B)) + Cardinality(Movers(B))
  <2>1. CASE N = 0
    BY <1>1, <1>3, <1>5, <2>1
  <2>2. CASE N > 0 /\ rec.sub = "adopted"
    <3>1. N + 1 \notin Onto(A)
      BY <1>1 DEF Onto
    <3>2. Onto(B) = Onto(A) \cup {N + 1}
      BY <1>4, <2>2
    <3>3. IsFiniteSet(Onto(A))
      BY CountedSets, Counted
    <3>4. Cardinality(Onto(B)) = Cardinality(Onto(A)) + 1
      BY <3>1, <3>2, <3>3, FS_AddElement
    <3>5. N <= 1 + Cardinality(Onto(A)) + Cardinality(Movers(A))
      BY DEF Owed
    <3> QED
      BY <1>1, <1>3, <1>5, <3>4, <3>5
  <2>3. CASE Due(A)
    BY <1>1, <1>3, <1>5, <2>3 DEF Due
  <2> QED
    BY <1>1, <1>6, <2>1, <2>2, <2>3 DEF MayGrow
<1>8. Len(B) \notin Movers(B)
  BY <1>1, <1>3 DEF Movers
<1>9. Onto(B) = {} => \A m \in 1 .. N : A[m].fate \in Moved
  <2> SUFFICES ASSUME Onto(B) = {}, NEW m \in 1 .. N
               PROVE  A[m].fate \in Moved
    OBVIOUS
  <2>0. m \in Nat /\ 1 <= m /\ m <= N /\ N \in Nat
    BY <1>1
  <2>1. Onto(A) = {} /\ N > 0 /\ rec.sub # "adopted"
    <3>1. N > 0
      BY <2>0
    <3> QED
      BY <1>4, <3>1
  <2>2. A[N].fate \in Moved
    BY <1>6, <2>1 DEF MayGrow
  <2>3. m \in 1 .. N - 1 \/ m = N
    BY <2>0
  <2> QED
    BY <2>1, <2>2, <2>3 DEF Owed
<1>10. Budgeted(B)
  <2> SUFFICES ASSUME NEW c \in Classes
               PROVE  Retried(B, c) = Retried(A, c) /\ Known(B, c) = Known(A, c)
    BY DEF Budgeted
  <2>1. Retried(B, c) = Retried(A, c) /\ Retried(A, c) \subseteq 1 .. N
    BY <1>1, <1>2 DEF Retried
  <2>2. \A n \in 1 .. N : ~(N + 1 <= n)
    BY <1>1
  <2>3. Known(B, c) = Known(A, c)
    BY <1>1, <1>2, <2>1, <2>2 DEF Known
  <2> QED
    BY <2>1, <2>3
<1> QED
  BY <1>1, <1>4, <1>7, <1>8, <1>9, <1>10 DEF Owed

\* A new attempt of a step.
LEMMA NewAttempt ==
    ASSUME NEW s \in Steps, NEW A, NEW J, NEW G, NEW p, StepIs(s, A, J, G, p),
           NEW rec \in Attempt, rec.failure = "none", rec.fate = "none", ~rec.seen, ~rec.published,
           MayGrow(A, rec), NEW job \in Execution
    PROVE  StepIs(s, Append(A, rec), Append(J, job), Append(G, Free), p)
<1> DEFINE N == Len(A)
<1>0. /\ A \in Seq(Attempt) /\ J \in Seq(Execution) /\ Len(J) = N /\ Len(G) = N /\ N \in Nat
      /\ G \in Seq([old : Int, fresh : Int, marker : BOOLEAN])
      /\ Free \in [old : Int, fresh : Int, marker : BOOLEAN] /\ p \in [main : Int, dir : Int]
      /\ p.main \in {Gone, Torn} \cup 0 .. N /\ p.dir \in {Gone, Torn} \cup 0 .. N
      /\ Owed(A) /\ Budgeted(A)
  BY LenProperties DEF StepIs, Free, Gone
<1>a. PICK B : B = Append(A, rec)
  OBVIOUS
<1>b. PICK K : K = Append(J, job)
  OBVIOUS
<1>c. PICK H : H = Append(G, Free)
  OBVIOUS
<1>1. /\ B \in Seq(Attempt) /\ Len(B) = N + 1 /\ B[N + 1] = rec /\ \A m \in 1 .. N : B[m] = A[m]
      /\ DOMAIN B = 1 .. N + 1 /\ DOMAIN A = 1 .. N
  BY <1>0, <1>a, Appended
<1>2. K \in Seq(Execution) /\ Len(K) = N + 1 /\ K[N + 1] = job /\ \A m \in 1 .. N : K[m] = J[m]
  BY <1>0, <1>b, Appended
<1>3. /\ H \in Seq([old : Int, fresh : Int, marker : BOOLEAN])
      /\ Len(H) = N + 1 /\ H[N + 1] = Free /\ \A m \in 1 .. N : H[m] = G[m]
      /\ DOMAIN H = 1 .. N + 1 /\ DOMAIN G = 1 .. N
  BY <1>0, <1>c, Appended
<1>4. \A m \in 1 .. N + 1 : m \in 1 .. N \/ m = N + 1
  BY <1>0
<1>5. /\ Owed(B) /\ Budgeted(B) /\ (Onto(B) = {} => Onto(A) = {})
      /\ Onto(B) = {} => \A m \in 1 .. N : A[m].fate \in Moved
  BY <1>0, <1>a, PaidNew
<1>6. \A m \in 1 .. N + 1 : Told(B[m], K[m])
  <2>1. Told(rec, job)
    BY DEF Told
  <2> QED
    BY <1>1, <1>2, <1>4, <2>1 DEF StepIs
<1>7. (p.main > 0 => K[p.main] \in {"good", "nodir"}) /\ (p.dir > 0 => K[p.dir] = "good")
  <2>1. (p.main > 0 => p.main \in 1 .. N) /\ (p.dir > 0 => p.dir \in 1 .. N)
    BY <1>0 DEF Gone, Torn
  <2> QED
    BY <1>2, <2>1 DEF StepIs
<1>8. ASSUME NEW m \in 1 .. N + 1
      PROVE  IF Plan[s].dir THEN Left(H[m], m, K[m]) ELSE H[m] = Free
  <2>1. CASE m = N + 1
    <3>1. Left(Free, m, K[m])
      <4>1. m # Gone /\ m # Torn
        BY <1>0 DEF Gone, Torn
      <4> QED
        BY <4>1 DEF Left, Free
    <3>2. H[m] = Free
      BY <1>3, <2>1
    <3> QED
      BY <3>1, <3>2
  <2>2. CASE m \in 1 .. N
    <3>1. H[m] = G[m] /\ K[m] = J[m]
      BY <1>2, <1>3, <2>2
    <3>2. IF Plan[s].dir THEN Left(G[m], m, J[m]) ELSE G[m] = Free
      BY <2>2 DEF StepIs
    <3> QED
      BY <3>1, <3>2
  <2> QED
    BY <1>4, <2>1, <2>2
<1>9. Plan[s].dir => p.dir # Torn /\ (s \in Earlier => Kept(H, p.dir))
  <2>1. Plan[s].dir => p.dir # Torn /\ (s \in Earlier => Kept(G, p.dir))
    BY DEF StepIs
  <2>2. \A m \in DOMAIN G : m \in DOMAIN H /\ H[m] = G[m]
    BY <1>0, <1>3
  <2>3. Kept(G, p.dir) => Kept(H, p.dir)
    BY <2>2 DEF Kept
  <2> QED
    BY <2>1, <2>3
<1>10. p.main \in {Gone, Torn} \cup 0 .. N + 1 /\ p.dir \in {Gone, Torn} \cup 0 .. N + 1
  BY <1>0
<1>11. ASSUME Onto(B) = {}, NEW m \in 1 .. N + 1
       PROVE  Held(s, B[m], K[m], m, p) /\ (m = N + 1 => Settled(H[m], m, p.dir))
  <2>1. CASE m = N + 1
    <3>1. Settled(Free, m, p.dir)
      BY DEF Settled, Free
    <3> QED
      BY <1>1, <1>3, <2>1, <3>1 DEF Held
  <2>2. CASE m \in 1 .. N
    <3>1. B[m] = A[m] /\ A[m].fate \in Moved /\ Told(A[m], J[m])
      BY <1>1, <1>5, <1>11, <2>2 DEF StepIs
    <3>2. ~A[m].published
      BY <3>1 DEF Told, Moved
    <3>3. m # N + 1
      BY <1>0, <2>2
    <3> QED
      BY <3>1, <3>2, <3>3 DEF Held
  <2> QED
    BY <1>4, <2>1, <2>2
<1> QED
  BY <1>0, <1>a, <1>b, <1>c, <1>1, <1>2, <1>3, <1>5, <1>6, <1>7, <1>8, <1>9, <1>10, <1>11 DEF StepIs

\* An execution that is called or ends.
LEMMA ExecutionMoves ==
    ASSUME NEW s \in Steps, NEW A, NEW J, NEW G, NEW p, StepIs(s, A, J, G, p),
           NEW n \in 1 .. Len(A), NEW job \in Execution, J[n] \notin Terminal, Told(A[n], job)
    PROVE  StepIs(s, A, [J EXCEPT ![n] = job], G, p)
<1>0. /\ A \in Seq(Attempt) /\ J \in Seq(Execution) /\ Len(J) = Len(A) /\ Len(A) \in Nat
      /\ p.main \in {Gone, Torn} \cup 0 .. Len(A) /\ p.dir \in {Gone, Torn} \cup 0 .. Len(A)
  BY LenProperties DEF StepIs
<1>a. PICK K : K = [J EXCEPT ![n] = job]
  OBVIOUS
<1>1. /\ K \in Seq(Execution) /\ Len(K) = Len(A) /\ K[n] = job
      /\ \A m \in 1 .. Len(A) : m # n => K[m] = J[m]
  BY <1>0, <1>a, Saved
<1>2. \A m \in 1 .. Len(A) : Told(A[m], K[m])
  BY <1>1 DEF StepIs
<1>b. J[n] \notin {"good", "nodir"}
  BY DEF Terminal, Completed
<1>3. (p.main > 0 => K[p.main] \in {"good", "nodir"}) /\ (p.dir > 0 => K[p.dir] = "good")
  <2>1. (p.main > 0 => p.main \in 1 .. Len(A)) /\ (p.dir > 0 => p.dir \in 1 .. Len(A))
    BY <1>0 DEF Gone, Torn
  <2> QED
    BY <1>b, <1>1, <2>1 DEF StepIs
<1>4. \A m \in 1 .. Len(A) : IF Plan[s].dir THEN Left(G[m], m, K[m]) ELSE G[m] = Free
  BY <1>b, <1>1 DEF StepIs, Left
<1>5. Onto(A) = {} => \A m \in 1 .. Len(A) :
         Held(s, A[m], K[m], m, p) /\ (m = Len(A) => Settled(G[m], m, p.dir))
  <2>1. ~A[n].published
    BY DEF StepIs, Told
  <2>2. Held(s, A[n], K[n], n, p)
    BY <2>1 DEF Held
  <2> QED
    BY <1>1, <2>2 DEF StepIs
<1> QED
  BY <1>a, <1>0, <1>1, <1>2, <1>3, <1>4, <1>5 DEF StepIs

\* A publication moves, of an attempt that is not published yet.
LEMMA PublicationMoves ==
    ASSUME NEW s \in Steps, NEW A, NEW J, NEW G, NEW p, StepIs(s, A, J, G, p),
           NEW n \in 1 .. Len(A), A[n].failure = "none", ~A[n].published, J[n] \in {"good", "nodir"},
           NEW x, NEW q, Moves(s, G, J[n], p, n, x, q),
           NEW H, H = [G EXCEPT ![n] = x]
    PROVE  StepIs(s, A, J, H, q)
<1>0. /\ A \in Seq(Attempt) /\ J \in Seq(Execution) /\ Len(J) = Len(A) /\ Len(G) = Len(A) /\ Len(A) \in Nat
      /\ G \in Seq([old : Int, fresh : Int, marker : BOOLEAN])
      /\ p.main \in {Gone, Torn} \cup 0 .. Len(A) /\ p.dir \in {Gone, Torn} \cup 0 .. Len(A)
  BY LenProperties DEF StepIs
<1>1. /\ H \in Seq([old : Int, fresh : Int, marker : BOOLEAN]) /\ Len(H) = Len(A) /\ H[n] = x
      /\ \A m \in 1 .. Len(A) : m # n => H[m] = G[m]
      /\ DOMAIN H = 1 .. Len(A) /\ DOMAIN G = 1 .. Len(A)
  BY <1>0, Saved DEF Moves
<1>2. /\ q \in [main : Int, dir : Int]
      /\ q.main \in {Gone, Torn} \cup 0 .. Len(A) /\ q.dir \in {Gone, Torn} \cup 0 .. Len(A)
  BY <1>0 DEF Moves
<1>3. (q.main > 0 => J[q.main] \in {"good", "nodir"}) /\ (q.dir > 0 => J[q.dir] = "good")
  <2>0. (p.main > 0 => J[p.main] \in {"good", "nodir"}) /\ (p.dir > 0 => J[p.dir] = "good")
    BY DEF StepIs
  <2>1. q.main > 0 => J[q.main] \in {"good", "nodir"}
    <3>1. q.main \in {p.main, Torn, n}
      BY DEF Moves
    <3> QED
      BY <2>0, <3>1 DEF Torn
  <2>2. CASE Plan[s].dir /\ J[n] = "good"
    <3>1. q.dir \in {p.dir, Gone, n}
      BY DEF Moves
    <3> QED
      BY <2>0, <2>1, <2>2, <3>1 DEF Gone
  <2>3. CASE ~(Plan[s].dir /\ J[n] = "good")
    <3>1. q.dir = p.dir
      BY <2>3 DEF Moves
    <3> QED
      BY <2>1, <3>1 DEF StepIs
  <2> QED
    BY <2>2, <2>3
<1>4. ASSUME NEW m \in 1 .. Len(A)
      PROVE  IF Plan[s].dir THEN Left(H[m], m, J[m]) ELSE H[m] = Free
  <2>0. IF Plan[s].dir THEN Left(G[m], m, J[m]) ELSE G[m] = Free
    BY DEF StepIs
  <2>1. CASE m = n /\ Plan[s].dir /\ J[n] = "good"
    BY <1>1, <2>1 DEF Moves
  <2>2. CASE m = n /\ ~(Plan[s].dir /\ J[n] = "good")
    BY <1>1, <2>0, <2>2 DEF Moves
  <2>3. CASE m # n
    BY <1>1, <2>0, <2>3
  <2> QED
    BY <2>1, <2>2, <2>3
<1>5. Plan[s].dir => q.dir # Torn /\ (s \in Earlier => Kept(H, q.dir))
  <2>0. Plan[s].dir => q.dir # Torn
    BY DEF Moves, StepIs, Gone, Torn
  <2> SUFFICES ASSUME Plan[s].dir, s \in Earlier
               PROVE  Kept(H, q.dir)
    BY <2>0
  <2>1. Kept(G, p.dir)
    BY DEF StepIs
  <2>2. CASE \/ Whole(q.dir) \/ Whole(x.old) \/ (x.marker /\ Whole(x.fresh))
    BY <1>1, <2>2 DEF Kept
  <2>3. CASE /\ q.dir = p.dir /\ x.old = G[n].old
             /\ (G[n].marker /\ Whole(G[n].fresh) => x.marker /\ x.fresh = G[n].fresh)
    BY <1>1, <2>1, <2>3 DEF Kept
  <2> QED
    BY <2>1, <2>2, <2>3 DEF Moves
<1>6. ASSUME Onto(A) = {}, NEW m \in 1 .. Len(A)
      PROVE  Held(s, A[m], J[m], m, q) /\ (m = Len(A) => Settled(H[m], m, q.dir))
  <2>1. n = Len(A)
    <3>1. A[n].fate = "none"
      BY DEF StepIs, Told
    <3> QED
      BY <1>6, <3>1, OneAttempt DEF Moved
  <2>2. ~A[m].published
    <3>1. CASE m = n
      BY <3>1
    <3>2. CASE m # n
      <4>1. m \in 1 .. Len(A) - 1
        BY <1>0, <2>1, <3>2
      <4>2. A[m].fate \in Moved /\ Told(A[m], J[m])
        BY <1>6, <4>1 DEF StepIs, Owed
      <4> QED
        BY <4>2 DEF Told, Moved
    <3> QED
      BY <3>1, <3>2
  <2>3. Settled(G[n], n, p.dir)
    BY <1>6, <2>1 DEF StepIs
  <2>4. Settled(x, n, q.dir)
    BY <2>3 DEF Moves
  <2> QED
    BY <1>1, <2>1, <2>2, <2>4 DEF Held
<1> QED
  BY <1>0, <1>1, <1>2, <1>3, <1>4, <1>5, <1>6 DEF StepIs
-----------------------------------------------------------------------------
(* Lemmas about the state: what changes of a step, and what the tick keeps.  *)

Data == /\ ledger \in [Steps -> Seq(Attempt)] /\ jobs \in [Steps -> Seq(Execution)]
        /\ staging \in [Steps -> Seq([old : Int, fresh : Int, marker : BOOLEAN])]
        /\ published \in [Steps -> [main : Int, dir : Int]]
        /\ StepsSound

\* An attempt is a step and one of its numbers.
LEMMA AttemptOf ==
    ASSUME NEW id \in Attempts
    PROVE  id[1] \in Steps /\ id[2] \in 1 .. Len(ledger[id[1]]) /\ id = <<id[1], id[2]>>
BY DEF Attempts

\* While no record is added, the attempts are the same.
LEMMA SameAttempts ==
    ASSUME \A s \in Steps : Len(ledger'[s]) = Len(ledger[s])
    PROVE  Attempts' = Attempts
BY DEF Attempts

\* What is on disk and at the scheduler has its type.
LEMMA DataTypes ==
    ASSUME TypeOK, StepsSound
    PROVE  Data
BY DEF TypeOK, Data

\* One step changes.
LEMMA OneStep ==
    ASSUME Data, NEW s \in Steps,
           ledger' \in [Steps -> Seq(Attempt)], jobs' \in [Steps -> Seq(Execution)],
           staging' \in [Steps -> Seq([old : Int, fresh : Int, marker : BOOLEAN])],
           published' \in [Steps -> [main : Int, dir : Int]],
           \A o \in Steps : o # s => /\ ledger'[o] = ledger[o] /\ jobs'[o] = jobs[o]
                                     /\ staging'[o] = staging[o] /\ published'[o] = published[o],
           StepIs(s, ledger'[s], jobs'[s], staging'[s], published'[s])
    PROVE  Data'
<1>1. ASSUME NEW o \in Steps
      PROVE  StepIs(o, ledger'[o], jobs'[o], staging'[o], published'[o])
  <2>1. CASE o = s
    BY <2>1
  <2>2. CASE o # s
    BY <2>2 DEF Data, StepsSound
  <2> QED
    BY <2>1, <2>2
<1> QED
  BY <1>1 DEF Data, StepsSound

\* A record is saved.
LEMMA RecordSaved ==
    ASSUME Data, NEW id \in Attempts, NEW rec \in Attempt, Save(id, rec), UNCHANGED <<jobs, files>>,
           NEW B, B = [ledger[id[1]] EXCEPT ![id[2]] = rec], Told(rec, Job(id)),
           Owed(B), Budgeted(B), Onto(B) = Onto(ledger[id[1]]),
           Onto(B) = {} => Held(id[1], rec, Job(id), id[2], published[id[1]])
    PROVE  /\ Data' /\ Attempts' = Attempts /\ Rec(id)' = rec
           /\ \A s \in Steps : Len(ledger'[s]) = Len(ledger[s])
           /\ ledger'[id[1]] = B
           /\ \A i \in Attempts : i # id => Rec(i)' = Rec(i)
<1>1. PICK s \in Steps, n \in Nat : n \in 1 .. Len(ledger[s]) /\ id = <<s, n>>
  BY AttemptOf
<1>2. B = [ledger[s] EXCEPT ![n] = rec]
  BY <1>1
<1>3. ledger' = [ledger EXCEPT ![s] = B] /\ ledger \in [Steps -> Seq(Attempt)]
  BY <1>1, <1>2 DEF Save, Data
<1>4. StepIs(s, ledger[s], jobs[s], staging[s], published[s]) /\ ledger[s] \in Seq(Attempt)
  BY DEF Data, StepsSound, StepIs
<1>5. /\ Told(rec, jobs[s][n]) /\ Onto(B) = Onto(ledger[s])
      /\ Onto(B) = {} => Held(s, rec, jobs[s][n], n, published[s])
  BY <1>1, <1>2 DEF Job
<1>6. StepIs(s, B, jobs[s], staging[s], published[s])
  BY <1>1, <1>2, <1>4, <1>5, SavedStep
<1>7. /\ B \in Seq(Attempt) /\ Len(B) = Len(ledger[s]) /\ B[n] = rec
      /\ \A m \in 1 .. Len(ledger[s]) : m # n => B[m] = ledger[s][m]
  BY <1>1, <1>2, <1>4, Saved
<1>8. /\ ledger' \in [Steps -> Seq(Attempt)] /\ ledger'[s] = B
      /\ \A o \in Steps : o # s => ledger'[o] = ledger[o]
  BY <1>3, <1>7
<1>9. jobs' = jobs /\ staging' = staging /\ published' = published
  BY DEF files
<1>10. Data'
  <2>1. jobs' \in [Steps -> Seq(Execution)] /\ published' \in [Steps -> [main : Int, dir : Int]]
        /\ staging' \in [Steps -> Seq([old : Int, fresh : Int, marker : BOOLEAN])]
    BY <1>9 DEF Data
  <2>2. StepIs(s, ledger'[s], jobs'[s], staging'[s], published'[s])
    BY <1>6, <1>8, <1>9
  <2> QED
    BY <1>8, <1>9, <2>1, <2>2, OneStep
<1>11. \A o \in Steps : Len(ledger'[o]) = Len(ledger[o])
  BY <1>7, <1>8
<1>12. Attempts' = Attempts
  BY <1>11, SameAttempts
<1>13. ASSUME NEW i \in Attempts, i # id
       PROVE  Rec(i)' = Rec(i)
  <2>1. PICK o \in Steps, m \in Nat : m \in 1 .. Len(ledger[o]) /\ i = <<o, m>>
    BY AttemptOf
  <2>2. o # s \/ m # n
    BY <1>1, <1>13, <2>1
  <2>3. ledger'[o][m] = ledger[o][m]
    BY <1>7, <1>8, <2>1, <2>2
  <2> QED
    BY <2>1, <2>3 DEF Rec
<1>14. Rec(id)' = rec
  BY <1>1, <1>7, <1>8 DEF Rec
<1>15. ledger'[id[1]] = B
  BY <1>1, <1>8
<1> QED
  BY <1>10, <1>11, <1>12, <1>13, <1>14, <1>15

\* An execution moves.
LEMMA JobMoved ==
    ASSUME Data, NEW id \in Attempts, NEW job \in Execution,
           jobs' = [jobs EXCEPT ![id[1]][id[2]] = job], UNCHANGED <<ledger, files>>,
           Job(id) \notin Terminal, Told(Rec(id), job)
    PROVE  /\ Data' /\ Attempts' = Attempts /\ Job(id)' = job
           /\ \A i \in Attempts : i # id => Job(i)' = Job(i)
<1>1. PICK s \in Steps, n \in Nat : n \in 1 .. Len(ledger[s]) /\ id = <<s, n>>
  BY AttemptOf
<1>2. PICK K : K = [jobs[s] EXCEPT ![n] = job]
  OBVIOUS
<1>3. jobs' = [jobs EXCEPT ![s] = K] /\ jobs \in [Steps -> Seq(Execution)]
  BY <1>1, <1>2 DEF Data
<1>4. /\ StepIs(s, ledger[s], jobs[s], staging[s], published[s])
      /\ jobs[s] \in Seq(Execution) /\ Len(jobs[s]) = Len(ledger[s])
  BY DEF Data, StepsSound, StepIs
<1>5. jobs[s][n] \notin Terminal /\ Told(ledger[s][n], job)
  BY <1>1 DEF Job, Rec
<1>6. StepIs(s, ledger[s], K, staging[s], published[s])
  BY <1>1, <1>2, <1>4, <1>5, ExecutionMoves
<1>7. /\ K \in Seq(Execution) /\ K[n] = job
      /\ \A m \in 1 .. Len(ledger[s]) : m # n => K[m] = jobs[s][m]
  BY <1>1, <1>2, <1>4, Saved
<1>8. /\ jobs' \in [Steps -> Seq(Execution)] /\ jobs'[s] = K
      /\ \A o \in Steps : o # s => jobs'[o] = jobs[o]
  BY <1>3, <1>7
<1>9. ledger' = ledger /\ staging' = staging /\ published' = published
  BY DEF files
<1>10. Data'
  <2>1. ledger' \in [Steps -> Seq(Attempt)] /\ published' \in [Steps -> [main : Int, dir : Int]]
        /\ staging' \in [Steps -> Seq([old : Int, fresh : Int, marker : BOOLEAN])]
    BY <1>9 DEF Data
  <2>2. StepIs(s, ledger'[s], jobs'[s], staging'[s], published'[s])
    BY <1>6, <1>8, <1>9
  <2> QED
    BY <1>8, <1>9, <2>1, <2>2, OneStep
<1>11. Attempts' = Attempts
  BY <1>9, SameAttempts
<1>12. ASSUME NEW i \in Attempts, i # id
       PROVE  Job(i)' = Job(i)
  <2>1. PICK o \in Steps, m \in Nat : m \in 1 .. Len(ledger[o]) /\ i = <<o, m>>
    BY AttemptOf
  <2>2. o # s \/ m # n
    BY <1>1, <1>12, <2>1
  <2>3. jobs'[o][m] = jobs[o][m]
    BY <1>7, <1>8, <2>1, <2>2
  <2> QED
    BY <2>1, <2>3 DEF Job
<1>13. Job(id)' = job
  BY <1>1, <1>7, <1>8 DEF Job
<1> QED
  BY <1>10, <1>11, <1>12, <1>13

\* Writing what is there already changes nothing.
LEMMA SameElement ==
    ASSUME NEW S, NEW A \in Seq(S), NEW n \in 1 .. Len(A)
    PROVE  [A EXCEPT ![n] = A[n]] = A
OBVIOUS

\* What attempt id left becomes x, and what the workspace shows becomes q.
Becomes(id, x, q) ==
    /\ \/ staging' = [staging EXCEPT ![id[1]][id[2]] = x]
       \/ staging' = staging /\ x = staging[id[1]][id[2]]
    /\ \/ published' = [published EXCEPT ![id[1]] = q]
       \/ published' = published /\ q = published[id[1]]

\* The publication of an attempt moves.
LEMMA PublicationMoved ==
    ASSUME Data, NEW id \in Attempts, NEW x, NEW q,
           Becomes(id, x, q),
           UNCHANGED <<ledger, jobs>>,
           Rec(id).failure = "none", ~Rec(id).published, Job(id) \in {"good", "nodir"},
           Moves(id[1], staging[id[1]], Job(id), published[id[1]], id[2], x, q)
    PROVE  Data' /\ staging'[id[1]][id[2]] = x /\ published'[id[1]] = q
<1>1. PICK s \in Steps, n \in Nat : n \in 1 .. Len(ledger[s]) /\ id = <<s, n>>
  BY AttemptOf
<1>2. PICK G : G = staging[s]
  OBVIOUS
<1>3. PICK H : H = [G EXCEPT ![n] = x]
  OBVIOUS
<1>4. PICK p : p = published[s]
  OBVIOUS
<1>5. /\ StepIs(s, ledger[s], jobs[s], G, p)
      /\ G \in Seq([old : Int, fresh : Int, marker : BOOLEAN])
      /\ Len(G) = Len(ledger[s]) /\ Len(ledger[s]) \in Nat
  BY <1>2, <1>4, LenProperties DEF Data, StepsSound, StepIs
<1>6. /\ H \in Seq([old : Int, fresh : Int, marker : BOOLEAN]) /\ H[n] = x
      /\ (x = G[n] => H = G)
  BY <1>1, <1>3, <1>5, Saved, SameElement DEF Moves
<1>7. ledger[s][n].failure = "none" /\ ~ledger[s][n].published /\ jobs[s][n] \in {"good", "nodir"}
  BY <1>1 DEF Rec, Job
<1>8. StepIs(s, ledger[s], jobs[s], H, q)
  <2>1. Moves(s, G, jobs[s][n], p, n, x, q)
    BY <1>1, <1>2, <1>4 DEF Job
  <2> QED
    BY <1>1, <1>3, <1>5, <1>7, <2>1, PublicationMoves
<1>9. /\ staging' \in [Steps -> Seq([old : Int, fresh : Int, marker : BOOLEAN])]
      /\ staging'[s] = H /\ \A o \in Steps : o # s => staging'[o] = staging[o]
  <2>1. staging \in [Steps -> Seq([old : Int, fresh : Int, marker : BOOLEAN])]
    BY DEF Data
  <2>2. CASE staging' = [staging EXCEPT ![id[1]][id[2]] = x]
    <3>1. staging' = [staging EXCEPT ![s] = H]
      BY <1>1, <1>2, <1>3, <2>2
    <3> QED
      BY <1>6, <2>1, <3>1
  <2>3. CASE staging' = staging /\ x = staging[id[1]][id[2]]
    BY <1>1, <1>2, <1>6, <2>1, <2>3
  <2> QED
    BY <2>2, <2>3 DEF Becomes
<1>10. /\ published' \in [Steps -> [main : Int, dir : Int]]
       /\ published'[s] = q /\ \A o \in Steps : o # s => published'[o] = published[o]
  <2>1. published \in [Steps -> [main : Int, dir : Int]] /\ q \in [main : Int, dir : Int]
    BY DEF Data, Moves
  <2>2. published' = [published EXCEPT ![s] = q] \/ (published' = published /\ q = published[s])
    BY <1>1 DEF Becomes
  <2> QED
    BY <2>1, <2>2
<1>11. ledger' = ledger /\ jobs' = jobs
  OBVIOUS
<1>12. Data'
  <2>1. ledger' \in [Steps -> Seq(Attempt)] /\ jobs' \in [Steps -> Seq(Execution)]
    BY <1>11 DEF Data
  <2>2. StepIs(s, ledger'[s], jobs'[s], staging'[s], published'[s])
    BY <1>8, <1>9, <1>10, <1>11
  <2> QED
    BY <1>9, <1>10, <1>11, <2>1, <2>2, OneStep
<1> QED
  BY <1>1, <1>6, <1>9, <1>10, <1>12

\* A step has one attempt more.
LEMMA StepGrows ==
    ASSUME Data, NEW s \in Steps, NEW n, n = Len(ledger[s]) + 1,
           NEW rec \in Attempt, NEW job \in Execution,
           ledger' = [ledger EXCEPT ![s] = Append(@, rec)],
           jobs' = [jobs EXCEPT ![s] = Append(@, job)],
           staging' = [staging EXCEPT ![s] = Append(@, Free)],
           published' = published,
           MayGrow(ledger[s], rec),
           rec.failure = "none", rec.fate = "none", ~rec.seen, ~rec.published
    PROVE  /\ Data' /\ Attempts \subseteq Attempts'
           /\ \A i \in Attempts : Rec(i)' = Rec(i) /\ i # <<s, n>>
           /\ <<s, n>> \in Attempts' /\ Rec(<<s, n>>)' = rec /\ Job(<<s, n>>)' = job
<1>1. PICK N : N = Len(ledger[s])
  OBVIOUS
<1>2. PICK B : B = Append(ledger[s], rec)
  OBVIOUS
<1>3. PICK K : K = Append(jobs[s], job)
  OBVIOUS
<1>4. PICK H : H = Append(staging[s], Free)
  OBVIOUS
<1>5. /\ StepIs(s, ledger[s], jobs[s], staging[s], published[s])
      /\ ledger[s] \in Seq(Attempt) /\ jobs[s] \in Seq(Execution)
      /\ staging[s] \in Seq([old : Int, fresh : Int, marker : BOOLEAN])
      /\ Free \in [old : Int, fresh : Int, marker : BOOLEAN]
      /\ Len(jobs[s]) = N /\ N \in Nat
  <2>1. StepIs(s, ledger[s], jobs[s], staging[s], published[s])
    BY DEF Data, StepsSound
  <2>2. Free \in [old : Int, fresh : Int, marker : BOOLEAN]
    BY DEF Free, Gone
  <2> QED
    BY <1>1, <2>1, <2>2, LenProperties DEF StepIs
<1>6. /\ B \in Seq(Attempt) /\ Len(B) = N + 1 /\ B[N + 1] = rec
      /\ \A m \in 1 .. N : B[m] = ledger[s][m]
  BY <1>1, <1>2, <1>5, Appended
<1>7. K \in Seq(Execution) /\ K[N + 1] = job
  BY <1>3, <1>5, Appended
<1>8. H \in Seq([old : Int, fresh : Int, marker : BOOLEAN])
  BY <1>4, <1>5, Appended
<1>9. StepIs(s, B, K, H, published[s])
  BY <1>2, <1>3, <1>4, <1>5, NewAttempt
<1>10. /\ ledger' \in [Steps -> Seq(Attempt)] /\ ledger'[s] = B
       /\ \A o \in Steps : o # s => ledger'[o] = ledger[o]
  BY <1>2, <1>6 DEF Data
<1>11. /\ jobs' \in [Steps -> Seq(Execution)] /\ jobs'[s] = K
       /\ \A o \in Steps : o # s => jobs'[o] = jobs[o]
  BY <1>3, <1>7 DEF Data
<1>12. /\ staging' \in [Steps -> Seq([old : Int, fresh : Int, marker : BOOLEAN])] /\ staging'[s] = H
       /\ \A o \in Steps : o # s => staging'[o] = staging[o]
  BY <1>4, <1>8 DEF Data
<1>13. Data'
  <2>1. published' \in [Steps -> [main : Int, dir : Int]]
    BY DEF Data
  <2>2. StepIs(s, ledger'[s], jobs'[s], staging'[s], published'[s])
    BY <1>9, <1>10, <1>11, <1>12
  <2> QED
    BY <1>10, <1>11, <1>12, <2>1, <2>2, OneStep
<1>14. ASSUME NEW i \in Attempts
       PROVE  i \in Attempts' /\ Rec(i)' = Rec(i) /\ i # <<s, N + 1>>
  <2>1. PICK o \in Steps, m \in Nat : m \in 1 .. Len(ledger[o]) /\ i = <<o, m>>
    BY AttemptOf
  <2>2. m \in 1 .. Len(ledger'[o]) /\ ledger'[o][m] = ledger[o][m]
    BY <1>1, <1>5, <1>6, <1>10, <2>1
  <2>3. i \in Attempts'
    BY <2>1, <2>2 DEF Attempts
  <2>4. i # <<s, N + 1>>
    BY <1>1, <1>5, <2>1
  <2> QED
    BY <2>1, <2>2, <2>3, <2>4 DEF Rec
<1>15. <<s, N + 1>> \in Attempts'
  BY <1>5, <1>6, <1>10 DEF Attempts
<1>16. Rec(<<s, N + 1>>)' = rec /\ Job(<<s, N + 1>>)' = job
  BY <1>6, <1>7, <1>10, <1>11 DEF Rec, Job
<1> QED
  BY <1>1, <1>13, <1>14, <1>15, <1>16

-----------------------------------------------------------------------------
(* Lemmas about the tick: what is left to look at, and the attempt in hand.  *)

Replies == {"none", "id", "refused", "lost"}
TickRec == [pc : Busy \cup Phases, at : Id, todo : SUBSET Attempts, submitted : SUBSET Steps,
            back : Phases, reply : Replies]
WaitRec == [kind : {"none", "job", "submit", "parked", "done", "no-progress"}, at : Id]
Budgets == [crash : Nat, answer : Nat, bad : Nat, act : Nat, all : Nat]

\* The parts of a state that have their types make up a state that does.
LEMMA TypeFollows ==
    ASSUME Data', tick' \in TickRec', inputs' \in [Steps -> Nat], budget' \in Budgets,
           wait' \in WaitRec, wait'.kind = "job" => wait'.at \in Attempts',
           tick'.pc \in Busy => tick'.at \in Attempts'
    PROVE  TypeOK'
<1>1. ASSUME NEW s \in Steps
      PROVE  /\ Len(jobs'[s]) = Len(ledger'[s]) /\ Len(staging'[s]) = Len(ledger'[s])
             /\ {published'[s].main, published'[s].dir} \subseteq {Gone, Torn} \cup 0 .. Len(ledger'[s])
  BY DEF Data, StepsSound, StepIs
<1>2. /\ ledger' \in [Steps -> Seq(Attempt)] /\ jobs' \in [Steps -> Seq(Execution)]
      /\ staging' \in [Steps -> Seq([old : Int, fresh : Int, marker : BOOLEAN])]
      /\ published' \in [Steps -> [main : Int, dir : Int]]
  BY DEF Data
<1> QED
  BY <1>1, <1>2 DEF TypeOK, TickRec, WaitRec, Budgets, Replies

\* The invariant gives every variable its type.
LEMMA Parts ==
    ASSUME IInv
    PROVE  /\ Data /\ tick \in TickRec /\ inputs \in [Steps -> Nat] /\ budget \in Budgets
           /\ wait \in WaitRec /\ (wait.kind = "job" => wait.at \in Attempts)
           /\ tick.pc \in Busy => tick.at \in Attempts
BY DataTypes DEF IInv, TypeOK, TickRec, WaitRec, Budgets, Replies

\* The bounds of the environment only go down.
LEMMA SpendTypes ==
    ASSUME budget \in Budgets, NEW what \in {"crash", "answer", "bad", "act"},
           UNCHANGED budget \/ Spend(what)
    PROVE  budget' \in Budgets
<1>2. CASE UNCHANGED budget
  BY <1>2
<1>3. CASE Spend(what)
  <2>1. budget[what] - 1 \in Nat /\ budget.all - 1 \in Nat
    <3>1. PICK c \in Nat, a \in Nat, b \in Nat, d \in Nat, e \in Nat :
             budget = [crash |-> c, answer |-> a, bad |-> b, act |-> d, all |-> e]
      BY DEF Budgets
    <3>2. PICK x \in Nat, y \in Nat : x = budget[what] /\ y = budget.all
      BY <3>1
    <3>3. x > 0 /\ y > 0
      BY <1>3, <3>2 DEF Spend
    <3>4. x - 1 \in Nat /\ y - 1 \in Nat
      BY <3>3
    <3> QED
      BY <3>2, <3>4
  <2>2. PICK b : b = [budget EXCEPT ![what] = @ - 1]
    OBVIOUS
  <2>3. b \in Budgets /\ b.all = budget.all
    BY <2>1, <2>2 DEF Budgets
  <2>4. budget' = [b EXCEPT !.all = @ - 1]
    BY <1>3, <2>2 DEF Spend
  <2> QED
    BY <2>1, <2>3, <2>4 DEF Budgets
<1> QED
  BY <1>2, <1>3

\* What is left to look at stays what it is while the records of it stay.
LEMMA TodoKept ==
    ASSUME tick'.todo \subseteq tick.todo,
           \A i \in tick'.todo : i \in Attempts' /\ Rec(i)' = Rec(i)
    PROVE  /\ tick.todo \subseteq Unknown => tick'.todo \subseteq Unknown'
           /\ tick.todo \subseteq Unfinalized => tick'.todo \subseteq Unfinalized'
           /\ tick.todo \subseteq InFlight => tick'.todo \subseteq InFlight'
BY DEF Unknown, Unfinalized, InFlight

\* Going to another place with the same attempt.
Going(pc) ==
    /\ tick' \in TickRec' /\ tick'.pc = pc /\ tick'.at = tick.at /\ tick'.todo = tick.todo
    /\ tick'.back = tick.back /\ tick'.submitted = tick.submitted

\* The tick goes on with the attempt it has in hand.
LEMMA Goes ==
    ASSUME IInv, Attempts' = Attempts, NEW pc \in Busy \cup Phases, Goto(pc)
    PROVE  Going(pc) /\ tick'.reply = tick.reply
<1>1. tick \in TickRec /\ tick' = [tick EXCEPT !.pc = pc]
  BY Parts DEF Goto
<1>2. tick' \in TickRec
  BY <1>1 DEF TickRec
<1>3. tick' \in TickRec'
  BY <1>2 DEF TickRec
<1> QED
  BY <1>1, <1>3 DEF TickRec, Going

\* The tick stays where it is.
LEMMA Stays ==
    ASSUME IInv, Attempts' = Attempts, UNCHANGED tick
    PROVE  Going(tick.pc) /\ tick'.reply = tick.reply
<1>1. tick \in TickRec
  BY Parts
<1>2. tick' \in TickRec'
  BY <1>1 DEF TickRec
<1> QED
  BY <1>2 DEF Going

\* The attempt in hand.
LEMMA Hand ==
    ASSUME IInv, tick.pc \in Busy, NEW id, id = tick.at
    PROVE  /\ id \in Attempts /\ id[1] \in Steps /\ id[2] \in 1 .. Len(ledger[id[1]])
           /\ Data /\ Rec(id) \in Attempt /\ Job(id) \in Execution /\ Told(Rec(id), Job(id))
           /\ ledger[id[1]] \in Seq(Attempt) /\ Owed(ledger[id[1]]) /\ Budgeted(ledger[id[1]])
           /\ Onto(ledger[id[1]]) = {} /\ Rec(id).fate \notin Moved => id[2] = Len(ledger[id[1]])
           /\ InHand(tick.pc, Rec(id), Job(id), staging[id[1]][id[2]], published[id[1]], id[1],
                     id[2], ledger[id[1]], tick.reply)
           /\ tick.back \in {"unfinalized", "inflight", "launch"} /\ id \notin tick.todo
           /\ tick.reply \in Replies /\ tick.todo \subseteq Attempts
<1>1. Data /\ id \in Attempts /\ tick \in TickRec
  BY Parts
<1>2. id[1] \in Steps /\ id[2] \in 1 .. Len(ledger[id[1]])
  BY <1>1, AttemptOf
<1>3. StepIs(id[1], ledger[id[1]], jobs[id[1]], staging[id[1]], published[id[1]])
  BY <1>1, <1>2 DEF Data, StepsSound
<1>4. /\ Rec(id) \in Attempt /\ Job(id) \in Execution /\ Told(Rec(id), Job(id))
      /\ ledger[id[1]] \in Seq(Attempt) /\ Owed(ledger[id[1]]) /\ Budgeted(ledger[id[1]])
      /\ Onto(ledger[id[1]]) = {} /\ Rec(id).fate \notin Moved => id[2] = Len(ledger[id[1]])
  BY <1>2, <1>3, OneAttempt DEF Rec, Job
<1>5. InHand(tick.pc, Rec(id), Job(id), staging[id[1]][id[2]], published[id[1]], id[1],
             id[2], ledger[id[1]], tick.reply)
  BY DEF IInv, HandSound, Staged, Output
<1>6. tick.back \in {"unfinalized", "inflight", "launch"} /\ id \notin tick.todo
  BY DEF IInv, TodoSound
<1>7. tick.reply \in Replies /\ tick.todo \subseteq Attempts
  BY <1>1 DEF TickRec
<1> QED
  BY <1>1, <1>2, <1>4, <1>5, <1>6, <1>7

\* A tick that stays with an attempt, or leaves it for where it came from.
LEMMA HandMoves ==
    ASSUME IInv, tick.pc \in Busy, NEW id, id = tick.at, NEW pc, pc \in Busy \/ pc = tick.back,
           Going(pc), Data', Attempts' = Attempts,
           \A i \in Attempts : i # id => Rec(i)' = Rec(i),
           \A s \in Steps : Len(ledger'[s]) = Len(ledger[s]),
           inputs' = inputs, wait' = wait, budget' \in Budgets,
           pc \in Busy => InHand(pc, Rec(id)', Job(id)', staging'[id[1]][id[2]], published'[id[1]],
                                 id[1], id[2], ledger'[id[1]], tick'.reply)
    PROVE  IInv'
<1>1. /\ id \in Attempts /\ id[1] \in Steps /\ tick.back \in {"unfinalized", "inflight", "launch"}
      /\ id \notin tick.todo /\ tick.todo \subseteq Attempts
  BY Hand
<1>2. TypeOK'
  BY <1>1, Parts, TypeFollows DEF Going
<1>3. StepsSound'
  BY DEF Data
<1>4. Phase' = Phase /\ Phase = tick.back
  BY <1>1 DEF Phase, Going, Busy
<1>5. TodoSound'
  <2>1. /\ tick.todo \subseteq Unknown => tick'.todo \subseteq Unknown'
        /\ tick.todo \subseteq Unfinalized => tick'.todo \subseteq Unfinalized'
        /\ tick.todo \subseteq InFlight => tick'.todo \subseteq InFlight'
    BY <1>1, TodoKept DEF Going
  <2>2. TodoSound
    BY DEF IInv
  <2> QED
    BY <1>1, <1>4, <2>1, <2>2 DEF TodoSound, Going
<1>6. HandSound'
  BY <1>1 DEF HandSound, Going, Staged, Output
<1> QED
  BY <1>2, <1>3, <1>5, <1>6 DEF IInv

-----------------------------------------------------------------------------
(* Publication: every step of it moves one attempt that is not published yet. *)

\* What is known of it at every step.
LEMMA InPublication ==
    ASSUME IInv, tick.pc \in Publishing, NEW id, id = tick.at,
           NEW y, y = staging[id[1]][id[2]], NEW p, p = published[id[1]], NEW n, n = id[2]
    PROVE  /\ id \in Attempts /\ id[1] \in Steps /\ tick.pc \in Busy /\ Data
           /\ Rec(id).failure = "none" /\ ~Rec(id).published /\ Rec(id).sub \notin {"intent", "unverified"}
           /\ n \in Nat \ {0}
           /\ y \in [old : Int, fresh : Int, marker : BOOLEAN] /\ p \in [main : Int, dir : Int]
           /\ Plan[id[1]].dir => Left(y, n, Job(id)) /\ (p.dir = Gone \/ Whole(p.dir))
           /\ Onto(ledger[id[1]]) = {} => Settled(y, n, p.dir)
           /\ Stands(tick.pc, Job(id), y, p, id[1], n, ledger[id[1]])
<1>1. tick.pc \in Busy
  BY DEF Publishing, Replacing, Busy
<1>2. /\ id \in Attempts /\ id[1] \in Steps /\ n \in 1 .. Len(ledger[id[1]]) /\ Data
      /\ InHand(tick.pc, Rec(id), Job(id), y, p, id[1], n, ledger[id[1]], tick.reply)
      /\ Told(Rec(id), Job(id))
      /\ Onto(ledger[id[1]]) = {} /\ Rec(id).fate \notin Moved => n = Len(ledger[id[1]])
  BY <1>1, Hand
<1>3. /\ Rec(id).failure = "none" /\ ~Rec(id).published /\ Rec(id).sub \notin {"intent", "unverified"}
      /\ Stands(tick.pc, Job(id), y, p, id[1], n, ledger[id[1]])
  BY <1>2 DEF InHand
<1>4. Onto(ledger[id[1]]) = {} => n = Len(ledger[id[1]])
  BY <1>2, <1>3 DEF Told, Moved
<1>5. StepIs(id[1], ledger[id[1]], jobs[id[1]], staging[id[1]], published[id[1]])
  BY <1>2 DEF Data, StepsSound
<1>6. /\ y \in [old : Int, fresh : Int, marker : BOOLEAN] /\ p \in [main : Int, dir : Int]
      /\ Plan[id[1]].dir => Left(y, n, Job(id)) /\ (p.dir = Gone \/ Whole(p.dir))
      /\ Onto(ledger[id[1]]) = {} => Settled(y, n, p.dir)
  <2>1. PICK s, A, J, G : s = id[1] /\ A = ledger[s] /\ J = jobs[s] /\ G = staging[s]
    OBVIOUS
  <2>2. s \in Steps /\ StepIs(s, A, J, G, p) /\ n \in 1 .. Len(A)
    BY <1>2, <1>5, <2>1
  <2>3. /\ G[n] \in [old : Int, fresh : Int, marker : BOOLEAN] /\ p \in [main : Int, dir : Int]
        /\ Plan[s].dir => Left(G[n], n, J[n]) /\ (p.dir = Gone \/ Whole(p.dir))
        /\ Onto(A) = {} /\ n = Len(A) => Settled(G[n], n, p.dir)
    BY <2>2, OneAttempt
  <2>4. y = G[n] /\ Job(id) = J[n]
    BY <2>1 DEF Job
  <2> QED
    BY <1>4, <2>1, <2>3, <2>4
<1>7. n \in Nat \ {0}
  BY <1>2
<1> QED
  BY <1>1, <1>2, <1>3, <1>6, <1>7

\* One step of a publication, which touches one staging area and one output.
LEMMA Published ==
    ASSUME IInv, tick.pc \in Publishing, NEW id, id = tick.at, NEW x, NEW q, NEW pc \in Publishing,
           Goto(pc) \/ (UNCHANGED tick /\ pc = tick.pc),
           UNCHANGED <<ledger, jobs, budget, inputs, wait>>,
           Becomes(id, x, q),
           Moves(id[1], staging[id[1]], Job(id), published[id[1]], id[2], x, q),
           Stands(pc, Job(id), x, q, id[1], id[2], ledger[id[1]])
    PROVE  IInv'
<1>1. /\ id \in Attempts /\ id[1] \in Steps /\ tick.pc \in Busy /\ Data
      /\ Rec(id).failure = "none" /\ ~Rec(id).published /\ Rec(id).sub \notin {"intent", "unverified"}
  BY InPublication
<1>2. Job(id) \in {"good", "nodir"}
  BY DEF Stands
<1>3. Data' /\ staging'[id[1]][id[2]] = x /\ published'[id[1]] = q
  BY <1>1, <1>2, PublicationMoved
<1>4. Attempts' = Attempts /\ (\A s \in Steps : Len(ledger'[s]) = Len(ledger[s]))
  BY DEF Attempts
<1>5. pc \in Busy
  BY DEF Publishing, Replacing, Busy
<1>6. Going(pc)
  BY <1>4, <1>5, Goes, Stays
<1>7. Rec(id)' = Rec(id) /\ Job(id)' = Job(id) /\ (\A i \in Attempts : i # id => Rec(i)' = Rec(i))
      /\ ledger' = ledger
  BY DEF Rec, Job
<1>8. InHand(pc, Rec(id), Job(id), x, q, id[1], id[2], ledger[id[1]], tick'.reply)
  BY <1>1, <1>2 DEF InHand, Publishing, Replacing, Terminal, Completed
<1>9. InHand(pc, Rec(id)', Job(id)', x, q, id[1], id[2], ledger'[id[1]], tick'.reply)
  BY <1>7, <1>8
<1>10. budget' \in Budgets
  BY Parts
<1>11. inputs' = inputs /\ wait' = wait
  OBVIOUS
<1> QED
  BY <1>1, <1>3, <1>4, <1>5, <1>6, <1>7, <1>9, <1>10, <1>11, HandMoves

\* The main output is overwritten in place: torn, then whole.
LEMMA FilePublished ==
    ASSUME IInv, OpenFile \/ WriteFile
    PROVE  IInv'
<1>1. PICK id : id = tick.at
  OBVIOUS
<1>2. PICK y : y = staging[id[1]][id[2]]
  OBVIOUS
<1>3. PICK n, p, A : n = id[2] /\ p = published[id[1]] /\ A = ledger[id[1]]
  OBVIOUS
<1>4. tick.pc \in Publishing
  BY DEF OpenFile, WriteFile, Publishing
<1>5. /\ y \in [old : Int, fresh : Int, marker : BOOLEAN] /\ p \in [main : Int, dir : Int]
      /\ Plan[id[1]].dir => Left(y, n, Job(id)) /\ (p.dir = Gone \/ Whole(p.dir))
      /\ Stands(tick.pc, Job(id), y, p, id[1], n, A) /\ n \in Nat \ {0} /\ Data /\ id[1] \in Steps
  BY <1>1, <1>2, <1>3, <1>4, InPublication
<1>6. PICK pc, c, q :
         /\ q = [p EXCEPT !.main = c] /\ published' = [published EXCEPT ![id[1]].main = c]
         /\ staging' = staging /\ Goto(pc) /\ UNCHANGED <<ledger, jobs, budget, inputs, wait>>
         /\ \/ c = Torn /\ pc = "file"
            \/ c = n /\ pc = IF Plan[id[1]].dir /\ Job(id) = "good" THEN "dir" ELSE "certify"
  BY <1>1, <1>3 DEF OpenFile, WriteFile, ShowMain, Output
<1>7. q \in [main : Int, dir : Int] /\ q.main = c /\ q.dir = p.dir
  <2>1. c \in Int
    BY <1>5, <1>6 DEF Torn
  <2> QED
    BY <1>5, <1>6, <2>1
<1>8. Becomes(id, y, q)
  <2>1. published' = [published EXCEPT ![id[1]] = q]
    BY <1>3, <1>5, <1>6 DEF Data
  <2> QED
    BY <1>2, <1>6, <2>1 DEF Becomes
<1>9. Moves(id[1], staging[id[1]], Job(id), p, n, y, q)
  <2>1. q.main \in {p.main, Torn, n} /\ q.dir \in {p.dir, Gone, n}
    BY <1>6, <1>7
  <2>2. y = staging[id[1]][n]
    BY <1>2, <1>3
  <2> QED
    BY <1>5, <1>7, <2>1, <2>2 DEF Moves
<1>10. pc \in Publishing /\ Stands(pc, Job(id), y, q, id[1], n, A)
  <2>1. Job(id) \in {"good", "nodir"}
    BY <1>5 DEF Stands
  <2>2. CASE pc = "file"
    BY <2>1, <2>2 DEF Stands, Publishing, Replacing
  <2>3. CASE pc = "dir" /\ c = n /\ Plan[id[1]].dir /\ Job(id) = "good"
    BY <1>7, <2>1, <2>3 DEF Stands, Publishing, Replacing
  <2>4. CASE pc = "certify" /\ c = n /\ ~(Plan[id[1]].dir /\ Job(id) = "good")
    BY <1>7, <2>1, <2>4 DEF Stands, Publishing, Replacing
  <2> QED
    BY <1>6, <2>2, <2>3, <2>4
<1> QED
  BY <1>1, <1>3, <1>4, <1>6, <1>8, <1>9, <1>10, Published

\* What a step of _replace_dir does to what is left and to what is shown: a whole result stays
\* under some name.
Replaces(y, n, d, x, e) ==
    /\ x \in [old : Int, fresh : Int, marker : BOOLEAN] /\ e \in {d, Gone, n}
    /\ Left(x, n, "good") /\ (Settled(y, n, d) => Settled(x, n, e))
    /\ \/ Whole(e) \/ Whole(x.old) \/ (x.marker /\ Whole(x.fresh))
       \/ /\ e = d /\ x.old = y.old
          /\ y.marker /\ Whole(y.fresh) => x.marker /\ x.fresh = y.fresh

\* Where it leads.
Leads(pc, x, e, n, A) ==
    /\ pc \in {"dir", "certify"} \cup Replacing
    /\ pc = "copy" => x.fresh = Torn /\ ~x.marker
    /\ pc = "mark" => x.fresh = n
    /\ pc \in {"aside", "install"} => x.fresh = n /\ x.marker
    /\ pc \in {"tidy", "unmark"} => x.fresh = Gone /\ e = n
    /\ pc = "certify" /\ Onto(A) = {} => e = n

\* A step of the replacement of a directory that loses nothing and leads to where it should.
LEMMA DirectoryMoved ==
    ASSUME IInv, tick.pc \in {"dir"} \cup Replacing, NEW id, id = tick.at,
           NEW y, y = staging[id[1]][id[2]], NEW d, d = published[id[1]].dir, NEW n, n = id[2],
           NEW x, NEW e, NEW pc, Goto(pc) \/ (UNCHANGED tick /\ pc = tick.pc),
           UNCHANGED <<ledger, jobs, budget, inputs, wait>>,
           \/ staging' = [staging EXCEPT ![id[1]][id[2]] = x]
           \/ staging' = staging /\ x = y,
           \/ published' = [published EXCEPT ![id[1]].dir = e]
           \/ published' = published /\ e = d,
           Replaces(y, n, d, x, e), Leads(pc, x, e, n, ledger[id[1]])
    PROVE  IInv'
<1>1. PICK p, q : p = published[id[1]] /\ q = [p EXCEPT !.dir = e]
  OBVIOUS
<1>2. tick.pc \in Publishing /\ pc \in Publishing
  BY DEF Publishing, Leads
<1>3. /\ id[1] \in Steps /\ Data /\ n \in Nat \ {0} /\ p \in [main : Int, dir : Int]
      /\ Stands(tick.pc, Job(id), y, p, id[1], n, ledger[id[1]])
  <2>1. tick.pc \in Publishing /\ p = published[id[1]]
    BY <1>1, <1>2
  <2> HIDE <1>1, <1>2
  <2> QED
    BY <2>1, InPublication
<1>4. Plan[id[1]].dir /\ Job(id) = "good" /\ p.main = n
  BY <1>3 DEF Stands
<1>5. q \in [main : Int, dir : Int] /\ q.main = p.main /\ q.dir = e /\ (e = p.dir => q = p)
  <2>1. e \in Int
    BY <1>1, <1>3 DEF Replaces, Gone
  <2> QED
    BY <1>1, <1>3, <2>1
<1>6. Becomes(id, x, q)
  <2>1. published' = [published EXCEPT ![id[1]] = q] \/ (published' = published /\ q = p)
    BY <1>1, <1>3, <1>5 DEF Data
  <2> QED
    BY <1>1, <2>1 DEF Becomes
<1>7. Moves(id[1], staging[id[1]], Job(id), p, n, x, q)
  <2>1. y = staging[id[1]][n] /\ d = p.dir
    BY <1>1
  <2> QED
    BY <1>4, <1>5, <2>1 DEF Moves, Replaces
<1>8. Stands(pc, Job(id), x, q, id[1], n, ledger[id[1]])
  BY <1>4, <1>5 DEF Stands, Leads
<1> QED
  BY <1>1, <1>2, <1>6, <1>7, <1>8, Published

DirectoryStep ==
    Discard \/ FinishCleanup \/ StartCopy \/ Copied \/ Mark \/ ReuseCopy \/ MoveAside \/ Install \/ Tidy \/ Unmark

\* Every step of _replace_dir keeps a whole result under some name.
LEMMA DirectoryPublished ==
    ASSUME IInv, DirectoryStep
    PROVE  IInv'
<1>1. PICK id : id = tick.at
  OBVIOUS
<1>2. PICK y : y = staging[id[1]][id[2]]
  OBVIOUS
<1>3. PICK n, d, A : n = id[2] /\ d = published[id[1]].dir /\ A = ledger[id[1]]
  OBVIOUS
<1>4. tick.pc \in {"dir"} \cup Replacing /\ tick.pc \in Publishing
  BY DEF DirectoryStep, Discard, FinishCleanup, StartCopy, Copied, Mark, ReuseCopy, MoveAside,
     Install, Tidy, Unmark, Publishing, Replacing
<1>5. /\ y \in [old : Int, fresh : Int, marker : BOOLEAN] /\ n \in Nat \ {0}
      /\ Left(y, n, "good") /\ (d = Gone \/ Whole(d)) /\ d \in Int
      /\ Onto(A) = {} => Settled(y, n, d)
      /\ Leads(tick.pc, y, d, n, A)
  <2>1. PICK p : p = published[id[1]]
    OBVIOUS
  <2>2. /\ y \in [old : Int, fresh : Int, marker : BOOLEAN] /\ n \in Nat \ {0}
        /\ Plan[id[1]].dir => Left(y, n, Job(id)) /\ (p.dir = Gone \/ Whole(p.dir))
        /\ Onto(A) = {} => Settled(y, n, p.dir)
        /\ Stands(tick.pc, Job(id), y, p, id[1], n, A) /\ p \in [main : Int, dir : Int]
    BY <1>1, <1>2, <1>3, <1>4, <2>1, InPublication
  <2>3. Plan[id[1]].dir /\ Job(id) = "good" /\ d = p.dir
    BY <1>3, <1>4, <2>1, <2>2 DEF Stands
  <2>4. Leads(tick.pc, y, d, n, A)
    BY <1>4, <2>2, <2>3 DEF Stands, Leads
  <2> QED
    BY <2>2, <2>3, <2>4
\* An incomplete copy goes.
<1>6. CASE Discard
  <2>1. PICK x : x = [y EXCEPT !.fresh = Gone]
    OBVIOUS
  <2>2. x.old = y.old /\ x.fresh = Gone /\ x.marker = y.marker
    BY <1>5, <2>1
  <2>3. x \in [old : Int, fresh : Int, marker : BOOLEAN]
    BY <1>5, <2>1 DEF Gone, Torn
  <2>4. y.fresh # Gone /\ ~y.marker
    BY <1>1, <1>2, <1>3, <1>5, <1>6 DEF Discard, Staged, Output, Leads
  <2>5. Replaces(y, n, d, x, d)
    <3>1. Left(x, n, "good")
      BY <1>5, <2>2, <2>4 DEF Left, Gone, Torn
    <3>2. Settled(y, n, d) => Settled(x, n, d)
      BY <1>5, <2>2, <2>4 DEF Settled, Gone, Torn
    <3> QED
      BY <1>5, <2>2, <2>3, <2>4, <3>1, <3>2 DEF Replaces, Whole, Gone, Torn
  <2>6. Leads("dir", x, d, n, A)
    BY <1>5, <2>2, <2>4 DEF Leads, Replacing, Settled, Gone, Torn
  <2>7. /\ UNCHANGED tick /\ tick.pc = "dir" /\ published' = published
        /\ staging' = [staging EXCEPT ![id[1]][id[2]] = x] /\ UNCHANGED <<ledger, jobs, budget, inputs, wait>>
    BY <1>1, <1>2, <1>3, <1>5, <1>6, <2>1 DEF Discard, Stage, Show, Staged, Output
  <2> QED
    BY <1>1, <1>2, <1>3, <1>4, <2>5, <2>6, <2>7, DirectoryMoved
\* What an earlier run installed stays installed.
<1>7. CASE FinishCleanup
  <2>a. PICK left \in {Gone, Torn} : staging' = [staging EXCEPT ![id[1]][id[2]] = [y EXCEPT !.old = left, !.marker = FALSE]]
    BY <1>1, <1>2, <1>3, <1>7 DEF FinishCleanup, Stage, Staged, Output
  <2>1. PICK x : x = [y EXCEPT !.old = left, !.marker = FALSE]
    OBVIOUS
  <2>2. x.old = left /\ x.fresh = y.fresh /\ ~x.marker
    BY <1>5, <2>1
  <2>w. PICK w : w = [y EXCEPT !.old = left]
    OBVIOUS
  <2>v. w \in [old : Int, fresh : Int, marker : BOOLEAN]
    BY <1>5, <2>w, <2>a DEF Gone, Torn
  <2>3. x \in [old : Int, fresh : Int, marker : BOOLEAN]
    BY <2>1, <2>w, <2>v
  <2>4. y.fresh = Gone /\ y.old # Gone /\ Whole(d)
    BY <1>1, <1>2, <1>3, <1>5, <1>7 DEF FinishCleanup, Staged, Output, Leads
  <2>5. Replaces(y, n, d, x, d)
    <3>1. Left(x, n, "good")
      BY <1>5, <2>2, <2>4 DEF Left, Gone, Torn
    <3>2. Settled(y, n, d) => Settled(x, n, d)
      BY <1>5, <2>2, <2>4, <2>a DEF Settled, Gone, Torn
    <3> QED
      BY <1>5, <2>2, <2>3, <2>4, <3>1, <3>2 DEF Replaces, Whole, Gone, Torn
  <2>6. Leads("certify", x, d, n, A)
    BY <1>5, <2>2, <2>4 DEF Leads, Replacing, Settled, Gone, Torn
  <2>7. /\ Goto("certify") /\ published' = published
        /\ staging' = [staging EXCEPT ![id[1]][id[2]] = x] /\ UNCHANGED <<ledger, jobs, budget, inputs, wait>>
    BY <1>1, <1>2, <1>3, <1>5, <1>7, <2>1, <2>a DEF FinishCleanup, Stage, Show, Staged, Output
  <2> QED
    BY <1>1, <1>2, <1>3, <1>4, <2>5, <2>6, <2>7, DirectoryMoved
\* A copy is begun: nothing was moved aside.
<1>8. CASE StartCopy
  <2>1. PICK x : x = [y EXCEPT !.fresh = Torn, !.marker = FALSE]
    OBVIOUS
  <2>2. x.old = y.old /\ x.fresh = Torn /\ ~x.marker
    BY <1>5, <2>1
  <2>w. PICK w : w = [y EXCEPT !.fresh = Torn]
    OBVIOUS
  <2>v. w \in [old : Int, fresh : Int, marker : BOOLEAN]
    BY <1>5, <2>w DEF Gone, Torn
  <2>3. x \in [old : Int, fresh : Int, marker : BOOLEAN]
    BY <2>1, <2>w, <2>v
  <2>4. y.fresh = Gone /\ (y.old = Gone \/ d = Gone)
    BY <1>1, <1>2, <1>3, <1>5, <1>8 DEF StartCopy, Staged, Output, Leads
  <2>5. Replaces(y, n, d, x, d)
    <3>1. Left(x, n, "good")
      BY <1>5, <2>2, <2>4 DEF Left, Gone, Torn
    <3>2. Settled(y, n, d) => Settled(x, n, d)
      BY <1>5, <2>2, <2>4 DEF Settled, Gone, Torn
    <3> QED
      BY <1>5, <2>2, <2>3, <2>4, <3>1, <3>2 DEF Replaces, Whole, Gone, Torn
  <2>6. Leads("copy", x, d, n, A)
    BY <1>5, <2>2, <2>4 DEF Leads, Replacing, Settled, Gone, Torn
  <2>7. /\ Goto("copy") /\ published' = published
        /\ staging' = [staging EXCEPT ![id[1]][id[2]] = x] /\ UNCHANGED <<ledger, jobs, budget, inputs, wait>>
    BY <1>1, <1>2, <1>3, <1>5, <1>8, <2>1 DEF StartCopy, Stage, Show, Staged, Output
  <2> QED
    BY <1>1, <1>2, <1>3, <1>4, <2>5, <2>6, <2>7, DirectoryMoved
\* The copy is complete.
<1>9. CASE Copied
  <2>1. PICK x : x = [y EXCEPT !.fresh = n]
    OBVIOUS
  <2>2. x.old = y.old /\ x.fresh = n /\ x.marker = y.marker
    BY <1>5, <2>1
  <2>3. x \in [old : Int, fresh : Int, marker : BOOLEAN]
    BY <1>5, <2>1 DEF Gone, Torn
  <2>4. y.fresh = Torn /\ ~y.marker
    BY <1>1, <1>2, <1>3, <1>5, <1>9 DEF Copied, Staged, Output, Leads
  <2>5. Replaces(y, n, d, x, d)
    <3>1. Left(x, n, "good")
      BY <1>5, <2>2, <2>4 DEF Left, Gone, Torn
    <3>2. Settled(y, n, d) => Settled(x, n, d)
      BY <1>5, <2>2, <2>4 DEF Settled, Gone, Torn
    <3> QED
      BY <1>5, <2>2, <2>3, <2>4, <3>1, <3>2 DEF Replaces, Whole, Gone, Torn
  <2>6. Leads("mark", x, d, n, A)
    BY <1>5, <2>2, <2>4 DEF Leads, Replacing, Settled, Gone, Torn
  <2>7. /\ Goto("mark") /\ published' = published
        /\ staging' = [staging EXCEPT ![id[1]][id[2]] = x] /\ UNCHANGED <<ledger, jobs, budget, inputs, wait>>
    BY <1>1, <1>2, <1>3, <1>5, <1>9, <2>1 DEF Copied, Stage, Show, Staged, Output
  <2> QED
    BY <1>1, <1>2, <1>3, <1>4, <2>5, <2>6, <2>7, DirectoryMoved
\* The complete copy is marked.
<1>10. CASE Mark
  <2>1. PICK x : x = [y EXCEPT !.marker = TRUE]
    OBVIOUS
  <2>2. x.old = y.old /\ x.fresh = y.fresh /\ x.marker
    BY <1>5, <2>1
  <2>3. x \in [old : Int, fresh : Int, marker : BOOLEAN]
    BY <1>5, <2>1 DEF Gone, Torn
  <2>4. y.fresh = n
    BY <1>1, <1>2, <1>3, <1>5, <1>10 DEF Mark, Staged, Output, Leads
  <2>5. Replaces(y, n, d, x, d)
    <3>1. Left(x, n, "good")
      BY <1>5, <2>2, <2>4 DEF Left, Gone, Torn
    <3>2. Settled(y, n, d) => Settled(x, n, d)
      BY <1>5, <2>2, <2>4 DEF Settled, Gone, Torn
    <3> QED
      BY <1>5, <2>2, <2>3, <2>4, <3>1, <3>2 DEF Replaces, Whole, Gone, Torn
  <2>6. Leads("aside", x, d, n, A)
    BY <1>5, <2>2, <2>4 DEF Leads, Replacing, Settled, Gone, Torn
  <2>7. /\ Goto("aside") /\ published' = published
        /\ staging' = [staging EXCEPT ![id[1]][id[2]] = x] /\ UNCHANGED <<ledger, jobs, budget, inputs, wait>>
    BY <1>1, <1>2, <1>3, <1>5, <1>10, <2>1 DEF Mark, Stage, Show, Staged, Output
  <2> QED
    BY <1>1, <1>2, <1>3, <1>4, <2>5, <2>6, <2>7, DirectoryMoved
\* A complete copy is used again.
<1>11. CASE ReuseCopy
  <2>1. y.fresh = n /\ y.marker
    BY <1>1, <1>2, <1>3, <1>5, <1>11 DEF ReuseCopy, Staged, Output, Left
  <2>2. Replaces(y, n, d, y, d) /\ Leads("aside", y, d, n, A)
    BY <1>5, <2>1 DEF Replaces, Leads, Replacing
  <2>3. Goto("aside") /\ published' = published /\ staging' = staging /\ UNCHANGED <<ledger, jobs, budget, inputs, wait>>
    BY <1>11 DEF ReuseCopy, files
  <2> QED
    BY <1>1, <1>2, <1>3, <1>4, <2>2, <2>3, DirectoryMoved
\* There is nothing to move aside.
<1>12. CASE MoveAside /\ d = Gone
  <2>1. y.fresh = n /\ y.marker
    BY <1>5, <1>12 DEF MoveAside, Leads
  <2>2. Replaces(y, n, d, y, d) /\ Leads("install", y, d, n, A)
    BY <1>5, <2>1 DEF Replaces, Leads, Replacing
  <2>3. Goto("install") /\ published' = published /\ staging' = staging /\ UNCHANGED <<ledger, jobs, budget, inputs, wait>>
    BY <1>1, <1>3, <1>12 DEF MoveAside, files, Output
  <2> QED
    BY <1>1, <1>2, <1>3, <1>4, <2>2, <2>3, DirectoryMoved
\* The output is moved aside: the marked copy is whole.
<1>13. CASE MoveAside /\ d # Gone
  <2>1. PICK x : x = [y EXCEPT !.old = d]
    OBVIOUS
  <2>2. x.old = d /\ x.fresh = y.fresh /\ x.marker = y.marker
    BY <1>5, <2>1
  <2>3. x \in [old : Int, fresh : Int, marker : BOOLEAN]
    BY <1>5, <2>1 DEF Whole, Gone, Torn
  <2>4. y.fresh = n /\ y.marker
    BY <1>1, <1>2, <1>3, <1>5, <1>13 DEF MoveAside, Staged, Output, Leads
  <2>5. Replaces(y, n, d, x, Gone)
    <3>1. Left(x, n, "good")
      BY <1>5, <2>2, <2>4 DEF Left, Gone, Torn
    <3>2. Settled(y, n, d) => Settled(x, n, Gone)
      BY <1>5, <2>2, <2>4 DEF Settled, Gone, Torn
    <3> QED
      BY <1>5, <1>13, <2>2, <2>3, <2>4, <3>1, <3>2 DEF Replaces, Whole, Gone, Torn
  <2>6. Leads("install", x, Gone, n, A)
    BY <1>5, <2>2, <2>4 DEF Leads, Replacing, Settled, Gone, Torn
  <2>7. /\ Goto("install") /\ published' = [published EXCEPT ![id[1]].dir = Gone]
        /\ staging' = [staging EXCEPT ![id[1]][id[2]] = x] /\ UNCHANGED <<ledger, jobs, budget, inputs, wait>>
    BY <1>1, <1>2, <1>3, <1>5, <1>13, <2>1, <2>4 DEF MoveAside, Stage, Show, Staged, Output
  <2> QED
    BY <1>1, <1>2, <1>3, <1>4, <2>5, <2>6, <2>7, DirectoryMoved
\* The marked copy takes the place of the output.
<1>14. CASE Install
  <2>1. PICK x : x = [y EXCEPT !.fresh = Gone]
    OBVIOUS
  <2>2. x.old = y.old /\ x.fresh = Gone /\ x.marker = y.marker
    BY <1>5, <2>1
  <2>3. x \in [old : Int, fresh : Int, marker : BOOLEAN]
    BY <1>5, <2>1 DEF Gone, Torn
  <2>4. y.fresh = n /\ y.marker
    BY <1>1, <1>2, <1>3, <1>5, <1>14 DEF Install, Staged, Output, Leads
  <2>5. Replaces(y, n, d, x, n)
    <3>1. Left(x, n, "good")
      BY <1>5, <2>2, <2>4 DEF Left, Gone, Torn
    <3>2. Settled(y, n, d) => Settled(x, n, n)
      BY <1>5, <2>2, <2>4 DEF Settled, Gone, Torn
    <3> QED
      BY <1>5, <2>2, <2>3, <2>4, <3>1, <3>2 DEF Replaces, Whole, Gone, Torn
  <2>6. Leads("tidy", x, n, n, A)
    BY <1>5, <2>2, <2>4 DEF Leads, Replacing, Settled, Gone, Torn
  <2>7. /\ Goto("tidy") /\ published' = [published EXCEPT ![id[1]].dir = n]
        /\ staging' = [staging EXCEPT ![id[1]][id[2]] = x] /\ UNCHANGED <<ledger, jobs, budget, inputs, wait>>
    BY <1>1, <1>2, <1>3, <1>5, <1>14, <2>1, <2>4 DEF Install, Stage, Show, Staged, Output
  <2> QED
    BY <1>1, <1>2, <1>3, <1>4, <2>5, <2>6, <2>7, DirectoryMoved
\* The backup of an installed copy goes, or what can be removed of it.
<1>15. CASE Tidy
  <2>a. PICK left \in {Gone, Torn} : staging' = [staging EXCEPT ![id[1]][id[2]] = [y EXCEPT !.old = left]]
    BY <1>1, <1>2, <1>3, <1>15 DEF Tidy, Stage, Staged, Output
  <2>1. PICK x : x = [y EXCEPT !.old = left]
    OBVIOUS
  <2>2. x.old = left /\ x.fresh = y.fresh /\ x.marker = y.marker
    BY <1>5, <2>1
  <2>3. x \in [old : Int, fresh : Int, marker : BOOLEAN]
    BY <1>5, <2>1, <2>a DEF Gone, Torn
  <2>4. y.fresh = Gone /\ d = n
    BY <1>1, <1>2, <1>3, <1>5, <1>15 DEF Tidy, Staged, Output, Leads
  <2>5. Replaces(y, n, d, x, d)
    <3>1. Left(x, n, "good")
      BY <1>5, <2>2, <2>4 DEF Left, Gone, Torn
    <3>2. Settled(y, n, d) => Settled(x, n, d)
      BY <1>5, <2>2, <2>4, <2>a DEF Settled, Gone, Torn
    <3> QED
      BY <1>5, <2>2, <2>3, <2>4, <3>1, <3>2 DEF Replaces, Whole, Gone, Torn
  <2>6. Leads("unmark", x, d, n, A)
    BY <1>5, <2>2, <2>4 DEF Leads, Replacing, Settled, Gone, Torn
  <2>7. /\ Goto("unmark") /\ published' = published
        /\ staging' = [staging EXCEPT ![id[1]][id[2]] = x] /\ UNCHANGED <<ledger, jobs, budget, inputs, wait>>
    BY <1>1, <1>2, <1>3, <1>5, <1>15, <2>1, <2>a DEF Tidy, Stage, Show, Staged, Output
  <2> QED
    BY <1>1, <1>2, <1>3, <1>4, <2>5, <2>6, <2>7, DirectoryMoved
\* The marker of an installed copy goes.
<1>16. CASE Unmark
  <2>1. PICK x : x = [y EXCEPT !.marker = FALSE]
    OBVIOUS
  <2>2. x.old = y.old /\ x.fresh = y.fresh /\ ~x.marker
    BY <1>5, <2>1
  <2>3. x \in [old : Int, fresh : Int, marker : BOOLEAN]
    BY <1>5, <2>1 DEF Gone, Torn
  <2>4. y.fresh = Gone /\ d = n
    BY <1>1, <1>2, <1>3, <1>5, <1>16 DEF Unmark, Staged, Output, Leads
  <2>5. Replaces(y, n, d, x, d)
    <3>1. Left(x, n, "good")
      BY <1>5, <2>2, <2>4 DEF Left, Gone, Torn
    <3>2. Settled(y, n, d) => Settled(x, n, d)
      BY <1>5, <2>2, <2>4 DEF Settled, Gone, Torn
    <3> QED
      BY <1>5, <2>2, <2>3, <2>4, <3>1, <3>2 DEF Replaces, Whole, Gone, Torn
  <2>6. Leads("certify", x, d, n, A)
    BY <1>5, <2>2, <2>4 DEF Leads, Replacing, Settled, Gone, Torn
  <2>7. /\ Goto("certify") /\ published' = published
        /\ staging' = [staging EXCEPT ![id[1]][id[2]] = x] /\ UNCHANGED <<ledger, jobs, budget, inputs, wait>>
    BY <1>1, <1>2, <1>3, <1>5, <1>16, <2>1 DEF Unmark, Stage, Show, Staged, Output
  <2> QED
    BY <1>1, <1>2, <1>3, <1>4, <2>5, <2>6, <2>7, DirectoryMoved
<1> QED
  BY <1>6, <1>7, <1>8, <1>9, <1>10, <1>11, <1>12, <1>13, <1>14, <1>15, <1>16 DEF DirectoryStep

-----------------------------------------------------------------------------
(* Verdicts and submissions: records that are saved for the attempt in hand. *)

\* The tick goes on with an answer of sbatch.
LEMMA Answers ==
    ASSUME IInv, Attempts' = Attempts, NEW pc \in Busy \cup Phases, NEW reply \in Replies,
           tick' = [tick EXCEPT !.pc = pc, !.reply = reply]
    PROVE  Going(pc) /\ tick'.reply = reply
<1>1. tick \in TickRec
  BY Parts
<1>2. PICK t : t = [tick EXCEPT !.pc = pc]
  OBVIOUS
<1>3. t \in TickRec
  BY <1>1, <1>2 DEF TickRec
<1>4. tick' = [t EXCEPT !.reply = reply]
  BY <1>2
<1>5. tick' \in TickRec
  BY <1>3, <1>4 DEF TickRec
<1>6. tick' \in TickRec'
  BY <1>5 DEF TickRec
<1>7. /\ tick'.pc = pc /\ tick'.reply = reply /\ tick'.at = tick.at /\ tick'.todo = tick.todo
      /\ tick'.back = tick.back /\ tick'.submitted = tick.submitted
  BY <1>1 DEF TickRec
<1> QED
  BY <1>6, <1>7 DEF Going

\* The record of the attempt in hand is saved.
LEMMA HandSaved ==
    ASSUME IInv, tick.pc \in Busy, NEW id, id = tick.at, NEW rec \in Attempt, Save(id, rec),
           UNCHANGED <<jobs, files, inputs, wait, budget>>, NEW pc, pc \in Busy \/ pc = tick.back,
           Attempts' = Attempts => Going(pc),
           NEW B, B = [ledger[id[1]] EXCEPT ![id[2]] = rec], Told(rec, Job(id)),
           Owed(B), Budgeted(B), Onto(B) = Onto(ledger[id[1]]),
           Onto(B) = {} => Held(id[1], rec, Job(id), id[2], published[id[1]]),
           pc \in Busy => InHand(pc, rec, Job(id), staging[id[1]][id[2]], published[id[1]],
                                 id[1], id[2], B, tick'.reply)
    PROVE  IInv'
<1>1. Data /\ id \in Attempts
  BY Hand
<1>2. UNCHANGED <<jobs, files>>
  OBVIOUS
<1>3. /\ Data' /\ Attempts' = Attempts /\ Rec(id)' = rec
      /\ \A s \in Steps : Len(ledger'[s]) = Len(ledger[s])
      /\ ledger'[id[1]] = B
      /\ \A i \in Attempts : i # id => Rec(i)' = Rec(i)
  BY <1>1, <1>2, RecordSaved
<1>4. Going(pc)
  BY <1>3
<1>5. Job(id)' = Job(id) /\ staging' = staging /\ published' = published
  BY DEF Job, files
<1>6. pc \in Busy => InHand(pc, Rec(id)', Job(id)', staging'[id[1]][id[2]], published'[id[1]],
                            id[1], id[2], ledger'[id[1]], tick'.reply)
  BY <1>3, <1>5
<1>7. budget' \in Budgets
  BY Parts
<1> QED
  BY <1>3, <1>4, <1>6, <1>7, HandMoves

\* The class of an ended attempt, which is ok for a good main output only.
LEMMA Classified ==
    ASSUME NEW id, Job(id) \in Terminal
    PROVE  /\ Classify(id) \in {"infra", "budget", "code", "science", "ok"}
           /\ Classify(id) = "ok" => Job(id) \in {"good", "nodir"}
BY DEF Classify, Verify, Terminal, Completed

\* The types of a record that is saved.
LEMMA RecordTypes ==
    ASSUME NEW a \in Attempt, NEW b \in BOOLEAN, NEW o \in (Classes \ {"unknown"}) \cup {"none"},
           NEW f \in {"none", "retried", "parked", "released"}, NEW v \in {"none", "ok", "bad"},
           NEW u \in {"intent", "submitted", "rejected", "unverified", "local", "adopted"}
    PROVE  /\ [a EXCEPT !.seen = b] \in Attempt /\ [a EXCEPT !.failure = o] \in Attempt
           /\ [a EXCEPT !.fate = f] \in Attempt /\ [a EXCEPT !.sub = u] \in Attempt
           /\ [a EXCEPT !.verdict = v] \in Attempt /\ [a EXCEPT !.published = b] \in Attempt
<1>1. [a EXCEPT !.seen = b] \in Attempt
  BY DEF Attempt
<1>2. [a EXCEPT !.failure = o] \in Attempt
  BY DEF Attempt
<1>3. [a EXCEPT !.fate = f] \in Attempt
  BY DEF Attempt
<1>4. [a EXCEPT !.sub = u] \in Attempt
  BY DEF Attempt
<1>5. [a EXCEPT !.verdict = v] \in Attempt
  BY DEF Attempt
<1>6. [a EXCEPT !.published = b] \in Attempt
  BY DEF Attempt
<1> QED
  BY <1>1, <1>2, <1>3, <1>4, <1>5, <1>6

\* An attempt whose outputs verify is published next.
LEMMA VerifiedKeeps ==
    ASSUME IInv, Verified
    PROVE  IInv'
<1>1. PICK id : id = tick.at
  OBVIOUS
<1>2. tick.pc = "judge" /\ Classify(id) = "ok" /\ Goto("publish") /\ tick.pc \in Busy
      /\ UNCHANGED <<ledger, jobs, files, inputs, wait, budget>>
  BY <1>1 DEF Verified, Busy
<1>3. /\ Data /\ id \in Attempts
      /\ InHand("judge", Rec(id), Job(id), staging[id[1]][id[2]], published[id[1]], id[1],
                id[2], ledger[id[1]], tick.reply)
  BY <1>1, <1>2, Hand
<1>4. /\ Job(id) \in {"good", "nodir"}
      /\ InHand("publish", Rec(id), Job(id), staging[id[1]][id[2]], published[id[1]], id[1],
                id[2], ledger[id[1]], tick.reply)
  BY <1>2, <1>3, Classified DEF InHand, Publishing, Replacing, Stands
<1>5. Attempts' = Attempts /\ Data' /\ budget' \in Budgets
  <2>1. Attempts' = Attempts
    BY <1>2 DEF Attempts
  <2>2. Data'
    BY <1>2, <1>3 DEF Data, StepsSound, files
  <2>3. budget' \in Budgets
    BY <1>2, Parts
  <2> QED
    BY <2>1, <2>2, <2>3
<1>6. Going("publish") /\ tick'.reply = tick.reply /\ "publish" \in Busy
  BY <1>2, <1>5, Goes DEF Busy
<1>a. /\ Rec(id)' = Rec(id) /\ Job(id)' = Job(id) /\ staging' = staging /\ published' = published
      /\ tick'.reply = tick.reply /\ ledger' = ledger
  BY <1>2, <1>6 DEF Rec, Job, files
<1>7. InHand("publish", Rec(id)', Job(id)', staging'[id[1]][id[2]], published'[id[1]], id[1],
             id[2], ledger'[id[1]], tick'.reply)
  BY <1>4, <1>a
<1>8. (\A i \in Attempts : i # id => Rec(i)' = Rec(i)) /\ (\A s \in Steps : Len(ledger'[s]) = Len(ledger[s]))
      /\ inputs' = inputs /\ wait' = wait
  BY <1>2 DEF Rec
<1> QED
  BY <1>1, <1>2, <1>5, <1>6, <1>7, <1>8, HandMoves

\* A retry is decided within the budget of its class, a step without one is parked.
LEMMA FailureKeeps ==
    ASSUME IInv, Retry \/ Park
    PROVE  IInv'
<1>1. PICK id : id = tick.at
  OBVIOUS
<1>2. PICK s, n, A : s = id[1] /\ n = id[2] /\ A = ledger[id[1]]
  OBVIOUS
<1>3. PICK class : class = Classify(id)
  OBVIOUS
<1>4. PICK fate, pc :
        /\ tick.pc = "judge" /\ class # "ok" /\ Fail(fate) /\ Goto(pc)
        /\ UNCHANGED <<jobs, files, budget, inputs, wait>>
        /\ \/ fate = "retried" /\ pc = "relaunch" /\ Used(s, class) < MaxAuto[class]
           \/ fate = "parked" /\ pc = tick.back
  BY <1>1, <1>2, <1>3 DEF Retry, Park
<1>5. tick.pc \in Busy
  BY <1>4 DEF Busy
<1>6. /\ Data /\ id \in Attempts /\ s \in Steps /\ n \in 1 .. Len(A) /\ Rec(id) \in Attempt
      /\ Told(Rec(id), Job(id)) /\ A \in Seq(Attempt) /\ Owed(A) /\ Budgeted(A) /\ Rec(id) = A[n]
      /\ tick.back \in {"unfinalized", "inflight", "launch"} /\ tick.reply \in Replies
      /\ InHand("judge", Rec(id), Job(id), staging[id[1]][id[2]], published[id[1]], id[1],
                id[2], ledger[id[1]], tick.reply)
  BY <1>1, <1>2, <1>4, <1>5, Hand DEF Rec
<1>7. /\ Rec(id).failure = "none" /\ ~Rec(id).published /\ Job(id) \in Terminal
      /\ Rec(id).sub \notin {"intent", "unverified"} /\ Rec(id).fate = "none"
  BY <1>6 DEF InHand, Told
<1>8. class \in {"infra", "budget", "code", "science"}
  BY <1>3, <1>4, <1>7, Classified
<1>9. PICK verdict : verdict = IF Job(id) \in Completed THEN "bad" ELSE Rec(id).verdict
  OBVIOUS
<1>10. PICK rec : rec = [Rec(id) EXCEPT !.seen = TRUE, !.failure = class, !.fate = fate, !.verdict = verdict]
  OBVIOUS
<1>11. /\ rec \in Attempt /\ rec.seen = TRUE /\ rec.failure = class /\ rec.fate = fate
       /\ rec.prior = Rec(id).prior /\ rec.sub = Rec(id).sub /\ ~rec.published
  <2>1. class \in (Classes \ {"unknown"}) \cup {"none"} /\ verdict \in {"none", "ok", "bad"}
    BY <1>6, <1>8, <1>9 DEF Classes, Attempt
  <2>2. fate \in {"none", "retried", "parked", "released"}
    BY <1>4
  <2>3. PICK b : b = [Rec(id) EXCEPT !.seen = TRUE]
    OBVIOUS
  <2>4. PICK c : c = [b EXCEPT !.failure = class]
    OBVIOUS
  <2>5. PICK d : d = [c EXCEPT !.fate = fate]
    OBVIOUS
  <2>6. rec = [d EXCEPT !.verdict = verdict]
    BY <1>10, <2>3, <2>4, <2>5
  <2>7. b \in Attempt
    BY <1>6, <2>3, RecordTypes
  <2>8. c \in Attempt
    BY <2>1, <2>4, <2>7, RecordTypes
  <2>9. d \in Attempt
    BY <2>2, <2>5, <2>8, RecordTypes
  <2>10. rec \in Attempt
    BY <2>1, <2>6, <2>9, RecordTypes
  <2>11. /\ b.seen = TRUE /\ b.prior = Rec(id).prior /\ b.sub = Rec(id).sub
         /\ b.published = Rec(id).published
    BY <1>6, <2>3 DEF Attempt
  <2>12. /\ c.seen = b.seen /\ c.failure = class /\ c.prior = b.prior /\ c.sub = b.sub
         /\ c.published = b.published
    BY <2>4, <2>7 DEF Attempt
  <2>13. /\ d.seen = c.seen /\ d.failure = c.failure /\ d.fate = fate /\ d.prior = c.prior
         /\ d.sub = c.sub /\ d.published = c.published
    BY <2>5, <2>8 DEF Attempt
  <2>14. /\ rec.seen = d.seen /\ rec.failure = d.failure /\ rec.fate = d.fate /\ rec.prior = d.prior
         /\ rec.sub = d.sub /\ rec.published = d.published
    BY <2>6, <2>9 DEF Attempt
  <2> QED
    BY <1>7, <2>10, <2>11, <2>12, <2>13, <2>14
<1>12. Told(rec, Job(id))
  BY <1>4, <1>7, <1>8, <1>11 DEF Told, Terminal, Completed
<1>13. PICK B : B = [A EXCEPT ![n] = rec]
  OBVIOUS
<1>14. /\ Owed(B) /\ Budgeted(B) /\ Onto(B) = Onto(A)
       /\ fate = "retried" => Due(B) /\ (Onto(B) = {} => n = Len(B))
  <2>1. CASE fate = "retried"
    <3>1. Cardinality({m \in DOMAIN A : A[m].failure = class}) + Cardinality(Spent(A)) < MaxAuto[class]
      BY <1>2, <1>4, <2>1 DEF Used, Spent
    <3>2. class \in Classes /\ A[n].failure = "none" /\ A[n].fate # "retried" /\ rec.prior = A[n].prior
          /\ A[n].fate \notin Moved /\ rec.fate \in Moved /\ rec.sub = A[n].sub
      BY <1>6, <1>7, <1>8, <1>11, <2>1 DEF Classes, Moved
    <3>3. Budgeted(B)
      BY <1>6, <1>11, <1>13, <2>1, <3>1, <3>2, PaidRetry
    <3>4. Owed(B) /\ Due(B) /\ Onto(B) = Onto(A) /\ (Onto(B) = {} => n = Len(A))
      BY <1>6, <1>11, <1>13, <3>2, Pays
    <3>5. Len(B) = Len(A)
      BY <1>6, <1>11, <1>13, Saved
    <3> QED
      BY <3>3, <3>4, <3>5
  <2>2. CASE fate = "parked"
    <3>1. CostsAs(rec, A[n])
      BY <1>6, <1>7, <1>11, <2>2 DEF CostsAs, Moved
    <3> QED
      BY <1>6, <1>11, <1>13, <2>2, <3>1, PaidOther
  <2> QED
    BY <1>4, <2>1, <2>2
<1>15. Save(id, rec)
  BY <1>1, <1>3, <1>4, <1>9, <1>10 DEF Fail
<1>16. (pc \in Busy \/ pc = tick.back) /\ pc \in Busy \cup Phases
  BY <1>4, <1>6 DEF Busy, Phases
<1>17. Attempts' = Attempts => Going(pc)
  BY <1>4, <1>16, Goes
<1>18. pc \in Busy => InHand(pc, rec, Job(id), staging[id[1]][id[2]], published[id[1]],
                             id[1], id[2], B, tick'.reply)
  BY <1>2, <1>4, <1>6, <1>11, <1>14 DEF InHand, Publishing, Replacing, Busy
<1>19. Held(id[1], rec, Job(id), id[2], published[id[1]])
  BY <1>11 DEF Held
<1>20. UNCHANGED <<jobs, files, inputs, wait, budget>>
  BY <1>4
<1> QED
  BY <1>1, <1>2, <1>5, <1>11, <1>12, <1>13, <1>14, <1>15, <1>16, <1>17, <1>18, <1>19, <1>20, HandSaved

\* The verdict of an attempt is saved when its outputs are installed.
LEMMA CertifyKeeps ==
    ASSUME IInv, Certify
    PROVE  IInv'
<1>1. PICK id : id = tick.at
  OBVIOUS
<1>2. PICK n, A, p : n = id[2] /\ A = ledger[id[1]] /\ p = published[id[1]]
  OBVIOUS
<1>3. /\ tick.pc = "certify" /\ Goto(tick.back) /\ tick.pc \in Busy /\ tick.pc \in Publishing
      /\ UNCHANGED <<jobs, files, inputs, wait, budget>>
      /\ Save(id, [Rec(id) EXCEPT !.seen = TRUE, !.verdict = "ok", !.published = TRUE])
  BY <1>1 DEF Certify, Busy, Publishing
<1>4. /\ Data /\ id \in Attempts /\ id[1] \in Steps /\ n \in 1 .. Len(A) /\ Rec(id) \in Attempt
      /\ Told(Rec(id), Job(id)) /\ A \in Seq(Attempt) /\ Owed(A) /\ Budgeted(A) /\ Rec(id) = A[n]
      /\ tick.back \in {"unfinalized", "inflight", "launch"}
      /\ InHand("certify", Rec(id), Job(id), staging[id[1]][id[2]], p, id[1],
                n, A, tick.reply)
  BY <1>1, <1>2, <1>3, Hand DEF Rec
<1>5. /\ Rec(id).failure = "none" /\ Job(id) \in {"good", "nodir"} /\ Rec(id).sub \notin {"intent", "unverified"}
      /\ p.main = n /\ (Onto(A) = {} /\ Plan[id[1]].dir /\ Job(id) = "good" => p.dir = n)
      /\ Rec(id).fate = "none"
  <2>1. Rec(id).failure = "none" /\ Rec(id).sub \notin {"intent", "unverified"}
        /\ Stands("certify", Job(id), staging[id[1]][id[2]], p, id[1], n, A)
    BY <1>4 DEF InHand, Publishing
  <2> QED
    BY <1>4, <2>1 DEF Stands, Told
<1>6. PICK b : b = [Rec(id) EXCEPT !.seen = TRUE]
  OBVIOUS
<1>7. PICK c : c = [b EXCEPT !.verdict = "ok"]
  OBVIOUS
<1>8. PICK rec : rec = [c EXCEPT !.published = TRUE]
  OBVIOUS
<1>9. b \in Attempt
  BY <1>4, <1>6, RecordTypes
<1>10. c \in Attempt
  BY <1>7, <1>9, RecordTypes
<1>11. rec \in Attempt
  BY <1>8, <1>10, RecordTypes
<1>12. /\ rec.seen = TRUE /\ rec.verdict = "ok" /\ rec.published = TRUE /\ rec.fate = "none"
       /\ rec.failure = "none" /\ rec.prior = A[n].prior /\ rec.sub = Rec(id).sub
  <2>1. b.seen = TRUE /\ b.fate = "none" /\ b.failure = "none" /\ b.prior = A[n].prior /\ b.sub = Rec(id).sub
    BY <1>4, <1>5, <1>6 DEF Attempt
  <2>2. /\ c.seen = b.seen /\ c.verdict = "ok" /\ c.fate = b.fate /\ c.failure = b.failure
        /\ c.prior = b.prior /\ c.sub = b.sub
    BY <1>7, <1>9 DEF Attempt
  <2>3. /\ rec.seen = c.seen /\ rec.verdict = c.verdict /\ rec.published = TRUE /\ rec.fate = c.fate
        /\ rec.failure = c.failure /\ rec.prior = c.prior /\ rec.sub = c.sub
    BY <1>8, <1>10 DEF Attempt
  <2> QED
    BY <2>1, <2>2, <2>3
<1>13. Told(rec, Job(id))
  BY <1>5, <1>12 DEF Told, Terminal, Completed
<1>14. PICK B : B = [A EXCEPT ![n] = rec]
  OBVIOUS
<1>15. Owed(B) /\ Budgeted(B) /\ Onto(B) = Onto(A)
  <2>1. CostsAs(rec, A[n])
    BY <1>4, <1>5, <1>12 DEF CostsAs, Moved
  <2> QED
    BY <1>4, <1>11, <1>14, <2>1, PaidOther
<1>16. Onto(B) = {} => Held(id[1], rec, Job(id), id[2], published[id[1]])
  BY <1>2, <1>5, <1>15 DEF Held
<1>17. Save(id, rec)
  BY <1>3, <1>6, <1>7, <1>8
<1>18. Attempts' = Attempts => Going(tick.back)
  BY <1>3, <1>4, Goes DEF Phases
<1>19. tick.back \notin Busy
  BY <1>4 DEF Busy
<1>20. UNCHANGED <<jobs, files, inputs, wait, budget>>
  BY <1>3
<1> QED
  BY <1>1, <1>2, <1>3, <1>11, <1>13, <1>14, <1>15, <1>16, <1>17, <1>18, <1>19, <1>20, HandSaved

\* The reply of sbatch is saved, whatever it was.
LEMMA SaveReplyKeeps ==
    ASSUME IInv, SaveReply
    PROVE  IInv'
<1>1. PICK id : id = tick.at
  OBVIOUS
<1>2. PICK n, A : n = id[2] /\ A = ledger[id[1]]
  OBVIOUS
<1>3. PICK sub, pc :
        /\ tick.pc = "called" /\ Save(id, [Rec(id) EXCEPT !.sub = sub])
        /\ tick' = [tick EXCEPT !.pc = pc, !.reply = "none"]
        /\ UNCHANGED <<jobs, files, budget, inputs, wait>>
        /\ \/ tick.reply = "id" /\ sub = "submitted" /\ pc = tick.back
           \/ tick.reply = "refused" /\ sub = "rejected" /\ pc = "refused"
           \/ tick.reply \notin {"id", "refused"} /\ sub = Rec(id).sub /\ pc = tick.back
  <2>1. CASE tick.reply = "id"
    BY <1>1, <2>1 DEF SaveReply
  <2>2. CASE tick.reply = "refused"
    BY <1>1, <2>2 DEF SaveReply
  <2>3. CASE tick.reply \notin {"id", "refused"}
    BY <1>1, <2>3 DEF SaveReply
  <2> QED
    BY <2>1, <2>2, <2>3
<1>4. tick.pc \in Busy
  BY <1>3 DEF Busy
<1>5. /\ Data /\ id \in Attempts /\ id[1] \in Steps /\ n \in 1 .. Len(A) /\ Rec(id) \in Attempt
      /\ Told(Rec(id), Job(id)) /\ A \in Seq(Attempt) /\ Owed(A) /\ Budgeted(A) /\ Rec(id) = A[n]
      /\ tick.back \in {"unfinalized", "inflight", "launch"}
      /\ InHand("called", Rec(id), Job(id), staging[id[1]][id[2]], published[id[1]], id[1],
                id[2], ledger[id[1]], tick.reply)
  BY <1>1, <1>2, <1>3, <1>4, Hand DEF Rec
<1>6. /\ Rec(id).failure = "none" /\ ~Rec(id).seen /\ Rec(id).sub = "intent" /\ Rec(id).fate = "none"
      /\ ~Rec(id).published /\ (tick.reply = "refused" => Job(id) = "none")
  BY <1>5 DEF InHand, Told
<1>7. "submitted" # "adopted" /\ "rejected" # "adopted" /\ "intent" # "adopted"
  OBVIOUS
<1>8. PICK rec : rec = [Rec(id) EXCEPT !.sub = sub]
  OBVIOUS
<1>9. sub \in {"intent", "submitted", "rejected", "unverified", "local", "adopted"}
  BY <1>3, <1>6
<1>10. rec \in Attempt
  BY <1>5, <1>8, <1>9, RecordTypes
<1>11. /\ rec.sub = sub /\ rec.failure = "none" /\ ~rec.seen /\ rec.fate = "none"
       /\ rec.prior = A[n].prior /\ ~rec.published
  BY <1>5, <1>6, <1>8 DEF Attempt
<1>12. Told(rec, Job(id))
  BY <1>11 DEF Told
<1>13. PICK B : B = [A EXCEPT ![n] = rec]
  OBVIOUS
<1>14. /\ Owed(B) /\ Budgeted(B) /\ Onto(B) = Onto(A)
       /\ Held(id[1], rec, Job(id), id[2], published[id[1]])
  <2>1. rec.sub # "adopted" /\ A[n].sub # "adopted"
    BY <1>3, <1>5, <1>6, <1>7, <1>11
  <2>2. CostsAs(rec, A[n])
    BY <1>5, <1>6, <1>11, <2>1 DEF CostsAs, Moved
  <2>3. Held(id[1], rec, Job(id), id[2], published[id[1]])
    BY <1>11 DEF Held
  <2> QED
    BY <1>5, <1>10, <1>13, <2>2, <2>3, PaidOther
<1>15. Save(id, rec)
  BY <1>3, <1>8
<1>16. (pc \in Busy \/ pc = tick.back) /\ pc \in Busy \cup Phases /\ "none" \in Replies
  BY <1>3, <1>5 DEF Busy, Phases, Replies
<1>17. Attempts' = Attempts => Going(pc)
  BY <1>3, <1>16, Answers
<1>18. pc \in Busy => InHand(pc, rec, Job(id), staging[id[1]][id[2]], published[id[1]],
                             id[1], id[2], B, tick'.reply)
  BY <1>3, <1>5, <1>6, <1>11 DEF InHand, Publishing, Replacing, Busy
<1>19. UNCHANGED <<jobs, files, inputs, wait, budget>>
  BY <1>3
<1> QED
  BY <1>1, <1>2, <1>4, <1>10, <1>11, <1>12, <1>13, <1>14, <1>15, <1>16, <1>17, <1>18, <1>19, HandSaved

\* A refusal of sbatch is recorded as a failure and parked.
LEMMA ParkRefusedKeeps ==
    ASSUME IInv, ParkRefused
    PROVE  IInv'
<1>1. PICK id : id = tick.at
  OBVIOUS
<1>2. PICK n, A : n = id[2] /\ A = ledger[id[1]]
  OBVIOUS
<1>3. /\ tick.pc = "refused" /\ Goto(tick.back) /\ tick.pc \in Busy
      /\ UNCHANGED <<jobs, files, inputs, wait, budget>>
      /\ Save(id, [Rec(id) EXCEPT !.failure = "code", !.fate = "parked"])
  BY <1>1 DEF ParkRefused, Busy
<1>4. /\ Data /\ id \in Attempts /\ id[1] \in Steps /\ n \in 1 .. Len(A) /\ Rec(id) \in Attempt
      /\ Told(Rec(id), Job(id)) /\ A \in Seq(Attempt) /\ Owed(A) /\ Budgeted(A) /\ Rec(id) = A[n]
      /\ tick.back \in {"unfinalized", "inflight", "launch"}
      /\ InHand("refused", Rec(id), Job(id), staging[id[1]][id[2]], published[id[1]], id[1],
                id[2], ledger[id[1]], tick.reply)
  BY <1>1, <1>2, <1>3, Hand DEF Rec
<1>5. /\ Rec(id).failure = "none" /\ ~Rec(id).seen /\ Rec(id).sub = "rejected" /\ Job(id) = "none"
      /\ ~Rec(id).published /\ Rec(id).fate = "none"
  BY <1>4 DEF InHand, Told
<1>7. PICK b : b = [Rec(id) EXCEPT !.failure = "code"]
  OBVIOUS
<1>8. PICK rec : rec = [b EXCEPT !.fate = "parked"]
  OBVIOUS
<1>9. "code" \in (Classes \ {"unknown"}) \cup {"none"}
  BY DEF Classes
<1>10. b \in Attempt
  BY <1>4, <1>7, <1>9, RecordTypes
<1>11. rec \in Attempt
  BY <1>8, <1>10, RecordTypes
<1>12. /\ rec.failure = "code" /\ rec.fate = "parked" /\ ~rec.seen /\ rec.sub = "rejected"
       /\ rec.prior = A[n].prior /\ ~rec.published
  BY <1>4, <1>5, <1>7, <1>8, <1>10 DEF Attempt
<1>13. Told(rec, Job(id))
  BY <1>5, <1>12 DEF Told
<1>14. PICK B : B = [A EXCEPT ![n] = rec]
  OBVIOUS
<1>15. /\ Owed(B) /\ Budgeted(B) /\ Onto(B) = Onto(A)
       /\ Held(id[1], rec, Job(id), id[2], published[id[1]])
  <2>1. CostsAs(rec, A[n])
    BY <1>4, <1>5, <1>12 DEF CostsAs, Moved
  <2>2. Held(id[1], rec, Job(id), id[2], published[id[1]])
    BY <1>12 DEF Held
  <2> QED
    BY <1>4, <1>11, <1>14, <2>1, <2>2, PaidOther
<1>16. Save(id, rec)
  BY <1>3, <1>7, <1>8
<1>17. Attempts' = Attempts => Going(tick.back)
  BY <1>3, <1>4, Goes DEF Phases
<1>18. tick.back \notin Busy
  BY <1>4 DEF Busy
<1> QED
  BY <1>1, <1>2, <1>3, <1>11, <1>12, <1>13, <1>14, <1>15, <1>16, <1>17, <1>18, HandSaved

\* A local step has run, and its end is saved.
LEMMA RunLocalKeeps ==
    ASSUME IInv, RunLocal
    PROVE  IInv'
<1>1. PICK id : id = tick.at
  OBVIOUS
<1>2. PICK s, n, A, J : s = id[1] /\ n = id[2] /\ A = ledger[s] /\ J = jobs[s]
  OBVIOUS
<1>3. PICK end \in Completed \cup {"FAILED"} :
        /\ jobs' = [jobs EXCEPT ![s][n] = end]
        /\ UNCHANGED budget \/ Spend("bad")
  BY <1>1, <1>2 DEF RunLocal
<1>4. /\ tick.pc = "run" /\ tick.pc \in Busy /\ Goto("judge") /\ "judge" \in Busy
      /\ Save(id, [Rec(id) EXCEPT !.seen = TRUE]) /\ UNCHANGED <<files, inputs, wait>>
  BY <1>1 DEF RunLocal, Busy
<1>5. /\ Data /\ id \in Attempts /\ s \in Steps /\ n \in 1 .. Len(A) /\ Rec(id) \in Attempt
      /\ Told(Rec(id), Job(id)) /\ A \in Seq(Attempt) /\ Owed(A) /\ Budgeted(A) /\ Rec(id) = A[n] /\ id = <<s, n>>
      /\ tick.back \in {"unfinalized", "inflight", "launch"}
      /\ InHand("run", Rec(id), Job(id), staging[id[1]][id[2]], published[id[1]], id[1],
                id[2], ledger[id[1]], tick.reply)
  BY <1>1, <1>2, <1>4, Hand, AttemptOf DEF Rec
<1>6. /\ Rec(id).failure = "none" /\ ~Rec(id).seen /\ Rec(id).sub = "local" /\ Job(id) = "none"
      /\ Rec(id).fate = "none" /\ ~Rec(id).published
  BY <1>5 DEF InHand, Told
<1>7. /\ StepIs(s, A, J, staging[s], published[s])
      /\ A \in Seq(Attempt) /\ J \in Seq(Execution) /\ Len(J) = Len(A)
  BY <1>2, <1>5 DEF Data, StepsSound, StepIs
<1>8. PICK rec : rec = [Rec(id) EXCEPT !.seen = TRUE]
  OBVIOUS
<1>9. rec \in Attempt
  BY <1>5, <1>8, RecordTypes
<1>10. /\ rec.seen = TRUE /\ rec.failure = "none" /\ rec.fate = "none" /\ rec.sub = "local"
       /\ rec.prior = A[n].prior /\ ~rec.published
  BY <1>5, <1>6, <1>8 DEF Attempt
<1>11. PICK B, K : B = [A EXCEPT ![n] = rec] /\ K = [J EXCEPT ![n] = end]
  OBVIOUS
<1>12. end \in Execution /\ end \in Terminal
  BY DEF Execution, Terminal, Completed
<1>13. StepIs(s, A, K, staging[s], published[s])
  <2>1. J[n] \notin Terminal /\ Told(A[n], end)
    BY <1>2, <1>5, <1>6 DEF Job, Told, Terminal, Completed
  <2> QED
    BY <1>5, <1>7, <1>11, <1>12, <2>1, ExecutionMoves
<1>14. /\ K \in Seq(Execution) /\ K[n] = end /\ Len(K) = Len(A)
       /\ \A m \in 1 .. Len(A) : m # n => K[m] = J[m]
  BY <1>5, <1>7, <1>11, <1>12, Saved
<1>15. /\ B \in Seq(Attempt) /\ B[n] = rec /\ Len(B) = Len(A)
       /\ \A m \in 1 .. Len(A) : m # n => B[m] = A[m]
  BY <1>5, <1>7, <1>9, <1>11, Saved
<1>16. StepIs(s, B, K, staging[s], published[s])
  <2>1. CostsAs(rec, A[n])
    BY <1>5, <1>6, <1>10 DEF CostsAs, Moved
  <2>2. Owed(B) /\ Budgeted(B) /\ Onto(B) = Onto(A)
    BY <1>5, <1>9, <1>11, <2>1, PaidOther
  <2>3. Told(rec, K[n]) /\ Held(s, rec, K[n], n, published[s])
    BY <1>10, <1>12, <1>14 DEF Told, Held
  <2> QED
    BY <1>5, <1>9, <1>11, <1>13, <2>2, <2>3, SavedStep
<1>17. /\ ledger' \in [Steps -> Seq(Attempt)] /\ ledger'[s] = B
       /\ \A o \in Steps : o # s => ledger'[o] = ledger[o]
  <2>1. ledger' = [ledger EXCEPT ![s] = B]
    BY <1>2, <1>4, <1>8, <1>11 DEF Save
  <2> QED
    BY <1>5, <1>15, <2>1 DEF Data
<1>18. /\ jobs' \in [Steps -> Seq(Execution)] /\ jobs'[s] = K
       /\ \A o \in Steps : o # s => jobs'[o] = jobs[o]
  <2>1. jobs' = [jobs EXCEPT ![s] = K]
    BY <1>2, <1>3, <1>11
  <2> QED
    BY <1>5, <1>14, <2>1 DEF Data
<1>19. Data'
  <2>1. staging' = staging /\ published' = published
    BY <1>4 DEF files
  <2>2. /\ staging' \in [Steps -> Seq([old : Int, fresh : Int, marker : BOOLEAN])]
        /\ published' \in [Steps -> [main : Int, dir : Int]]
    BY <1>5, <2>1 DEF Data
  <2>3. StepIs(s, ledger'[s], jobs'[s], staging'[s], published'[s])
    BY <1>16, <1>17, <1>18, <2>1
  <2> QED
    BY <1>5, <1>17, <1>18, <2>1, <2>2, <2>3, OneStep
<1>20. \A o \in Steps : Len(ledger'[o]) = Len(ledger[o])
  BY <1>2, <1>15, <1>17
<1>21. Attempts' = Attempts
  BY <1>20, SameAttempts
<1>22. ASSUME NEW i \in Attempts, i # id
       PROVE  Rec(i)' = Rec(i)
  <2>1. PICK o \in Steps, m \in Nat : m \in 1 .. Len(ledger[o]) /\ i = <<o, m>>
    BY AttemptOf
  <2>2. o # s \/ m # n
    BY <1>5, <1>22, <2>1
  <2>3. ledger'[o][m] = ledger[o][m]
    BY <1>2, <1>15, <1>17, <2>1, <2>2
  <2> QED
    BY <2>1, <2>3 DEF Rec
<1>23. Rec(id)' = rec /\ Job(id)' = end
  BY <1>2, <1>14, <1>15, <1>17, <1>18 DEF Rec, Job
<1>24. InHand("judge", Rec(id)', Job(id)', staging'[id[1]][id[2]], published'[id[1]],
              id[1], id[2], ledger'[id[1]], tick'.reply)
  BY <1>10, <1>12, <1>23 DEF InHand, Publishing, Replacing
<1>25. budget' \in Budgets
  BY <1>3, Parts, SpendTypes
<1>26. Going("judge")
  BY <1>4, <1>21, Goes
<1>27. inputs' = inputs /\ wait' = wait
  BY <1>4
<1> QED
  BY <1>1, <1>4, <1>19, <1>20, <1>21, <1>22, <1>24, <1>25, <1>26, <1>27, HandMoves

\* sbatch answers, is refused, or is not heard of: there is one job or none.
LEMMA RepliesKeep ==
    ASSUME IInv, SbatchAccepts \/ SbatchLost \/ SbatchRefuses
    PROVE  IInv'
<1>1. PICK id : id = tick.at
  OBVIOUS
<1>2. PICK answer, job :
        /\ tick.pc = "intent" /\ Reply(answer, job) /\ (UNCHANGED budget \/ Spend("answer"))
        /\ answer \in {"id", "lost", "refused"} /\ job \in {"none", "queued"}
        /\ answer = "refused" => job = "none"
  BY DEF SbatchAccepts, SbatchLost, SbatchRefuses
<1>3. /\ tick.pc \in Busy /\ "called" \in Busy /\ job \in Execution /\ answer \in Replies
  BY <1>2 DEF Busy, Execution, Replies
<1>4. /\ Data /\ id \in Attempts
      /\ Told(Rec(id), Job(id))
      /\ InHand("intent", Rec(id), Job(id), staging[id[1]][id[2]], published[id[1]], id[1],
                id[2], ledger[id[1]], tick.reply)
  BY <1>1, <1>2, <1>3, Hand
<1>5. Rec(id).failure = "none" /\ ~Rec(id).seen /\ Rec(id).sub = "intent" /\ Job(id) = "none"
      /\ Rec(id).fate = "none" /\ ~Rec(id).published
  BY <1>4 DEF InHand, Told
<1>6. /\ jobs' = [jobs EXCEPT ![id[1]][id[2]] = job] /\ UNCHANGED <<ledger, files, inputs, wait>>
      /\ tick' = [tick EXCEPT !.pc = "called", !.reply = answer]
  BY <1>1, <1>2 DEF Reply
<1>7. Job(id) \notin Terminal /\ Told(Rec(id), job) /\ UNCHANGED <<ledger, files>>
  BY <1>5, <1>6 DEF Told, Terminal, Completed
<1>8. Data' /\ Attempts' = Attempts /\ Job(id)' = job
  BY <1>3, <1>4, <1>6, <1>7, JobMoved
<1>9. Going("called") /\ tick'.reply = answer
  BY <1>3, <1>6, <1>8, Answers
<1>10. Rec(id)' = Rec(id) /\ (\A i \in Attempts : i # id => Rec(i)' = Rec(i))
       /\ (\A s \in Steps : Len(ledger'[s]) = Len(ledger[s])) /\ inputs' = inputs /\ wait' = wait
  BY <1>6 DEF Rec
<1>11. InHand("called", Rec(id)', Job(id)', staging'[id[1]][id[2]], published'[id[1]],
              id[1], id[2], ledger'[id[1]], tick'.reply)
  BY <1>2, <1>5, <1>8, <1>9, <1>10 DEF InHand, Publishing, Replacing
<1>12. budget' \in Budgets
  BY <1>2, Parts, SpendTypes
<1> QED
  BY <1>1, <1>3, <1>8, <1>9, <1>10, <1>11, <1>12, HandMoves

\* A new attempt: the step has none, or its last one was retried or released.
LEMMA LaunchKeeps ==
    ASSUME IInv, NEW s \in Steps, Launch(s)
    PROVE  IInv'
<1>1. PICK n, id : n = Len(ledger[s]) + 1 /\ id = <<s, n>>
  OBVIOUS
<1>2. PICK sub, pc, back, rec :
        /\ rec = [sub |-> sub, seen |-> FALSE, verdict |-> "none", failure |-> "none", fate |-> "none",
                  published |-> FALSE, prior |-> 0, input |-> inputs[s], dep |-> PreviousJob(s)]
        /\ (sub = "local" /\ pc = "run") \/ (sub = "intent" /\ pc = "intent")
        /\ back = IF tick.pc = "launch" THEN "launch" ELSE tick.back
        /\ Launching(s)
        /\ ledger' = [ledger EXCEPT ![s] = Append(@, rec)]
        /\ jobs' = [jobs EXCEPT ![s] = Append(@, "none")]
        /\ staging' = [staging EXCEPT ![s] = Append(@, Free)]
        /\ tick' = [tick EXCEPT !.pc = pc, !.at = id, !.submitted = @ \cup {s}, !.back = back]
        /\ UNCHANGED <<published, budget, inputs, wait>>
  <2>1. CASE Plan[s].kind = "local"
    BY <1>1, <2>1 DEF Launch
  <2>2. CASE Plan[s].kind # "local"
    BY <1>1, <2>2 DEF Launch
  <2> QED
    BY <2>1, <2>2
<1>3. /\ Data /\ tick \in TickRec /\ inputs \in [Steps -> Nat] /\ budget' \in Budgets /\ wait' \in WaitRec
      /\ wait'.kind = "job" => wait'.at \in Attempts
  BY <1>2, Parts
<1>4. tick.pc = "launch" \/ (tick.pc = "relaunch" /\ s = tick.at[1])
  BY <1>2 DEF Launching
<1>5. StepIs(s, ledger[s], jobs[s], staging[s], published[s]) /\ ledger[s] \in Seq(Attempt)
      /\ Len(ledger[s]) \in Nat
  BY <1>3, LenProperties DEF Data, StepsSound, StepIs
<1>6. PICK A : A = ledger[s]
  OBVIOUS
<1>a. MayGrow(A, rec)
  <2>1. CASE tick.pc = "launch" /\ A # <<>>
    <3>1. Ready(s) /\ Tried(s)
      BY <1>2, <1>6, <2>1 DEF Launching, Launchable, Tried
    <3>2. Len(A) \in 1 .. Len(A) /\ Last(A) = A[Len(A)]
      BY <1>5, <1>6, <2>1, EmptySeq DEF Last
    <3>3. A[Len(A)] \in Attempt /\ Owed(A) /\ DOMAIN A = 1 .. Len(A)
      BY <1>5, <1>6, <3>2, OneAttempt, LenProperties
    <3>4. A[Len(A)].fate \notin {"none", "parked"}
      BY <1>6, <3>1, <3>2 DEF Ready, Unresolved
    <3>5. A[Len(A)].fate \in Moved
      BY <3>3, <3>4 DEF Attempt, Moved
    <3>6. Due(A)
      BY <3>2, <3>3, <3>5 DEF Owed, Movers
    <3> QED
      BY <3>5, <3>6 DEF MayGrow
  <2>2. CASE tick.pc = "relaunch" /\ s = tick.at[1]
    <3>1. PICK at : at = tick.at
      OBVIOUS
    <3>2. InHand("relaunch", Rec(at), Job(at), staging[at[1]][at[2]], published[at[1]], at[1],
                 at[2], ledger[at[1]], tick.reply)
      BY <2>2, <3>1, Hand DEF Busy
    <3>3. Due(A) /\ Rec(at).fate = "retried" /\ (Onto(A) = {} => at[2] = Len(A))
      BY <1>6, <2>2, <3>1, <3>2 DEF InHand
    <3>4. Rec(at) = A[at[2]]
      BY <1>6, <2>2, <3>1 DEF Rec
    <3> QED
      BY <3>3, <3>4 DEF MayGrow, Moved
  <2>3. CASE A = <<>>
    BY <2>3 DEF MayGrow
  <2> QED
    BY <1>4, <2>1, <2>2, <2>3
<1>7. PreviousJob(s) \in Nat
  <2>1. Plan[s].prev \in Steps \cup {"none"}
    BY RunnerAssumption DEF StepSpec
  <2>2. \A p \in Steps : Len(ledger[p]) \in Nat
    BY <1>3, LenProperties DEF Data
  <2> QED
    BY <2>1, <2>2 DEF PreviousJob
<1>8. /\ rec \in Attempt /\ rec.failure = "none" /\ rec.fate = "none" /\ ~rec.seen /\ ~rec.published
      /\ rec.sub = sub
  <2>1. inputs[s] \in Nat
    BY <1>3
  <2> QED
    BY <1>2, <1>7, <2>1 DEF Attempt
<1>9. "none" \in Execution
  BY DEF Execution
<1>10. /\ Data' /\ Attempts \subseteq Attempts'
       /\ \A i \in Attempts : Rec(i)' = Rec(i) /\ i # <<s, n>>
       /\ <<s, n>> \in Attempts' /\ Rec(<<s, n>>)' = rec /\ Job(<<s, n>>)' = "none"
  BY <1>1, <1>2, <1>3, <1>6, <1>a, <1>8, <1>9, StepGrows
<1>11. back \in Phases /\ id \in Id /\ pc \in Busy \cup Phases /\ pc \in Busy
  BY <1>1, <1>2, <1>3, <1>5 DEF TickRec, Id, Busy, Phases
<1>12. /\ tick'.pc = pc /\ tick'.at = id /\ tick'.todo = tick.todo /\ tick'.back = back
       /\ tick'.reply = tick.reply /\ tick'.submitted = tick.submitted \cup {s}
       /\ tick' = [pc |-> tick'.pc, at |-> tick'.at, todo |-> tick'.todo,
                   submitted |-> tick'.submitted, back |-> tick'.back, reply |-> tick'.reply]
  BY <1>2, <1>3 DEF TickRec
<1>13. tick' \in TickRec'
  <2>1. tick.todo \subseteq Attempts' /\ tick.submitted \cup {s} \subseteq Steps /\ tick.reply \in Replies
    BY <1>3, <1>10 DEF TickRec
  <2> QED
    BY <1>11, <1>12, <2>1 DEF TickRec
<1>14. TypeOK'
  <2>1. wait' \in WaitRec /\ (wait'.kind = "job" => wait'.at \in Attempts')
    BY <1>3, <1>10
  <2>2. inputs' \in [Steps -> Nat]
    BY <1>2, <1>3
  <2>3. tick'.at \in Attempts'
    BY <1>1, <1>10, <1>12
  <2> QED
    BY <1>3, <1>10, <1>13, <2>1, <2>2, <2>3, TypeFollows
<1>15. tick.pc = "relaunch" => tick.back \in {"unfinalized", "inflight", "launch"}
  BY Hand DEF Busy
<1>16. Phase' = back /\ Phase = back
  BY <1>2, <1>4, <1>11, <1>12 DEF Phase, Busy
<1>17. TodoSound'
  <2>1. \A i \in tick'.todo : i \in Attempts' /\ Rec(i)' = Rec(i) /\ i # id
    BY <1>1, <1>3, <1>10, <1>12 DEF TickRec
  <2>2. /\ tick.todo \subseteq Unknown => tick'.todo \subseteq Unknown'
        /\ tick.todo \subseteq Unfinalized => tick'.todo \subseteq Unfinalized'
        /\ tick.todo \subseteq InFlight => tick'.todo \subseteq InFlight'
    BY <1>12, <2>1, TodoKept
  <2>3. TodoSound
    BY DEF IInv
  <2>4. back \in {"unfinalized", "inflight", "launch"}
    BY <1>2, <1>4, <1>15
  <2> QED
    BY <1>12, <1>16, <2>1, <2>2, <2>3, <2>4 DEF TodoSound
<1>18. HandSound'
  <2>1. InHand(pc, rec, "none", staging'[s][n], published'[s], s, n, ledger'[s], tick'.reply)
    BY <1>2, <1>8 DEF InHand, Publishing, Replacing
  <2>2. id[1] = s /\ id[2] = n /\ Rec(id)' = rec /\ Job(id)' = "none"
    BY <1>1, <1>10
  <2> QED
    BY <1>12, <2>1, <2>2 DEF HandSound, Staged, Output, Rec, Job
<1> QED
  BY <1>10, <1>14, <1>17, <1>18 DEF IInv, Data

-----------------------------------------------------------------------------
(* The passes of a tick, its end, and what meets it.                         *)

\* The tick turns to the next of the attempts it has to do.
LEMMA Passes ==
    ASSUME IInv, Data', tick' \in TickRec', tick'.pc \in Phases,
           inputs' = inputs, budget' \in Budgets,
           wait' \in WaitRec, wait'.kind = "job" => wait'.at \in Attempts',
           tick'.pc = "reconcile" => tick'.todo \subseteq Unknown',
           tick'.pc = "unfinalized" => tick'.todo \subseteq Unfinalized',
           tick'.pc = "inflight" => tick'.todo \subseteq InFlight',
           tick'.pc \in {"idle", "launch"} => tick'.todo = {}
    PROVE  IInv'
<1>1. tick'.pc \notin Busy
  BY DEF Busy, Phases
<1>2. TypeOK'
  BY <1>1, Parts, TypeFollows
<1>3. TodoSound'
  BY <1>1 DEF TodoSound, Phase
<1>4. HandSound'
  BY <1>1 DEF HandSound
<1> QED
  BY <1>2, <1>3, <1>4 DEF IInv, Data

\* A pass begins, goes on to the next, or is through.
LEMMA Turns ==
    ASSUME IInv, NEW pc \in Phases, NEW T, T \subseteq Attempts, Turn(pc, T), Attempts' = Attempts
    PROVE  tick' \in TickRec' /\ tick'.pc = pc /\ tick'.todo = T
<1>1. tick \in TickRec
  BY Parts
<1>2. PICK t : t = [tick EXCEPT !.pc = pc]
  OBVIOUS
<1>3. t \in TickRec
  BY <1>1, <1>2 DEF TickRec
<1>4. tick' = [t EXCEPT !.todo = T]
  BY <1>2 DEF Turn
<1>5. tick' \in TickRec
  BY <1>3, <1>4 DEF TickRec
<1>6. tick' \in TickRec'
  BY <1>5 DEF TickRec
<1>7. tick'.pc = pc /\ tick'.todo = T
  BY <1>1 DEF TickRec, Turn
<1> QED
  BY <1>6, <1>7

\* What reads only the ledger and the jobs reads the same.
LEMMA SameData ==
    ASSUME Data, UNCHANGED <<ledger, jobs, files>>
    PROVE  Data' /\ Attempts' = Attempts /\ \A i \in Attempts : Rec(i)' = Rec(i) /\ Job(i)' = Job(i)
<1>1. ledger' = ledger /\ jobs' = jobs /\ staging' = staging /\ published' = published
  BY DEF files
<1> QED
  BY <1>1 DEF Data, StepsSound, Attempts, Rec, Job

\* A tick starts, or goes from one of its passes to the next.
LEMMA PassKeeps ==
    ASSUME IInv, StartTick \/ Reconciled \/ Finalized \/ Observed \/ \E id \in tick.todo : ObserveElse(id)
    PROVE  IInv'
<1>1. /\ Data /\ tick \in TickRec /\ budget \in Budgets /\ wait \in WaitRec
      /\ wait.kind = "job" => wait.at \in Attempts
  BY Parts
<1>2. UNCHANGED <<ledger, jobs, files>> /\ inputs' = inputs /\ budget' = budget /\ wait' \in {wait, NoWait}
  BY DEF StartTick, Reconciled, Finalized, Observed, ObserveElse
<1>3. Data' /\ Attempts' = Attempts /\ \A i \in Attempts : Rec(i)' = Rec(i)
  BY <1>1, <1>2, SameData
<1>4. Unknown' = Unknown /\ Unfinalized' = Unfinalized /\ InFlight' = InFlight
  BY <1>3 DEF Unknown, Unfinalized, InFlight
<1>5. wait' \in WaitRec /\ (wait'.kind = "job" => wait'.at \in Attempts') /\ budget' \in Budgets
  BY <1>1, <1>2, <1>3 DEF NoWait, WaitRec, Id
<1>6. Unknown \subseteq Attempts /\ Unfinalized \subseteq Attempts /\ InFlight \subseteq Attempts
  BY DEF Unknown, Unfinalized, InFlight
<1>7. TodoSound
  BY DEF IInv
<1>8. CASE StartTick
  <2>1. tick' \in TickRec' /\ tick'.pc = "reconcile" /\ tick'.todo = Unknown
    BY <1>3, <1>6, <1>8, Turns DEF StartTick, Phases
  <2> QED
    BY <1>2, <1>3, <1>4, <1>5, <2>1, Passes DEF Phases
<1>9. CASE Reconciled
  <2>1. tick' \in TickRec' /\ tick'.pc = "unfinalized" /\ tick'.todo = Unfinalized
    BY <1>3, <1>6, <1>9, Turns DEF Reconciled, Phases
  <2> QED
    BY <1>2, <1>3, <1>4, <1>5, <2>1, Passes DEF Phases
<1>10. CASE Finalized
  <2>1. tick' \in TickRec' /\ tick'.pc = "inflight" /\ tick'.todo = InFlight
    BY <1>3, <1>6, <1>10, Turns DEF Finalized, Phases
  <2> QED
    BY <1>2, <1>3, <1>4, <1>5, <2>1, Passes DEF Phases
<1>11. CASE Observed
  <2>1. Going("launch") /\ tick.todo = {}
    BY <1>3, <1>11, Goes DEF Observed, Phases
  <2>2. tick' \in TickRec' /\ tick'.pc = "launch" /\ tick'.todo = {}
    BY <2>1 DEF Going
  <2> QED
    BY <1>2, <1>3, <1>4, <1>5, <2>2, Passes DEF Phases
<1>12. CASE \E id \in tick.todo : ObserveElse(id)
  <2>1. PICK id \in tick.todo : ObserveElse(id)
    BY <1>12
  <2>2. tick.pc = "inflight" /\ Turn("inflight", tick.todo \ {id})
    BY <2>1 DEF ObserveElse
  <2>3. tick.todo \subseteq Attempts /\ tick.todo \subseteq InFlight
    BY <1>1, <1>7, <2>2 DEF TickRec, TodoSound, Phase, Busy
  <2>4. tick' \in TickRec' /\ tick'.pc = "inflight" /\ tick'.todo = tick.todo \ {id}
    BY <1>3, <2>2, <2>3, Turns DEF Phases
  <2> QED
    BY <1>2, <1>3, <1>4, <1>5, <2>3, <2>4, Passes DEF Phases
<1> QED
  BY <1>8, <1>9, <1>10, <1>11, <1>12

\* A submission whose job is unknown gets one, or is not confirmed.
LEMMA ReconcileKeeps ==
    ASSUME IInv, NEW id \in tick.todo, Reconcile(id)
    PROVE  IInv'
<1>1. /\ Data /\ tick \in TickRec /\ budget \in Budgets /\ wait \in WaitRec
      /\ wait.kind = "job" => wait.at \in Attempts
  BY Parts
<1>2. PICK sub : /\ sub \in {"submitted", "unverified"} /\ Save(id, [Rec(id) EXCEPT !.sub = sub])
                 /\ tick.pc = "reconcile" /\ Turn("reconcile", tick.todo \ {id})
                 /\ UNCHANGED <<jobs, files, budget, inputs, wait>>
  BY DEF Reconcile
<1>3. tick.todo \subseteq Attempts /\ tick.todo \subseteq Unknown
  BY <1>1, <1>2 DEF TickRec, IInv, TodoSound, Phase, Busy
<1>4. id \in Attempts /\ id[1] \in Steps /\ id[2] \in 1 .. Len(ledger[id[1]])
  BY <1>3, AttemptOf
<1>5. PICK n, A : n = id[2] /\ A = ledger[id[1]]
  OBVIOUS
<1>6. /\ Rec(id) \in Attempt /\ Told(Rec(id), Job(id)) /\ Owed(A) /\ Budgeted(A) /\ Rec(id) = A[n]
      /\ A \in Seq(Attempt) /\ n \in 1 .. Len(A)
  <2>1. StepIs(id[1], ledger[id[1]], jobs[id[1]], staging[id[1]], published[id[1]])
    BY <1>1, <1>4 DEF Data, StepsSound
  <2>2. Rec(id) \in Attempt /\ Told(Rec(id), Job(id)) /\ Owed(A) /\ Budgeted(A)
    BY <1>4, <1>5, <2>1, OneAttempt DEF Rec, Job
  <2> QED
    BY <1>1, <1>4, <1>5, <2>2 DEF Data, Rec
<1>7. /\ Rec(id).failure = "none" /\ ~Rec(id).seen /\ Rec(id).fate = "none" /\ ~Rec(id).published
      /\ Rec(id).sub # "adopted"
  BY <1>3, <1>6 DEF Unknown, Told
<1>9. PICK rec : rec = [Rec(id) EXCEPT !.sub = sub]
  OBVIOUS
<1>10. sub \in {"intent", "submitted", "rejected", "unverified", "local", "adopted"}
  BY <1>2
<1>11. rec \in Attempt
  BY <1>6, <1>9, <1>10, RecordTypes
<1>12. /\ rec.sub = sub /\ rec.failure = "none" /\ ~rec.seen /\ rec.fate = "none"
       /\ rec.prior = A[n].prior /\ ~rec.published
  BY <1>6, <1>7, <1>9 DEF Attempt
<1>13. Told(rec, Job(id))
  BY <1>12 DEF Told
<1>14. PICK B : B = [A EXCEPT ![n] = rec]
  OBVIOUS
<1>15. /\ Owed(B) /\ Budgeted(B) /\ Onto(B) = Onto(A)
       /\ Held(id[1], rec, Job(id), id[2], published[id[1]])
  <2>1. rec.sub # "adopted" /\ A[n].sub # "adopted"
    BY <1>2, <1>6, <1>7, <1>12
  <2>2. CostsAs(rec, A[n])
    BY <1>6, <1>7, <1>12, <2>1 DEF CostsAs, Moved
  <2>3. Held(id[1], rec, Job(id), id[2], published[id[1]])
    BY <1>12 DEF Held
  <2> QED
    BY <1>6, <1>11, <1>14, <2>2, <2>3, PaidOther
<1>16. UNCHANGED <<jobs, files>> /\ Save(id, rec)
  BY <1>2, <1>9
<1>17. Data' /\ Attempts' = Attempts /\ \A i \in Attempts : i # id => Rec(i)' = Rec(i)
  BY <1>1, <1>4, <1>5, <1>11, <1>12, <1>13, <1>14, <1>15, <1>16, RecordSaved
<1>18. tick' \in TickRec' /\ tick'.pc = "reconcile" /\ tick'.todo = tick.todo \ {id}
  BY <1>2, <1>3, <1>17, Turns DEF Phases
<1>19. tick'.todo \subseteq Unknown'
  BY <1>3, <1>17, <1>18 DEF Unknown
<1>20. inputs' = inputs /\ budget' \in Budgets /\ wait' \in WaitRec /\ (wait'.kind = "job" => wait'.at \in Attempts')
  BY <1>1, <1>2, <1>17
<1> QED
  BY <1>17, <1>18, <1>19, <1>20, Passes DEF Phases

\* An execution that ended, and has no verdict, comes into the tick's hand.
LEMMA JudgeKeeps ==
    ASSUME IInv, NEW id \in tick.todo, FinalizeLate(id) \/ ObserveEnded(id)
    PROVE  IInv'
<1>1. /\ Data /\ tick \in TickRec /\ budget \in Budgets /\ wait \in WaitRec
      /\ inputs \in [Steps -> Nat] /\ (wait.kind = "job" => wait.at \in Attempts)
  BY Parts
<1>2. PICK from : /\ Judge(id, from) /\ tick.pc = from
                  /\ from = "unfinalized" \/ (from = "inflight" /\ Job(id) \in Terminal)
                  /\ UNCHANGED <<ledger, jobs, files, budget, inputs, wait>>
  BY DEF FinalizeLate, ObserveEnded
<1>3. /\ tick.todo \subseteq Attempts
      /\ from = "unfinalized" => tick.todo \subseteq Unfinalized
      /\ from = "inflight" => tick.todo \subseteq InFlight
  BY <1>1, <1>2 DEF TickRec, IInv, TodoSound, Phase, Busy
<1>4. id \in Attempts /\ id[1] \in Steps /\ id[2] \in 1 .. Len(ledger[id[1]]) /\ id = <<id[1], id[2]>>
  BY <1>3, AttemptOf
<1>5. Rec(id) \in Attempt /\ Told(Rec(id), Job(id))
  <2>1. StepIs(id[1], ledger[id[1]], jobs[id[1]], staging[id[1]], published[id[1]])
    BY <1>1, <1>4 DEF Data, StepsSound
  <2> QED
    BY <1>4, <2>1, OneAttempt DEF Rec, Job
<1>6. /\ Rec(id).failure = "none" /\ Job(id) \in Terminal /\ Rec(id).sub \notin {"intent", "unverified"}
      /\ ~Rec(id).published
  <2>1. CASE from = "unfinalized"
    BY <1>3, <1>5, <2>1 DEF Unfinalized, Told
  <2>2. CASE from = "inflight"
    BY <1>2, <1>3, <1>5, <2>2 DEF InFlight, HasJob, Told, Attempt
  <2> QED
    BY <1>2, <2>1, <2>2
<1>7. Data' /\ Attempts' = Attempts /\ \A i \in Attempts : Rec(i)' = Rec(i) /\ Job(i)' = Job(i)
  <2>1. UNCHANGED <<ledger, jobs, files>>
    BY <1>2
  <2> QED
    BY <1>1, <2>1, SameData
<1>8. id \in Id
  BY <1>4 DEF Id
<1>9. /\ tick'.pc = "judge" /\ tick'.at = id /\ tick'.todo = tick.todo \ {id} /\ tick'.back = from
      /\ tick'.reply = tick.reply /\ tick'.submitted = tick.submitted
      /\ tick' = [pc |-> tick'.pc, at |-> tick'.at, todo |-> tick'.todo,
                  submitted |-> tick'.submitted, back |-> tick'.back, reply |-> tick'.reply]
  BY <1>1, <1>2 DEF TickRec, Judge
<1>10. tick' \in TickRec'
  <2>1. tick'.todo \subseteq Attempts' /\ tick.submitted \subseteq Steps /\ tick.reply \in Replies
    BY <1>1, <1>7, <1>9 DEF TickRec
  <2>2. from \in Phases /\ "judge" \in Busy \cup Phases
    BY <1>2 DEF Phases, Busy
  <2> QED
    BY <1>8, <1>9, <2>1, <2>2 DEF TickRec
<1>11. TypeOK'
  <2>1. inputs' \in [Steps -> Nat] /\ budget' \in Budgets /\ wait' \in WaitRec
        /\ (wait'.kind = "job" => wait'.at \in Attempts') /\ tick'.at \in Attempts'
    BY <1>1, <1>2, <1>4, <1>7, <1>9
  <2> QED
    BY <1>7, <1>10, <2>1, TypeFollows
<1>12. TodoSound'
  <2>1. Phase' = from /\ from \in {"unfinalized", "inflight"}
    BY <1>2, <1>9 DEF Phase, Busy
  <2>2. /\ from = "unfinalized" => tick'.todo \subseteq Unfinalized'
        /\ from = "inflight" => tick'.todo \subseteq InFlight'
    BY <1>3, <1>7, <1>9 DEF Unfinalized, InFlight
  <2> QED
    BY <1>9, <2>1, <2>2 DEF TodoSound
<1>13. HandSound'
  <2>1. InHand("judge", Rec(id), Job(id), staging'[id[1]][id[2]], published'[id[1]], id[1],
               id[2], ledger'[id[1]], tick'.reply)
    BY <1>6 DEF InHand, Publishing, Replacing
  <2> QED
    BY <1>4, <1>7, <1>9, <2>1 DEF HandSound, Staged, Output, Rec, Job
<1> QED
  BY <1>7, <1>11, <1>12, <1>13 DEF IInv, Data

\* The tick tells what it waits for, or dies.
LEMMA EndKeeps ==
    ASSUME IInv, EndTick \/ Crash
    PROVE  IInv'
<1>1. /\ Data /\ wait \in WaitRec /\ (wait.kind = "job" => wait.at \in Attempts)
  BY Parts
<1>2. UNCHANGED <<ledger, jobs, files>> /\ inputs' = inputs /\ tick' = Idle
      /\ (UNCHANGED budget \/ Spend("crash"))
  BY DEF EndTick, Crash
<1>3. Data' /\ Attempts' = Attempts
  BY <1>1, <1>2, SameData
<1>4. wait' \in WaitRec /\ (wait'.kind = "job" => wait'.at \in Attempts)
  <2>1. CASE EndTick
    <3>1. PICK w \in [kind : {"job", "submit", "parked", "done", "no-progress"},
                      at : InFlight \cup {<<>>}] : Decide(w) /\ wait' = w
      BY <2>1 DEF EndTick
    <3>2. InFlight \subseteq Attempts /\ Attempts \subseteq Id
      BY DEF InFlight, Attempts, Id
    <3>3. w.kind = "job" => w.at \in InFlight
      BY <3>1 DEF Decide
    <3> QED
      BY <3>1, <3>2, <3>3 DEF WaitRec, Id
  <2>2. CASE Crash
    BY <1>1, <2>2 DEF Crash
  <2> QED
    BY <2>1, <2>2
<1>5. tick' \in TickRec' /\ tick'.pc = "idle" /\ tick'.todo = {}
  BY <1>2 DEF TickRec, Idle, Phases, Id, Replies
<1>6. budget' \in Budgets
  BY <1>2, Parts, SpendTypes
<1> QED
  BY <1>2, <1>3, <1>4, <1>5, <1>6, Passes DEF Phases

\* The scheduler ends a job: it is nobody's in hand that expects another end.
LEMMA SchedulerKeeps ==
    ASSUME IInv, NEW id \in Attempts, EndJob(id) \/ CancelDependent(id)
    PROVE  IInv'
<1>1. /\ Data /\ tick \in TickRec /\ wait \in WaitRec /\ (wait.kind = "job" => wait.at \in Attempts)
      /\ inputs \in [Steps -> Nat] /\ (tick.pc \in Busy => tick.at \in Attempts)
  BY Parts
<1>2. PICK end :
        /\ end \in Terminal \cup {"PREEMPTED"} /\ Job(id) = "queued"
        /\ jobs' = [jobs EXCEPT ![id[1]][id[2]] = end]
        /\ UNCHANGED <<ledger, files, inputs, tick, wait>>
        /\ UNCHANGED budget \/ Spend("bad")
  <2>1. CASE EndJob(id)
    BY <2>1 DEF EndJob
  <2>2. CASE CancelDependent(id)
    BY <2>2 DEF CancelDependent, Terminal
  <2> QED
    BY <2>1, <2>2
<1>3. id[1] \in Steps /\ id[2] \in 1 .. Len(ledger[id[1]]) /\ id = <<id[1], id[2]>>
  BY AttemptOf
<1>4. Told(Rec(id), Job(id))
  <2>1. StepIs(id[1], ledger[id[1]], jobs[id[1]], staging[id[1]], published[id[1]])
    BY <1>1, <1>3 DEF Data, StepsSound
  <2> QED
    BY <1>3, <2>1, OneAttempt DEF Rec, Job
<1>5. end \in Execution /\ Job(id) \notin Terminal /\ Told(Rec(id), end) /\ UNCHANGED <<ledger, files>>
  BY <1>2, <1>4 DEF Execution, Told, Terminal, Completed
<1>6. Data' /\ Attempts' = Attempts /\ Job(id)' = end /\ \A i \in Attempts : i # id => Job(i)' = Job(i)
  BY <1>1, <1>2, <1>5, JobMoved
<1>7. \A i \in Attempts : Rec(i)' = Rec(i)
  BY <1>2 DEF Rec
<1>8. TypeOK'
  <2>1. tick' \in TickRec'
    BY <1>1, <1>2, <1>6 DEF TickRec
  <2>2. /\ inputs' \in [Steps -> Nat] /\ wait' \in WaitRec /\ (wait'.kind = "job" => wait'.at \in Attempts')
        /\ budget' \in Budgets /\ (tick'.pc \in Busy => tick'.at \in Attempts')
    BY <1>1, <1>2, <1>6, Parts, SpendTypes
  <2> QED
    BY <1>6, <2>1, <2>2, TypeFollows
<1>9. TodoSound'
  <2>1. Unknown' = Unknown /\ Unfinalized' = Unfinalized /\ InFlight' = InFlight
    BY <1>6, <1>7 DEF Unknown, Unfinalized, InFlight
  <2>2. TodoSound /\ tick' = tick
    BY <1>2 DEF IInv
  <2> QED
    BY <2>1, <2>2 DEF TodoSound, Phase
<1>10. HandSound'
  <2>1. tick' = tick
    BY <1>2
  <2> SUFFICES ASSUME tick.pc \in Busy
               PROVE  InHand(tick.pc, Rec(tick.at)', Job(tick.at)', staging'[tick.at[1]][tick.at[2]],
                             published'[tick.at[1]], tick.at[1], tick.at[2], ledger'[tick.at[1]], tick.reply)
    BY <2>1 DEF HandSound, Staged, Output
  <2>2. PICK at : at = tick.at
    OBVIOUS
  <2>3. /\ at \in Attempts
        /\ InHand(tick.pc, Rec(at), Job(at), staging[at[1]][at[2]], published[at[1]], at[1],
                  at[2], ledger[at[1]], tick.reply)
    BY <2>2, Hand
  <2>4. Rec(at)' = Rec(at) /\ staging' = staging /\ published' = published /\ ledger' = ledger
    BY <1>2, <1>7, <2>3 DEF files
  <2>5. InHand(tick.pc, Rec(at)', Job(at)', staging'[at[1]][at[2]], published'[at[1]], at[1],
               at[2], ledger'[at[1]], tick.reply)
    <3>1. CASE at = id
      <4>1. Job(at) = "queued"
        BY <1>2, <3>1
      <4> QED
        BY <2>3, <2>4, <4>1 DEF InHand, Terminal, Completed
    <3>2. CASE at # id
      <4>1. Job(at)' = Job(at)
        BY <1>6, <2>3, <3>2
      <4> QED
        BY <2>3, <2>4, <4>1
    <3> QED
      BY <3>1, <3>2
  <2> QED
    BY <2>1, <2>2, <2>5 DEF Rec, Job
<1> QED
  BY <1>6, <1>8, <1>9, <1>10 DEF IInv, Data

\* A parked step is released, once.
LEMMA ReleaseKeeps ==
    ASSUME IInv, NEW s \in Steps, Release(s)
    PROVE  IInv'
<1>1. Data /\ tick \in TickRec
  BY Parts
<1>2. PICK n, id, A : n = Len(ledger[s]) /\ id = <<s, n>> /\ A = ledger[s]
  OBVIOUS
<1>3. /\ tick.pc = "idle" /\ Spend("act") /\ ledger[s] # <<>> /\ Last(ledger[s]).fate = "parked"
      /\ Save(id, [Last(ledger[s]) EXCEPT !.fate = "released"]) /\ wait' = NoWait
      /\ UNCHANGED <<jobs, files, inputs, tick>>
  BY <1>2 DEF Release, Tried
<1>4. StepIs(s, ledger[s], jobs[s], staging[s], published[s]) /\ A \in Seq(Attempt)
  BY <1>1, <1>2 DEF Data, StepsSound, StepIs
<1>5. n \in 1 .. Len(A) /\ Last(ledger[s]) = A[n]
  BY <1>2, <1>3, <1>4, EmptySeq, LenProperties DEF Last
<1>6. id \in Attempts /\ id[1] = s /\ id[2] = n /\ Rec(id) = A[n]
  BY <1>2, <1>5 DEF Attempts, Rec
<1>7. Rec(id) \in Attempt /\ Told(Rec(id), Job(id)) /\ Owed(A) /\ Budgeted(A) /\ Rec(id).fate = "parked"
  BY <1>2, <1>3, <1>4, <1>5, <1>6, OneAttempt DEF Rec, Job
<1>8. PICK rec : rec = [Rec(id) EXCEPT !.fate = "released"]
  OBVIOUS
<1>9. rec \in Attempt
  BY <1>7, <1>8, RecordTypes
<1>10. /\ rec.fate = "released" /\ rec.failure = Rec(id).failure /\ rec.seen = Rec(id).seen
       /\ rec.sub = Rec(id).sub /\ rec.prior = A[n].prior
       /\ rec.published = Rec(id).published
  BY <1>6, <1>7, <1>8 DEF Attempt
<1>11. Told(rec, Job(id)) /\ ~rec.published
  BY <1>7, <1>10 DEF Told
<1>12. PICK B : B = [A EXCEPT ![n] = rec]
  OBVIOUS
<1>13. /\ Owed(B) /\ Budgeted(B) /\ Onto(B) = Onto(A)
       /\ Held(id[1], rec, Job(id), id[2], published[id[1]])
  <2>1. A[n].fate \notin Moved /\ rec.fate \in Moved /\ rec.sub = A[n].sub
    BY <1>6, <1>7, <1>10 DEF Moved
  <2>2. Owed(B) /\ Onto(B) = Onto(A)
    <3>1. A \in Seq(Attempt) /\ Owed(A) /\ n \in 1 .. Len(A)
      BY <1>4, <1>5, <1>7
    <3> HIDE <1>1, <1>2, <1>4, <1>5, <1>6
    <3> QED
      BY <1>9, <1>12, <2>1, <3>1, Pays
  <2>3. A[n].fate # "retried" /\ rec.fate # "retried" /\ rec.prior = A[n].prior
    BY <1>6, <1>7, <1>10
  <2>4. Budgeted(B)
    BY <1>4, <1>5, <1>7, <1>9, <1>12, <2>3, PaidRelease
  <2>5. Held(id[1], rec, Job(id), id[2], published[id[1]])
    BY <1>11 DEF Held
  <2> QED
    BY <2>2, <2>4, <2>5
<1>14. UNCHANGED <<jobs, files>> /\ Save(id, rec)
  BY <1>3, <1>5, <1>6, <1>8
<1>15. Data' /\ Attempts' = Attempts
  BY <1>1, <1>2, <1>6, <1>9, <1>11, <1>12, <1>13, <1>14, RecordSaved
<1>16. tick.todo = {}
  BY <1>3 DEF IInv, TodoSound, Phase, Busy
<1>17. tick' \in TickRec' /\ tick'.pc = "idle" /\ tick'.todo = {} /\ "idle" \in Phases
  BY <1>1, <1>3, <1>15, <1>16 DEF TickRec, Phases
<1>18. /\ inputs' = inputs /\ budget' \in Budgets /\ wait' \in WaitRec /\ wait'.kind # "job"
  BY <1>3, Parts, SpendTypes DEF NoWait, WaitRec, Id
<1> QED
  BY <1>15, <1>17, <1>18, Passes

\* A job from before the ledger is adopted.
LEMMA AdoptKeeps ==
    ASSUME IInv, NEW s \in Steps, NEW prior \in 0 .. 1, Adopt(s, prior)
    PROVE  IInv'
<1>1. Data /\ tick \in TickRec /\ inputs \in [Steps -> Nat]
  BY Parts
<1>2. PICK rec : rec = [sub |-> "adopted", seen |-> FALSE, verdict |-> "none", failure |-> "none",
                        fate |-> "none", published |-> FALSE,
                        prior |-> prior, input |-> inputs[s], dep |-> 0]
  OBVIOUS
<1>3. /\ tick.pc = "idle" /\ Spend("act") /\ wait' = NoWait
      /\ ledger' = [ledger EXCEPT ![s] = Append(@, rec)]
      /\ jobs' = [jobs EXCEPT ![s] = Append(@, "queued")]
      /\ staging' = [staging EXCEPT ![s] = Append(@, Free)]
      /\ published' = published /\ UNCHANGED <<inputs, tick>>
  BY <1>2 DEF Adopt
<1>4. /\ rec \in Attempt /\ rec.failure = "none" /\ rec.fate = "none" /\ ~rec.seen /\ ~rec.published
      /\ rec.sub = "adopted" /\ "queued" \in Execution
  BY <1>1, <1>2 DEF Attempt, Execution
<1>5. MayGrow(ledger[s], rec)
  BY <1>4 DEF MayGrow
<1>6. PICK n : n = Len(ledger[s]) + 1
  OBVIOUS
<1>7. Data' /\ Attempts \subseteq Attempts'
  BY <1>1, <1>3, <1>4, <1>5, <1>6, StepGrows
<1>8. tick.todo = {}
  BY <1>3 DEF IInv, TodoSound, Phase, Busy
<1>9. tick' \in TickRec' /\ tick'.pc = "idle" /\ tick'.todo = {} /\ "idle" \in Phases
  BY <1>1, <1>3, <1>7, <1>8 DEF TickRec, Phases
<1>10. /\ inputs' = inputs /\ budget' \in Budgets /\ wait' \in WaitRec /\ wait'.kind # "job"
  BY <1>3, Parts, SpendTypes DEF NoWait, WaitRec, Id
<1> QED
  BY <1>7, <1>9, <1>10, Passes

\* A verdict is made anew, and nothing else.
LEMMA FarmkitVerifyKeeps ==
    ASSUME IInv, NEW s \in Steps, NEW verdict \in {"ok", "bad"}, FarmkitVerify(s, verdict)
    PROVE  IInv'
<1>1. Data /\ tick \in TickRec
  BY Parts
<1>2. PICK n, id, A : n = Len(ledger[s]) /\ id = <<s, n>> /\ A = ledger[s]
  OBVIOUS
<1>3. PICK rec : rec = [Rec(id) EXCEPT !.verdict = verdict]
  OBVIOUS
<1>4. /\ tick.pc = "idle" /\ Spend("act") /\ ledger[s] # <<>> /\ Save(id, rec) /\ wait' = NoWait
      /\ UNCHANGED <<jobs, files, inputs, tick>>
  BY <1>2, <1>3 DEF FarmkitVerify, Tried
<1>5. StepIs(s, ledger[s], jobs[s], staging[s], published[s]) /\ A \in Seq(Attempt)
  BY <1>1, <1>2 DEF Data, StepsSound, StepIs
<1>6. n \in 1 .. Len(A)
  BY <1>2, <1>4, <1>5, EmptySeq, LenProperties
<1>7. id \in Attempts /\ id[1] = s /\ id[2] = n /\ Rec(id) = A[n]
  BY <1>2, <1>6 DEF Attempts, Rec
<1>8. Rec(id) \in Attempt /\ Told(Rec(id), Job(id)) /\ Owed(A) /\ Budgeted(A)
  BY <1>2, <1>5, <1>6, <1>7, OneAttempt DEF Rec, Job
<1>9. rec \in Attempt
  BY <1>3, <1>8, RecordTypes
<1>10. /\ rec.fate = A[n].fate /\ rec.failure = A[n].failure /\ rec.seen = A[n].seen
       /\ rec.sub = A[n].sub /\ rec.prior = A[n].prior /\ rec.published = A[n].published
       /\ rec.verdict = verdict
  BY <1>3, <1>7, <1>8 DEF Attempt
<1>11. Told(rec, Job(id))
  BY <1>7, <1>8, <1>10 DEF Told
<1>12. PICK B : B = [A EXCEPT ![n] = rec]
  OBVIOUS
<1>13. Owed(B) /\ Budgeted(B) /\ Onto(B) = Onto(A)
  <2>1. CostsAs(rec, A[n])
    BY <1>10 DEF CostsAs
  <2> QED
    BY <1>5, <1>6, <1>8, <1>9, <1>12, <2>1, PaidOther
<1>14. Onto(B) = {} => Held(id[1], rec, Job(id), id[2], published[id[1]])
  <2>1. Onto(A) = {} => Held(s, A[n], jobs[s][n], n, published[s])
    BY <1>2, <1>5, <1>6 DEF StepIs
  <2>2. Job(id) = jobs[s][n]
    BY <1>7 DEF Job
  <2> QED
    BY <1>7, <1>10, <1>13, <2>1, <2>2 DEF Held
<1>15. UNCHANGED <<jobs, files>>
  BY <1>4
<1>16. Data' /\ Attempts' = Attempts
  BY <1>1, <1>2, <1>4, <1>7, <1>9, <1>11, <1>12, <1>13, <1>14, <1>15, RecordSaved
<1>17. tick.todo = {}
  BY <1>4 DEF IInv, TodoSound, Phase, Busy
<1>18. tick' \in TickRec' /\ tick'.pc = "idle" /\ tick'.todo = {} /\ "idle" \in Phases
  BY <1>1, <1>4, <1>16, <1>17 DEF TickRec, Phases
<1>19. /\ inputs' = inputs /\ budget' \in Budgets /\ wait' \in WaitRec /\ wait'.kind # "job"
  BY <1>4, Parts, SpendTypes DEF NoWait, WaitRec, Id
<1> QED
  BY <1>16, <1>18, <1>19, Passes

\* Only the version of the inputs changes, or nothing does.
LEMMA EditKeeps ==
    ASSUME IInv, (\E s \in Steps : Edit(s)) \/ UNCHANGED vars
    PROVE  IInv'
<1>1. /\ Data /\ tick \in TickRec /\ wait \in WaitRec /\ (wait.kind = "job" => wait.at \in Attempts)
      /\ inputs \in [Steps -> Nat] /\ (tick.pc \in Busy => tick.at \in Attempts) /\ budget \in Budgets
  BY Parts
<1>2. /\ UNCHANGED <<ledger, jobs, files>> /\ tick' = tick /\ wait' = wait
      /\ UNCHANGED budget \/ Spend("act")
  BY DEF Edit, vars, files
<1>3. inputs' \in [Steps -> Nat]
  BY <1>1 DEF Edit, vars
<1>4. Data' /\ Attempts' = Attempts /\ \A i \in Attempts : Rec(i)' = Rec(i) /\ Job(i)' = Job(i)
  BY <1>1, <1>2, SameData
<1>5. TypeOK'
  <2>1. tick' \in TickRec' /\ budget' \in Budgets
    BY <1>1, <1>2, <1>4, SpendTypes DEF TickRec
  <2> QED
    BY <1>1, <1>2, <1>3, <1>4, <2>1, TypeFollows
<1>6. TodoSound'
  <2>1. Unknown' = Unknown /\ Unfinalized' = Unfinalized /\ InFlight' = InFlight
    BY <1>4 DEF Unknown, Unfinalized, InFlight
  <2> QED
    BY <1>2, <2>1 DEF IInv, TodoSound, Phase
<1>7. HandSound'
  BY <1>2 DEF IInv, HandSound, Staged, Output, Rec, Job, files
<1> QED
  BY <1>4, <1>5, <1>6, <1>7 DEF IInv, Data

-----------------------------------------------------------------------------
(* The inductive invariant, and the theorems.                               *)

\* Some steps have an earlier result, none has an attempt.
LEMMA InitIInv == Init => IInv
<1> SUFFICES ASSUME Init
             PROVE  IInv
  OBVIOUS
<1>1. Attempts = {}
  BY DEF Init, Attempts
<1>2. ASSUME NEW s \in Steps
      PROVE  StepIs(s, ledger[s], jobs[s], staging[s], published[s])
  <2>1. /\ ledger[s] = <<>> /\ jobs[s] = <<>> /\ staging[s] = <<>>
        /\ \/ s \in Earlier /\ published[s] = [main |-> 0, dir |-> 0]
           \/ s \notin Earlier /\ published[s] = [main |-> Gone, dir |-> Gone]
    BY DEF Init
  <2>2. <<>> \in Seq(Attempt) /\ Len(<<>>) = 0 /\ DOMAIN <<>> = {}
    BY EmptySeq
  <2>3. Onto(<<>>) = {} /\ Movers(<<>>) = {}
    BY <2>2 DEF Onto, Movers
  <2>4. Owed(<<>>)
    <3>1. Cardinality(Onto(<<>>)) = 0 /\ Cardinality(Movers(<<>>)) = 0
      BY <2>3, FS_EmptySet, Zenon
    <3>2. Len(<<>>) \notin Movers(<<>>)
      BY <2>3
    <3>3. \A n \in 1 .. Len(<<>>) - 1 : FALSE
      BY <2>2
    <3> QED
      BY <2>2, <3>1, <3>2, <3>3 DEF Owed
  <2>5. Budgeted(<<>>)
    <3>1. \A c : Retried(<<>>, c) = {} /\ Known(<<>>, c) = {}
      BY <2>2 DEF Retried, Known
    <3>2. \A c : Cardinality(Retried(<<>>, c)) = 0 /\ Cardinality(Known(<<>>, c)) = 0
      BY <3>1, FS_EmptySet, Zenon
    <3>3. \A c \in Classes : MaxAuto[c] \in Nat
      BY RunnerAssumption
    <3> QED
      BY <3>2, <3>3 DEF Budgeted
  <2>6. <<>> \in Seq(Execution) /\ <<>> \in Seq([old : Int, fresh : Int, marker : BOOLEAN])
        /\ published[s] \in [main : Int, dir : Int] /\ ~(published[s].main > 0) /\ ~(published[s].dir > 0)
        /\ published[s].main \in {Gone, Torn} \cup 0 .. 0 /\ published[s].dir \in {Gone, Torn} \cup 0 .. 0
        /\ published[s].dir # Torn /\ (s \in Earlier => Whole(published[s].dir))
    BY <2>1, EmptySeq DEF Gone, Torn, Whole
  <2>7. \A n \in 1 .. Len(<<>>) : FALSE
    BY <2>2
  <2> QED
    BY <2>1, <2>2, <2>4, <2>5, <2>6, <2>7 DEF StepIs, Kept
<1>3. TypeOK
  <2>1. /\ ledger \in [Steps -> Seq(Attempt)] /\ jobs \in [Steps -> Seq(Execution)]
        /\ staging \in [Steps -> Seq([old : Int, fresh : Int, marker : BOOLEAN])]
    BY DEF Init
  <2>2. published \in [Steps -> [main : Int, dir : Int]] /\ inputs \in [Steps -> Nat]
    BY DEF Init, Gone
  <2>3. \A s \in Steps : /\ Len(jobs[s]) = Len(ledger[s]) /\ Len(staging[s]) = Len(ledger[s])
                          /\ {published[s].main, published[s].dir}
                                 \subseteq {Gone, Torn} \cup 0 .. Len(ledger[s])
    BY <1>2 DEF StepIs
  <2>4. tick \in TickRec /\ tick.pc \notin Busy
    BY DEF Init, TickRec, Idle, Phases, Busy, Id, Replies
  <2>5. wait \in WaitRec /\ wait.kind # "job"
    BY DEF Init, WaitRec, NoWait, Id
  <2>6. budget \in [crash : Nat, answer : Nat, bad : Nat, act : Nat, all : Nat]
    BY RunnerAssumption DEF Init
  <2> QED
    BY <2>1, <2>2, <2>3, <2>4, <2>5, <2>6 DEF TypeOK, TickRec, WaitRec, Replies
<1>4. TodoSound /\ HandSound
  BY DEF Init, TodoSound, HandSound, Phase, Idle, Busy
<1> QED
  BY <1>2, <1>3, <1>4 DEF IInv, StepsSound

\* Every step of a tick, of the scheduler and of people preserves the invariant.
LEMMA NextIInv == IInv /\ [Next]_vars => IInv'
<1> SUFFICES ASSUME IInv, [Next]_vars
             PROVE  IInv'
  OBVIOUS
<1>1. CASE StartTick
  BY <1>1, PassKeeps
<1>2. CASE \E id \in tick.todo : Reconcile(id) \/ FinalizeLate(id) \/ ObserveEnded(id) \/ ObserveElse(id)
  BY <1>2, ReconcileKeeps, JudgeKeeps, PassKeeps
<1>3. CASE Reconciled \/ Finalized \/ Observed
  BY <1>3, PassKeeps
<1>4. CASE Verdicts
  BY <1>4, VerifiedKeeps, FailureKeeps, CertifyKeeps DEF Verdicts
<1>5. CASE Publication
  BY <1>5, FilePublished, DirectoryPublished DEF Publication, DirectoryStep
<1>6. CASE Submission
  BY <1>6, LaunchKeeps, RepliesKeep, SaveReplyKeeps, ParkRefusedKeeps, RunLocalKeeps DEF Submission
<1>7. CASE EndTick \/ Crash
  BY <1>7, EndKeeps
<1>8. CASE Scheduler
  BY <1>8, SchedulerKeeps DEF Scheduler
<1>9. CASE People
  BY <1>9, ReleaseKeeps, AdoptKeeps, FarmkitVerifyKeeps, EditKeeps DEF People
<1>10. CASE UNCHANGED vars
  BY <1>10, EditKeeps
<1> QED
  BY <1>1, <1>2, <1>3, <1>4, <1>5, <1>6, <1>7, <1>8, <1>9, <1>10 DEF Next, Tick

\* The invariant that every tick, death of a tick and event of the scheduler preserves.
THEOREM Inductive == Spec => []IInv
BY InitIInv, NextIInv, PTL DEF Spec

\* Every record on disk has a form the code writes, and a tick works on an attempt that exists.
THEOREM TypeCorrect == Spec => []TypeOK
<1>1. IInv => TypeOK
  BY DEF IInv
<1> QED
  BY <1>1, Inductive, PTL

\* A step never has more jobs at the scheduler than one and those adopted beside it, whatever
\* ticks die and replies get lost: every other attempt was retried or released, which the
\* end of its job came before.
THEOREM NeverTwoJobs == Spec => []OneJobPerStep
<1>1. ASSUME IInv
      PROVE  OneJobPerStep
  <2> SUFFICES ASSUME NEW s \in Steps
               PROVE  Cardinality({n \in DOMAIN jobs[s] : jobs[s][n] = "queued"})
                          <= 1 + Cardinality(AdoptedOnto(s))
    BY DEF OneJobPerStep
  <2>a. PICK A, J : A = ledger[s] /\ J = jobs[s]
    OBVIOUS
  <2> DEFINE Q == {n \in DOMAIN J : J[n] = "queued"}
  <2>1. StepIs(s, A, J, staging[s], published[s])
    BY <1>1, <2>a DEF IInv, StepsSound
  <2>2. /\ DOMAIN J = 1 .. Len(A) /\ DOMAIN A = 1 .. Len(A) /\ Len(A) \in Nat /\ A \in Seq(Attempt)
        /\ Owed(A) /\ \A n \in 1 .. Len(A) : Told(A[n], J[n])
    BY <2>1, LenProperties DEF StepIs
  <2>3. Q \subseteq DOMAIN A /\ Movers(A) \subseteq DOMAIN A /\ Q \cap Movers(A) = {}
    BY <2>2 DEF Movers, Told, Moved
  <2>4. /\ IsFiniteSet(Q) /\ IsFiniteSet(Movers(A)) /\ IsFiniteSet(Onto(A))
        /\ Cardinality(Q) \in Nat /\ Cardinality(Movers(A)) \in Nat /\ Cardinality(Onto(A)) \in Nat
        /\ Cardinality(Q \cup Movers(A)) \in Nat
        /\ Cardinality(Q \cup Movers(A)) <= Cardinality(1 .. Len(A))
    <3>1. Q \cup Movers(A) \subseteq DOMAIN A /\ Onto(A) \subseteq DOMAIN A
      BY <2>2, <2>3, CountedSets
    <3> HIDE DEF Q
    <3> QED
      BY <2>2, <2>3, <3>1, Counted
  <2>5. Cardinality(1 .. Len(A)) = Len(A)
    BY <2>2, FS_Interval
  <2>6. Cardinality(Q \cup Movers(A)) = Cardinality(Q) + Cardinality(Movers(A))
    <3>1. Cardinality(Q \cap Movers(A)) = 0
      BY <2>3, FS_EmptySet
    <3> HIDE DEF Q
    <3> QED
      BY <2>4, <3>1, FS_Union
  <2>7. Len(A) <= 1 + Cardinality(Onto(A)) + Cardinality(Movers(A))
    BY <2>2 DEF Owed
  <2>8. AdoptedOnto(s) = Onto(A)
    BY <2>a DEF AdoptedOnto, Onto
  <2>9. Cardinality(Q) <= 1 + Cardinality(Onto(A))
    <3> HIDE DEF Q
    <3> QED
      BY <2>2, <2>4, <2>5, <2>6, <2>7
  <2> QED
    BY <2>a, <2>8, <2>9
<1> QED
  BY <1>1, Inductive, PTL

\* Every attempt but the first and the adopted ones is paid for by a retry or a release, and
\* the retries of a class stay within its budget, with what was spent before an adoption.
THEOREM EveryRetryPaid == Spec => []RetriesBudgeted
<1>1. ASSUME IInv
      PROVE  RetriesBudgeted
  <2> SUFFICES ASSUME NEW s \in Steps, NEW A, A = ledger[s]
               PROVE  /\ Len(A) <= 1 + Cardinality(AdoptedOnto(s)) + Cardinality(Movers(A))
                      /\ \A c \in Classes :
                            Cardinality(Retried(A, c)) + Cardinality(Known(A, c)) <= MaxAuto[c]
    BY DEF RetriesBudgeted, Movers, Moved, Retried, Known
  <2>1. Owed(A) /\ Budgeted(A)
    BY <1>1 DEF IInv, StepsSound, StepIs
  <2>2. AdoptedOnto(s) = Onto(A)
    BY DEF AdoptedOnto, Onto
  <2> QED
    BY <2>1, <2>2 DEF Owed, Budgeted
<1> QED
  BY <1>1, Inductive, PTL

\* A directory in the workspace is never part of a copy, and an earlier result exists whole
\* under some name at every instant of its replacement.
THEOREM NothingTorn == Spec => []DirectoryWhole
<1>1. ASSUME IInv
      PROVE  DirectoryWhole
  <2>1. ASSUME NEW s \in Steps, Plan[s].dir
        PROVE  published[s].dir # Torn /\ (s \in Earlier => Kept(staging[s], published[s].dir))
    BY <1>1, <2>1 DEF IInv, StepsSound, StepIs
  <2> QED
    BY <2>1 DEF DirectoryWhole, Kept
<1> QED
  BY <1>1, Inductive, PTL

\* What a tick certified is installed, onto a step without other jobs than its own, and only
\* good outputs are ever shown.
THEOREM CertifiedIsShown == Spec => []CertifiedInstalled
<1>1. ASSUME IInv
      PROVE  CertifiedInstalled
  <2> SUFFICES ASSUME NEW s \in Steps, NEW A, A = ledger[s], NEW J, J = jobs[s], NEW p, p = published[s]
               PROVE  /\ p.main > 0 => J[p.main] \in {"good", "nodir"}
                      /\ p.dir > 0 => J[p.dir] = "good"
                      /\ AdoptedOnto(s) = {} =>
                            \A n \in DOMAIN A : A[n].published =>
                                n = Len(A) /\ p.main = n /\ (Plan[s].dir /\ J[n] = "good" => p.dir = n)
    BY DEF CertifiedInstalled
  <2>1. StepIs(s, A, J, staging[s], p)
    BY <1>1 DEF IInv, StepsSound
  <2>2. ASSUME Onto(A) = {}, NEW n \in DOMAIN A, A[n].published
        PROVE  n = Len(A) /\ p.main = n /\ (Plan[s].dir /\ J[n] = "good" => p.dir = n)
    <3>1. n \in 1 .. Len(A)
      BY <2>1, LenProperties DEF StepIs
    <3>2. Held(s, A[n], J[n], n, p) /\ Told(A[n], J[n])
      BY <2>1, <2>2, <3>1 DEF StepIs
    <3>3. A[n].fate = "none"
      BY <2>2, <3>2 DEF Told
    <3>4. n = Len(A)
      BY <2>1, <2>2, <3>1, <3>3, OneAttempt DEF Moved
    <3> QED
      BY <2>2, <3>2, <3>4 DEF Held
  <2>3. AdoptedOnto(s) = Onto(A)
    BY DEF AdoptedOnto, Onto
  <2> QED
    BY <2>1, <2>2, <2>3 DEF StepIs
<1> QED
  BY <1>1, Inductive, PTL
=============================================================================
