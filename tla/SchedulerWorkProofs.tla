------------------------ MODULE SchedulerWorkProofs ------------------------
(***************************************************************************)
(* Theorems about who may work on a run of SchedulerRuns, and about what   *)
(* its document says.  Every delivery of a job, every handler and every    *)
(* subject still to be queued is a token of a piece of work, and the only  *)
(* one of it, but for the subjects of a run of which one was given out     *)
(* twice; a run and its tokens keep Custody, and its document keeps        *)
(* Truthful, in every step of any number of schedulers and handlers.       *)
(***************************************************************************)
EXTENDS SchedulerRunsProofs

-----------------------------------------------------------------------------
(* Documents. *)

SettledIn(kids) == {s \in Subject : kids[s] \in {"succeeded", "failed"}}
WellIn(kids) == {s \in Subject : kids[s] = "succeeded"}
ExpectedIn(kids) == {s \in Subject : kids[s] # "none"}

\* What a stored document says is true of its subjects' keys.
Counts(run) ==
    /\ run.settled <= Cardinality(SettledIn(run.kids))
    /\ run.settled <= run.failed + Cardinality(WellIn(run.kids))
    /\ run.children = Cardinality(ExpectedIn(run.kids))
AllWell(kids) == \A s \in Subject : kids[s] \in {"none", "succeeded"}
Truthful(run) ==
    /\ run.status \in {"queued", "dropped"} => run.kids = NoKids
    /\ run.status # "dropped" => Counts(run)
    /\ run.status = "succeeded" => AllWell(run.kids)

\* The ways a document changes.
EndedDoc(run, status, at) == [run EXCEPT !.status = status, !.until = at]
LeasedDoc(run, at) == [run EXCEPT !.until = at]
KeyedDoc(run, s, ok) == [run EXCEPT !.kids[s] = Outcome(ok)]
TallyDoc(run, settled, failed) == [run EXCEPT !.settled = settled, !.failed = failed]
ExpectingDoc(run, children, kids) == [run EXCEPT !.children = children, !.kids = kids]

LEMMA EndedDocIs ==
    ASSUME NEW run \in Run, NEW status \in Live \cup Ended, NEW at \in Nat
    PROVE  LET new == EndedDoc(run, status, at) IN
           /\ new \in Run /\ new.status = status /\ new.until = at /\ new.kids = run.kids
           /\ new.children = run.children /\ new.settled = run.settled /\ new.failed = run.failed
BY DEF EndedDoc, Run

LEMMA LeasedDocIs ==
    ASSUME NEW run \in Run, NEW at \in Nat
    PROVE  LET new == LeasedDoc(run, at) IN
           /\ new \in Run /\ new.status = run.status /\ new.until = at /\ new.kids = run.kids
           /\ new.children = run.children /\ new.settled = run.settled /\ new.failed = run.failed
BY DEF LeasedDoc, Run

LEMMA KeyedDocIs ==
    ASSUME NEW run \in Run, NEW s \in Subject, NEW ok \in BOOLEAN
    PROVE  LET new == KeyedDoc(run, s, ok) IN
           /\ new \in Run /\ new.status = run.status /\ new.until = run.until
           /\ new.kids[s] = Outcome(ok)
           /\ \A x \in Subject \ {s} : new.kids[x] = run.kids[x]
           /\ new.children = run.children /\ new.settled = run.settled /\ new.failed = run.failed
<1>1. Outcome(ok) \in Kid
  BY DEF Outcome, Kid
<1> QED
  BY <1>1 DEF KeyedDoc, Run

LEMMA TallyDocIs ==
    ASSUME NEW run \in Run, NEW settled \in Nat, NEW failed \in Nat,
           NEW new, new = TallyDoc(run, settled, failed)
    PROVE  /\ new \in Run /\ new.status = run.status /\ new.until = run.until
           /\ new.kids = run.kids /\ new.children = run.children
           /\ new.settled = settled /\ new.failed = failed
BY DEF TallyDoc, Run

LEMMA ExpectingDocIs ==
    ASSUME NEW run \in Run, NEW children \in Nat, NEW kids \in [Subject -> Kid]
    PROVE  LET new == ExpectingDoc(run, children, kids) IN
           /\ new \in Run /\ new.status = run.status /\ new.until = run.until
           /\ new.kids = kids /\ new.children = children
           /\ new.settled = run.settled /\ new.failed = run.failed
BY DEF ExpectingDoc, Run

LEMMA NoKidsIs ==
    /\ NoKids \in [Subject -> Kid] /\ \A s \in Subject : NoKids[s] = "none"
    /\ SettledIn(NoKids) = {} /\ WellIn(NoKids) = {} /\ ExpectedIn(NoKids) = {}
    /\ AllWell(NoKids)
BY DEF NoKids, Kid, SettledIn, WellIn, ExpectedIn, AllWell

\* Subsets of the subjects can be counted.
LEMMA Countable ==
    ASSUME NEW S \in SUBSET Subject
    PROVE  /\ IsFiniteSet(S) /\ Cardinality(S) \in Nat
           /\ \A T \in SUBSET S : /\ Cardinality(T) <= Cardinality(S)
                                  /\ Cardinality(T) = Cardinality(S) => T = S
           /\ \A s : s \notin S => Cardinality(S \cup {s}) = Cardinality(S) + 1
<1>1. IsFiniteSet(S)
  BY SchedulerAssumption, FS_Subset
<1> QED
  BY <1>1, FS_CardinalityType, FS_Subset, FS_AddElement

-----------------------------------------------------------------------------
(* Documents stay truthful. *)

LEMMA TruthfulDropped ==
    ASSUME NEW run \in Run
    PROVE  Truthful(Dropped(run))
BY DroppedType DEF Truthful

LEMMA TruthfulNew ==
    ASSUME TypeInv, NEW now \in Nat
    PROVE  Truthful(NewRun(now))
<1>1. Cardinality({}) = 0
  BY FS_EmptySet
<1> QED
  BY <1>1, NoKidsIs DEF NewRun, Truthful, Counts

\* A run ends: well, only if all of its subjects did.
LEMMA TruthfulEnded ==
    ASSUME NEW run \in Run, Truthful(run), run.status \in Live,
           NEW status \in Ended \cup {"running"}, NEW at \in Nat,
           status = "succeeded" => AllWell(run.kids)
    PROVE  Truthful(EndedDoc(run, status, at))
<1>1. status \in Live \cup Ended /\ status \notin {"queued", "dropped"}
      /\ run.status # "dropped"
  BY DEF Live, Ended
<1> QED
  BY <1>1, EndedDocIs DEF Truthful, Counts

LEMMA TruthfulLeased ==
    ASSUME NEW run \in Run, Truthful(run), NEW at \in Nat
    PROVE  Truthful(LeasedDoc(run, at))
BY LeasedDocIs DEF Truthful, Counts

LEMMA TruthfulExpecting ==
    ASSUME NEW run \in Run, Truthful(run), run.status \in {"running", "abandoned"},
           run.kids = NoKids, NEW todo \in SUBSET Subject,
           NEW kids, kids = [s \in Subject |-> IF s \in todo THEN "pending" ELSE NoKids[s]]
    PROVE  /\ Cardinality(todo) \in Nat /\ kids \in [Subject -> Kid]
           /\ Truthful(ExpectingDoc(run, Cardinality(todo), kids))
<1>1. Cardinality(todo) \in Nat
  BY Countable
<1>2. kids \in [Subject -> Kid]
  BY NoKidsIs DEF Kid
<1>3. ExpectedIn(kids) = todo /\ SettledIn(kids) = {} /\ WellIn(kids) = {}
  BY NoKidsIs DEF ExpectedIn, SettledIn, WellIn
<1>4. run.settled <= Cardinality({}) /\ Cardinality({}) = 0 /\ run.settled <= run.failed + 0
  <2>1. Counts(run) /\ SettledIn(run.kids) = {} /\ WellIn(run.kids) = {}
    BY NoKidsIs DEF Truthful
  <2>2. Cardinality({}) = 0
    BY FS_EmptySet
  <2> QED
    BY <2>1, <2>2 DEF Counts
<1> DEFINE new == ExpectingDoc(run, Cardinality(todo), kids)
<1>5. /\ new.status = run.status /\ new.kids = kids /\ new.children = Cardinality(todo)
      /\ new.settled = run.settled /\ new.failed = run.failed
  BY <1>1, <1>2, ExpectingDocIs
<1> HIDE DEF new
<1>6. Counts(new)
  BY <1>1, <1>3, <1>4, <1>5 DEF Counts
<1>7. Truthful(new)
  BY <1>5, <1>6 DEF Truthful
<1> QED
  BY <1>1, <1>2, <1>7 DEF new

\* A pending subject's key is written.
LEMMA TruthfulKeyed ==
    ASSUME NEW run \in Run, Truthful(run), NEW s \in Subject, run.kids[s] = "pending",
           NEW ok \in BOOLEAN
    PROVE  LET new == KeyedDoc(run, s, ok) IN
           /\ Truthful(new) /\ run.status \notin {"queued", "dropped", "succeeded"}
           /\ SettledIn(new.kids) = SettledIn(run.kids) \cup {s}
           /\ Cardinality(SettledIn(new.kids)) = Cardinality(SettledIn(run.kids)) + 1
           /\ ok => Cardinality(WellIn(new.kids)) = Cardinality(WellIn(run.kids)) + 1
           /\ ~ok => WellIn(new.kids) = WellIn(run.kids)
           /\ ExpectedIn(new.kids) = ExpectedIn(run.kids)
<1> DEFINE new == KeyedDoc(run, s, ok)
<1>1. run.status \notin {"queued", "dropped", "succeeded"}
  BY NoKidsIs DEF Truthful, AllWell
<1>2. /\ new.kids[s] = Outcome(ok) /\ \A x \in Subject \ {s} : new.kids[x] = run.kids[x]
      /\ new \in Run /\ new.status = run.status /\ new.children = run.children
      /\ new.settled = run.settled /\ new.failed = run.failed
  BY KeyedDocIs
<1> HIDE DEF new
<1>3. /\ SettledIn(new.kids) = SettledIn(run.kids) \cup {s} /\ s \notin SettledIn(run.kids)
      /\ WellIn(new.kids) = IF ok THEN WellIn(run.kids) \cup {s} ELSE WellIn(run.kids)
      /\ s \notin WellIn(run.kids)
      /\ ExpectedIn(new.kids) = ExpectedIn(run.kids)
  BY <1>2 DEF SettledIn, WellIn, ExpectedIn, Outcome
<1>4. /\ Cardinality(SettledIn(new.kids)) = Cardinality(SettledIn(run.kids)) + 1
      /\ Cardinality(SettledIn(run.kids)) \in Nat
  <2>1. SettledIn(run.kids) \in SUBSET Subject
    BY DEF SettledIn
  <2> QED
    BY <1>3, <2>1, Countable
<1>5. /\ ok => Cardinality(WellIn(new.kids)) = Cardinality(WellIn(run.kids)) + 1
      /\ ~ok => WellIn(new.kids) = WellIn(run.kids)
      /\ Cardinality(WellIn(run.kids)) \in Nat
  <2>1. WellIn(run.kids) \in SUBSET Subject
    BY DEF WellIn
  <2> QED
    BY <1>3, <2>1, Countable
<1>6. run.settled \in Nat /\ run.failed \in Nat
  BY DEF Run
<1>7. Truthful(new)
  BY <1>1, <1>2, <1>3, <1>4, <1>5, <1>6 DEF Truthful, Counts
<1> QED
  BY <1>1, <1>3, <1>4, <1>5, <1>7 DEF new

\* The document is written after the key.
SettledDoc(run, s, ok) ==
    TallyDoc(KeyedDoc(run, s, ok), run.settled + 1, IF ok THEN run.failed ELSE run.failed + 1)

LEMMA TruthfulSettled ==
    ASSUME NEW run \in Run, Truthful(run), NEW s \in Subject, run.kids[s] = "pending",
           NEW ok \in BOOLEAN
    PROVE  LET new == SettledDoc(run, s, ok) IN
           /\ Truthful(new) /\ new \in Run /\ new.status = run.status
           /\ new.until = run.until
           /\ new.kids = KeyedDoc(run, s, ok).kids
<1> DEFINE key == KeyedDoc(run, s, ok)
           new == SettledDoc(run, s, ok)
           total == run.settled + 1
           bad == IF ok THEN run.failed ELSE run.failed + 1
<1>1. /\ key \in Run /\ key.status = run.status /\ key.until = run.until
      /\ key.children = run.children /\ key.settled = run.settled /\ key.failed = run.failed
  BY KeyedDocIs
<1>2. /\ Truthful(key) /\ run.status \notin {"queued", "dropped", "succeeded"}
      /\ Cardinality(SettledIn(key.kids)) = Cardinality(SettledIn(run.kids)) + 1
      /\ ok => Cardinality(WellIn(key.kids)) = Cardinality(WellIn(run.kids)) + 1
      /\ ~ok => WellIn(key.kids) = WellIn(run.kids)
  BY TruthfulKeyed
<1>3. /\ run.settled \in Nat /\ run.failed \in Nat
      /\ total \in Nat /\ total = run.settled + 1 /\ bad \in Nat
      /\ bad = IF ok THEN run.failed ELSE run.failed + 1
  BY DEF Run
<1>4. new = TallyDoc(key, total, bad)
  BY DEF SettledDoc
<1> HIDE DEF key, new, total, bad
<1>5. /\ new \in Run /\ new.status = run.status /\ new.until = run.until
      /\ new.kids = key.kids /\ new.children = key.children
      /\ new.settled = total /\ new.failed = bad
  <2>2. key \in Run /\ total \in Nat /\ bad \in Nat
    BY <1>1, <1>3
  <2>1. /\ new \in Run /\ new.status = key.status /\ new.until = key.until
        /\ new.kids = key.kids /\ new.children = key.children
        /\ new.settled = total /\ new.failed = bad
    BY <2>2, <1>4, TallyDocIs, SMTT(30)
  <2> QED
    BY <1>1, <2>1
<1>6. /\ Cardinality(SettledIn(run.kids)) \in Nat
      /\ Cardinality(WellIn(run.kids)) \in Nat
  <2>1. SettledIn(run.kids) \in SUBSET Subject /\ WellIn(run.kids) \in SUBSET Subject
    BY DEF SettledIn, WellIn
  <2> QED
    BY <2>1, Countable
<1>7. Counts(new)
  BY <1>1, <1>2, <1>3, <1>5, <1>6 DEF Truthful, Counts
<1>8. Truthful(new)
  BY <1>2, <1>5, <1>7 DEF Truthful
<1> QED
  BY <1>5, <1>8 DEF key, new

\* When as many settled as were expected, all did; well, if none failed.
LEMMA AllSettled ==
    ASSUME NEW run \in Run, Counts(run), run.settled = run.children
    PROVE  /\ \A s \in Subject : run.kids[s] # "pending"
           /\ run.failed = 0 => AllWell(run.kids)
<1>1. /\ SettledIn(run.kids) \subseteq ExpectedIn(run.kids)
      /\ WellIn(run.kids) \subseteq ExpectedIn(run.kids)
      /\ ExpectedIn(run.kids) \in SUBSET Subject
  BY DEF SettledIn, WellIn, ExpectedIn
<1>2. /\ Cardinality(ExpectedIn(run.kids)) \in Nat
      /\ Cardinality(SettledIn(run.kids)) \in Nat
      /\ Cardinality(WellIn(run.kids)) \in Nat
  BY <1>1, Countable
<1>3. run.settled \in Nat
  BY DEF Run
<1>6. \A T \in SUBSET ExpectedIn(run.kids) :
        /\ Cardinality(T) <= Cardinality(ExpectedIn(run.kids))
        /\ Cardinality(T) = Cardinality(ExpectedIn(run.kids)) => T = ExpectedIn(run.kids)
  BY <1>1, Countable
<1>4. SettledIn(run.kids) = ExpectedIn(run.kids)
  BY <1>1, <1>2, <1>3, <1>6 DEF Counts
<1>5. run.failed = 0 => WellIn(run.kids) = ExpectedIn(run.kids)
  BY <1>1, <1>2, <1>3, <1>6 DEF Counts
<1> QED
  BY <1>4, <1>5 DEF SettledIn, WellIn, ExpectedIn, AllWell, Run, Kid

-----------------------------------------------------------------------------
(* Custody of a run: its document run, the jobs J that wait for it, the     *)
(* handlers H that execute them, the schedulers E about to queue it, and   *)
(* D, which is empty as long as no subject of it was given out twice.      *)

\* Every piece of work has one token; a run's own job may wait beside its
\* handler, and finds the run begun.
OneToken(J, H, E, D) ==
    /\ \A h, k \in H : h.job.subject = Whole /\ k.job.subject = Whole => h = k
    /\ D = {} =>
         /\ \A i, j \in J : i.subject = j.subject /\ i.subject # Whole => i = j
         /\ \A h, k \in H : h.job.subject = k.job.subject => h = k
         /\ \A j \in J, h \in H : j.subject # Whole => j.subject # h.job.subject
    /\ \A m, n \in E : m = n
    /\ E # {} => J = {} /\ H = {}

\* Nothing happens to a run before it starts but that its job is queued.
Unstarted(run, J, H) ==
    run.status = "queued" => H = {} /\ \A j \in J : j.subject = Whole

\* The handler of the run itself is alone until it gives out the subjects.
Alone(run, J, H) ==
    \A h \in H : h.job.subject = Whole /\ h.stage # "enqueue" =>
        /\ run.kids = NoKids /\ run.status \in {"running", "abandoned", "dropped"}
        /\ H = {h} /\ \A j \in J : j.subject = Whole

\* A subject that is not given out yet is pending, and nobody works on it.
Giving(run, J, H) ==
    \A h \in H : h.job.subject = Whole /\ h.stage = "enqueue" =>
        /\ h.todo # {}
        /\ \A s \in h.todo : /\ run.status = "dropped" \/ run.kids[s] = "pending"
                             /\ \A j \in J : j.subject # s
                             /\ \A k \in H : k.job.subject # s

\* A handler of a subject finds it pending until it settles it.
Children(run, H, D) ==
    \A h \in H : h.job.subject # Whole =>
        /\ h.stage = "work"
        /\ D = {} => run.status = "dropped" \/ run.kids[h.job.subject] = "pending"

\* A running run's lease outlasts its handlers' time, and those in time have a
\* running run.
Leased(run, H) ==
    \A h \in H : run.status = "running" => run.until >= h.since + RunningLease
InTime(run, H, D, now) ==
    \A h \in H : now <= h.since + HandlerTimeout =>
        run.status # "abandoned" /\ (D = {} => run.status = "running")

Custody(run, J, H, E, D, now) ==
    /\ OneToken(J, H, E, D) /\ Unstarted(run, J, H) /\ Alone(run, J, H) /\ Giving(run, J, H)
    /\ Children(run, H, D) /\ Leased(run, H) /\ InTime(run, H, D, now)

\* Nobody holds the subject s, or it was given out twice.
Untouched(s, J, H, D) ==
    /\ \A h \in H : h.stage = "enqueue" => s \notin h.todo
    /\ D = {} => (\A j \in J : j.subject # s) /\ (\A h \in H : h.job.subject # s)

\* Tokens may be lost.
LEMMA CustodyLost ==
    ASSUME NEW run, NEW J, NEW H, NEW E, NEW D, NEW now, Custody(run, J, H, E, D, now),
           NEW K \in SUBSET J, NEW G \in SUBSET H, NEW F \in SUBSET E
    PROVE  Custody(run, K, G, F, D, now)
<1>1. OneToken(K, G, F, D) /\ Unstarted(run, K, G) /\ Alone(run, K, G) /\ Giving(run, K, G)
  BY DEF Custody, OneToken, Unstarted, Alone, Giving
<1>2. Children(run, G, D) /\ Leased(run, G) /\ InTime(run, G, D, now)
  BY DEF Custody, Children, Leased, InTime
<1> QED
  BY <1>1, <1>2 DEF Custody

\* A run that has ended is dropped.
LEMMA CustodyDropped ==
    ASSUME NEW run \in Run, run.status \in Ended, NEW J, NEW H, NEW E, NEW D, NEW now,
           Custody(run, J, H, E, D, now)
    PROVE  Custody(Dropped(run), J, H, E, D, now)
<1>1. Dropped(run).status = "dropped" /\ Dropped(run).kids = NoKids
  BY DroppedType
<1>2. run.status \notin {"running", "queued"}
  BY DEF Ended
<1>3. /\ Unstarted(Dropped(run), J, H) /\ Alone(Dropped(run), J, H) /\ Giving(Dropped(run), J, H)
      /\ Children(Dropped(run), H, D)
  BY <1>1 DEF Custody, Unstarted, Alone, Giving, Children
<1>4. Leased(Dropped(run), H) /\ InTime(Dropped(run), H, D, now)
  BY <1>1, <1>2 DEF Custody, Leased, InTime
<1> QED
  BY <1>3, <1>4 DEF Custody

LEMMA CustodyLater ==
    ASSUME NEW run, NEW J, NEW H \in SUBSET Handlers, NEW E, NEW D, NEW now \in Nat,
           Custody(run, J, H, E, D, now)
    PROVE  Custody(run, J, H, E, D, now + 1)
<1>1. \A h \in H : now + 1 <= h.since + HandlerTimeout => now <= h.since + HandlerTimeout
  BY SchedulerAssumption DEF Handlers
<1> QED
  BY <1>1 DEF Custody, InTime

\* The job of a handler that returns, or dies, comes back; or a further attempt.
LEMMA CustodyBack ==
    ASSUME NEW run, NEW J, NEW H, NEW E, NEW D, NEW now, Custody(run, J, H, E, D, now),
           NEW h \in H, NEW i, i.subject = h.job.subject
    PROVE  Custody(run, J \cup {i}, H \ {h}, E, D, now)
<1>1. E = {} /\ run.status # "queued"
  BY DEF Custody, OneToken, Unstarted
<1>2. OneToken(J \cup {i}, H \ {h}, E, D)
  BY <1>1 DEF Custody, OneToken
<1>3. Alone(run, J \cup {i}, H \ {h})
  BY DEF Custody, Alone
<1>4. Giving(run, J \cup {i}, H \ {h})
  BY DEF Custody, Giving
<1>5. Children(run, H \ {h}, D) /\ Leased(run, H \ {h}) /\ InTime(run, H \ {h}, D, now)
  BY DEF Custody, Children, Leased, InTime
<1> QED
  BY <1>1, <1>2, <1>3, <1>4, <1>5 DEF Custody, Unstarted

\* A job that could not be started is tried again.
LEMMA CustodyAgain ==
    ASSUME NEW run, NEW J, NEW H, NEW E, NEW D, NEW now, Custody(run, J, H, E, D, now),
           NEW j \in J, NEW i, i.subject = j.subject
    PROVE  Custody(run, (J \ {j}) \cup {i}, H, E, D, now)
<1>1. E = {}
  BY DEF Custody, OneToken
<1>2. OneToken((J \ {j}) \cup {i}, H, E, D)
  BY <1>1 DEF Custody, OneToken
<1>3. Unstarted(run, (J \ {j}) \cup {i}, H) /\ Alone(run, (J \ {j}) \cup {i}, H)
  BY DEF Custody, Unstarted, Alone
<1>4. Giving(run, (J \ {j}) \cup {i}, H)
  BY DEF Custody, Giving
<1> QED
  BY <1>2, <1>3, <1>4 DEF Custody

\* A new run and the queueing of its job.
LEMMA CustodyNew ==
    ASSUME NEW run, NEW n, NEW D, NEW now
    PROVE  Custody(run, {}, {}, {n}, D, now)
BY DEF Custody, OneToken, Unstarted, Alone, Giving, Children, Leased, InTime

LEMMA CustodyQueued ==
    ASSUME NEW run, NEW J, NEW H, NEW E, NEW D, NEW now, Custody(run, J, H, E, D, now), E # {},
           NEW j, j.subject = Whole
    PROVE  Custody(run, J \cup {j}, H, {}, D, now)
<1>1. J = {} /\ H = {}
  BY DEF Custody, OneToken
<1> QED
  BY <1>1 DEF Custody, OneToken, Unstarted, Alone, Giving, Children, Leased, InTime

\* A run that nobody executes may end.
LEMMA CustodyIdle ==
    ASSUME NEW run, NEW J, NEW H, NEW E, NEW D, NEW now, Custody(run, J, H, E, D, now), H = {},
           NEW new, new.status # "queued"
    PROVE  Custody(new, J, H, E, D, now)
BY DEF Custody, OneToken, Unstarted, Alone, Giving, Children, Leased, InTime

\* The run's job is delivered, and starts it.
LEMMA CustodyBegun ==
    ASSUME NEW run \in Run, Truthful(run), run.status = "queued",
           NEW J, NEW H, NEW E, NEW D, NEW now \in Nat, Custody(run, J, H, E, D, now),
           NEW j \in J, j.subject = Whole,
           NEW new, new.status = "running", new.until = now + RunningLease, new.kids = run.kids,
           NEW h, h.job = j, h.since = now, h.stage \in {"select", "work"}
    PROVE  Custody(new, J \ {j}, H \cup {h}, E, D, now)
<1>1. H = {} /\ E = {} /\ \A i \in J : i.subject = Whole
  BY DEF Custody, OneToken, Unstarted
<1> DEFINE K == J \ {j}
<1>2. (\A i \in K : i.subject = Whole) /\ H \cup {h} = {h}
  BY <1>1
<1>3. run.kids = NoKids
  BY DEF Truthful
<1> HIDE DEF K
<1>4. /\ OneToken(K, {h}, {}, D) /\ Unstarted(new, K, {h}) /\ Alone(new, K, {h})
      /\ Giving(new, K, {h}) /\ Children(new, {h}, D)
  BY <1>2, <1>3 DEF OneToken, Unstarted, Alone, Giving, Children
<1>5. Leased(new, {h}) /\ InTime(new, {h}, D, now)
  BY SchedulerAssumption DEF Leased, InTime
<1> QED
  BY <1>1, <1>2, <1>4, <1>5 DEF Custody, K

\* A subject's job is delivered, and claims it: the lease moves to at.
LEMMA CustodyClaimed ==
    ASSUME NEW run \in Run, Truthful(run), run.status \in Live,
           NEW J \in SUBSET Jobs, NEW H \in SUBSET Handlers, NEW E, NEW D, NEW now \in Nat,
           Custody(run, J, H, E, D, now),
           NEW j \in J, j.subject # Whole, run.kids[j.subject] = "pending",
           NEW at \in Nat, at >= run.until, at >= now + RunningLease,
           NEW new, new.status = run.status, new.until = at, new.kids = run.kids,
           NEW h, h.job = j, h.since = now, h.stage = "work"
    PROVE  Custody(new, J \ {j}, H \cup {h}, E, D, now)
<1>1. j.subject \in Subject
  BY DEF Jobs
<1>2. run.status = "running"
  BY <1>1, NoKidsIs DEF Truthful, Live
<1>3. E = {} /\ OneToken(J \ {j}, H \cup {h}, E, D)
  BY DEF Custody, OneToken
<1>4. Unstarted(new, J \ {j}, H \cup {h})
  BY <1>2 DEF Unstarted
<1>5. Alone(new, J \ {j}, H \cup {h})
  BY DEF Custody, Alone
<1>6. Giving(new, J \ {j}, H \cup {h})
  BY DEF Custody, Giving
<1>7. Children(new, H \cup {h}, D)
  BY DEF Custody, Children
<1>8. Leased(new, H \cup {h})
  <2>1. run.until \in Nat /\ RunningLease \in Nat /\ \A k \in H : k.since \in Nat
    BY SchedulerAssumption DEF Run, Handlers
  <2> QED
    BY <1>2, <2>1 DEF Custody, Leased
<1>9. InTime(new, H \cup {h}, D, now)
  BY <1>2 DEF Custody, InTime
<1> QED
  BY <1>3, <1>4, <1>5, <1>6, <1>7, <1>8, <1>9 DEF Custody

\* The expansion has read the subjects to serve.
LEMMA CustodySelected ==
    ASSUME NEW run, NEW J, NEW H, NEW E, NEW D, NEW now, Custody(run, J, H, E, D, now),
           NEW h \in H, h.stage = "select",
           NEW g, g.job = h.job, g.since = h.since, g.stage = "expect"
    PROVE  Custody(run, J, (H \ {h}) \cup {g}, E, D, now)
<1>1. h.job.subject = Whole
  BY DEF Custody, Children
<1>2. H = {h} /\ (\A j \in J : j.subject = Whole) /\ (H \ {h}) \cup {g} = {g}
  BY <1>1 DEF Custody, Alone
<1>3. /\ OneToken(J, {g}, E, D) /\ Unstarted(run, J, {g}) /\ Alone(run, J, {g})
      /\ Giving(run, J, {g}) /\ Children(run, {g}, D) /\ Leased(run, {g}) /\ InTime(run, {g}, D, now)
  BY <1>1, <1>2 DEF Custody, OneToken, Unstarted, Alone, Giving, Children, Leased, InTime
<1> QED
  BY <1>2, <1>3 DEF Custody

\* The run learns its subjects.
LEMMA CustodyExpected ==
    ASSUME NEW run, run.status # "dropped", NEW J, NEW H, NEW E, NEW D, NEW now,
           Custody(run, J, H, E, D, now),
           NEW h \in H, h.stage = "expect", h.todo # {},
           NEW new, new.status = run.status, new.until = run.until,
           \A s \in h.todo : new.kids[s] = "pending" /\ s # Whole,
           NEW g, g.job = h.job, g.since = h.since, g.stage = "enqueue", g.todo = h.todo
    PROVE  /\ run.kids = NoKids /\ run.status \in {"running", "abandoned"}
           /\ Custody(new, J, (H \ {h}) \cup {g}, E, D, now)
<1>1. h.job.subject = Whole
  BY DEF Custody, Children
<1>2. /\ H = {h} /\ (\A j \in J : j.subject = Whole)
      /\ (H \ {h}) \cup {g} = {g} /\ run.kids = NoKids
      /\ run.status \in {"running", "abandoned"}
  BY <1>1 DEF Custody, Alone
<1>3. /\ OneToken(J, {g}, E, D) /\ Unstarted(new, J, {g}) /\ Alone(new, J, {g})
      /\ Giving(new, J, {g}) /\ Children(new, {g}, D) /\ Leased(new, {g}) /\ InTime(new, {g}, D, now)
  BY <1>1, <1>2 DEF Custody, OneToken, Unstarted, Alone, Giving, Children, Leased, InTime
<1> QED
  BY <1>2, <1>3 DEF Custody

\* One subject leaves the expansion; its job is not queued yet.
HandedOn(H, h, s, g, G) ==
    /\ h \in H /\ h.stage = "enqueue" /\ s \in h.todo
    /\ g.job = h.job /\ g.since = h.since /\ g.stage = "enqueue" /\ g.todo = h.todo \ {s}
    /\ G = (H \ {h}) \cup (IF g.todo = {} THEN {} ELSE {g})

Held(run, J, H, E, D, now, s) ==
    /\ Custody(run, J, H, E, D, now) /\ Untouched(s, J, H, D) /\ E = {}
    /\ run.status # "queued"
    /\ \A k \in H : k.job.subject = Whole => k.stage = "enqueue"

LEMMA CustodyGiven ==
    ASSUME NEW run, NEW J, NEW H, NEW E, NEW D, NEW now, Custody(run, J, H, E, D, now),
           NEW h, NEW s, NEW g, NEW G, HandedOn(H, h, s, g, G)
    PROVE  Held(run, J, G, E, D, now, s)
<1> USE DEF HandedOn
<1>1. h.job.subject = Whole
  BY DEF Custody, Children
<1>2. E = {} /\ run.status # "queued"
  BY DEF Custody, OneToken, Unstarted
<1>3. \A k \in H : k # h => k.job.subject # Whole
  BY <1>1 DEF Custody, OneToken
<1>4. \A k \in G : (k \in H /\ k # h) \/ (k = g /\ g.todo # {})
  OBVIOUS
<1>5. OneToken(J, G, E, D)
  BY <1>2, <1>4 DEF Custody, OneToken
<1>6. Alone(run, J, G)
  BY <1>3, <1>4 DEF Alone
<1>7. Giving(run, J, G)
  BY <1>1, <1>3, <1>4 DEF Custody, Giving
<1>8. Children(run, G, D)
  BY <1>1, <1>4 DEF Custody, Children
<1>9. Leased(run, G) /\ InTime(run, G, D, now)
  BY <1>4 DEF Custody, Leased, InTime
<1>10. Untouched(s, J, G, D)
  <2>1. /\ \A j \in J : j.subject # s
        /\ \A k \in H : k.job.subject # s
    BY <1>1 DEF Custody, Giving
  <2>2. \A k \in G : k.stage = "enqueue" => s \notin k.todo
    BY <1>3, <1>4 DEF Custody, Children
  <2> QED
    BY <1>4, <2>1, <2>2 DEF Untouched
<1> QED
  BY <1>1, <1>2, <1>3, <1>4, <1>5, <1>6, <1>7, <1>8, <1>9, <1>10
     DEF Held, Custody, Unstarted

\* A job of a subject that nobody holds.
LEMMA CustodyAdded ==
    ASSUME NEW run, NEW J, NEW H, NEW D, NEW now, Custody(run, J, H, {}, D, now),
           NEW s \in Subject, Untouched(s, J, H, D), run.status # "queued",
           \A h \in H : h.job.subject = Whole => h.stage = "enqueue",
           NEW i, i.subject = s
    PROVE  Custody(run, J \cup {i}, H, {}, D, now)
<1>1. OneToken(J \cup {i}, H, {}, D)
  BY DEF Custody, OneToken, Untouched
<1>2. Unstarted(run, J \cup {i}, H) /\ Alone(run, J \cup {i}, H)
  BY DEF Unstarted, Alone
<1>3. Giving(run, J \cup {i}, H)
  BY DEF Custody, Giving, Untouched
<1> QED
  BY <1>1, <1>2, <1>3 DEF Custody

\* A subject that nobody holds is settled.  If that ends the run, nobody is left
\* to work on it, unless a subject of it was given out twice.
LEMMA CustodySettled ==
    ASSUME NEW run \in Run, NEW J, NEW H \in SUBSET Handlers, NEW D, NEW now,
           Custody(run, J, H, {}, D, now),
           NEW s \in Subject, Untouched(s, J, H, D), run.kids[s] = "pending",
           run.status # "queued",
           NEW new, \A x \in Subject \ {s} : new.kids[x] = run.kids[x],
           \/ new.status = run.status /\ new.until = run.until
           \/ /\ run.status \in Live /\ new.status \in Ended \ {"abandoned"}
              /\ \A x \in Subject : new.kids[x] # "pending"
    PROVE  Custody(new, J, H, {}, D, now)
<1>1. \A h \in H : h.job.subject = Whole => h.stage = "enqueue"
  BY NoKidsIs DEF Custody, Alone
<1>2. \A h \in H : /\ h.todo \subseteq Subject
                   /\ h.stage = "enqueue" => s \notin h.todo
                   /\ h.job.subject \in Subject \cup {Whole}
                   /\ D = {} => h.job.subject # s
  BY DEF Handlers, Jobs, Untouched
<1>3. CASE new.status = run.status /\ new.until = run.until
  <2>1. Unstarted(new, J, H) /\ Alone(new, J, H) /\ Leased(new, H) /\ InTime(new, H, D, now)
    BY <1>1, <1>3 DEF Custody, Unstarted, Alone, Leased, InTime
  <2>2. Giving(new, J, H)
    BY <1>2, <1>3 DEF Custody, Giving
  <2>3. Children(new, H, D)
    BY <1>2, <1>3 DEF Custody, Children
  <2> QED
    BY <2>1, <2>2, <2>3 DEF Custody
<1>4. CASE /\ run.status \in Live /\ new.status \in Ended \ {"abandoned"}
           /\ \A x \in Subject : new.kids[x] # "pending"
  <2>1. run.status # "dropped" /\ new.status \notin {"queued", "running", "abandoned"}
    BY <1>4 DEF Live, Ended
  <2>2. ASSUME NEW h \in H PROVE h.job.subject # Whole
    <3>1. SUFFICES ASSUME h.job.subject = Whole PROVE FALSE
      OBVIOUS
    <3>2. PICK x \in h.todo : run.kids[x] = "pending"
      BY <1>1, <2>1, <3>1 DEF Custody, Giving
    <3> QED
      BY <1>1, <1>2, <1>4, <3>1, <3>2
  <2>3. ASSUME NEW h \in H PROVE D # {}
    BY <1>2, <1>4, <2>1, <2>2 DEF Custody, Children
  <2>4. Unstarted(new, J, H) /\ Alone(new, J, H) /\ Giving(new, J, H) /\ Leased(new, H)
    BY <2>1, <2>2 DEF Unstarted, Alone, Giving, Leased
  <2>5. Children(new, H, D) /\ InTime(new, H, D, now)
    BY <2>1, <2>3 DEF Custody, Children, InTime
  <2> QED
    BY <2>4, <2>5 DEF Custody
<1> QED
  BY <1>3, <1>4

\* A handler of a subject lets it go.
LEMMA CustodyChildEnds ==
    ASSUME NEW run, NEW J, NEW H, NEW E, NEW D, NEW now, Custody(run, J, H, E, D, now),
           NEW h \in H, h.job.subject # Whole
    PROVE  /\ Custody(run, J, H \ {h}, E, D, now) /\ Untouched(h.job.subject, J, H \ {h}, D)
           /\ E = {} /\ run.status # "queued"
           /\ \A k \in H : k.job.subject = Whole => k.stage = "enqueue"
<1>1. E = {} /\ run.status # "queued"
  BY DEF Custody, OneToken, Unstarted
<1>2. \A k \in H : k.job.subject = Whole => k.stage = "enqueue"
  BY DEF Custody, Alone
<1>3. \A k \in H : k.stage = "enqueue" => k.job.subject = Whole
  BY DEF Custody, Children
<1>4. Untouched(h.job.subject, J, H \ {h}, D)
  BY <1>3 DEF Custody, OneToken, Giving, Untouched
<1>5. Custody(run, J, H \ {h}, E, D, now)
  BY CustodyLost
<1> QED
  BY <1>1, <1>2, <1>4, <1>5

\* The handler of the run itself ends before it gives out a subject.
LEMMA CustodyWholeEnds ==
    ASSUME NEW run, NEW J, NEW H, NEW E, NEW D, NEW now, Custody(run, J, H, E, D, now),
           NEW h \in H, h.job.subject = Whole, h.stage # "enqueue"
    PROVE  /\ H \ {h} = {} /\ E = {}
           /\ run.kids = NoKids /\ run.status \in {"running", "abandoned", "dropped"}
BY DEF Custody, Alone, OneToken

\* The queue lets go of a handler: it goes on as g, while the jobs I may be
\* delivered beside it, one of a subject only if that is noted.
LEMMA CustodyLetGo ==
    ASSUME NEW run, NEW J, NEW H, NEW E, NEW D, NEW now, Custody(run, J, H, E, D, now),
           NEW h \in H, NEW g, g.job = h.job, g.since = h.since, g.stage = h.stage,
           g.todo = h.todo,
           NEW I, \A i \in I : i.subject = h.job.subject,
           NEW B, D = {} \/ B # {}, I = {} \/ h.job.subject = Whole \/ B # {}
    PROVE  Custody(run, J \cup I, (H \ {h}) \cup {g}, E, B, now)
<1> DEFINE G == (H \ {h}) \cup {g}
           K == J \cup I
<1>1. E = {} /\ run.status # "queued"
  BY DEF Custody, OneToken, Unstarted
<1>2. \A k \in G : (k \in H /\ k # h) \/ k = g
  OBVIOUS
<1>3. \A i \in K : i \in J \/ (i.subject = h.job.subject /\ (i.subject = Whole \/ B # {}))
  OBVIOUS
<1> HIDE DEF K
<1>4. OneToken(K, G, E, B)
  <2>1. \A k, m \in G : k.job.subject = Whole /\ m.job.subject = Whole => k = m
    BY <1>2 DEF Custody, OneToken
  <2>2. CASE B # {}
    BY <1>1, <2>1, <2>2 DEF OneToken
  <2>3. CASE B = {}
    <3>1. D = {} /\ \A i \in K : i \in J \/ i.subject = Whole
      BY <1>3, <2>3
    <3>2. /\ \A i, j \in K : i.subject = j.subject /\ i.subject # Whole => i = j
          /\ \A k, m \in G : k.job.subject = m.job.subject => k = m
          /\ \A j \in K, k \in G : j.subject # Whole => j.subject # k.job.subject
      BY <1>2, <3>1 DEF Custody, OneToken
    <3> QED
      BY <1>1, <2>1, <3>2 DEF OneToken
  <2> QED
    BY <2>2, <2>3
<1>5. Alone(run, K, G)
  <2> SUFFICES ASSUME NEW k \in G, k.job.subject = Whole, k.stage # "enqueue"
               PROVE  /\ run.kids = NoKids /\ run.status \in {"running", "abandoned", "dropped"}
                      /\ G = {k} /\ \A j \in K : j.subject = Whole
    BY DEF Alone
  <2>1. k = g /\ h.job.subject = Whole /\ h.stage # "enqueue" /\ H = {h}
    BY <1>2 DEF Custody, Alone
  <2> QED
    BY <1>3, <2>1 DEF Custody, Alone
<1>6. Giving(run, K, G)
  <2> SUFFICES ASSUME NEW k \in G, k.job.subject = Whole, k.stage = "enqueue"
               PROVE  /\ k.todo # {}
                      /\ \A s \in k.todo : /\ run.status = "dropped" \/ run.kids[s] = "pending"
                                           /\ \A j \in K : j.subject # s
                                           /\ \A m \in G : m.job.subject # s
    BY DEF Giving
  <2>1. PICK m \in H : m.job = k.job /\ m.stage = k.stage /\ m.todo = k.todo
    BY <1>2
  <2>2. /\ m.todo # {}
        /\ \A s \in m.todo : /\ run.status = "dropped" \/ run.kids[s] = "pending"
                             /\ \A j \in J : j.subject # s
                             /\ \A x \in H : x.job.subject # s
    BY <2>1 DEF Custody, Giving
  <2> QED
    BY <1>2, <1>3, <2>1, <2>2
<1>7. Children(run, G, B)
  BY <1>2 DEF Custody, Children
<1>8. Leased(run, G) /\ InTime(run, G, B, now)
  BY <1>2 DEF Custody, Leased, InTime
<1> QED
  BY <1>1, <1>4, <1>5, <1>6, <1>7, <1>8 DEF Custody, Unstarted, K

\* A run whose lease ran out is abandoned: no handler is in time.
LEMMA CustodyReaped ==
    ASSUME NEW run \in Run, NEW J, NEW H \in SUBSET Handlers, NEW E, NEW D, NEW now \in Nat,
           Custody(run, J, H, E, D, now), run.status \in Live, run.until < now,
           NEW new, new.status = "abandoned", new.kids = run.kids
    PROVE  Custody(new, J, H, E, D, now)
<1>1. \A h \in H : run.status = "running"
  BY DEF Custody, Unstarted, Live
<1>2. \A h \in H : h.since \in Nat /\ run.until >= h.since + RunningLease
  BY <1>1 DEF Custody, Leased, Handlers
<1>3. \A h \in H : ~ now <= h.since + HandlerTimeout
  <2>1. run.until \in Nat /\ RunningLease \in Nat /\ HandlerTimeout \in Nat
        /\ HandlerTimeout < RunningLease
    BY SchedulerAssumption DEF Run
  <2> QED
    BY <1>2, <2>1
<1>4. Alone(new, J, H)
  BY DEF Custody, Alone
<1>5. Giving(new, J, H) /\ Children(new, H, D)
  BY <1>1 DEF Custody, Giving, Children
<1> QED
  BY <1>3, <1>4, <1>5 DEF Custody, Unstarted, Leased, InTime

-----------------------------------------------------------------------------
(* The invariant, and steps on one run. *)

JobsOf(r) == {j \in jobs : j.run = r}
HandlersOf(r) == {h \in handlers : h.job.run = r}
EnqueuersOf(r) == {n \in Node : ticks[n].stage = "enqueue" /\ ticks[n].version = r}
TwiceOf(r) == twice \cap {r}

Safekept(r) ==
    Truthful(runs[r]) /\ Custody(runs[r], JobsOf(r), HandlersOf(r), EnqueuersOf(r), TwiceOf(r), clock)

WorkInv == \A r \in RunIds : Safekept(r)

LEMMA Parts ==
    ASSUME TypeInv, WorkInv, NEW r \in RunIds
    PROVE  /\ runs[r] \in Run /\ Truthful(runs[r])
           /\ Custody(runs[r], JobsOf(r), HandlersOf(r), EnqueuersOf(r), TwiceOf(r), clock)
           /\ JobsOf(r) \in SUBSET Jobs /\ HandlersOf(r) \in SUBSET Handlers /\ clock \in Nat
BY TypedRuns DEF TypeInv, TypeOK, WorkInv, Safekept, JobsOf, HandlersOf

\* The step gives run r the document doc; ended runs may be dropped with it.
MayDrop(new, old) == new = old \/ (old.status \in Ended /\ new = Dropped(old))
ToDoc(r, doc) ==
    /\ Len(runs') = Len(runs)
    /\ \A q \in RunIds : MayDrop(runs'[q], IF q = r THEN doc ELSE runs[q])

\* It gives nobody else a token.
Spared(q) ==
    /\ JobsOf(q)' \subseteq JobsOf(q) /\ HandlersOf(q)' \subseteq HandlersOf(q)
    /\ EnqueuersOf(q)' \subseteq EnqueuersOf(q)

LEMMA KeptDropped ==
    ASSUME NEW doc \in Run, Truthful(doc), NEW new, MayDrop(new, doc),
           NEW J, NEW H, NEW E, NEW D, NEW now, Custody(doc, J, H, E, D, now)
    PROVE  Truthful(new) /\ Custody(new, J, H, E, D, now)
BY TruthfulDropped, CustodyDropped DEF MayDrop

LEMMA RunStepTwice ==
    ASSUME TypeInv, WorkInv, clock' = clock, NEW r \in RunIds, NEW doc \in Run, ToDoc(r, doc),
           \A q \in RunIds \ {r} : Spared(q) /\ TwiceOf(q)' = TwiceOf(q), Truthful(doc),
           Custody(doc, JobsOf(r)', HandlersOf(r)', EnqueuersOf(r)', TwiceOf(r)', clock)
    PROVE  WorkInv'
<1>1. RunIds' = RunIds
  BY DEF ToDoc, RunIds
<1>2. /\ Truthful(runs'[r])
      /\ Custody(runs'[r], JobsOf(r)', HandlersOf(r)', EnqueuersOf(r)', TwiceOf(r)', clock)
  BY KeptDropped DEF ToDoc
<1>3. ASSUME NEW q \in RunIds \ {r}
      PROVE  /\ Truthful(runs'[q])
             /\ Custody(runs'[q], JobsOf(q)', HandlersOf(q)', EnqueuersOf(q)', TwiceOf(q)', clock)
  <2>1. /\ runs[q] \in Run /\ Truthful(runs[q])
        /\ Custody(runs[q], JobsOf(q), HandlersOf(q), EnqueuersOf(q), TwiceOf(q), clock)
    BY Parts
  <2>2. Custody(runs[q], JobsOf(q)', HandlersOf(q)', EnqueuersOf(q)', TwiceOf(q)', clock)
    BY <1>3, <2>1, CustodyLost DEF Spared
  <2>3. MayDrop(runs'[q], runs[q])
    BY DEF ToDoc
  <2> QED
    BY <2>1, <2>2, <2>3, KeptDropped
<1>4. \A q \in RunIds : /\ Truthful(runs'[q])
                        /\ Custody(runs'[q], JobsOf(q)', HandlersOf(q)', EnqueuersOf(q)', TwiceOf(q)', clock')
  BY <1>2, <1>3
<1> QED
  BY <1>1, <1>4 DEF WorkInv, Safekept

LEMMA RunStep ==
    ASSUME TypeInv, WorkInv, clock' = clock, twice' = twice,
           NEW r \in RunIds, NEW doc \in Run, ToDoc(r, doc),
           \A q \in RunIds \ {r} : Spared(q), Truthful(doc),
           Custody(doc, JobsOf(r)', HandlersOf(r)', EnqueuersOf(r)', TwiceOf(r), clock)
    PROVE  WorkInv'
<1>1. \A q : TwiceOf(q)' = TwiceOf(q)
  BY DEF TwiceOf
<1> QED
  BY <1>1, RunStepTwice

\* Steps that change no document but by dropping it.
LEMMA QuietStep ==
    ASSUME TypeInv, WorkInv, clock' \in {clock, clock + 1}, twice' = twice, Len(runs') = Len(runs),
           \A q \in RunIds : MayDrop(runs'[q], runs[q]) /\ Spared(q)
    PROVE  WorkInv'
<1>1. RunIds' = RunIds
  BY DEF RunIds
<1>2. ASSUME NEW q \in RunIds
      PROVE  /\ Truthful(runs'[q])
             /\ Custody(runs'[q], JobsOf(q)', HandlersOf(q)', EnqueuersOf(q)', TwiceOf(q)', clock')
  <2>1. /\ runs[q] \in Run /\ Truthful(runs[q]) /\ clock \in Nat
        /\ Custody(runs[q], JobsOf(q), HandlersOf(q), EnqueuersOf(q), TwiceOf(q), clock)
        /\ HandlersOf(q) \in SUBSET Handlers
    BY Parts
  <2>2. Custody(runs[q], JobsOf(q), HandlersOf(q), EnqueuersOf(q), TwiceOf(q)', clock')
    BY <2>1, CustodyLater DEF TwiceOf
  <2>3. Custody(runs[q], JobsOf(q)', HandlersOf(q)', EnqueuersOf(q)', TwiceOf(q)', clock')
    BY <2>2, CustodyLost DEF Spared
  <2> QED
    BY <2>1, <2>3, KeptDropped
<1> QED
  BY <1>1, <1>2 DEF WorkInv, Safekept

-----------------------------------------------------------------------------
(* The document after a step. *)

LEMMA DocUpdated ==
    ASSUME TypeInv, NEW r \in RunIds, NEW doc, runs' = [runs EXCEPT ![r] = doc]
    PROVE  ToDoc(r, doc)
BY TypedRuns DEF TypeInv, TypeOK, ToDoc, MayDrop

LEMMA DocSame ==
    ASSUME TypeInv, NEW r \in RunIds, runs' = runs
    PROVE  ToDoc(r, runs[r])
BY DEF ToDoc, MayDrop

LEMMA DocEnded ==
    ASSUME TypeInv, NEW r \in RunIds, NEW doc \in Run, NEW rs, rs = [runs EXCEPT ![r] = doc],
           NEW status \in Ended, NEW ok, End(rs, r, status, ok, clock)
    PROVE  ToDoc(r, EndedDoc(doc, status, clock))
<1> DEFINE es == [rs EXCEPT ![r].status = status, ![r].until = clock]
<1>1. /\ Len(runs) \in Nat /\ RunIds = 1 .. Len(runs) /\ runs \in [RunIds -> Run]
      /\ clock \in Nat
  BY TypedRuns DEF TypeInv, TypeOK
<1>2. rs \in [RunIds -> Run] /\ rs[r] = doc
  BY <1>1
<1>3. EndedDoc(doc, status, clock) \in Run
  BY <1>1, EndedDocIs
<1>4. es = [rs EXCEPT ![r] = EndedDoc(doc, status, clock)]
  BY <1>2 DEF EndedDoc
<1>5. runs' = Trimmed(es)
  BY DEF End
<1> HIDE DEF es
<1>6. /\ es \in [1 .. Len(runs) -> Run]
      /\ \A q \in RunIds : es[q] = IF q = r THEN EndedDoc(doc, status, clock) ELSE runs[q]
  BY <1>1, <1>2, <1>3, <1>4
<1>7. /\ Trimmed(es) \in [1 .. Len(runs) -> Run]
      /\ \A q \in RunIds : MayDrop(Trimmed(es)[q], es[q])
  BY <1>1, <1>6, TrimmedShape DEF MayDrop
<1>8. Len(runs') = Len(runs)
  BY <1>1, <1>5, <1>7, FunctionIsSeq
<1> QED
  BY <1>5, <1>6, <1>7, <1>8 DEF ToDoc

LEMMA OutcomeEnds ==
    \A ok : /\ Outcome(ok) \in Ended /\ Outcome(ok) # "abandoned"
            /\ Outcome(ok) = "succeeded" <=> ok
BY DEF Outcome, Ended

LEMMA DocFinished ==
    ASSUME TypeInv, NEW r \in RunIds, NEW ok, FinishRun(r, ok)
    PROVE  \/ runs[r].status \in Live /\ ToDoc(r, EndedDoc(runs[r], Outcome(ok), clock))
           \/ runs[r].status \notin Live /\ ToDoc(r, runs[r])
<1>1. CASE runs[r].status \in Live
  <2>1. End(runs, r, Outcome(ok), ok, clock)
    BY <1>1 DEF FinishRun, Live
  <2>2. runs = [runs EXCEPT ![r] = runs[r]] /\ runs[r] \in Run
    BY TypedRuns DEF TypeInv
  <2> QED
    BY <1>1, <2>1, <2>2, DocEnded, OutcomeEnds
<1>2. CASE runs[r].status \notin Live
  BY <1>2, DocSame DEF FinishRun
<1> QED
  BY <1>1, <1>2

LEMMA SettleForms ==
    ASSUME TypeInv, NEW r \in RunIds, NEW s \in Subject, NEW ok \in BOOLEAN
    PROVE  /\ SettleKey(r, s, ok) = [runs EXCEPT ![r] = KeyedDoc(runs[r], s, ok)]
           /\ Counted(r, s, ok) = [runs EXCEPT ![r] = SettledDoc(runs[r], s, ok)]
<1>1. runs \in [RunIds -> Run] /\ runs[r] \in Run
  BY TypedRuns DEF TypeInv
<1>2. SettleKey(r, s, ok) = [runs EXCEPT ![r] = KeyedDoc(runs[r], s, ok)]
  BY <1>1 DEF SettleKey, KeyedDoc
<1> DEFINE key == KeyedDoc(runs[r], s, ok)
           ks == SettleKey(r, s, ok)
<1>3. /\ key \in Run /\ key.settled = runs[r].settled /\ key.failed = runs[r].failed
      /\ ks \in [RunIds -> Run] /\ ks[r] = key
  BY <1>1, <1>2, KeyedDocIs
<1>4. Counted(r, s, ok) = [ks EXCEPT ![r] =
        TallyDoc(key, key.settled + 1, IF ok THEN key.failed ELSE key.failed + 1)]
  <2>1. Counted(r, s, ok) =
          [ks EXCEPT ![r].settled = @ + 1, ![r].failed = IF ok THEN @ ELSE @ + 1]
    BY DEF Counted
  <2> HIDE DEF ks, key
  <2> QED
    BY <1>3, <2>1 DEF TallyDoc, Run
<1>5. Counted(r, s, ok) = [ks EXCEPT ![r] = SettledDoc(runs[r], s, ok)]
  BY <1>3, <1>4 DEF SettledDoc
<1> HIDE DEF ks, key
<1>6. ks = [runs EXCEPT ![r] = key]
  BY <1>2 DEF ks, key
<1>7. Counted(r, s, ok) = [runs EXCEPT ![r] = SettledDoc(runs[r], s, ok)]
  BY <1>1, <1>5, <1>6
<1> QED
  BY <1>2, <1>7

\* What settling a subject makes of a run's document.
Settling(r, s, doc) ==
    /\ doc \in Run /\ Truthful(doc) /\ runs[r].kids[s] = "pending"
    /\ runs[r].status # "queued"
    /\ \A x \in Subject \ {s} : doc.kids[x] = runs[r].kids[x]
    /\ \/ doc.status = runs[r].status /\ doc.until = runs[r].until
       \/ /\ runs[r].status \in Live /\ doc.status \in Ended \ {"abandoned"}
          /\ \A x \in Subject : doc.kids[x] # "pending"

LEMMA DocSettled ==
    ASSUME TypeInv, WorkInv, NEW r \in RunIds, NEW s \in Subject, NEW ok \in BOOLEAN,
           NEW cost, settleChild(r, s, ok, cost)
    PROVE  ToDoc(r, runs[r]) \/ \E doc : Settling(r, s, doc) /\ ToDoc(r, doc)
<1> DEFINE run == runs[r]
           key == KeyedDoc(run, s, ok)
           doc == SettledDoc(run, s, ok)
<1>1. run \in Run /\ Truthful(run) /\ clock \in Nat
  BY Parts
<1>2. CASE UNCHANGED runs
  BY <1>2, DocSame
<1>3. CASE run.kids[s] = "pending" /\ ~UNCHANGED runs
  <2>1. /\ key \in Run /\ key.status = run.status /\ key.until = run.until
        /\ \A x \in Subject \ {s} : key.kids[x] = run.kids[x]
    BY <1>1, KeyedDocIs
  <2>2. Truthful(key) /\ run.status \notin {"queued", "dropped", "succeeded"}
    BY <1>1, <1>3, TruthfulKeyed
  <2>3. /\ doc \in Run /\ Truthful(doc) /\ doc.status = run.status /\ doc.until = run.until
        /\ doc.kids = key.kids
    BY <1>1, <1>3, TruthfulSettled
  <2>4. /\ SettleKey(r, s, ok) = [runs EXCEPT ![r] = key]
        /\ Counted(r, s, ok) = [runs EXCEPT ![r] = doc]
    BY SettleForms
  <2> DEFINE well == doc.failed = 0
  <2>5. \/ runs' = SettleKey(r, s, ok)
        \/ runs' = Counted(r, s, ok)
        \/ /\ doc.settled = doc.children /\ doc.status \in Live
           /\ End(Counted(r, s, ok), r, Outcome(well), well, clock)
    <3>1. SettleChild(r, s, ok) \/ runs' = SettleKey(r, s, ok)
      BY <1>3 DEF settleChild
    <3>2. Counted(r, s, ok)[r] = doc
      BY <2>4, TypedRuns DEF TypeInv
    <3> HIDE DEF doc
    <3> QED
      BY <1>3, <3>1, <3>2 DEF SettleChild, Counted
  <2> HIDE DEF key, doc
  <2>6. CASE runs' = SettleKey(r, s, ok)
    <3>1. ToDoc(r, key)
      BY <2>4, <2>6, DocUpdated
    <3>2. Settling(r, s, key)
      BY <1>3, <2>1, <2>2 DEF Settling
    <3> QED
      BY <3>1, <3>2
  <2>7. CASE runs' = Counted(r, s, ok)
    <3>1. ToDoc(r, doc)
      BY <2>4, <2>7, DocUpdated
    <3>2. Settling(r, s, doc)
      BY <1>3, <2>1, <2>2, <2>3 DEF Settling
    <3> QED
      BY <3>1, <3>2
  <2>8. CASE /\ doc.settled = doc.children /\ doc.status \in Live
             /\ End(Counted(r, s, ok), r, Outcome(well), well, clock)
    <3> DEFINE end == EndedDoc(doc, Outcome(well), clock)
    <3>1. /\ Outcome(well) \in Ended /\ Outcome(well) # "abandoned"
          /\ Outcome(well) = "succeeded" <=> well
      BY OutcomeEnds
    <3>2. ToDoc(r, end)
      BY <2>3, <2>4, <2>8, <3>1, DocEnded
    <3>3. Counts(doc)
      BY <2>3, <2>8 DEF Truthful, Live
    <3>4. /\ \A x \in Subject : doc.kids[x] # "pending"
          /\ doc.failed = 0 => AllWell(doc.kids)
      BY <2>3, <2>8, <3>3, AllSettled
    <3>5. Truthful(end)
      BY <1>1, <2>3, <2>8, <3>1, <3>4, TruthfulEnded
    <3>6. end \in Run /\ end.status \in Ended \ {"abandoned"} /\ end.kids = doc.kids
      BY <1>1, <2>3, <3>1, EndedDocIs
    <3> HIDE DEF end
    <3>7. Settling(r, s, end)
      BY <1>3, <2>1, <2>2, <2>3, <2>8, <3>4, <3>5, <3>6 DEF Settling
    <3> QED
      BY <3>2, <3>7
  <2> QED
    BY <2>5, <2>6, <2>7, <2>8
<1>4. CASE run.kids[s] # "pending"
  BY <1>4, DocSame DEF settleChild, SettleChild
<1> QED
  BY <1>2, <1>3, <1>4

-----------------------------------------------------------------------------
(* Steps of the schedulers. *)

\* A tick that leaves its stage, or enters one that is not the queueing of a run.
LEMMA TickSpares ==
    ASSUME TypeInv, NEW n \in Node, NEW k, k.stage # "enqueue",
           ticks' = [ticks EXCEPT ![n] = k], UNCHANGED <<jobs, handlers>>
    PROVE  /\ \A q \in RunIds : Spared(q)
           /\ \A q \in RunIds : JobsOf(q)' = JobsOf(q) /\ HandlersOf(q)' = HandlersOf(q)
<1>1. \A m \in Node : ticks'[m] = IF m = n THEN k ELSE ticks[m]
  BY DEF TypeInv, TypeOK
<1> QED
  BY <1>1 DEF Spared, JobsOf, HandlersOf, EnqueuersOf

LEMMA TickStages ==
    /\ Idle.stage # "enqueue" /\ Pruning.stage # "enqueue"
    /\ \A now : Loading(now).stage # "enqueue"
    /\ \A k, v : k \in Ticks => Creating(k, v).stage # "enqueue"
BY DEF Idle, Pruning, Loading, Creating, Ticks

LEMMA ReapKeeps ==
    ASSUME TypeInv, WorkInv, NEW n \in Node, Reap(n)
    PROVE  WorkInv'
<1>1. /\ \A q \in RunIds : Spared(q)
      /\ \A q \in RunIds : JobsOf(q)' = JobsOf(q) /\ HandlersOf(q)' = HandlersOf(q)
  <2>1. \/ ticks' = [ticks EXCEPT ![n] = Loading(clock)]
        \/ UNCHANGED ticks
    BY DEF Reap, Loading
  <2>2. UNCHANGED <<jobs, handlers>>
    BY DEF Reap
  <2>3. CASE UNCHANGED ticks
    BY <2>2, <2>3 DEF Spared, JobsOf, HandlersOf, EnqueuersOf
  <2> QED
    BY <2>1, <2>2, <2>3, TickStages, TickSpares
<1>2. clock' = clock /\ twice' = twice
  BY DEF Reap
<1>3. CASE UNCHANGED runs
  BY <1>1, <1>2, <1>3, QuietStep DEF MayDrop
<1>4. CASE ~UNCHANGED runs
  <2>1. PICK r \in Expired : End(runs, r, "abandoned", FALSE, clock)
    BY <1>4 DEF Reap
  <2>2. r \in RunIds /\ runs[r].status \in Live /\ runs[r].until < clock
    BY DEF Expired, ActiveRuns
  <2>3. /\ runs[r] \in Run /\ Truthful(runs[r]) /\ clock \in Nat
        /\ Custody(runs[r], JobsOf(r), HandlersOf(r), EnqueuersOf(r), TwiceOf(r), clock)
        /\ HandlersOf(r) \in SUBSET Handlers
    BY <2>2, Parts
  <2>4. "abandoned" \in Ended /\ runs = [runs EXCEPT ![r] = runs[r]]
    BY <2>2, TypedRuns DEF Ended, TypeInv
  <2> DEFINE doc == EndedDoc(runs[r], "abandoned", clock)
  <2>5. doc \in Run /\ doc.status = "abandoned" /\ doc.kids = runs[r].kids
    BY <2>3, <2>4, EndedDocIs
  <2>6. ToDoc(r, doc)
    BY <2>1, <2>2, <2>3, <2>4, DocEnded
  <2>7. Truthful(doc)
    BY <2>2, <2>3, <2>4, TruthfulEnded
  <2> HIDE DEF doc
  <2>8. Custody(doc, JobsOf(r), HandlersOf(r), EnqueuersOf(r), TwiceOf(r), clock)
    BY <2>2, <2>3, <2>5, CustodyReaped
  <2>9. Custody(doc, JobsOf(r)', HandlersOf(r)', EnqueuersOf(r)', TwiceOf(r), clock)
    BY <1>1, <2>2, <2>8, CustodyLost DEF Spared
  <2> QED
    BY <1>1, <1>2, <2>2, <2>5, <2>6, <2>7, <2>9, RunStep
<1> QED
  BY <1>3, <1>4

LEMMA TickKeeps ==
    ASSUME TypeInv, WorkInv, NEW n \in Node, Load(n) \/ Prune(n) \/ TickDies(n)
    PROVE  WorkInv'
<1>1. \A q \in RunIds : Spared(q)
  <2>1. UNCHANGED <<jobs, handlers>>
    BY DEF Load, Prune, TickDies
  <2>2. ticks[n] \in Ticks
    BY DEF TypeInv, TypeOK
  <2>3. \/ ticks' = [ticks EXCEPT ![n] = Idle] \/ ticks' = [ticks EXCEPT ![n] = Pruning]
        \/ ticks' = [ticks EXCEPT ![n] = Creating(ticks[n], task.version)]
    BY DEF Load, Prune, TickDies, Creating
  <2> QED
    BY <2>1, <2>2, <2>3, TickStages, TickSpares
<1>2. clock' = clock /\ twice' = twice
  BY DEF Load, Prune, TickDies
<1>3. Len(runs') = Len(runs) /\ \A q \in RunIds : MayDrop(runs'[q], runs[q])
  <2>1. CASE UNCHANGED runs
    BY <2>1 DEF MayDrop
  <2>2. CASE ~UNCHANGED runs
    <3> DEFINE old(at) == at + PruneAge < clock
               taskGone == task # NoRecord /\ old(task.touched) /\ ActiveRuns = {}
               gone == {r \in RunIds : runs[r].status \in Ended
                                         /\ (old(runs[r].until) \/ taskGone \/ task = NoRecord)}
    <3>1. runs' = [r \in RunIds |-> IF r \in gone THEN Dropped(runs[r]) ELSE runs[r]]
      BY <2>2 DEF Load, Prune, TickDies, Dropped
    <3>2. \A r \in gone : runs[r].status \in Ended
      OBVIOUS
    <3> HIDE DEF gone
    <3>3. RunIds = 1 .. Len(runs) /\ Len(runs) \in Nat /\ runs \in [RunIds -> Run]
      BY TypedRuns DEF TypeInv
    <3>4. \A q \in RunIds : MayDrop(runs'[q], runs[q])
      BY <3>1, <3>2 DEF MayDrop
    <3>5. runs' \in [1 .. Len(runs) -> Run]
      BY <3>1, <3>3, DroppedType
    <3> QED
      BY <3>3, <3>4, <3>5, FunctionIsSeq, SMTT(30)
  <2> QED
    BY <2>1, <2>2
<1> QED
  BY <1>1, <1>2, <1>3, QuietStep

LEMMA CreateKeeps ==
    ASSUME TypeInv, WorkInv, NEW n \in Node, CreateRun(n)
    PROVE  WorkInv'
<1>1. /\ Len(runs) \in Nat /\ RunIds = 1 .. Len(runs) /\ runs \in Seq(Run)
      /\ ticks \in [Node -> Ticks] /\ ticks[n] \in Ticks /\ ticks[n].now \in Nat
  BY TypedRuns DEF TypeInv, TypeOK, Ticks
<1>5. PICK new \in Nat : new = Len(runs) + 1
  BY <1>1
<1> DEFINE k == Enqueuing(ticks[n], new)
<1>2. UNCHANGED <<jobs, handlers, clock, twice>>
  BY DEF CreateRun
<1>3. CASE UNCHANGED runs /\ ticks' = [ticks EXCEPT ![n] = Pruning]
  BY <1>2, <1>3, TickStages, TickSpares, QuietStep DEF MayDrop
<1>4. CASE runs' = Append(runs, NewRun(ticks[n].now)) /\ ticks' = [ticks EXCEPT ![n] = k]
  <2>1. /\ Len(runs') = new /\ runs'[new] = NewRun(ticks[n].now)
        /\ \A q \in RunIds : runs'[q] = runs[q]
    BY <1>1, <1>4, <1>5
  <2>2. RunIds' = 1 .. new /\ \A q \in RunIds' : q \in RunIds \/ q = new
    BY <1>1, <1>5, <2>1 DEF RunIds
  <2>3. k.stage = "enqueue" /\ k.version = new
    BY <1>1, EnqueuingForm
  <2> HIDE DEF k
  <2>4. \A m \in Node : ticks'[m] = IF m = n THEN k ELSE ticks[m]
    BY <1>1, <1>4
  <2>5. ASSUME NEW q \in RunIds PROVE Spared(q)
    BY <1>1, <1>2, <1>5, <2>3, <2>4 DEF Spared, JobsOf, HandlersOf, EnqueuersOf
  <2>6. JobsOf(new)' = {} /\ HandlersOf(new)' = {} /\ EnqueuersOf(new)' = {n}
    <3>1. new \notin RunIds
      BY <1>1, <1>5
    <3>2. JobsOf(new)' = {} /\ HandlersOf(new)' = {}
      BY <1>2, <3>1 DEF JobsOf, HandlersOf, TypeInv, Refs
    <3>3. EnqueuersOf(new)' = {n}
      BY <2>3, <2>4, <3>1 DEF EnqueuersOf, TypeInv, Refs
    <3> QED
      BY <3>2, <3>3
  <2>7. Safekept(new)'
    <3>1. Truthful(runs'[new])
      BY <1>1, <2>1, TruthfulNew
    <3>2. Custody(runs'[new], JobsOf(new)', HandlersOf(new)', EnqueuersOf(new)', TwiceOf(new)', clock')
      BY <2>6, CustodyNew
    <3> QED
      BY <3>1, <3>2 DEF Safekept
  <2>8. ASSUME NEW q \in RunIds PROVE Safekept(q)'
    <3>1. Custody(runs[q], JobsOf(q), HandlersOf(q), EnqueuersOf(q), TwiceOf(q), clock) /\ Truthful(runs[q])
      BY Parts
    <3>2. Custody(runs[q], JobsOf(q)', HandlersOf(q)', EnqueuersOf(q)', TwiceOf(q), clock)
      BY <2>5, <3>1, CustodyLost DEF Spared
    <3> QED
      BY <1>2, <2>1, <3>1, <3>2 DEF Safekept, TwiceOf
  <2> QED
    BY <2>2, <2>7, <2>8 DEF WorkInv
<1> QED
  BY <1>3, <1>4, <1>5 DEF CreateRun, Enqueuing

LEMMA EnqueueKeeps ==
    ASSUME TypeInv, WorkInv, NEW n \in Node, Enqueue(n)
    PROVE  WorkInv'
<1>1. PICK r \in RunIds : r = ticks[n].version /\ n \in EnqueuersOf(r)
  BY DEF Enqueue, TypeInv, Refs, EnqueuersOf
<1>2. /\ runs[r] \in Run /\ Truthful(runs[r]) /\ clock \in Nat
      /\ Custody(runs[r], JobsOf(r), HandlersOf(r), EnqueuersOf(r), TwiceOf(r), clock)
  BY <1>1, Parts
<1>3. JobsOf(r) = {} /\ HandlersOf(r) = {} /\ EnqueuersOf(r) = {n}
  BY <1>1, <1>2 DEF Custody, OneToken
<1>4. /\ ticks' = [ticks EXCEPT ![n] = Pruning] /\ UNCHANGED <<handlers, clock, twice>>
      /\ \A m \in Node : ticks'[m] = IF m = n THEN Pruning ELSE ticks[m]
  BY <1>1 DEF Enqueue, TypeInv, TypeOK
<1>5. EnqueuersOf(r)' = {}
  BY <1>1, <1>3, <1>4, TickStages DEF EnqueuersOf
<1>6. CASE jobs' = jobs \cup {Job(r, Whole, 1)} /\ UNCHANGED runs
  <2>1. JobsOf(r)' = JobsOf(r) \cup {Job(r, Whole, 1)} /\ HandlersOf(r)' = HandlersOf(r)
    BY <1>4, <1>6 DEF JobsOf, HandlersOf, Job
  <2>2. \A q \in RunIds \ {r} : Spared(q)
    BY <1>4, <1>6, TickStages DEF Spared, JobsOf, HandlersOf, EnqueuersOf, Job
  <2>3. Job(r, Whole, 1).subject = Whole
    BY DEF Job
  <2>4. Custody(runs[r], JobsOf(r)', HandlersOf(r)', EnqueuersOf(r)', TwiceOf(r), clock)
    BY <1>1, <1>2, <1>5, <2>1, <2>3, CustodyQueued
  <2> QED
    BY <1>1, <1>2, <1>4, <1>6, <2>2, <2>4, DocSame, RunStep
<1>7. CASE finish(r, FALSE, 1) /\ UNCHANGED jobs
  <2>1. \A q \in RunIds : Spared(q)
    BY <1>4, <1>7, TickStages, TickSpares
  <2>2. CASE UNCHANGED runs
    BY <1>4, <2>1, <2>2, QuietStep DEF MayDrop
  <2>3. CASE runs[r].status \in Live /\ ToDoc(r, EndedDoc(runs[r], Outcome(FALSE), clock))
    <3> DEFINE doc == EndedDoc(runs[r], Outcome(FALSE), clock)
    <3>1. Outcome(FALSE) \in Ended /\ Outcome(FALSE) # "succeeded"
      BY OutcomeEnds
    <3>2. doc \in Run /\ doc.status \in Ended /\ Truthful(doc)
      BY <1>2, <2>3, <3>1, EndedDocIs, TruthfulEnded
    <3> HIDE DEF doc
    <3>3. doc.status # "queued"
      BY <3>2 DEF Ended
    <3>4. Custody(doc, JobsOf(r), HandlersOf(r), EnqueuersOf(r), TwiceOf(r), clock)
      BY <1>2, <1>3, <3>3, CustodyIdle
    <3>5. Custody(doc, JobsOf(r)', HandlersOf(r)', EnqueuersOf(r)', TwiceOf(r), clock)
      BY <1>1, <2>1, <3>4, CustodyLost DEF Spared
    <3> QED
      BY <1>1, <1>4, <2>1, <2>3, <3>2, <3>5, RunStep DEF doc
  <2>4. CASE ToDoc(r, runs[r])
    <3>1. \A q \in RunIds : MayDrop(runs'[q], runs[q])
      BY <2>4 DEF ToDoc
    <3> QED
      BY <1>4, <2>1, <2>4, <3>1, QuietStep DEF ToDoc
  <2> QED
    BY <1>1, <1>7, <2>2, <2>3, <2>4, DocFinished DEF finish
<1> QED
  BY <1>1, <1>6, <1>7 DEF Enqueue

-----------------------------------------------------------------------------
(* Steps of the queue and the handlers. *)

\* Which tokens a step that leaves the schedulers alone can touch.
LEMMA QueueSpares ==
    ASSUME UNCHANGED ticks, NEW r,
           \A j \in jobs' : j \in jobs \/ j.run = r,
           \A h \in handlers' : h \in handlers \/ h.job.run = r
    PROVE  /\ \A q \in RunIds \ {r} : Spared(q)
           /\ EnqueuersOf(r)' = EnqueuersOf(r)
BY DEF Spared, JobsOf, HandlersOf, EnqueuersOf

LEMMA HeldBy ==
    ASSUME TypeInv
    PROVE  /\ \A j \in jobs : j.run \in RunIds /\ j \in JobsOf(j.run)
           /\ \A h \in handlers : h.job.run \in RunIds /\ h \in HandlersOf(h.job.run)
BY DEF TypeInv, Refs, JobsOf, HandlersOf

LEMMA BeginKeeps ==
    ASSUME TypeInv, WorkInv, NEW j \in jobs, beginRun(j)
    PROVE  WorkInv'
<1>1. PICK r \in RunIds : r = j.run /\ j \in JobsOf(r)
  BY HeldBy
<1>2. /\ runs[r] \in Run /\ Truthful(runs[r]) /\ clock \in Nat
      /\ Custody(runs[r], JobsOf(r), HandlersOf(r), EnqueuersOf(r), TwiceOf(r), clock)
  BY Parts
<1>3. j.subject = Whole /\ jobs' = jobs \ {j} /\ UNCHANGED <<ticks, clock, twice>>
  BY DEF beginRun
<1>4. JobsOf(r)' = JobsOf(r) \ {j}
  BY <1>3 DEF JobsOf
<1>5. CASE UNCHANGED <<runs, handlers>>
  <2>1. \A q \in RunIds : Spared(q)
    BY <1>3, <1>5 DEF Spared, JobsOf, HandlersOf, EnqueuersOf
  <2> QED
    BY <1>3, <1>5, <2>1, QuietStep DEF MayDrop
<1>6. ASSUME NEW stage \in {"select", "work"}, runs[r].status = "queued",
             runs' = [runs EXCEPT ![r].status = "running", ![r].until = clock + RunningLease],
             handlers' = handlers \cup {Handler(j, stage)}
      PROVE  WorkInv'
  <2> DEFINE doc == EndedDoc(runs[r], "running", clock + RunningLease)
             h == Handler(j, stage)
  <2>1. clock + RunningLease \in Nat
    BY LeaseEnds
  <2>2. /\ doc \in Run /\ doc.status = "running" /\ doc.until = clock + RunningLease
        /\ doc.kids = runs[r].kids
    BY <1>2, <2>1, EndedDocIs DEF Live
  <2>3. Truthful(doc)
    BY <1>2, <1>6, <2>1, TruthfulEnded DEF Live
  <2>4. runs' = [runs EXCEPT ![r] = doc]
    BY <1>6, TypedRuns DEF EndedDoc, TypeInv
  <2>5. h.job = j /\ h.since = clock /\ h.stage = stage
    BY DEF Handler
  <2> HIDE DEF doc, h
  <2>6. HandlersOf(r)' = HandlersOf(r) \cup {h}
    BY <1>1, <1>6, <2>5 DEF HandlersOf, h
  <2>7. (\A q \in RunIds \ {r} : Spared(q)) /\ EnqueuersOf(r)' = EnqueuersOf(r)
    BY <1>1, <1>3, <1>6, <2>5, QueueSpares DEF h
  <2>8. Custody(doc, JobsOf(r) \ {j}, HandlersOf(r) \cup {h}, EnqueuersOf(r), TwiceOf(r), clock)
    BY <1>1, <1>2, <1>3, <1>6, <2>2, <2>5, CustodyBegun
  <2> QED
    BY <1>3, <1>4, <2>2, <2>3, <2>4, <2>6, <2>7, <2>8, DocUpdated, RunStep
<1> QED
  BY <1>1, <1>5, <1>6 DEF beginRun, MayStart

LEMMA StartChildKeeps ==
    ASSUME TypeInv, WorkInv, NEW j \in jobs, StartChild(j)
    PROVE  WorkInv'
<1>1. PICK r \in RunIds : r = j.run /\ j \in JobsOf(r)
  BY HeldBy
<1>2. /\ runs[r] \in Run /\ Truthful(runs[r]) /\ clock \in Nat
      /\ Custody(runs[r], JobsOf(r), HandlersOf(r), EnqueuersOf(r), TwiceOf(r), clock)
      /\ JobsOf(r) \in SUBSET Jobs /\ HandlersOf(r) \in SUBSET Handlers
  BY Parts
<1>3. j.subject # Whole /\ UNCHANGED <<ticks, clock, twice>>
  BY DEF StartChild
<1>4. CASE jobs' = jobs \ {j} /\ UNCHANGED <<runs, handlers>>
  <2>1. \A q \in RunIds : Spared(q)
    BY <1>3, <1>4 DEF Spared, JobsOf, HandlersOf, EnqueuersOf
  <2> QED
    BY <1>3, <1>4, <2>1, QuietStep DEF MayDrop
<1>5. CASE jobs' = (jobs \ {j}) \cup Again(j) /\ Again(j) # {} /\ UNCHANGED <<runs, handlers>>
  <2>1. PICK i \in Again(j) : Again(j) = {i} /\ i.run = r /\ i.subject = j.subject
    BY <1>1, <1>5, AgainType, StillQueue DEF Again
  <2>2. JobsOf(r)' = (JobsOf(r) \ {j}) \cup {i} /\ HandlersOf(r)' = HandlersOf(r)
    BY <1>5, <2>1 DEF JobsOf, HandlersOf
  <2>3. (\A q \in RunIds \ {r} : Spared(q)) /\ EnqueuersOf(r)' = EnqueuersOf(r)
    BY <1>3, <1>5, <2>1, QueueSpares
  <2>4. Custody(runs[r], (JobsOf(r) \ {j}) \cup {i}, HandlersOf(r), EnqueuersOf(r), TwiceOf(r), clock)
    BY <1>1, <1>2, <2>1, CustodyAgain
  <2> QED
    BY <1>2, <1>3, <1>5, <2>2, <2>3, <2>4, DocSame, RunStep
<1>6. CASE /\ MayClaim(r, j.subject) /\ jobs' = jobs \ {j}
           /\ runs' = [runs EXCEPT ![r].until = Later(@, clock + RunningLease)]
           /\ handlers' = handlers \cup {Handler(j, "work")}
  <2> DEFINE at == Later(runs[r].until, clock + RunningLease)
             doc == LeasedDoc(runs[r], at)
             h == Handler(j, "work")
  <2>1. at \in Nat /\ at >= runs[r].until /\ at >= clock + RunningLease
    BY <1>2, LeaseEnds DEF Later, Run
  <2>2. runs' = [runs EXCEPT ![r] = doc]
    BY <1>6, TypedRuns DEF LeasedDoc, TypeInv
  <2>3. h.job = j /\ h.since = clock /\ h.stage = "work"
    BY DEF Handler
  <2> HIDE DEF at, h
  <2>4. /\ doc \in Run /\ doc.status = runs[r].status /\ doc.until = at
        /\ doc.kids = runs[r].kids
    BY <1>2, <2>1, LeasedDocIs
  <2>5. Truthful(doc)
    BY <1>2, <2>1, TruthfulLeased
  <2> HIDE DEF doc
  <2>6. HandlersOf(r)' = HandlersOf(r) \cup {h} /\ JobsOf(r)' = JobsOf(r) \ {j}
    BY <1>1, <1>6, <2>3 DEF HandlersOf, JobsOf, h
  <2>7. (\A q \in RunIds \ {r} : Spared(q)) /\ EnqueuersOf(r)' = EnqueuersOf(r)
    BY <1>1, <1>3, <1>6, <2>3, QueueSpares DEF h
  <2>8. Custody(doc, JobsOf(r) \ {j}, HandlersOf(r) \cup {h}, EnqueuersOf(r), TwiceOf(r), clock)
    BY <1>1, <1>2, <1>3, <1>6, <2>1, <2>3, <2>4, CustodyClaimed DEF MayClaim
  <2> QED
    BY <1>3, <2>2, <2>4, <2>5, <2>6, <2>7, <2>8, DocUpdated, RunStep
<1> QED
  BY <1>1, <1>4, <1>5, <1>6 DEF StartChild

\* A handler is gone; its job is back, another attempt waits, or neither.
LEMMA BackCustody ==
    ASSUME NEW run, NEW J, NEW H, NEW E, NEW D, NEW now, Custody(run, J, H, E, D, now),
           NEW h \in H, NEW I, \A i \in I : i.subject = h.job.subject,
           \A i, j \in I : i = j
    PROVE  Custody(run, J \cup I, H \ {h}, E, D, now)
<1>1. CASE I = {}
  <2>1. J \cup I = J
    BY <1>1
  <2> QED
    BY <2>1, CustodyLost
<1>2. CASE I # {}
  <2>1. PICK i \in I : I = {i}
    BY <1>2
  <2> QED
    BY <2>1, CustodyBack
<1> QED
  BY <1>1, <1>2

\* The tokens after a handler returns.
LEMMA ReturnedTokens ==
    ASSUME TypeInv, NEW h \in handlers, NEW r, r = h.job.run, UNCHANGED ticks,
           NEW next, \A i \in next : i.run = r /\ i.subject = h.job.subject,
           \A i, j \in next : i = j, NEW cost, Returned(h, next, cost)
    PROVE  \E I : /\ \A i \in I : i.subject = h.job.subject
                  /\ \A i, j \in I : i = j
                  /\ JobsOf(r)' = JobsOf(r) \cup I /\ HandlersOf(r)' = HandlersOf(r) \ {h}
                  /\ EnqueuersOf(r)' = EnqueuersOf(r)
                  /\ \A q \in RunIds \ {r} : Spared(q)
<1>1. PICK I \in {next, {h.job}, {}} : jobs' = jobs \cup I /\ handlers' = handlers \ {h}
  BY DEF Returned
<1>2. /\ \A i \in I : i.run = r /\ i.subject = h.job.subject
      /\ \A i, j \in I : i = j
  BY <1>1
<1>3. JobsOf(r)' = JobsOf(r) \cup I /\ HandlersOf(r)' = HandlersOf(r) \ {h}
  BY <1>1, <1>2 DEF JobsOf, HandlersOf
<1>4. (\A q \in RunIds \ {r} : Spared(q)) /\ EnqueuersOf(r)' = EnqueuersOf(r)
  BY <1>1, <1>2, QueueSpares
<1> QED
  BY <1>2, <1>3, <1>4

\* The handler of the run itself ends the run.
LEMMA FinishKeeps ==
    ASSUME TypeInv, WorkInv, NEW h \in handlers, h.job.subject = Whole, h.stage # "enqueue",
           NEW ok \in BOOLEAN, NEW cost, FinishAndReturn(h, ok, cost), UNCHANGED <<ticks, clock, twice>>
    PROVE  WorkInv'
<1>1. PICK r \in RunIds : r = h.job.run /\ h \in HandlersOf(r)
  BY HeldBy
<1>2. /\ runs[r] \in Run /\ Truthful(runs[r]) /\ clock \in Nat
      /\ Custody(runs[r], JobsOf(r), HandlersOf(r), EnqueuersOf(r), TwiceOf(r), clock)
  BY Parts
<1>3. PICK c : Returned(h, {}, c)
  BY DEF FinishAndReturn
<1>4. PICK I : /\ \A i \in I : i.subject = h.job.subject
               /\ \A i, j \in I : i = j
               /\ JobsOf(r)' = JobsOf(r) \cup I /\ HandlersOf(r)' = HandlersOf(r) \ {h}
               /\ EnqueuersOf(r)' = EnqueuersOf(r)
               /\ \A q \in RunIds \ {r} : Spared(q)
  <2>1. /\ \A i \in {} : i.run = r /\ i.subject = h.job.subject
        /\ \A i, j \in {} : i = j
        /\ r = h.job.run /\ UNCHANGED ticks
    BY <1>1
  <2> QED
    BY <1>1, <1>3, <2>1, ReturnedTokens, Zenon
<1>5. Custody(runs[r], JobsOf(r)', HandlersOf(r)', EnqueuersOf(r)', TwiceOf(r), clock)
  <2>1. Custody(runs[r], JobsOf(r) \cup I, HandlersOf(r) \ {h}, EnqueuersOf(r), TwiceOf(r), clock)
    BY <1>1, <1>2, <1>4, BackCustody, Zenon
  <2> QED
    BY <1>4, <2>1
<1>6. /\ HandlersOf(r)' = {} /\ runs[r].kids = NoKids
      /\ runs[r].status \in {"running", "abandoned", "dropped"}
  BY <1>1, <1>2, <1>4, CustodyWholeEnds
<1>7. CASE ToDoc(r, runs[r])
  BY <1>2, <1>4, <1>5, <1>7, RunStep
<1>8. CASE runs[r].status \in Live /\ ToDoc(r, EndedDoc(runs[r], Outcome(ok), clock))
  <2> DEFINE doc == EndedDoc(runs[r], Outcome(ok), clock)
  <2>1. Outcome(ok) \in Ended
    BY OutcomeEnds
  <2>2. AllWell(runs[r].kids)
    BY <1>6, NoKidsIs
  <2>3. doc \in Run /\ doc.status \in Ended /\ Truthful(doc)
    BY <1>2, <1>8, <2>1, <2>2, EndedDocIs, TruthfulEnded
  <2>4. doc.status # "queued"
    BY <2>3 DEF Ended
  <2> HIDE DEF doc
  <2>5. Custody(doc, JobsOf(r)', HandlersOf(r)', EnqueuersOf(r)', TwiceOf(r), clock)
    BY <1>5, <1>6, <2>4, CustodyIdle
  <2> QED
    BY <1>4, <1>8, <2>3, <2>5, RunStep DEF doc
<1> QED
  BY <1>1, <1>7, <1>8, DocFinished, DocSame DEF FinishAndReturn

LEMMA runTaskJobKeeps ==
    ASSUME TypeInv, WorkInv, NEW h \in handlers, runTaskJob(h)
    PROVE  WorkInv'
<1>1. h.job.subject = Whole /\ h.stage # "enqueue" /\ UNCHANGED <<ticks, clock, twice>>
  BY DEF runTaskJob
<1>2. PICK ok \in BOOLEAN : FinishAndReturn(h, ok, 0)
  BY DEF runTaskJob
<1> QED
  BY <1>1, <1>2, FinishKeeps

\* A handler at a stage of the expansion is the run's own.
LEMMA Expanding ==
    ASSUME TypeInv, WorkInv, NEW h \in handlers, h.stage # "work"
    PROVE  h.job.subject = Whole
<1>1. PICK r \in RunIds : r = h.job.run /\ h \in HandlersOf(r)
  BY HeldBy
<1>2. Custody(runs[r], JobsOf(r), HandlersOf(r), EnqueuersOf(r), TwiceOf(r), clock)
  BY Parts
<1> QED
  BY <1>1, <1>2 DEF Custody, Children

LEMMA SelectKeeps ==
    ASSUME TypeInv, WorkInv, NEW h \in handlers, Select(h)
    PROVE  WorkInv'
<1>1. h.stage = "select" /\ h.job.subject = Whole /\ UNCHANGED <<ticks, clock, twice>>
  BY Expanding DEF Select
<1>2. CASE FinishAndReturn(h, FALSE, 1)
  BY <1>1, <1>2, FinishKeeps
<1>3. CASE ~FinishAndReturn(h, FALSE, 1)
  <2>1. PICK r \in RunIds : r = h.job.run /\ h \in HandlersOf(r)
    BY HeldBy
  <2>2. /\ runs[r] \in Run /\ Truthful(runs[r])
        /\ Custody(runs[r], JobsOf(r), HandlersOf(r), EnqueuersOf(r), TwiceOf(r), clock)
    BY Parts
  <2> DEFINE todo == Subject \ SucceededSubjects(runs[h.job.run].occurrence)
             g == [h EXCEPT !.stage = "expect", !.todo = todo]
  <2>3. handlers' = (handlers \ {h}) \cup {g} /\ UNCHANGED <<runs, jobs>>
    BY <1>3 DEF Select
  <2> HIDE DEF todo
  <2>4. g.job = h.job /\ g.since = h.since /\ g.stage = "expect"
    BY StillQueue DEF HandlerOK, Handlers
  <2> HIDE DEF g
  <2>5. /\ JobsOf(r)' = JobsOf(r) /\ HandlersOf(r)' = (HandlersOf(r) \ {h}) \cup {g}
        /\ EnqueuersOf(r)' = EnqueuersOf(r)
        /\ \A q \in RunIds \ {r} : Spared(q)
    <3>1. (\A x \in {g} : x.job = h.job) /\ UNCHANGED ticks /\ UNCHANGED jobs
      BY <1>1, <2>3, <2>4
    <3> QED
      BY <2>1, <2>3, <3>1 DEF JobsOf, HandlersOf, EnqueuersOf, Spared
  <2>6. Custody(runs[r], JobsOf(r), (HandlersOf(r) \ {h}) \cup {g}, EnqueuersOf(r), TwiceOf(r), clock)
    BY <1>1, <2>1, <2>2, <2>4, CustodySelected
  <2> QED
    BY <1>1, <2>2, <2>3, <2>5, <2>6, DocSame, RunStep
<1> QED
  BY <1>2, <1>3

LEMMA ExpectKeeps ==
    ASSUME TypeInv, WorkInv, NEW h \in handlers, ExpectChildren(h)
    PROVE  WorkInv'
<1>1. h.stage = "expect" /\ h.job.subject = Whole /\ UNCHANGED <<ticks, clock, twice>>
  BY Expanding DEF ExpectChildren
<1>2. CASE FinishAndReturn(h, TRUE, 0) \/ FinishAndReturn(h, FALSE, 0) \/ FinishAndReturn(h, FALSE, 1)
  BY <1>1, <1>2, FinishKeeps
<1>3. PICK r \in RunIds : r = h.job.run /\ h \in HandlersOf(r)
  BY HeldBy
<1>4. CASE /\ h.todo # {} /\ runs[r].status # "dropped"
           /\ runs' = Expecting(r, h.todo)
           /\ handlers' = (handlers \ {h}) \cup {[h EXCEPT !.stage = "enqueue"]}
           /\ UNCHANGED jobs
  <2>1. /\ runs[r] \in Run /\ Truthful(runs[r])
        /\ Custody(runs[r], JobsOf(r), HandlersOf(r), EnqueuersOf(r), TwiceOf(r), clock)
    BY Parts
  <2> DEFINE kids == [s \in Subject |-> IF s \in h.todo THEN "pending" ELSE NoKids[s]]
             doc == ExpectingDoc(runs[r], Cardinality(h.todo), kids)
             g == [h EXCEPT !.stage = "enqueue"]
  <2>2. h.todo \in SUBSET Subject
    BY StillQueue DEF HandlerOK, Handlers
  <2>3. g.job = h.job /\ g.since = h.since /\ g.stage = "enqueue" /\ g.todo = h.todo
    BY StillQueue DEF HandlerOK, Handlers
  <2>4. runs[r].kids = NoKids /\ runs[r].status \in {"running", "abandoned"}
    BY <1>1, <1>3, <1>4, <2>1 DEF Custody, Alone
  <2>5. /\ Cardinality(h.todo) \in Nat /\ kids \in [Subject -> Kid] /\ Truthful(doc)
        /\ \A s \in h.todo : kids[s] = "pending" /\ s # Whole
    BY <2>1, <2>2, <2>4, TruthfulExpecting, SchedulerAssumption
  <2>6. runs' = [runs EXCEPT ![r] = doc]
    <3>1. runs \in [RunIds -> Run]
      BY TypedRuns DEF TypeInv
    <3>2. kids = [s \in Subject |-> IF s \in h.todo THEN "pending" ELSE runs[r].kids[s]]
      BY <2>4
    <3> HIDE DEF kids
    <3>3. runs' = [runs EXCEPT ![r].children = Cardinality(h.todo), ![r].kids = kids]
      BY <1>4, <3>1, <3>2 DEF Expecting, Run
    <3> QED
      BY <3>1, <3>3 DEF ExpectingDoc
  <2>7. /\ doc \in Run /\ doc.status = runs[r].status /\ doc.until = runs[r].until
        /\ doc.kids = kids
    BY <2>1, <2>5, ExpectingDocIs
  <2> HIDE DEF doc, kids, g
  <2>8. Custody(doc, JobsOf(r), (HandlersOf(r) \ {h}) \cup {g}, EnqueuersOf(r), TwiceOf(r), clock)
    BY <1>1, <1>3, <1>4, <2>1, <2>3, <2>5, <2>7, CustodyExpected
  <2>9. handlers' = (handlers \ {h}) \cup {g}
    BY <1>4 DEF g
  <2>10. /\ JobsOf(r)' = JobsOf(r) /\ HandlersOf(r)' = (HandlersOf(r) \ {h}) \cup {g}
         /\ EnqueuersOf(r)' = EnqueuersOf(r)
         /\ \A q \in RunIds \ {r} : Spared(q)
    <3>1. (\A x \in {g} : x.job = h.job) /\ UNCHANGED ticks /\ UNCHANGED jobs
      BY <1>1, <1>4, <2>3
    <3> QED
      BY <1>3, <2>9, <3>1 DEF JobsOf, HandlersOf, EnqueuersOf, Spared
  <2> QED
    BY <1>1, <2>5, <2>6, <2>7, <2>8, <2>10, DocUpdated, RunStep
<1> QED
  BY <1>2, <1>3, <1>4 DEF ExpectChildren, Expecting

LEMMA EnqueueChildKeeps ==
    ASSUME TypeInv, WorkInv, NEW h \in handlers, NEW s \in Subject, EnqueueChild(h, s)
    PROVE  WorkInv'
<1>1. /\ h.stage = "enqueue" /\ s \in h.todo /\ h.job.subject = Whole
      /\ UNCHANGED ticks /\ UNCHANGED clock /\ UNCHANGED twice
  BY Expanding DEF EnqueueChild
<1>2. PICK r \in RunIds : r = h.job.run /\ h \in HandlersOf(r)
  BY HeldBy
<1>3. /\ runs[r] \in Run /\ Truthful(runs[r]) /\ clock \in Nat
      /\ Custody(runs[r], JobsOf(r), HandlersOf(r), EnqueuersOf(r), TwiceOf(r), clock)
      /\ HandlersOf(r) \in SUBSET Handlers
  BY Parts
<1> DEFINE g == [h EXCEPT !.todo = h.todo \ {s}]
           left == IF g.todo = {} THEN {} ELSE {g}
           G == (HandlersOf(r) \ {h}) \cup left
<1>4. /\ g.job = h.job /\ g.since = h.since /\ g.stage = "enqueue" /\ g.todo = h.todo \ {s}
      /\ handlers' = (handlers \ {h}) \cup left
  BY <1>1, StillQueue DEF HandlerOK, Handlers, EnqueueChild
<1> HIDE DEF g
<1>5. HandedOn(HandlersOf(r), h, s, g, G)
  BY <1>1, <1>2, <1>4 DEF HandedOn
<1>6. /\ \A x \in left : x.job = h.job
      /\ HandlersOf(r)' = G
  BY <1>2, <1>4 DEF HandlersOf
<1>7. G \in SUBSET Handlers
  <2>1. g \in Handlers
    BY <1>1, StillQueue DEF HandlerOK, Handlers, g
  <2>2. G \subseteq HandlersOf(r) \cup {g}
    OBVIOUS
  <2> HIDE DEF left, G
  <2> QED
    BY <1>3, <2>1, <2>2
<1> HIDE DEF left, G
<1>8. /\ Custody(runs[r], JobsOf(r), G, EnqueuersOf(r), TwiceOf(r), clock)
       /\ Untouched(s, JobsOf(r), G, TwiceOf(r)) /\ EnqueuersOf(r) = {} /\ runs[r].status # "queued"
       /\ \A k \in G : k.job.subject = Whole => k.stage = "enqueue"
  <2>1. Held(runs[r], JobsOf(r), G, EnqueuersOf(r), TwiceOf(r), clock, s)
    BY <1>3, <1>5, CustodyGiven
  <2> QED
    BY <2>1 DEF Held
<1>9. CASE jobs' = jobs \cup {Job(r, s, 1)} /\ UNCHANGED runs
  <2> DEFINE i == Job(r, s, 1)
  <2>1. i.run = r /\ i.subject = s
    BY DEF Job
  <2> HIDE DEF i
  <2>2. /\ JobsOf(r)' = JobsOf(r) \cup {i} /\ EnqueuersOf(r)' = {}
        /\ \A q \in RunIds \ {r} : Spared(q)
    BY <1>1, <1>2, <1>4, <1>8, <1>6, <1>9, <2>1 DEF JobsOf, HandlersOf, EnqueuersOf, Spared, i
  <2>3. Custody(runs[r], JobsOf(r) \cup {i}, G, {}, TwiceOf(r), clock)
    BY <1>8, <2>1, CustodyAdded
  <2> QED
    BY <1>1, <1>3, <1>6, <1>9, <2>2, <2>3, DocSame, RunStep
<1>10. CASE settleChild(r, s, FALSE, 1) /\ UNCHANGED jobs
  <2>1. /\ JobsOf(r)' = JobsOf(r) /\ EnqueuersOf(r)' = {}
        /\ \A q \in RunIds \ {r} : Spared(q)
    BY <1>1, <1>2, <1>4, <1>8, <1>6, <1>10 DEF JobsOf, HandlersOf, EnqueuersOf, Spared
  <2>2. CASE ToDoc(r, runs[r])
    BY <1>1, <1>3, <1>8, <1>6, <2>1, <2>2, RunStep
  <2>3. ASSUME NEW doc, Settling(r, s, doc), ToDoc(r, doc)
        PROVE  WorkInv'
    <3>1. Custody(doc, JobsOf(r), G, {}, TwiceOf(r), clock)
      BY <1>3, <1>8, <1>7, <2>3, CustodySettled DEF Settling
    <3>2. doc \in Run /\ Truthful(doc)
      BY <2>3 DEF Settling
    <3> QED
      BY <1>1, <1>6, <2>1, <2>3, <3>1, <3>2, RunStep
  <2> QED
    BY <1>10, <2>2, <2>3, DocSettled
<1> QED
  BY <1>2, <1>9, <1>10 DEF EnqueueChild

LEMMA runChildJobKeeps ==
    ASSUME TypeInv, WorkInv, NEW h \in handlers, NEW s \in Subject, runChildJob(h, s)
    PROVE  WorkInv'
<1>1. /\ h.stage = "work" /\ h.job.subject = s /\ s # Whole
      /\ UNCHANGED ticks /\ UNCHANGED clock /\ UNCHANGED twice
  BY SchedulerAssumption DEF runChildJob
<1>2. PICK r \in RunIds : r = h.job.run /\ h \in HandlersOf(r)
  BY HeldBy
<1>3. /\ runs[r] \in Run /\ Truthful(runs[r]) /\ clock \in Nat
      /\ Custody(runs[r], JobsOf(r), HandlersOf(r), EnqueuersOf(r), TwiceOf(r), clock)
      /\ HandlersOf(r) \in SUBSET Handlers
  BY Parts
<1>4. CASE Returned(h, Again(h.job), 0) /\ UNCHANGED runs
  <2>1. /\ \A i \in Again(h.job) : i.run = r /\ i.subject = h.job.subject
        /\ \A i, j \in Again(h.job) : i = j
    BY <1>2, AgainType, StillQueue DEF Again
  <2>2. PICK I : /\ \A i \in I : i.subject = h.job.subject
                 /\ \A i, j \in I : i = j
                 /\ JobsOf(r)' = JobsOf(r) \cup I /\ HandlersOf(r)' = HandlersOf(r) \ {h}
                 /\ EnqueuersOf(r)' = EnqueuersOf(r)
                 /\ \A q \in RunIds \ {r} : Spared(q)
    BY <1>1, <1>2, <1>4, <2>1, ReturnedTokens
  <2>3. Custody(runs[r], JobsOf(r) \cup I, HandlersOf(r) \ {h}, EnqueuersOf(r), TwiceOf(r), clock)
    BY <1>2, <1>3, <2>2, BackCustody, Zenon
  <2> QED
    BY <1>1, <1>3, <1>4, <2>2, <2>3, DocSame, RunStep
<1>5. ASSUME NEW ok \in BOOLEAN, NEW cost, settleChild(r, s, ok, cost),
             handlers' = handlers \ {h}, UNCHANGED jobs \/ jobs' = jobs \cup {h.job}
      PROVE  WorkInv'
  <2> DEFINE G == HandlersOf(r) \ {h}
  <2>1. /\ Custody(runs[r], JobsOf(r), G, EnqueuersOf(r), TwiceOf(r), clock)
        /\ Untouched(s, JobsOf(r), G, TwiceOf(r)) /\ EnqueuersOf(r) = {} /\ runs[r].status # "queued"
        /\ \A k \in G : k.job.subject = Whole => k.stage = "enqueue"
    BY <1>1, <1>2, <1>3, CustodyChildEnds
  <2>2. G \in SUBSET Handlers
    BY <1>3
  <2>3. HandlersOf(r)' = G
    BY <1>5 DEF HandlersOf
  <2> HIDE DEF G
  <2>4. /\ JobsOf(r)' = JobsOf(r) \/ JobsOf(r)' = JobsOf(r) \cup {h.job}
        /\ EnqueuersOf(r)' = {}
        /\ \A q \in RunIds \ {r} : Spared(q)
    BY <1>1, <1>2, <1>5, <2>1 DEF JobsOf, HandlersOf, EnqueuersOf, Spared
  <2>5. ASSUME NEW doc \in Run, Truthful(doc), ToDoc(r, doc), doc.status # "queued",
               Custody(doc, JobsOf(r), G, {}, TwiceOf(r), clock)
        PROVE  WorkInv'
    <3>1. Custody(doc, JobsOf(r) \cup {h.job}, G, {}, TwiceOf(r), clock)
      BY <1>1, <2>1, <2>5, CustodyAdded
    <3>2. Custody(doc, JobsOf(r)', HandlersOf(r)', EnqueuersOf(r)', TwiceOf(r), clock)
      BY <2>3, <2>4, <2>5, <3>1
    <3> QED
      BY <1>1, <2>4, <2>5, <3>2, RunStep
  <2>6. CASE ToDoc(r, runs[r])
    BY <1>3, <2>1, <2>5, <2>6
  <2>7. ASSUME NEW doc, Settling(r, s, doc), ToDoc(r, doc)
        PROVE  WorkInv'
    <3>1. Custody(doc, JobsOf(r), G, {}, TwiceOf(r), clock)
      BY <1>3, <2>1, <2>2, <2>7, CustodySettled DEF Settling
    <3>2. doc \in Run /\ Truthful(doc) /\ doc.status # "queued"
      BY <2>1, <2>7 DEF Settling, Ended
    <3> QED
      BY <2>5, <2>7, <3>1, <3>2
  <2> QED
    BY <1>5, <2>6, <2>7, DocSettled
<1> QED
  BY <1>2, <1>4, <1>5 DEF runChildJob

LEMMA QueueLossKeeps ==
    ASSUME TypeInv, WorkInv, \/ \E h \in handlers : HandlerDies(h)
                             \/ \E j \in jobs : JobLost(j)
                             \/ TimePasses
    PROVE  WorkInv'
<1>1. CASE (\E j \in jobs : JobLost(j)) \/ TimePasses
  <2>1. \A q \in RunIds : Spared(q)
    BY <1>1 DEF JobLost, TimePasses, Spared, JobsOf, HandlersOf, EnqueuersOf
  <2>2. clock' \in {clock, clock + 1} /\ UNCHANGED runs /\ UNCHANGED twice
    BY <1>1 DEF JobLost, TimePasses
  <2> QED
    BY <2>1, <2>2, QuietStep DEF MayDrop
<1>2. ASSUME NEW h \in handlers, HandlerDies(h)
      PROVE  WorkInv'
  <2>1. PICK r \in RunIds : r = h.job.run /\ h \in HandlersOf(r)
    BY HeldBy
  <2>2. /\ runs[r] \in Run /\ Truthful(runs[r]) /\ clock \in Nat
        /\ Custody(runs[r], JobsOf(r), HandlersOf(r), EnqueuersOf(r), TwiceOf(r), clock)
    BY Parts
  <2>3. PICK I \in {{}, {h.job}} : jobs' = jobs \cup I
    BY <1>2 DEF HandlerDies
  <2>4. /\ JobsOf(r)' = JobsOf(r) \cup I /\ HandlersOf(r)' = HandlersOf(r) \ {h}
        /\ EnqueuersOf(r)' = EnqueuersOf(r)
        /\ \A q \in RunIds \ {r} : Spared(q)
        /\ UNCHANGED clock /\ UNCHANGED runs /\ UNCHANGED twice
    BY <1>2, <2>1, <2>3 DEF HandlerDies, JobsOf, HandlersOf, EnqueuersOf, Spared
  <2>5. Custody(runs[r], JobsOf(r) \cup I, HandlersOf(r) \ {h}, EnqueuersOf(r), TwiceOf(r), clock)
    BY <2>1, <2>2, <2>3, BackCustody
  <2> QED
    BY <2>2, <2>4, <2>5, DocSame, RunStep
<1> QED
  BY <1>1, <1>2

LEMMA LetGoKeeps ==
    ASSUME TypeInv, WorkInv, NEW h \in handlers,
           NEW next, \A i \in next : i.run = h.job.run /\ i.subject = h.job.subject,
           LetGo(h, next)
    PROVE  WorkInv'
<1>1. PICK r \in RunIds : r = h.job.run /\ h \in HandlersOf(r)
  BY HeldBy
<1>2. /\ runs[r] \in Run /\ Truthful(runs[r]) /\ clock \in Nat
      /\ Custody(runs[r], JobsOf(r), HandlersOf(r), EnqueuersOf(r), TwiceOf(r), clock)
  BY Parts
<1> DEFINE g == [h EXCEPT !.detached = TRUE]
<1>3. g.job = h.job /\ g.since = h.since /\ g.stage = h.stage /\ g.todo = h.todo
  BY StillQueue DEF HandlerOK, Handlers
<1>4. /\ handlers' = (handlers \ {h}) \cup {g} /\ jobs' = jobs \cup next
      /\ UNCHANGED runs /\ UNCHANGED ticks /\ UNCHANGED clock
      /\ twice' = twice \cup {j.run : j \in {j \in next : j.subject # Whole}}
  BY DEF LetGo
<1> HIDE DEF g
<1>5. /\ JobsOf(r)' = JobsOf(r) \cup next
      /\ HandlersOf(r)' = (HandlersOf(r) \ {h}) \cup {g}
      /\ EnqueuersOf(r)' = EnqueuersOf(r)
  BY <1>1, <1>3, <1>4 DEF JobsOf, HandlersOf, EnqueuersOf
<1>6. /\ TwiceOf(r) = {} \/ TwiceOf(r)' # {}
      /\ next = {} \/ h.job.subject = Whole \/ TwiceOf(r)' # {}
  BY <1>1, <1>4 DEF TwiceOf
<1>7. \A q \in RunIds \ {r} : Spared(q) /\ TwiceOf(q)' = TwiceOf(q)
  BY <1>1, <1>3, <1>4 DEF Spared, JobsOf, HandlersOf, EnqueuersOf, TwiceOf
<1>8. Custody(runs[r], JobsOf(r)', HandlersOf(r)', EnqueuersOf(r)', TwiceOf(r)', clock)
  <2>1. Custody(runs[r], JobsOf(r) \cup next, (HandlersOf(r) \ {h}) \cup {g}, EnqueuersOf(r),
                TwiceOf(r)', clock)
    BY <1>1, <1>2, <1>3, <1>6, CustodyLetGo
  <2> QED
    BY <1>5, <2>1
<1> QED
  BY <1>2, <1>4, <1>7, <1>8, DocSame, RunStepTwice

LEMMA WorkStep ==
    ASSUME TypeInv, WorkInv, [Next]_vars
    PROVE  WorkInv'
<1>1. CASE UNCHANGED vars
  BY <1>1, QuietStep DEF vars, MayDrop, Spared, JobsOf, HandlersOf, EnqueuersOf
<1>2. ASSUME NEW n \in Node, Tick(n) \/ TickDies(n)
      PROVE  WorkInv'
  BY <1>2, ReapKeeps, TickKeeps, CreateKeeps, EnqueueKeeps DEF Tick
<1>3. ASSUME NEW j \in jobs, Deliver(j) \/ JobLost(j)
      PROVE  WorkInv'
  BY <1>3, BeginKeeps, StartChildKeeps, QueueLossKeeps DEF Deliver
<1>4. ASSUME NEW h \in handlers, Work(h) \/ HandlerDies(h)
      PROVE  WorkInv'
  BY <1>4, runTaskJobKeeps, SelectKeeps, ExpectKeeps, EnqueueChildKeeps, runChildJobKeeps,
     QueueLossKeeps DEF Work
<1>5. CASE TimePasses
  BY <1>5, QueueLossKeeps
<1>6. ASSUME NEW h \in handlers, GiveUp(h) \/ SessionLost(h)
      PROVE  WorkInv'
  <2>1. PICK next \in {{}, Again(h.job), {h.job}} : LetGo(h, next)
    BY <1>6 DEF GiveUp, SessionLost
  <2>2. JobOK(h.job)
    BY StillQueue
  <2>3. \A i \in Again(h.job) : i.run = h.job.run /\ i.subject = h.job.subject
    BY <2>2, AgainType
  <2> QED
    BY <2>1, <2>3, LetGoKeeps
<1> QED
  BY <1>1, <1>2, <1>3, <1>4, <1>5, <1>6 DEF Next

-----------------------------------------------------------------------------
(* The theorems. *)

\* Every run is in order custody and its document true, always.
LEMMA WorkAlways == Safe => [](TypeInv /\ WorkInv /\ OneActiveRun)
<1>1. Init => TypeInv /\ WorkInv /\ OneActiveRun
  BY InitType DEF Init, WorkInv, RunIds, OneActiveRun, ActiveRuns
<1>2. TypeInv /\ WorkInv /\ OneActiveRun /\ [Next]_vars
        => TypeInv' /\ WorkInv' /\ OneActiveRun'
  BY EveryStep, WorkStep, OneActiveRunStep DEF GoodStep
<1> QED
  BY <1>1, <1>2, PTL DEF Safe

\* What custody gives to a handler that keeps to its timeout.
LEMMA InTimeRuns ==
    ASSUME TypeInv, WorkInv
    PROVE  WorkersOwnTheirRun
<1> SUFFICES ASSUME NEW h \in handlers, OnTime(h, clock)
             PROVE  /\ runs[h.job.run].status # "abandoned"
                    /\ runs[h.job.run].status = "running" \/ h.job.run \in twice
  BY DEF WorkersOwnTheirRun
<1>1. PICK r \in RunIds : r = h.job.run /\ h \in HandlersOf(r)
  BY HeldBy
<1>2. Custody(runs[r], JobsOf(r), HandlersOf(r), EnqueuersOf(r), TwiceOf(r), clock)
  BY Parts
<1> QED
  BY <1>1, <1>2 DEF Custody, InTime, OnTime, TwiceOf

\* While a handler that keeps to its timeout executes a run or one of its
\* subjects, the run is not abandoned: the reaper spares it, since its lease is
\* longer than the timeout, whatever is delivered beside a handler that the queue
\* has let go.  And the run goes on: no settled subject, redelivered job or failed
\* queueing ends it, unless a subject of it was given out twice.
THEOREM WorkersOwnTheirRuns == Safe => []WorkersOwnTheirRun
<1>1. TypeInv /\ WorkInv => WorkersOwnTheirRun
  BY InTimeRuns
<1> QED
  BY <1>1, WorkAlways, PTL

\* A run's script, or its expansion, has one handler at most, whatever the queue
\* does.  No two handlers that keep to their timeout execute the same subject, nor
\* those of two runs, where none was given out twice: the runs they work on are
\* both running, so they are one, and every piece of work has one token.
THEOREM NeverOverlap == Safe => []NoOverlap
<1>1. ASSUME TypeInv, WorkInv, OneActiveRun
      PROVE  NoOverlap
  <2> SUFFICES ASSUME NEW h \in handlers, NEW k \in handlers
               PROVE  /\ (/\ h.job.run = k.job.run
                          /\ h.job.subject = Whole /\ k.job.subject = Whole) => h = k
                      /\ (/\ OnTime(h, clock) /\ OnTime(k, clock)
                          /\ {h.job.run, k.job.run} \cap twice = {})
                         => /\ h.job.run = k.job.run
                            /\ h.job.subject = k.job.subject => h = k
    BY DEF NoOverlap
  <2>1. ASSUME h.job.run = k.job.run
        PROVE  \E r \in RunIds : /\ r = h.job.run /\ h \in HandlersOf(r) /\ k \in HandlersOf(r)
                                 /\ OneToken(JobsOf(r), HandlersOf(r), EnqueuersOf(r), TwiceOf(r))
    BY <1>1, <2>1, HeldBy, Parts DEF Custody
  <2>2. ASSUME h.job.run = k.job.run, h.job.subject = Whole, k.job.subject = Whole
        PROVE  h = k
    BY <2>1, <2>2 DEF OneToken
  <2>3. ASSUME OnTime(h, clock), OnTime(k, clock), {h.job.run, k.job.run} \cap twice = {}
        PROVE  /\ h.job.run = k.job.run
               /\ h.job.subject = k.job.subject => h = k
    <3>1. h.job.run \in ActiveRuns /\ k.job.run \in ActiveRuns
      BY <1>1, <2>3, InTimeRuns, HeldBy DEF WorkersOwnTheirRun, ActiveRuns, Live
    <3>2. h.job.run = k.job.run
      BY <1>1, <3>1 DEF OneActiveRun
    <3>3. TwiceOf(h.job.run) = {}
      BY <2>3 DEF TwiceOf
    <3> QED
      BY <2>1, <3>2, <3>3 DEF OneToken
  <2> QED
    BY <2>2, <2>3
<1>2. TypeInv /\ WorkInv /\ OneActiveRun => NoOverlap
  BY <1>1
<1> QED
  BY <1>2, WorkAlways, PTL

\* A for_each run never claims more than happened: its counters stay behind the
\* subjects' keys, and it succeeds only if every subject did.
THEOREM RunsAreTruthful == Safe => []RunsEndTruthfully
<1>1. ASSUME TypeInv, WorkInv
      PROVE  RunsEndTruthfully
  <2> SUFFICES ASSUME NEW r \in RunIds, runs[r].status # "dropped"
               PROVE  /\ runs[r].settled <= Cardinality(Settled(r))
                      /\ runs[r].children = Cardinality(Expected(r))
                      /\ runs[r].status = "succeeded" =>
                           \A s \in Expected(r) : runs[r].kids[s] = "succeeded"
    BY DEF RunsEndTruthfully
  <2>1. Truthful(runs[r])
    BY <1>1, Parts
  <2>2. Settled(r) = SettledIn(runs[r].kids) /\ Expected(r) = ExpectedIn(runs[r].kids)
    BY DEF Settled, SettledIn, Expected, ExpectedIn
  <2> QED
    BY <2>1, <2>2 DEF Truthful, Counts, AllWell, ExpectedIn
<1>2. TypeInv /\ WorkInv => RunsEndTruthfully
  BY <1>1
<1> QED
  BY <1>2, WorkAlways, PTL

=============================================================================
