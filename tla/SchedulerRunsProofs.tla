------------------------ MODULE SchedulerRunsProofs ------------------------
(***************************************************************************)
(* Theorems about SchedulerRuns, for every value of its constants: any     *)
(* number of schedulers, subjects, runs and faults.  What a step can do to *)
(* the runs and the task's record is first brought to one form (RunsStep). *)
(***************************************************************************)
EXTENDS SchedulerRuns, FiniteSetTheorems, TLAPS

\* Every job, handler and enqueuing tick names a run.
Refs ==
    /\ \A j \in jobs : j.run \in RunIds
    /\ \A h \in handlers : h.job.run \in RunIds
    /\ \A n \in Node : ticks[n].stage = "enqueue" => ticks[n].version \in RunIds

TypeInv == TypeOK /\ Refs

-----------------------------------------------------------------------------
(* The operators. *)

LEMMA TypedRuns ==
    ASSUME TypeOK
    PROVE  /\ Len(runs) \in Nat /\ RunIds = 1 .. Len(runs)
           /\ runs \in [RunIds -> Run] /\ DOMAIN runs = RunIds
BY DEF TypeOK, RunIds

LEMMA Constants ==
    /\ {DayLength, Interval, KeepEndedRuns} \subseteq Nat \ {0}
    /\ {QueuedLease, RunningLease, PruneAge, MaxRetryDelay} \subseteq Nat
    /\ PruneAge >= 2 * DayLength
BY SchedulerAssumption

LEMMA FunctionIsSeq ==
    ASSUME NEW S, NEW n \in Nat, NEW f \in [1 .. n -> S]
    PROVE  f \in Seq(S) /\ Len(f) = n
OBVIOUS

LEMMA DelayType ==
    ASSUME NEW failures \in Nat \ {0}
    PROVE  retryDelay(failures) \in Nat
<1>1. CASE failures > MaxLadderSteps
  BY <1>1, SchedulerAssumption DEF retryDelay
<1>2. CASE ~ failures > MaxLadderSteps
  <2>1. failures - 1 \in 0 .. MaxLadderSteps
    BY <1>2, SchedulerAssumption
  <2>2. BaseRetryDelay * 2 ^ (failures - 1) \in Nat
    BY <2>1, SchedulerAssumption
  <2> QED
    BY <1>2, <2>2, SchedulerAssumption DEF retryDelay
<1> QED
  BY <1>1, <1>2

\* A record with one more failure, to be retried at d.
Climbed(ts, d, at) ==
    [ts EXCEPT !.failures = @ + 1, !.nextRetry = d, !.version = @ + 1, !.touched = at]

LEMMA ClimbedType ==
    ASSUME NEW ts \in Record, NEW d \in Nat, NEW at \in Nat
    PROVE  /\ Climbed(ts, d, at) \in Record
           /\ Climbed(ts, d, at).lastRun = ts.lastRun
           /\ Climbed(ts, d, at).version = ts.version + 1
<1>1. \A f, v \in Nat : [ts EXCEPT !.failures = f, !.nextRetry = d,
                                   !.version = v, !.touched = at] \in Record
  BY DEF Record
<1>2. ts.failures + 1 \in Nat /\ ts.version + 1 \in Nat
  BY DEF Record
<1> QED
  BY <1>1, <1>2 DEF Climbed, Record

\* The three ends of ApplyOutcome.
LEMMA OutcomeType ==
    ASSUME NEW ts \in Record, NEW start \in Nat, NEW ok \in BOOLEAN, NEW at \in Nat
    PROVE  /\ ApplyOutcome(ts, start, ok, at) \in Record
           /\ LET new == ApplyOutcome(ts, start, ok, at) IN
              \/ new = ts /\ (ok => start <= ts.lastRun)
              \/ /\ ok /\ new.lastRun = start /\ start > ts.lastRun
                 /\ new.nextRetry = 0 /\ new.version = ts.version + 1
              \/ /\ ~ok /\ new.lastRun = ts.lastRun /\ start >= ts.lastRun
                 /\ new.version = ts.version + 1
<1>1. CASE ok /\ ts.lastRun < start
  BY <1>1 DEF ApplyOutcome, Record
<1>2. CASE ~ok /\ ts.lastRun <= start
  <2> DEFINE d == at + retryDelay(ts.failures + 1)
  <2>1. d \in Nat
    BY DelayType DEF Record
  <2>2. ApplyOutcome(ts, start, ok, at) = Climbed(ts, d, at)
    BY <1>2 DEF ApplyOutcome, Climbed
  <2> HIDE DEF d
  <2>3. /\ Climbed(ts, d, at) \in Record
        /\ Climbed(ts, d, at).lastRun = ts.lastRun
        /\ Climbed(ts, d, at).version = ts.version + 1
    BY <2>1, ClimbedType
  <2> QED
    BY <1>2, <2>2, <2>3
<1>3. CASE ~(ok /\ ts.lastRun < start) /\ ~(~ok /\ ts.lastRun <= start)
  BY <1>3 DEF ApplyOutcome, Record
<1> QED
  BY <1>1, <1>2, <1>3

\* What Trimmed does to a run: nothing, or it drops one that has ended.
Dropped(run) == [run EXCEPT !.status = "dropped", !.kids = NoKids]

LEMMA DroppedType ==
    ASSUME NEW run \in Run
    PROVE  /\ Dropped(run) \in Run
           /\ Dropped(run).created = run.created /\ Dropped(run).occurrence = run.occurrence
           /\ Dropped(run).status = "dropped" /\ Dropped(run).kids = NoKids
BY DEF Dropped, Run, NoKids, Kid

LEMMA TrimmedShape ==
    ASSUME NEW n \in Nat, NEW rs \in [1 .. n -> Run]
    PROVE  /\ Trimmed(rs) \in [1 .. n -> Run]
           /\ \A r \in 1 .. n : \/ Trimmed(rs)[r] = rs[r]
                                \/ rs[r].status \in Ended /\ Trimmed(rs)[r] = Dropped(rs[r])
<1>1. \A r \in 1 .. n : \/ Trimmed(rs)[r] = rs[r]
                        \/ rs[r].status \in Ended /\ Trimmed(rs)[r] = Dropped(rs[r])
  BY DEF Trimmed, Dropped
<1>2. Trimmed(rs) = [r \in 1 .. n |-> Trimmed(rs)[r]]
  BY DEF Trimmed
<1> QED
  BY <1>1, <1>2, DroppedType

-----------------------------------------------------------------------------
(* One form for every step. *)

\* A run keeps its start and its occurrence, and its status only moves on.
Follows(new, old) ==
    /\ new.created = old.created /\ new.occurrence = old.occurrence
    /\ \/ new.status = old.status
       \/ old.status = "queued" /\ new.status = "running"
       \/ old.status \in Live /\ new.status \in Ended \cup {"dropped"}
       \/ old.status \in Ended /\ new.status = "dropped"

\* Runs that this step ends well.
NewlySucceeded(r) == runs'[r].status = "succeeded" /\ runs[r].status # "succeeded"

\* The record stands; it is stamped by a success; it climbs for a failure; it is
\* dropped with every run that has ended.
Stands == task' = task /\ \A r \in RunIds : NewlySucceeded(r) => runs[r].created <= task.lastRun
Stamped ==
    /\ task'.nextRetry = 0 /\ task'.lastRun > task.lastRun /\ task'.version = task.version + 1
    /\ \A r \in RunIds : NewlySucceeded(r) => runs[r].created <= task'.lastRun
Climbs ==
    /\ task'.lastRun = task.lastRun /\ task'.version = task.version + 1
    /\ \A r \in RunIds : ~NewlySucceeded(r)
    /\ \E r \in RunIds : /\ runs'[r].status \in {"failed", "abandoned", "dropped"}
                         /\ runs[r].created >= task.lastRun
Forgotten ==
    /\ task' = NoRecord /\ ActiveRuns = {}
    /\ \A r \in RunIds : runs'[r].status \notin Ended
    /\ outdated' = {n \in Node : ticks[n].stage = "create"}

\* The steps on the runs there are, and the one that adds a run.
OldRuns ==
    /\ Len(runs') = Len(runs)
    /\ \A r \in RunIds : Follows(runs'[r], runs[r])
    /\ Stands \/ Stamped \/ Climbs \/ Forgotten
NewRunStep ==
    \E n \in Node :
        /\ ticks[n].stage = "create" /\ ticks'[n].stage = "enqueue"
        /\ ticks'[n].version = Len(runs) + 1
        /\ MayCreate(ticks[n].version) /\ Room(ticks[n].now)
        /\ runs' = Append(runs, NewRun(ticks[n].now)) /\ task' = task

RunsStep == OldRuns \/ NewRunStep

\* A run ends.  rs are the runs, with a settled subject or not.
Like(rs) ==
    /\ rs \in [RunIds -> Run]
    /\ \A r \in RunIds : /\ rs[r].status = runs[r].status /\ rs[r].created = runs[r].created
                         /\ rs[r].occurrence = runs[r].occurrence

\* The runs rs with the end of r written in its document.
Closed(rs, r, status, at) == [rs EXCEPT ![r].status = status, ![r].until = at]

LEMMA ClosedForm ==
    ASSUME NEW n \in Nat, NEW rs \in [1 .. n -> Run], NEW r \in 1 .. n,
           NEW status \in Ended, NEW at \in Nat,
           NEW es, es = Closed(rs, r, status, at)
    PROVE  /\ es \in [1 .. n -> Run]
           /\ \A q \in 1 .. n : /\ es[q].created = rs[q].created
                               /\ es[q].occurrence = rs[q].occurrence
                               /\ es[q].status = IF q = r THEN status ELSE rs[q].status
<1> DEFINE run == [rs[r] EXCEPT !.status = status, !.until = at]
<1>1. rs[r] \in Run
  OBVIOUS
<1>2. /\ run \in Run /\ run.status = status
      /\ run.created = rs[r].created /\ run.occurrence = rs[r].occurrence
  BY <1>1 DEF Run
<1>3. es = [rs EXCEPT ![r] = run]
  BY <1>1 DEF Run, Closed
<1> HIDE DEF run
<1>4. \A q \in 1 .. n : es[q] = IF q = r THEN run ELSE rs[q]
  BY <1>3
<1>5. es \in [1 .. n -> Run]
  BY <1>2, <1>3
<1> QED
  BY <1>2, <1>4, <1>5

LEMMA EndStep ==
    ASSUME TypeInv, NEW rs, Like(rs), NEW r \in RunIds, rs[r].status \in Live,
           NEW status \in Ended, NEW ok \in BOOLEAN, ok <=> status = "succeeded",
           End(rs, r, status, ok, clock)
    PROVE  /\ OldRuns
           /\ runs' \in Seq(Run) /\ task' \in Record
           /\ runs'[r].status \in {status, "dropped"}
<1> DEFINE es == Closed(rs, r, status, clock)
<1>1. Len(runs) \in Nat /\ RunIds = 1 .. Len(runs)
  BY TypedRuns DEF TypeInv
<1>2. es \in [1 .. Len(runs) -> Run]
  <2>1. rs \in [1 .. Len(runs) -> Run] /\ r \in 1 .. Len(runs) /\ clock \in Nat
    BY <1>1 DEF Like, TypeInv, TypeOK
  <2>2. es = Closed(rs, r, status, clock)
    OBVIOUS
  <2> HIDE DEF es
  <2> QED
    BY <1>1, <2>1, <2>2, ClosedForm
<1>3. /\ \A q \in RunIds : /\ es[q].created = runs[q].created
                           /\ es[q].occurrence = runs[q].occurrence
                           /\ es[q].status = IF q = r THEN status ELSE runs[q].status
      /\ runs[r].status \in Live
  <2>1. rs \in [1 .. Len(runs) -> Run] /\ r \in 1 .. Len(runs) /\ clock \in Nat
    BY <1>1 DEF Like, TypeInv, TypeOK
  <2>2. es = Closed(rs, r, status, clock)
    OBVIOUS
  <2> HIDE DEF es
  <2>3. \A q \in 1 .. Len(runs) : /\ es[q].created = rs[q].created
                                 /\ es[q].occurrence = rs[q].occurrence
                                 /\ es[q].status = IF q = r THEN status ELSE rs[q].status
    BY <1>1, <2>1, <2>2, ClosedForm, SMTT(30)
  <2> QED
    BY <1>1, <2>3 DEF Like
<1>4. runs' = Trimmed(es) /\ task' = ApplyOutcome(task, runs[r].created, ok, clock)
  BY DEF End, Like, Closed
<1> HIDE DEF es
<1>5. /\ Trimmed(es) \in [1 .. Len(runs) -> Run]
      /\ \A q \in RunIds : \/ Trimmed(es)[q] = es[q]
                           \/ es[q].status \in Ended /\ Trimmed(es)[q] = Dropped(es[q])
  BY <1>1, <1>2, TrimmedShape
<1>6. runs' \in Seq(Run) /\ Len(runs') = Len(runs)
  BY <1>1, <1>4, <1>5, FunctionIsSeq
<1>7. \A q \in RunIds : \/ runs'[q] = es[q]
                        \/ /\ es[q].status \in Ended
                           /\ runs'[q].created = es[q].created
                           /\ runs'[q].occurrence = es[q].occurrence
                           /\ runs'[q].status = "dropped"
  BY <1>1, <1>2, <1>4, <1>5, DroppedType
<1>8. \A q \in RunIds : Follows(runs'[q], runs[q])
  BY <1>3, <1>7 DEF Follows, Live, Ended
<1>9. runs'[r].status \in {status, "dropped"}
  BY <1>3, <1>7
<1>10. \A q \in RunIds : NewlySucceeded(q) => q = r /\ ok
  BY <1>3, <1>7 DEF NewlySucceeded
<1>11. task \in Record /\ runs[r].created \in Nat /\ clock \in Nat
  BY TypedRuns DEF TypeInv, TypeOK, Run
<1>12. task' \in Record
  BY <1>4, <1>11, OutcomeType
<1>13. Stands \/ Stamped \/ Climbs
  <2>1. \/ task' = task /\ (ok => runs[r].created <= task.lastRun)
        \/ /\ ok /\ task'.lastRun = runs[r].created /\ runs[r].created > task.lastRun
           /\ task'.nextRetry = 0 /\ task'.version = task.version + 1
        \/ /\ ~ok /\ task'.lastRun = task.lastRun /\ runs[r].created >= task.lastRun
           /\ task'.version = task.version + 1
    BY <1>4, <1>11, OutcomeType, SMTT(30)
  <2>2. ~ok => runs'[r].status \in {"failed", "abandoned", "dropped"}
    BY <1>9 DEF Ended
  <2>3. runs[r].created <= runs[r].created
    BY <1>11
  <2> QED
    BY <1>10, <2>1, <2>2, <2>3 DEF Stands, Stamped, Climbs
<1> QED
  BY <1>6, <1>8, <1>9, <1>12, <1>13 DEF OldRuns

\* The step is one on the old runs, and well typed.
Sound == OldRuns /\ runs' \in Seq(Run) /\ task' \in Record

LEMMA LikeStep ==
    ASSUME TypeInv, NEW rs, Like(rs), runs' = rs, task' = task
    PROVE  Sound
<1>1. Len(runs) \in Nat /\ RunIds = 1 .. Len(runs) /\ task \in Record
  BY TypedRuns DEF TypeInv, TypeOK
<1>2. runs' \in Seq(Run) /\ Len(runs') = Len(runs)
  BY <1>1, FunctionIsSeq DEF Like
<1>3. \A r \in RunIds : Follows(runs'[r], runs[r]) /\ ~NewlySucceeded(r)
  BY DEF Like, Follows, NewlySucceeded
<1> QED
  BY <1>1, <1>2, <1>3 DEF Sound, OldRuns, Stands

LEMMA StillStep ==
    ASSUME TypeInv, UNCHANGED <<runs, task>>
    PROVE  Sound
BY LikeStep, TypedRuns DEF Like, TypeInv

LEMMA FinishStep ==
    ASSUME TypeInv, NEW r \in RunIds, NEW ok \in BOOLEAN, FinishRun(r, ok)
    PROVE  Sound
<1>1. CASE runs[r].status \in Live
  <2>1. End(runs, r, Outcome(ok), ok, clock)
    BY <1>1 DEF FinishRun, Live, Ended
  <2>2. Like(runs)
    BY TypedRuns DEF Like, TypeInv
  <2>3. Outcome(ok) \in Ended /\ (ok <=> Outcome(ok) = "succeeded")
    BY DEF Outcome, Ended
  <2> QED
    BY <1>1, <2>1, <2>2, <2>3, EndStep DEF Sound
<1>2. CASE runs[r].status = "abandoned" /\ ok
  <2>1. task' = ApplyOutcome(task, runs[r].created, TRUE, clock) /\ runs' = runs
    BY <1>2 DEF FinishRun, Live
  <2>2. task \in Record /\ runs[r].created \in Nat /\ clock \in Nat /\ runs \in Seq(Run)
    BY TypedRuns DEF TypeInv, TypeOK, Run
  <2>3. \A q \in RunIds : Follows(runs'[q], runs[q]) /\ ~NewlySucceeded(q)
    BY <2>1 DEF Follows, NewlySucceeded
  <2>4. task' \in Record /\ (Stands \/ Stamped)
    BY <2>1, <2>2, <2>3, OutcomeType DEF Stands, Stamped
  <2> QED
    BY <2>1, <2>2, <2>3, <2>4 DEF Sound, OldRuns
<1>3. CASE ~(runs[r].status \in Live) /\ ~(runs[r].status = "abandoned" /\ ok)
  BY <1>3, StillStep DEF FinishRun
<1> QED
  BY <1>1, <1>2, <1>3

\* The key of a settled subject.
LEMMA SettleKeyLike ==
    ASSUME TypeInv, NEW r \in RunIds, NEW s \in Subject, NEW ok \in BOOLEAN
    PROVE  Like(SettleKey(r, s, ok))
<1> DEFINE key == [runs[r] EXCEPT !.kids[s] = Outcome(ok)]
<1>1. Outcome(ok) \in Kid
  BY DEF Outcome, Kid
<1>2. runs \in [RunIds -> Run] /\ runs[r] \in Run
  BY TypedRuns DEF TypeInv
<1>3. /\ key \in Run /\ key.status = runs[r].status /\ key.created = runs[r].created
      /\ key.occurrence = runs[r].occurrence
  BY <1>1, <1>2 DEF Run
<1>4. SettleKey(r, s, ok) = [runs EXCEPT ![r] = key]
  BY DEF SettleKey
<1> HIDE DEF key
<1> QED
  BY <1>2, <1>3, <1>4 DEF Like

\* The document after it, before the run may end.
Counted(r, s, ok) ==
    [SettleKey(r, s, ok) EXCEPT ![r].settled = @ + 1, ![r].failed = IF ok THEN @ ELSE @ + 1]

LEMMA CountedLike ==
    ASSUME TypeInv, NEW r \in RunIds, NEW s \in Subject, NEW ok \in BOOLEAN
    PROVE  Like(Counted(r, s, ok))
<1> DEFINE ks == SettleKey(r, s, ok)
<1>1. Like(ks)
  BY SettleKeyLike
<1> HIDE DEF ks
<1>2. \A a, b \in Nat : Like([ks EXCEPT ![r].settled = a, ![r].failed = b])
  <2> SUFFICES ASSUME NEW a \in Nat, NEW b \in Nat
             PROVE  Like([ks EXCEPT ![r].settled = a, ![r].failed = b])
    OBVIOUS
  <2>1. ks \in [RunIds -> Run] /\ ks[r] \in Run
    BY <1>1 DEF Like
  <2> DEFINE run == [ks[r] EXCEPT !.settled = a, !.failed = b]
  <2>2. /\ run \in Run /\ run.status = ks[r].status /\ run.created = ks[r].created
        /\ run.occurrence = ks[r].occurrence
    BY <2>1 DEF Run
  <2>3. [ks EXCEPT ![r].settled = a, ![r].failed = b] = [ks EXCEPT ![r] = run]
    BY <2>1
  <2> HIDE DEF run
  <2> QED
    BY <1>1, <2>2, <2>3 DEF Like
<1> DEFINE b == IF ok THEN ks[r].failed ELSE ks[r].failed + 1
<1>3. ks[r].settled + 1 \in Nat /\ b \in Nat
  BY <1>1 DEF Like, Run
<1>4. Counted(r, s, ok) = [ks EXCEPT ![r].settled = ks[r].settled + 1, ![r].failed = b]
  BY <1>1 DEF Counted, ks, Like, Run
<1> HIDE DEF b
<1> QED
  BY <1>2, <1>3, <1>4

LEMMA SettleStep ==
    ASSUME TypeInv, NEW r \in RunIds, NEW s \in Subject, NEW ok \in BOOLEAN,
           SettleChild(r, s, ok)
    PROVE  Sound
<1>1. CASE runs[r].kids[s] # "pending"
  BY <1>1, StillStep DEF SettleChild
<1>2. CASE runs[r].kids[s] = "pending"
  <2> DEFINE rs == Counted(r, s, ok)
             well == rs[r].failed = 0
  <2>1. Like(rs)
    BY CountedLike
  <2>2. IF rs[r].settled = rs[r].children /\ rs[r].status \in Live
          THEN End(rs, r, Outcome(well), well, clock)
          ELSE runs' = rs /\ UNCHANGED task
    BY <1>2 DEF SettleChild, Counted
  <2>3. Outcome(well) \in Ended /\ (well <=> Outcome(well) = "succeeded")
    BY DEF Outcome, Ended
  <2> HIDE DEF rs
  <2> QED
    BY <2>1, <2>2, <2>3, EndStep, LikeStep DEF Sound
<1> QED
  BY <1>1, <1>2

LEMMA settleChildStep ==
    ASSUME TypeInv, NEW r \in RunIds, NEW s \in Subject, NEW ok \in BOOLEAN,
           NEW cost \in Nat, settleChild(r, s, ok, cost)
    PROVE  Sound /\ delivered' \subseteq Nat \X Subject /\ faults' \in Nat
<1>1. runs[r].occurrence \in Nat /\ faults \in Nat /\ delivered \subseteq Nat \X Subject
  BY TypedRuns DEF TypeInv, TypeOK, Run
<1>2. faults' \in Nat /\ delivered' \subseteq Nat \X Subject
  BY <1>1 DEF settleChild, SettleChild, Spend
<1>3. CASE SettleChild(r, s, ok)
  BY <1>2, <1>3, SettleStep
<1>4. CASE UNCHANGED <<runs, task>>
  BY <1>2, <1>4, StillStep
<1>5. CASE runs' = SettleKey(r, s, ok) /\ UNCHANGED task
  BY <1>2, <1>5, SettleKeyLike, LikeStep
<1> QED
  BY <1>3, <1>4, <1>5 DEF settleChild


-----------------------------------------------------------------------------
(* Every step is sound and keeps the types. *)

JobOK(j) == j \in Jobs /\ j.run \in RunIds
HandlerOK(h) == h \in Handlers /\ h.job.run \in RunIds
TickOK(k) == k \in Ticks /\ (k.stage = "enqueue" => k.version \in RunIds)

\* The other variables after a step that adds no run.
QueueOK ==
    /\ \A j \in jobs' : JobOK(j)
    /\ \A h \in handlers' : HandlerOK(h)
RestOK ==
    /\ forEach' = forEach /\ clock' \in Nat /\ faults' \in Nat
    /\ twice' \subseteq Nat /\ delivered' \subseteq Nat \X Subject /\ outdated' \subseteq Node
    /\ ticks' \in [Node -> Ticks] /\ \A n \in Node : TickOK(ticks'[n])

\* A tick about to create a run has just decided that, or remembers it.
Remembered(n) == ticks'[n] = ticks[n] /\ (n \in outdated => n \in outdated')
Decided(n) ==
    /\ task' = task /\ ticks'[n].version = task.version
    /\ dueReason(task, ticks'[n].now)
TicksStep == \A n \in Node : ticks'[n].stage = "create" => Remembered(n) \/ Decided(n)

GoodStep == TypeInv' /\ RunsStep /\ TicksStep /\ forEach' = forEach

LEMMA Assemble ==
    ASSUME TypeInv, Sound, QueueOK, RestOK, TicksStep
    PROVE  GoodStep
<1>1. RunIds' = RunIds
  BY DEF Sound, OldRuns, RunIds
<1> QED
  BY <1>1 DEF GoodStep, RunsStep, TypeInv, TypeOK, Refs, Sound, QueueOK, RestOK, JobOK,
              HandlerOK, TickOK

LEMMA StillQueue ==
    ASSUME TypeInv
    PROVE  /\ \A j \in jobs : JobOK(j)
           /\ \A h \in handlers : HandlerOK(h) /\ JobOK(h.job)
           /\ \A n \in Node : TickOK(ticks[n])
           /\ forEach \in BOOLEAN /\ clock \in Nat /\ faults \in Nat
           /\ twice \subseteq Nat /\ delivered \subseteq Nat \X Subject /\ outdated \subseteq Node
           /\ ticks \in [Node -> Ticks] /\ task \in Record
BY DEF TypeInv, TypeOK, Refs, JobOK, HandlerOK, TickOK, Handlers

\* Steps that leave the schedulers alone.
LEMMA HandlerStep ==
    ASSUME TypeInv, Sound, QueueOK, UNCHANGED <<forEach, ticks, outdated>>,
           clock' \in Nat, faults' \in Nat, twice' \subseteq Nat,
           delivered' \subseteq Nat \X Subject
    PROVE  GoodStep
BY Assemble, StillQueue DEF RestOK, TicksStep, Remembered

LEMMA JobType ==
    ASSUME NEW r \in RunIds, TypeInv, NEW s \in Subject \cup {Whole}
    PROVE  JobOK(Job(r, s, 1))
BY TypedRuns DEF JobOK, Job, Jobs, TypeInv

LEMMA AgainType ==
    ASSUME NEW j, JobOK(j)
    PROVE  \A i \in Again(j) : JobOK(i) /\ i.run = j.run /\ i.subject = j.subject
<1>1. \A a \in Nat : LET i == [j EXCEPT !.attempt = a] IN
        i \in Jobs /\ i.run = j.run /\ i.subject = j.subject
  BY DEF JobOK, Jobs
<1>2. j.attempt + 1 \in Nat
  BY DEF JobOK, Jobs
<1> QED
  BY <1>1, <1>2 DEF Again, JobOK

LEMMA ReturnedType ==
    ASSUME TypeInv, NEW h \in handlers, NEW next, \A j \in next : JobOK(j),
           NEW cost \in Nat, Returned(h, next, cost)
    PROVE  QueueOK /\ faults' \in Nat
BY StillQueue DEF Returned, QueueOK, Spend

-----------------------------------------------------------------------------

LEMMA finishStep ==
    ASSUME TypeInv, NEW r \in RunIds, NEW ok \in BOOLEAN, NEW cost \in Nat,
           finish(r, ok, cost)
    PROVE  Sound /\ faults' \in Nat
BY FinishStep, StillStep, StillQueue DEF finish, Spend

LEMMA FinishAndReturnStep ==
    ASSUME TypeInv, NEW h \in handlers, NEW ok \in BOOLEAN, NEW cost \in Nat,
           FinishAndReturn(h, ok, cost)
    PROVE  Sound /\ QueueOK /\ faults' \in Nat
<1>1. h.job.run \in RunIds /\ 1 \in Nat
  BY StillQueue DEF HandlerOK
<1>2. CASE FinishRun(h.job.run, ok) /\ Returned(h, {}, cost)
  BY <1>1, <1>2, FinishStep, ReturnedType
<1>3. CASE UNCHANGED <<runs, task>> /\ Returned(h, {}, 1)
  BY <1>1, <1>3, StillStep, ReturnedType
<1> QED
  BY <1>2, <1>3 DEF FinishAndReturn

\* A scheduler's tick moves on.
Loading(now) == [Idle EXCEPT !.stage = "load", !.now = now]
Creating(k, v) == [k EXCEPT !.stage = "create", !.version = v]
Enqueuing(k, v) == [k EXCEPT !.stage = "enqueue", !.version = v]

LEMMA TickForms ==
    /\ Idle \in Ticks /\ Idle.stage = "idle"
    /\ Pruning \in Ticks /\ Pruning.stage = "prune"
    /\ \A now \in Nat : Loading(now) \in Ticks /\ Loading(now).stage = "load"
    /\ \A k \in Ticks, v \in Nat :
         /\ Creating(k, v) \in Ticks /\ Creating(k, v).stage = "create"
         /\ Creating(k, v).now = k.now /\ Creating(k, v).version = v
         /\ Enqueuing(k, v) \in Ticks /\ Enqueuing(k, v).stage = "enqueue"
         /\ Enqueuing(k, v).version = v
BY DEF Ticks, Idle, Pruning, Loading, Creating, Enqueuing

LEMMA EnqueuingForm ==
    ASSUME NEW k \in Ticks, NEW v \in Nat
    PROVE  /\ Enqueuing(k, v) \in Ticks
           /\ Enqueuing(k, v).stage = "enqueue" /\ Enqueuing(k, v).version = v
BY DEF Ticks, Enqueuing

LEMMA TickMoves ==
    ASSUME TypeInv, NEW n \in Node, NEW k \in Ticks, ticks' = [ticks EXCEPT ![n] = k],
           k.stage = "enqueue" => k.version \in RunIds
    PROVE  /\ ticks' \in [Node -> Ticks] /\ \A m \in Node : TickOK(ticks'[m])
           /\ ticks'[n] = k /\ \A m \in Node \ {n} : ticks'[m] = ticks[m]
BY StillQueue DEF TickOK

LEMMA Spent ==
    ASSUME TypeInv
    PROVE  \A cost \in Nat : Spend(cost) \/ UNCHANGED faults => faults' \in Nat
BY DEF TypeInv, TypeOK, Spend

LEMMA ReapStep ==
    ASSUME TypeInv, NEW n \in Node, Reap(n)
    PROVE  GoodStep
<1>0. CASE UNCHANGED vars
  BY <1>0, StillStep, StillQueue, HandlerStep DEF vars, QueueOK
<1> SUFFICES ASSUME ~UNCHANGED vars
             PROVE  GoodStep
  BY <1>0
<1>m. /\ ticks' = [ticks EXCEPT ![n] = [Idle EXCEPT !.stage = "load", !.now = clock]]
      /\ \/ Expired = {} /\ UNCHANGED <<runs, task, faults>>
         \/ \E r \in Expired : UNCHANGED faults /\ End(runs, r, "abandoned", FALSE, clock)
         \/ Spend(1) /\ UNCHANGED <<runs, task>>
      /\ UNCHANGED <<forEach, jobs, handlers, clock, twice, delivered, outdated>>
  BY DEF Reap, vars
<1>1. Sound
  <2>1. CASE UNCHANGED <<runs, task>>
    BY <2>1, StillStep
  <2>2. CASE \E r \in Expired : End(runs, r, "abandoned", FALSE, clock)
    <3>1. PICK r \in Expired : End(runs, r, "abandoned", FALSE, clock)
      BY <2>2
    <3>2. r \in RunIds /\ runs[r].status \in Live
      BY DEF Expired, ActiveRuns
    <3>3. Like(runs)
      BY TypedRuns DEF TypeInv, Like
    <3>4. "abandoned" \in Ended /\ "abandoned" # "succeeded"
      BY DEF Ended
    <3> QED
      BY <3>1, <3>2, <3>3, <3>4, EndStep DEF Sound
  <2> QED
    BY <1>m, <2>1, <2>2
<1> DEFINE load == Loading(clock)
<1>a. load \in Ticks /\ load.stage = "load" /\ ticks' = [ticks EXCEPT ![n] = load]
  BY <1>m, TickForms, StillQueue DEF Loading
<1> HIDE DEF load
<1>b. /\ ticks' \in [Node -> Ticks] /\ \A m \in Node : TickOK(ticks'[m])
      /\ ticks'[n] = load /\ \A m \in Node \ {n} : ticks'[m] = ticks[m]
  BY <1>a, TickMoves
<1>2. RestOK
  BY <1>m, <1>b, Spent, StillQueue DEF RestOK
<1>3. TicksStep
  BY <1>m, <1>a, <1>b DEF TicksStep, Remembered
<1>4. QueueOK
  BY <1>m, StillQueue DEF QueueOK
<1> QED
  BY <1>1, <1>2, <1>3, <1>4, Assemble

LEMMA LoadStep ==
    ASSUME TypeInv, NEW n \in Node, Load(n)
    PROVE  GoodStep
<1>1. Sound
  BY StillStep DEF Load
<1> DEFINE create == Creating(ticks[n], task.version)
<1>a. /\ create \in Ticks /\ create.stage = "create" /\ create.now = ticks[n].now
      /\ create.version = task.version
      /\ Idle \in Ticks /\ Idle.stage = "idle" /\ Pruning \in Ticks /\ Pruning.stage = "prune"
  <2>1. ticks[n] \in Ticks /\ task.version \in Nat
    BY StillQueue DEF Record
  <2> QED
    BY <2>1, TickForms, ZenonT(30)
<1>b. \/ ticks' = [ticks EXCEPT ![n] = create] /\ dueReason(task, ticks[n].now)
      \/ ticks' = [ticks EXCEPT ![n] = Idle]
      \/ ticks' = [ticks EXCEPT ![n] = Pruning]
  BY DEF Load, Creating
<1> HIDE DEF create
<1>c. /\ ticks' \in [Node -> Ticks] /\ \A m \in Node : TickOK(ticks'[m])
      /\ \/ ticks'[n] = create /\ dueReason(task, create.now)
         \/ ticks'[n].stage # "create"
      /\ \A m \in Node \ {n} : ticks'[m] = ticks[m]
  BY <1>a, <1>b, TickMoves
<1>2. RestOK
  BY <1>c, Spent, StillQueue DEF Load, RestOK
<1>3. TicksStep
  BY <1>a, <1>c DEF Load, TicksStep, Remembered, Decided
<1>4. QueueOK
  BY StillQueue DEF Load, QueueOK
<1> QED
  BY <1>1, <1>2, <1>3, <1>4, Assemble

LEMMA NewRunType ==
    ASSUME TypeInv, NEW now \in Nat
    PROVE  NewRun(now) \in Run
<1>1. now + QueuedLease \in Nat /\ (IF forEach THEN Occurrence(now) ELSE 0) \in Nat
  BY SchedulerAssumption DEF Occurrence
<1>2. NoKids \in [Subject -> Kid]
  BY DEF NoKids, Kid
<1> QED
  BY <1>1, <1>2 DEF NewRun, Run, Live

LEMMA CreateRunStep ==
    ASSUME TypeInv, NEW n \in Node, CreateRun(n)
    PROVE  GoodStep
<1> DEFINE k == ticks[n]
           enqueue == Enqueuing(k, Len(runs) + 1)
<1>1. k \in Ticks /\ k.now \in Nat /\ Len(runs) \in Nat /\ RunIds = 1 .. Len(runs)
  BY StillQueue, TypedRuns DEF TypeInv, Ticks
<1>a. /\ enqueue \in Ticks /\ enqueue.stage = "enqueue" /\ enqueue.version = Len(runs) + 1
      /\ Pruning \in Ticks /\ Pruning.stage = "prune"
  <2>1. Len(runs) + 1 \in Nat
    BY <1>1
  <2>2. /\ enqueue \in Ticks /\ enqueue.stage = "enqueue"
        /\ enqueue.version = Len(runs) + 1
    BY <1>1, <2>1, EnqueuingForm
  <2> QED
    BY <2>2, TickForms
<1>b. /\ ticks' = [ticks EXCEPT ![n] = enqueue] \/ ticks' = [ticks EXCEPT ![n] = Pruning]
      /\ outdated' = outdated \ {n}
  BY DEF CreateRun, Enqueuing
<1> HIDE DEF enqueue
<1>c. /\ ticks' \in [Node -> Ticks] /\ ticks'[n] \in {enqueue, Pruning}
      /\ \A m \in Node \ {n} : ticks'[m] = ticks[m]
  BY <1>a, <1>b, StillQueue
<1>2. TicksStep
  BY <1>a, <1>b, <1>c DEF TicksStep, Remembered
<1>3. QueueOK
  BY StillQueue DEF CreateRun, QueueOK
<1>4. CASE UNCHANGED runs /\ ticks' = [ticks EXCEPT ![n] = Pruning] /\ (UNCHANGED faults \/ Spend(1))
  <2>1. Sound
    BY <1>4, StillStep DEF CreateRun
  <2>2. RestOK
    BY <1>4, <1>a, Spent, TickMoves, StillQueue DEF CreateRun, RestOK
  <2> QED
    BY <1>2, <1>3, <2>1, <2>2, Assemble
<1>5. CASE /\ MayCreate(k.version) /\ Room(k.now)
           /\ runs' = Append(runs, NewRun(k.now))
           /\ ticks' = [ticks EXCEPT ![n] = enqueue]
           /\ UNCHANGED faults
  <2>1. runs' \in Seq(Run) /\ Len(runs') = Len(runs) + 1
    BY <1>1, <1>5, NewRunType DEF TypeInv, TypeOK
  <2>2. RunIds' = 1 .. Len(runs) + 1
    BY <2>1 DEF RunIds
  <2>4. /\ ticks' \in [Node -> Ticks]
        /\ ticks'[n].stage = "enqueue" /\ ticks'[n].version = Len(runs) + 1
        /\ \A m \in Node \ {n} : ticks'[m] = ticks[m]
    BY <1>5, <1>a, <1>c, StillQueue
  <2>5. UNCHANGED <<forEach, task, jobs, handlers, clock, twice, delivered, faults>> /\ outdated' \subseteq Node
    BY <1>5, StillQueue DEF CreateRun
  <2>6. TypeOK'
    BY <2>1, <2>4, <2>5 DEF TypeInv, TypeOK
  <2>7. Refs'
    BY <1>1, <2>2, <2>4, <2>5 DEF TypeInv, Refs
  <2>8. NewRunStep
    BY <1>5, <2>4, <2>5 DEF NewRunStep, CreateRun
  <2> QED
    BY <1>2, <2>5, <2>6, <2>7, <2>8 DEF GoodStep, RunsStep, TypeInv
<1> QED
  BY <1>4, <1>5 DEF CreateRun, enqueue, Enqueuing

LEMMA EnqueueStep ==
    ASSUME TypeInv, NEW n \in Node, Enqueue(n)
    PROVE  GoodStep
<1>1. ticks[n].version \in RunIds
  BY DEF Enqueue, TypeInv, Refs
<1>2. Sound /\ faults' \in Nat
  BY <1>1, finishStep, StillStep, StillQueue DEF Enqueue
<1>3. QueueOK
  BY <1>1, JobType, StillQueue DEF Enqueue, QueueOK
<1>4. RestOK
  BY <1>2, StillQueue DEF Enqueue, RestOK, Idle, Pruning, Ticks, TickOK
<1>5. TicksStep
  BY StillQueue DEF Enqueue, TicksStep, Remembered, Idle, Pruning
<1> QED
  BY <1>2, <1>3, <1>4, <1>5, Assemble

LEMMA PruneStep ==
    ASSUME TypeInv, NEW n \in Node, Prune(n)
    PROVE  GoodStep
<1>1. /\ ticks[n].stage = "prune" /\ ticks' = [ticks EXCEPT ![n] = Idle]
      /\ UNCHANGED <<forEach, jobs, handlers, clock, faults, twice, delivered>>
  BY DEF Prune
<1>2. QueueOK
  BY <1>1, StillQueue DEF QueueOK
<1>3. CASE UNCHANGED <<task, runs, outdated>>
  <2>1. Sound
    BY <1>3, StillStep
  <2>2. RestOK
    BY <1>1, <1>3, StillQueue DEF RestOK, Idle, Ticks, TickOK
  <2>3. TicksStep
    BY <1>1, <1>3, StillQueue DEF TicksStep, Remembered, Idle
  <2> QED
    BY <1>2, <2>1, <2>2, <2>3, Assemble
<1>4. ASSUME NEW gone \in SUBSET RunIds, NEW taskGone \in BOOLEAN,
             \A r \in gone : runs[r].status \in Ended,
             taskGone => ActiveRuns = {} /\ \A r \in RunIds : runs[r].status \in Ended => r \in gone,
             task' = IF taskGone THEN NoRecord ELSE task,
             runs' = [r \in RunIds |-> IF r \in gone THEN Dropped(runs[r]) ELSE runs[r]],
             outdated' = IF taskGone THEN {m \in Node : ticks[m].stage = "create"} ELSE outdated
      PROVE  GoodStep
  <2>1. Len(runs) \in Nat /\ RunIds = 1 .. Len(runs) /\ runs \in [RunIds -> Run]
    BY TypedRuns DEF TypeInv
  <2>2. /\ runs' \in [RunIds -> Run]
        /\ \A r \in RunIds : /\ runs'[r] \in {runs[r], Dropped(runs[r])}
                             /\ r \in gone => runs'[r] = Dropped(runs[r])
                             /\ r \notin gone => runs'[r] = runs[r]
    BY <1>4, <2>1, DroppedType
  <2>3. runs' \in Seq(Run) /\ Len(runs') = Len(runs)
    BY <2>1, <2>2, FunctionIsSeq
  <2>4. \A r \in RunIds : Follows(runs'[r], runs[r]) /\ ~NewlySucceeded(r)
    BY <1>4, <2>1, <2>2, DroppedType DEF Follows, NewlySucceeded
  <2>5. Stands \/ Forgotten
    BY <1>4, <2>1, <2>2, <2>4, DroppedType DEF Stands, Forgotten, Ended
  <2>6. task' \in Record
    BY <1>4, StillQueue DEF NoRecord, Record
  <2>7. Sound
    BY <2>3, <2>4, <2>5, <2>6 DEF Sound, OldRuns
  <2>8. RestOK
    BY <1>1, <1>4, StillQueue DEF RestOK, Idle, Ticks, TickOK
  <2>9. TicksStep
    BY <1>1, <1>4, StillQueue DEF TicksStep, Remembered, Idle
  <2> QED
    BY <1>2, <2>7, <2>8, <2>9, Assemble
<1>5. CASE ~UNCHANGED <<task, runs, outdated>>
  <2> DEFINE old(at) == at + PruneAge < clock
             taskGone == task # NoRecord /\ old(task.touched) /\ ActiveRuns = {}
             gone == {r \in RunIds : runs[r].status \in Ended
                                       /\ (old(runs[r].until) \/ taskGone \/ task = NoRecord)}
  <2>1. /\ task' = IF taskGone THEN NoRecord ELSE task
        /\ runs' = [r \in RunIds |-> IF r \in gone
                      THEN [runs[r] EXCEPT !.status = "dropped", !.kids = NoKids]
                      ELSE runs[r]]
        /\ outdated' = IF taskGone THEN {m \in Node : ticks[m].stage = "create"} ELSE outdated
    BY <1>5 DEF Prune
  <2>2. /\ gone \in SUBSET RunIds /\ taskGone \in BOOLEAN
        /\ \A r \in gone : runs[r].status \in Ended
        /\ taskGone => ActiveRuns = {} /\ \A r \in RunIds : runs[r].status \in Ended => r \in gone
    OBVIOUS
  <2>3. runs' = [r \in RunIds |-> IF r \in gone THEN Dropped(runs[r]) ELSE runs[r]]
    BY <2>1 DEF Dropped
  <2> HIDE DEF gone, taskGone
  <2> QED
    BY <1>4, <2>1, <2>2, <2>3, ZenonT(30)
<1> QED
  BY <1>3, <1>5

LEMMA TickDiesStep ==
    ASSUME TypeInv, NEW n \in Node, TickDies(n)
    PROVE  GoodStep
<1>1. Sound
  BY StillStep DEF TickDies
<1>2. RestOK
  BY StillQueue DEF TickDies, RestOK, Spend, Idle, Ticks, TickOK
<1>3. TicksStep
  BY StillQueue DEF TickDies, TicksStep, Remembered, Idle
<1>4. QueueOK
  BY StillQueue DEF TickDies, QueueOK
<1> QED
  BY <1>1, <1>2, <1>3, <1>4, Assemble


\* A handler that starts.
LEMMA HandlerType ==
    ASSUME TypeInv, NEW j, JobOK(j), NEW stage \in {"work", "select", "expect", "enqueue"}
    PROVE  HandlerOK(Handler(j, stage))
BY StillQueue DEF JobOK, HandlerOK, Handler, Handlers

LEMMA LeaseEnds ==
    ASSUME TypeInv
    PROVE  clock + RunningLease \in Nat
<1>1. clock \in Nat
  BY DEF TypeInv, TypeOK
<1>2. RunningLease \in Nat
  BY Constants
<1> QED
  BY <1>1, <1>2

LEMMA beginRunStep ==
    ASSUME TypeInv, NEW j \in jobs, beginRun(j)
    PROVE  GoodStep
<1>1. JobOK(j) /\ j.run \in RunIds
  BY StillQueue DEF JobOK
<1>2. QueueOK
  BY <1>1, HandlerType, StillQueue DEF beginRun, QueueOK
<1>3. CASE UNCHANGED <<runs, task>>
  BY <1>2, <1>3, StillStep, HandlerStep, StillQueue DEF beginRun, Spend
<1>4. CASE /\ MayStart(j.run) /\ UNCHANGED <<faults, task>>
           /\ runs' = [runs EXCEPT ![j.run].status = "running",
                                   ![j.run].until = clock + RunningLease]
  <2>1. /\ Len(runs) \in Nat /\ RunIds = 1 .. Len(runs) /\ runs \in [RunIds -> Run]
        /\ clock + RunningLease \in Nat
    BY LeaseEnds, TypedRuns DEF TypeInv
  <2> DEFINE run == [runs[j.run] EXCEPT !.status = "running", !.until = clock + RunningLease]
  <2>2. /\ run \in Run /\ run.status = "running" /\ run.created = runs[j.run].created
        /\ run.occurrence = runs[j.run].occurrence
    <3>1. runs[j.run] \in Run /\ "running" \in Live
      BY <1>1, <2>1 DEF Live
    <3> QED
      BY <2>1, <3>1 DEF Run
  <2>3. runs' = [runs EXCEPT ![j.run] = run]
    BY <1>1, <1>4, <2>1
  <2> HIDE DEF run
  <2>4. /\ runs' \in [RunIds -> Run]
        /\ \A r \in RunIds : runs'[r] = IF r = j.run THEN run ELSE runs[r]
    BY <1>1, <2>1, <2>2, <2>3
  <2>5. runs' \in Seq(Run) /\ Len(runs') = Len(runs)
    BY <2>1, <2>4, FunctionIsSeq
  <2>6. \A r \in RunIds : Follows(runs'[r], runs[r]) /\ ~NewlySucceeded(r)
    BY <1>4, <2>2, <2>4 DEF Follows, NewlySucceeded, MayStart
  <2>7. Sound
    BY <1>4, <2>5, <2>6, StillQueue DEF Sound, OldRuns, Stands
  <2> QED
    BY <1>2, <1>4, <2>7, HandlerStep, StillQueue DEF beginRun
<1> QED
  BY <1>3, <1>4 DEF beginRun

LEMMA StartChildStep ==
    ASSUME TypeInv, NEW j \in jobs, StartChild(j)
    PROVE  GoodStep
<1>1. JobOK(j) /\ j.run \in RunIds
  BY StillQueue DEF JobOK
<1>2. QueueOK
  BY <1>1, HandlerType, AgainType, StillQueue DEF StartChild, QueueOK
<1>3. CASE UNCHANGED <<runs, task>>
  BY <1>2, <1>3, StillStep, HandlerStep, StillQueue DEF StartChild, Spend
<1>4. CASE /\ UNCHANGED <<faults, task>>
           /\ runs' = [runs EXCEPT ![j.run].until = Later(@, clock + RunningLease)]
  <2>1. /\ Len(runs) \in Nat /\ RunIds = 1 .. Len(runs) /\ runs \in [RunIds -> Run]
        /\ clock + RunningLease \in Nat /\ runs[j.run] \in Run
    BY <1>1, LeaseEnds, TypedRuns DEF TypeInv
  <2>2. Later(runs[j.run].until, clock + RunningLease) \in Nat
    BY <2>1 DEF Later, Run
  <2>3. \A t \in Nat : Like([runs EXCEPT ![j.run].until = t])
    BY <1>1, <2>1 DEF Like, Run
  <2>4. Like(runs')
    BY <1>4, <2>2, <2>3
  <2>5. Sound
    BY <1>4, <2>4, LikeStep
  <2> QED
    BY <1>2, <1>4, <2>5, HandlerStep, StillQueue DEF StartChild
<1> QED
  BY <1>3, <1>4 DEF StartChild

LEMMA runTaskJobStep ==
    ASSUME TypeInv, NEW h \in handlers, runTaskJob(h)
    PROVE  GoodStep
<1>1. Sound /\ QueueOK /\ faults' \in Nat
  BY FinishAndReturnStep DEF runTaskJob
<1> QED
  BY <1>1, HandlerStep, StillQueue DEF runTaskJob

\* A handler at its next stage.
LEMMA StageType ==
    ASSUME NEW h, HandlerOK(h), NEW stage \in {"work", "select", "expect", "enqueue"},
           NEW todo \in SUBSET Subject
    PROVE  /\ HandlerOK([h EXCEPT !.stage = stage])
           /\ HandlerOK([h EXCEPT !.todo = todo])
           /\ HandlerOK([h EXCEPT !.stage = stage, !.todo = todo])
BY DEF HandlerOK, Handlers

LEMMA SelectStep ==
    ASSUME TypeInv, NEW h \in handlers, Select(h)
    PROVE  GoodStep
<1>1. Sound /\ QueueOK /\ faults' \in Nat
  <2>1. CASE FinishAndReturn(h, FALSE, 1)
    BY <2>1, FinishAndReturnStep
  <2>2. CASE ~FinishAndReturn(h, FALSE, 1)
    <3> DEFINE todo == Subject \ SucceededSubjects(runs[h.job.run].occurrence)
    <3>1. HandlerOK([h EXCEPT !.stage = "expect", !.todo = todo])
      BY StillQueue, StageType
    <3>2. /\ handlers' = (handlers \ {h}) \cup {[h EXCEPT !.stage = "expect", !.todo = todo]}
          /\ UNCHANGED <<runs, task, jobs, faults>>
      BY <2>2 DEF Select
    <3> HIDE DEF todo
    <3> QED
      BY <3>1, <3>2, StillStep, StillQueue DEF QueueOK
  <2> QED
    BY <2>1, <2>2
<1> QED
  BY <1>1, HandlerStep, StillQueue DEF Select

\* The document of a run that learnt its subjects.
Expecting(r, todo) ==
    [runs EXCEPT ![r].children = Cardinality(todo),
                 ![r].kids = [s \in Subject |-> IF s \in todo THEN "pending" ELSE @[s]]]

LEMMA ExpectingLike ==
    ASSUME TypeInv, NEW r \in RunIds, NEW todo \in SUBSET Subject
    PROVE  Like(Expecting(r, todo))
<1>1. runs \in [RunIds -> Run] /\ runs[r] \in Run
  BY TypedRuns DEF TypeInv
<1>2. Cardinality(todo) \in Nat
  BY SchedulerAssumption, FS_Subset, FS_CardinalityType
<1> DEFINE kids == [s \in Subject |-> IF s \in todo THEN "pending" ELSE runs[r].kids[s]]
<1>3. kids \in [Subject -> Kid]
  BY <1>1 DEF Run, Kid
<1>4. Expecting(r, todo) = [runs EXCEPT ![r].children = Cardinality(todo), ![r].kids = kids]
  BY <1>1 DEF Expecting, Run
<1> HIDE DEF kids
<1>5. \A c \in Nat : Like([runs EXCEPT ![r].children = c, ![r].kids = kids])
  BY <1>1, <1>3 DEF Like, Run
<1> QED
  BY <1>2, <1>4, <1>5

LEMMA ExpectChildrenStep ==
    ASSUME TypeInv, NEW h \in handlers, ExpectChildren(h)
    PROVE  GoodStep
<1>1. Sound /\ QueueOK /\ faults' \in Nat
  <2>1. CASE FinishAndReturn(h, FALSE, 1) \/ FinishAndReturn(h, TRUE, 0) \/ FinishAndReturn(h, FALSE, 0)
    BY <2>1, FinishAndReturnStep
  <2>2. CASE /\ runs' = Expecting(h.job.run, h.todo)
             /\ handlers' = (handlers \ {h}) \cup {[h EXCEPT !.stage = "enqueue"]}
             /\ UNCHANGED <<task, jobs, faults>>
    <3>1. h.job.run \in RunIds /\ h.todo \in SUBSET Subject
      BY StillQueue DEF HandlerOK, Handlers
    <3>2. Sound
      BY <2>2, <3>1, ExpectingLike, LikeStep, SMTT(30)
    <3>3. HandlerOK([h EXCEPT !.stage = "enqueue"])
      BY StillQueue, StageType
    <3> QED
      BY <2>2, <3>2, <3>3, StillQueue DEF QueueOK
  <2> QED
    BY <2>1, <2>2 DEF ExpectChildren, Expecting
<1> QED
  BY <1>1, HandlerStep, StillQueue DEF ExpectChildren

LEMMA EnqueueChildStep ==
    ASSUME TypeInv, NEW h \in handlers, NEW s \in Subject, EnqueueChild(h, s)
    PROVE  GoodStep
<1>1. h.job.run \in RunIds /\ h.todo \in SUBSET Subject /\ HandlerOK(h)
  BY StillQueue DEF HandlerOK, Handlers
<1>2. Sound /\ faults' \in Nat /\ delivered' \subseteq Nat \X Subject
  BY <1>1, settleChildStep, StillStep, StillQueue DEF EnqueueChild
<1>3. HandlerOK([h EXCEPT !.todo = h.todo \ {s}])
  BY <1>1, StageType
<1>4. QueueOK
  BY <1>1, <1>3, JobType, StillQueue DEF EnqueueChild, QueueOK
<1> QED
  BY <1>2, <1>4, HandlerStep, StillQueue DEF EnqueueChild

LEMMA runChildJobStep ==
    ASSUME TypeInv, NEW h \in handlers, NEW s \in Subject, runChildJob(h, s)
    PROVE  GoodStep
<1>1. h.job.run \in RunIds /\ HandlerOK(h) /\ JobOK(h.job)
  BY StillQueue DEF HandlerOK
<1>2. /\ Sound /\ QueueOK /\ faults' \in Nat /\ delivered' \subseteq Nat \X Subject
  <2>1. CASE Returned(h, Again(h.job), 0) /\ UNCHANGED <<runs, task, delivered>>
    BY <1>1, <2>1, AgainType, ReturnedType, StillStep, StillQueue
  <2>2. CASE ~(Returned(h, Again(h.job), 0) /\ UNCHANGED <<runs, task, delivered>>)
    <3>1. PICK ok \in BOOLEAN :
            /\ handlers' = handlers \ {h}
            /\ \/ settleChild(h.job.run, s, ok, 0) /\ UNCHANGED jobs
               \/ settleChild(h.job.run, s, ok, 1) /\ jobs' = jobs \cup {h.job}
      BY <2>2 DEF runChildJob
    <3>2. Sound /\ faults' \in Nat /\ delivered' \subseteq Nat \X Subject
      BY <1>1, <3>1, settleChildStep
    <3>3. QueueOK
      BY <1>1, <3>1, StillQueue DEF QueueOK
    <3> QED
      BY <3>2, <3>3
  <2> QED
    BY <2>1, <2>2
<1> QED
  BY <1>2, HandlerStep, StillQueue DEF runChildJob

LEMMA QueueLossStep ==
    ASSUME TypeInv, \/ \E h \in handlers : HandlerDies(h)
                    \/ \E j \in jobs : JobLost(j)
                    \/ TimePasses
    PROVE  GoodStep
<1>1. Sound
  BY StillStep DEF HandlerDies, JobLost, TimePasses
<1>2. QueueOK
  BY StillQueue DEF HandlerDies, JobLost, TimePasses, QueueOK
<1> QED
  BY <1>1, <1>2, HandlerStep, StillQueue DEF HandlerDies, JobLost, TimePasses, Dies, Spend

\* A handler that is let go.
LEMMA DetachedType ==
    ASSUME NEW h, HandlerOK(h)
    PROVE  HandlerOK([h EXCEPT !.detached = TRUE])
BY DEF HandlerOK, Handlers

LEMMA LetGoStep ==
    ASSUME TypeInv, NEW h \in handlers, GiveUp(h) \/ SessionLost(h)
    PROVE  GoodStep
<1>1. PICK next : /\ LetGo(h, next) /\ \A j \in next : JobOK(j)
                  /\ UNCHANGED faults \/ Spend(1)
  <2>1. JobOK(h.job)
    BY StillQueue
  <2>2. \A j \in Again(h.job) : JobOK(j)
    BY <2>1, AgainType
  <2> QED
    BY <2>1, <2>2 DEF GiveUp, SessionLost
<1>2. Sound
  BY <1>1, StillStep DEF LetGo
<1>3. QueueOK
  <2>1. HandlerOK([h EXCEPT !.detached = TRUE])
    BY StillQueue, DetachedType
  <2> QED
    BY <1>1, <2>1, StillQueue DEF LetGo, QueueOK
<1>4. twice' \subseteq Nat
  <2>1. \A j \in next : j.run \in Nat
    BY <1>1 DEF JobOK, Jobs
  <2> QED
    BY <1>1, <2>1, StillQueue DEF LetGo
<1>5. faults' \in Nat
  BY <1>1, Spent
<1> QED
  BY <1>1, <1>2, <1>3, <1>4, <1>5, HandlerStep, StillQueue DEF LetGo

LEMMA EveryStep ==
    ASSUME TypeInv, [Next]_vars
    PROVE  GoodStep
<1>1. CASE UNCHANGED vars
  BY <1>1, StillStep, StillQueue, HandlerStep DEF vars, QueueOK
<1>2. ASSUME NEW n \in Node, Tick(n) \/ TickDies(n)
      PROVE  GoodStep
  BY <1>2, ReapStep, LoadStep, CreateRunStep, EnqueueStep, PruneStep, TickDiesStep DEF Tick
<1>3. ASSUME NEW j \in jobs, Deliver(j) \/ JobLost(j)
      PROVE  GoodStep
  BY <1>3, beginRunStep, StartChildStep, QueueLossStep DEF Deliver
<1>4. ASSUME NEW h \in handlers, Work(h) \/ HandlerDies(h) \/ GiveUp(h) \/ SessionLost(h)
      PROVE  GoodStep
  BY <1>4, runTaskJobStep, SelectStep, ExpectChildrenStep, EnqueueChildStep, runChildJobStep,
     QueueLossStep, LetGoStep DEF Work
<1>5. CASE TimePasses
  BY <1>5, QueueLossStep
<1> QED
  BY <1>1, <1>2, <1>3, <1>4, <1>5 DEF Next

LEMMA InitType ==
    ASSUME Init
    PROVE  TypeInv
<1>1. Implausible \in Nat
  BY SchedulerAssumption DEF Implausible
<1>2. task \in Record
  BY <1>1 DEF Init, Seeds, Imported, NoRecord, Record
<1>3. runs \in Seq(Run) /\ Idle \in Ticks
  BY DEF Init, Idle, Ticks
<1> QED
  BY <1>2, <1>3 DEF Init, TypeInv, TypeOK, Refs, Idle, Ticks

\* Every variable keeps its type, and every job, handler and tick names a run
\* there is: no step of the store, a tick or a handler reads a run that is not.
THEOREM RunsTyped == Safe => []TypeOK
<1>1. TypeInv /\ [Next]_vars => TypeInv'
  BY EveryStep DEF GoodStep
<1>2. TypeInv => TypeOK
  BY DEF TypeInv
<1> QED
  BY InitType, <1>1, <1>2, PTL DEF Safe

-----------------------------------------------------------------------------
(* One active run. *)

LEMMA OneActiveRunStep ==
    ASSUME TypeInv, OneActiveRun, [Next]_vars
    PROVE  OneActiveRun'
<1>1. TypeInv' /\ RunsStep
  BY EveryStep DEF GoodStep
<1>2. /\ Len(runs) \in Nat /\ RunIds = 1 .. Len(runs)
      /\ RunIds' = 1 .. Len(runs')
  BY TypedRuns DEF TypeInv, RunIds
<1>3. CASE OldRuns
  <2>1. ActiveRuns' \subseteq ActiveRuns
    BY <1>2, <1>3 DEF OldRuns, Follows, ActiveRuns, RunIds, Live, Ended
  <2> QED
    BY <2>1 DEF OneActiveRun
<1>4. CASE NewRunStep
  <2>1. PICK now : runs' = Append(runs, NewRun(now)) /\ ActiveRuns = {}
    BY <1>4 DEF NewRunStep, MayCreate
  <2>2. runs \in Seq(Run)
    BY DEF TypeInv, TypeOK
  <2>5. Len(runs') = Len(runs) + 1 /\ \A r \in RunIds : runs'[r] = runs[r]
    BY <1>2, <2>1, <2>2
  <2>3. \A r \in RunIds' : r = Len(runs) + 1 \/ (r \in RunIds /\ runs'[r] = runs[r])
    BY <1>2, <2>5
  <2>4. \A r \in ActiveRuns' : r = Len(runs) + 1
    BY <2>1, <2>3 DEF ActiveRuns
  <2> QED
    BY <2>4 DEF OneActiveRun
<1> QED
  BY <1>1, <1>3, <1>4 DEF RunsStep

\* At most one run of a task is active, whatever is lost, late or delivered
\* twice: CreateRun refuses beside an active run, and no handler, reaper or
\* pruning makes a run active again.
THEOREM OneRunAtATime == Safe => []OneActiveRun
<1>1. Init => OneActiveRun
  BY DEF Init, OneActiveRun, ActiveRuns, RunIds
<1>2. TypeInv /\ OneActiveRun /\ [Next]_vars => TypeInv' /\ OneActiveRun'
  BY EveryStep, OneActiveRunStep DEF GoodStep
<1> QED
  BY InitType, <1>1, <1>2, PTL DEF Safe

-----------------------------------------------------------------------------
(* The task's record. *)

\* The runs there were, after any step.
LEMMA RunsAfter ==
    ASSUME TypeInv, RunsStep
    PROVE  /\ RunIds \subseteq RunIds'
           /\ \A r \in RunIds : Follows(runs'[r], runs[r])
           /\ \A r \in RunIds' : r \notin RunIds => runs'[r].status = "queued"
<1>1. /\ Len(runs) \in Nat /\ RunIds = 1 .. Len(runs) /\ RunIds' = 1 .. Len(runs')
      /\ runs \in Seq(Run)
  BY TypedRuns DEF TypeInv, TypeOK, RunIds
<1>2. CASE OldRuns
  BY <1>1, <1>2 DEF OldRuns
<1>3. CASE NewRunStep
  <2>1. PICK now : runs' = Append(runs, NewRun(now))
    BY <1>3 DEF NewRunStep
  <2>2. /\ Len(runs') = Len(runs) + 1
        /\ \A r \in RunIds : runs'[r] = runs[r]
        /\ runs'[Len(runs) + 1] = NewRun(now)
    BY <1>1, <2>1
  <2>3. NewRun(now).status = "queued"
    BY DEF NewRun
  <2> QED
    BY <1>1, <2>2, <2>3 DEF Follows
<1> QED
  BY <1>2, <1>3 DEF RunsStep

LEMMA SuccessCountsStep ==
    ASSUME TypeInv, SuccessCounts, [Next]_vars
    PROVE  SuccessCounts'
<1>1. TypeInv' /\ RunsStep
  BY EveryStep DEF GoodStep
<1>2. /\ task.lastRun \in Nat /\ task'.lastRun \in Nat
      /\ \A r \in RunIds : runs[r].created \in Nat
  BY <1>1, TypedRuns DEF TypeInv, TypeOK, Record, Run
<1>3. /\ RunIds \subseteq RunIds'
      /\ \A r \in RunIds : Follows(runs'[r], runs[r])
      /\ \A r \in RunIds' : r \notin RunIds => runs'[r].status = "queued"
  BY <1>1, RunsAfter
<1>4. SUFFICES ASSUME NEW r \in RunIds, runs'[r].status = "succeeded"
               PROVE  task'.lastRun >= runs'[r].created
  BY <1>3 DEF SuccessCounts
<1>5. runs'[r].created = runs[r].created
  BY <1>3 DEF Follows
<1>6. NewlySucceeded(r) \/ task.lastRun >= runs[r].created
  BY <1>4 DEF NewlySucceeded, SuccessCounts
<1>7. CASE OldRuns
  BY <1>2, <1>4, <1>5, <1>6, <1>7 DEF OldRuns, Stands, Stamped, Climbs, Forgotten, Ended
<1>8. CASE NewRunStep
  <2>1. task' = task /\ runs'[r] = runs[r]
    BY <1>8, TypedRuns DEF NewRunStep, TypeInv, TypeOK
  <2> QED
    BY <1>4, <1>5, <2>1 DEF SuccessCounts
<1> QED
  BY <1>1, <1>7, <1>8 DEF RunsStep

\* A recorded success is never lost to the schedule: the task's last run is at
\* least that run's start.  An abandoned run's late success, an older result
\* that comes after a newer one and the pruning of the record are the steps that
\* could break it.
THEOREM SuccessesCount == Safe => []SuccessCounts
<1>1. Init => SuccessCounts
  BY DEF Init, SuccessCounts, RunIds
<1>2. TypeInv /\ SuccessCounts /\ [Next]_vars => TypeInv' /\ SuccessCounts'
  BY EveryStep, SuccessCountsStep DEF GoodStep
<1> QED
  BY InitType, <1>1, <1>2, PTL DEF Safe

LEMMA LadderStep ==
    ASSUME TypeInv, LadderHasCause, [Next]_vars
    PROVE  LadderHasCause'
<1>1. TypeInv' /\ RunsStep
  BY EveryStep DEF GoodStep
<1>2. /\ RunIds \subseteq RunIds'
      /\ \A r \in RunIds : Follows(runs'[r], runs[r])
  BY <1>1, RunsAfter
<1>3. SUFFICES ASSUME Failing(task'), task'.version # 0
               PROVE  \E r \in RunIds :
                        /\ runs'[r].status \in {"failed", "abandoned", "dropped"}
                        /\ runs'[r].created >= task'.lastRun
  BY <1>2 DEF LadderHasCause, Failing
<1>4. CASE task' = task
  <2>1. PICK r \in RunIds : /\ runs[r].status \in {"failed", "abandoned", "dropped"}
                            /\ runs[r].created >= task.lastRun
    BY <1>3, <1>4 DEF LadderHasCause
  <2>2. Follows(runs'[r], runs[r])
    BY <1>2
  <2> QED
    BY <1>4, <2>1, <2>2 DEF Follows, Live, Ended
<1>5. CASE Climbs
  BY <1>2, <1>5 DEF Climbs, Follows
<1>6. CASE Stamped \/ Forgotten
  BY <1>3, <1>6 DEF Stamped, Forgotten, NoRecord, Failing
<1> QED
  BY <1>1, <1>4, <1>5, <1>6 DEF RunsStep, OldRuns, NewRunStep, Stands

\* A task climbs its ladder only for a run that failed and is not older than its
\* last success: neither an old failure that comes late nor a success leaves a
\* ladder behind.
THEOREM LaddersHaveCause == Safe => []LadderHasCause
<1>1. Init => LadderHasCause
  BY DEF Init, Seeds, Imported, NoRecord, LadderHasCause
<1>2. TypeInv /\ LadderHasCause /\ [Next]_vars => TypeInv' /\ LadderHasCause'
  BY EveryStep, LadderStep DEF GoodStep
<1> QED
  BY InitType, <1>1, <1>2, PTL DEF Safe

-----------------------------------------------------------------------------
(* A run is created for a task that is due. *)

\* What a tick about to create a run knows: the record has moved on since, or is
\* the one for which it decided.
TickDue ==
    \A n \in Node \ outdated : ticks[n].stage = "create" =>
        /\ ticks[n].version <= task.version
        /\ ticks[n].version = task.version => dueReason(task, ticks[n].now)

LEMMA TickDueStep ==
    ASSUME TypeInv, TickDue, [Next]_vars
    PROVE  TickDue'
<1>1. TypeInv' /\ RunsStep /\ TicksStep /\ forEach' = forEach
  BY EveryStep DEF GoodStep
<1>2. /\ task.version \in Nat /\ task'.version \in Nat
      /\ \A n \in Node : ticks[n].version \in Nat
  BY <1>1 DEF TypeInv, TypeOK, Record, Ticks
<1>3. SUFFICES ASSUME NEW n \in Node, n \notin outdated', ticks'[n].stage = "create"
               PROVE  /\ ticks'[n].version <= task'.version
                      /\ ticks'[n].version = task'.version => dueReason(task, ticks[n].now)'
  BY DEF TickDue
<1>4. task' = task => (dueReason(task, ticks[n].now)' <=> dueReason(task, ticks'[n].now))
  BY <1>1 DEF dueReason, Failing, ClampRetry, IsDue, Occurrence
<1>5. CASE Decided(n)
  BY <1>2, <1>4, <1>5 DEF Decided
<1>6. CASE Remembered(n)
  <2>1. /\ ticks'[n] = ticks[n] /\ ticks[n].version <= task.version
        /\ ticks[n].version = task.version => dueReason(task, ticks[n].now)
    BY <1>3, <1>6 DEF Remembered, TickDue
  <2>2. CASE task' = task
    BY <1>4, <2>1, <2>2
  <2>3. CASE task'.version = task.version + 1
    BY <1>2, <2>1, <2>3
  <2>4. CASE Forgotten
    BY <1>3, <2>1, <2>4 DEF Forgotten
  <2> QED
    BY <1>1, <2>2, <2>3, <2>4 DEF RunsStep, OldRuns, NewRunStep, Stands, Stamped, Climbs
<1> QED
  BY <1>1, <1>3, <1>5, <1>6 DEF TicksStep

\* A run is created only for a task that is due as its record stands then,
\* unless the record was pruned since the tick read it: every other change of
\* the record moves its version (ErrStale).
THEOREM RunsCreatedWhenDue == Safe => CreatedWhenDue
<1>1. Init => TickDue
  BY DEF Init, TickDue, Idle
<1>2. TypeInv /\ TickDue /\ [Next]_vars => TypeInv' /\ TickDue'
  BY EveryStep, TickDueStep DEF GoodStep
<1>3. ASSUME TypeInv, TickDue, [Next]_vars, Len(runs') > Len(runs)
      PROVE  \/ dueReason(task, runs'[Len(runs')].created)
             \/ \E n \in outdated : ticks'[n].stage = "enqueue"
  <2>1. NewRunStep
    BY <1>3, EveryStep, TypedRuns DEF GoodStep, RunsStep, OldRuns, TypeInv
  <2>2. PICK n \in Node :
          /\ ticks[n].stage = "create" /\ ticks'[n].stage = "enqueue"
          /\ task.version = ticks[n].version
          /\ runs' = Append(runs, NewRun(ticks[n].now))
    BY <2>1 DEF NewRunStep, MayCreate
  <2>3. runs \in Seq(Run)
    BY <1>3 DEF TypeInv, TypeOK
  <2>4. runs'[Len(runs')] = NewRun(ticks[n].now)
    BY <2>2, <2>3
  <2>5. n \notin outdated => dueReason(task, ticks[n].now)
    BY <1>3, <2>2 DEF TickDue
  <2> QED
    BY <2>2, <2>4, <2>5 DEF NewRun
<1>4. TypeInv /\ TickDue /\ [Next]_vars =>
        [Len(runs') > Len(runs) =>
           \/ dueReason(task, runs'[Len(runs')].created)
           \/ \E n \in outdated : ticks'[n].stage = "enqueue"]_vars
  BY <1>3
<1> QED
  BY InitType, <1>1, <1>2, <1>4, PTL DEF Safe, CreatedWhenDue

=============================================================================
