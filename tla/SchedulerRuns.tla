--------------------------- MODULE SchedulerRuns ---------------------------
(***************************************************************************)
(* The runs of one scheduled task: the store of run state                  *)
(* (internal/schedulerstate, schedulerstate/kvstate), the schedulers that  *)
(* tick over it, and the queue's handlers that execute runs and the        *)
(* children of a for_each run (internal/scheduler).  One task: no          *)
(* operation on a task reads or writes another's record.                   *)
(*                                                                         *)
(* A call of the store holds its mutex (a row lock on PostgreSQL), so it   *)
(* is one step; a tick and a handler are sequences of such calls, and      *)
(* every other step may come between two of them.  The queue delivers at   *)
(* least once, forgets what it held when the process of the memory tier    *)
(* ends, and cancels a handler after a time that is shorter than a running *)
(* lease.  A handler may ignore that: the queue then lets go of it and     *)
(* makes a further attempt beside it, as it does with the same attempt     *)
(* when it loses its hold on the job of a handler that still runs.  A call *)
(* of the store may fail, and a process may die between two calls, or in   *)
(* one: a reap that panics.  What fails within one step is one fault.      *)
(*                                                                         *)
(* Two handlers of one attempt, both let go within one tick of the clock,  *)
(* are one in the set of handlers.                                         *)
(*                                                                         *)
(* Abstracted: which node runs what, errors' texts, reloading of the       *)
(* configuration, calendars (a day is DayLength ticks), the skipped lease  *)
(* extensions of under a minute, backoff between the queue's attempts.     *)
(***************************************************************************)
EXTENDS Naturals, Sequences, FiniteSets

CONSTANTS
    Node,           \* schedulers on one store
    Subject,        \* the entities a for_each selects
    Whole,          \* the job of a run itself, next to those of its subjects
    DayLength,      \* ticks of a calendar occurrence
    Interval,       \* period of an interval schedule
    QueuedLease, RunningLease, HandlerTimeout,
    BaseRetryDelay, MaxRetryDelay, MaxLadderSteps,
    PruneAge, KeepEndedRuns,
    IdOf(_),        \* a run's id, a random one, by its place in the sorted order
    BoundedAttempts,    \* attempts the queue gives a child
    Legacy,         \* whether an older release may have left its state
    MaxTime,        \* bound: clock ticks
    MaxRuns,        \* bound: runs created
    MaxFaults       \* bound: failed calls, deaths, losses, repeats, overruns

ASSUME SchedulerAssumption ==
    /\ Whole \notin Subject /\ IsFiniteSet(Subject)
    /\ {DayLength, Interval, BaseRetryDelay, BoundedAttempts, KeepEndedRuns} \subseteq Nat \ {0}
    /\ {QueuedLease, RunningLease, MaxRetryDelay, MaxLadderSteps, PruneAge} \subseteq Nat
    /\ {MaxTime, MaxRuns, MaxFaults} \subseteq Nat /\ Legacy \in BOOLEAN
    /\ HandlerTimeout \in Nat /\ HandlerTimeout < RunningLease
    /\ PruneAge >= 2 * DayLength /\ PruneAge >= 2 * Interval   \* pruneAgeFor
    /\ \A n \in 0 .. MaxLadderSteps : 2 ^ n \in Nat     \* to the provers, an integer

VARIABLES
    forEach,    \* the task is a for_each task, on a day schedule
    task,       \* its record: last run, ladder, version, last change
    runs,       \* run records in order of creation
    jobs,       \* jobs waiting in the queue
    handlers,   \* handlers that execute a job
    ticks,      \* the tick each scheduler is in
    clock,      \* the time; 0 stands for the zero time
    faults,     \* faults so far
    twice,      \* history: runs of which a subject's job was given out again
                \* beside its handler
    delivered,  \* history: subjects settled well in time, with their occurrence
    outdated    \* history: schedulers about to create a run for a record that
                \* has been pruned since they read it

vars == <<forEach, task, runs, jobs, handlers, ticks, clock, faults, twice, delivered, outdated>>

Ended == {"succeeded", "failed", "abandoned"}
Live == {"queued", "running"}
Kid == {"none", "pending", "succeeded", "failed"}

Idle == [stage |-> "idle", now |-> 0, version |-> 0]
NoRecord == [lastRun |-> 0, failures |-> 0, nextRetry |-> 0, version |-> 0, touched |-> 0]
NoKids == [s \in Subject |-> "none"]

Spend(n) == faults + n <= MaxFaults /\ faults' = faults + n

-----------------------------------------------------------------------------
(* Schedules and the retry ladder. *)

Failing(ts) == ts.nextRetry # 0

retryDelay(failures) ==
    LET doubled == BaseRetryDelay * 2 ^ (failures - 1)
    IN IF failures > MaxLadderSteps \/ doubled > MaxRetryDelay THEN MaxRetryDelay ELSE doubled

Occurrence(now) == now \div DayLength

IsDue(lastRun, now) ==
    IF forEach THEN Occurrence(lastRun) # Occurrence(now) ELSE now >= lastRun + Interval

\* Mutant of ClampRetry: the stored time is believed.
ClampRetryNot(ts, now) == ts.nextRetry

\* An implausible retry time counts as now.
ClampRetry(ts, now) == IF ts.nextRetry > now + MaxRetryDelay THEN now ELSE ts.nextRetry

\* A failing task follows its ladder alone.
dueReason(ts, now) ==
    IF Failing(ts) THEN now >= ClampRetry(ts, now)
                   ELSE ts.lastRun = 0 \/ IsDue(ts.lastRun, now)

\* Mutant of ApplyOutcome: a success is stamped whatever came since.
ApplyOutcomeBlindly(ts, start, ok, at) ==
    IF ok THEN [lastRun |-> start, failures |-> 0, nextRetry |-> 0,
                version |-> ts.version + 1, touched |-> at]
    ELSE IF ts.lastRun > start THEN ts
    ELSE [ts EXCEPT !.failures = @ + 1, !.nextRetry = at + retryDelay(ts.failures + 1),
                    !.version = @ + 1, !.touched = at]

\* Mutant of ApplyOutcome: an old failure resurrects the ladder.
ApplyOutcomeOldFailure(ts, start, ok, at) ==
    IF ok THEN IF ts.lastRun >= start THEN ts
               ELSE [lastRun |-> start, failures |-> 0, nextRetry |-> 0,
                     version |-> ts.version + 1, touched |-> at]
    ELSE [ts EXCEPT !.failures = @ + 1, !.nextRetry = at + retryDelay(ts.failures + 1),
                    !.version = @ + 1, !.touched = at]

\* The task's record after a run created at start ends.
ApplyOutcome(ts, start, ok, at) ==
    CASE ok /\ ts.lastRun < start ->
           [lastRun |-> start, failures |-> 0, nextRetry |-> 0,
            version |-> ts.version + 1, touched |-> at]
      [] ~ok /\ ts.lastRun <= start ->
           [ts EXCEPT !.failures = @ + 1, !.nextRetry = at + retryDelay(ts.failures + 1),
                      !.version = @ + 1, !.touched = at]
      [] OTHER -> ts

-----------------------------------------------------------------------------
(* The store's documents. *)

RunIds == 1 .. Len(runs)
ActiveRuns == {r \in RunIds : runs[r].status \in Live}

\* Mutant of Trimmed: only the newest ended runs stay.
TrimmedByCount(rs) ==
    LET ended == {r \in DOMAIN rs : rs[r].status \in Ended}
        newer(r) == {q \in ended : q > r}
    IN [r \in DOMAIN rs |->
          IF r \in ended /\ Cardinality(newer(r)) >= KeepEndedRuns
            THEN [rs[r] EXCEPT !.status = "dropped", !.kids = NoKids]
            ELSE rs[r]]

\* The newest ended runs stay, and all of the newest one's occurrence.  Runs of
\* a task end in the order of their creation.
Trimmed(rs) ==
    LET ended == {r \in DOMAIN rs : rs[r].status \in Ended}
        newer(r) == {q \in ended : q > r}
        current == {rs[r].occurrence : r \in {q \in ended : newer(q) = {}}}
    IN [r \in DOMAIN rs |->
          IF /\ r \in ended
             /\ Cardinality(newer(r)) >= KeepEndedRuns
             /\ ~forEach \/ rs[r].occurrence \notin current
            THEN [rs[r] EXCEPT !.status = "dropped", !.kids = NoKids]
            ELSE rs[r]]

\* Run r of rs ends; until holds the time it finished from then on.
End(rs, r, status, ok, at) ==
    /\ runs' = Trimmed([rs EXCEPT ![r].status = status, ![r].until = at])
    /\ task' = ApplyOutcome(task, rs[r].created, ok, at)

\* Mutant of Outcome: a status that is none of a run's.
OutcomeUnnamed(ok) == IF ok THEN "" ELSE "failed"

Outcome(ok) == IF ok THEN "succeeded" ELSE "failed"

\* FinishRun: a late success of an abandoned run still counts.
FinishRun(r, ok) ==
    CASE runs[r].status \in Live -> End(runs, r, Outcome(ok), ok, clock)
      [] runs[r].status = "abandoned" /\ ok ->
           task' = ApplyOutcome(task, runs[r].created, TRUE, clock) /\ UNCHANGED runs
      [] OTHER -> UNCHANGED <<runs, task>>

\* FinishRun as the handlers and the tick call it: an error is only logged.
finish(r, ok, cost) ==
    \/ FinishRun(r, ok) /\ Spend(cost)
    \/ UNCHANGED <<runs, task>> /\ Spend(1)

\* The subject's key is written before the document.
SettleKey(r, s, ok) == [runs EXCEPT ![r].kids[s] = Outcome(ok)]

\* Mutant of SettleChild: the failed subjects are not counted.
SettleChildUncounted(r, s, ok) ==
    IF runs[r].kids[s] # "pending" THEN UNCHANGED <<runs, task, delivered>>
    ELSE LET rs == [SettleKey(r, s, ok) EXCEPT ![r].settled = @ + 1]
         IN /\ IF rs[r].settled = rs[r].children /\ rs[r].status \in Live
                 THEN End(rs, r, "succeeded", TRUE, clock)
                 ELSE runs' = rs /\ UNCHANGED task
            /\ delivered' = IF ok /\ runs[r].status \in Live
                              THEN delivered \cup {<<runs[r].occurrence, s>>} ELSE delivered

\* SettleChild: the last subject to settle ends a run that is still active.
SettleChild(r, s, ok) ==
    IF runs[r].kids[s] # "pending" THEN UNCHANGED <<runs, task, delivered>>
    ELSE LET rs == [SettleKey(r, s, ok) EXCEPT ![r].settled = @ + 1,
                                               ![r].failed = IF ok THEN @ ELSE @ + 1]
             well == rs[r].failed = 0
         IN /\ IF rs[r].settled = rs[r].children /\ rs[r].status \in Live
                 THEN End(rs, r, Outcome(well), well, clock)
                 ELSE runs' = rs /\ UNCHANGED task
            /\ delivered' = IF ok /\ runs[r].status \in Live
                              THEN delivered \cup {<<runs[r].occurrence, s>>} ELSE delivered

\* SettleChild as the handlers call it: it may fail before its first write or
\* between the key and the document.
settleChild(r, s, ok, cost) ==
    \/ SettleChild(r, s, ok) /\ Spend(cost)
    \/ UNCHANGED <<runs, task, delivered>> /\ Spend(1)
    \/ /\ runs[r].kids[s] = "pending"
       /\ runs' = SettleKey(r, s, ok)
       /\ delivered' = IF ok /\ runs[r].status \in Live
                         THEN delivered \cup {<<runs[r].occurrence, s>>} ELSE delivered
       /\ Spend(1) /\ UNCHANGED task

\* Subjects that settled well in any stored run of the occurrence.
SucceededSubjects(occurrence) ==
    {s \in Subject : \E r \in RunIds :
        runs[r].occurrence = occurrence /\ runs[r].kids[s] = "succeeded"}

-----------------------------------------------------------------------------
(* A scheduler's tick. *)

\* Mutant of Expired: a run nobody picked up is left alone.
ExpiredRunning == {r \in ActiveRuns : runs[r].status = "running" /\ runs[r].until < clock}

Expired == {r \in ActiveRuns : runs[r].until < clock}

\* Ending r as abandoned trims a run whose id the loop of Reap, which goes by the
\* sorted ids that there were, has still to come to.  It finds nothing under it
\* and panics; the document is not written.
Panics(r) ==
    LET rs == [runs EXCEPT ![r].status = "abandoned", ![r].until = clock]
    IN \E q \in RunIds : IdOf(q) > IdOf(r) /\ Trimmed(rs)[q].status # rs[q].status

Wedged == \E r \in Expired : Panics(r)

\* Runs whose lease ran out are abandoned, unless the call fails.  A reap that
\* panics ends the process, and every tick of the next one comes to the same.
Reap(n) ==
    /\ ticks[n].stage = "idle"
    /\ \/ /\ ticks' = [ticks EXCEPT ![n] = [Idle EXCEPT !.stage = "load", !.now = clock]]
          /\ \/ Expired = {} /\ UNCHANGED <<runs, task, faults>>
             \/ \E r \in Expired : /\ ~Panics(r) /\ UNCHANGED faults
                                   /\ End(runs, r, "abandoned", FALSE, clock)
             \/ Expired # {} /\ Spend(1) /\ UNCHANGED <<runs, task>>
       \/ Wedged /\ UNCHANGED <<ticks, runs, task, faults>>
    /\ UNCHANGED <<forEach, jobs, handlers, clock, twice, delivered, outdated>>

Pruning == [Idle EXCEPT !.stage = "prune"]

Load(n) ==
    LET k == ticks[n] IN
    /\ k.stage = "load"
    /\ \/ /\ ticks' = [ticks EXCEPT ![n] =
                        IF dueReason(task, k.now) /\ ActiveRuns = {}
                          THEN [k EXCEPT !.stage = "create", !.version = task.version]
                          ELSE Pruning]
          /\ UNCHANGED faults
       \/ ticks' = [ticks EXCEPT ![n] = Idle] /\ Spend(1)
    /\ UNCHANGED <<forEach, task, runs, jobs, handlers, clock, twice, delivered, outdated>>

NewRun(now) ==
    [status |-> "queued", created |-> now, until |-> now + QueuedLease,
     occurrence |-> IF forEach THEN Occurrence(now) ELSE 0,
     children |-> 0, settled |-> 0, failed |-> 0, kids |-> NoKids]

\* Mutant of MayCreate: the version is not compared.
MayCreateStale(version) == ActiveRuns = {}

\* Mutant of MayCreate: an active run is not looked for.
MayCreateBeside(version) == task.version = version

\* Neither ErrRunActive nor ErrStale.
MayCreate(version) == ActiveRuns = {} /\ task.version = version

\* The bound on runs.  No two runs have the same start: ticks never read the
\* same time.
Room(now) == Len(runs) < MaxRuns /\ \A r \in RunIds : runs[r].created # now

CreateRun(n) ==
    LET k == ticks[n] IN
    /\ k.stage = "create"
    /\ \/ /\ MayCreate(k.version) /\ Room(k.now)
          /\ runs' = Append(runs, NewRun(k.now))
          /\ ticks' = [ticks EXCEPT ![n] = [k EXCEPT !.stage = "enqueue", !.version = Len(runs) + 1]]
          /\ UNCHANGED faults
       \/ /\ ~(MayCreate(k.version) /\ Room(k.now))
          /\ ticks' = [ticks EXCEPT ![n] = Pruning] /\ UNCHANGED <<runs, faults>>
       \/ ticks' = [ticks EXCEPT ![n] = Pruning] /\ Spend(1) /\ UNCHANGED runs
    /\ outdated' = outdated \ {n}
    /\ UNCHANGED <<forEach, task, jobs, handlers, clock, twice, delivered>>

Job(r, s, attempt) == [run |-> r, subject |-> s, attempt |-> attempt]

\* A run whose job never reached the queue ends at once.
Enqueue(n) ==
    LET r == ticks[n].version IN
    /\ ticks[n].stage = "enqueue"
    /\ ticks' = [ticks EXCEPT ![n] = Pruning]
    /\ \/ jobs' = jobs \cup {Job(r, Whole, 1)} /\ UNCHANGED <<runs, task, faults>>
       \/ finish(r, FALSE, 1) /\ UNCHANGED jobs
    /\ UNCHANGED <<forEach, handlers, clock, twice, delivered, outdated>>

\* The tick ends, dropping a task untouched for long and ended runs as old, or
\* not: it prunes at most once in a while.
Prune(n) ==
    LET old(at) == at + PruneAge < clock
        taskGone == task # NoRecord /\ old(task.touched) /\ ActiveRuns = {}
        gone == {r \in RunIds : runs[r].status \in Ended
                                  /\ (old(runs[r].until) \/ taskGone \/ task = NoRecord)}
    IN /\ ticks[n].stage = "prune"
       /\ ticks' = [ticks EXCEPT ![n] = Idle]
       /\ \/ /\ task' = IF taskGone THEN NoRecord ELSE task
             /\ runs' = [r \in RunIds |-> IF r \in gone
                           THEN [runs[r] EXCEPT !.status = "dropped", !.kids = NoKids]
                           ELSE runs[r]]
             /\ outdated' = IF taskGone THEN {m \in Node : ticks[m].stage = "create"}
                            ELSE outdated
          \/ UNCHANGED <<task, runs, outdated>>
       /\ UNCHANGED <<forEach, jobs, handlers, clock, faults, twice, delivered>>

\* The process dies in a tick; the next one starts afresh.
TickDies(n) ==
    /\ ticks[n].stage # "idle" /\ Spend(1)
    /\ ticks' = [ticks EXCEPT ![n] = Idle]
    /\ outdated' = outdated \ {n}
    /\ UNCHANGED <<forEach, task, runs, jobs, handlers, clock, twice, delivered>>

Tick(n) == Reap(n) \/ Load(n) \/ CreateRun(n) \/ Enqueue(n) \/ Prune(n)

-----------------------------------------------------------------------------
(* The handlers. *)

Handler(j, stage) ==
    [job |-> j, since |-> clock, stage |-> stage, todo |-> {}, detached |-> FALSE]

\* A handler returned: its job is done, unless the queue fails to record that
\* and delivers it again; next holds the job of a further attempt.  Nobody
\* waits for a handler that was let go.
Returned(h, next, cost) ==
    /\ handlers' = handlers \ {h}
    /\ \/ h.detached /\ UNCHANGED jobs /\ Spend(cost)
       \/ ~h.detached /\ jobs' = jobs \cup next /\ Spend(cost)
       \/ ~h.detached /\ jobs' = jobs \cup {h.job} /\ Spend(1)

\* Mutant of MayStart: a run that has not ended is started.
MayStartAgain(r) == runs[r].status \in Live

MayStart(r) == runs[r].status = "queued"

\* A run is started by one delivery of its job; any other is dropped, and so is
\* one that fails to reach the store.
beginRun(j) ==
    /\ j.subject = Whole
    /\ jobs' = jobs \ {j}
    /\ \/ /\ MayStart(j.run)
          /\ runs' = [runs EXCEPT ![j.run].status = "running",
                                  ![j.run].until = clock + RunningLease]
          /\ handlers' = handlers \cup {Handler(j, IF forEach THEN "select" ELSE "work")}
          /\ UNCHANGED faults
       \/ ~MayStart(j.run) /\ UNCHANGED <<runs, handlers, faults>>
       \/ Spend(1) /\ UNCHANGED <<runs, handlers>>
    /\ UNCHANGED <<forEach, task, ticks, clock, twice, delivered, outdated>>

\* A handler records its run's outcome, or fails to, and returns.
FinishAndReturn(h, ok, cost) ==
    \/ FinishRun(h.job.run, ok) /\ Returned(h, {}, cost)
    \/ UNCHANGED <<runs, task>> /\ Returned(h, {}, 1)

\* The script of a plain run ends, well or not.
runTaskJob(h) ==
    /\ h.stage = "work" /\ h.job.subject = Whole
    /\ \E ok \in BOOLEAN : FinishAndReturn(h, ok, 0)
    /\ UNCHANGED <<forEach, ticks, clock, twice, delivered, outdated>>

\* The expansion reads which subjects are still to be served, or fails.
Select(h) ==
    /\ h.stage = "select"
    /\ \/ /\ handlers' = (handlers \ {h}) \cup
                {[h EXCEPT !.stage = "expect",
                           !.todo = Subject \ SucceededSubjects(runs[h.job.run].occurrence)]}
          /\ UNCHANGED <<runs, task, jobs, faults>>
       \/ FinishAndReturn(h, FALSE, 1)
    /\ UNCHANGED <<forEach, ticks, clock, twice, delivered, outdated>>

\* The run learns its subjects before any of them has a job; without any it ends.
ExpectChildren(h) ==
    /\ h.stage = "expect"
    /\ \/ /\ h.todo # {} /\ runs[h.job.run].status # "dropped"
          /\ runs' = [runs EXCEPT ![h.job.run].children = Cardinality(h.todo),
                                  ![h.job.run].kids =
                                     [s \in Subject |-> IF s \in h.todo THEN "pending" ELSE @[s]]]
          /\ handlers' = (handlers \ {h}) \cup {[h EXCEPT !.stage = "enqueue"]}
          /\ UNCHANGED <<task, jobs, faults>>
       \/ h.todo = {} /\ FinishAndReturn(h, TRUE, 0)
       \/ runs[h.job.run].status = "dropped" /\ FinishAndReturn(h, FALSE, 0)
       \/ h.todo # {} /\ FinishAndReturn(h, FALSE, 1)
    /\ UNCHANGED <<forEach, ticks, clock, twice, delivered, outdated>>

\* One subject's job is queued; one that cannot be settles as failed.
EnqueueChild(h, s) ==
    LET left == [h EXCEPT !.todo = @ \ {s}] IN
    /\ h.stage = "enqueue" /\ s \in h.todo
    /\ handlers' = (handlers \ {h}) \cup (IF left.todo = {} THEN {} ELSE {left})
    /\ \/ jobs' = jobs \cup {Job(h.job.run, s, 1)} /\ UNCHANGED <<runs, task, faults, delivered>>
       \/ settleChild(h.job.run, s, FALSE, 1) /\ UNCHANGED jobs
    /\ UNCHANGED <<forEach, ticks, clock, twice, outdated>>

\* A further attempt of a job, if the queue grants one.
Again(j) == IF j.attempt < BoundedAttempts THEN {[j EXCEPT !.attempt = @ + 1]} ELSE {}

Later(a, b) == IF a >= b THEN a ELSE b

\* Mutant of MayClaim: a settled subject is claimed again.
MayClaimSettled(r, s) == runs[r].status \in Live /\ runs[r].kids[s] # "none"

\* Mutant of MayClaim: a run that ended is not noticed.
MayClaimEnded(r, s) == runs[r].kids[s] = "pending"

MayClaim(r, s) == runs[r].status \in Live /\ runs[r].kids[s] = "pending"

\* StartChild: the subject is claimed and the run's lease moves forward.
StartChild(j) ==
    LET r == j.run IN
    /\ j.subject # Whole
    /\ \/ /\ MayClaim(r, j.subject)
          /\ runs' = [runs EXCEPT ![r].until = Later(@, clock + RunningLease)]
          /\ handlers' = handlers \cup {Handler(j, "work")}
          /\ jobs' = jobs \ {j} /\ UNCHANGED faults
       \/ ~MayClaim(r, j.subject) /\ jobs' = jobs \ {j} /\ UNCHANGED <<runs, handlers, faults>>
       \/ jobs' = (jobs \ {j}) \cup Again(j) /\ Spend(1) /\ UNCHANGED <<runs, handlers>>
    /\ UNCHANGED <<forEach, task, ticks, clock, twice, delivered, outdated>>

\* A child ends.  A failure with attempts left is the queue's to repeat; any
\* other result settles the subject.
runChildJob(h, s) ==
    /\ h.stage = "work" /\ h.job.subject = s
    /\ \/ /\ Again(h.job) # {} /\ Returned(h, Again(h.job), 0)
          /\ UNCHANGED <<runs, task, delivered>>
       \/ \E ok \in BOOLEAN :
            /\ ok \/ Again(h.job) = {}
            /\ handlers' = handlers \ {h}
            /\ \/ settleChild(h.job.run, s, ok, 0) /\ UNCHANGED jobs
               \/ ~h.detached /\ settleChild(h.job.run, s, ok, 1) /\ jobs' = jobs \cup {h.job}
    /\ UNCHANGED <<forEach, ticks, clock, twice, outdated>>

\* A process dies: a fault, but where a reap panics.
Dies == Spend(1) \/ (Wedged /\ UNCHANGED faults)

\* The process of a handler dies, of itself or of a reap that panics.  The job is
\* delivered again, or lost with the memory queue.
HandlerDies(h) ==
    /\ Dies
    /\ handlers' = handlers \ {h}
    /\ UNCHANGED jobs \/ (~h.detached /\ jobs' = jobs \cup {h.job})
    /\ UNCHANGED <<forEach, task, runs, ticks, clock, twice, delivered, outdated>>

\* A waiting job is lost with the memory queue.
JobLost(j) ==
    /\ Dies
    /\ jobs' = jobs \ {j}
    /\ UNCHANGED <<forEach, task, runs, handlers, ticks, clock, twice, delivered, outdated>>

\* The queue lets go of a handler that runs on, with next to deliver.
LetGo(h, next) ==
    /\ ~h.detached
    /\ handlers' = (handlers \ {h}) \cup {[h EXCEPT !.detached = TRUE]}
    /\ jobs' = jobs \cup next
    /\ twice' = twice \cup {j.run : j \in {j \in next : j.subject # Whole}}
    /\ UNCHANGED <<forEach, task, runs, ticks, clock, delivered, outdated>>

OnTime(h, now) == now <= h.since + HandlerTimeout

\* neoq gives up on a handler that ignores its timeout.  The job of a run is never
\* retried, that of a subject is as long as it has attempts.
GiveUp(h) ==
    /\ ~OnTime(h, clock) /\ UNCHANGED faults
    /\ LetGo(h, IF h.job.subject = Whole THEN {} ELSE Again(h.job))

\* PostgreSQL ends the session that holds the job's row, which is free again.
SessionLost(h) == LetGo(h, {h.job}) /\ Spend(1)

Deliver(j) == beginRun(j) \/ StartChild(j)

Work(h) ==
    \/ runTaskJob(h) \/ Select(h) \/ ExpectChildren(h)
    \/ \E s \in Subject : EnqueueChild(h, s) \/ runChildJob(h, s)

\* Time passes.  The queue cancels a handler at its timeout; one that ignores
\* it is a fault.
TimePasses ==
    /\ clock < MaxTime /\ clock' = clock + 1
    /\ IF \A h \in handlers : OnTime(h, clock + 1) THEN UNCHANGED faults ELSE Spend(1)
    /\ UNCHANGED <<forEach, task, runs, jobs, handlers, ticks, twice, delivered, outdated>>

-----------------------------------------------------------------------------

\* State of an older release, if there is one, is seeded; its retry time may be
\* anything.
Implausible == MaxTime + MaxRetryDelay + 1
Imported == [lastRun : {1}, failures : {1}, nextRetry : {Implausible},
             version : {0}, touched : {Implausible}]
Seeds == {NoRecord} \cup (IF Legacy THEN Imported ELSE {})

Init ==
    /\ forEach \in BOOLEAN
    /\ task \in Seeds
    /\ runs = <<>> /\ jobs = {} /\ handlers = {}
    /\ twice = {} /\ delivered = {} /\ outdated = {}
    /\ ticks = [n \in Node |-> Idle]
    /\ clock = 2 /\ faults = 0

Next ==
    \/ \E n \in Node : Tick(n) \/ TickDies(n)
    \/ \E j \in jobs : Deliver(j) \/ JobLost(j)
    \/ \E h \in handlers : Work(h) \/ HandlerDies(h) \/ GiveUp(h) \/ SessionLost(h)
    \/ TimePasses

Safe == Init /\ [][Next]_vars

\* Every scheduler's loop goes on, as far as no reap panics on a run of another
\* task in the document; a delivered job's handler ends, time passes.  The queue
\* owes nothing.
Fairness ==
    /\ \A n \in Node : WF_vars(Tick(n))
    /\ WF_vars(\E h \in handlers : Work(h))
    /\ WF_vars(TimePasses)

Spec == Safe /\ Fairness

-----------------------------------------------------------------------------
(* Properties. *)

\* Type correctness.
Record == [lastRun : Nat, failures : Nat, nextRetry : Nat, version : Nat, touched : Nat]
Run == [status : Live \cup Ended \cup {"dropped"}, created : Nat, until : Nat,
        occurrence : Nat, children : Nat, settled : Nat, failed : Nat, kids : [Subject -> Kid]]
Jobs == [run : Nat, subject : Subject \cup {Whole}, attempt : Nat]
Handlers == [job : Jobs, since : Nat, stage : {"work", "select", "expect", "enqueue"},
             todo : SUBSET Subject, detached : BOOLEAN]
Ticks == [stage : {"idle", "load", "create", "enqueue", "prune"}, now : Nat, version : Nat]
TypeOK ==
    /\ forEach \in BOOLEAN /\ task \in Record /\ runs \in Seq(Run)
    /\ jobs \subseteq Jobs /\ handlers \subseteq Handlers
    /\ ticks \in [Node -> Ticks] /\ clock \in Nat /\ faults \in Nat
    /\ twice \subseteq Nat /\ delivered \subseteq Nat \X Subject /\ outdated \subseteq Node

\* "At most one run per task is active (queued or running) at a time.  That is
\* the scheduler's non-overlap rule, and it holds across processes"
\* (schedulerstate.go), whatever is delivered twice, late or never.
OneActiveRun == \A r, q \in ActiveRuns : r = q

\* "A run is abandoned only when its result is genuinely lost, never merely
\* because a script was slow" (scheduler.go): while a handler that keeps to its
\* timeout executes a run or a subject of it, the run is never abandoned; and it
\* goes on running, unless a subject of it was given out twice: then one of its
\* two handlers may settle it under the other, and end the run.
WorkersOwnTheirRun ==
    \A h \in handlers : LET r == h.job.run IN
        OnTime(h, clock) => /\ runs[r].status # "abandoned"
                            /\ runs[r].status = "running" \/ r \in twice

\* A run's script, or its expansion, is executed by one handler at most, whatever
\* the queue does.  Handlers that keep to their timeout never execute the same
\* subject side by side, nor those of two runs, but for a subject given out twice.
NoOverlap ==
    \A h, k \in handlers :
        /\ h.job.run = k.job.run /\ h.job.subject = Whole /\ k.job.subject = Whole => h = k
        /\ /\ OnTime(h, clock) /\ OnTime(k, clock)
           /\ {h.job.run, k.job.run} \cap twice = {}
           => h.job.run = k.job.run /\ (h.job.subject = k.job.subject => h = k)

Settled(r) == {s \in Subject : runs[r].kids[s] \in {"succeeded", "failed"}}
Expected(r) == {s \in Subject : runs[r].kids[s] # "none"}

\* A for_each run never claims more than happened: its counters stay behind the
\* subjects' keys when a crash comes between them, and it succeeds only if every
\* subject did (BUG-1YMHIS: "expansion succeeded" is not "the task ran").
RunsEndTruthfully ==
    \A r \in RunIds : runs[r].status # "dropped" =>
        /\ runs[r].settled <= Cardinality(Settled(r))
        /\ runs[r].children = Cardinality(Expected(r))
        /\ runs[r].status = "succeeded" =>
             \A s \in Expected(r) : runs[r].kids[s] = "succeeded"

\* A recorded success is never lost to the schedule: the task's last run is at
\* least that run's start, however late other results come.
SuccessCounts ==
    \A r \in RunIds : runs[r].status = "succeeded" => task.lastRun >= runs[r].created

\* A task climbs its ladder only for a run that failed and is not older than its
\* last success: an old failure "must not resurrect a ladder for a task that has
\* since succeeded" (schedulerstate.go), nor does a success leave one behind.
LadderHasCause ==
    Failing(task) /\ task.version # 0 =>
        \E r \in RunIds : /\ runs[r].status \in {"failed", "abandoned", "dropped"}
                          /\ runs[r].created >= task.lastRun

\* A run is created only for a task that is due as it stands then, not as the
\* tick remembers it ("the caller's decision that the task is due may no longer
\* hold", ErrStale), unless the record was pruned after the tick read it: the
\* next record counts its versions from the start, and may reach the same.
CreatedWhenDue ==
    [][Len(runs') > Len(runs) =>
         \/ dueReason(task, runs'[Len(runs')].created)
         \/ \E n \in outdated : ticks'[n].stage = "enqueue"]_vars

\* A subject that was served in an occurrence is not served again in it: not by
\* a redelivered child, nor by the retry of a failed or abandoned run
\* ("dropping one would let a retry re-send", kvstate.go), unless the run has
\* waited so long that what it should know may be pruned.
ServedOnce ==
    [][\A h \in handlers' \ handlers : LET r == h.job.run IN
         h.job.subject # Whole /\ ~h.detached /\ clock < runs[r].created + DayLength =>
           <<runs[r].occurrence, h.job.subject>> \notin delivered]_vars

\* Every active run ends, whatever is lost (BUG-TKL08E: a lost completion
\* stalled the scheduler), as far as its lease lies within the bounded time; but
\* not one whose reap panics.
RunsEnd ==
    \A r \in 1 .. MaxRuns :
        (r \in ActiveRuns) ~> (r \notin ActiveRuns \/ runs[r].until >= MaxTime \/ Panics(r))

\* "A run whose worker vanished is abandoned when its lease expires
\* (BUG-TKL08E)" (scheduler.go), without that exception.
LostRunsEnd ==
    \A r \in 1 .. MaxRuns :
        (r \in ActiveRuns) ~> (r \notin ActiveRuns \/ runs[r].until >= MaxTime)

\* A task is owed a run when its schedule or its retry time has come, or when its
\* retry time is further off than a failure can set it: a clock's jump must not
\* park a task (ClampRetry).
Owed ==
    IF Failing(task) THEN task.nextRetry \notin clock + 1 .. clock + MaxRetryDelay
                     ELSE task.lastRun = 0 \/ IsDue(task.lastRun, clock)

\* Such a task is run, or has an active run, as far as the bound on runs allows:
\* no lost job, dead handler or failed call holds it for good.  An active run
\* whose reap panics does (RunsEnd excepts it): no other run comes beside it.
OwedTasksRun == Owed ~> (~Owed \/ ActiveRuns # {} \/ Len(runs) = MaxRuns)

=============================================================================
