----------------------- MODULE SchedulerServedProofs -----------------------
(***************************************************************************)
(* Theorems about who is served again: a subject that was served in an     *)
(* occurrence is not served in it again.  The record of it is the key of   *)
(* some run, so the proof follows what may forget a key: the pruning and   *)
(* the trimming of ended runs.                                             *)
(***************************************************************************)
EXTENDS SchedulerWorkProofs

\* Runs are created in the order of their occurrences.
InOrder == \A p, q \in RunIds : p <= q => runs[p].occurrence <= runs[q].occurrence

\* The run that is active is the last one.
LastLive == \A r \in ActiveRuns : \A q \in RunIds : q <= r

\* A plain task serves no subjects.
Plain ==
    ~forEach => /\ \A h \in handlers : h.stage = "work"
                /\ \A r \in RunIds, s \in Subject : runs[r].kids[s] # "pending"

\* What was written at a time, was not written before it; a run that has ended
\* left the task a record.
Dated ==
    /\ clock >= 1 /\ task.lastRun <= clock /\ task.lastRun <= task.touched
    /\ \A n \in Node : ticks[n].stage \in {"load", "create"} => ticks[n].now \in 1 .. clock
    /\ \A r \in RunIds :
         /\ runs[r].created \in 1 .. clock
         /\ runs[r].occurrence = IF forEach THEN Occurrence(runs[r].created) ELSE 0
         /\ runs[r].status \in Ended =>
              /\ runs[r].until >= runs[r].created
              /\ task # NoRecord /\ task.touched >= runs[r].created

\* No run of the occurrence is within a day of its creation.
Lapsed(o) == \A t \in Nat : Occurrence(t) = o => t + DayLength <= clock

\* A delivery is remembered by the key of a run, unless its occurrence is over.
Recalled ==
    forEach => \A o \in Nat, s \in Subject : <<o, s>> \in delivered =>
        \/ \E q \in RunIds : runs[q].occurrence = o /\ runs[q].kids[s] = "succeeded"
        \/ Lapsed(o)
        \/ \E q \in RunIds : runs[q].occurrence > o

Expects(r, s) == \E h \in handlers : h.job.run = r /\ h.stage = "expect" /\ s \in h.todo
Fresh(r) == runs[r].status \in Live /\ clock < runs[r].created + DayLength

\* What a run that can act waits to serve was not served.
Unserved ==
    \A r \in RunIds, s \in Subject :
        Fresh(r) /\ (runs[r].kids[s] = "pending" \/ Expects(r, s))
            => <<runs[r].occurrence, s>> \notin delivered

-----------------------------------------------------------------------------
(* Days, and the trimming of ended runs. *)

LEMMA Days ==
    ASSUME NEW t \in Nat, NEW u \in Nat
    PROVE  /\ Occurrence(t) \in Nat
           /\ t <= u => Occurrence(t) <= Occurrence(u)
           /\ Occurrence(t) = Occurrence(u) => t < u + DayLength
<1>1. DayLength \in Nat \ {0}
  BY SchedulerAssumption
<1>2. /\ t = DayLength * (t \div DayLength) + (t % DayLength)
      /\ u = DayLength * (u \div DayLength) + (u % DayLength)
      /\ (t % DayLength) \in 0 .. DayLength - 1 /\ (u % DayLength) \in 0 .. DayLength - 1
      /\ t \div DayLength \in Nat /\ u \div DayLength \in Nat
  BY <1>1
<1> QED
  BY <1>1, <1>2 DEF Occurrence

\* When the last run has ended it stays, and so do those of its occurrence.
LEMMA TrimmedLast ==
    ASSUME NEW n \in Nat \ {0}, NEW rs \in [1 .. n -> Run], rs[n].status \in Ended
    PROVE  /\ Trimmed(rs)[n] = rs[n]
           /\ \A q \in 1 .. n : \/ Trimmed(rs)[q] = rs[q]
                                \/ /\ rs[q].status \in Ended /\ q < n
                                   /\ Trimmed(rs)[q] = Dropped(rs[q])
                                   /\ forEach => rs[q].occurrence # rs[n].occurrence
<1> DEFINE ended == {r \in DOMAIN rs : rs[r].status \in Ended}
           newer(r) == {q \in ended : q > r}
           current == {rs[r].occurrence : r \in {q \in ended : newer(q) = {}}}
<1>1. newer(n) = {} /\ n \in ended
  OBVIOUS
<1>2. rs[n].occurrence \in current
  BY <1>1
<1>3. ~(Cardinality(newer(n)) >= KeepEndedRuns)
  <2>1. Cardinality({}) = 0
    BY FS_EmptySet
  <2> HIDE DEF newer
  <2>2. Cardinality(newer(n)) = 0
    BY <1>1, <2>1
  <2>3. KeepEndedRuns \in Nat \ {0}
    BY Constants
  <2> QED
    BY <2>2, <2>3
<1>4. \A r \in 1 .. n :
        Trimmed(rs)[r] = IF /\ r \in ended
                            /\ Cardinality(newer(r)) >= KeepEndedRuns
                            /\ ~forEach \/ rs[r].occurrence \notin current
                           THEN Dropped(rs[r]) ELSE rs[r]
  BY DEF Trimmed, Dropped
<1> HIDE DEF current, newer
<1>5. n \in 1 .. n
  OBVIOUS
<1> QED
  BY <1>2, <1>3, <1>4, <1>5

-----------------------------------------------------------------------------
(* What a step does to the runs and the record, run by run.                  *)

\* A key that says a subject was served is kept.
KeysStay(q) == \A s \in Subject : runs[q].kids[s] = "succeeded" => runs'[q].kids[s] = "succeeded"

\* A run goes on, or has ended before; it ends now; its record is dropped.
GoesOn(q) ==
    /\ KeysStay(q)
    /\ runs'[q].status \in Ended =>
         runs[q].status \in Ended /\ runs'[q].until = runs[q].until
Ends(q) ==
    /\ KeysStay(q) /\ runs'[q].until = clock
    /\ \E ok \in BOOLEAN : task' = ApplyOutcome(task, runs[q].created, ok, clock)
IsDropped(q) ==
    /\ runs[q].status \in Ended /\ runs'[q] = Dropped(runs[q])
    /\ \/ runs[q].until + PruneAge < clock
       \/ task # NoRecord /\ task.touched + PruneAge < clock
       \/ task = NoRecord
       \/ \E r \in RunIds : q < r /\ (forEach => runs[q].occurrence # runs[r].occurrence)

RunsMove == \A q \in RunIds : GoesOn(q) \/ Ends(q) \/ IsDropped(q)
RecordMove ==
    \/ task' = task
    \/ \E r \in RunIds, ok \in BOOLEAN :
         task' = ApplyOutcome(task, runs[r].created, ok, clock)
    \/ task' = NoRecord /\ \A r \in RunIds : runs'[r].status \notin Ended

\* Subjects to be served come from an expansion.
PendingMove ==
    \A q \in RunIds, s \in Subject :
        runs'[q].kids[s] = "pending" => runs[q].kids[s] = "pending" \/ Expects(q, s)

Moves == RunsMove /\ RecordMove /\ PendingMove

\* A subject that waits is served by the active run.
DeliverMove ==
    \/ delivered' = delivered
    \/ \E r \in ActiveRuns, s \in Subject :
         /\ delivered' = delivered \cup {<<runs[r].occurrence, s>>}
         /\ runs[r].kids[s] = "pending" /\ runs'[r].kids[s] = "succeeded"

LEMMA StillMoves ==
    ASSUME UNCHANGED <<runs, task>>
    PROVE  Moves
BY DEF Moves, RunsMove, RecordMove, PendingMove, GoesOn, KeysStay

\* The document of run r becomes doc.
Keeps(doc, run) ==
    /\ doc \in Run
    /\ \A s \in Subject : run.kids[s] = "succeeded" => doc.kids[s] = "succeeded"

LEMMA UpdateMoves ==
    ASSUME TypeInv, NEW r \in RunIds, NEW doc, Keeps(doc, runs[r]),
           doc.status \in Ended => runs[r].status \in Ended /\ doc.until = runs[r].until,
           runs' = [runs EXCEPT ![r] = doc], task' = task
    PROVE  /\ RunsMove /\ RecordMove
           /\ \A q \in RunIds : runs'[q] = IF q = r THEN doc ELSE runs[q]
<1>1. \A q \in RunIds : runs'[q] = IF q = r THEN doc ELSE runs[q]
  BY TypedRuns DEF TypeInv
<1> QED
  BY <1>1 DEF RunsMove, RecordMove, GoesOn, KeysStay, Keeps

LEMMA LastActive ==
    ASSUME TypeInv, LastLive, NEW r \in ActiveRuns
    PROVE  r = Len(runs) /\ Len(runs) \in Nat \ {0}
<1>1. /\ Len(runs) \in Nat /\ RunIds = 1 .. Len(runs) /\ r \in RunIds
  BY TypedRuns DEF TypeInv, ActiveRuns
<1>2. Len(runs) \in RunIds
  BY <1>1
<1>3. Len(runs) <= r
  BY <1>2 DEF LastLive
<1> QED
  BY <1>1, <1>3

LEMMA EndMoves ==
    ASSUME TypeInv, LastLive, NEW r \in ActiveRuns, NEW doc, Keeps(doc, runs[r]),
           doc.occurrence = runs[r].occurrence, doc.created = runs[r].created,
           NEW rs, rs = [runs EXCEPT ![r] = doc],
           NEW status \in Ended, NEW ok \in BOOLEAN, End(rs, r, status, ok, clock)
    PROVE  /\ RunsMove /\ RecordMove
           /\ runs'[r].kids = doc.kids
           /\ \A q \in RunIds \ {r}, s \in Subject :
                runs'[q].kids[s] = "pending" => runs[q].kids[s] = "pending"
<1> DEFINE es == [rs EXCEPT ![r].status = status, ![r].until = clock]
           end == EndedDoc(doc, status, clock)
<1>1. /\ Len(runs) \in Nat /\ RunIds = 1 .. Len(runs) /\ runs \in [RunIds -> Run]
      /\ clock \in Nat /\ r \in RunIds
  BY TypedRuns DEF TypeInv, TypeOK, ActiveRuns
<1>2. r = Len(runs) /\ Len(runs) \in Nat \ {0}
  BY LastActive
<1>3. rs \in [RunIds -> Run] /\ rs[r] = doc
  BY <1>1 DEF Keeps
<1>4. /\ end \in Run /\ end.status = status /\ end.until = clock /\ end.kids = doc.kids
      /\ end.occurrence = runs[r].occurrence
  BY <1>1, EndedDocIs DEF EndedDoc, Run, Keeps
<1>5. es = [rs EXCEPT ![r] = end]
  BY <1>3 DEF EndedDoc
<1>6. runs' = Trimmed(es) /\ task' = ApplyOutcome(task, runs[r].created, ok, clock)
  BY <1>3 DEF End
<1> HIDE DEF es, end
<1>7. /\ es \in [1 .. Len(runs) -> Run]
      /\ \A q \in RunIds : es[q] = IF q = r THEN end ELSE runs[q]
  BY <1>1, <1>3, <1>4, <1>5
<1>8. /\ runs'[r] = end
      /\ \A q \in RunIds : \/ runs'[q] = es[q]
                           \/ /\ es[q].status \in Ended /\ q < r
                              /\ runs'[q] = Dropped(es[q])
                              /\ forEach => es[q].occurrence # end.occurrence
  <2>1. es[Len(runs)] = end /\ es[Len(runs)].status \in Ended
    BY <1>2, <1>1, <1>4, <1>7
  <2>2. /\ Trimmed(es)[Len(runs)] = es[Len(runs)]
        /\ \A q \in 1 .. Len(runs) :
             \/ Trimmed(es)[q] = es[q]
             \/ /\ es[q].status \in Ended /\ q < Len(runs)
                /\ Trimmed(es)[q] = Dropped(es[q])
                /\ forEach => es[q].occurrence # es[Len(runs)].occurrence
    BY <1>2, <1>7, <2>1, TrimmedLast
  <2> QED
    BY <1>1, <1>2, <1>6, <2>1, <2>2
<1>9. ASSUME NEW q \in RunIds \ {r}
      PROVE  /\ GoesOn(q) \/ IsDropped(q)
             /\ \A s \in Subject : runs'[q].kids[s] = "pending" => runs[q].kids[s] = "pending"
  <2>1. CASE runs'[q] = runs[q]
    BY <2>1 DEF GoesOn, KeysStay
  <2>2. CASE /\ runs[q].status \in Ended /\ q < r
             /\ runs'[q] = Dropped(runs[q])
             /\ forEach => runs[q].occurrence # runs[r].occurrence
    <3>1. Dropped(runs[q]).kids = NoKids
      BY <1>1, DroppedType
    <3> QED
      BY <1>1, <2>2, <3>1, NoKidsIs DEF IsDropped
  <2> QED
    BY <1>4, <1>7, <1>8, <2>1, <2>2
<1>10. Ends(r)
  BY <1>4, <1>6, <1>8 DEF Ends, KeysStay, Keeps
<1> QED
  BY <1>1, <1>4, <1>6, <1>8, <1>9, <1>10 DEF RunsMove, RecordMove

LEMMA FinishMoves ==
    ASSUME TypeInv, LastLive, NEW r \in RunIds, NEW ok \in BOOLEAN, FinishRun(r, ok)
    PROVE  Moves
<1>1. CASE runs[r].status \in Live
  <2>1. End(runs, r, Outcome(ok), ok, clock) /\ Outcome(ok) \in Ended
    BY <1>1, OutcomeEnds DEF FinishRun, Live
  <2>2. runs = [runs EXCEPT ![r] = runs[r]] /\ Keeps(runs[r], runs[r])
    BY TypedRuns DEF TypeInv, Keeps
  <2>3. r \in ActiveRuns
    BY <1>1 DEF ActiveRuns
  <2>4. /\ RunsMove /\ RecordMove
        /\ runs'[r].kids = runs[r].kids
        /\ \A q \in RunIds \ {r}, s \in Subject :
             runs'[q].kids[s] = "pending" => runs[q].kids[s] = "pending"
    BY <2>1, <2>2, <2>3, EndMoves
  <2> QED
    BY <2>4 DEF Moves, PendingMove
<1>2. CASE runs[r].status = "abandoned" /\ ok
  <2>1. task' = ApplyOutcome(task, runs[r].created, TRUE, clock) /\ runs' = runs
    BY <1>2 DEF FinishRun, Live
  <2> QED
    BY <2>1 DEF Moves, RunsMove, RecordMove, PendingMove, GoesOn, KeysStay
<1>3. CASE ~(runs[r].status \in Live) /\ ~(runs[r].status = "abandoned" /\ ok)
  BY <1>3, StillMoves DEF FinishRun
<1> QED
  BY <1>1, <1>2, <1>3

LEMMA SettleMoves ==
    ASSUME TypeInv, LastLive, NEW r \in RunIds, NEW s \in Subject, NEW ok \in BOOLEAN,
           NEW cost, settleChild(r, s, ok, cost)
    PROVE  Moves /\ DeliverMove
<1> DEFINE run == runs[r]
           key == KeyedDoc(run, s, ok)
           doc == SettledDoc(run, s, ok)
<1>1. run \in Run /\ clock \in Nat
  BY TypedRuns DEF TypeInv, TypeOK
<1>2. CASE UNCHANGED <<runs, task, delivered>>
  BY <1>2, StillMoves DEF DeliverMove
<1>3. CASE run.kids[s] # "pending"
  BY <1>2, <1>3 DEF settleChild, SettleChild
<1>4. CASE run.kids[s] = "pending" /\ ~UNCHANGED <<runs, task, delivered>>
  <2>1. /\ key \in Run /\ key.status = run.status /\ key.until = run.until
        /\ key.kids[s] = Outcome(ok)
        /\ \A x \in Subject \ {s} : key.kids[x] = run.kids[x]
        /\ key.settled = run.settled /\ key.failed = run.failed
    BY <1>1, KeyedDocIs
  <2>2. /\ run.settled + 1 \in Nat /\ (IF ok THEN run.failed ELSE run.failed + 1) \in Nat
    BY <1>1 DEF Run
  <2>3. /\ doc \in Run /\ doc.status = run.status /\ doc.until = run.until
        /\ doc.kids = key.kids
    <3> HIDE DEF key
    <3> DEFINE a == run.settled + 1
               b == IF ok THEN run.failed ELSE run.failed + 1
    <3>1. doc = TallyDoc(key, a, b) /\ a \in Nat /\ b \in Nat
      BY <2>2 DEF SettledDoc, key
    <3> HIDE DEF a, b, doc
    <3>2. /\ doc \in Run /\ doc.status = key.status /\ doc.until = key.until
          /\ doc.kids = key.kids
      BY <2>1, <3>1, TallyDocIs, SMTT(30)
    <3> QED
      BY <2>1, <3>2
  <2>4. key.occurrence = run.occurrence /\ key.created = run.created
    BY <1>1 DEF KeyedDoc, Run
  <2>5. doc.occurrence = run.occurrence /\ doc.created = run.created
    <3> HIDE DEF key
    <3> DEFINE a == run.settled + 1
               b == IF ok THEN run.failed ELSE run.failed + 1
    <3>1. doc = TallyDoc(key, a, b)
      BY DEF SettledDoc, key
    <3> HIDE DEF a, b, doc
    <3> QED
      BY <2>1, <2>4, <3>1 DEF TallyDoc, Run
  <2>6. /\ SettleKey(r, s, ok) = [runs EXCEPT ![r] = key]
        /\ Counted(r, s, ok) = [runs EXCEPT ![r] = doc]
    BY SettleForms
  <2> DEFINE well == doc.failed = 0
  <2>7. /\ \/ runs' = SettleKey(r, s, ok) /\ task' = task
           \/ runs' = Counted(r, s, ok) /\ task' = task
           \/ run.status \in Live /\ End(Counted(r, s, ok), r, Outcome(well), well, clock)
        /\ delivered' = IF ok /\ run.status \in Live
                          THEN delivered \cup {<<run.occurrence, s>>} ELSE delivered
    <3>1. Counted(r, s, ok)[r] = doc
      BY <2>6, TypedRuns DEF TypeInv
    <3> HIDE DEF doc
    <3> QED
      BY <1>4, <2>3, <3>1 DEF settleChild, SettleChild, Counted
  <2> HIDE DEF key, doc
  <2>8. Keeps(key, run) /\ Keeps(doc, run)
    BY <1>4, <2>1, <2>3 DEF Keeps
  <2>9. /\ RunsMove /\ RecordMove /\ runs'[r].kids = key.kids
        /\ \A q \in RunIds \ {r}, x \in Subject :
             runs'[q].kids[x] = "pending" => runs[q].kids[x] = "pending"
    <3>1. CASE runs' = SettleKey(r, s, ok) /\ task' = task
      <4>1. runs' = [runs EXCEPT ![r] = key] /\ task' = task /\ Keeps(key, run)
        BY <2>6, <2>8, <3>1
      <4>2. key.status \in Ended => run.status \in Ended /\ key.until = run.until
        BY <2>1
      <4>3. /\ RunsMove /\ RecordMove
            /\ \A q \in RunIds : runs'[q] = IF q = r THEN key ELSE runs[q]
        BY <4>1, <4>2, UpdateMoves
      <4> QED
        BY <4>3
    <3>2. CASE runs' = Counted(r, s, ok) /\ task' = task
      <4>1. runs' = [runs EXCEPT ![r] = doc] /\ task' = task /\ Keeps(doc, run)
        BY <2>6, <2>8, <3>2
      <4>2. doc.status \in Ended => run.status \in Ended /\ doc.until = run.until
        BY <2>3
      <4>3. /\ RunsMove /\ RecordMove
            /\ \A q \in RunIds : runs'[q] = IF q = r THEN doc ELSE runs[q]
        BY <4>1, <4>2, UpdateMoves
      <4> QED
        BY <2>3, <4>3
    <3>3. CASE run.status \in Live /\ End(Counted(r, s, ok), r, Outcome(well), well, clock)
      <4>1. r \in ActiveRuns /\ Outcome(well) \in Ended /\ well \in BOOLEAN
        BY <3>3, OutcomeEnds DEF ActiveRuns
      <4> QED
        <5>1. Keeps(doc, run) /\ doc.occurrence = run.occurrence /\ doc.created = run.created
          BY <2>5, <2>8
        <5>2. Counted(r, s, ok) = [runs EXCEPT ![r] = doc]
          BY <2>6
        <5>3. End(Counted(r, s, ok), r, Outcome(well), well, clock)
          BY <3>3
        <5>4. /\ RunsMove /\ RecordMove /\ runs'[r].kids = doc.kids
              /\ \A q \in RunIds \ {r}, x \in Subject :
                   runs'[q].kids[x] = "pending" => runs[q].kids[x] = "pending"
          BY <4>1, <5>1, <5>2, <5>3, EndMoves, ZenonT(30)
        <5> QED
          BY <2>3, <5>4
    <3> QED
      BY <2>7, <3>1, <3>2, <3>3
  <2>10. \A x \in Subject : key.kids[x] = "pending" => run.kids[x] = "pending"
    BY <1>4, <2>1
  <2>11. Moves
    BY <2>9, <2>10 DEF Moves, PendingMove
  <2>12. DeliverMove
    BY <1>4, <2>1, <2>7, <2>9 DEF DeliverMove, ActiveRuns, Outcome
  <2> QED
    BY <2>11, <2>12
<1> QED
  BY <1>2, <1>3, <1>4

-----------------------------------------------------------------------------
(* Every step in these terms. *)

\* A tick that reads or decides remembers when it began, or begins now.
Reads(k) == k.stage \in {"load", "create"}
TicksMove ==
    \A m \in Node : Reads(ticks'[m]) =>
        ticks'[m].now = clock \/ (Reads(ticks[m]) /\ ticks'[m].now = ticks[m].now)

\* A handler that the queue has let go does what it did.
LetGoFrom(h) ==
    h.detached /\ \E k \in handlers : k.job = h.job /\ k.stage = h.stage /\ k.todo = h.todo

\* A handler that starts works on a subject it claimed, on the run itself, or on
\* its expansion, which reads the subjects in a step of its own.
HandlersMove ==
    \A h \in handlers' \ handlers :
        \/ h.stage = "work" /\ (h.job.subject = Whole \/ MayClaim(h.job.run, h.job.subject))
        \/ /\ h.stage # "work" /\ h.job.subject = Whole /\ forEach
           /\ h.stage = "expect" =>
                /\ h.todo = Subject \ SucceededSubjects(runs[h.job.run].occurrence)
                /\ UNCHANGED <<runs, delivered>>
        \/ LetGoFrom(h)

LEMMA TicksMoveBy ==
    ASSUME TypeInv, NEW n \in Node, NEW k, ticks' = [ticks EXCEPT ![n] = k],
           Reads(k) => k.now = clock \/ (Reads(ticks[n]) /\ k.now = ticks[n].now)
    PROVE  TicksMove
<1>1. \A m \in Node : ticks'[m] = IF m = n THEN k ELSE ticks[m]
  BY StillQueue
<1> QED
  BY <1>1 DEF TicksMove

LEMMA TicksMoveOn ==
    ASSUME TypeInv, NEW n \in Node, Tick(n) \/ TickDies(n)
    PROVE  TicksMove
<1>1. ticks[n] \in Ticks /\ Len(runs) + 1 \in Nat /\ task.version \in Nat /\ clock \in Nat
  BY StillQueue, TypedRuns DEF TypeInv, Record
<1>2. /\ ~Reads(Idle) /\ ~Reads(Pruning)
      /\ ~Reads(Enqueuing(ticks[n], Len(runs) + 1))
      /\ Loading(clock).now = clock
      /\ Creating(ticks[n], task.version).now = ticks[n].now
  <2>1. Loading(clock).now = clock
    BY DEF Loading, Idle
  <2> QED
    BY <1>1, <2>1, TickForms, ZenonT(30) DEF Reads
<1>3. \/ ticks' = [ticks EXCEPT ![n] = Idle] \/ ticks' = [ticks EXCEPT ![n] = Pruning]
      \/ ticks' = [ticks EXCEPT ![n] = Loading(clock)]
      \/ Reads(ticks[n]) /\ ticks' = [ticks EXCEPT ![n] = Creating(ticks[n], task.version)]
      \/ ticks' = [ticks EXCEPT ![n] = Enqueuing(ticks[n], Len(runs) + 1)]
      \/ ticks' = ticks
  BY ZenonT(30) DEF Tick, TickDies, Reap, Load, CreateRun, Enqueue, Prune, Loading, Creating, Enqueuing, Reads
<1>4. ticks' = ticks => TicksMove
  BY DEF TicksMove
<1> QED
  BY <1>2, <1>3, <1>4, TicksMoveBy

LEMMA PruneMoves ==
    ASSUME TypeInv, NEW n \in Node, Prune(n)
    PROVE  Moves
<1> DEFINE old(at) == at + PruneAge < clock
           taskGone == task # NoRecord /\ old(task.touched) /\ ActiveRuns = {}
           gone == {r \in RunIds : runs[r].status \in Ended
                                     /\ (old(runs[r].until) \/ taskGone \/ task = NoRecord)}
<1>1. CASE UNCHANGED <<task, runs>>
  BY <1>1, StillMoves
<1>2. CASE /\ task' = IF taskGone THEN NoRecord ELSE task
           /\ runs' = [r \in RunIds |-> IF r \in gone THEN Dropped(runs[r]) ELSE runs[r]]
  <2>1. \A q \in RunIds : runs'[q] = IF q \in gone THEN Dropped(runs[q]) ELSE runs[q]
    BY <1>2
  <2>2. \A q \in RunIds : Dropped(runs[q]).kids = NoKids /\ Dropped(runs[q]).status = "dropped"
    BY TypedRuns, DroppedType DEF TypeInv
  <2>3. RunsMove
    BY <2>1 DEF RunsMove, GoesOn, KeysStay, IsDropped
  <2>4. RecordMove
    BY <1>2, <2>1, <2>2 DEF RecordMove, Ended
  <2>5. PendingMove
    BY <2>1, <2>2, NoKidsIs DEF PendingMove
  <2> QED
    BY <2>3, <2>4, <2>5 DEF Moves
<1> QED
  BY <1>1, <1>2 DEF Prune, Dropped

LEMMA ReapMoves ==
    ASSUME TypeInv, LastLive, NEW n \in Node, Reap(n)
    PROVE  Moves
<1>1. CASE UNCHANGED <<runs, task>>
  BY <1>1, StillMoves
<1>2. CASE ~UNCHANGED <<runs, task>>
  <2>1. PICK r \in Expired : End(runs, r, "abandoned", FALSE, clock)
    BY <1>2 DEF Reap
  <2>2. r \in ActiveRuns /\ r \in RunIds /\ "abandoned" \in Ended
    BY DEF Expired, ActiveRuns, Ended
  <2>3. runs = [runs EXCEPT ![r] = runs[r]] /\ Keeps(runs[r], runs[r])
    BY <2>2, TypedRuns DEF TypeInv, Keeps
  <2>4. /\ RunsMove /\ RecordMove
        /\ runs'[r].kids = runs[r].kids
        /\ \A q \in RunIds \ {r}, s \in Subject :
             runs'[q].kids[s] = "pending" => runs[q].kids[s] = "pending"
    BY <2>1, <2>2, <2>3, EndMoves
  <2> QED
    BY <2>4 DEF Moves, PendingMove
<1> QED
  BY <1>1, <1>2

\* What a scheduler does.
LEMMA SchedulerMoves ==
    ASSUME TypeInv, LastLive, NEW n \in Node, Tick(n) \/ TickDies(n)
    PROVE  /\ TicksMove /\ UNCHANGED <<handlers, delivered, clock>>
           /\ Moves \/ NewRunStep
<1>1. TicksMove
  BY TicksMoveOn, SMTT(30)
<1>2. UNCHANGED <<handlers, delivered, clock>>
  BY DEF Tick, TickDies, Reap, Load, CreateRun, Enqueue, Prune
<1>3. Moves \/ NewRunStep
  <2>1. CASE Reap(n)
    BY <2>1, ReapMoves
  <2>2. CASE Load(n) \/ TickDies(n)
    BY <2>2, StillMoves DEF Load, TickDies
  <2>3. CASE CreateRun(n)
    <3>1. CASE UNCHANGED runs
      BY <2>3, <3>1, StillMoves DEF CreateRun
    <3>2. CASE runs' = Append(runs, NewRun(ticks[n].now))
      <4>1. Len(runs') = Len(runs) + 1 /\ Len(runs) \in Nat
        BY <3>2 DEF TypeInv, TypeOK
      <4>2. RunsStep
        BY <2>3, CreateRunStep DEF GoodStep
      <4> QED
        BY <4>1, <4>2 DEF RunsStep, OldRuns
    <3> QED
      BY <2>3, <3>1, <3>2 DEF CreateRun
  <2>4. CASE Enqueue(n)
    <3>1. ticks[n].version \in RunIds
      BY <2>4 DEF Enqueue, TypeInv, Refs
    <3>2. FinishRun(ticks[n].version, FALSE) \/ UNCHANGED <<runs, task>>
      BY <2>4 DEF Enqueue, finish
    <3> QED
      BY <3>1, <3>2, StillMoves, FinishMoves
  <2>5. CASE Prune(n)
    BY <2>5, PruneMoves
  <2> QED
    BY <2>1, <2>2, <2>3, <2>4, <2>5 DEF Tick
<1> QED
  BY <1>1, <1>2, <1>3

\* A handler returns and starts no other.
LEMMA NobodyStarts ==
    ASSUME handlers' \subseteq handlers
    PROVE  HandlersMove
BY DEF HandlersMove

LEMMA FinishAndReturnMoves ==
    ASSUME TypeInv, LastLive, NEW h \in handlers, NEW ok \in BOOLEAN, NEW cost,
           FinishAndReturn(h, ok, cost), delivered' = delivered
    PROVE  Moves /\ DeliverMove /\ HandlersMove
<1>1. h.job.run \in RunIds
  BY HeldBy
<1>2. Moves
  BY <1>1, StillMoves, FinishMoves DEF FinishAndReturn
<1>3. handlers' \subseteq handlers
  BY DEF FinishAndReturn, Returned
<1> QED
  BY <1>2, <1>3, NobodyStarts DEF DeliverMove

LEMMA beginRunMoves ==
    ASSUME TypeInv, NEW j \in jobs, beginRun(j)
    PROVE  Moves /\ DeliverMove /\ HandlersMove
<1>1. j.run \in RunIds /\ j.subject = Whole /\ UNCHANGED <<task, delivered>>
  BY HeldBy DEF beginRun
<1>2. CASE UNCHANGED <<runs, handlers>>
  BY <1>1, <1>2, StillMoves, NobodyStarts DEF DeliverMove
<1>3. CASE /\ MayStart(j.run)
           /\ runs' = [runs EXCEPT ![j.run].status = "running",
                                   ![j.run].until = clock + RunningLease]
           /\ handlers' = handlers \cup {Handler(j, IF forEach THEN "select" ELSE "work")}
  <2> DEFINE r == j.run
             at == clock + RunningLease
             doc == EndedDoc(runs[r], "running", at)
             h == Handler(j, IF forEach THEN "select" ELSE "work")
  <2>1. runs' = [runs EXCEPT ![r] = doc]
    BY <1>3, <1>1, TypedRuns DEF EndedDoc, TypeInv
  <2>2. runs[r] \in Run /\ at \in Nat /\ "running" \in Live
    BY <1>1, LeaseEnds, TypedRuns DEF TypeInv, Live
  <2>3. h.job = j /\ h.stage = IF forEach THEN "select" ELSE "work"
    BY DEF Handler
  <2> HIDE DEF at
  <2>4. doc \in Run /\ doc.status = "running" /\ doc.kids = runs[r].kids
    BY <2>2, EndedDocIs
  <2>5. handlers' = handlers \cup {h}
    BY <1>3
  <2> HIDE DEF doc, h, r
  <2>6. r \in RunIds /\ Keeps(doc, runs[r]) /\ doc.status \notin Ended
    BY <1>1, <2>4 DEF Keeps, Ended, r
  <2>7. /\ RunsMove /\ RecordMove
        /\ \A q \in RunIds : runs'[q] = IF q = r THEN doc ELSE runs[q]
    BY <1>1, <2>1, <2>6, UpdateMoves
  <2>8. PendingMove
    BY <2>4, <2>7 DEF PendingMove
  <2>9. HandlersMove
    BY <1>1, <2>3, <2>5 DEF HandlersMove
  <2> QED
    BY <1>1, <2>7, <2>8, <2>9 DEF Moves, DeliverMove
<1> QED
  BY <1>2, <1>3 DEF beginRun

LEMMA StartChildMoves ==
    ASSUME TypeInv, NEW j \in jobs, StartChild(j)
    PROVE  Moves /\ DeliverMove /\ HandlersMove
<1>1. j.run \in RunIds /\ UNCHANGED <<task, delivered>>
  BY HeldBy DEF StartChild
<1>2. CASE UNCHANGED <<runs, handlers>>
  BY <1>1, <1>2, StillMoves, NobodyStarts DEF DeliverMove
<1>3. CASE /\ MayClaim(j.run, j.subject)
           /\ runs' = [runs EXCEPT ![j.run].until = Later(@, clock + RunningLease)]
           /\ handlers' = handlers \cup {Handler(j, "work")}
  <2> DEFINE r == j.run
             at == Later(runs[r].until, clock + RunningLease)
             doc == LeasedDoc(runs[r], at)
             h == Handler(j, "work")
  <2>1. runs' = [runs EXCEPT ![r] = doc]
    BY <1>3, <1>1, TypedRuns DEF LeasedDoc, TypeInv
  <2>2. runs[r] \in Run /\ at \in Nat
    BY <1>1, LeaseEnds, TypedRuns DEF TypeInv, Later, Run
  <2>3. h.job = j /\ h.stage = "work"
    BY DEF Handler
  <2> HIDE DEF at
  <2>4. doc \in Run /\ doc.status = runs[r].status /\ doc.kids = runs[r].kids
    BY <2>2, LeasedDocIs
  <2>5. handlers' = handlers \cup {h}
    BY <1>3
  <2> HIDE DEF doc, h
  <2>6. runs[r].status \notin Ended
    BY <1>3 DEF MayClaim, Ended, Live
  <2>7. /\ RunsMove /\ RecordMove
        /\ \A q \in RunIds : runs'[q] = IF q = r THEN doc ELSE runs[q]
    <3>1. Keeps(doc, runs[r]) /\ doc.status \notin Ended /\ r \in RunIds
      BY <1>1, <2>4, <2>6 DEF Keeps
    <3> HIDE DEF r
    <3> QED
      BY <1>1, <2>1, <3>1, UpdateMoves
  <2>8. PendingMove
    BY <2>4, <2>7 DEF PendingMove
  <2>9. HandlersMove
    BY <1>3, <2>3, <2>5 DEF HandlersMove
  <2> QED
    BY <1>1, <2>7, <2>8, <2>9 DEF Moves, DeliverMove
<1> QED
  BY <1>2, <1>3 DEF StartChild

LEMMA SelectMoves ==
    ASSUME TypeInv, WorkInv, LastLive, Plain, NEW h \in handlers, Select(h)
    PROVE  Moves /\ DeliverMove /\ HandlersMove
<1>1. h.stage = "select" /\ h.job.subject = Whole /\ forEach /\ delivered' = delivered
  BY Expanding DEF Select, Plain
<1>2. CASE FinishAndReturn(h, FALSE, 1)
  BY <1>1, <1>2, FinishAndReturnMoves
<1>3. ASSUME NEW todo, todo = Subject \ SucceededSubjects(runs[h.job.run].occurrence),
             handlers' = (handlers \ {h}) \cup {[h EXCEPT !.stage = "expect", !.todo = todo]},
             UNCHANGED <<runs, task>>
      PROVE  Moves /\ DeliverMove /\ HandlersMove
  <2> DEFINE g == [h EXCEPT !.stage = "expect", !.todo = todo]
  <2>1. g.job = h.job /\ g.stage = "expect" /\ g.todo = todo
    BY StillQueue DEF HandlerOK, Handlers
  <2>2. handlers' = (handlers \ {h}) \cup {g}
    BY <1>3
  <2> HIDE DEF g
  <2>3. HandlersMove
    BY <1>1, <1>3, <2>1, <2>2 DEF HandlersMove
  <2> QED
    BY <1>1, <1>3, <2>3, StillMoves DEF DeliverMove
<1> QED
  BY <1>2, <1>3 DEF Select

LEMMA ExpectMoves ==
    ASSUME TypeInv, WorkInv, LastLive, Plain, NEW h \in handlers, ExpectChildren(h)
    PROVE  Moves /\ DeliverMove /\ HandlersMove
<1>1. h.stage = "expect" /\ h.job.subject = Whole /\ forEach /\ delivered' = delivered
  BY Expanding DEF ExpectChildren, Plain
<1>2. CASE FinishAndReturn(h, TRUE, 0) \/ FinishAndReturn(h, FALSE, 0) \/ FinishAndReturn(h, FALSE, 1)
  BY <1>1, <1>2, FinishAndReturnMoves
<1>3. PICK r \in RunIds : r = h.job.run /\ h \in HandlersOf(r)
  BY HeldBy
<1>4. CASE /\ h.todo # {} /\ runs[r].status # "dropped"
           /\ runs' = Expecting(r, h.todo)
           /\ handlers' = (handlers \ {h}) \cup {[h EXCEPT !.stage = "enqueue"]}
           /\ task' = task
  <2> DEFINE kids == [s \in Subject |-> IF s \in h.todo THEN "pending" ELSE NoKids[s]]
             doc == ExpectingDoc(runs[r], Cardinality(h.todo), kids)
             g == [h EXCEPT !.stage = "enqueue"]
  <2>1. /\ runs[r] \in Run /\ Truthful(runs[r])
        /\ Custody(runs[r], JobsOf(r), HandlersOf(r), EnqueuersOf(r), TwiceOf(r), clock)
    BY Parts
  <2>2. h.todo \in SUBSET Subject
    BY StillQueue DEF HandlerOK, Handlers
  <2>3. g.job = h.job /\ g.stage = "enqueue"
    BY StillQueue DEF HandlerOK, Handlers
  <2>4. runs[r].kids = NoKids /\ runs[r].status \in {"running", "abandoned"}
    BY <1>1, <1>3, <1>4, <2>1 DEF Custody, Alone
  <2>5. /\ Cardinality(h.todo) \in Nat /\ kids \in [Subject -> Kid]
        /\ \A s \in Subject : kids[s] = "pending" => s \in h.todo
    <3>1. kids = [s \in Subject |-> IF s \in h.todo THEN "pending" ELSE NoKids[s]]
      OBVIOUS
    <3>2. kids \in [Subject -> Kid]
      BY NoKidsIs DEF Kid
    <3>3. \A s \in Subject : kids[s] = "pending" => s \in h.todo
      BY NoKidsIs
    <3>4. Cardinality(h.todo) \in Nat
      BY <2>2, Countable
    <3> QED
      BY <3>2, <3>3, <3>4
  <2>6. runs' = [runs EXCEPT ![r] = doc]
    <3>1. runs \in [RunIds -> Run]
      BY TypedRuns DEF TypeInv
    <3>2. kids = [s \in Subject |-> IF s \in h.todo THEN "pending" ELSE runs[r].kids[s]]
      BY <2>4
    <3> HIDE DEF kids
    <3>3. runs' = [runs EXCEPT ![r].children = Cardinality(h.todo), ![r].kids = kids]
      BY <1>4, <3>1, <3>2 DEF Expecting, Run
    <3> QED
      BY <3>1, <3>3 DEF ExpectingDoc
  <2>7. /\ doc \in Run /\ doc.status = runs[r].status /\ doc.until = runs[r].until
        /\ doc.kids = kids
    BY <2>1, <2>5, ExpectingDocIs
  <2> HIDE DEF doc, kids, g
  <2>8. Keeps(doc, runs[r])
    BY <2>4, <2>7, NoKidsIs DEF Keeps
  <2>9. /\ RunsMove /\ RecordMove
        /\ \A q \in RunIds : runs'[q] = IF q = r THEN doc ELSE runs[q]
    BY <1>4, <2>6, <2>7, <2>8, UpdateMoves
  <2>10. PendingMove
    BY <1>1, <1>3, <2>5, <2>7, <2>9 DEF PendingMove, Expects
  <2>11. handlers' = (handlers \ {h}) \cup {g}
    BY <1>4 DEF g
  <2>12. HandlersMove
    BY <1>1, <2>3, <2>11 DEF HandlersMove
  <2> QED
    BY <1>1, <2>9, <2>10, <2>12 DEF Moves, DeliverMove
<1> QED
  BY <1>2, <1>3, <1>4 DEF ExpectChildren, Expecting

LEMMA ChildMoves ==
    ASSUME TypeInv, WorkInv, LastLive, Plain, NEW h \in handlers, NEW s \in Subject,
           EnqueueChild(h, s) \/ runChildJob(h, s)
    PROVE  Moves /\ DeliverMove /\ HandlersMove
<1>1. h.job.run \in RunIds
  BY HeldBy
<1>2. CASE EnqueueChild(h, s)
  <2> DEFINE left == [h EXCEPT !.todo = h.todo \ {s}]
  <2>1. h.stage = "enqueue" /\ h.job.subject = Whole /\ forEach
    BY <1>2, Expanding DEF EnqueueChild, Plain
  <2>2. left.job = h.job /\ left.stage = h.stage
    BY StillQueue DEF HandlerOK, Handlers
  <2>3. handlers' \subseteq handlers \cup {left}
    BY <1>2 DEF EnqueueChild
  <2> HIDE DEF left
  <2>4. HandlersMove
    BY <2>1, <2>2, <2>3 DEF HandlersMove
  <2>5. UNCHANGED <<runs, task, delivered>> \/ settleChild(h.job.run, s, FALSE, 1)
    BY <1>2 DEF EnqueueChild
  <2> QED
    BY <1>1, <2>4, <2>5, StillMoves, SettleMoves DEF DeliverMove
<1>3. CASE runChildJob(h, s)
  <2>1. handlers' \subseteq handlers
    BY <1>3 DEF runChildJob, Returned
  <2>2. \/ UNCHANGED <<runs, task, delivered>>
        \/ \E ok \in BOOLEAN, cost \in {0, 1} : settleChild(h.job.run, s, ok, cost)
    BY <1>3 DEF runChildJob
  <2> QED
    BY <1>1, <2>1, <2>2, StillMoves, SettleMoves, NobodyStarts DEF DeliverMove
<1> QED
  BY <1>2, <1>3

LEMMA WorkMoves ==
    ASSUME TypeInv, WorkInv, LastLive, Plain, NEW h \in handlers, Work(h)
    PROVE  Moves /\ DeliverMove /\ HandlersMove /\ UNCHANGED <<ticks, clock>>
<1>1. UNCHANGED <<ticks, clock>>
  BY DEF Work, runTaskJob, Select, ExpectChildren, EnqueueChild, runChildJob
<1>2. CASE runTaskJob(h)
  BY <1>1, <1>2, FinishAndReturnMoves DEF runTaskJob
<1>3. CASE Select(h)
  BY <1>1, <1>3, SelectMoves
<1>4. CASE ExpectChildren(h)
  BY <1>1, <1>4, ExpectMoves
<1>5. CASE \E s \in Subject : EnqueueChild(h, s) \/ runChildJob(h, s)
  BY <1>1, <1>5, ChildMoves
<1> QED
  BY <1>2, <1>3, <1>4, <1>5 DEF Work

LEMMA LetGoMoves ==
    ASSUME TypeInv, NEW h \in handlers, NEW next, LetGo(h, next)
    PROVE  Moves /\ DeliverMove /\ HandlersMove /\ UNCHANGED <<ticks, clock>>
<1> DEFINE g == [h EXCEPT !.detached = TRUE]
<1>1. /\ handlers' = (handlers \ {h}) \cup {g}
      /\ UNCHANGED <<runs, task, delivered>> /\ UNCHANGED <<ticks, clock>>
  BY DEF LetGo
<1>2. g.job = h.job /\ g.stage = h.stage /\ g.todo = h.todo /\ g.detached
  BY StillQueue DEF HandlerOK, Handlers
<1> HIDE DEF g
<1>3. HandlersMove
  BY <1>1, <1>2 DEF HandlersMove, LetGoFrom
<1> QED
  BY <1>1, <1>3, StillMoves DEF DeliverMove

\* What the queue and the handlers do.
LEMMA HandlerMoves ==
    ASSUME TypeInv, WorkInv, LastLive, Plain,
           \/ \E j \in jobs : Deliver(j) \/ JobLost(j)
           \/ \E h \in handlers : Work(h) \/ HandlerDies(h) \/ GiveUp(h) \/ SessionLost(h)
           \/ TimePasses
    PROVE  /\ Moves /\ DeliverMove /\ HandlersMove
           /\ ticks' = ticks /\ clock' \in {clock, clock + 1}
<1>1. CASE (\E j \in jobs : JobLost(j)) \/ (\E h \in handlers : HandlerDies(h)) \/ TimePasses
  <2>1. /\ handlers' \subseteq handlers /\ UNCHANGED <<runs, task, delivered, ticks>>
        /\ clock' \in {clock, clock + 1}
    BY <1>1 DEF JobLost, HandlerDies, TimePasses
  <2> QED
    BY <2>1, StillMoves, NobodyStarts DEF DeliverMove
<1>2. ASSUME NEW j \in jobs, Deliver(j)
      PROVE  Moves /\ DeliverMove /\ HandlersMove /\ UNCHANGED <<ticks, clock>>
  <2>1. UNCHANGED <<ticks, clock>>
    BY <1>2 DEF Deliver, beginRun, StartChild
  <2> QED
    BY <1>2, <2>1, beginRunMoves, StartChildMoves DEF Deliver
<1>3. ASSUME NEW h \in handlers, Work(h)
      PROVE  Moves /\ DeliverMove /\ HandlersMove /\ UNCHANGED <<ticks, clock>>
  BY <1>3, WorkMoves
<1>4. ASSUME NEW h \in handlers, GiveUp(h) \/ SessionLost(h)
      PROVE  Moves /\ DeliverMove /\ HandlersMove /\ UNCHANGED <<ticks, clock>>
  BY <1>4, LetGoMoves DEF GiveUp, SessionLost
<1> QED
  BY <1>1, <1>2, <1>3, <1>4

\* Every step.
Together ==
    /\ TicksMove /\ HandlersMove /\ clock' \in {clock, clock + 1}
    /\ \/ Moves /\ DeliverMove /\ OldRuns
       \/ NewRunStep /\ UNCHANGED <<handlers, delivered, clock>>

LEMMA EveryMove ==
    ASSUME TypeInv, WorkInv, LastLive, Plain, [Next]_vars
    PROVE  Together
<1>1. RunsStep
  BY EveryStep DEF GoodStep
<1>2. ticks' = ticks => OldRuns
  BY <1>1 DEF RunsStep, NewRunStep
<1>3. CASE UNCHANGED vars
  BY <1>2, <1>3, StillMoves DEF vars, Together, TicksMove, HandlersMove, DeliverMove
<1>4. ASSUME NEW n \in Node, Tick(n) \/ TickDies(n)
      PROVE  Together
  BY <1>1, <1>4, SchedulerMoves, NobodyStarts DEF Together, DeliverMove, RunsStep
<1>5. CASE \/ \E j \in jobs : Deliver(j) \/ JobLost(j)
           \/ \E h \in handlers : Work(h) \/ HandlerDies(h) \/ GiveUp(h) \/ SessionLost(h)
           \/ TimePasses
  BY <1>2, <1>5, HandlerMoves DEF Together, TicksMove
<1> QED
  BY <1>3, <1>4, <1>5 DEF Next

-----------------------------------------------------------------------------
(* The invariants. *)

LEMMA OldRunsAre ==
    ASSUME TypeInv, OldRuns
    PROVE  RunIds' = RunIds /\ \A r \in RunIds : Follows(runs'[r], runs[r])
BY DEF OldRuns, RunIds

LEMMA NewRunIs ==
    ASSUME TypeInv, NewRunStep
    PROVE  \E n \in Node :
             /\ Reads(ticks[n]) /\ ~Reads(ticks'[n]) /\ ticks[n].now \in Nat
             /\ RunIds' = RunIds \cup {Len(runs')} /\ Len(runs') \notin RunIds
             /\ \A q \in RunIds : q < Len(runs')
             /\ runs'[Len(runs')] = NewRun(ticks[n].now)
             /\ \A q \in RunIds : runs'[q] = runs[q]
             /\ task' = task /\ ActiveRuns = {}
<1>1. PICK n \in Node :
        /\ ticks[n].stage = "create" /\ ticks'[n].stage = "enqueue"
        /\ MayCreate(ticks[n].version)
        /\ runs' = Append(runs, NewRun(ticks[n].now)) /\ task' = task
  BY DEF NewRunStep
<1>2. /\ Len(runs) \in Nat /\ RunIds = 1 .. Len(runs) /\ runs \in Seq(Run)
      /\ ticks[n].now \in Nat
  BY TypedRuns, StillQueue DEF TypeInv, TypeOK, Ticks
<1>3. /\ Len(runs') = Len(runs) + 1 /\ runs'[Len(runs')] = NewRun(ticks[n].now)
      /\ \A q \in RunIds : runs'[q] = runs[q]
  BY <1>1, <1>2
<1>4. RunIds' = RunIds \cup {Len(runs')} /\ Len(runs') \notin RunIds
      /\ \A q \in RunIds : q < Len(runs')
  BY <1>2, <1>3 DEF RunIds
<1> QED
  BY <1>1, <1>2, <1>3, <1>4 DEF Reads, MayCreate

LEMMA LastLiveStep ==
    ASSUME TypeInv, LastLive, RunsStep
    PROVE  LastLive'
<1>1. CASE OldRuns
  <2>1. RunIds' = RunIds /\ ActiveRuns' \subseteq ActiveRuns
    BY <1>1, OldRunsAre DEF ActiveRuns, Follows, Live, Ended
  <2> QED
    BY <2>1 DEF LastLive
<1>2. CASE NewRunStep
  <2>1. /\ RunIds' = RunIds \cup {Len(runs')} /\ \A q \in RunIds : q < Len(runs')
        /\ \A q \in RunIds : runs'[q] = runs[q]
        /\ ActiveRuns = {}
    BY <1>2, NewRunIs
  <2>2. ActiveRuns' \subseteq {Len(runs')}
    BY <2>1 DEF ActiveRuns
  <2>3. RunIds \subseteq Nat /\ Len(runs') \in Nat
    <3>1. Len(runs') = Len(runs) + 1 /\ Len(runs) \in Nat
      BY <1>2 DEF NewRunStep, TypeInv, TypeOK
    <3> QED
      BY <3>1, TypedRuns DEF TypeInv
  <2>4. \A q \in RunIds' : q <= Len(runs')
    BY <2>1, <2>3
  <2> QED
    BY <2>2, <2>4 DEF LastLive
<1> QED
  BY <1>1, <1>2 DEF RunsStep

LEMMA PlainStep ==
    ASSUME TypeInv, Plain, Together, forEach' = forEach
    PROVE  Plain'
<1> SUFFICES ASSUME ~forEach
             PROVE  /\ \A h \in handlers' : h.stage = "work"
                    /\ \A r \in RunIds', s \in Subject : runs'[r].kids[s] # "pending"
  BY DEF Plain
<1>1. \A h \in handlers' : h.stage = "work"
  BY DEF Plain, Together, HandlersMove, LetGoFrom
<1>2. CASE Moves /\ OldRuns
  <2>1. ASSUME NEW r \in RunIds, NEW s \in Subject PROVE ~Expects(r, s)
    BY DEF Plain, Expects
  <2>2. RunIds' = RunIds
    BY <1>2, OldRunsAre
  <2> QED
    BY <1>1, <1>2, <2>1, <2>2 DEF Plain, Moves, PendingMove
<1>3. CASE NewRunStep
  <2>1. PICK now \in Nat : /\ RunIds' = RunIds \cup {Len(runs')}
                           /\ runs'[Len(runs')] = NewRun(now)
                           /\ \A q \in RunIds : runs'[q] = runs[q]
    BY <1>3, NewRunIs
  <2>2. \A s \in Subject : NewRun(now).kids[s] # "pending"
    BY NoKidsIs DEF NewRun
  <2> QED
    BY <1>1, <2>1, <2>2 DEF Plain
<1> QED
  BY <1>2, <1>3 DEF Together

\* What the end of a run does to the times of the task's record.
LEMMA OutcomeDates ==
    ASSUME NEW ts \in Record, NEW start \in Nat \ {0}, NEW ok \in BOOLEAN, NEW at \in Nat,
           start <= at, ts.lastRun <= at, ts.lastRun <= ts.touched,
           NEW new, new = ApplyOutcome(ts, start, ok, at)
    PROVE  /\ new # NoRecord /\ start <= new.touched
           /\ new.lastRun <= at /\ new.lastRun <= new.touched
           /\ new.touched \in {ts.touched, at}
<1>1. CASE ok /\ ts.lastRun < start
  <2>1. new.lastRun = start /\ new.touched = at
    BY <1>1 DEF ApplyOutcome
  <2> QED
    BY <2>1 DEF NoRecord
<1>2. CASE ~ok /\ ts.lastRun <= start
  <2> DEFINE d == at + retryDelay(ts.failures + 1)
  <2>1. d \in Nat
    BY DelayType DEF Record
  <2>2. new = Climbed(ts, d, at)
    BY <1>2 DEF ApplyOutcome, Climbed
  <2> HIDE DEF d
  <2>3. new.lastRun = ts.lastRun /\ new.version = ts.version + 1
    <3>1. /\ Climbed(ts, d, at).lastRun = ts.lastRun
          /\ Climbed(ts, d, at).version = ts.version + 1
      BY <2>1, ClimbedType
    <3> QED
      BY <2>2, <3>1
  <2>4. new.touched = at
    BY <2>2 DEF Climbed, Record
  <2>5. ts.version + 1 # 0
    BY DEF Record
  <2> QED
    BY <2>3, <2>4, <2>5 DEF NoRecord
<1>3. CASE ~(ok /\ ts.lastRun < start) /\ ~(~ok /\ ts.lastRun <= start)
  <2>1. new = ts
    BY <1>3 DEF ApplyOutcome
  <2>2. start <= ts.lastRun /\ ts.lastRun \in Nat /\ ts.touched \in Nat
    BY <1>3 DEF Record
  <2>3. ts # NoRecord
    BY <2>2 DEF NoRecord
  <2> QED
    BY <2>1, <2>2, <2>3
<1> QED
  BY <1>1, <1>2, <1>3

LEMMA DatedStep ==
    ASSUME TypeInv, TypeInv', Dated, Together, forEach' = forEach
    PROVE  Dated'
<1>1. /\ clock \in Nat \ {0} /\ clock' \in Nat /\ clock <= clock' /\ task \in Record /\ task' \in Record
      /\ \A r \in RunIds : runs[r] \in Run /\ runs[r].created \in Nat /\ runs[r].until \in Nat
  <2>1. clock \in Nat /\ task \in Record /\ clock' \in Nat /\ task' \in Record
    BY DEF TypeInv, TypeOK
  <2>2. clock >= 1 /\ clock <= clock'
    BY <2>1 DEF Dated, Together, NewRunStep
  <2>3. \A r \in RunIds : runs[r] \in Run
    BY TypedRuns DEF TypeInv
  <2> QED
    BY <2>1, <2>2, <2>3 DEF Run
<1>2. ASSUME NEW r \in RunIds, NEW ok \in BOOLEAN,
             task' = ApplyOutcome(task, runs[r].created, ok, clock)
      PROVE  /\ task' # NoRecord /\ runs[r].created <= task'.touched
             /\ task'.lastRun <= clock /\ task'.lastRun <= task'.touched
             /\ task'.touched \in {task.touched, clock}
  <2>1. /\ runs[r].created \in Nat \ {0} /\ runs[r].created <= clock /\ clock \in Nat
        /\ task.lastRun <= clock /\ task.lastRun <= task.touched
    BY <1>1 DEF Dated
  <2> QED
    BY <1>1, <1>2, <2>1, OutcomeDates
<1>3. /\ clock' >= 1 /\ task'.lastRun <= clock' /\ task'.lastRun <= task'.touched
  <2>1. task'.lastRun <= clock /\ task'.lastRun <= task'.touched
    <3>1. CASE task' = task
      BY <3>1 DEF Dated
    <3>2. CASE task' = NoRecord
      BY <1>1, <3>2 DEF NoRecord
    <3>3. CASE Moves /\ task' # task /\ task' # NoRecord
      <4>1. PICK r \in RunIds, ok \in BOOLEAN :
              task' = ApplyOutcome(task, runs[r].created, ok, clock)
        BY <3>3 DEF Moves, RecordMove
      <4> QED
        BY <1>2, <4>1
    <3> QED
      BY <3>1, <3>2, <3>3 DEF Together, NewRunStep
  <2>2. task'.lastRun \in Nat
    BY <1>1 DEF Record
  <2> QED
    BY <1>1, <2>1, <2>2
<1>4. \A n \in Node : Reads(ticks'[n]) => ticks'[n].now \in 1 .. clock'
  BY <1>1 DEF Together, TicksMove, Dated, Reads
<1>5. ASSUME NEW r \in RunIds, OldRuns, Moves, runs'[r].status \in Ended
      PROVE  /\ runs'[r].until >= runs[r].created
             /\ task' # NoRecord /\ task'.touched >= runs[r].created
  <2>1. runs[r].created \in 1 .. clock
    BY DEF Dated
  <2>2. ~IsDropped(r)
    BY <1>1, <1>5, DroppedType DEF IsDropped, Ended
  <2>3. CASE Ends(r)
    <3>1. PICK ok \in BOOLEAN : task' = ApplyOutcome(task, runs[r].created, ok, clock)
      BY <2>3 DEF Ends
    <3>2. runs'[r].until = clock
      BY <2>3 DEF Ends
    <3> QED
      BY <1>1, <1>2, <2>1, <3>1, <3>2
  <2>4. CASE GoesOn(r)
    <3>1. runs'[r].until = runs[r].until /\ runs[r].until >= runs[r].created
          /\ task # NoRecord /\ task.touched >= runs[r].created
      BY <1>5, <2>4 DEF GoesOn, Dated
    <3>2. CASE task' = task
      BY <3>1, <3>2
    <3>3. ASSUME NEW q \in RunIds, NEW ok \in BOOLEAN,
                 task' = ApplyOutcome(task, runs[q].created, ok, clock)
          PROVE  task' # NoRecord /\ task'.touched >= runs[r].created
      BY <1>1, <1>2, <2>1, <3>1, <3>3
    <3> QED
      BY <1>5, <3>1, <3>2, <3>3 DEF Moves, RecordMove
  <2> QED
    BY <1>5, <2>2, <2>3, <2>4 DEF Moves, RunsMove
<1>6. ASSUME NEW r \in RunIds'
      PROVE  /\ runs'[r].created \in 1 .. clock'
             /\ runs'[r].occurrence = IF forEach' THEN Occurrence(runs'[r].created) ELSE 0
             /\ runs'[r].status \in Ended =>
                  /\ runs'[r].until >= runs'[r].created
                  /\ task' # NoRecord /\ task'.touched >= runs'[r].created
  <2>1. CASE Moves /\ OldRuns
    <3>1. r \in RunIds /\ runs'[r].created = runs[r].created /\ runs'[r].occurrence = runs[r].occurrence
      BY <1>6, <2>1, OldRunsAre DEF Follows
    <3>2. runs[r].created \in 1 .. clock'
          /\ runs[r].occurrence = IF forEach THEN Occurrence(runs[r].created) ELSE 0
      BY <1>1, <3>1 DEF Dated
    <3> QED
      BY <1>5, <2>1, <3>1, <3>2
  <2>2. CASE NewRunStep
    <3>1. PICK n \in Node :
            /\ Reads(ticks[n])
            /\ RunIds' = RunIds \cup {Len(runs')}
            /\ runs'[Len(runs')] = NewRun(ticks[n].now)
            /\ \A q \in RunIds : runs'[q] = runs[q]
            /\ task' = task
      BY <2>2, NewRunIs
    <3>2. CASE r \in RunIds
      <4>1. /\ runs[r].created \in 1 .. clock'
            /\ runs[r].occurrence = IF forEach THEN Occurrence(runs[r].created) ELSE 0
            /\ runs[r].status \in Ended =>
                 /\ runs[r].until >= runs[r].created
                 /\ task # NoRecord /\ task.touched >= runs[r].created
        BY <1>1, <3>2 DEF Dated
      <4> QED
        BY <3>1, <3>2, <4>1
    <3>3. CASE r = Len(runs')
      <4>1. /\ runs'[r].created = ticks[n].now /\ runs'[r].status = "queued"
            /\ runs'[r].occurrence = IF forEach THEN Occurrence(ticks[n].now) ELSE 0
        BY <3>1, <3>3 DEF NewRun
      <4>2. ticks[n].now \in 1 .. clock'
        BY <1>1, <3>1 DEF Dated, Reads
      <4> QED
        BY <4>1, <4>2 DEF Ended
    <3> QED
      BY <1>6, <3>1, <3>2, <3>3
  <2> QED
    BY <2>1, <2>2 DEF Together
<1> QED
  BY <1>3, <1>4, <1>6 DEF Dated, Reads

\* What may be pruned for its age is out of the reach of a run.
LEMMA AgedIsLapsed ==
    ASSUME NEW start \in Nat, NEW at \in Nat, start <= at, clock \in Nat,
           at + PruneAge < clock
    PROVE  Lapsed(Occurrence(start))
<1> SUFFICES ASSUME NEW t \in Nat, Occurrence(t) = Occurrence(start)
             PROVE  t + DayLength <= clock
  BY DEF Lapsed
<1>1. t < start + DayLength
  BY Days
<1>2. DayLength \in Nat /\ PruneAge \in Nat /\ PruneAge >= 2 * DayLength
  BY SchedulerAssumption
<1> QED
  BY <1>1, <1>2

LEMMA DroppedKey ==
    ASSUME TypeInv, Dated, InOrder, forEach, NEW q \in RunIds, IsDropped(q)
    PROVE  \/ Lapsed(runs[q].occurrence)
           \/ \E r \in RunIds : runs[r].occurrence > runs[q].occurrence
<1>1. /\ runs[q].status \in Ended /\ runs[q].occurrence = Occurrence(runs[q].created)
      /\ runs[q].created <= runs[q].until /\ task # NoRecord
      /\ runs[q].created <= task.touched
  BY DEF IsDropped, Dated
<1>2. /\ runs[q].created \in Nat /\ runs[q].until \in Nat /\ task.touched \in Nat
      /\ clock \in Nat
  BY StillQueue, TypedRuns DEF TypeInv, Run, Record
<1>3. CASE runs[q].until + PruneAge < clock \/ task.touched + PruneAge < clock
  BY <1>1, <1>2, <1>3, AgedIsLapsed
<1>4. ASSUME NEW r \in RunIds, q < r, runs[q].occurrence # runs[r].occurrence
      PROVE  runs[r].occurrence > runs[q].occurrence
  <2>1. q <= r
    BY <1>4, TypedRuns DEF TypeInv
  <2>2. runs[q].occurrence <= runs[r].occurrence
    BY <2>1 DEF InOrder
  <2>3. runs[q].occurrence \in Nat /\ runs[r].occurrence \in Nat
    BY TypedRuns DEF TypeInv, Run
  <2> QED
    BY <1>4, <2>2, <2>3
<1> QED
  BY <1>1, <1>3, <1>4 DEF IsDropped

LEMMA RecalledStep ==
    ASSUME TypeInv, Dated, InOrder, Recalled, Together, forEach' = forEach
    PROVE  Recalled'
<1> DEFINE Shown(o, s) == \E q \in RunIds : runs[q].occurrence = o /\ runs[q].kids[s] = "succeeded"
           Past(o) == \E q \in RunIds : runs[q].occurrence > o
<1> SUFFICES ASSUME forEach, NEW o \in Nat, NEW s \in Subject, <<o, s>> \in delivered'
             PROVE  Shown(o, s)' \/ Lapsed(o)' \/ Past(o)'
  BY DEF Recalled
<1>1. clock \in Nat /\ clock' \in Nat /\ clock <= clock' /\ DayLength \in Nat
  <2>1. clock \in Nat
    BY StillQueue
  <2>2. clock' \in {clock, clock + 1}
    BY DEF Together
  <2>3. DayLength \in Nat
    BY Constants
  <2> QED
    BY <2>1, <2>2, <2>3
<1>2. Lapsed(o) => Lapsed(o)'
  BY <1>1 DEF Lapsed
<1>3. /\ RunIds \subseteq RunIds'
      /\ \A q \in RunIds : runs'[q].occurrence = runs[q].occurrence
  <2>1. RunsStep
    BY DEF Together, RunsStep
  <2> QED
    BY <2>1, RunsAfter DEF Follows
<1>4. Past(o) => Past(o)'
  BY <1>3
<1>5. ASSUME NEW q \in RunIds, runs[q].occurrence = o, runs[q].kids[s] = "succeeded"
      PROVE  Shown(o, s)' \/ Lapsed(o)' \/ Past(o)'
  <2>1. CASE runs'[q].kids[s] = "succeeded"
    BY <1>3, <1>5, <2>1
  <2>2. CASE IsDropped(q)
    BY <1>2, <1>4, <1>5, <2>2, DroppedKey
  <2>3. CASE NewRunStep
    <3>1. runs'[q] = runs[q]
      BY <2>3, NewRunIs
    <3> QED
      BY <1>5, <2>1, <3>1
  <2> QED
    BY <1>5, <2>1, <2>2, <2>3 DEF Together, Moves, RunsMove, GoesOn, Ends, KeysStay
<1>6. CASE <<o, s>> \in delivered
  <2>1. Shown(o, s) \/ Lapsed(o) \/ Past(o)
    BY <1>6 DEF Recalled
  <2> QED
    BY <1>2, <1>4, <1>5, <2>1
<1>7. CASE <<o, s>> \notin delivered
  <2>1. DeliverMove /\ delivered' # delivered
    BY <1>7 DEF Together
  <2>2. PICK r \in ActiveRuns, x \in Subject :
          /\ delivered' = delivered \cup {<<runs[r].occurrence, x>>}
          /\ runs'[r].kids[x] = "succeeded"
    BY <2>1 DEF DeliverMove
  <2>3. <<o, s>> = <<runs[r].occurrence, x>>
    BY <1>7, <2>2
  <2>4. o = runs[r].occurrence /\ s = x
    BY <2>3
  <2>5. r \in RunIds
    BY DEF ActiveRuns
  <2> QED
    BY <1>3, <2>2, <2>4, <2>5
<1> QED
  BY <1>6, <1>7

LEMMA UnservedStep ==
    ASSUME TypeInv, TypeInv', WorkInv, OneActiveRun, InOrder, LastLive, Plain, Dated, Recalled,
           Unserved, Together
    PROVE  Unserved'
<1> SUFFICES ASSUME NEW r \in RunIds', NEW s \in Subject, Fresh(r)',
                    runs'[r].kids[s] = "pending" \/ Expects(r, s)'
             PROVE  <<runs'[r].occurrence, s>> \notin delivered'
  BY DEF Unserved
<1>1. CASE r \notin RunIds
  <2>1. NewRunStep /\ handlers' = handlers
    BY <1>1, OldRunsAre DEF Together
  <2>2. PICK now \in Nat : RunIds' = RunIds \cup {Len(runs')} /\ runs'[Len(runs')] = NewRun(now)
    BY <2>1, NewRunIs
  <2>3. runs'[r].kids[s] = "none"
    BY <1>1, <2>2, NoKidsIs DEF NewRun
  <2>4. \A h \in handlers' : h.job.run \in RunIds
    BY <2>1, HeldBy
  <2> QED
    BY <1>1, <2>3, <2>4 DEF Expects
<1>2. CASE r \in RunIds
  <2>1. /\ runs'[r].occurrence = runs[r].occurrence /\ runs'[r].created = runs[r].created
        /\ runs'[r].status \in Live => runs[r].status \in Live
    <3>1. RunsStep
      BY DEF Together, RunsStep
    <3> QED
      BY <1>2, <3>1, RunsAfter DEF Follows, Ended, Live
  <2>2. Fresh(r) /\ r \in ActiveRuns
    <3>1. clock \in Nat /\ clock' \in Nat /\ clock <= clock' /\ DayLength \in Nat
          /\ runs[r].created \in Nat
      <4>1. clock \in Nat /\ clock' \in Nat /\ clock <= clock'
        BY StillQueue DEF Together, NewRunStep
      <4>2. runs[r].created \in Nat /\ DayLength \in Nat
        BY <1>2, TypedRuns, SchedulerAssumption DEF TypeInv, Run
      <4> QED
        BY <4>1, <4>2
    <3> QED
      BY <1>2, <2>1, <3>1 DEF Fresh, ActiveRuns
  <2>3. ASSUME runs[r].kids[s] = "pending" \/ Expects(r, s)
        PROVE  <<runs[r].occurrence, s>> \notin delivered
    BY <1>2, <2>2, <2>3 DEF Unserved
  <2>4. ASSUME NEW h \in handlers', h \notin handlers, ~LetGoFrom(h),
               h.job.run = r, h.stage = "expect", s \in h.todo
        PROVE  <<runs'[r].occurrence, s>> \notin delivered'
    <3>1. /\ forEach /\ h.todo = Subject \ SucceededSubjects(runs[r].occurrence)
          /\ UNCHANGED <<runs, delivered>>
      BY <2>4 DEF Together, HandlersMove
    <3>2. ~ \E q \in RunIds : runs[q].occurrence = runs[r].occurrence /\ runs[q].kids[s] = "succeeded"
      BY <2>4, <3>1 DEF SucceededSubjects
    <3>3. ~Lapsed(runs[r].occurrence)
      <4>1. /\ runs[r].occurrence = Occurrence(runs[r].created) /\ runs[r].created \in Nat
            /\ clock \in Nat /\ DayLength \in Nat /\ clock < runs[r].created + DayLength
        BY <1>2, <2>2, <3>1, StillQueue, TypedRuns, SchedulerAssumption DEF TypeInv, Run, Dated, Fresh
      <4> QED
        BY <4>1 DEF Lapsed
    <3>4. ~ \E q \in RunIds : runs[q].occurrence > runs[r].occurrence
      <4>1. ASSUME NEW q \in RunIds PROVE runs[q].occurrence <= runs[r].occurrence
        BY <1>2, <2>2, <4>1 DEF LastLive, InOrder
      <4>2. \A q \in RunIds : runs[q].occurrence \in Nat
        BY TypedRuns DEF TypeInv, Run
      <4> QED
        BY <1>2, <4>1, <4>2
    <3>5. runs[r].occurrence \in Nat
      BY <1>2, TypedRuns DEF TypeInv, Run
    <3> QED
      BY <3>1, <3>2, <3>3, <3>4, <3>5 DEF Recalled
  <2>5. CASE runs'[r].kids[s] = "pending" \/ Expects(r, s)
    <3>1. runs[r].kids[s] = "pending" \/ Expects(r, s)
      <4>1. CASE NewRunStep
        <5>1. runs'[r] = runs[r]
          BY <1>2, <4>1, NewRunIs
        <5> QED
          BY <2>5, <5>1
      <4> QED
        BY <1>2, <2>5, <4>1 DEF Together, Moves, PendingMove
    <3>2. CASE delivered' = delivered
      BY <2>1, <2>3, <3>1, <3>2
    <3>3. CASE delivered' # delivered
      <4>1. PICK q \in ActiveRuns, x \in Subject :
              /\ delivered' = delivered \cup {<<runs[q].occurrence, x>>}
              /\ runs[q].kids[x] = "pending" /\ runs'[q].kids[x] = "succeeded"
        BY <3>3 DEF Together, DeliverMove
      <4>2. q = r
        BY <2>2, <4>1 DEF OneActiveRun
      <4>3. s # x
        <5>1. CASE runs'[r].kids[s] = "pending"
          BY <4>1, <4>2, <5>1
        <5>2. CASE Expects(r, s)
          <6>1. PICK h \in handlers : h.job.run = r /\ h.stage = "expect"
            BY <5>2 DEF Expects
          <6>2. h.job.subject = Whole /\ h \in HandlersOf(r)
            BY <6>1, Expanding DEF HandlersOf
          <6>3. Custody(runs[r], JobsOf(r), HandlersOf(r), EnqueuersOf(r), TwiceOf(r), clock)
            BY <1>2, Parts
          <6>4. runs[r].kids = NoKids
            BY <6>1, <6>2, <6>3 DEF Custody, Alone
          <6> QED
            BY <4>1, <4>2, <6>4, NoKidsIs
        <5> QED
          BY <2>5, <5>1, <5>2
      <4>4. <<runs[r].occurrence, s>> # <<runs[q].occurrence, x>>
        BY <4>3
      <4> QED
        BY <2>1, <2>3, <3>1, <4>1, <4>4
    <3> QED
      BY <3>2, <3>3
  <2>6. Expects(r, s)' => Expects(r, s) \/ \E h \in handlers' :
           /\ h \notin handlers /\ ~LetGoFrom(h)
           /\ h.job.run = r /\ h.stage = "expect" /\ s \in h.todo
    BY DEF Expects, LetGoFrom
  <2> QED
    BY <2>4, <2>5, <2>6
<1> QED
  BY <1>1, <1>2

-----------------------------------------------------------------------------
(* The theorems. *)

\* Everything that holds while runs are created in the order of occurrences.
ServedInv == TypeInv /\ WorkInv /\ OneActiveRun /\ LastLive /\ Plain /\ Dated /\ Recalled /\ Unserved

LEMMA ServedInit ==
    ASSUME Init
    PROVE  ServedInv
<1>1. TypeInv /\ WorkInv /\ OneActiveRun
  BY InitType DEF Init, WorkInv, RunIds, OneActiveRun, ActiveRuns
<1>2. RunIds = {} /\ ActiveRuns = {}
  BY DEF Init, RunIds, ActiveRuns
<1>3. LastLive /\ Plain /\ Recalled /\ Unserved
  BY <1>2 DEF Init, LastLive, Plain, Recalled, Unserved
<1>4. Dated
  <2>1. clock = 2 /\ \A n \in Node : ticks[n].stage \notin {"load", "create"}
    BY DEF Init, Idle
  <2>2. task.lastRun \in {0, 1} /\ task.lastRun <= task.touched
    <3>1. MaxTime \in Nat /\ MaxRetryDelay \in Nat
      BY SchedulerAssumption
    <3>2. CASE task = NoRecord
      BY <3>2 DEF NoRecord
    <3>3. CASE task \in Imported
      <4>1. task.lastRun = 1 /\ task.touched = Implausible
        BY <3>3 DEF Imported
      <4>2. Implausible \in Nat /\ 1 <= Implausible
        BY <3>1 DEF Implausible
      <4> QED
        BY <4>1, <4>2
    <3> QED
      BY <3>2, <3>3 DEF Init, Seeds
  <2>3. \A n \in Node : ticks[n].stage \in {"load", "create"} => ticks[n].now \in 1 .. clock
    BY <2>1
  <2> QED
    BY <1>2, <2>1, <2>2, <2>3 DEF Dated
<1> QED
  BY <1>1, <1>3, <1>4 DEF ServedInv

LEMMA ServedStep ==
    ASSUME ServedInv, InOrder, [Next]_vars
    PROVE  ServedInv'
<1>1. TypeInv' /\ WorkInv' /\ OneActiveRun' /\ RunsStep /\ forEach' = forEach
  BY EveryStep, WorkStep, OneActiveRunStep DEF GoodStep, ServedInv
<1>2. Together
  BY EveryMove DEF ServedInv
<1>3. LastLive' /\ Plain' /\ Dated'
  BY <1>1, <1>2, LastLiveStep, PlainStep, DatedStep DEF ServedInv
<1>4. Recalled' /\ Unserved'
  BY <1>1, <1>2, RecalledStep, UnservedStep DEF ServedInv
<1> QED
  BY <1>1, <1>3, <1>4 DEF ServedInv

\* What the property says of a step.
NotAgain ==
    \A h \in handlers' \ handlers : LET r == h.job.run IN
        h.job.subject # Whole /\ ~h.detached /\ clock < runs[r].created + DayLength =>
            <<runs[r].occurrence, h.job.subject>> \notin delivered

LEMMA NotAgainStep ==
    ASSUME ServedInv, [Next]_vars
    PROVE  NotAgain
<1> SUFFICES ASSUME NEW h \in handlers', h \notin handlers, h.job.subject # Whole,
                    ~h.detached, clock < runs[h.job.run].created + DayLength
             PROVE  <<runs[h.job.run].occurrence, h.job.subject>> \notin delivered
  BY DEF NotAgain
<1>1. MayClaim(h.job.run, h.job.subject)
  BY EveryMove DEF ServedInv, Together, HandlersMove, LetGoFrom
<1>2. h.job.subject \in Subject
  BY EveryStep DEF GoodStep, TypeInv, TypeOK, Handlers, Jobs, ServedInv
<1>3. h.job.run \in RunIds
  <2>1. TypeInv' /\ RunsStep
    BY EveryStep DEF GoodStep, ServedInv
  <2>2. h.job.run \in RunIds'
    BY <2>1 DEF TypeInv, Refs
  <2>3. Together
    BY EveryMove DEF ServedInv
  <2>4. OldRuns
    BY <2>3 DEF Together
  <2> QED
    BY <2>2, <2>4, OldRunsAre DEF ServedInv
<1> QED
  BY <1>1, <1>2, <1>3 DEF ServedInv, Unserved, Fresh, MayClaim

\* A subject that was served in an occurrence is not served again in it, as long
\* as runs are created in the order of their occurrences: the key that says so is
\* kept, unless the occurrence is over or a run of a later one exists, and a run
\* that may still act reads it before it expects the subject.
THEOREM SubjectsServedOnce == Safe /\ []InOrder => ServedOnce
<1>1. Init => ServedInv
  BY ServedInit
<1>2. ServedInv /\ InOrder /\ [Next]_vars => ServedInv'
  BY ServedStep
<1>3. ServedInv /\ [Next]_vars => NotAgain
  BY NotAgainStep
<1>4. Safe /\ []InOrder => []ServedInv
  BY <1>1, <1>2, PTL DEF Safe
<1>5. Safe /\ []InOrder => [][NotAgain]_vars
  BY <1>3, <1>4, PTL DEF Safe
<1> QED
  BY <1>5 DEF ServedOnce, NotAgain

-----------------------------------------------------------------------------
(* One scheduler creates runs in order. *)

Timely ==
    /\ \A p, q \in RunIds : p <= q => runs[p].created <= runs[q].created
    /\ \A n \in Node : Reads(ticks[n]) => \A r \in RunIds : runs[r].created <= ticks[n].now

LEMMA TimelyInOrder ==
    ASSUME TypeInv, Dated, Timely
    PROVE  InOrder
<1> SUFFICES ASSUME NEW p \in RunIds, NEW q \in RunIds, p <= q
             PROVE  runs[p].occurrence <= runs[q].occurrence
  BY DEF InOrder
<1>1. /\ runs[p].created \in Nat /\ runs[q].created \in Nat
      /\ runs[p].created <= runs[q].created
      /\ runs[p].occurrence = IF forEach THEN Occurrence(runs[p].created) ELSE 0
      /\ runs[q].occurrence = IF forEach THEN Occurrence(runs[q].created) ELSE 0
  BY TypedRuns DEF TypeInv, Run, Dated, Timely
<1>2. Occurrence(runs[p].created) <= Occurrence(runs[q].created)
  BY <1>1, Days
<1> QED
  BY <1>1, <1>2

LEMMA TimelyStep ==
    ASSUME \A m, n \in Node : m = n, TypeInv, Dated, Timely, Together
    PROVE  Timely'
<1>1. CASE Moves /\ OldRuns
  <2>1. RunIds' = RunIds /\ \A r \in RunIds : runs'[r].created = runs[r].created
    BY <1>1, OldRunsAre DEF Follows
  <2>2. ASSUME NEW n \in Node, Reads(ticks'[n]), NEW r \in RunIds
        PROVE  runs[r].created <= ticks'[n].now
    <3>1. CASE ticks'[n].now = clock
      BY <3>1 DEF Dated
    <3>2. CASE Reads(ticks[n]) /\ ticks'[n].now = ticks[n].now
      BY <3>2 DEF Timely
    <3> QED
      BY <2>2, <3>1, <3>2 DEF Together, TicksMove
  <2> QED
    BY <2>1, <2>2 DEF Timely
<1>2. CASE NewRunStep
  <2>1. PICK n \in Node :
          /\ Reads(ticks[n]) /\ ~Reads(ticks'[n]) /\ ticks[n].now \in Nat
          /\ RunIds' = RunIds \cup {Len(runs')} /\ Len(runs') \notin RunIds
          /\ \A q \in RunIds : q < Len(runs')
          /\ runs'[Len(runs')] = NewRun(ticks[n].now)
          /\ \A q \in RunIds : runs'[q] = runs[q]
    BY <1>2, NewRunIs
  <2>2. runs'[Len(runs')].created = ticks[n].now
    BY <2>1 DEF NewRun
  <2>3. \A m \in Node : ~Reads(ticks'[m])
    BY <2>1
  <2>4. ASSUME NEW p \in RunIds', NEW q \in RunIds', p <= q
        PROVE  runs'[p].created <= runs'[q].created
    <3>1. CASE q = Len(runs')
      <4>1. CASE p = q
        BY <2>1, <2>2, <3>1, <4>1
      <4>2. CASE p \in RunIds
        BY <2>1, <2>2, <3>1, <4>2 DEF Timely
      <4> QED
        BY <2>1, <3>1, <4>1, <4>2
    <3>2. CASE q \in RunIds
      <4>1. p \in RunIds
        <5>1. q < Len(runs') /\ q \in Nat
          BY <2>1, <3>2, TypedRuns DEF TypeInv
        <5>2. Len(runs') \in Nat
          <6>1. Len(runs') = Len(runs) + 1 /\ Len(runs) \in Nat
            BY <1>2 DEF NewRunStep, TypeInv, TypeOK
          <6> QED
            BY <6>1
        <5> QED
          BY <2>1, <2>4, <5>1, <5>2
      <4> QED
        BY <2>1, <2>4, <3>2, <4>1 DEF Timely
    <3> QED
      BY <2>1, <3>1, <3>2
  <2> QED
    BY <2>3, <2>4 DEF Timely
<1> QED
  BY <1>1, <1>2 DEF Together

\* One scheduler alone never serves a subject twice in an occurrence.
THEOREM OneServesOnce ==
    ASSUME \A m, n \in Node : m = n
    PROVE  Safe => ServedOnce
<1>1. Init => ServedInv /\ Timely
  BY ServedInit DEF Init, Timely, Reads, Idle, RunIds
<1>2. ServedInv /\ Timely => InOrder
  BY TimelyInOrder DEF ServedInv
<1>3. ServedInv /\ Timely /\ [Next]_vars => ServedInv' /\ Timely'
  <2> SUFFICES ASSUME ServedInv, Timely, [Next]_vars
               PROVE  ServedInv' /\ Timely'
    OBVIOUS
  <2>1. ServedInv'
    BY <1>2, ServedStep
  <2>2. Together
    BY EveryMove DEF ServedInv
  <2> QED
    BY <2>1, <2>2, TimelyStep DEF ServedInv
<1>4. Safe => []InOrder
  BY <1>1, <1>2, <1>3, PTL DEF Safe
<1> QED
  BY <1>4, SubjectsServedOnce, PTL

=============================================================================
