----------------------------- MODULE LeaseWatch -----------------------------
(***************************************************************************)
(* How a long-running process of rela learns that leases changed           *)
(* (internal/lease/wake.go, service.go): a subscriber shows the live       *)
(* leases and reads them again when the hub wakes it.  The process wakes   *)
(* it after its own writes; the watcher wakes it for writes of other       *)
(* processes, by polling the store's version, and for expiries, which no   *)
(* write announces, by a timer at the earliest one.                        *)
(*                                                                         *)
(* The watcher is one goroutine: its clock readings and its reads of the   *)
(* store are steps of their own, between which time passes and leases      *)
(* change.  A read of the store may fail.  A writer reads the clock before *)
(* it waits for the store's lock, so a write may carry an earlier time, and*)
(* it decides by that time which leases are live.                          *)
(*                                                                         *)
(* Abstracted: the store is its contract (KvLease has the store), what a   *)
(* subscriber shows is the ids with a live lease, not their statuses, and it*)
(* reads them at one moment, and a tick of the poll comes at any time.     *)
(***************************************************************************)
EXTENDS Naturals, FiniteSets

CONSTANTS
    Id,         \* entity ids
    Ttl,        \* lease durations
    Unknown,    \* no version has been read
    MaxTime,    \* bound: clock ticks
    MaxVersion, \* bound: writes that move the version
    MaxFaults   \* bound: failed reads, but for those PollFails allows

ASSUME WatchAssumption ==
    /\ Ttl \subseteq Nat \ {0}
    /\ Unknown \notin Nat
    /\ MaxTime \in Nat /\ MaxVersion \in Nat /\ MaxFaults \in Nat

VARIABLES
    expires,    \* the store: expiry of the lease on each id, 0 when none
    version,    \* the store's version
    now,        \* the clock
    seen,       \* Watch: version read last
    armed,      \* expiryWatch.armed
    from,       \* expiryWatch.from
    target,     \* expiryWatch.target; 0 when the timer is stopped
    pc,         \* where the watcher is
    at,         \* the watcher's clock reading
    wake,       \* the subscriber's channel, of capacity one
    owed,       \* a write of this process has not woken the hub yet
    shown,      \* the ids the subscriber shows as held
    faults,     \* failed reads so far
    revived,    \* history, since the timer was set: ids whose expired lease was
                \* renewed by an earlier clock reading
    pruned,     \* history, since the subscriber read: an expiry was removed
                \* before the timer read it
    gap         \* history, since the subscriber read: a change fell where the
                \* watcher does not look, or was a revival

store   == <<expires, version, now>>
watcher == <<seen, armed, from, target, pc, at>>
past    == <<revived, pruned, gap>>
vars    == <<store, watcher, wake, owed, shown, faults, past>>

LiveAt(t) == {i \in Id : t < expires[i]}
Live == LiveAt(now)
Fault == faults < MaxFaults /\ faults' = faults + 1

\* Store.NextExpiry: the earliest expiry after t, 0 when there is none.
NextExpiry(t) ==
    IF LiveAt(t) = {} THEN 0
    ELSE expires[CHOOSE i \in LiveAt(t) : \A j \in LiveAt(t) : expires[i] <= expires[j]]

-----------------------------------------------------------------------------
(* The store's writers, in this process (local) and in others. *)

Pruned(t) == [i \in Id |-> IF i \in LiveAt(t) THEN expires[i] ELSE 0]

\* A write that removes an expiry the timer has not read, and leaves the version
\* where the watcher saw it, leaves no trace of it.
Hides(t) == seen = version' /\ \E i \in Id \ LiveAt(t) : expires[i] > from

\* The store becomes e by a write that read the clock at t; back has the ids
\* whose expired lease it renews.
Stored(e, t, local, back) ==
    /\ expires' = e
    /\ owed' = (owed \/ local)
    /\ revived' = revived \cup back
    /\ pruned' = (pruned \/ Hides(t))
    /\ gap' = (gap \/ back # {})
    /\ UNCHANGED <<now, watcher, wake, shown, faults>>

Moves == version < MaxVersion /\ version' = version + 1

Claim(i, ttl, t, local) ==
    /\ i \notin LiveAt(t) /\ Moves
    /\ Stored([Pruned(t) EXCEPT ![i] = t + ttl], t, local, {})

\* A release, or a drop with the entity.
Release(i, t, local) ==
    /\ i \in LiveAt(t) /\ Moves
    /\ Stored([Pruned(t) EXCEPT ![i] = 0], t, local, {})

\* The lease on i follows a rename.
Rekey(i, j, t, local) ==
    /\ i \in LiveAt(t) /\ j \notin LiveAt(t) /\ Moves
    /\ Stored([Pruned(t) EXCEPT ![j] = expires[i], ![i] = 0], t, local, {})

\* Mutant of MovesFor: a renewal never moves the version.
NeverMovesFor(i, until) == UNCHANGED version

\* A renewal to an earlier expiry moves the version, a plain one does not.
MovesFor(i, until) == IF until < expires[i] THEN Moves ELSE UNCHANGED version

Renew(i, ttl, t, local) ==
    /\ i \in LiveAt(t)
    /\ MovesFor(i, t + ttl)
    /\ Stored([Pruned(t) EXCEPT ![i] = t + ttl], t, local /\ t + ttl < expires[i], {i} \ Live)

\* A refused write removes expired leases alone.
Prune(t) ==
    /\ Pruned(t) # expires
    /\ UNCHANGED version
    /\ Stored(Pruned(t), t, FALSE, {})

\* The call ends: Hub.wake.
LocalWake ==
    /\ owed /\ owed' = FALSE /\ wake' = TRUE
    /\ UNCHANGED <<store, watcher, shown, faults, past>>

Tick == /\ now < MaxTime /\ now' = now + 1
        /\ UNCHANGED <<expires, version, watcher, wake, owed, shown, faults, past>>

-----------------------------------------------------------------------------
(* The watcher. *)

\* A subscriber that has read already, and whom no later poll will wake, does
\* not learn of an expiry before the time the timer is armed from.
Overlooked == ~wake /\ ~owed /\ seen = version /\ shown # Live

\* The clock reading before an arm that follows a tick of the poll.
ReadClock ==
    /\ pc = "clock" /\ pc' = "arm" /\ at' = now
    /\ gap' = (gap \/ Overlooked)
    /\ UNCHANGED <<store, seen, armed, from, target, wake, owed, shown, faults, revived, pruned>>

Arm ==
    /\ pc = "arm" /\ pc' = "select"
    /\ armed' = TRUE /\ from' = at /\ target' = NextExpiry(at) /\ at' = 0
    /\ revived' = {}
    /\ UNCHANGED <<store, seen, wake, owed, shown, faults, pruned, gap>>

\* Mutant of ArmFails: the timer set before is not stopped.
ArmFailsRunning ==
    /\ pc = "arm" /\ pc' = "select" /\ Fault
    /\ armed' = FALSE /\ at' = 0
    /\ UNCHANGED <<store, seen, from, target, wake, owed, shown, past>>

\* The timer stays stopped until the next tick.
ArmFails ==
    /\ pc = "arm" /\ pc' = "select" /\ Fault
    /\ armed' = FALSE /\ target' = 0 /\ at' = 0
    /\ UNCHANGED <<store, seen, from, wake, owed, shown, past>>

Fire ==
    /\ pc = "select" /\ target # 0 /\ now >= target
    /\ pc' = "lapse" /\ at' = now /\ target' = 0
    /\ UNCHANGED <<store, seen, armed, from, wake, owed, shown, faults, past>>

\* Mutant of Lapsed: leases live by now are looked at, not by the last arm.
LapsedSince(t) == NextExpiry(now) # 0 /\ NextExpiry(now) <= t

\* lapsed: a lease live when the timer was armed has expired by t.
Lapsed(t) == NextExpiry(from) # 0 /\ NextExpiry(from) <= t

\* A failed read counts as a lapse.
CheckLapse ==
    /\ pc = "lapse" /\ pc' = "arm"
    /\ \/ wake' = (wake \/ Lapsed(at)) /\ UNCHANGED faults
       \/ wake' = TRUE /\ Fault
    /\ UNCHANGED <<store, seen, armed, from, target, at, owed, shown, past>>

\* Mutant of Rearms: the timer stays as it is when the version changed.
RearmsUnarmed(changed, first) == first \/ ~armed

Rearms(changed, first) == changed \/ first \/ ~armed

Poll ==
    LET changed == seen # Unknown /\ version # seen
        first == seen = Unknown
    IN /\ pc = "select"
       /\ seen' = version
       /\ wake' = (wake \/ changed)
       /\ pc' = IF Rearms(changed, first) THEN "clock" ELSE pc
       /\ UNCHANGED <<store, armed, from, target, at, owed, shown, faults, past>>

\* A version that cannot be read re-arms an unarmed timer all the same.  It is
\* the failure that left the timer unarmed that counts.
PollFails ==
    /\ pc = "select" /\ ~armed
    /\ pc' = "clock"
    /\ UNCHANGED <<store, seen, armed, from, target, at, wake, owed, shown, faults, past>>

-----------------------------------------------------------------------------

\* The subscriber takes the wake and reads the leases again.
Show ==
    /\ wake /\ wake' = FALSE
    /\ shown' = Live
    /\ pruned' = FALSE /\ gap' = (seen = Unknown \/ revived # {})
    /\ UNCHANGED <<store, watcher, owed, faults, revived>>

\* Watch has read the version, or failed to, and is about to arm.
Init ==
    /\ expires = [i \in Id |-> 0] /\ version = 0 /\ now = 0
    /\ \/ seen = 0 /\ faults = 0 /\ gap = FALSE
       \/ seen = Unknown /\ MaxFaults > 0 /\ faults = 1 /\ gap = TRUE
    /\ armed = FALSE /\ from = 0 /\ target = 0 /\ pc = "arm" /\ at = 0
    /\ wake = FALSE /\ owed = FALSE /\ shown = {}
    /\ revived = {} /\ pruned = FALSE

Write ==
    \E t \in 0 .. now :
      \/ \E i \in Id, local \in BOOLEAN :
           \/ Release(i, t, local)
           \/ \E j \in Id \ {i} : Rekey(i, j, t, local)
           \/ \E ttl \in Ttl : Claim(i, ttl, t, local) \/ Renew(i, ttl, t, local)
      \/ Prune(t)

Watch == Arm \/ ArmFails \/ Fire \/ CheckLapse \/ ReadClock \/ Poll \/ PollFails

Next == Write \/ LocalWake \/ Tick \/ Watch \/ Show

\* A call that wrote returns and wakes; the watcher runs, its ticker ticks and
\* its select takes the timer when it has fired; a subscriber reads its channel.
Fairness ==
    /\ WF_vars(LocalWake) /\ WF_vars(Show) /\ WF_vars(Poll) /\ WF_vars(Fire)
    /\ WF_vars(ReadClock \/ Arm \/ CheckLapse)

Spec == Init /\ [][Next]_vars /\ Fairness

-----------------------------------------------------------------------------
(* Properties. *)

\* Type correctness; a timer that is not armed is stopped.
TypeOK ==
    /\ expires \in [Id -> Nat] /\ version \in Nat /\ now \in Nat
    /\ seen \in Nat \cup {Unknown} /\ armed \in BOOLEAN
    /\ armed \/ target = 0
    /\ from \in Nat /\ target \in Nat /\ at \in 0 .. now
    /\ pc \in {"select", "clock", "arm", "lapse"}
    /\ wake \in BOOLEAN /\ owed \in BOOLEAN /\ shown \subseteq Id
    /\ faults \in Nat
    /\ revived \subseteq Id /\ pruned \in BOOLEAN /\ gap \in BOOLEAN

\* While the version the watcher knows is the store's, its timer is set no
\* later than any expiry ahead of it: a renewal that shortens a lease moves the
\* version "because a watcher's expiry timer may be set for the old, later
\* expiry" (lease.go:253).  Not covered is a lease that had expired and that a
\* renewal with an earlier clock reading has brought back since the timer was
\* set, which moves no version (service.go:281, kv.go:415).
TimerCoversLeases ==
    pc = "select" /\ armed /\ seen = version =>
        \A i \in LiveAt(from) \ revived : target # 0 /\ target <= expires[i]

\* What a subscriber shows becomes true again after any claims, releases,
\* renewals and expiries, here or in other processes, in every case but four: an
\* expired lease removed before the timer reads it, the "one case" of wake.go:82
\* (pruned); and (gap) an expiry between a wake and the clock reading the timer
\* is then armed from, changes made until a first version could be read, and a
\* renewal that brings an expired lease back.
ViewCatchesUp == shown # Live ~> (shown = Live \/ pruned \/ gap)

=============================================================================
