-------------------------- MODULE LeaseWatchProofs --------------------------
(***************************************************************************)
(* Theorems about LeaseWatch, for every value of its constants: however    *)
(* many leases, writers, failed reads and ticks, and however early a writer*)
(* read the clock, the timer of a watcher that knows the store's version is*)
(* early enough for every lease but an expired one renewed since it was set.*)
(***************************************************************************)
EXTENDS LeaseWatch, FiniteSetTheorems, TLAPS

\* The version read last is never ahead of the store's, and the timer was armed
\* from a time that has passed.
WatcherBehind == /\ seen = Unknown \/ seen <= version
                 /\ from <= now

\* The inductive invariant: a version that is equal again is one that never
\* moved, so no expiry was brought forward since the timer was set, and what
\* came ahead of it since is a revival.
WatchInv == TypeOK /\ WatcherBehind /\ TimerCoversLeases

-----------------------------------------------------------------------------
(* The earliest expiry. *)

\* Without a least element, the lower bounds of T would be a finite set that its
\* successor function maps into itself without reaching 0.
LEMMA SmallestOf ==
    ASSUME NEW T, T \subseteq Nat, T # {}
    PROVE  \E x \in T : \A y \in T : x <= y
<1> SUFFICES ASSUME ~ \E x \in T : \A y \in T : x <= y
             PROVE  FALSE
  OBVIOUS
<1> DEFINE Lower == {x \in Nat : \A y \in T : x <= y}
           next == [x \in Lower |-> x + 1]
<1>1. PICK t \in T : t \in Nat
  OBVIOUS
<1>2. IsFiniteSet(Lower)
  <2>1. \A x \in Lower : x <= t
    OBVIOUS
  <2>2. Lower \in SUBSET Nat
    OBVIOUS
  <2> HIDE DEF Lower
  <2> QED
    BY <1>1, <2>1, <2>2, FS_BoundedSetOfNaturals
<1>3. 0 \in Lower
  OBVIOUS
<1>4. \A x \in Lower : x \in Nat /\ x + 1 \in Lower
  <2> SUFFICES ASSUME NEW x \in Lower, NEW y \in T
               PROVE  x + 1 <= y
    OBVIOUS
  <2>1. x <= y /\ x # y
    OBVIOUS
  <2> QED
    BY <2>1
<1> HIDE DEF Lower
<1>5. next \in Injection(Lower, Lower)
  BY <1>4 DEF Injection, IsInjective
<1>6. next \in Surjection(Lower, Lower)
  BY <1>2, <1>5, FS_Injection
<1>7. PICK x \in Lower : next[x] = 0
  BY <1>3, <1>6 DEF Surjection
<1> QED
  BY <1>4, <1>7

\* NextExpiry is no later than any expiry after t, and none is missed.
LEMMA NextExpiryType ==
    ASSUME TypeOK, NEW t \in Nat
    PROVE  /\ NextExpiry(t) \in Nat
           /\ \A i \in LiveAt(t) : NextExpiry(t) # 0 /\ NextExpiry(t) <= expires[i]
<1>1. CASE LiveAt(t) = {}
  BY <1>1 DEF NextExpiry
<1>2. CASE LiveAt(t) # {}
  <2> DEFINE T == {expires[i] : i \in LiveAt(t)}
  <2>1. T \subseteq Nat /\ T # {}
    BY <1>2 DEF LiveAt, TypeOK
  <2>2. PICK x \in T : \A y \in T : x <= y
    BY <2>1, SmallestOf
  <2>3. \E i \in LiveAt(t) : \A j \in LiveAt(t) : expires[i] <= expires[j]
    BY <2>2
  <2> DEFINE i == CHOOSE i \in LiveAt(t) : \A j \in LiveAt(t) : expires[i] <= expires[j]
  <2>4. i \in LiveAt(t) /\ \A j \in LiveAt(t) : expires[i] <= expires[j]
    BY <2>3
  <2>5. NextExpiry(t) = expires[i]
    BY <1>2 DEF NextExpiry
  <2> QED
    BY <2>4, <2>5 DEF LiveAt, TypeOK
<1> QED
  BY <1>1, <1>2

-----------------------------------------------------------------------------
(* The writers. *)

LEMMA PrunedType ==
    ASSUME TypeOK, NEW t \in Nat
    PROVE  /\ Pruned(t) \in [Id -> Nat]
           /\ \A i \in Id : Pruned(t)[i] # 0 => Pruned(t)[i] = expires[i]
BY DEF Pruned, LiveAt, TypeOK

\* A write that moves the version leaves the watcher behind it; one that does
\* not brings no expiry forward, but for what it brings back.
Forwards(back) ==
    \A i \in Id \ back : expires'[i] > from => i \in LiveAt(from) /\ expires[i] <= expires'[i]

LEMMA StoredInv ==
    ASSUME WatchInv, NEW e \in [Id -> Nat], NEW t \in Nat, NEW local \in BOOLEAN,
           NEW back \in SUBSET Id, Stored(e, t, local, back),
           \/ version' = version + 1
           \/ version' = version /\ Forwards(back)
    PROVE  WatchInv'
<1>1. TypeOK'
  <2>1. expires' \in [Id -> Nat] /\ version' \in Nat /\ revived' \subseteq Id
    BY DEF WatchInv, TypeOK, Stored
  <2>2. owed' \in BOOLEAN /\ pruned' \in BOOLEAN /\ gap' \in BOOLEAN
    BY Zenon DEF WatchInv, TypeOK, Stored, Hides
  <2> QED
    BY <2>1, <2>2, Zenon DEF WatchInv, TypeOK, Stored, watcher
<1>2. WatcherBehind'
  BY WatchAssumption DEF WatchInv, TypeOK, WatcherBehind, Stored, watcher
<1>3. TimerCoversLeases'
  <2>1. CASE version' = version + 1
    <3>1. seen' # version'
      BY <2>1, WatchAssumption DEF WatchInv, TypeOK, WatcherBehind, Stored, watcher
    <3> QED
      BY <3>1 DEF TimerCoversLeases
  <2>2. CASE version' = version /\ Forwards(back)
    <3> SUFFICES ASSUME (pc = "select" /\ armed /\ seen = version)',
                        NEW i \in Id, i \notin revived', expires'[i] > from
                 PROVE  target # 0 /\ target <= expires'[i]
      BY DEF TimerCoversLeases, LiveAt, Stored, watcher
    <3>1. pc = "select" /\ armed /\ seen = version
      BY <2>2 DEF Stored, watcher
    <3>2. i \notin revived /\ i \notin back
      BY DEF Stored
    <3>3. i \in LiveAt(from) /\ expires[i] <= expires'[i]
      BY <2>2, <3>2 DEF Forwards
    <3>4. target # 0 /\ target <= expires[i]
      BY <3>1, <3>2, <3>3 DEF WatchInv, TimerCoversLeases
    <3> QED
      BY <3>3, <3>4 DEF WatchInv, TypeOK, Stored
  <2> QED
    BY <2>1, <2>2
<1> QED
  BY <1>1, <1>2, <1>3 DEF WatchInv

LEMMA WriteInv ==
    ASSUME WatchInv, Write
    PROVE  WatchInv'
<1> PICK t \in 0 .. now :
      \/ \E i \in Id, local \in BOOLEAN :
           \/ Release(i, t, local)
           \/ \E j \in Id \ {i} : Rekey(i, j, t, local)
           \/ \E ttl \in Ttl : Claim(i, ttl, t, local) \/ Renew(i, ttl, t, local)
      \/ Prune(t)
  BY Zenon DEF Write
<1>t. t \in Nat
  BY DEF WatchInv, TypeOK
<1>s. {} \in SUBSET Id /\ FALSE \in BOOLEAN
  OBVIOUS
<1> USE <1>t, PrunedType DEF WatchInv
<1>1. ASSUME NEW i \in Id, NEW ttl \in Ttl, NEW local \in BOOLEAN, Claim(i, ttl, t, local)
      PROVE  WatchInv'
  <2> DEFINE e == [Pruned(t) EXCEPT ![i] = t + ttl]
  <2>1. e \in [Id -> Nat]
    BY WatchAssumption
  <2>2. version' = version + 1 /\ Stored(e, t, local, {})
    BY <1>1 DEF Claim, Moves
  <2> HIDE DEF e
  <2> QED
    BY <1>s, <2>1, <2>2, StoredInv
<1>2. ASSUME NEW i \in Id, NEW local \in BOOLEAN, Release(i, t, local)
      PROVE  WatchInv'
  <2> DEFINE e == [Pruned(t) EXCEPT ![i] = 0]
  <2>1. e \in [Id -> Nat]
    OBVIOUS
  <2>2. version' = version + 1 /\ Stored(e, t, local, {})
    BY <1>2 DEF Release, Moves
  <2> HIDE DEF e
  <2> QED
    BY <1>s, <2>1, <2>2, StoredInv
<1>3. ASSUME NEW i \in Id, NEW j \in Id \ {i}, NEW local \in BOOLEAN, Rekey(i, j, t, local)
      PROVE  WatchInv'
  <2> DEFINE e == [Pruned(t) EXCEPT ![j] = expires[i], ![i] = 0]
  <2>1. e \in [Id -> Nat]
    BY DEF TypeOK
  <2>2. version' = version + 1 /\ Stored(e, t, local, {})
    BY <1>3 DEF Rekey, Moves
  <2> HIDE DEF e
  <2> QED
    BY <1>s, <2>1, <2>2, StoredInv
<1>4. ASSUME NEW i \in Id, NEW ttl \in Ttl, NEW local \in BOOLEAN, Renew(i, ttl, t, local)
      PROVE  WatchInv'
  <2> DEFINE e == [Pruned(t) EXCEPT ![i] = t + ttl]
             shorter == t + ttl < expires[i]
             back == {i} \ Live
  <2>1. e \in [Id -> Nat] /\ (local /\ shorter) \in BOOLEAN /\ back \in SUBSET Id
    BY WatchAssumption
  <2>2. Stored(e, t, local /\ shorter, back)
    BY <1>4 DEF Renew
  <2>3. CASE shorter
    <3>1. version' = version + 1
      BY <1>4, <2>3 DEF Renew, MovesFor, Moves
    <3> HIDE DEF e, shorter, back
    <3> QED
      BY <2>1, <2>2, <3>1, StoredInv
  <2>4. CASE ~shorter
    <3>1. version' = version
      BY <1>4, <2>4 DEF Renew, MovesFor
    <3>2. ASSUME NEW k \in Id \ back, expires'[k] > from
          PROVE  k \in LiveAt(from) /\ expires[k] <= expires'[k]
      <4>1. CASE k = i
        <5>1. expires'[k] = t + ttl
          BY <2>1, <2>2, <4>1 DEF Stored
        <5>2. now < expires[k]
          BY <3>2, <4>1 DEF Live, LiveAt
        <5> QED
          BY <2>4, <4>1, <5>1, <5>2, WatchAssumption DEF LiveAt, TypeOK, WatcherBehind
      <4>2. CASE k # i
        <5>1. expires'[k] = Pruned(t)[k]
          BY <2>2, <4>2 DEF Stored
        <5>2. Pruned(t)[k] # 0
          BY <3>2, <5>1 DEF TypeOK
        <5> QED
          BY <3>2, <5>1, <5>2 DEF LiveAt, TypeOK
      <4> QED
        BY <4>1, <4>2
    <3>3. Forwards(back)
      BY <3>2 DEF Forwards
    <3> HIDE DEF e, shorter, back
    <3> QED
      BY <2>1, <2>2, <3>1, <3>3, StoredInv
  <2> QED
    BY <2>3, <2>4
<1>5. ASSUME Prune(t)
      PROVE  WatchInv'
  <2>1. ASSUME NEW k \in Id, expires'[k] > from
        PROVE  k \in LiveAt(from) /\ expires[k] <= expires'[k]
    <3>1. expires'[k] = Pruned(t)[k] /\ Pruned(t)[k] # 0
      BY <1>5, <2>1 DEF Prune, Stored, TypeOK
    <3> QED
      BY <2>1, <3>1 DEF LiveAt, TypeOK
  <2>2. Forwards({})
    BY <2>1 DEF Forwards
  <2> QED
    BY <1>5, <1>s, <2>2, StoredInv DEF Prune
<1> QED
  BY <1>1, <1>2, <1>3, <1>4, <1>5

-----------------------------------------------------------------------------
(* The watcher. *)

LEMMA ArmInv ==
    ASSUME WatchInv, Arm
    PROVE  WatchInv'
<1>1. at \in Nat /\ at <= now
  BY DEF WatchInv, TypeOK
<1>2. /\ NextExpiry(at) \in Nat
      /\ \A i \in LiveAt(at) : NextExpiry(at) # 0 /\ NextExpiry(at) <= expires[i]
  BY <1>1, NextExpiryType DEF WatchInv
<1>3. TypeOK'
  BY <1>1, <1>2 DEF WatchInv, TypeOK, Arm, store, past
<1>4. WatcherBehind'
  BY <1>1 DEF WatchInv, WatcherBehind, Arm, store, past
<1>5. TimerCoversLeases'
  BY <1>2 DEF TimerCoversLeases, Arm, store, past, LiveAt
<1> QED
  BY <1>3, <1>4, <1>5 DEF WatchInv

\* A poll that finds a version it did not know leaves the select to arm again.
LEMMA PollInv ==
    ASSUME WatchInv, Poll
    PROVE  WatchInv'
<1>1. TypeOK'
  BY DEF WatchInv, TypeOK, Poll, Rearms, store, past
<1>2. WatcherBehind'
  BY DEF WatchInv, TypeOK, WatcherBehind, Poll, store, past
<1>3. TimerCoversLeases'
  <2>1. CASE seen = version
    BY <2>1 DEF WatchInv, TimerCoversLeases, LiveAt, Poll, Rearms, store, past
  <2>2. CASE seen # version
    <3>1. pc' = "clock"
      BY <2>2 DEF Poll, Rearms
    <3> QED
      BY <3>1 DEF TimerCoversLeases
  <2> QED
    BY <2>1, <2>2
<1> QED
  BY <1>1, <1>2, <1>3 DEF WatchInv

\* The steps after which the watcher is not in its select, or its timer is off.
LEMMA AwayInv ==
    ASSUME WatchInv, ReadClock \/ ArmFails \/ Fire \/ CheckLapse \/ PollFails
    PROVE  WatchInv'
<1>1. TypeOK'
  <2>1. CASE ReadClock
    BY <2>1 DEF WatchInv, TypeOK, ReadClock, Overlooked, store, past
  <2>2. CASE ArmFails
    <3>1. faults' \in Nat /\ at' \in 0 .. now' /\ target' \in Nat
      BY <2>2 DEF WatchInv, TypeOK, ArmFails, Fault, store, past
    <3> QED
      BY <2>2, <3>1, Zenon DEF WatchInv, TypeOK, ArmFails, store, past
  <2>3. CASE Fire
    BY <2>3 DEF WatchInv, TypeOK, Fire, store, past
  <2>4. CASE CheckLapse
    <3>1. faults' \in Nat
      BY <2>4 DEF WatchInv, TypeOK, CheckLapse, Fault
    <3>2. wake' \in BOOLEAN
      BY <2>4, Zenon DEF WatchInv, TypeOK, CheckLapse
    <3> QED
      BY <2>4, <3>1, <3>2, Zenon DEF WatchInv, TypeOK, CheckLapse, store, past
  <2>5. CASE PollFails
    BY <2>5 DEF WatchInv, TypeOK, PollFails, store, past
  <2> QED
    BY <2>1, <2>2, <2>3, <2>4, <2>5
<1>2. WatcherBehind'
  BY DEF WatchInv, WatcherBehind, ReadClock, ArmFails, Fire, CheckLapse, PollFails, store, past
<1>3. pc' # "select" \/ ~armed'
  BY DEF ReadClock, ArmFails, Fire, CheckLapse, PollFails
<1> QED
  BY <1>1, <1>2, <1>3 DEF WatchInv, TimerCoversLeases

-----------------------------------------------------------------------------

LEMMA WatchStep ==
    ASSUME WatchInv, [Next]_vars
    PROVE  WatchInv'
<1>1. CASE Write
  BY <1>1, WriteInv
<1>2. CASE LocalWake \/ Show
  <2>1. UNCHANGED <<store, watcher, faults, revived>>
    BY <1>2 DEF LocalWake, Show, past
  <2>2. wake' \in BOOLEAN /\ owed' \in BOOLEAN /\ pruned' \in BOOLEAN /\ gap' \in BOOLEAN
    BY <1>2, Zenon DEF LocalWake, Show, WatchInv, TypeOK, past
  <2>3. shown' \subseteq Id
    BY <1>2 DEF LocalWake, Show, WatchInv, TypeOK, Live, LiveAt, past
  <2>4. TypeOK'
    BY <2>1, <2>2, <2>3, Zenon DEF WatchInv, TypeOK, store, past, watcher
  <2>5. WatcherBehind' /\ TimerCoversLeases'
    BY <2>1 DEF WatchInv, WatcherBehind, TimerCoversLeases, LiveAt, store, past, watcher
  <2> QED
    BY <2>4, <2>5 DEF WatchInv
<1>3. CASE Tick
  BY <1>3 DEF Tick, WatchInv, TypeOK, WatcherBehind, TimerCoversLeases, LiveAt, watcher, past
<1>4. CASE Watch
  BY <1>4, ArmInv, PollInv, AwayInv DEF Watch
<1>5. CASE UNCHANGED vars
  BY <1>5 DEF vars, WatchInv, TypeOK, WatcherBehind, TimerCoversLeases, LiveAt, store, past, watcher
<1> QED
  BY <1>1, <1>2, <1>3, <1>4, <1>5 DEF Next

LEMMA WatchInvariant == Spec => []WatchInv
<1>1. ASSUME Init
      PROVE  WatchInv
  <2>1. expires \in [Id -> Nat] /\ at \in 0 .. now /\ faults \in Nat /\ revived \subseteq Id
    BY <1>1 DEF Init
  <2>2. seen \in Nat \cup {Unknown} /\ version \in Nat /\ now \in Nat /\ target = 0
        /\ from \in Nat /\ pc \in {"select", "clock", "arm", "lapse"} /\ shown \subseteq Id
    BY <1>1 DEF Init
  <2>3. /\ armed \in BOOLEAN /\ wake \in BOOLEAN /\ owed \in BOOLEAN
        /\ pruned \in BOOLEAN /\ gap \in BOOLEAN
    BY <1>1, Zenon DEF Init
  <2>4. target \in Nat
    BY <2>2
  <2>5. WatcherBehind /\ pc # "select"
    BY <1>1 DEF Init, WatcherBehind
  <2> QED
    BY <2>1, <2>2, <2>3, <2>4, <2>5, Zenon DEF WatchInv, TypeOK, TimerCoversLeases
<1>2. WatchInv /\ [Next]_vars => WatchInv'
  BY WatchStep
<1> QED
  BY <1>1, <1>2, PTL DEF Spec

\* Type correctness of the watcher, and a timer that is not armed is stopped,
\* whichever of Watch's reads fail (wake.go, expiryWatch).
THEOREM WatchTypes == Spec => []TypeOK
<1> QED
  BY WatchInvariant, PTL DEF WatchInv

\* The timer of expiryWatch is set no later than any expiry ahead of it while the
\* watcher knows the store's version: why a renewal that shortens a lease, alone
\* of the renewals, must move the version (lease.go:253).  What a renewal with a
\* clock reading from before the store's lock (service.go:281) can bring back
\* behind the timer is just the leases in revived.
THEOREM TimerIsEarlyEnough == Spec => []TimerCoversLeases
<1> QED
  BY WatchInvariant, PTL DEF WatchInv

=============================================================================
