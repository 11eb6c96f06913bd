------------------------------ MODULE KvLease ------------------------------
(***************************************************************************)
(* The lease store of the single-process tiers (internal/lease/kvlease):   *)
(* every lease in one document of a key-value store, and beside it the     *)
(* version that watchers poll, a second value.                             *)
(*                                                                         *)
(* A method holds a semaphore and a file lock from its load to its last    *)
(* write, so it is one step.  Its time is read before it waits for them:   *)
(* now is any reading of the clock up to this moment.  The version is      *)
(* written after the document and its failure is only logged; a crash      *)
(* between the two writes leaves the same disk.  Either value may be lost  *)
(* or damaged from outside, and the version may fail to be read.           *)
(*                                                                         *)
(* Abstracted: users, tools, labels and claim times (shown, never          *)
(* compared), other refusals of input, a document write that fails (it     *)
(* changes nothing), and the clock's unit: a tick is one microsecond, the  *)
(* unit of the token floor.                                                *)
(***************************************************************************)
EXTENDS Naturals, FiniteSets

CONSTANTS
    Id,             \* entity ids
    Identity,       \* holder identities
    Hash,           \* lease hashes
    Status,         \* status notes
    NoLease,        \* no entry in the document
    Ttl,            \* lease durations
    MaxPerStore,    \* lease.MaxPerStore
    MaxPerIdentity, \* lease.MaxPerIdentity
    MaxTime,        \* bound: clock ticks
    MaxVersion,     \* bound: version after a visible write
    MaxFaults       \* bound: failed reads and writes, values lost

Lease == [identity: Identity, hash: Hash, token: Nat, expires: Nat, status: Status]

ASSUME LeaseAssumption ==
    /\ NoLease \notin Lease
    /\ Ttl \subseteq Nat \ {0}
    /\ MaxPerStore \in Nat /\ MaxPerIdentity \in Nat
    /\ MaxTime \in Nat /\ MaxVersion \in Nat /\ MaxFaults \in Nat

VARIABLES
    doc,        \* the document: last token, version, lease of each id
    damaged,    \* the document does not parse
    vk,         \* the version key, 0 when missing
    clock,      \* the time
    faults,     \* faults so far
    top,        \* history: the highest token issued
    exposed     \* history: both counters were lost at once

vars == <<doc, damaged, vk, clock, faults, top, exposed>>

max(a, b) == IF a >= b THEN a ELSE b

Nobody == [i \in Id |-> NoLease]
EmptyDocument == [token |-> 0, version |-> 0, leases |-> Nobody]

-----------------------------------------------------------------------------
(* load and flush. *)

\* One fault or none.
Cost(failed) == IF failed THEN 1 ELSE 0

\* Mutant of Loaded: the token counter of the document alone is trusted.
LoadedCounterOnly(seen, wrote) ==
    [mem |-> IF damaged THEN EmptyDocument ELSE doc, key |-> seen,
     doc |-> IF damaged THEN EmptyDocument ELSE doc, vk |-> vk,
     cost |-> Cost(seen # vk), blind |-> FALSE]

\* The document in memory and the version key read with it, and what the load
\* leaves on disk: a damaged document is reset and written back at once, its
\* version key too unless that write fails.
Loaded(seen, wrote) ==
    LET reset == [token |-> seen, version |-> seen + 1, leases |-> Nobody]
        moved == damaged /\ wrote
    IN [mem   |-> IF damaged THEN reset ELSE [doc EXCEPT !.token = max(@, seen)],
        key   |-> IF moved THEN seen + 1 ELSE seen,
        doc   |-> IF damaged THEN reset ELSE doc,
        vk    |-> IF moved THEN seen + 1 ELSE vk,
        cost  |-> Cost(seen # vk) + Cost(damaged /\ ~wrote),
        blind |-> seen # vk /\ (damaged \/ doc.version < vk)]

Loads == {Loaded(seen, wrote) : seen \in {vk, 0}, wrote \in BOOLEAN}

Spend(n) == faults + n <= MaxFaults /\ faults' = faults + n

After(d) == /\ damaged' = FALSE
            /\ exposed' = (exposed \/ d.blind)
            /\ UNCHANGED clock

Unchanged(d) == /\ doc' = d.doc /\ vk' = d.vk /\ Spend(d.cost) /\ After(d)

\* The version key stays as it is.
Quiet(d, L) ==
    /\ doc' = [d.mem EXCEPT !.leases = L]
    /\ vk' = d.vk /\ Spend(d.cost) /\ After(d)

\* Mutant of NextVersion: one past the document's own version.
NextVersionOwn(d, token) == d.mem.version + 1

NextVersion(d, token) == max(max(d.mem.version, token), d.key) + 1

\* Mutant of Visible: the token counter is not written back.
VisibleDropsToken(d, L, token) ==
    /\ NextVersion(d, token) <= MaxVersion
    /\ doc' = [version |-> NextVersion(d, token), leases |-> L]
    /\ vk' = NextVersion(d, token) /\ Spend(d.cost) /\ After(d)

Visible(d, L, token) ==
    LET v == NextVersion(d, token) IN
    /\ v <= MaxVersion
    /\ doc' = [token |-> token, version |-> v, leases |-> L]
    /\ \/ vk' = v /\ Spend(d.cost)
       \/ vk' = d.vk /\ Spend(d.cost + 1)
    /\ After(d)

-----------------------------------------------------------------------------
(* The methods. *)

LiveAt(l, now) == l # NoLease /\ now < l.expires

\* Mutant of Pruned: a lease is gone at a time before it expires.
PrunedEarly(L, now) ==
    [i \in Id |-> IF LiveAt(L[i], now + 1) THEN L[i] ELSE NoLease]

Pruned(L, now) == [i \in Id |-> IF LiveAt(L[i], now) THEN L[i] ELSE NoLease]

Taken(L) == {i \in Id : L[i] # NoLease}
HeldBy(L, k) == {i \in Taken(L) : L[i].identity = k}
WithHash(L, h) == {i \in Taken(L) : L[i].hash = h}

NextToken(last, now) == max(last + 1, now)

\* The leases left by a refused call.
KeepPruning(d, L) == IF L = d.mem.leases THEN Unchanged(d) ELSE Quiet(d, L)

\* Mutant of MayClaim: only the leases of other identities are counted.
MayClaimUncapped(L, i, k, h) ==
    /\ L[i] = NoLease
    /\ WithHash(L, h) = {}
    /\ Cardinality(Taken(L) \ HeldBy(L, k)) < MaxPerStore

MayClaim(L, i, k, h) ==
    /\ L[i] = NoLease
    /\ WithHash(L, h) = {}
    /\ Cardinality(Taken(L)) < MaxPerStore
    /\ Cardinality(HeldBy(L, k)) < MaxPerIdentity

Claim(i, k, h, s, now, ttl) ==
    \E d \in Loads :
        LET L == Pruned(d.mem.leases, now)
            t == NextToken(d.mem.token, now)
            l == [identity |-> k, hash |-> h, token |-> t, expires |-> now + ttl, status |-> s]
        IN IF MayClaim(L, i, k, h)
             THEN Visible(d, [L EXCEPT ![i] = l], t) /\ top' = max(top, t)
             ELSE KeepPruning(d, L) /\ UNCHANGED top

\* The leases a call with this hash and identity acts on; byHash picks one.
Own(L, h, k) == WithHash(L, h) \cap HeldBy(L, k)
Lost(L, h, k) == WithHash(L, h) = {} \/ WithHash(L, h) \ HeldBy(L, k) # {}

\* Mutant of Extends: every renewal is taken for a plain extension.
ExtendsAlways(l, s, until) == TRUE

\* A renewal that only extends the lease is quiet.
Extends(l, s, until) == until >= l.expires /\ s = l.status

Renew(k, h, s, now, ttl) ==
    /\ UNCHANGED top
    /\ \E d \in Loads : LET L == Pruned(d.mem.leases, now) IN
         \/ Lost(L, h, k) /\ KeepPruning(d, L)
         \/ \E i \in Own(L, h, k) :
              LET N == [L EXCEPT ![i].expires = now + ttl, ![i].status = s] IN
              IF Extends(L[i], s, now + ttl) THEN Quiet(d, N)
                                             ELSE Visible(d, N, d.mem.token)

Release(k, h, now) ==
    /\ UNCHANGED top
    /\ \E d \in Loads : LET L == Pruned(d.mem.leases, now) IN
         \/ Lost(L, h, k) /\ KeepPruning(d, L)
         \/ \E i \in Own(L, h, k) : Visible(d, [L EXCEPT ![i] = NoLease], d.mem.token)

\* Mutant of Moves: the lease on the new id gives way.
MovesAlways(L, to, now) == TRUE

\* A live lease on the new id stays.
Moves(L, to, now) == ~LiveAt(L[to], now)

Rekey(from, to, now) ==
    /\ from # to
    /\ \E d \in Loads :
         LET L == d.mem.leases
             t == NextToken(d.mem.token, now)
             gone == [L EXCEPT ![from] = NoLease]
         IN CASE L[from] = NoLease -> Unchanged(d) /\ UNCHANGED top
              [] L[from] # NoLease /\ ~LiveAt(L[from], now) -> Quiet(d, gone) /\ UNCHANGED top
              [] LiveAt(L[from], now) /\ ~Moves(L, to, now) ->
                   Visible(d, gone, d.mem.token) /\ UNCHANGED top
              [] LiveAt(L[from], now) /\ Moves(L, to, now) ->
                   /\ Visible(d, [gone EXCEPT ![to] = [L[from] EXCEPT !.token = t]], t)
                   /\ top' = max(top, t)

Drop(i, now) ==
    /\ UNCHANGED top
    /\ \E d \in Loads :
         LET L == d.mem.leases
             gone == [L EXCEPT ![i] = NoLease]
         IN CASE L[i] = NoLease -> Unchanged(d)
              [] L[i] # NoLease /\ ~LiveAt(L[i], now) -> Quiet(d, gone)
              [] LiveAt(L[i], now) -> Visible(d, gone, d.mem.token)

\* Lookup, Get, ListByHolder and NextExpiry load too.
Read == UNCHANGED top /\ \E d \in Loads : Unchanged(d)

-----------------------------------------------------------------------------
(* The environment. *)

Tick == /\ clock < MaxTime /\ clock' = clock + 1
        /\ UNCHANGED <<doc, damaged, vk, faults, top, exposed>>

\* The document is deleted, or overwritten with something that does not parse,
\* while the version key may be behind it.
LoseDocument ==
    /\ doc' = EmptyDocument
    /\ damaged' \in BOOLEAN
    /\ exposed' = (exposed \/ vk < doc.version)
    /\ Spend(1)
    /\ UNCHANGED <<vk, clock, top>>

\* The version key is deleted or does not parse, while the document may be lost.
LoseVersionKey ==
    /\ vk' = 0
    /\ exposed' = (exposed \/ doc.version < vk)
    /\ Spend(1)
    /\ UNCHANGED <<doc, damaged, clock, top>>

-----------------------------------------------------------------------------

Init ==
    /\ doc = EmptyDocument /\ damaged = FALSE /\ vk = 0
    /\ clock = 0 /\ faults = 0 /\ top = 0 /\ exposed = FALSE

Call(now) ==
    \/ \E k \in Identity, h \in Hash :
         \/ \E s \in Status, ttl \in Ttl : \/ \E i \in Id : Claim(i, k, h, s, now, ttl)
                                           \/ Renew(k, h, s, now, ttl)
         \/ Release(k, h, now)
    \/ \E i \in Id : \/ Drop(i, now)
                     \/ \E j \in Id : Rekey(i, j, now)
    \/ Read

Next == (\E now \in 0 .. clock : Call(now)) \/ Tick \/ LoseDocument \/ LoseVersionKey

Spec == Init /\ [][Next]_vars

-----------------------------------------------------------------------------
(* Properties. *)

\* Type correctness.
Document == [token: Nat, version: Nat, leases: [Id -> Lease \cup {NoLease}]]
TypeOK ==
    /\ doc \in Document /\ damaged \in BOOLEAN /\ vk \in Nat
    /\ clock \in Nat /\ faults \in Nat /\ top \in Nat /\ exposed \in BOOLEAN

Leases == doc.leases

Tokens(L) == {L[i].token : i \in Taken(L)}

\* Every token issued is above all issued before it ("tokens keep increasing
\* after the document is deleted or reset", kv.go), unless the document and the
\* version key were lost at once.
TokensIncrease ==
    [][~exposed' => \A t \in Tokens(Leases') \ Tokens(Leases) : t > top]_vars

\* "The version key also stays above every token issued" (kv.go), as long as it
\* is not behind the document: the next token rests on it if the document goes.
VersionAboveTokens == ~exposed /\ vk >= doc.version /\ top # 0 => vk > top

\* The version a watcher compares never returns to a value it had, even after
\* the document is lost: it grows, except when it is lost itself.
VersionGrows == [][vk' # vk => vk' > vk \/ vk' = 0 \/ exposed']_vars

\* A hash names one lease, so a renewal or release never reaches another,
\* through claims, renames and expiries (byHash takes the first it meets).
HashesUnique ==
    \A i, j \in Taken(Leases) : Leases[i].hash = Leases[j].hash => i = j

\* "The caps hold under concurrency" (lease.Store), whatever times the calls
\* carry and wherever renames move leases.
CapsHold ==
    /\ Cardinality(Taken(Leases)) <= MaxPerStore
    /\ \A k \in Identity : Cardinality(HeldBy(Leases, k)) <= MaxPerIdentity

\* What the holder of l, and a reader who saw it, still have in m.
Kept(l, m) ==
    /\ m # NoLease
    /\ m.identity = l.identity /\ m.hash = l.hash /\ m.status = l.status
    /\ m.expires >= l.expires

\* A live lease ends early only by its holder's call, by the rename or delete
\* of its entity, or with the document: no claim, whatever time it carries,
\* takes it, and no other identity's call changes it.
LiveLeaseStays ==
    [][\A i \in Id : LET l == Leases[i] IN
         LiveAt(l, clock) /\ ~Kept(l, Leases'[i]) =>
           \/ doc' = EmptyDocument
           \/ \E now \in 0 .. clock :
                \/ Release(l.identity, l.hash, now) \/ Drop(i, now)
                \/ \E s \in Status, ttl \in Ttl : Renew(l.identity, l.hash, s, now, ttl)
                \/ \E j \in Id : Rekey(i, j, now)]_vars

\* A reader who saw a live lease learns from the version that it ended, changed
\* or ends earlier ("changes exactly on a change that watchers act on",
\* lease.go), unless a read or write failed.
ChangesMoveVersion ==
    [][faults' = faults =>
         \A i \in Id : LiveAt(Leases[i], clock) /\ ~Kept(Leases[i], Leases'[i])
                       => vk' # vk]_vars

=============================================================================
