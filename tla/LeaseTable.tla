----------------------------- MODULE LeaseTable -----------------------------
(***************************************************************************)
(* What a lease store promises, whichever backend keeps it (the Store      *)
(* interface of internal/lease): one table of leases, that a method reads  *)
(* and writes at once, by the time it carries.  A lease that is expired at *)
(* that time is not seen, and a call may remove it.                        *)
(*                                                                         *)
(* Abstracted, beside what KvLease leaves out: the answers of the calls,   *)
(* and the version, which is what a watcher sees of the table.             *)
(***************************************************************************)
EXTENDS Naturals, FiniteSets

CONSTANTS
    Id, Identity, Hash, Status, NoLease,    \* as in KvLease
    Ttl, MaxPerStore, MaxPerIdentity

VARIABLES
    leases,     \* the lease on each id, or none
    clock,      \* the time
    faults,     \* failed accesses and losses so far
    issued,     \* the highest token issued
    forgotten   \* the store has lost its count of tokens

vars == <<leases, clock, faults, issued, forgotten>>

Live(now) == {i \in Id : leases[i] # NoLease /\ now < leases[i].expires}
Own(h, k, now) == {i \in Live(now) : leases[i].hash = h /\ leases[i].identity = k}

\* The leases without those on S, and without any that are expired.
Without(S) == [i \in Id |-> IF i \in S THEN NoLease ELSE leases[i]]
Swept(now) == {Without(S) : S \in SUBSET (Id \ Live(now))}

\* Tokens grow as long as the store counts them.
Issue(t) == /\ ~forgotten' => t > issued
            /\ issued' = IF t > issued THEN t ELSE issued
TokenOf(i) == IF leases[i] = NoLease THEN 0 ELSE leases[i].token

\* The count of tokens is lost by a fault alone.
Endures == /\ faults <= faults'
           /\ forgotten' # forgotten => forgotten' /\ faults < faults'

-----------------------------------------------------------------------------

\* Neither HeldError, nor a hash in use, nor ErrFull, nor ErrLimit.
Grantable(i, k, h, now) ==
    /\ i \notin Live(now)
    /\ \A j \in Live(now) : leases[j].hash # h
    /\ Cardinality(Live(now)) < MaxPerStore
    /\ Cardinality({j \in Live(now) : leases[j].identity = k}) < MaxPerIdentity

Claim(i, k, h, s, now, ttl) ==
    \/ /\ Grantable(i, k, h, now) /\ Issue(TokenOf(i)')
       /\ \E L \in Swept(now) :
            leases' = [L EXCEPT ![i] = [identity |-> k, hash |-> h, token |-> TokenOf(i)',
                                        expires |-> now + ttl, status |-> s]]
    \/ ~Grantable(i, k, h, now) /\ leases' \in Swept(now) /\ UNCHANGED issued

\* ErrLost when the caller has no such lease.
Renew(k, h, s, now, ttl) ==
    /\ UNCHANGED issued
    /\ \/ Own(h, k, now) = {} /\ leases' \in Swept(now)
       \/ \E i \in Own(h, k, now), L \in Swept(now) :
            leases' = [L EXCEPT ![i].expires = now + ttl, ![i].status = s]

Release(k, h, now) ==
    /\ UNCHANGED issued
    /\ \E L \in Swept(now) :
         leases' = [i \in Id |-> IF i \in Own(h, k, now) THEN NoLease ELSE L[i]]

Rekey(from, to, now) ==
    /\ from # to
    /\ \E L \in Swept(now) :
         LET gone == [L EXCEPT ![from] = NoLease] IN
         IF from \in Live(now) /\ to \notin Live(now)
           THEN /\ Issue(TokenOf(to)')
                /\ leases' = [gone EXCEPT ![to] = [leases[from] EXCEPT !.token = TokenOf(to)']]
           ELSE leases' = gone /\ UNCHANGED issued

Drop(i, now) ==
    /\ UNCHANGED issued
    /\ \E L \in Swept(now) : leases' = [L EXCEPT ![i] = NoLease]

Call(now) ==
    \/ \E i \in Id : \/ Drop(i, now)
                     \/ \E j \in Id : Rekey(i, j, now)
    \/ \E k \in Identity, h \in Hash :
         \/ Release(k, h, now)
         \/ \E s \in Status, ttl \in Ttl : \/ Renew(k, h, s, now, ttl)
                                           \/ \E i \in Id : Claim(i, k, h, s, now, ttl)

-----------------------------------------------------------------------------

\* The store is lost, or an access fails.
Lose == faults < faults' /\ leases' \in {leases, Without(Id)} /\ UNCHANGED issued

Init == /\ leases = [i \in Id |-> NoLease]
        /\ clock = 0 /\ faults = 0 /\ issued = 0 /\ forgotten = FALSE

Next ==
    /\ Endures
    /\ \/ clock' = clock + 1 /\ UNCHANGED <<leases, faults, issued, forgotten>>
       \/ (Lose \/ \E now \in 0 .. clock : Call(now)) /\ UNCHANGED clock

Spec == Init /\ [][Next]_vars

=============================================================================
