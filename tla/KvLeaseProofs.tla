--------------------------- MODULE KvLeaseProofs ---------------------------
(***************************************************************************)
(* Theorems about KvLease, for every value of its constants.  Every call   *)
(* is first brought to one of four shapes (CallShape): nothing, a quiet    *)
(* write that only thins the leases, a visible one that only thins them,   *)
(* or a visible one that issues a token.  The last part shows that each    *)
(* method does what the contract of leases says of it.                     *)
(***************************************************************************)
EXTENDS KvLeaseContract, FiniteSetTheorems, TLAPS

Map == [Id -> Lease \cup {NoLease}]

\* The leases of N are leases of L, with their token, hash and identity.
Thins(L, N) ==
    \A i \in Taken(N) : /\ i \in Taken(L)
                        /\ N[i].token = L[i].token
                        /\ N[i].hash = L[i].hash /\ N[i].identity = L[i].identity

\* N is L thinned, with a lease of token t claimed in it.
Grants(L, N, t) ==
    \E P \in Map, i \in Id, l \in Lease :
        /\ Thins(L, P) /\ MayClaim(P, i, l.identity, l.hash)
        /\ l.token = t /\ N = [P EXCEPT ![i] = l]

\* N is L with the lease of one id on another, under token t.
Carries(L, N, t) ==
    \E from \in Id, to \in Id :
        /\ from # to /\ from \in Taken(L)
        /\ N = [L EXCEPT ![from] = NoLease, ![to] = [L[from] EXCEPT !.token = t]]

\* What a call does to what it loaded.
Nothing(d) == Unchanged(d) /\ top' = top
Thinned(d) ==
    \E N \in Map : /\ Thins(d.mem.leases, N) /\ top' = top
                   /\ \/ Quiet(d, N) /\ Taken(d.mem.leases) # {}
                      \/ Visible(d, N, d.mem.token)
Issued(d) ==
    \E N \in Map, t \in Nat :
        /\ t > d.mem.token /\ Visible(d, N, t) /\ top' = max(top, t)
        /\ Grants(d.mem.leases, N, t) \/ Carries(d.mem.leases, N, t)

-----------------------------------------------------------------------------
(* Types. *)

LEMMA MaxType == ASSUME NEW a \in Nat, NEW b \in Nat
                 PROVE  max(a, b) \in Nat /\ max(a, b) >= a /\ max(a, b) >= b
BY DEF max

LEMMA NextTokenType ==
    ASSUME NEW last \in Nat, NEW now \in Nat
    PROVE  NextToken(last, now) \in Nat /\ NextToken(last, now) > last
BY DEF NextToken, max

LEMMA EmptyType == EmptyDocument \in Document /\ Nobody \in Map
BY DEF EmptyDocument, Document, Nobody, Map

LEMMA LoadType ==
    ASSUME TypeOK, NEW d \in Loads
    PROVE  /\ d.mem \in Document /\ d.doc \in Document
           /\ d.key \in Nat /\ d.vk \in Nat /\ d.cost \in Nat /\ d.blind \in BOOLEAN
<1>1. PICK seen \in {vk, 0}, wrote \in BOOLEAN : d = Loaded(seen, wrote)
  BY DEF Loads
<1>2. seen \in Nat
  BY DEF TypeOK
<1>3. max(doc.token, seen) \in Nat
  BY <1>2, MaxType DEF TypeOK, Document
<1>4. [token |-> seen, version |-> seen + 1, leases |-> Nobody] \in Document
  BY <1>2, EmptyType DEF Document, Map
<1>5. [doc EXCEPT !.token = max(@, seen)] \in Document
  BY <1>3 DEF TypeOK, Document
<1> QED
  BY <1>1, <1>2, <1>4, <1>5 DEF Loaded, Cost, TypeOK

\* What pruning leaves.
LEMMA PrunedThins ==
    ASSUME NEW L \in Map, NEW now \in Nat
    PROVE  Pruned(L, now) \in Map /\ Thins(L, Pruned(L, now))
BY DEF Pruned, Map, Thins, Taken

LEMMA ErasedThins ==
    ASSUME NEW L \in Map, NEW i \in Id
    PROVE  [L EXCEPT ![i] = NoLease] \in Map /\ Thins(L, [L EXCEPT ![i] = NoLease])
BY DEF Map, Thins, Taken

LEMMA ThinsTransitive ==
    ASSUME NEW L \in Map, NEW M \in Map, NEW N \in Map, Thins(L, M), Thins(M, N)
    PROVE  Thins(L, N)
BY DEF Thins

LEMMA KeepPruningShape ==
    ASSUME TypeOK, NEW d \in Loads, NEW now \in Nat, top' = top,
           KeepPruning(d, Pruned(d.mem.leases, now))
    PROVE  Nothing(d) \/ Thinned(d)
<1> DEFINE L == d.mem.leases
<1>1. L \in Map
  BY LoadType DEF Document, Map
<1>2. Pruned(L, now) \in Map /\ Thins(L, Pruned(L, now))
  BY <1>1, PrunedThins
<1>3. CASE Pruned(L, now) = L
  BY <1>3 DEF KeepPruning, Nothing
<1>4. CASE Pruned(L, now) # L
  <2>1. Taken(L) # {}
    BY <1>1, <1>4 DEF Pruned, Taken, LiveAt, Map
  <2> QED
    BY <1>2, <1>4, <2>1 DEF KeepPruning, Thinned
<1> QED
  BY <1>3, <1>4

\* Every call has one of the shapes.
LEMMA CallShape ==
    ASSUME TypeOK, NEW now \in Nat, Call(now)
    PROVE  \E d \in Loads : Nothing(d) \/ Thinned(d) \/ Issued(d)
<1> USE LeaseAssumption
<1> DEFINE Goal == \E d \in Loads : Nothing(d) \/ Thinned(d) \/ Issued(d)
<1>0. \A d \in Loads : d.mem.leases \in Map /\ d.mem.token \in Nat
  BY LoadType DEF Document, Map
<1>1. ASSUME NEW i \in Id, NEW k \in Identity, NEW h \in Hash, NEW s \in Status,
             NEW ttl \in Ttl, Claim(i, k, h, s, now, ttl)
      PROVE  Goal
  <2>1. PICK d \in Loads :
          LET L == Pruned(d.mem.leases, now)
              t == NextToken(d.mem.token, now)
              l == [identity |-> k, hash |-> h, token |-> t, expires |-> now + ttl, status |-> s]
          IN IF MayClaim(L, i, k, h)
               THEN Visible(d, [L EXCEPT ![i] = l], t) /\ top' = max(top, t)
               ELSE KeepPruning(d, L) /\ UNCHANGED top
    BY <1>1 DEF Claim
  <2> DEFINE L == Pruned(d.mem.leases, now)
             t == NextToken(d.mem.token, now)
             l == [identity |-> k, hash |-> h, token |-> t, expires |-> now + ttl, status |-> s]
  <2>2. L \in Map /\ Thins(d.mem.leases, L)
    BY <1>0, PrunedThins
  <2>3. t \in Nat /\ t > d.mem.token
    BY <1>0, NextTokenType
  <2>4. l \in Lease
    BY <2>3 DEF Lease
  <2>5. CASE MayClaim(L, i, k, h)
    <3> DEFINE N == [L EXCEPT ![i] = l]
    <3>1. N \in Map
      BY <2>2, <2>4 DEF Map
    <3>2. Visible(d, N, t) /\ top' = max(top, t)
      BY <2>1, <2>5
    <3>3. Grants(d.mem.leases, N, t)
      <4>1. l.identity = k /\ l.hash = h /\ l.token = t
        OBVIOUS
      <4> QED
        BY <2>2, <2>4, <2>5, <4>1 DEF Grants
    <3> QED
      BY <2>3, <3>1, <3>2, <3>3 DEF Issued
  <2>6. CASE ~MayClaim(L, i, k, h)
    BY <2>1, <2>6, KeepPruningShape, SMTT(30)
  <2> QED
    BY <2>5, <2>6
<1>2. ASSUME NEW k \in Identity, NEW h \in Hash, NEW s \in Status, NEW ttl \in Ttl,
             Renew(k, h, s, now, ttl)
      PROVE  Goal
  <2>1. PICK d \in Loads :
          LET L == Pruned(d.mem.leases, now) IN
            \/ Lost(L, h, k) /\ KeepPruning(d, L)
            \/ \E i \in Own(L, h, k) :
                 LET N == [L EXCEPT ![i].expires = now + ttl, ![i].status = s] IN
                 IF Extends(L[i], s, now + ttl) THEN Quiet(d, N)
                                                ELSE Visible(d, N, d.mem.token)
    BY <1>2 DEF Renew
  <2> DEFINE L == Pruned(d.mem.leases, now)
  <2>2. L \in Map /\ Thins(d.mem.leases, L) /\ top' = top
    BY <1>0, <1>2, PrunedThins DEF Renew
  <2>3. CASE Lost(L, h, k) /\ KeepPruning(d, L)
    BY <2>2, <2>3, KeepPruningShape
  <2>4. CASE \E i \in Own(L, h, k) :
               LET N == [L EXCEPT ![i].expires = now + ttl, ![i].status = s] IN
               IF Extends(L[i], s, now + ttl) THEN Quiet(d, N)
                                              ELSE Visible(d, N, d.mem.token)
    <3>1. PICK i \in Own(L, h, k) :
            LET N == [L EXCEPT ![i].expires = now + ttl, ![i].status = s] IN
            IF Extends(L[i], s, now + ttl) THEN Quiet(d, N)
                                           ELSE Visible(d, N, d.mem.token)
      BY <2>4
    <3> DEFINE N == [L EXCEPT ![i].expires = now + ttl, ![i].status = s]
    <3>2. i \in Id /\ i \in Taken(L) /\ L[i] \in Lease
      BY <2>2 DEF Own, WithHash, HeldBy, Taken, Map
    <3>3. N \in Map /\ Thins(L, N)
      BY <2>2, <3>2 DEF Map, Lease, Thins, Taken
    <3>4. Thins(d.mem.leases, N)
      BY <1>0, <2>2, <3>3, ThinsTransitive
    <3>5. Taken(d.mem.leases) # {}
      BY <2>2, <3>2 DEF Thins
    <3> QED
      BY <2>2, <3>1, <3>3, <3>4, <3>5 DEF Thinned
  <2> QED
    BY <2>1, <2>3, <2>4
<1>3. ASSUME NEW k \in Identity, NEW h \in Hash, Release(k, h, now)
      PROVE  Goal
  <2>1. PICK d \in Loads :
          LET L == Pruned(d.mem.leases, now) IN
            \/ Lost(L, h, k) /\ KeepPruning(d, L)
            \/ \E i \in Own(L, h, k) : Visible(d, [L EXCEPT ![i] = NoLease], d.mem.token)
    BY <1>3 DEF Release
  <2> DEFINE L == Pruned(d.mem.leases, now)
  <2>2. L \in Map /\ Thins(d.mem.leases, L) /\ top' = top
    BY <1>0, <1>3, PrunedThins DEF Release
  <2>3. CASE Lost(L, h, k) /\ KeepPruning(d, L)
    BY <2>2, <2>3, KeepPruningShape
  <2>4. ASSUME NEW i \in Own(L, h, k), Visible(d, [L EXCEPT ![i] = NoLease], d.mem.token)
        PROVE  Goal
    <3>1. i \in Id
      BY DEF Own, WithHash, Taken
    <3>2. [L EXCEPT ![i] = NoLease] \in Map /\ Thins(L, [L EXCEPT ![i] = NoLease])
      BY <2>2, <3>1, ErasedThins
    <3>3. Thins(d.mem.leases, [L EXCEPT ![i] = NoLease])
      BY <1>0, <2>2, <3>2, ThinsTransitive
    <3> QED
      BY <2>2, <2>4, <3>2, <3>3 DEF Thinned
  <2> QED
    BY <2>1, <2>3, <2>4
<1>4. ASSUME NEW i \in Id, Drop(i, now) PROVE Goal
  <2>1. PICK d \in Loads :
          LET L == d.mem.leases  gone == [L EXCEPT ![i] = NoLease] IN
            \/ L[i] = NoLease /\ Unchanged(d)
            \/ L[i] # NoLease /\ Quiet(d, gone)
            \/ Visible(d, gone, d.mem.token)
    BY <1>4 DEF Drop
  <2>2. /\ [d.mem.leases EXCEPT ![i] = NoLease] \in Map
        /\ Thins(d.mem.leases, [d.mem.leases EXCEPT ![i] = NoLease])
        /\ top' = top
    BY <1>0, <1>4, ErasedThins DEF Drop
  <2>3. d.mem.leases[i] # NoLease => Taken(d.mem.leases) # {}
    BY DEF Taken
  <2> QED
    BY <2>1, <2>2, <2>3 DEF Nothing, Thinned
<1>5. ASSUME NEW from \in Id, NEW to \in Id, Rekey(from, to, now) PROVE Goal
  <2>1. PICK d \in Loads :
          LET L == d.mem.leases
              t == NextToken(d.mem.token, now)
              gone == [L EXCEPT ![from] = NoLease]
          IN \/ Unchanged(d) /\ top' = top
             \/ L[from] # NoLease /\ Quiet(d, gone) /\ top' = top
             \/ Visible(d, gone, d.mem.token) /\ top' = top
             \/ /\ L[from] # NoLease
                /\ Visible(d, [gone EXCEPT ![to] = [L[from] EXCEPT !.token = t]], t)
                /\ top' = max(top, t)
    BY <1>5 DEF Rekey, LiveAt
  <2> DEFINE L == d.mem.leases
             t == NextToken(d.mem.token, now)
             gone == [L EXCEPT ![from] = NoLease]
             N == [gone EXCEPT ![to] = [L[from] EXCEPT !.token = t]]
  <2>2. gone \in Map /\ Thins(L, gone)
    BY <1>0, ErasedThins
  <2>3. t \in Nat /\ t > d.mem.token
    BY <1>0, NextTokenType
  <2>4. CASE Unchanged(d) /\ top' = top
    BY <2>4 DEF Nothing
  <2>5. CASE L[from] # NoLease /\ Quiet(d, gone) /\ top' = top
    <3>1. Taken(L) # {}
      BY <2>5 DEF Taken
    <3> QED
      BY <2>2, <2>5, <3>1 DEF Thinned
  <2>6. CASE Visible(d, gone, d.mem.token) /\ top' = top
    BY <2>2, <2>6 DEF Thinned
  <2>7. CASE L[from] # NoLease /\ Visible(d, N, t) /\ top' = max(top, t)
    <3>1. L[from] \in Lease
      BY <1>0, <2>7 DEF Map
    <3>2. N \in Map
      BY <2>2, <2>3, <3>1 DEF Map, Lease
    <3>3. from # to /\ from \in Taken(L)
      BY <1>5, <2>7 DEF Rekey, Taken
    <3>4. N = [L EXCEPT ![from] = NoLease, ![to] = [L[from] EXCEPT !.token = t]]
      BY <3>3
    <3>5. Carries(L, N, t)
      BY <3>3, <3>4 DEF Carries
    <3> QED
      BY <2>3, <2>7, <3>2, <3>5 DEF Issued
  <2> QED
    BY <2>1, <2>4, <2>5, <2>6, <2>7
<1>6. ASSUME Read PROVE Goal
  BY <1>6 DEF Read, Nothing
<1> QED
  BY <1>1, <1>2, <1>3, <1>4, <1>5, <1>6 DEF Call

\* Only the environment steps beside the calls.
LEMMA NextShape ==
    ASSUME TypeOK, [Next]_vars
    PROVE  \/ \E d \in Loads : Nothing(d) \/ Thinned(d) \/ Issued(d)
           \/ Tick \/ LoseDocument \/ LoseVersionKey \/ UNCHANGED vars
<1>1. ASSUME NEW now \in 0 .. clock, Call(now)
      PROVE  \E d \in Loads : Nothing(d) \/ Thinned(d) \/ Issued(d)
  <2>1. now \in Nat
    BY DEF TypeOK
  <2> QED
    BY <1>1, <2>1, CallShape
<1> QED
  BY <1>1 DEF Next

LEMMA NextVersionType ==
    ASSUME TypeOK, NEW d \in Loads, NEW t \in Nat
    PROVE  /\ NextVersion(d, t) \in Nat
           /\ NextVersion(d, t) > t /\ NextVersion(d, t) > d.key
           /\ NextVersion(d, t) > d.mem.version
<1>1. d.mem.version \in Nat /\ d.key \in Nat
  BY LoadType DEF Document
<1> DEFINE m == max(d.mem.version, t)
<1>2. m \in Nat /\ m >= d.mem.version /\ m >= t
  BY <1>1, MaxType
<1>3. max(m, d.key) \in Nat /\ max(m, d.key) >= m /\ max(m, d.key) >= d.key
  BY <1>1, <1>2, MaxType
<1> HIDE DEF m
<1>4. NextVersion(d, t) = max(m, d.key) + 1
  BY DEF NextVersion, m
<1> QED
  BY <1>1, <1>2, <1>3, <1>4

LEMMA InitType == Init => TypeOK
<1>1. Init => /\ doc \in Document /\ damaged \in BOOLEAN /\ exposed \in BOOLEAN
              /\ vk = 0 /\ clock = 0 /\ faults = 0 /\ top = 0
  BY EmptyType, Zenon DEF Init
<1> QED
  BY <1>1 DEF TypeOK

LEMMA AfterType ==
    ASSUME TypeOK, NEW d \in Loads, After(d)
    PROVE  /\ damaged' \in BOOLEAN /\ exposed' \in BOOLEAN /\ clock' \in Nat
           /\ damaged' = FALSE /\ (exposed' <=> exposed \/ d.blind)
<1>1. damaged' = FALSE /\ exposed' = (exposed \/ d.blind) /\ clock' = clock
  BY DEF After
<1>2. clock \in Nat
  BY DEF TypeOK
<1>3. exposed' \in BOOLEAN
  BY <1>1, Zenon
<1> QED
  BY <1>1, <1>2, <1>3, Zenon

LEMMA SpendType ==
    ASSUME TypeOK, NEW n \in Nat, Spend(n)
    PROVE  faults' \in Nat
BY DEF Spend, TypeOK

\* What the three kinds of write leave.
LEMMA UnchangedEffect ==
    ASSUME TypeOK, NEW d \in Loads, Unchanged(d)
    PROVE  /\ doc' = d.doc /\ vk' = d.vk /\ After(d)
           /\ doc' \in Document /\ vk' \in Nat /\ faults' \in Nat
<1>1. doc' = d.doc /\ vk' = d.vk /\ After(d) /\ Spend(d.cost)
  BY DEF Unchanged
<1>2. d.doc \in Document /\ d.vk \in Nat /\ d.cost \in Nat
  BY LoadType
<1>3. faults' \in Nat
  BY <1>1, <1>2, SpendType
<1> QED
  BY <1>1, <1>2, <1>3

LEMMA QuietEffect ==
    ASSUME TypeOK, NEW d \in Loads, NEW N \in Map, Quiet(d, N)
    PROVE  /\ doc' = [token |-> d.mem.token, version |-> d.mem.version, leases |-> N]
           /\ vk' = d.vk /\ After(d)
           /\ doc' \in Document /\ vk' \in Nat /\ faults' \in Nat
<1>1. doc' = [d.mem EXCEPT !.leases = N] /\ vk' = d.vk /\ After(d) /\ Spend(d.cost)
  BY DEF Quiet
<1>2. d.mem \in Document /\ d.vk \in Nat /\ d.cost \in Nat
  BY LoadType
<1>3. faults' \in Nat
  BY <1>1, <1>2, SpendType
<1>4. [d.mem EXCEPT !.leases = N] =
        [token |-> d.mem.token, version |-> d.mem.version, leases |-> N]
  BY <1>2 DEF Document
<1>5. doc' \in Document
  BY <1>1, <1>2, <1>4 DEF Document, Map
<1> QED
  BY <1>1, <1>2, <1>3, <1>4, <1>5

LEMMA VisibleEffect ==
    ASSUME TypeOK, NEW d \in Loads, NEW N \in Map, NEW t \in Nat, Visible(d, N, t)
    PROVE  /\ doc' = [token |-> t, version |-> NextVersion(d, t), leases |-> N]
           /\ vk' \in {NextVersion(d, t), d.vk} /\ After(d)
           /\ doc' \in Document /\ vk' \in Nat /\ faults' \in Nat
<1>1. /\ doc' = [token |-> t, version |-> NextVersion(d, t), leases |-> N]
      /\ After(d)
      /\ \/ vk' = NextVersion(d, t) /\ Spend(d.cost)
         \/ vk' = d.vk /\ Spend(d.cost + 1)
  BY DEF Visible
<1>2. d.vk \in Nat /\ d.cost \in Nat /\ d.cost + 1 \in Nat
  BY LoadType
<1>3. NextVersion(d, t) \in Nat
  BY NextVersionType
<1>4. faults' \in Nat
  BY <1>1, <1>2, SpendType
<1>5. doc' \in Document
  BY <1>1, <1>3 DEF Document, Map
<1> QED
  BY <1>1, <1>2, <1>3, <1>4, <1>5

LEMMA TypeStep ==
    ASSUME TypeOK, [Next]_vars
    PROVE  TypeOK'
<1>1. ASSUME NEW d \in Loads, After(d), top' \in Nat,
             doc' \in Document, vk' \in Nat, faults' \in Nat
      PROVE  TypeOK'
  BY <1>1, AfterType, Zenon DEF TypeOK
<1>2. top \in Nat
  BY DEF TypeOK
<1>3. ASSUME NEW d \in Loads, Nothing(d) PROVE TypeOK'
  BY <1>1, <1>2, <1>3, UnchangedEffect DEF Nothing
<1>4. ASSUME NEW d \in Loads, Thinned(d) PROVE TypeOK'
  <2>1. PICK N \in Map : /\ top' = top
                         /\ Quiet(d, N) \/ Visible(d, N, d.mem.token)
    BY <1>4 DEF Thinned
  <2>2. d.mem.token \in Nat
    BY LoadType DEF Document
  <2> QED
    BY <1>1, <1>2, <2>1, <2>2, QuietEffect, VisibleEffect
<1>5. ASSUME NEW d \in Loads, Issued(d) PROVE TypeOK'
  <2>1. PICK N \in Map, t \in Nat : Visible(d, N, t) /\ top' = max(top, t)
    BY <1>5 DEF Issued
  <2>2. top' \in Nat
    BY <1>2, <2>1, MaxType
  <2> QED
    BY <1>1, <2>1, <2>2, VisibleEffect
<1>6. CASE Tick
  BY <1>6 DEF Tick, TypeOK
<1>7. CASE LoseDocument
  <2>1. doc' \in Document /\ damaged' \in BOOLEAN /\ vk' \in Nat /\ clock' \in Nat
        /\ top' \in Nat
    BY <1>7, EmptyType DEF LoseDocument, TypeOK
  <2>2. faults' \in Nat
    BY <1>7, SpendType DEF LoseDocument
  <2>3. exposed' \in BOOLEAN
    BY <1>7, Zenon DEF LoseDocument
  <2> QED
    BY <2>1, <2>2, <2>3, Zenon DEF TypeOK
<1>8. CASE LoseVersionKey
  <2>1. doc' \in Document /\ damaged' \in BOOLEAN /\ vk' \in Nat /\ clock' \in Nat
        /\ top' \in Nat
    BY <1>8 DEF LoseVersionKey, TypeOK
  <2>2. faults' \in Nat
    BY <1>8, SpendType DEF LoseVersionKey
  <2>3. exposed' \in BOOLEAN
    BY <1>8, Zenon DEF LoseVersionKey
  <2> QED
    BY <2>1, <2>2, <2>3, Zenon DEF TypeOK
<1>9. CASE UNCHANGED vars
  BY <1>9 DEF vars, TypeOK
<1> QED
  BY <1>3, <1>4, <1>5, <1>6, <1>7, <1>8, <1>9, NextShape

\* Every reachable state of the lease store is well typed: the document that
\* flush writes is one that parse reads, and the counters stay natural numbers.
THEOREM LeaseTypes == Spec => []TypeOK
<1>1. Init => TypeOK
  BY InitType
<1>2. TypeOK /\ [Next]_vars => TypeOK'
  BY TypeStep
<1> QED
  BY <1>1, <1>2, PTL DEF Spec

-----------------------------------------------------------------------------
(* Tokens and versions. *)

\* A lost document has nothing in it, and a document without a version is one
\* nothing was written to.
LostIsEmpty == /\ damaged => doc = EmptyDocument
               /\ doc.version = 0 => doc = EmptyDocument

\* One of the counters is not below the tokens issued: the document's while its
\* version is not behind the key, the key's while it is not behind the document.
CounterHolds ==
    ~exposed => /\ doc.version >= vk => top <= doc.token
                /\ vk >= doc.version => top < vk \/ top = 0

TokenInv == TypeOK /\ LostIsEmpty /\ CounterHolds

\* The token a call builds on is not below any issued.
LEMMA LoadCovers ==
    ASSUME TokenInv, NEW d \in Loads, ~exposed, ~d.blind
    PROVE  /\ top <= d.mem.token
           /\ d.doc.version >= d.vk => top <= d.doc.token
           /\ d.vk >= d.doc.version => top < d.vk \/ top = 0
           /\ \A v \in Nat : v > d.key /\ v > d.mem.version => v > d.vk
<1>1. PICK seen \in {vk, 0}, wrote \in BOOLEAN : d = Loaded(seen, wrote)
  BY DEF Loads
<1>2. /\ vk \in Nat /\ seen \in Nat /\ top \in Nat
      /\ doc.token \in Nat /\ doc.version \in Nat
  BY DEF TokenInv, TypeOK, Document
<1>3. CASE damaged
  <2>1. doc.token = 0 /\ doc.version = 0
    BY <1>3 DEF TokenInv, LostIsEmpty, EmptyDocument
  <2>2. seen = vk
    BY <1>1, <1>3 DEF Loaded
  <2>3. top <= vk
    BY <1>2, <2>1 DEF TokenInv, CounterHolds
  <2>4. /\ d.mem.token = vk /\ d.mem.version = vk + 1
        /\ d.doc.token = vk /\ d.doc.version = vk + 1
        /\ d.vk = d.key /\ d.vk \in {vk, vk + 1}
    BY <1>1, <1>3, <2>2 DEF Loaded
  <2> QED
    BY <1>2, <2>3, <2>4
<1>4. CASE ~damaged
  <2>1. /\ d.mem.token = max(doc.token, seen) /\ d.mem.version = doc.version
        /\ d.doc = doc /\ d.vk = vk /\ d.key = seen
    BY <1>1, <1>2, <1>4 DEF Loaded, TokenInv, TypeOK, Document
  <2>2. seen = vk \/ doc.version >= vk
    <3>1. d.blind = (seen # vk /\ (damaged \/ doc.version < vk))
      BY <1>1 DEF Loaded
    <3>2. seen = vk \/ ~(doc.version < vk)
      BY <3>1, Zenon
    <3> QED
      BY <1>2, <3>2
  <2>3. /\ doc.version >= vk => top <= doc.token
        /\ vk >= doc.version => top < vk \/ top = 0
    BY DEF TokenInv, CounterHolds
  <2>4. max(doc.token, seen) >= doc.token /\ max(doc.token, seen) >= seen
        /\ max(doc.token, seen) \in Nat
    BY <1>2, MaxType
  <2>5. top <= d.mem.token
    BY <1>2, <2>1, <2>2, <2>3, <2>4
  <2> QED
    BY <1>2, <2>1, <2>2, <2>3, <2>5
<1> QED
  BY <1>3, <1>4

LEMMA LoadEmpty ==
    ASSUME TokenInv, NEW d \in Loads
    PROVE  /\ d.doc.version = 0 => d.doc = EmptyDocument
           /\ d.mem.version = 0 => Taken(d.mem.leases) = {}
           /\ damaged => Taken(d.mem.leases) = {}
           /\ d.vk \in Nat
<1>1. PICK seen \in {vk, 0}, wrote \in BOOLEAN : d = Loaded(seen, wrote)
  BY DEF Loads
<1>2. Taken(Nobody) = {} /\ EmptyDocument.leases = Nobody
  BY DEF Taken, Nobody, EmptyDocument
<1>3. seen \in Nat
  BY DEF TokenInv, TypeOK
<1> QED
  BY <1>1, <1>2, <1>3, LoadType DEF Loaded, TokenInv, LostIsEmpty, TypeOK, Document

\* A load without a damaged document leaves the disk as it was.
LEMMA LoadKeeps ==
    ASSUME TokenInv, NEW d \in Loads, ~damaged
    PROVE  d.doc = doc /\ d.vk = vk /\ d.mem.version = doc.version
           /\ d.mem.token >= doc.token /\ d.mem.leases = doc.leases
<1>1. PICK seen \in {vk, 0}, wrote \in BOOLEAN : d = Loaded(seen, wrote)
  BY DEF Loads
<1>2. max(doc.token, seen) >= doc.token
  BY MaxType DEF TokenInv, TypeOK, Document
<1> QED
  BY <1>1, <1>2 DEF Loaded, TokenInv, TypeOK, Document

LEMMA TokenStep ==
    ASSUME TokenInv, [Next]_vars
    PROVE  TokenInv'
<1> USE LeaseAssumption
<1> TypeOK /\ TypeOK'
  BY TypeStep DEF TokenInv
<1>0. top \in Nat /\ vk \in Nat /\ doc.version \in Nat /\ doc.token \in Nat
  BY DEF TypeOK, Document
<1>1. ASSUME NEW d \in Loads, Nothing(d) PROVE TokenInv'
  <2>1. LostIsEmpty'
    BY <1>1, LoadEmpty DEF Nothing, Unchanged, After, LostIsEmpty
  <2>2. CounterHolds'
    BY <1>1, LoadCovers DEF Nothing, Unchanged, After, CounterHolds
  <2> QED
    BY <2>1, <2>2 DEF TokenInv
<1>2. ASSUME NEW d \in Loads, NEW N \in Map, NEW t \in Nat, t >= d.mem.token,
             Visible(d, N, t), top' = top \/ top' = max(top, t)
      PROVE  TokenInv'
  <2> DEFINE v == NextVersion(d, t)
  <2>1. v \in Nat /\ v > t /\ v > d.key /\ v > d.mem.version
    BY NextVersionType
  <2>2. d.mem.token \in Nat /\ d.vk \in Nat
    BY LoadType DEF Document
  <2>3. /\ doc' = [token |-> t, version |-> v, leases |-> N]
        /\ vk' \in {v, d.vk} /\ damaged' = FALSE /\ exposed' = (exposed \/ d.blind)
    BY <1>2 DEF Visible, After
  <2> HIDE DEF v
  <2>4. LostIsEmpty'
    BY <2>1, <2>3 DEF LostIsEmpty
  <2>5. ASSUME ~exposed' PROVE top' <= t /\ v > d.vk
    <3>1. top <= d.mem.token /\ v > d.vk
      BY <2>1, <2>3, <2>5, LoadCovers
    <3> QED
      BY <1>0, <1>2, <2>2, <3>1 DEF max
  <2>6. CounterHolds'
    BY <1>0, <2>1, <2>2, <2>3, <2>5 DEF CounterHolds, TypeOK
  <2> QED
    BY <2>4, <2>6 DEF TokenInv
<1>3. ASSUME NEW d \in Loads, NEW N \in Map, Quiet(d, N),
             Taken(d.mem.leases) # {}, top' = top
      PROVE  TokenInv'
  <2>1. ~damaged /\ d.mem.version # 0
    BY <1>3, LoadEmpty
  <2>2. d.vk = vk /\ d.mem.version = doc.version /\ d.mem.token >= doc.token
    BY <2>1, LoadKeeps
  <2>3. /\ doc'.version = doc.version /\ doc'.token = d.mem.token
        /\ vk' = vk /\ ~damaged' /\ (~exposed' => ~exposed)
    <3>1. After(d) /\ vk' = d.vk
          /\ doc' = [token |-> d.mem.token, version |-> d.mem.version, leases |-> N]
      BY <1>3, QuietEffect
    <3>2. ~damaged' /\ (~exposed' => ~exposed)
      BY <3>1, AfterType, Zenon
    <3> QED
      BY <2>2, <3>1, <3>2
  <2>4. d.mem.token \in Nat
    BY LoadType DEF Document
  <2>5. LostIsEmpty'
    BY <2>1, <2>2, <2>3 DEF LostIsEmpty
  <2>6. ASSUME ~exposed
        PROVE  /\ doc.version >= vk => top <= doc.token
               /\ vk >= doc.version => top < vk \/ top = 0
    BY <2>6 DEF TokenInv, CounterHolds
  <2>7. ASSUME ~exposed
        PROVE  /\ doc'.version >= vk' => top' <= doc'.token
               /\ vk' >= doc'.version => top' < vk' \/ top' = 0
    BY <1>0, <1>3, <2>2, <2>3, <2>4, <2>6, <2>7
  <2>8. CounterHolds'
    BY <2>3, <2>7, Zenon DEF CounterHolds
  <2> QED
    BY <2>5, <2>8 DEF TokenInv
<1>4. ASSUME NEW d \in Loads, Thinned(d) PROVE TokenInv'
  <2>1. d.mem.token \in Nat
    BY LoadType DEF Document
  <2> QED
    BY <1>2, <1>3, <1>4, <2>1 DEF Thinned
<1>5. ASSUME NEW d \in Loads, Issued(d) PROVE TokenInv'
  <2>1. d.mem.token \in Nat
    BY LoadType DEF Document
  <2> QED
    BY <1>2, <1>5, <2>1 DEF Issued
<1>6. CASE Tick
  BY <1>6 DEF Tick, TokenInv, LostIsEmpty, CounterHolds
<1>7. CASE LoseDocument
  <2>1. doc'.version = 0 /\ doc'.token = 0 /\ doc' = EmptyDocument
    BY <1>7 DEF LoseDocument, EmptyDocument
  <2>2. ASSUME ~exposed' PROVE (top < vk \/ top = 0) /\ (vk = 0 => top = 0)
    <3>1. vk >= doc.version /\ ~exposed
      <4>1. exposed' = (exposed \/ vk < doc.version)
        BY <1>7 DEF LoseDocument
      <4>2. ~exposed /\ ~(vk < doc.version)
        BY <2>2, <4>1, Zenon
      <4> QED
        BY <1>0, <4>2
    <3>2. vk = 0 => doc.token = 0
      BY <1>0, <3>1 DEF TokenInv, LostIsEmpty, EmptyDocument
    <3> QED
      BY <1>0, <3>1, <3>2 DEF TokenInv, CounterHolds
  <2> QED
    BY <1>0, <1>7, <2>1, <2>2 DEF LoseDocument, TokenInv, LostIsEmpty, CounterHolds
<1>8. CASE LoseVersionKey
  <2>1. ASSUME ~exposed' PROVE top <= doc.token /\ ~exposed
    <3>1. exposed' = (exposed \/ doc.version < vk)
      BY <1>8 DEF LoseVersionKey
    <3>2. ~exposed /\ ~(doc.version < vk)
      BY <2>1, <3>1, Zenon
    <3> QED
      BY <1>0, <3>2 DEF TokenInv, CounterHolds
  <2>2. doc.version = 0 => doc.token = 0
    BY DEF TokenInv, LostIsEmpty, EmptyDocument
  <2> QED
    BY <1>0, <1>8, <2>1, <2>2 DEF LoseVersionKey, TokenInv, LostIsEmpty, CounterHolds
<1>9. CASE UNCHANGED vars
  BY <1>9 DEF vars, TokenInv, LostIsEmpty, CounterHolds
<1> QED
  BY <1>1, <1>4, <1>5, <1>6, <1>7, <1>8, <1>9, NextShape

\* The leases a call builds on are those of the document, or none.
LEMMA LoadLeases ==
    ASSUME TokenInv, NEW d \in Loads
    PROVE  /\ d.mem.leases = Leases \/ d.mem.leases = Nobody
           /\ d.doc.leases = Leases \/ d.doc.leases = Nobody
           /\ d.mem.leases \in Map /\ d.doc.leases \in Map
<1>1. PICK seen \in {vk, 0}, wrote \in BOOLEAN : d = Loaded(seen, wrote)
  BY DEF Loads
<1>2. d.mem.leases \in Map /\ d.doc.leases \in Map
  BY LoadType DEF TokenInv, Document, Map
<1>3. [doc EXCEPT !.token = max(@, seen)].leases = doc.leases
  BY DEF TokenInv, TypeOK, Document
<1> QED
  BY <1>1, <1>2, <1>3 DEF Loaded, Leases

\* A step leaves leases that are among those before it, or claims one, or
\* carries one to another id, under a token above all issued.
LEMMA LeasesStep ==
    ASSUME TokenInv, [Next]_vars
    PROVE  /\ Leases \in Map /\ Leases' \in Map
           /\ \/ Thins(Leases, Leases')
              \/ \E t \in Nat, L \in {Leases, Nobody} :
                    /\ Grants(L, Leases', t) \/ Carries(L, Leases', t)
                    /\ ~exposed' => t > top
<1> TypeOK /\ TypeOK'
  BY TypeStep DEF TokenInv
<1>0. Leases \in Map /\ Leases' \in Map
  BY DEF TypeOK, Document, Map, Leases
<1>1. Thins(Leases, Leases) /\ Thins(Leases, Nobody)
  BY DEF Thins, Taken, Nobody
<1>2. ASSUME NEW d \in Loads, Nothing(d) PROVE Thins(Leases, Leases')
  <2>1. Leases' = d.doc.leases
    BY <1>2, UnchangedEffect DEF Nothing, Leases
  <2> QED
    BY <1>1, <2>1, LoadLeases
<1>3. ASSUME NEW d \in Loads, Thinned(d) PROVE Thins(Leases, Leases')
  <2>1. PICK N \in Map : /\ Thins(d.mem.leases, N)
                         /\ Quiet(d, N) \/ Visible(d, N, d.mem.token)
    BY <1>3 DEF Thinned
  <2>2. d.mem.token \in Nat
    BY LoadType DEF Document
  <2>3. Leases' = N
    BY <2>1, <2>2, QuietEffect, VisibleEffect DEF Leases
  <2>4. d.mem.leases \in Map /\ Thins(Leases, d.mem.leases)
    BY <1>1, LoadLeases
  <2> QED
    BY <1>0, <2>1, <2>3, <2>4, ThinsTransitive
<1>4. ASSUME NEW d \in Loads, Issued(d)
      PROVE  \E t \in Nat, L \in {Leases, Nobody} :
                /\ Grants(L, Leases', t) \/ Carries(L, Leases', t)
                /\ ~exposed' => t > top
  <2>1. PICK N \in Map, t \in Nat :
           /\ t > d.mem.token /\ Visible(d, N, t)
           /\ Grants(d.mem.leases, N, t) \/ Carries(d.mem.leases, N, t)
    BY <1>4 DEF Issued
  <2>2. Leases' = N /\ After(d)
    BY <2>1, VisibleEffect DEF Leases
  <2>3. ASSUME ~exposed' PROVE t > top
    <3>1. ~exposed /\ ~d.blind
      BY <2>2, <2>3, AfterType, Zenon
    <3>2. top <= d.mem.token
      BY <3>1, LoadCovers
    <3>3. top \in Nat /\ d.mem.token \in Nat
      BY LoadType DEF TypeOK, Document
    <3> QED
      BY <2>1, <3>2, <3>3
  <2>4. d.mem.leases \in {Leases, Nobody}
    BY LoadLeases
  <2> QED
    BY <2>1, <2>2, <2>3, <2>4
<1>5. CASE Tick \/ LoseVersionKey \/ UNCHANGED vars
  <2>1. Leases' = Leases
    BY <1>5 DEF Tick, LoseVersionKey, vars, Leases
  <2> QED
    BY <1>0, <1>1, <2>1
<1>6. CASE LoseDocument
  <2>1. Leases' = Nobody
    BY <1>6 DEF LoseDocument, EmptyDocument, Leases
  <2> QED
    BY <1>0, <1>1, <2>1
<1> QED
  BY <1>0, <1>2, <1>3, <1>4, <1>5, <1>6, NextShape

LEMMA TokenInvariant == Spec => []TokenInv
<1>1. Init => TokenInv
  <2>1. Init => TypeOK
    BY InitType
  <2>2. Init => LostIsEmpty
    BY DEF Init, LostIsEmpty
  <2>3. Init => CounterHolds
    BY DEF Init, CounterHolds, EmptyDocument
  <2> QED
    BY <2>1, <2>2, <2>3 DEF TokenInv
<1>2. TokenInv /\ [Next]_vars => TokenInv'
  BY TokenStep
<1> QED
  BY <1>1, <1>2, PTL DEF Spec

\* The version key that watchers poll stays above every token issued, as long
\* as it is not behind the document and the two were not lost at once: it is
\* what the next token rests on when the document is gone (load, flush).
THEOREM VersionCoversTokens == Spec => []VersionAboveTokens
<1>1. TokenInv => VersionAboveTokens
  <2>1. ASSUME TokenInv, ~exposed, vk >= doc.version, top # 0 PROVE vk > top
    <3>1. vk >= doc.version => top < vk \/ top = 0
      BY <2>1, Zenon DEF TokenInv, CounterHolds
    <3>2. vk \in Nat /\ top \in Nat
      BY <2>1 DEF TokenInv, TypeOK
    <3> QED
      BY <2>1, <3>1, <3>2
  <2> QED
    BY <2>1, Zenon DEF VersionAboveTokens
<1> QED
  BY <1>1, TokenInvariant, PTL

\* No call issues a token that was issued before, or a lower one, however the
\* document and the version key are lost one after the other (nextToken, load).
THEOREM TokensNeverRepeat == Spec => TokensIncrease
<1>1. ASSUME TokenInv, [Next]_vars
      PROVE  ~exposed' => \A t \in Tokens(Leases') \ Tokens(Leases) : t > top
  <2>1. CASE Thins(Leases, Leases')
    <3>1. ASSUME NEW i \in Taken(Leases') PROVE Leases'[i].token \in Tokens(Leases)
      BY <2>1 DEF Thins, Tokens
    <3> QED
      BY <3>1 DEF Tokens
  <2>2. ASSUME NEW t \in Nat, NEW L \in {Leases, Nobody}, ~exposed' => t > top,
               Grants(L, Leases', t)
        PROVE  ~exposed' => \A u \in Tokens(Leases') \ Tokens(Leases) : u > top
    <3>1. L \in Map /\ \A i \in Taken(L) : L = Leases
      BY <1>1, EmptyType, LeasesStep DEF Taken, Nobody
    <3>2. PICK P \in Map, i \in Id, l \in Lease :
            Thins(L, P) /\ l.token = t /\ Leases' = [P EXCEPT ![i] = l]
      BY <2>2 DEF Grants
    <3>3. ASSUME NEW j \in Taken(Leases'), j # i
          PROVE  Leases'[j].token \in Tokens(Leases)
      BY <3>1, <3>2, <3>3 DEF Map, Thins, Taken, Tokens
    <3>4. Leases'[i].token = t
      BY <3>2 DEF Map
    <3> QED
      BY <2>2, <3>3, <3>4 DEF Tokens
  <2>3. ASSUME NEW t \in Nat, NEW L \in {Leases, Nobody}, ~exposed' => t > top,
               Carries(L, Leases', t)
        PROVE  ~exposed' => \A u \in Tokens(Leases') \ Tokens(Leases) : u > top
    <3>1. PICK from \in Id, to \in Id :
            /\ from # to /\ from \in Taken(L)
            /\ Leases' = [L EXCEPT ![from] = NoLease, ![to] = [L[from] EXCEPT !.token = t]]
      BY <2>3 DEF Carries
    <3>2. L \in Map /\ L = Leases
      BY <1>1, <3>1, LeasesStep DEF Taken, Nobody
    <3>3. L[from] \in Lease
      BY <3>1, <3>2 DEF Taken, Map
    <3>4. Leases'[to].token = t
      BY <3>1, <3>2, <3>3 DEF Map, Lease
    <3>5. ASSUME NEW j \in Taken(Leases'), j # to
          PROVE  Leases'[j].token \in Tokens(Leases)
      BY <3>1, <3>2, <3>5 DEF Map, Taken, Tokens
    <3> QED
      BY <2>3, <3>4, <3>5 DEF Tokens
  <2> QED
    BY <1>1, <2>1, <2>2, <2>3, LeasesStep
<1>2. TokenInv /\ [Next]_vars =>
        [~exposed' => \A t \in Tokens(Leases') \ Tokens(Leases) : t > top]_vars
  BY <1>1
<1> QED
  BY <1>2, TokenInvariant, PTL DEF Spec, TokensIncrease

\* The version a watcher compares only grows, unless it is lost: after the loss
\* of the document too, no version comes back (load, nextVersion).
THEOREM VersionNeverReturns == Spec => VersionGrows
<1>1. ASSUME TokenInv, [Next]_vars, vk' # vk, vk' # 0, ~exposed' PROVE vk' > vk
  <2> TypeOK
    BY <1>1 DEF TokenInv
  <2>1. vk \in Nat
    BY DEF TypeOK
  <2>2. ASSUME NEW d \in Loads, After(d)
        PROVE  /\ d.vk = vk \/ d.vk > vk
               /\ \A v \in Nat : v > d.key /\ v > d.mem.version => v > d.vk
    <3>1. ~exposed /\ ~d.blind
      BY <1>1, <2>2, AfterType, Zenon
    <3>2. PICK seen \in {vk, 0}, wrote \in BOOLEAN : d = Loaded(seen, wrote)
      BY DEF Loads
    <3>3. d.vk = vk \/ (damaged /\ d.vk = seen + 1)
      BY <3>2 DEF Loaded
    <3>4. d.blind = (seen # vk /\ (damaged \/ doc.version < vk))
      BY <3>2 DEF Loaded
    <3>5. damaged => seen = vk
      BY <3>1, <3>4, Zenon
    <3> QED
      BY <1>1, <2>1, <3>1, <3>3, <3>5, LoadCovers
  <2>3. ASSUME NEW d \in Loads, Nothing(d) PROVE vk' > vk
    BY <1>1, <2>2, <2>3, UnchangedEffect DEF Nothing
  <2>4. ASSUME NEW d \in Loads, NEW N \in Map, NEW t \in Nat, Visible(d, N, t)
        PROVE  vk' > vk
    <3>1. vk' \in {NextVersion(d, t), d.vk} /\ After(d)
      BY <2>4, VisibleEffect
    <3>2. /\ NextVersion(d, t) \in Nat /\ NextVersion(d, t) > d.key
          /\ NextVersion(d, t) > d.mem.version
      BY NextVersionType
    <3>3. NextVersion(d, t) > d.vk /\ (d.vk = vk \/ d.vk > vk)
      BY <2>2, <3>1, <3>2
    <3>4. d.vk \in Nat
      BY LoadType
    <3> QED
      BY <1>1, <2>1, <3>1, <3>2, <3>3, <3>4
  <2>5. ASSUME NEW d \in Loads, NEW N \in Map, Quiet(d, N) PROVE vk' > vk
    BY <1>1, <2>2, <2>5, QuietEffect
  <2>6. ASSUME NEW d \in Loads, Thinned(d) \/ Issued(d) PROVE vk' > vk
    <3>1. d.mem.token \in Nat
      BY LoadType DEF Document
    <3> QED
      BY <2>4, <2>5, <2>6, <3>1 DEF Thinned, Issued
  <2>7. CASE Tick \/ LoseDocument \/ LoseVersionKey \/ UNCHANGED vars
    BY <1>1, <2>7 DEF Tick, LoseDocument, LoseVersionKey, vars
  <2> QED
    BY <1>1, <2>3, <2>6, <2>7, NextShape
<1>2. TokenInv /\ [Next]_vars => [vk' # vk => vk' > vk \/ vk' = 0 \/ exposed']_vars
  BY <1>1
<1> QED
  BY <1>2, TokenInvariant, PTL DEF Spec, VersionGrows

-----------------------------------------------------------------------------
(* Hashes. *)

UniqueHashes(L) == \A i, j \in Taken(L) : L[i].hash = L[j].hash => i = j

LEMMA ClaimKeepsUnique ==
    ASSUME NEW L \in Map, NEW N \in Map, NEW t \in Nat, UniqueHashes(L), Grants(L, N, t)
    PROVE  UniqueHashes(N)
<1>1. PICK P \in Map, i \in Id, l \in Lease :
        Thins(L, P) /\ MayClaim(P, i, l.identity, l.hash) /\ N = [P EXCEPT ![i] = l]
  BY DEF Grants
<1>2. UniqueHashes(P)
  BY <1>1 DEF Thins, UniqueHashes
<1>3. \A j \in Taken(P) : P[j].hash # l.hash
  BY <1>1 DEF MayClaim, WithHash
<1>4. N[i] = l /\ \A j \in Taken(N) : j # i => j \in Taken(P) /\ N[j] = P[j]
  BY <1>1 DEF Map, Taken
<1> QED
  BY <1>2, <1>3, <1>4 DEF UniqueHashes

LEMMA RenameKeepsUnique ==
    ASSUME NEW L \in Map, NEW N \in Map, NEW t \in Nat, UniqueHashes(L), Carries(L, N, t)
    PROVE  UniqueHashes(N)
<1>1. PICK from \in Id, to \in Id :
        /\ from # to /\ from \in Taken(L)
        /\ N = [L EXCEPT ![from] = NoLease, ![to] = [L[from] EXCEPT !.token = t]]
  BY DEF Carries
<1>2. L[from] \in Lease
  BY <1>1 DEF Map, Taken
<1>3. /\ N[to].hash = L[from].hash
      /\ \A j \in Taken(N) : j # to => j \in Taken(L) /\ j # from /\ N[j] = L[j]
  BY <1>1, <1>2 DEF Map, Taken, Lease
<1>4. ASSUME NEW j \in Taken(N), j # to PROVE N[j].hash # N[to].hash
  BY <1>1, <1>3, <1>4 DEF UniqueHashes
<1>5. ASSUME NEW i \in Taken(N), NEW j \in Taken(N), i # to, j # to, N[i].hash = N[j].hash
      PROVE  i = j
  <2>1. i \in Taken(L) /\ j \in Taken(L) /\ N[i] = L[i] /\ N[j] = L[j]
    BY <1>3, <1>5
  <2> QED
    BY <1>5, <2>1 DEF UniqueHashes
<1> QED
  BY <1>4, <1>5 DEF UniqueHashes

\* Two leases never share a hash, so a renewal or release that finds its lease by
\* its hash (byHash) finds the only one: claims refuse a hash in use, and a
\* rename moves a lease instead of copying it.
THEOREM HashNamesOneLease == Spec => []HashesUnique
<1>1. HashesUnique <=> UniqueHashes(Leases)
  BY DEF HashesUnique, UniqueHashes
<1>2. HashesUnique' <=> UniqueHashes(Leases')
  BY DEF HashesUnique, UniqueHashes, Taken, Leases
<1>3. Init => HashesUnique
  BY DEF Init, HashesUnique, Taken, Leases, EmptyDocument, Nobody
<1>4. TokenInv /\ HashesUnique /\ [Next]_vars => HashesUnique'
  <2>1. SUFFICES ASSUME TokenInv, UniqueHashes(Leases), [Next]_vars
                 PROVE  UniqueHashes(Leases')
    BY <1>1, <1>2
  <2>2. UniqueHashes(Nobody) /\ Nobody \in Map
    BY EmptyType DEF UniqueHashes, Taken, Nobody
  <2>3. Leases \in Map /\ Leases' \in Map
    BY <2>1, LeasesStep
  <2>4. CASE Thins(Leases, Leases')
    BY <2>1, <2>4 DEF Thins, UniqueHashes
  <2>5. ASSUME NEW t \in Nat, NEW L \in {Leases, Nobody},
               Grants(L, Leases', t) \/ Carries(L, Leases', t)
        PROVE  UniqueHashes(Leases')
    BY <2>1, <2>2, <2>3, <2>5, ClaimKeepsUnique, RenameKeepsUnique
  <2> QED
    BY <2>1, <2>4, <2>5, LeasesStep
<1> QED
  BY <1>3, <1>4, TokenInvariant, PTL DEF Spec

-----------------------------------------------------------------------------
(* Caps. *)

\* Finitely many leases, within both caps.
Counted(L) == /\ IsFiniteSet(Taken(L))
              /\ Cardinality(Taken(L)) <= MaxPerStore
              /\ \A k \in Identity : Cardinality(HeldBy(L, k)) <= MaxPerIdentity

LEMMA SmallerWithin ==
    ASSUME NEW S, IsFiniteSet(S), NEW T \in SUBSET S, NEW cap \in Nat,
           Cardinality(S) <= cap
    PROVE  IsFiniteSet(T) /\ Cardinality(T) <= cap
<1>1. IsFiniteSet(T) /\ Cardinality(T) <= Cardinality(S)
  BY FS_Subset
<1>2. Cardinality(S) \in Nat /\ Cardinality(T) \in Nat
  BY <1>1, FS_CardinalityType
<1> QED
  BY <1>1, <1>2

LEMMA OneMoreWithin ==
    ASSUME NEW S, NEW x, IsFiniteSet(S), NEW cap \in Nat, Cardinality(S) < cap
    PROVE  IsFiniteSet(S \cup {x}) /\ Cardinality(S \cup {x}) <= cap
<1>1. Cardinality(S) \in Nat
  BY FS_CardinalityType
<1> QED
  BY <1>1, FS_AddElement

\* One element taken out of a set, and one put in.
LEMMA SwapWithin ==
    ASSUME NEW S, IsFiniteSet(S), NEW a \in S, NEW b, NEW cap \in Nat, Cardinality(S) <= cap
    PROVE  /\ IsFiniteSet((S \ {a}) \cup {b})
           /\ Cardinality((S \ {a}) \cup {b}) <= cap
<1>1. IsFiniteSet(S \ {a}) /\ Cardinality(S \ {a}) = Cardinality(S) - 1
  BY FS_RemoveElement
<1>2. Cardinality(S) \in Nat /\ Cardinality(S \ {a}) \in Nat
  BY <1>1, FS_CardinalityType
<1>3. Cardinality(S \ {a}) < cap
  BY <1>1, <1>2
<1> QED
  BY <1>1, <1>3, OneMoreWithin

LEMMA HeldFinite ==
    ASSUME NEW L, NEW k, IsFiniteSet(Taken(L))
    PROVE  IsFiniteSet(HeldBy(L, k))
<1>1. HeldBy(L, k) \in SUBSET Taken(L)
  BY DEF HeldBy
<1> QED
  BY <1>1, FS_Subset

LEMMA ThinsCounted ==
    ASSUME NEW L \in Map, NEW N \in Map, Counted(L), Thins(L, N)
    PROVE  Counted(N)
<1> USE LeaseAssumption
<1>1. Taken(N) \in SUBSET Taken(L) /\ \A k : HeldBy(N, k) \in SUBSET HeldBy(L, k)
  BY DEF Thins, HeldBy
<1>2. IsFiniteSet(Taken(N)) /\ Cardinality(Taken(N)) <= MaxPerStore
  BY <1>1, SmallerWithin DEF Counted
<1>3. ASSUME NEW k \in Identity PROVE Cardinality(HeldBy(N, k)) <= MaxPerIdentity
  <2>1. IsFiniteSet(HeldBy(L, k)) /\ Cardinality(HeldBy(L, k)) <= MaxPerIdentity
    BY HeldFinite DEF Counted
  <2> QED
    BY <1>1, <2>1, SmallerWithin
<1> QED
  BY <1>2, <1>3 DEF Counted

LEMMA ClaimCounted ==
    ASSUME NEW L \in Map, NEW N \in Map, NEW t \in Nat, Counted(L), Grants(L, N, t)
    PROVE  Counted(N)
<1> USE LeaseAssumption
<1>1. PICK P \in Map, i \in Id, l \in Lease :
        Thins(L, P) /\ MayClaim(P, i, l.identity, l.hash) /\ N = [P EXCEPT ![i] = l]
  BY DEF Grants
<1>2. Counted(P)
  BY <1>1, ThinsCounted
<1>3. P[i] = NoLease /\ Cardinality(Taken(P)) < MaxPerStore
      /\ Cardinality(HeldBy(P, l.identity)) < MaxPerIdentity
  BY <1>1 DEF MayClaim
<1>4. /\ Taken(N) = Taken(P) \cup {i}
      /\ N[i] = l /\ \A j \in Taken(P) : N[j] = P[j]
  BY <1>1, <1>3 DEF Map, Taken
<1>5. IsFiniteSet(Taken(N)) /\ Cardinality(Taken(N)) <= MaxPerStore
  <2>1. IsFiniteSet(Taken(P))
    BY <1>2 DEF Counted
  <2>2. IsFiniteSet(Taken(P) \cup {i}) /\ Cardinality(Taken(P) \cup {i}) <= MaxPerStore
    BY <1>3, <2>1, OneMoreWithin
  <2>3. Taken(N) = Taken(P) \cup {i}
    BY <1>4
  <2> QED
    BY <2>2, <2>3
<1>6. ASSUME NEW k \in Identity PROVE Cardinality(HeldBy(N, k)) <= MaxPerIdentity
  <2>1. IsFiniteSet(HeldBy(P, k)) /\ Cardinality(HeldBy(P, k)) <= MaxPerIdentity
    BY <1>2, HeldFinite DEF Counted
  <2>2. CASE k = l.identity
    <3>1. HeldBy(N, k) = HeldBy(P, k) \cup {i}
      BY <1>4, <2>2 DEF HeldBy
    <3> QED
      BY <1>3, <2>1, <2>2, <3>1, OneMoreWithin
  <2>3. CASE k # l.identity
    <3>1. HeldBy(N, k) \in SUBSET HeldBy(P, k)
      BY <1>4, <2>3 DEF HeldBy
    <3> QED
      BY <2>1, <3>1, SmallerWithin
  <2> QED
    BY <2>2, <2>3
<1> QED
  BY <1>5, <1>6 DEF Counted

LEMMA RenameCounted ==
    ASSUME NEW L \in Map, NEW N \in Map, NEW t \in Nat, Counted(L), Carries(L, N, t)
    PROVE  Counted(N)
<1> USE LeaseAssumption
<1>1. PICK from \in Id, to \in Id :
        /\ from # to /\ from \in Taken(L)
        /\ N = [L EXCEPT ![from] = NoLease, ![to] = [L[from] EXCEPT !.token = t]]
  BY DEF Carries
<1>2. L[from] \in Lease
  BY <1>1 DEF Map, Taken
<1>3. [L[from] EXCEPT !.token = t] \in Lease
  BY <1>2 DEF Lease
<1>4. /\ N[from] = NoLease /\ N[to] # NoLease /\ N[to].identity = L[from].identity
      /\ \A j \in Id : j # from /\ j # to => N[j] = L[j]
  BY <1>1, <1>2, <1>3 DEF Map, Lease
<1>5. Taken(N) = (Taken(L) \ {from}) \cup {to}
  <2>1. ASSUME NEW j \in Id
        PROVE  j \in Taken(N) <=> j \in (Taken(L) \ {from}) \cup {to}
    BY <1>1, <1>4 DEF Taken
  <2>2. Taken(N) \subseteq Id /\ (Taken(L) \ {from}) \cup {to} \subseteq Id
    BY DEF Taken
  <2> QED
    BY <2>1, <2>2
<1>6. IsFiniteSet(Taken(N)) /\ Cardinality(Taken(N)) <= MaxPerStore
  <2>1. IsFiniteSet(Taken(L)) /\ Cardinality(Taken(L)) <= MaxPerStore /\ MaxPerStore \in Nat
    BY DEF Counted
  <2>2. /\ IsFiniteSet((Taken(L) \ {from}) \cup {to})
        /\ Cardinality((Taken(L) \ {from}) \cup {to}) <= MaxPerStore
    BY <1>1, <2>1, SwapWithin
  <2> QED
    BY <1>5, <2>2
<1>7. ASSUME NEW k \in Identity PROVE Cardinality(HeldBy(N, k)) <= MaxPerIdentity
  <2>1. IsFiniteSet(HeldBy(L, k)) /\ Cardinality(HeldBy(L, k)) <= MaxPerIdentity
    BY HeldFinite DEF Counted
  <2>2. CASE k = L[from].identity
    <3>1. from \in HeldBy(L, k) /\ HeldBy(N, k) = (HeldBy(L, k) \ {from}) \cup {to}
      BY <1>1, <1>4, <2>2 DEF HeldBy, Taken
    <3> QED
      BY <2>1, <3>1, SwapWithin
  <2>3. CASE k # L[from].identity
    <3>1. HeldBy(N, k) \in SUBSET HeldBy(L, k)
      BY <1>4, <2>3 DEF HeldBy, Taken
    <3> QED
      BY <2>1, <3>1, SmallerWithin
  <2> QED
    BY <2>2, <2>3
<1> QED
  BY <1>6, <1>7 DEF Counted

\* The store never holds more leases than it may, nor one identity more than it
\* may, whatever times the calls carry: a claim counts what is left after it
\* pruned, and a rename moves a lease without adding one.
THEOREM CapsAlwaysHold == Spec => []CapsHold
<1> USE LeaseAssumption
<1>1. Counted(Leases) => CapsHold
  BY DEF Counted, CapsHold
<1>2. Counted(Nobody) /\ Nobody \in Map
  <2>1. Taken(Nobody) = {} /\ \A k : HeldBy(Nobody, k) = {}
    BY DEF Taken, HeldBy, Nobody
  <2> QED
    BY <2>1, EmptyType, FS_EmptySet DEF Counted
<1>3. Init => Counted(Leases)
  BY <1>2 DEF Init, Leases, EmptyDocument
<1>4. TokenInv /\ Counted(Leases) /\ [Next]_vars => Counted(Leases')
  <2>1. SUFFICES ASSUME TokenInv, Counted(Leases), [Next]_vars
                 PROVE  Counted(Leases')
    OBVIOUS
  <2>2. Leases \in Map /\ Leases' \in Map
    BY <2>1, LeasesStep
  <2>3. CASE Thins(Leases, Leases')
    BY <2>1, <2>2, <2>3, ThinsCounted
  <2>4. ASSUME NEW t \in Nat, NEW L \in {Leases, Nobody},
               Grants(L, Leases', t) \/ Carries(L, Leases', t)
        PROVE  Counted(Leases')
    BY <1>2, <2>1, <2>2, <2>4, ClaimCounted, RenameCounted
  <2> QED
    BY <2>1, <2>3, <2>4, LeasesStep
<1>5. Counted(Leases)' <=> Counted(Leases')
  BY DEF Counted, Taken, HeldBy, Leases
<1> QED
  BY <1>1, <1>3, <1>4, <1>5, TokenInvariant, PTL DEF Spec

-----------------------------------------------------------------------------
(* How live leases end. *)

\* What an id's holder, or a reader who saw its lease, had is gone or less.
Ends(i) == LiveAt(Leases[i], clock) /\ ~Kept(Leases[i], Leases'[i])

\* The calls that may end the lease l of i.
EndedBy(i, l, now) ==
    \/ Release(l.identity, l.hash, now) \/ Drop(i, now)
    \/ \E s \in Status, ttl \in Ttl : Renew(l.identity, l.hash, s, now, ttl)
    \/ \E j \in Id : Rekey(i, j, now)

\* A damaged document has no leases, so a call builds on those of the document.
LEMMA LoadSame ==
    ASSUME TokenInv, NEW d \in Loads
    PROVE  d.mem.leases = Leases /\ d.doc.leases = Leases
<1>1. PICK seen \in {vk, 0}, wrote \in BOOLEAN : d = Loaded(seen, wrote)
  BY DEF Loads
<1>2. damaged => Leases = Nobody
  BY DEF TokenInv, LostIsEmpty, EmptyDocument, Leases
<1>3. [doc EXCEPT !.token = max(@, seen)].leases = doc.leases
  BY DEF TokenInv, TypeOK, Document
<1> QED
  BY <1>1, <1>2, <1>3 DEF Loaded, Leases

\* What each kind of write makes of the leases.
LEMMA WritesLeases ==
    ASSUME TokenInv, NEW d \in Loads
    PROVE  /\ Unchanged(d) => Leases' = Leases
           /\ \A N \in Map : Quiet(d, N) => Leases' = N
           /\ \A N \in Map, t \in Nat : Visible(d, N, t) => Leases' = N
<1>1. TypeOK
  BY DEF TokenInv
<1> QED
  BY <1>1, LoadSame, UnchangedEffect, QuietEffect, VisibleEffect DEF Leases

LEMMA EndsIs ==
    ASSUME TokenInv, NEW i \in Id, Ends(i), NEW now \in 0 .. clock
    PROVE  /\ Leases \in Map /\ now \in Nat /\ Leases[i] \in Lease /\ Leases[i] # NoLease
           /\ LiveAt(Leases[i], now) /\ Pruned(Leases, now)[i] = Leases[i]
           /\ Leases'[i] # Leases[i]
           /\ Leases'[i] \in Lease =>
                \/ Leases'[i].identity # Leases[i].identity
                \/ Leases'[i].hash # Leases[i].hash
                \/ Leases'[i].status # Leases[i].status
                \/ Leases'[i].expires < Leases[i].expires
<1>1. Leases \in Map /\ clock \in Nat /\ now \in Nat /\ now <= clock
  BY DEF TokenInv, TypeOK, Document, Map, Leases
<1>2. Leases[i] # NoLease /\ clock < Leases[i].expires /\ ~Kept(Leases[i], Leases'[i])
  BY DEF Ends, LiveAt
<1>3. Leases[i] \in Lease
  BY <1>1, <1>2 DEF Map
<1>4. LiveAt(Leases[i], now)
  BY <1>1, <1>2, <1>3 DEF LiveAt, Lease
<1>5. Leases'[i] # Leases[i]
  BY <1>2, <1>3 DEF Kept, Lease
<1>6. ASSUME Leases'[i] \in Lease
      PROVE  \/ Leases'[i].identity # Leases[i].identity
             \/ Leases'[i].hash # Leases[i].hash
             \/ Leases'[i].status # Leases[i].status
             \/ Leases'[i].expires < Leases[i].expires
  BY <1>2, <1>3, <1>6, LeaseAssumption DEF Kept, Lease
<1> QED
  BY <1>1, <1>2, <1>3, <1>4, <1>5, <1>6 DEF Pruned

\* A call that ends a live lease is one of its holder, of its entity's rename or
\* delete, and it writes visibly.
LEMMA CallEnds ==
    ASSUME TokenInv, NEW now \in 0 .. clock, Call(now), NEW i \in Id, Ends(i)
    PROVE  /\ \E d \in Loads, N \in Map, t \in Nat : Visible(d, N, t)
           /\ EndedBy(i, Leases[i], now)
<1> USE LeaseAssumption
<1> DEFINE Goal == /\ \E d \in Loads, N \in Map, t \in Nat : Visible(d, N, t)
                   /\ EndedBy(i, Leases[i], now)
           P == Pruned(Leases, now)
<1>0. /\ Leases \in Map /\ now \in Nat /\ Leases[i] \in Lease /\ Leases[i] # NoLease
      /\ LiveAt(Leases[i], now) /\ P[i] = Leases[i]
      /\ Leases'[i] # Leases[i]
  BY EndsIs
<1>lost. Leases'[i] \in Lease =>
         \/ Leases'[i].identity # Leases[i].identity
         \/ Leases'[i].hash # Leases[i].hash
         \/ Leases'[i].status # Leases[i].status
         \/ Leases'[i].expires < Leases[i].expires
  BY EndsIs
<1>1. \A d \in Loads : d.mem.leases = Leases /\ d.mem.token \in Nat
  BY LoadSame, LoadType DEF TokenInv, Document
<1>2. P \in Map
  BY <1>0, PrunedThins
<1>3. \A d \in Loads : ~KeepPruning(d, P)
  BY <1>0, <1>1, <1>2, WritesLeases DEF KeepPruning
<1> HIDE DEF P
<1>4. ASSUME NEW j \in Id, NEW k \in Identity, NEW h \in Hash, NEW s \in Status,
             NEW ttl \in Ttl, Claim(j, k, h, s, now, ttl)
      PROVE  Goal
  <2> DEFINE t(d) == NextToken(d.mem.token, now)
             l(d) == [identity |-> k, hash |-> h, token |-> t(d), expires |-> now + ttl,
                      status |-> s]
  <2>1. PICK d \in Loads : MayClaim(P, j, k, h) /\ Visible(d, [P EXCEPT ![j] = l(d)], t(d))
    BY <1>1, <1>3, <1>4 DEF Claim, P
  <2>2. t(d) \in Nat
    BY <1>0, <1>1, NextTokenType
  <2>3. l(d) \in Lease
    BY <1>0, <2>2 DEF Lease
  <2>4. [P EXCEPT ![j] = l(d)] \in Map
    BY <1>2, <2>3 DEF Map
  <2>5. Leases' = [P EXCEPT ![j] = l(d)]
    BY <2>1, <2>2, <2>4, WritesLeases
  <2>6. j # i
    BY <1>0, <2>1 DEF MayClaim
  <2> HIDE DEF l
  <2> QED
    BY <1>0, <1>2, <2>5, <2>6 DEF Map
<1>5. ASSUME NEW k \in Identity, NEW h \in Hash, NEW s \in Status, NEW ttl \in Ttl,
             Renew(k, h, s, now, ttl)
      PROVE  Goal
  <2> DEFINE N(j) == [P EXCEPT ![j].expires = now + ttl, ![j].status = s]
  <2>1. PICK d \in Loads, j \in Own(P, h, k) :
          IF Extends(P[j], s, now + ttl) THEN Quiet(d, N(j)) ELSE Visible(d, N(j), d.mem.token)
    BY <1>1, <1>3, <1>5 DEF Renew, P
  <2>2. j \in Id /\ P[j] \in Lease /\ P[j].hash = h /\ P[j].identity = k
    BY <1>2 DEF Own, WithHash, HeldBy, Taken, Map
  <2>3. N(j) \in Map
    <3> DEFINE m == [P[j] EXCEPT !.expires = now + ttl, !.status = s]
    <3>1. now + ttl \in Nat /\ j \in Id /\ P[j] \in Lease
      BY <1>0, <2>2
    <3>2. m \in Lease
      BY <2>2, <3>1 DEF Lease
    <3>3. N(j) = [P EXCEPT ![j] = m]
      BY <1>2, <2>2 DEF Map
    <3> HIDE DEF m
    <3> QED
      BY <1>2, <2>2, <3>2, <3>3 DEF Map
  <2>4. Leases' = N(j)
    BY <1>1, <2>1, <2>3, WritesLeases
  <2>5. j = i
    BY <1>0, <1>2, <2>2, <2>4 DEF Map
  <2>6. EndedBy(i, Leases[i], now)
    BY <1>0, <1>5, <2>2, <2>5 DEF EndedBy
  <2>7. ~Extends(P[j], s, now + ttl)
    <3>1. SUFFICES ASSUME Extends(P[i], s, now + ttl) PROVE FALSE
      BY <2>5
    <3>2. /\ Leases'[i] = [Leases[i] EXCEPT !.expires = now + ttl, !.status = s]
          /\ s = Leases[i].status /\ now + ttl >= Leases[i].expires
      BY <1>0, <1>2, <2>4, <2>5, <3>1 DEF Extends, Map
    <3>3. now + ttl \in Nat /\ Leases[i].expires \in Nat
      BY <1>0 DEF Lease
    <3>4. /\ Leases'[i] \in Lease /\ Leases'[i].expires = now + ttl
          /\ Leases'[i].identity = Leases[i].identity /\ Leases'[i].hash = Leases[i].hash
          /\ Leases'[i].status = Leases[i].status
      BY <1>0, <3>2, <3>3 DEF Lease
    <3> QED
      BY <1>lost, <3>2, <3>3, <3>4
  <2> QED
    BY <1>1, <2>1, <2>3, <2>6, <2>7
<1>6. ASSUME NEW k \in Identity, NEW h \in Hash, Release(k, h, now)
      PROVE  Goal
  <2>1. PICK d \in Loads, j \in Own(P, h, k) :
          Visible(d, [P EXCEPT ![j] = NoLease], d.mem.token)
    BY <1>1, <1>3, <1>6 DEF Release, P
  <2>2. j \in Id /\ P[j].hash = h /\ P[j].identity = k
    BY DEF Own, WithHash, HeldBy, Taken
  <2>3. [P EXCEPT ![j] = NoLease] \in Map
    BY <1>2 DEF Map
  <2>4. Leases' = [P EXCEPT ![j] = NoLease]
    BY <1>1, <2>1, <2>3, WritesLeases
  <2>5. j = i
    BY <1>0, <1>2, <2>2, <2>4 DEF Map
  <2> QED
    BY <1>0, <1>1, <1>6, <2>1, <2>2, <2>3, <2>5 DEF EndedBy
<1>7. ASSUME NEW j \in Id, Drop(j, now) PROVE Goal
  <2> DEFINE gone == [Leases EXCEPT ![j] = NoLease]
  <2>1. PICK d \in Loads :
          \/ Unchanged(d)
          \/ ~LiveAt(Leases[j], now) /\ Quiet(d, gone)
          \/ Visible(d, gone, d.mem.token)
    BY <1>1, <1>7 DEF Drop
  <2>2. gone \in Map
    BY <1>0, ErasedThins
  <2>3. Leases' = gone
    BY <1>0, <1>1, <2>1, <2>2, WritesLeases
  <2>4. j = i
    BY <1>0, <2>3 DEF Map
  <2>5. Visible(d, gone, d.mem.token)
    BY <1>0, <2>1, <2>4, WritesLeases
  <2> QED
    BY <1>1, <1>7, <2>2, <2>4, <2>5 DEF EndedBy
<1>8. ASSUME NEW from \in Id, NEW to \in Id, Rekey(from, to, now) PROVE Goal
  <2> DEFINE gone == [Leases EXCEPT ![from] = NoLease]
             t(d) == NextToken(d.mem.token, now)
             N(d) == [gone EXCEPT ![to] = [Leases[from] EXCEPT !.token = t(d)]]
  <2>1. PICK d \in Loads :
          \/ Unchanged(d)
          \/ ~LiveAt(Leases[from], now) /\ Quiet(d, gone)
          \/ Visible(d, gone, d.mem.token)
          \/ /\ LiveAt(Leases[from], now) /\ ~LiveAt(Leases[to], now)
             /\ Visible(d, N(d), t(d))
    BY <1>1, <1>8 DEF Rekey, Moves
  <2>2. gone \in Map /\ t(d) \in Nat
    BY <1>0, <1>1, ErasedThins, NextTokenType
  <2>3. LiveAt(Leases[from], now) => N(d) \in Map
    BY <1>0, <2>2 DEF LiveAt, Map, Lease
  <2>4. from = i
    <3>1. Leases' = gone \/ (~LiveAt(Leases[to], now) /\ Leases' = N(d))
      BY <1>0, <1>1, <2>1, <2>2, <2>3, WritesLeases
    <3> HIDE DEF t
    <3> QED
      BY <1>0, <3>1 DEF Map
  <2>5. \/ Visible(d, gone, d.mem.token)
        \/ LiveAt(Leases[from], now) /\ Visible(d, N(d), t(d))
    BY <1>0, <2>1, <2>4, WritesLeases
  <2>6. EndedBy(i, Leases[i], now)
    BY <1>8, <2>4 DEF EndedBy
  <2> HIDE DEF gone, N, t
  <2> QED
    BY <1>1, <2>2, <2>3, <2>5, <2>6
<1>9. ASSUME Read PROVE Goal
  BY <1>0, <1>9, WritesLeases DEF Read
<1> QED
  BY <1>4, <1>5, <1>6, <1>7, <1>8, <1>9 DEF Call

\* A live lease ends early, or loses anything of what its holder has, only by a
\* call of the holder, by the rename or delete of its entity, or with the
\* document: a claim that carries an old time, or a rename onto its id, leaves it.
THEOREM LiveLeasesStay == Spec => LiveLeaseStays
<1>1. TokenInv /\ [Next]_vars =>
        [\A i \in Id : LET l == Leases[i] IN
           LiveAt(l, clock) /\ ~Kept(l, Leases'[i]) =>
             \/ doc' = EmptyDocument
             \/ \E now \in 0 .. clock :
                  \/ Release(l.identity, l.hash, now) \/ Drop(i, now)
                  \/ \E s \in Status, ttl \in Ttl : Renew(l.identity, l.hash, s, now, ttl)
                  \/ \E j \in Id : Rekey(i, j, now)]_vars
  <2>1. SUFFICES ASSUME TokenInv, [Next]_vars, NEW i \in Id, Ends(i)
                 PROVE  doc' = EmptyDocument \/ \E now \in 0 .. clock : EndedBy(i, Leases[i], now)
    BY DEF Ends, EndedBy
  <2>2. Leases'[i] # Leases[i]
    <3>1. 0 \in 0 .. clock
      BY <2>1 DEF TokenInv, TypeOK
    <3> QED
      BY <2>1, <3>1, EndsIs
  <2>3. CASE \E now \in 0 .. clock : Call(now)
    BY <2>1, <2>3, CallEnds
  <2>4. CASE Tick \/ LoseDocument \/ LoseVersionKey \/ UNCHANGED vars
    BY <2>2, <2>4 DEF Tick, LoseDocument, LoseVersionKey, vars, Leases
  <2> QED
    BY <2>1, <2>3, <2>4 DEF Next
<1> QED
  BY <1>1, TokenInvariant, PTL DEF Spec, LiveLeaseStays

\* A reader who saw a live lease learns from the version that it ended, changed
\* or ends earlier, unless a read or a write failed: what writes quietly only
\* prunes what has expired, or extends.
THEOREM ChangesShow == Spec => ChangesMoveVersion
<1>1. ASSUME TokenInv, [Next]_vars, faults' = faults, NEW i \in Id, Ends(i)
      PROVE  vk' # vk
  <2>1. TypeOK /\ vk \in Nat /\ faults \in Nat /\ clock \in Nat
    BY <1>1 DEF TokenInv, TypeOK
  <2>2. 0 \in 0 .. clock
    BY <2>1
  <2>3. Leases'[i] # Leases[i] /\ Leases[i] # NoLease
    BY <1>1, <2>2, EndsIs
  <2>4. ~damaged
    BY <1>1, <2>3 DEF TokenInv, LostIsEmpty, EmptyDocument, Leases, Nobody
  <2>5. ~(Tick \/ LoseDocument \/ LoseVersionKey \/ UNCHANGED vars)
    BY <1>1, <2>1, <2>3 DEF Tick, LoseDocument, LoseVersionKey, vars, Leases, Spend
  <2>6. PICK now \in 0 .. clock : Call(now)
    BY <1>1, <2>5 DEF Next
  <2>7. PICK d \in Loads, N \in Map, t \in Nat : Visible(d, N, t)
    BY <1>1, <2>6, CallEnds
  <2>8. d.cost \in Nat /\ d.key = vk
    <3>1. PICK seen \in {vk, 0}, wrote \in BOOLEAN : d = Loaded(seen, wrote)
      BY DEF Loads
    <3>2. d.key = seen /\ d.cost = Cost(seen # vk) + Cost(FALSE)
      BY <2>4, <3>1 DEF Loaded
    <3>3. d.cost = 0
      BY <1>1, <2>1, <2>7, LoadType DEF Visible, Spend
    <3> QED
      BY <3>2, <3>3 DEF Cost
  <2>9. vk' = NextVersion(d, t)
    BY <1>1, <2>1, <2>7, <2>8 DEF Visible, Spend
  <2> QED
    BY <2>1, <2>8, <2>9, NextVersionType
<1>2. TokenInv /\ [Next]_vars =>
        [faults' = faults =>
           \A i \in Id : LiveAt(Leases[i], clock) /\ ~Kept(Leases[i], Leases'[i])
                         => vk' # vk]_vars
  BY <1>1 DEF Ends
<1> QED
  BY <1>2, TokenInvariant, PTL DEF Spec, ChangesMoveVersion

-----------------------------------------------------------------------------
(* The contract. *)

\* What a call's pruning leaves is what the contract sees.
LEMMA SweptForms ==
    ASSUME Leases \in Map, NEW now \in Nat
    PROVE  /\ Pruned(Leases, now) \in Table!Swept(now) /\ Leases \in Table!Swept(now)
           /\ Table!Live(now) = {i \in Id : LiveAt(Leases[i], now)}
           /\ Table!Live(now) = Taken(Pruned(Leases, now))
           /\ \A i \in Table!Live(now) : Pruned(Leases, now)[i] = Leases[i]
<1>1. Table!Live(now) = {i \in Id : LiveAt(Leases[i], now)}
  BY DEF Table!Live, LiveAt, Leases
<1>2. \A i \in Id : Pruned(Leases, now)[i] = IF LiveAt(Leases[i], now) THEN Leases[i] ELSE NoLease
  BY DEF Pruned
<1>3. Pruned(Leases, now) = Table!Without(Id \ Table!Live(now))
  BY <1>1 DEF Pruned, Table!Without, Leases
<1>4. Leases = Table!Without({})
  BY DEF Table!Without, Leases, Map
<1>5. \A i \in Id : LiveAt(Leases[i], now) => Leases[i] # NoLease
  BY DEF LiveAt
<1> QED
  BY <1>1, <1>2, <1>3, <1>4, <1>5 DEF Table!Swept, Taken

\* The contract's module has its own copy of Cardinality.
LEMMA SameCardinality == ASSUME NEW S PROVE Table!Cardinality(S) = Cardinality(S)
BY DEF Cardinality, Table!Cardinality

\* The refusals of a claim are those of the contract.
LEMMA GrantableForm ==
    ASSUME Leases \in Map, NEW now \in Nat, NEW i \in Id, NEW k \in Identity, NEW h \in Hash
    PROVE  MayClaim(Pruned(Leases, now), i, k, h) <=> Table!Grantable(i, k, h, now)
<1> DEFINE P == Pruned(Leases, now)
           A == Table!Live(now)
<1>1. A = Taken(P) /\ \A j \in A : P[j] = Leases[j]
  BY SweptForms
<1>2. HeldBy(P, k) = {j \in A : Leases[j].identity = k}
  BY <1>1 DEF HeldBy
<1>3. WithHash(P, h) = {} <=> \A j \in A : Leases[j].hash # h
  BY <1>1 DEF WithHash
<1>4. P[i] = NoLease <=> i \notin A
  BY <1>1 DEF Taken
<1> HIDE DEF P, A
<1>5. MayClaim(P, i, k, h) <=> /\ i \notin A /\ \A j \in A : Leases[j].hash # h
                               /\ Cardinality(A) < MaxPerStore
                               /\ Cardinality({j \in A : Leases[j].identity = k}) < MaxPerIdentity
  BY <1>1, <1>2, <1>3, <1>4 DEF MayClaim
<1> QED
  BY <1>5, SameCardinality DEF P, A, Table!Grantable, Leases

\* The count of tokens is lost by a fault that the call pays for.
LEMMA CallEndures ==
    ASSUME TokenInv, NEW d \in Loads, After(d), NEW n \in {d.cost, d.cost + 1}, Spend(n)
    PROVE  Table!Endures /\ clock' = clock
<1>1. TypeOK
  BY DEF TokenInv
<1>2. d.cost \in Nat /\ d.blind \in BOOLEAN /\ faults \in Nat /\ exposed \in BOOLEAN
  BY <1>1, LoadType DEF TypeOK
<1>3. faults' = faults + n /\ clock' = clock
  BY DEF Spend, After
<1>4. d.blind => d.cost > 0
  <2>1. PICK seen \in {vk, 0}, wrote \in BOOLEAN : d = Loaded(seen, wrote)
    BY DEF Loads
  <2>2. d.blind => seen # vk
    BY <2>1 DEF Loaded
  <2>3. d.cost = Cost(seen # vk) + Cost(damaged /\ ~wrote)
    BY <2>1 DEF Loaded
  <2> QED
    BY <2>2, <2>3 DEF Cost
<1>5. exposed' # exposed => exposed' /\ d.blind
  <2>1. exposed' = (exposed \/ d.blind)
    BY DEF After
  <2> QED
    BY <1>2, <2>1, Zenon
<1>6. faults <= faults' /\ (d.blind => faults < faults')
  BY <1>2, <1>3, <1>4
<1> QED
  BY <1>3, <1>5, <1>6, Zenon DEF Table!Endures

\* A write of a token above the one it builds on is an issue of it.
LEMMA IssuesToken ==
    ASSUME TokenInv, NEW d \in Loads, After(d), NEW t \in Nat, t > d.mem.token,
           top' = max(top, t)
    PROVE  Table!Issue(t)
<1>1. ~exposed' => ~exposed /\ ~d.blind
  BY AfterType DEF TokenInv
<1>2. top \in Nat /\ d.mem.token \in Nat
  BY LoadType DEF TokenInv, TypeOK, Document
<1>3. ~exposed' => t > top
  BY <1>1, <1>2, LoadCovers
<1>4. max(top, t) = IF t > top THEN t ELSE top
  BY <1>2 DEF max
<1> QED
  BY <1>3, <1>4 DEF Table!Issue

\* Every write of a call endures, and leaves the clock.
LEMMA WritesEndure ==
    ASSUME TokenInv, NEW d \in Loads
    PROVE  /\ Unchanged(d) => Table!Endures /\ clock' = clock
           /\ \A N \in Map : Quiet(d, N) => Table!Endures /\ clock' = clock
           /\ \A N \in Map, t \in Nat :
                Visible(d, N, t) => Table!Endures /\ clock' = clock /\ After(d)
<1>1. ASSUME Unchanged(d) PROVE Table!Endures /\ clock' = clock
  BY <1>1, CallEndures DEF Unchanged
<1>2. ASSUME NEW N \in Map, Quiet(d, N) PROVE Table!Endures /\ clock' = clock
  BY <1>2, CallEndures DEF Quiet
<1>3. ASSUME NEW N \in Map, NEW t \in Nat, Visible(d, N, t)
      PROVE  Table!Endures /\ clock' = clock /\ After(d)
  <2>1. After(d) /\ \E n \in {d.cost, d.cost + 1} : Spend(n)
    BY <1>3 DEF Visible
  <2> QED
    BY <2>1, CallEndures
<1> QED
  BY <1>1, <1>2, <1>3

\* A call that changes no lease and issues no token, read or repair alone.
LEMMA ReadMaps ==
    ASSUME TokenInv, Read
    PROVE  Table!Endures /\ clock' = clock /\ (Table!Lose \/ UNCHANGED Table!vars)
<1>1. PICK d \in Loads : Unchanged(d) /\ top' = top
  BY DEF Read
<1>2. Table!Endures /\ clock' = clock /\ Leases' = Leases
  BY <1>1, WritesEndure, WritesLeases
<1>3. faults \in Nat /\ faults' \in Nat /\ faults <= faults'
  BY <1>1, <1>2, UnchangedEffect DEF TokenInv, TypeOK, Table!Endures
<1>4. CASE faults' = faults
  <2>1. exposed' = exposed
    BY <1>2, <1>3, <1>4 DEF Table!Endures
  <2> QED
    BY <1>1, <1>2, <1>4, <2>1 DEF Table!vars, Leases
<1>5. CASE faults < faults'
  BY <1>1, <1>2, <1>5 DEF Table!Lose, Leases
<1> QED
  BY <1>2, <1>3, <1>4, <1>5

\* A refused call only prunes.
LEMMA PruningMaps ==
    ASSUME TokenInv, NEW d \in Loads, NEW now \in Nat,
           KeepPruning(d, Pruned(d.mem.leases, now))
    PROVE  /\ Table!Endures /\ clock' = clock
           /\ Leases' = Pruned(Leases, now)
<1>1. Leases \in Map /\ d.mem.leases = Leases
  BY LoadSame DEF TokenInv, TypeOK, Document, Map, Leases
<1>2. Pruned(Leases, now) \in Map
  BY <1>1, PrunedThins
<1> QED
  BY <1>1, <1>2, WritesEndure, WritesLeases DEF KeepPruning

LEMMA ClaimMaps ==
    ASSUME TokenInv, NEW now \in Nat, NEW i \in Id, NEW k \in Identity, NEW h \in Hash,
           NEW s \in Status, NEW ttl \in Ttl, Claim(i, k, h, s, now, ttl)
    PROVE  Table!Endures /\ clock' = clock /\ Table!Claim(i, k, h, s, now, ttl)
<1> DEFINE P == Pruned(Leases, now)
           t(d) == NextToken(d.mem.token, now)
           l(d) == [identity |-> k, hash |-> h, token |-> t(d), expires |-> now + ttl, status |-> s]
<1>1. Leases \in Map /\ \A d \in Loads : d.mem.leases = Leases /\ d.mem.token \in Nat
  BY LoadSame, LoadType DEF TokenInv, TypeOK, Document, Map, Leases
<1>2. P \in Map /\ P \in Table!Swept(now)
  BY <1>1, PrunedThins, SweptForms
<1>3. PICK d \in Loads : IF MayClaim(P, i, k, h)
                           THEN Visible(d, [P EXCEPT ![i] = l(d)], t(d)) /\ top' = max(top, t(d))
                           ELSE KeepPruning(d, P) /\ top' = top
  BY <1>1 DEF Claim
<1>4. MayClaim(P, i, k, h) <=> Table!Grantable(i, k, h, now)
  BY <1>1, GrantableForm
<1>5. CASE MayClaim(P, i, k, h)
  <2>1. t(d) \in Nat /\ t(d) > d.mem.token
    BY <1>1, NextTokenType
  <2>2. l(d) \in Lease /\ l(d).token = t(d)
    BY <2>1, LeaseAssumption DEF Lease
  <2> DEFINE N == [P EXCEPT ![i] = l(d)]
  <2>3. N \in Map /\ N[i] = l(d)
    BY <1>2, <2>2 DEF Map
  <2>4. Leases' = N /\ Table!Endures /\ clock' = clock /\ After(d)
    BY <1>3, <1>5, <2>1, <2>3, WritesLeases, WritesEndure
  <2>5. Table!Issue(t(d))
    BY <1>3, <1>5, <2>1, <2>4, IssuesToken
  <2>6. Table!TokenOf(i)' = t(d)
    BY <2>2, <2>3, <2>4, LeaseAssumption DEF Table!TokenOf, Leases
  <2>7. doc'.leases = [P EXCEPT ![i] =
           [identity |-> k, hash |-> h, token |-> Table!TokenOf(i)', expires |-> now + ttl,
            status |-> s]]
    BY <2>4, <2>6 DEF Leases
  <2> HIDE DEF P, N, l, t
  <2> QED
    BY <1>2, <1>4, <1>5, <2>4, <2>5, <2>6, <2>7 DEF Table!Claim
<1>6. CASE ~MayClaim(P, i, k, h)
  <2>1. Table!Endures /\ clock' = clock /\ Leases' = P
    BY <1>1, <1>3, <1>6, PruningMaps
  <2> QED
    BY <1>2, <1>3, <1>4, <1>6, <2>1 DEF Table!Claim, Leases
<1> QED
  BY <1>5, <1>6

\* A hash names one lease: the lease byHash picks is all the caller has, and a
\* caller it does not have the identity of has none.
LEMMA OwnForm ==
    ASSUME Leases \in Map, HashesUnique, NEW now \in Nat, NEW k \in Identity, NEW h \in Hash
    PROVE  LET P == Pruned(Leases, now) IN
           /\ Own(P, h, k) = Table!Own(h, k, now)
           /\ Lost(P, h, k) => Own(P, h, k) = {}
           /\ \A i \in Own(P, h, k) : Own(P, h, k) = {i}
<1> DEFINE P == Pruned(Leases, now)
<1>1. Table!Live(now) = Taken(P) /\ \A i \in Table!Live(now) : P[i] = Leases[i]
  BY SweptForms
<1>2. Own(P, h, k) = {i \in Taken(P) : P[i].hash = h /\ P[i].identity = k}
  BY DEF Own, WithHash, HeldBy
<1>3. Taken(P) \subseteq Taken(Leases) /\ \A i \in Taken(P) : P[i] = Leases[i]
  BY <1>1 DEF Pruned, Taken
<1>4. \A i, j \in WithHash(P, h) : i = j
  BY <1>3 DEF WithHash, HashesUnique
<1>5. Table!Own(h, k, now) = {i \in Table!Live(now) : Leases[i].hash = h /\ Leases[i].identity = k}
  BY DEF Table!Own, Leases
<1> HIDE DEF P
<1>6. Own(P, h, k) = Table!Own(h, k, now)
  BY <1>1, <1>2, <1>3, <1>5
<1>7. Own(P, h, k) = WithHash(P, h) \cap HeldBy(P, k)
  BY DEF Own
<1>8. Lost(P, h, k) => Own(P, h, k) = {}
  BY <1>4, <1>7 DEF Lost
<1>9. \A i \in Own(P, h, k) : Own(P, h, k) = {i}
  BY <1>4, <1>7
<1> QED
  BY <1>6, <1>8, <1>9 DEF P

LEMMA RenewMaps ==
    ASSUME TokenInv, HashesUnique, NEW now \in Nat, NEW k \in Identity, NEW h \in Hash,
           NEW s \in Status, NEW ttl \in Ttl, Renew(k, h, s, now, ttl)
    PROVE  Table!Endures /\ clock' = clock /\ Table!Renew(k, h, s, now, ttl)
<1> DEFINE P == Pruned(Leases, now)
           N(i) == [P EXCEPT ![i].expires = now + ttl, ![i].status = s]
<1>1. Leases \in Map /\ \A d \in Loads : d.mem.leases = Leases /\ d.mem.token \in Nat
  BY LoadSame, LoadType DEF TokenInv, TypeOK, Document, Map, Leases
<1>2. P \in Map /\ P \in Table!Swept(now)
  BY <1>1, PrunedThins, SweptForms
<1>3. /\ Own(P, h, k) = Table!Own(h, k, now)
      /\ Lost(P, h, k) => Own(P, h, k) = {}
  BY <1>1, OwnForm
<1>4. PICK d \in Loads :
        \/ Lost(P, h, k) /\ KeepPruning(d, P)
        \/ \E i \in Own(P, h, k) : IF Extends(P[i], s, now + ttl) THEN Quiet(d, N(i))
                                   ELSE Visible(d, N(i), d.mem.token)
  BY <1>1 DEF Renew
<1>5. top' = top
  BY DEF Renew
<1>6. CASE Lost(P, h, k) /\ KeepPruning(d, P)
  <2>1. Table!Endures /\ clock' = clock /\ Leases' = P
    BY <1>1, <1>6, PruningMaps
  <2> HIDE DEF P
  <2> QED
    BY <1>2, <1>3, <1>5, <1>6, <2>1 DEF Table!Renew, Leases
<1>7. ASSUME NEW i \in Own(P, h, k), Quiet(d, N(i)) \/ Visible(d, N(i), d.mem.token)
      PROVE  Table!Endures /\ clock' = clock /\ Table!Renew(k, h, s, now, ttl)
  <2>1. i \in Id /\ P[i] \in Lease
    BY <1>2 DEF Own, WithHash, HeldBy, Taken, Map
  <2>2. N(i) \in Map
    <3> DEFINE m == [P[i] EXCEPT !.expires = now + ttl, !.status = s]
    <3>1. now + ttl \in Nat
      BY LeaseAssumption
    <3>2. m \in Lease
      BY <2>1, <3>1 DEF Lease
    <3>3. N(i) = [P EXCEPT ![i] = m]
      BY <1>2, <2>1 DEF Map
    <3> HIDE DEF m
    <3> QED
      BY <1>2, <2>1, <3>2, <3>3 DEF Map
  <2>3. Leases' = N(i) /\ Table!Endures /\ clock' = clock
    BY <1>1, <1>7, <2>2, WritesLeases, WritesEndure
  <2>4. i \in Table!Own(h, k, now)
    BY <1>3
  <2> HIDE DEF P
  <2> QED
    BY <1>2, <1>5, <2>3, <2>4 DEF Table!Renew, Leases
<1> HIDE DEF P, N
<1> QED
  BY <1>4, <1>6, <1>7

LEMMA ReleaseMaps ==
    ASSUME TokenInv, HashesUnique, NEW now \in Nat, NEW k \in Identity, NEW h \in Hash,
           Release(k, h, now)
    PROVE  Table!Endures /\ clock' = clock /\ Table!Release(k, h, now)
<1> DEFINE P == Pruned(Leases, now)
           O == Own(P, h, k)
           N == [i \in Id |-> IF i \in O THEN NoLease ELSE P[i]]
<1>1. Leases \in Map /\ \A d \in Loads : d.mem.leases = Leases /\ d.mem.token \in Nat
  BY LoadSame, LoadType DEF TokenInv, TypeOK, Document, Map, Leases
<1>2. P \in Map /\ P \in Table!Swept(now)
  BY <1>1, PrunedThins, SweptForms
<1>3. /\ O = Table!Own(h, k, now)
      /\ Lost(P, h, k) => O = {}
      /\ \A i \in O : O = {i}
  BY <1>1, OwnForm
<1>4. PICK d \in Loads :
        \/ Lost(P, h, k) /\ KeepPruning(d, P)
        \/ \E i \in O : Visible(d, [P EXCEPT ![i] = NoLease], d.mem.token)
  BY <1>1 DEF Release
<1>5. Leases' = N /\ Table!Endures /\ clock' = clock
  <2>1. CASE Lost(P, h, k) /\ KeepPruning(d, P)
    <3>1. Table!Endures /\ clock' = clock /\ Leases' = P
      BY <1>1, <2>1, PruningMaps
    <3> HIDE DEF P, O
    <3>2. P = N
      BY <1>2, <1>3, <2>1 DEF Map
    <3> QED
      BY <3>1, <3>2
  <2>2. ASSUME NEW i \in O, Visible(d, [P EXCEPT ![i] = NoLease], d.mem.token)
        PROVE  Leases' = N /\ Table!Endures /\ clock' = clock
    <3>1. i \in Id
      BY DEF Own, WithHash, Taken
    <3> HIDE DEF P, O
    <3>2. [P EXCEPT ![i] = NoLease] = N
      BY <1>2, <1>3, <2>2, <3>1 DEF Map
    <3>3. [P EXCEPT ![i] = NoLease] \in Map
      BY <1>2, <3>1 DEF Map
    <3> QED
      BY <1>1, <2>2, <3>2, <3>3, WritesLeases, WritesEndure
  <2> QED
    BY <1>4, <2>1, <2>2
<1>6. doc'.leases = [i \in Id |-> IF i \in Table!Own(h, k, now) THEN NoLease ELSE P[i]]
  BY <1>3, <1>5 DEF Leases
<1> HIDE DEF P
<1> QED
  BY <1>2, <1>5, <1>6 DEF Table!Release, Release

\* A rename or a delete of an id without a lease leaves the leases as they are,
\* so both erase it whatever they find.
LEMMA DropMaps ==
    ASSUME TokenInv, NEW now \in Nat, NEW i \in Id, Drop(i, now)
    PROVE  Table!Endures /\ clock' = clock /\ Table!Drop(i, now)
<1> DEFINE gone == [Leases EXCEPT ![i] = NoLease]
<1>1. Leases \in Map /\ \A d \in Loads : d.mem.leases = Leases /\ d.mem.token \in Nat
  BY LoadSame, LoadType DEF TokenInv, TypeOK, Document, Map, Leases
<1>2. gone \in Map /\ Leases \in Table!Swept(now)
  BY <1>1, ErasedThins, SweptForms
<1>3. PICK d \in Loads : \/ Leases[i] = NoLease /\ Unchanged(d)
                         \/ Quiet(d, gone) \/ Visible(d, gone, d.mem.token)
  BY <1>1 DEF Drop
<1>4. Leases[i] = NoLease => gone = Leases
  BY <1>1 DEF Map
<1>5. Leases' = gone /\ Table!Endures /\ clock' = clock
  BY <1>1, <1>2, <1>3, <1>4, WritesLeases, WritesEndure
<1> QED
  BY <1>2, <1>5 DEF Table!Drop, Drop, Leases

LEMMA RekeyMaps ==
    ASSUME TokenInv, NEW now \in Nat, NEW from \in Id, NEW to \in Id, Rekey(from, to, now)
    PROVE  Table!Endures /\ clock' = clock /\ Table!Rekey(from, to, now)
<1> DEFINE gone == [Leases EXCEPT ![from] = NoLease]
           t(d) == NextToken(d.mem.token, now)
           N(d) == [gone EXCEPT ![to] = [Leases[from] EXCEPT !.token = t(d)]]
<1>1. Leases \in Map /\ \A d \in Loads : d.mem.leases = Leases /\ d.mem.token \in Nat
  BY LoadSame, LoadType DEF TokenInv, TypeOK, Document, Map, Leases
<1>2. gone \in Map /\ Leases \in Table!Swept(now)
  BY <1>1, ErasedThins, SweptForms
<1>3. from # to
  BY DEF Rekey
<1>4. PICK d \in Loads :
        \/ /\ ~(LiveAt(Leases[from], now) /\ ~LiveAt(Leases[to], now)) /\ top' = top
           /\ \/ Leases[from] = NoLease /\ Unchanged(d)
              \/ Quiet(d, gone) \/ Visible(d, gone, d.mem.token)
        \/ /\ LiveAt(Leases[from], now) /\ ~LiveAt(Leases[to], now)
           /\ Visible(d, N(d), t(d)) /\ top' = max(top, t(d))
  BY <1>1 DEF Rekey, Moves, LiveAt
<1>5. /\ from \in Table!Live(now) <=> LiveAt(Leases[from], now)
      /\ to \in Table!Live(now) <=> LiveAt(Leases[to], now)
  BY <1>1, SweptForms
<1>6. CASE /\ ~(LiveAt(Leases[from], now) /\ ~LiveAt(Leases[to], now)) /\ top' = top
           /\ \/ Leases[from] = NoLease /\ Unchanged(d)
              \/ Quiet(d, gone) \/ Visible(d, gone, d.mem.token)
  <2>1. Leases[from] = NoLease => gone = Leases
    BY <1>1 DEF Map
  <2>2. Leases' = gone /\ Table!Endures /\ clock' = clock
    BY <1>1, <1>2, <1>6, <2>1, WritesLeases, WritesEndure
  <2> QED
    BY <1>2, <1>3, <1>5, <1>6, <2>2 DEF Table!Rekey, Leases
<1>7. CASE /\ LiveAt(Leases[from], now) /\ ~LiveAt(Leases[to], now)
           /\ Visible(d, N(d), t(d)) /\ top' = max(top, t(d))
  <2>1. t(d) \in Nat /\ t(d) > d.mem.token
    BY <1>1, NextTokenType
  <2>2. Leases[from] \in Lease
    BY <1>1, <1>7 DEF LiveAt, Map
  <2> HIDE DEF t
  <2>3. N(d) \in Map /\ N(d)[to] \in Lease /\ N(d)[to].token = t(d)
    BY <1>2, <2>1, <2>2 DEF Map, Lease
  <2>4. Leases' = N(d) /\ Table!Endures /\ clock' = clock /\ After(d)
    BY <1>7, <2>1, <2>3, WritesLeases, WritesEndure
  <2>5. Table!Issue(t(d))
    BY <1>7, <2>1, <2>4, IssuesToken
  <2>6. Table!TokenOf(to)' = t(d)
    BY <2>3, <2>4, LeaseAssumption DEF Table!TokenOf, Leases
  <2>7. Leases' = [gone EXCEPT ![to] = [Leases[from] EXCEPT !.token = Table!TokenOf(to)']]
    BY <2>4, <2>6
  <2> HIDE DEF N
  <2> QED
    BY <1>2, <1>3, <1>5, <1>7, <2>4, <2>5, <2>6, <2>7 DEF Table!Rekey, Leases
<1> QED
  BY <1>4, <1>6, <1>7

\* What is lost from outside is lost to the contract: the leases with the
\* document, nothing with the version key.
LEMMA LossMaps ==
    ASSUME TokenInv, LoseDocument \/ LoseVersionKey
    PROVE  Table!Endures /\ clock' = clock /\ Table!Lose
<1>1. Leases \in Map /\ faults \in Nat
  BY DEF TokenInv, TypeOK, Document, Map, Leases
<1>2. faults' = faults + 1 /\ clock' = clock /\ top' = top
  BY DEF LoseDocument, LoseVersionKey, Spend
<1>3. exposed => exposed'
  BY Zenon DEF LoseDocument, LoseVersionKey
<1>4. faults < faults' /\ faults <= faults'
  BY <1>1, <1>2
<1>5. exposed' # exposed => exposed'
  <2>1. exposed \in BOOLEAN
    BY DEF TokenInv, TypeOK
  <2>2. exposed' \in BOOLEAN
    BY Zenon DEF LoseDocument, LoseVersionKey
  <2> QED
    BY <1>3, <2>1, <2>2
<1>6. Table!Endures
  BY <1>4, <1>5 DEF Table!Endures
<1>7. Leases' \in {Leases, Nobody}
  BY DEF LoseDocument, LoseVersionKey, EmptyDocument, Leases
<1>8. Table!Without(Id) = Nobody
  BY DEF Table!Without, Nobody
<1> QED
  BY <1>2, <1>4, <1>6, <1>7, <1>8 DEF Table!Lose, Leases

LEMMA StepMaps ==
    ASSUME TokenInv, HashesUnique, [Next]_vars
    PROVE  [Table!Next]_(Table!vars)
<1>1. ASSUME NEW now \in 0 .. clock, Call(now)
      PROVE  /\ Table!Endures /\ clock' = clock
             /\ Table!Call(now) \/ Table!Lose \/ UNCHANGED Table!vars
  <2>1. now \in Nat
    BY DEF TokenInv, TypeOK
  <2>2. ASSUME NEW k \in Identity, NEW h \in Hash, NEW s \in Status, NEW ttl \in Ttl,
               NEW i \in Id, Claim(i, k, h, s, now, ttl)
        PROVE  Table!Endures /\ clock' = clock /\ Table!Call(now)
    BY <2>1, <2>2, ClaimMaps DEF Table!Call
  <2>3. ASSUME NEW k \in Identity, NEW h \in Hash, NEW s \in Status, NEW ttl \in Ttl,
               Renew(k, h, s, now, ttl)
        PROVE  Table!Endures /\ clock' = clock /\ Table!Call(now)
    BY <2>1, <2>3, RenewMaps DEF Table!Call
  <2>4. ASSUME NEW k \in Identity, NEW h \in Hash, Release(k, h, now)
        PROVE  Table!Endures /\ clock' = clock /\ Table!Call(now)
    BY <2>1, <2>4, ReleaseMaps DEF Table!Call
  <2>5. ASSUME NEW i \in Id, Drop(i, now)
        PROVE  Table!Endures /\ clock' = clock /\ Table!Call(now)
    BY <2>1, <2>5, DropMaps DEF Table!Call
  <2>6. ASSUME NEW i \in Id, NEW j \in Id, Rekey(i, j, now)
        PROVE  Table!Endures /\ clock' = clock /\ Table!Call(now)
    BY <2>1, <2>6, RekeyMaps DEF Table!Call
  <2> QED
    BY <1>1, <2>2, <2>3, <2>4, <2>5, <2>6, ReadMaps DEF Call
<1>2. CASE Tick
  <2>1. clock' = clock + 1 /\ UNCHANGED <<doc, faults, top, exposed>> /\ faults \in Nat
    BY <1>2 DEF Tick, TokenInv, TypeOK
  <2> QED
    BY <2>1 DEF Table!Next, Table!Endures
<1>3. CASE LoseDocument \/ LoseVersionKey
  BY <1>3, LossMaps DEF Table!Next
<1>4. CASE UNCHANGED vars
  BY <1>4 DEF vars, Table!vars
<1> QED
  BY <1>1, <1>2, <1>3, <1>4 DEF Next, Table!Next

\* The store keeps its interface's promises in one document: whatever was lost
\* or damaged before it and whatever time it carries, a call makes of the leases
\* what the interface says of its method, and a token it issues is above all
\* before it unless a fault cost the store its count.
THEOREM KvImplementsLeaseTable == Spec => ImplementsLeaseTable
<1>1. Init => Table!Init
  BY DEF Init, Table!Init, EmptyDocument, Nobody
<1>2. TokenInv /\ HashesUnique /\ [Next]_vars
        => [Table!Next]_<<doc.leases, clock, faults, top, exposed>>
  BY StepMaps DEF Table!vars
<1> QED
  BY <1>1, <1>2, TokenInvariant, HashNamesOneLease, PTL
     DEF Spec, ImplementsLeaseTable, Table!Spec, Table!vars

=============================================================================
