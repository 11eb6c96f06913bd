-------------------------- MODULE SoftDeleteProofs --------------------------
(***************************************************************************)
(* Theorems about SoftDelete: its types, the undo window, what a restore   *)
(* brings back, and where ownership can break.                             *)
(***************************************************************************)
EXTENDS SoftDelete, TLAPS

\* Ids that are no case variants of each other, and no rename to the same id.
NoVariants ==
    /\ \A i, j \in Id : Fold[i] = Fold[j] => i = j
    /\ \A i \in Id : i \notin RenameTo[i]

-----------------------------------------------------------------------------
(* What the maps g keep to. *)

\* A mark hides a family of its own id, and nothing else is hidden.
Hides(g) ==
    \A i \in Id : /\ IsMarked(g, i) <=> g.ents[i] # {}
                  /\ \A m \in g.ents[i] : m.id = i
                  /\ g.rels[i] # {} => IsMarked(g, i)

\* A marked id has no live family.
Apart(g) == \A i \in Id : IsMarked(g, i) => FamilyOf(g, i) = {}

\* Live edges join live entities, hidden ones join entities that may come back.
Known(g, i) == FamilyOf(g, i) # {} \/ IsMarked(g, i)
Tied(g) ==
    /\ \A e \in g.edges : /\ e.from # e.to
                          /\ FamilyOf(g, e.from) # {} /\ FamilyOf(g, e.to) # {}
    /\ \A i \in Id : \A e \in g.rels[i] :
         On(e, i) /\ e.from # e.to /\ Known(g, e.from) /\ Known(g, e.to)

Clean(g) == Apart(g) /\ Tied(g)

-----------------------------------------------------------------------------
(* The invariants. *)

\* What the undo window needs: a mark is not from the future, and what a run
\* listed is past the window and no newer than the mark.
WindowInv ==
    /\ TypeOK /\ Hides(maps) /\ now # 0
    /\ \A i \in Id : maps.at[i] <= now
    /\ \A p \in pending : /\ Past(p.at)
                          /\ IsMarked(maps, p.id) => p.at <= maps.at[p.id]

\* What a restore needs: an owner's mark still holds the edges to what its
\* delete took along, and both marks still look made together.
TookInv ==
    \A i \in Id : \A j \in took[i] :
        /\ i # j /\ IsMarked(maps, i) /\ IsMarked(maps, j)
        /\ by[j] = by[i] /\ maps.at[j] = maps.at[i]
        /\ \E e \in maps.rels[i] : e.from = i /\ e.to = j

-----------------------------------------------------------------------------
(* What each method makes of the maps g, map by map: h is the result. *)

\* Of faces and of edges, those that have nothing to do with S.
Others(L, S) == {m \in L : m.id \notin S}
Off(E, S) == {e \in E : Clear(e, S)}

\* The edges that come back with R, and those that move to a mark that stays.
Back(g, R) == {e \in Freed(g, R) : ~StaysMarked(g, R, e.from) /\ ~StaysMarked(g, R, e.to)}
MovedTo(g, R, j) == {e \in Freed(g, R) : StaysMarked(g, R, j) /\ On(e, j)}

\* Faces and edges with the new id n for the old id o.
NewId(i, o, n) == IF i = o THEN n ELSE i
NewEdges(E, o, n) == {[e EXCEPT !.from = NewId(@, o, n), !.to = NewId(@, o, n)] : e \in E}
NewRows(L, o, n) == {[m EXCEPT !.id = n] : m \in {k \in L : k.id = o}}

SameLive(g, h) == h.live = g.live /\ h.edges = g.edges
SameMarks(g, h) == h.at = g.at /\ h.ents = g.ents
SameMark(g, h, j) == h.at[j] = g.at[j] /\ h.ents[j] = g.ents[j] /\ h.rels[j] = g.rels[j]

Adds(g, h, m) ==
    /\ h \in Maps /\ SameMarks(g, h) /\ h.rels = g.rels
    /\ h.live = g.live \cup {m} /\ h.edges = g.edges
Links(g, h, e) ==
    /\ h \in Maps /\ SameMarks(g, h) /\ h.rels = g.rels
    /\ h.live = g.live /\ h.edges = g.edges \cup {e}
Unlinks(g, h, e) ==
    /\ h \in Maps /\ SameMarks(g, h) /\ h.rels = g.rels
    /\ h.live = g.live /\ h.edges = g.edges \ {e}
Clears(g, h, S) ==
    /\ h \in Maps /\ SameMarks(g, h)
    /\ h.live = Others(g.live, S) /\ h.edges = Off(g.edges, S)
    /\ \A j \in Id : h.rels[j] = Off(g.rels[j], S)
Rekeys(g, h, o, n) ==
    /\ h \in Maps /\ SameMarks(g, h)
    /\ o # n => h.live = Others(g.live, {o}) \cup NewRows(g.live, o, n)
    /\ h.edges = NewEdges(g.edges, o, n)
    /\ \A j \in Id : h.rels[j] = Off(g.rels[j], {o})
Marks(g, h, S, t) ==
    /\ h \in Maps
    /\ h.live = Others(g.live, S) /\ h.edges = Off(g.edges, S)
    /\ \A j \in S : /\ h.at[j] = t /\ h.ents[j] = FamilyOf(g, j)
                    /\ h.rels[j] \subseteq Incident(g, j)
    /\ \A j \in Id \ S : SameMark(g, h, j)
Unmarks(g, h, R) ==
    /\ h \in Maps
    /\ h.live = g.live \cup UNION {g.ents[j] : j \in R}
    /\ h.edges = g.edges \cup Back(g, R)
    /\ \A j \in R : h.at[j] = 0 /\ h.ents[j] = {} /\ h.rels[j] = {}
    /\ \A j \in Id \ R : /\ h.at[j] = g.at[j] /\ h.ents[j] = g.ents[j]
                         /\ h.rels[j] = g.rels[j] \cup MovedTo(g, R, j)
Purges(g, h, i) ==
    /\ h \in Maps /\ SameLive(g, h)
    /\ h.at[i] = 0 /\ h.ents[i] = {} /\ h.rels[i] = {}
    /\ \A j \in Id \ {i} : /\ h.at[j] = g.at[j] /\ h.ents[j] = g.ents[j]
                           /\ h.rels[j] = Off(g.rels[j], {i})

LEMMA WithEntityIs ==
    ASSUME NEW g \in Maps, NEW m \in Entity
    PROVE  Adds(g, WithEntity(g, m), m)
BY DEF Maps, WithEntity, Adds, SameMarks

LEMMA WithEdgeIs ==
    ASSUME NEW g \in Maps, NEW e \in Relation
    PROVE  Links(g, WithEdge(g, e), e)
BY DEF Maps, WithEdge, Links, SameMarks

LEMMA WithoutEdgeIs ==
    ASSUME NEW g \in Maps, NEW e
    PROVE  Unlinks(g, [g EXCEPT !.edges = @ \ {e}], e)
BY DEF Maps, Unlinks, SameMarks

LEMMA WithoutAllIs ==
    ASSUME NEW g \in Maps, NEW S
    PROVE  Clears(g, WithoutAll(g, S), S)
<1> DEFINE h == WithoutAll(g, S)
           L == Others(g.live, S)
           E == Off(g.edges, S)
           R == [j \in Id |-> Off(g.rels[j], S)]
<1>1. L \in SUBSET Entity /\ E \in SUBSET Relation /\ R \in [Id -> SUBSET Relation]
  BY DEF Maps, Others, Off
<1>2. \A j \in Id : R[j] = Off(g.rels[j], S)
  OBVIOUS
<1>3. h = [g EXCEPT !.live = L, !.edges = E, !.rels = R]
  BY DEF WithoutAll, Maps, Others, Off
<1> HIDE DEF L, E, R, h
<1>4. h \in Maps /\ h.live = L /\ h.edges = E /\ h.at = g.at /\ h.ents = g.ents /\ h.rels = R
  BY <1>1, <1>3 DEF Maps
<1> QED
  BY <1>2, <1>4 DEF Clears, SameMarks, L, E, h

LEMMA RekeyedIs ==
    ASSUME NEW g \in Maps, NEW o \in Id, NEW n \in Id
    PROVE  Rekeys(g, Rekeyed(g, o, n), o, n)
<1> DEFINE h == Rekeyed(g, o, n)
           N == NewRows(g.live, o, n)
           L == (g.live \cup N) \ FamilyOf(g, o)
           E == NewEdges(g.edges, o, n)
           R == DropHidden(g, o)
<1>1. h = [g EXCEPT !.live = L, !.edges = E, !.rels = R]
  BY DEF Rekeyed, Maps, NewRows, FamilyOf, NewEdges, NewId
<1>2. E \in SUBSET Relation
  <2>1. g.edges \in SUBSET Relation
    BY DEF Maps
  <2> QED
    BY <2>1 DEF Relation, NewEdges, NewId
<1>3. R \in [Id -> SUBSET Relation] /\ \A j \in Id : R[j] = Off(g.rels[j], {o})
  BY DEF DropHidden, Maps, Off, Clear, On
<1>4. N \in SUBSET Entity /\ \A m \in N : m.id = n
  BY DEF Maps, Entity, NewRows
<1>5. L \in SUBSET Entity /\ (o # n => L = Others(g.live, {o}) \cup N)
  <2> HIDE DEF N
  <2> QED
    BY <1>4 DEF Maps, FamilyOf, Others
<1>6. h \in Maps /\ h.live = L /\ h.edges = E /\ h.at = g.at /\ h.ents = g.ents /\ h.rels = R
  <2> HIDE DEF L, E, R, h
  <2> QED
    BY <1>1, <1>2, <1>3, <1>5 DEF Maps
<1> HIDE DEF L, R, h
<1> QED
  BY <1>3, <1>5, <1>6 DEF Rekeys, SameMarks, h

LEMMA MarkedIs ==
    ASSUME NEW g \in Maps, NEW i \in Id, NEW t \in Nat
    PROVE  Marks(g, Marked(g, i, t), {i}, t)
<1> DEFINE h == Marked(g, i, t)
           L == g.live \ FamilyOf(g, i)
           E == g.edges \ Incident(g, i)
           A == [g.at EXCEPT ![i] = t]
           F == [g.ents EXCEPT ![i] = FamilyOf(g, i)]
           R == [g.rels EXCEPT ![i] = Incident(g, i)]
<1>1. h = [g EXCEPT !.live = L, !.edges = E, !.at = A, !.ents = F, !.rels = R]
  BY DEF Marked, Maps
<1>2. FamilyOf(g, i) \in SUBSET Entity /\ Incident(g, i) \in SUBSET Relation
  BY DEF FamilyOf, Incident, Maps
<1>3. /\ L \in SUBSET Entity /\ E \in SUBSET Relation /\ A \in [Id -> Nat]
      /\ F \in [Id -> SUBSET Entity] /\ R \in [Id -> SUBSET Relation]
  BY <1>2 DEF Maps
<1>4. L = Others(g.live, {i}) /\ E = Off(g.edges, {i})
  BY DEF FamilyOf, Incident, Others, Off, Clear, On
<1>5. /\ A[i] = t /\ F[i] = FamilyOf(g, i) /\ R[i] = Incident(g, i)
      /\ \A j \in Id \ {i} : A[j] = g.at[j] /\ F[j] = g.ents[j] /\ R[j] = g.rels[j]
  BY DEF Maps
<1> HIDE DEF L, E, A, F, R, h
<1>6. h \in Maps /\ h.live = L /\ h.edges = E /\ h.at = A /\ h.ents = F /\ h.rels = R
  BY <1>1, <1>3 DEF Maps
<1> QED
  BY <1>4, <1>5, <1>6 DEF Marks, SameMark, h

LEMMA MarkAllIs ==
    ASSUME NEW g \in Maps, NEW S \in SUBSET Id, NEW t \in Nat
    PROVE  Marks(g, MarkAll(g, S, t), S, t)
<1> DEFINE h == MarkAll(g, S, t)
           L == Others(g.live, S)
           E == Off(g.edges, S)
           A == [j \in Id |-> IF j \in S THEN t ELSE g.at[j]]
           F == [j \in Id |-> IF j \in S THEN FamilyOf(g, j) ELSE g.ents[j]]
           R == [j \in Id |-> IF j \in S THEN TakenBy(g, j, S) ELSE g.rels[j]]
<1>1. h = [g EXCEPT !.live = L, !.edges = E, !.at = A, !.ents = F, !.rels = R]
  BY DEF MarkAll, Maps, Others, Off
<1>2. /\ \A j \in Id : FamilyOf(g, j) \in SUBSET Entity /\ TakenBy(g, j, S) \in SUBSET Relation
      /\ \A j \in Id : TakenBy(g, j, S) \subseteq Incident(g, j)
  BY DEF FamilyOf, Incident, TakenBy, Maps
<1>3. /\ L \in SUBSET Entity /\ E \in SUBSET Relation /\ A \in [Id -> Nat]
      /\ F \in [Id -> SUBSET Entity] /\ R \in [Id -> SUBSET Relation]
  BY <1>2 DEF Maps, Others, Off
<1>4. /\ \A j \in S : A[j] = t /\ F[j] = FamilyOf(g, j) /\ R[j] \subseteq Incident(g, j)
      /\ \A j \in Id \ S : A[j] = g.at[j] /\ F[j] = g.ents[j] /\ R[j] = g.rels[j]
  BY <1>2
<1> HIDE DEF L, E, A, F, R, h
<1>5. h \in Maps /\ h.live = L /\ h.edges = E /\ h.at = A /\ h.ents = F /\ h.rels = R
  BY <1>1, <1>3 DEF Maps
<1> QED
  BY <1>4, <1>5 DEF Marks, SameMark, h, L, E

LEMMA UnmarkAllIs ==
    ASSUME NEW g \in Maps, NEW R \in SUBSET Id
    PROVE  Unmarks(g, UnmarkAll(g, R), R)
<1> DEFINE h == UnmarkAll(g, R)
           L == g.live \cup UNION {g.ents[j] : j \in R}
           E == g.edges \cup Back(g, R)
           A == [j \in Id |-> IF j \in R THEN 0 ELSE g.at[j]]
           F == [j \in Id |-> IF j \in R THEN {} ELSE g.ents[j]]
           H == [j \in Id |-> IF j \in R THEN {} ELSE g.rels[j] \cup MovedTo(g, R, j)]
<1>1. h = [g EXCEPT !.live = L, !.edges = E, !.at = A, !.ents = F, !.rels = H]
  BY DEF UnmarkAll, Maps, Back, MovedTo
<1>2. Freed(g, R) \in SUBSET Relation /\ UNION {g.ents[j] : j \in R} \in SUBSET Entity
  BY DEF Freed, Maps
<1>3. /\ L \in SUBSET Entity /\ E \in SUBSET Relation /\ A \in [Id -> Nat]
      /\ F \in [Id -> SUBSET Entity] /\ H \in [Id -> SUBSET Relation]
  BY <1>2 DEF Maps, Back, MovedTo
<1>4. /\ \A j \in R : A[j] = 0 /\ F[j] = {} /\ H[j] = {}
      /\ \A j \in Id \ R : /\ A[j] = g.at[j] /\ F[j] = g.ents[j]
                           /\ H[j] = g.rels[j] \cup MovedTo(g, R, j)
  OBVIOUS
<1> HIDE DEF L, E, A, F, H, h
<1>5. h \in Maps /\ h.live = L /\ h.edges = E /\ h.at = A /\ h.ents = F /\ h.rels = H
  BY <1>1, <1>3 DEF Maps
<1> QED
  BY <1>4, <1>5 DEF Unmarks, h, L, E

LEMMA PurgedIs ==
    ASSUME NEW g \in Maps, NEW i \in Id
    PROVE  Purges(g, Purged(g, i), i)
<1> DEFINE h == Purged(g, i)
           A == [g.at EXCEPT ![i] = 0]
           F == [g.ents EXCEPT ![i] = {}]
           R == [j \in Id |-> IF j = i THEN {} ELSE DropHidden(g, i)[j]]
<1>1. h = [g EXCEPT !.at = A, !.ents = F, !.rels = R]
  BY DEF Purged, Maps
<1>2. R[i] = {} /\ \A j \in Id \ {i} : R[j] = Off(g.rels[j], {i})
  BY DEF DropHidden, Off, Clear, On
<1>3. A \in [Id -> Nat] /\ F \in [Id -> SUBSET Entity] /\ R \in [Id -> SUBSET Relation]
  BY DEF Maps, DropHidden
<1>4. A[i] = 0 /\ F[i] = {} /\ \A j \in Id \ {i} : A[j] = g.at[j] /\ F[j] = g.ents[j]
  BY DEF Maps
<1> HIDE DEF A, F, R, h
<1>5. /\ h \in Maps /\ h.live = g.live /\ h.edges = g.edges
      /\ h.at = A /\ h.ents = F /\ h.rels = R
  BY <1>1, <1>3 DEF Maps
<1> QED
  BY <1>2, <1>4, <1>5 DEF Purges, SameLive, h

\* The owner and those of its owned entities that were marked.  The owner's mark
\* takes every edge of the owner.
LEMMA MarkFamilyIs ==
    ASSUME NEW g \in Maps, NEW i \in Id, NEW S \in SUBSET (Id \ {i}), NEW t \in Nat
    PROVE  /\ Marks(g, MarkAll(Marked(g, i, t), S, t), S \cup {i}, t)
           /\ MarkAll(Marked(g, i, t), S, t).rels[i] = Incident(g, i)
<1> DEFINE k == Marked(g, i, t)
           h == MarkAll(k, S, t)
<1>1. Marks(g, k, {i}, t) /\ k.rels[i] = Incident(g, i)
  <2>1. Marks(g, k, {i}, t)
    BY MarkedIs
  <2>2. k.rels = [g.rels EXCEPT ![i] = Incident(g, i)] /\ g.rels \in [Id -> SUBSET Relation]
    BY DEF Marked, Maps
  <2> QED
    BY <2>1, <2>2
<1>2. Marks(k, h, S, t)
  BY <1>1, MarkAllIs DEF Marks
<1> HIDE DEF k, h
<1>3. \A j \in S : FamilyOf(k, j) = FamilyOf(g, j) /\ Incident(k, j) \subseteq Incident(g, j)
  BY <1>1 DEF Marks, FamilyOf, Incident, Others, Off
<1>4. h.live = Others(g.live, S \cup {i})
  BY <1>1, <1>2 DEF Marks, Others
<1>5. h.edges = Off(g.edges, S \cup {i})
  BY <1>1, <1>2 DEF Marks, Off, Clear
<1>6. \A j \in S : /\ h.at[j] = t /\ h.ents[j] = FamilyOf(g, j)
                   /\ h.rels[j] \subseteq Incident(g, j)
  BY <1>2, <1>3 DEF Marks
<1>7. /\ h.at[i] = t /\ h.ents[i] = FamilyOf(g, i) /\ h.rels[i] = Incident(g, i)
      /\ \A j \in Id \ (S \cup {i}) : SameMark(g, h, j)
  BY <1>1, <1>2 DEF Marks, SameMark
<1>8. h \in Maps
  BY <1>2 DEF Marks
<1>9. Marks(g, h, S \cup {i}, t)
  BY <1>4, <1>5, <1>6, <1>7, <1>8 DEF Marks
<1> QED
  BY <1>7, <1>9 DEF h, k

-----------------------------------------------------------------------------
(* Hidden families. *)

LEMMA HidesStays ==
    ASSUME NEW g \in Maps, NEW h \in Maps, Hides(g), SameMarks(g, h),
           \A j \in Id : h.rels[j] \subseteq g.rels[j]
    PROVE  Hides(h)
BY DEF Hides, IsMarked, SameMarks

LEMMA HidesMarked ==
    ASSUME NEW g \in Maps, Hides(g), NEW S \in SUBSET Id, \A j \in S : FamilyOf(g, j) # {},
           NEW t \in Nat \ {0}, NEW h, Marks(g, h, S, t)
    PROVE  Hides(h)
<1>1. \A j \in S : \A m \in FamilyOf(g, j) : m.id = j
  BY DEF FamilyOf
<1>2. ASSUME NEW j \in Id
      PROVE  /\ h.at[j] # 0 <=> h.ents[j] # {}
             /\ \A m \in h.ents[j] : m.id = j
             /\ h.rels[j] # {} => h.at[j] # 0
  <2>1. CASE j \in S
    BY <1>1, <2>1 DEF Marks
  <2>2. CASE j \notin S
    BY <2>2 DEF Marks, SameMark, Hides, IsMarked
  <2> QED
    BY <2>1, <2>2
<1> QED
  BY <1>2 DEF Hides, IsMarked

LEMMA HidesUnmarked ==
    ASSUME NEW g \in Maps, Hides(g), NEW R \in SUBSET Id, NEW h, Unmarks(g, h, R)
    PROVE  Hides(h)
<1>1. ASSUME NEW j \in Id
      PROVE  /\ h.at[j] # 0 <=> h.ents[j] # {}
             /\ \A m \in h.ents[j] : m.id = j
             /\ h.rels[j] # {} => h.at[j] # 0
  <2>1. CASE j \in R
    BY <2>1 DEF Unmarks
  <2>2. CASE j \notin R
    <3>1. MovedTo(g, R, j) # {} => g.at[j] # 0
      BY DEF MovedTo, StaysMarked, IsMarked
    <3> QED
      BY <2>2, <3>1 DEF Unmarks, Hides, IsMarked
  <2> QED
    BY <2>1, <2>2
<1> QED
  BY <1>1 DEF Hides, IsMarked

LEMMA HidesPurged ==
    ASSUME NEW g \in Maps, Hides(g), NEW i \in Id, NEW h, Purges(g, h, i)
    PROVE  Hides(h)
<1>1. ASSUME NEW j \in Id
      PROVE  /\ h.at[j] # 0 <=> h.ents[j] # {}
             /\ \A m \in h.ents[j] : m.id = j
             /\ h.rels[j] # {} => h.at[j] # 0
  BY DEF Purges, Off, Hides, IsMarked
<1> QED
  BY <1>1 DEF Hides, IsMarked

-----------------------------------------------------------------------------
(* The steps, by what they do to the maps. *)

\* A call that marks nothing.
Wrote ==
    \/ \E m \in Entity : MayCreate(maps, m) /\ Adds(maps, maps', m)
    \/ \E e \in Relation : /\ FamilyOf(maps, e.from) # {} /\ FamilyOf(maps, e.to) # {}
                           /\ Admits(maps, e) /\ Links(maps, maps', e)
    \/ \E e \in Relation : Unlinks(maps, maps', e)
    \/ \E S \in SUBSET Id : (\A j \in S : FamilyOf(maps, j) # {}) /\ Clears(maps, maps', S)
    \/ \E o, n \in Id : MayRename(maps, o, n) /\ Rekeys(maps, maps', o, n)
    \/ \E i \in Id : /\ MayRestore(i)
                     /\ \E R \in SUBSET (MarkedWith(i) \cup {i}) : Unmarks(maps, maps', R)

Rest == Keep(by) /\ took' = StillTaken(took) /\ UNCHANGED now

SoftDeleted(i, u, S) ==
    /\ FamilyOf(maps, i) # {} /\ S \in SUBSET OwnedBy(maps, i)
    /\ Marks(maps, maps', S \cup {i}, now) /\ maps'.rels[i] = Incident(maps, i)
    /\ Keep([j \in Id |-> IF j \in S \cup {i} THEN u ELSE by[j]])
    /\ took' = StillTaken([took EXCEPT ![i] = S])
    /\ UNCHANGED <<now, pending>>

LEMMA FaultType ==
    ASSUME TypeOK, Fault \/ UNCHANGED faults
    PROVE  faults' \in Nat
BY SoftDeleteAssumption DEF TypeOK, Fault

LEMMA OwnedByIds ==
    ASSUME NEW g, NEW i \in Id
    PROVE  /\ OwnedBy(g, i) \in SUBSET (Id \ {i})
           /\ \A j \in OwnedBy(g, i) : FamilyOf(g, j) # {}
BY DEF OwnedBy

LEMMA CallShapes ==
    ASSUME TypeOK, Call
    PROVE  /\ \/ Wrote /\ Rest /\ UNCHANGED pending
              \/ \E i \in Id, u \in User, S \in SUBSET Id : SoftDeleted(i, u, S)
           /\ faults' \in Nat
<1>1. maps \in Maps
  BY DEF TypeOK
<1>2. ASSUME NEW g, Writes(g)
      PROVE  maps' = g /\ Rest /\ UNCHANGED pending
  BY <1>2 DEF Writes, Rest
<1>3. CASE \E m \in Entity : Create(m)
  <2>1. PICK m \in Entity : MayCreate(maps, m) /\ Writes(WithEntity(maps, m)) /\ UNCHANGED faults
    BY <1>3 DEF Create
  <2>2. Adds(maps, maps', m)
    BY <1>1, <1>2, <2>1, WithEntityIs
  <2> QED
    BY <1>2, <2>1, <2>2, FaultType DEF Wrote
<1>4. CASE \E e \in Relation : Relate(e)
  <2>1. PICK e \in Relation :
           /\ FamilyOf(maps, e.from) # {} /\ FamilyOf(maps, e.to) # {} /\ Admits(maps, e)
           /\ Writes(WithEdge(maps, e)) /\ UNCHANGED faults
    BY <1>4 DEF Relate
  <2>2. Links(maps, maps', e)
    BY <1>1, <1>2, <2>1, WithEdgeIs
  <2> QED
    BY <1>2, <2>1, <2>2, FaultType DEF Wrote
<1>5. CASE \E e \in Relation : Unrelate(e)
  <2>1. PICK e \in Relation :
           Writes([maps EXCEPT !.edges = @ \ {e}]) /\ UNCHANGED faults
    BY <1>5 DEF Unrelate
  <2>2. Unlinks(maps, maps', e)
    BY <1>1, <1>2, <2>1, WithoutEdgeIs
  <2> QED
    BY <1>2, <2>1, <2>2, FaultType DEF Wrote
<1>6. CASE \E i \in Id : Delete(i) \/ DeleteFails(i)
  <2>1. PICK i \in Id : Delete(i) \/ DeleteFails(i)
    BY <1>6
  <2>2. PICK S \in SUBSET (OwnedBy(maps, i) \cup {i}) :
           /\ FamilyOf(maps, i) # {} /\ Writes(WithoutAll(maps, S))
           /\ Fault \/ UNCHANGED faults
    BY <2>1 DEF Delete, DeleteFails, UpTo
  <2>3. Clears(maps, maps', S)
    BY <1>1, <1>2, <2>2, WithoutAllIs
  <2>4. S \in SUBSET Id /\ \A j \in S : FamilyOf(maps, j) # {}
    BY <2>2, OwnedByIds
  <2> QED
    BY <1>2, <2>2, <2>3, <2>4, FaultType DEF Wrote
<1>7. CASE \E o, n \in Id : Rename(o, n)
  <2>1. PICK o \in Id, n \in Id :
           MayRename(maps, o, n) /\ Writes(Rekeyed(maps, o, n)) /\ UNCHANGED faults
    BY <1>7 DEF Rename
  <2>2. Rekeys(maps, maps', o, n)
    BY <1>1, <1>2, <2>1, RekeyedIs
  <2> QED
    BY <1>2, <2>1, <2>2, FaultType DEF Wrote
<1>8. CASE \E i \in Id, u \in User : SoftDelete(i, u)
  <2>1. PICK i \in Id, u \in User : SoftDelete(i, u)
    BY <1>8
  <2>2. PICK S \in SUBSET OwnedBy(maps, i) :
           /\ FamilyOf(maps, i) # {} /\ maps' = MarkFamily(i, S)
           /\ IF S = OwnedBy(maps, i) THEN UNCHANGED faults ELSE Fault
           /\ Keep([j \in Id |-> IF j \in S \cup {i} THEN u ELSE by[j]])
           /\ took' = StillTaken([took EXCEPT ![i] = S])
           /\ UNCHANGED <<now, pending>>
    BY <2>1 DEF SoftDelete, UpTo
  <2>3. S \in SUBSET (Id \ {i})
    BY OwnedByIds
  <2>4. Marks(maps, maps', S \cup {i}, now) /\ maps'.rels[i] = Incident(maps, i)
    BY <1>1, <2>2, <2>3, MarkFamilyIs DEF MarkFamily, TypeOK
  <2> QED
    BY <2>2, <2>3, <2>4, FaultType DEF SoftDeleted
<1>9. CASE \E i \in Id : Restore(i) \/ RestoreFails(i)
  <2>1. PICK i \in Id : Restore(i) \/ RestoreFails(i)
    BY <1>9
  <2>2. PICK R \in SUBSET (MarkedWith(i) \cup {i}) :
           MayRestore(i) /\ Writes(UnmarkAll(maps, R)) /\ (Fault \/ UNCHANGED faults)
    BY <2>1 DEF Restore, RestoreFails, UpTo
  <2>3. R \in SUBSET Id
    BY DEF MarkedWith, MarkedIds
  <2>4. Unmarks(maps, maps', R)
    BY <1>1, <1>2, <2>2, <2>3, UnmarkAllIs
  <2> QED
    BY <1>2, <2>2, <2>4, FaultType DEF Wrote
<1> QED
  BY <1>3, <1>4, <1>5, <1>6, <1>7, <1>8, <1>9 DEF Call

\* A collector's purge of an id, which may not be marked any more.
PurgeOf(i) ==
    /\ Rest /\ UNCHANGED faults
    /\ IF IsMarked(maps, i) THEN Purges(maps, maps', i) ELSE UNCHANGED maps

LEMMA PurgeShape ==
    ASSUME TypeOK, NEW p \in pending, Purge(p)
    PROVE  PurgeOf(p.id) /\ p.id \in Id /\ p.at \in Nat /\ pending' = pending \ {p}
<1>1. p.id \in Id /\ p.at \in Nat /\ maps \in Maps
  BY DEF TypeOK, Listing
<1> QED
  BY <1>1, PurgedIs DEF Purge, PurgeOf, Rest

\* The other steps leave the store alone.
Idle == UNCHANGED <<maps, by, took>>

LEMMA StepShapes ==
    ASSUME TypeOK, [Next]_vars
    PROVE  \/ Wrote /\ Rest /\ UNCHANGED pending
           \/ \E i \in Id, u \in User, S \in SUBSET Id : SoftDeleted(i, u, S)
           \/ \E p \in pending : Purge(p)
           \/ Idle
BY CallShapes DEF Next, Collect, List, PurgeFails, Tick, Restart, Damage, Repair, Idle, vars

-----------------------------------------------------------------------------
(* Types and the undo window. *)

\* A call leaves the time of a mark, ends the mark, or makes it now; a mark that
\* a call ends gives its family back.
AtStep == \A i \in Id : maps'.at[i] \in {maps.at[i], 0, now}
GivesBack ==
    \A i \in Id : IsMarked(maps, i) /\ ~IsMarked(maps', i) => maps.ents[i] \subseteq maps'.live

LEMMA WroteMaps ==
    ASSUME TypeOK, Hides(maps), Wrote
    PROVE  /\ maps' \in Maps /\ Hides(maps') /\ GivesBack
           /\ \A i \in Id : maps'.at[i] \in {maps.at[i], 0}
<1>1. maps \in Maps
  BY DEF TypeOK
<1>2. CASE /\ maps' \in Maps /\ SameMarks(maps, maps')
           /\ \A j \in Id : maps'.rels[j] \subseteq maps.rels[j]
  <2>1. Hides(maps')
    BY <1>1, <1>2, HidesStays
  <2> QED
    BY <1>2, <2>1 DEF SameMarks, GivesBack, IsMarked
<1>3. CASE \E R \in SUBSET Id : Unmarks(maps, maps', R)
  <2>1. PICK R \in SUBSET Id : Unmarks(maps, maps', R)
    BY <1>3
  <2>2. Hides(maps')
    BY <1>1, <2>1, HidesUnmarked
  <2>3. GivesBack
    BY <2>1 DEF GivesBack, Unmarks, IsMarked
  <2> QED
    BY <2>1, <2>2, <2>3 DEF Unmarks
<1>4. CASE \E m \in Entity : Adds(maps, maps', m)
  BY <1>2, <1>4 DEF Adds
<1>5. CASE \E e \in Relation : Links(maps, maps', e) \/ Unlinks(maps, maps', e)
  BY <1>2, <1>5 DEF Links, Unlinks
<1>6. CASE \E S \in SUBSET Id : Clears(maps, maps', S)
  BY <1>2, <1>6 DEF Clears, Off
<1>7. CASE \E o, n \in Id : Rekeys(maps, maps', o, n)
  BY <1>2, <1>7 DEF Rekeys, Off
<1>8. \A i \in Id : MarkedWith(i) \cup {i} \in SUBSET Id
  BY DEF MarkedWith, MarkedIds
<1> QED
  BY <1>3, <1>4, <1>5, <1>6, <1>7, <1>8 DEF Wrote

LEMMA SoftDeletedMaps ==
    ASSUME TypeOK, Hides(maps), now # 0,
           NEW i \in Id, NEW u \in User, NEW S \in SUBSET Id, SoftDeleted(i, u, S)
    PROVE  /\ maps' \in Maps /\ Hides(maps') /\ AtStep /\ GivesBack
           /\ \A j \in S \cup {i} : FamilyOf(maps, j) # {}
<1>1. maps \in Maps /\ now \in Nat \ {0} /\ S \cup {i} \in SUBSET Id
  BY DEF TypeOK
<1>2. \A j \in S \cup {i} : FamilyOf(maps, j) # {}
  BY OwnedByIds DEF SoftDeleted
<1>3. Marks(maps, maps', S \cup {i}, now)
  BY DEF SoftDeleted
<1>4. Hides(maps')
  BY <1>1, <1>2, <1>3, HidesMarked
<1>5. ASSUME NEW j \in Id
      PROVE  /\ maps'.at[j] \in {maps.at[j], 0, now}
             /\ IsMarked(maps, j) => IsMarked(maps', j)
  <2>1. CASE j \in S \cup {i}
    BY <1>1, <1>3, <2>1 DEF Marks, IsMarked
  <2>2. CASE j \notin S \cup {i}
    BY <1>3, <2>2 DEF Marks, SameMark, IsMarked
  <2> QED
    BY <2>1, <2>2
<1> QED
  BY <1>2, <1>3, <1>4, <1>5 DEF Marks, AtStep, GivesBack

LEMMA PurgeMaps ==
    ASSUME TypeOK, Hides(maps), NEW i \in Id, PurgeOf(i)
    PROVE  /\ maps' \in Maps /\ Hides(maps')
           /\ \A j \in Id : maps'.at[j] \in {maps.at[j], 0}
           /\ \A j \in Id \ {i} : IsMarked(maps, j) => IsMarked(maps', j)
           /\ ~IsMarked(maps', i)
<1>1. maps \in Maps
  BY DEF TypeOK
<1>2. CASE IsMarked(maps, i) /\ Purges(maps, maps', i)
  <2>1. Hides(maps')
    BY <1>1, <1>2, HidesPurged
  <2> QED
    BY <1>2, <2>1 DEF Purges, IsMarked
<1>3. CASE ~IsMarked(maps, i) /\ maps' = maps
  BY <1>1, <1>3
<1> QED
  BY <1>2, <1>3 DEF PurgeOf

\* The deleters and what was taken along have their types, whatever was marked.
LEMMA KeepTypes ==
    ASSUME TypeOK, NEW deleter, Keep(deleter), NEW t, took' = StillTaken(t),
           \A i \in Id : IsMarked(maps', i) => deleter[i] \in User
    PROVE  /\ by' \in [Id -> User \cup {Nobody}]
           /\ \A i \in Id : by'[i] = Nobody <=> ~IsMarked(maps', i)
           /\ unreadable' \subseteq MarkedIds(maps')
           /\ took' \in [Id -> SUBSET Id]
<1>1. by' = [i \in Id |-> IF IsMarked(maps', i) THEN deleter[i] ELSE Nobody]
  BY DEF Keep
<1>2. /\ by' \in [Id -> User \cup {Nobody}]
      /\ \A i \in Id : by'[i] = Nobody <=> ~IsMarked(maps', i)
  BY <1>1, SoftDeleteAssumption
<1>3. unreadable' \subseteq MarkedIds(maps')
  BY DEF Keep
<1>4. took' \in [Id -> SUBSET Id]
  BY DEF StillTaken, MarkedIds
<1> QED
  BY <1>2, <1>3, <1>4

LEMMA RestTypes ==
    ASSUME TypeOK, Rest, \A i \in Id : IsMarked(maps', i) => IsMarked(maps, i)
    PROVE  /\ by' \in [Id -> User \cup {Nobody}]
           /\ \A i \in Id : by'[i] = Nobody <=> ~IsMarked(maps', i)
           /\ unreadable' \subseteq MarkedIds(maps')
           /\ took' \in [Id -> SUBSET Id]
BY KeepTypes DEF TypeOK, Rest

\* A step that lists nothing keeps the window invariant, if the types are kept.
LEMMA WindowStays ==
    ASSUME WindowInv, TypeOK', Hides(maps'), AtStep, pending' \subseteq pending,
           now' \in {now, now + 1}
    PROVE  WindowInv'
<1>1. now' \in Nat /\ now' # 0 /\ now <= now' /\ now \in Nat
  BY DEF WindowInv, TypeOK
<1>2. \A i \in Id : maps.at[i] \in Nat /\ maps'.at[i] \in Nat
  BY DEF WindowInv, TypeOK, Maps
<1>3. \A i \in Id : maps'.at[i] <= now'
  BY <1>1, <1>2 DEF WindowInv, AtStep
<1>4. ASSUME NEW p \in pending'
      PROVE  Past(p.at)' /\ (IsMarked(maps', p.id) => p.at <= maps'.at[p.id])
  <2>1. p \in pending /\ p.id \in Id /\ p.at \in Nat /\ p.at + Delay < now /\ Delay \in Nat
    BY <1>4, SoftDeleteAssumption DEF WindowInv, TypeOK, Listing, Past
  <2>2. p.at + Delay < now' /\ p.at <= now
    BY <1>1, <2>1
  <2>3. maps'.at[p.id] \in {maps.at[p.id], 0, now}
    BY <2>1 DEF AtStep
  <2>4. IsMarked(maps', p.id) => p.at <= maps'.at[p.id]
    BY <2>1, <2>2, <2>3 DEF WindowInv, IsMarked
  <2> QED
    BY <2>2, <2>4 DEF Past
<1> QED
  BY <1>1, <1>3, <1>4 DEF WindowInv

LEMMA WindowStep ==
    ASSUME WindowInv, [Next]_vars
    PROVE  WindowInv'
<1>1. /\ TypeOK /\ Hides(maps) /\ now # 0 /\ now \in Nat
      /\ pending \subseteq Listing
  BY DEF WindowInv, TypeOK
<1>2. CASE Wrote /\ Rest /\ UNCHANGED pending /\ Call
  <2>1. /\ maps' \in Maps /\ Hides(maps') /\ \A i \in Id : maps'.at[i] \in {maps.at[i], 0}
    BY <1>1, <1>2, WroteMaps
  <2>2. TypeOK'
    BY <1>1, <1>2, <2>1, RestTypes, CallShapes DEF TypeOK, Rest, IsMarked
  <2> QED
    BY <1>2, <2>1, <2>2, WindowStays DEF AtStep, Rest
<1>3. CASE Call /\ \E i \in Id, u \in User, S \in SUBSET Id : SoftDeleted(i, u, S)
  <2>1. PICK i \in Id, u \in User, S \in SUBSET Id : SoftDeleted(i, u, S)
    BY <1>3
  <2>2. maps' \in Maps /\ Hides(maps') /\ AtStep
    BY <1>1, <2>1, SoftDeletedMaps
  <2> DEFINE deleter == [j \in Id |-> IF j \in S \cup {i} THEN u ELSE by[j]]
  <2>3. \A j \in Id : IsMarked(maps', j) => deleter[j] \in User
    BY <1>1, <2>1 DEF SoftDeleted, Marks, SameMark, IsMarked, TypeOK
  <2>4. Keep(deleter)
    BY <2>1 DEF SoftDeleted
  <2> HIDE DEF deleter
  <2>5. TypeOK'
    BY <1>1, <1>3, <2>1, <2>2, <2>3, <2>4, KeepTypes, CallShapes DEF TypeOK, SoftDeleted
  <2> QED
    BY <2>1, <2>2, <2>5, WindowStays DEF SoftDeleted
<1>4. CASE \E p \in pending : Purge(p)
  <2>1. PICK p \in pending : Purge(p)
    BY <1>4
  <2>2. PurgeOf(p.id) /\ p.id \in Id /\ pending' = pending \ {p}
    BY <1>1, <2>1, PurgeShape
  <2>3. /\ maps' \in Maps /\ Hides(maps')
        /\ \A j \in Id : maps'.at[j] \in {maps.at[j], 0}
    BY <1>1, <2>2, PurgeMaps
  <2>4. TypeOK'
    BY <1>1, <2>2, <2>3, RestTypes DEF TypeOK, Rest, PurgeOf, IsMarked
  <2> QED
    BY <2>2, <2>3, <2>4, WindowStays DEF AtStep, Rest, PurgeOf
<1>5. CASE List
  <2>1. pending' \subseteq Listing
    BY <1>1, <1>5 DEF List, MarkedIds, Listing, TypeOK, Maps
  <2>2. TypeOK'
    BY <1>1, <1>5, <2>1 DEF List, TypeOK, IsMarked, MarkedIds
  <2>3. \A p \in pending' : Past(p.at) /\ p.at = maps.at[p.id] /\ p.id \in Id
    BY <1>5 DEF List, MarkedIds
  <2>4. \A p \in pending' : Past(p.at)' /\ (IsMarked(maps', p.id) => p.at <= maps'.at[p.id])
    BY <1>1, <1>5, <2>3 DEF List, Past, TypeOK, Maps
  <2> QED
    BY <1>5, <2>2, <2>4 DEF WindowInv, List, Hides
<1>6. CASE /\ UNCHANGED <<maps, by, took>> /\ unreadable' \subseteq MarkedIds(maps)
           /\ pending' \subseteq pending /\ now' \in {now, now + 1} /\ faults' \in Nat
  <2>1. TypeOK'
    BY <1>1, <1>6 DEF TypeOK, IsMarked, MarkedIds
  <2> QED
    BY <1>1, <1>6, <2>1, WindowStays DEF AtStep, Hides
<1>7. unreadable \subseteq MarkedIds(maps) /\ faults \in Nat
  BY <1>1 DEF TypeOK
<1>8. CASE Tick \/ UNCHANGED vars
  BY <1>6, <1>7, <1>8 DEF Tick, vars
<1>9. CASE Restart \/ \E p \in pending : PurgeFails(p)
  BY <1>1, <1>6, <1>7, <1>9, FaultType DEF Restart, PurgeFails
<1>10. CASE \E i \in Id : Damage(i) \/ Repair(i)
  BY <1>1, <1>6, <1>7, <1>10, FaultType DEF Damage, Repair
<1> QED
  BY <1>1, <1>2, <1>3, <1>4, <1>5, <1>8, <1>9, <1>10, CallShapes DEF Next, Collect

LEMMA WindowInit ==
    ASSUME Init
    PROVE  WindowInv
<1>1. Empty \in Maps /\ \A i \in Id : Empty.at[i] = 0 /\ Empty.ents[i] = {} /\ Empty.rels[i] = {}
  BY DEF Empty, Maps
<1> HIDE DEF Empty
<1>2. TypeOK
  BY <1>1, SoftDeleteAssumption DEF Init, TypeOK, IsMarked, MarkedIds
<1> QED
  BY <1>1, <1>2 DEF Init, WindowInv, Hides, IsMarked

LEMMA WindowAlways == Spec => []WindowInv
BY WindowInit, WindowStep, PTL DEF Spec

\* Every reachable state is well typed; in particular exactly the marked ids have
\* a deleter, and a file counts as unreadable only while it is hidden.
THEOREM SoftDeleteTyped == Spec => []TypeOK
<1>1. WindowInv => TypeOK
  BY DEF WindowInv
<1> QED
  BY <1>1, WindowAlways, PTL

\* No step destroys a soft-deleted family before its undo window has passed,
\* but a purge by an id whose earlier mark the collector had listed: whatever is
\* restored, deleted again, renamed or cut short around a run of the collector.
THEOREM UndoWindowHolds == Spec => UndoWindowUnlessRelisted
<1>1. ASSUME WindowInv, [Next]_vars, NEW i \in Id, Destroys(i)
      PROVE  Past(maps.at[i]) \/ \E p \in pending : p.id = i /\ p.at < maps.at[i]
  <2>1. /\ TypeOK /\ Hides(maps) /\ now # 0
        /\ IsMarked(maps, i) /\ ~IsMarked(maps', i) /\ maps.ents[i] # {}
        /\ maps.ents[i] \cap maps'.live = {}
    BY <1>1 DEF WindowInv, Destroys, Hides
  <2>2. ~GivesBack
    BY <2>1 DEF GivesBack
  <2>3. ~Idle
    BY <2>1 DEF Idle
  <2>4. PICK p \in pending : Purge(p)
    BY <1>1, <2>1, <2>2, <2>3, StepShapes, WroteMaps, SoftDeletedMaps
  <2>5. PurgeOf(p.id) /\ p.id \in Id /\ p.at \in Nat
    BY <2>1, <2>4, PurgeShape
  <2>6. p.id = i
    BY <2>1, <2>5, PurgeMaps
  <2>7. Past(p.at) /\ p.at <= maps.at[i] /\ maps.at[i] \in Nat
    BY <1>1, <2>1, <2>4, <2>6 DEF WindowInv, TypeOK, Maps
  <2> QED
    BY <2>5, <2>6, <2>7
<1>2. WindowInv /\ [Next]_vars =>
        [\A i \in Id : Destroys(i) =>
           \/ Past(maps.at[i])
           \/ \E p \in pending : p.id = i /\ p.at < maps.at[i]]_vars
  BY <1>1
<1> QED
  BY <1>2, WindowAlways, PTL DEF Spec, UndoWindowUnlessRelisted

-----------------------------------------------------------------------------
(* The live graph and the hidden one, where ids are not variants of another. *)

\* An id whose family is as it was, or larger, is as well known as before.
LEMMA TiedStays ==
    ASSUME NEW g \in Maps, NEW h \in Maps, Tied(g),
           \A i \in Id : FamilyOf(g, i) # {} => FamilyOf(h, i) # {},
           SameMarks(g, h), h.edges \subseteq g.edges, h.rels = g.rels
    PROVE  Tied(h)
BY DEF Tied, Known, SameMarks, IsMarked, Maps, Relation

LEMMA CleanAdds ==
    ASSUME NoVariants, NEW g \in Maps, Clean(g), NEW m \in Entity, MayCreate(g, m),
           NEW h, Adds(g, h, m)
    PROVE  Clean(h)
<1>1. \A i \in Id : FamilyOf(g, i) \subseteq FamilyOf(h, i)
  BY DEF Adds, FamilyOf
<1>2. Tied(h)
  BY <1>1, TiedStays DEF Clean, Adds
<1>3. ~IsMarked(g, m.id)
  BY DEF MayCreate, MarkHolds, Entity
<1>4. \A i \in Id : i # m.id => FamilyOf(h, i) = FamilyOf(g, i)
  BY DEF Adds, FamilyOf
<1>5. Apart(h)
  BY <1>3, <1>4 DEF Clean, Apart, Adds, SameMarks, IsMarked
<1> QED
  BY <1>2, <1>5 DEF Clean

LEMMA CleanLinks ==
    ASSUME NEW g \in Maps, Clean(g), NEW e \in Relation, NEW h, Links(g, h, e), Admits(g, e),
           FamilyOf(g, e.from) # {}, FamilyOf(g, e.to) # {}
    PROVE  Clean(h)
<1>1. \A i \in Id : FamilyOf(h, i) = FamilyOf(g, i) /\ h.at[i] = g.at[i] /\ h.rels[i] = g.rels[i]
  BY DEF Links, FamilyOf, SameMarks
<1>2. \A f \in h.edges : /\ f.from # f.to /\ f.from \in Id /\ f.to \in Id
                         /\ FamilyOf(g, f.from) # {} /\ FamilyOf(g, f.to) # {}
  BY DEF Links, Clean, Tied, Admits, Maps, Relation
<1>3. \A i \in Id : \A f \in g.rels[i] : f.from \in Id /\ f.to \in Id
  BY DEF Maps, Relation
<1> QED
  BY <1>1, <1>2, <1>3 DEF Clean, Apart, Tied, Known, IsMarked

LEMMA CleanUnlinks ==
    ASSUME NEW g \in Maps, Clean(g), NEW e, NEW h, Unlinks(g, h, e)
    PROVE  Clean(h)
<1>1. \A i \in Id : FamilyOf(h, i) = FamilyOf(g, i)
  BY DEF Unlinks, FamilyOf
<1>2. Tied(h)
  BY <1>1, TiedStays DEF Clean, Unlinks
<1> QED
  BY <1>1, <1>2 DEF Clean, Apart, Unlinks, SameMarks, IsMarked

LEMMA CleanClears ==
    ASSUME NEW g \in Maps, Clean(g), NEW S \in SUBSET Id, NEW h, Clears(g, h, S)
    PROVE  Clean(h)
<1>1. /\ \A i \in Id : i \notin S => FamilyOf(h, i) = FamilyOf(g, i)
      /\ \A i \in S : FamilyOf(h, i) = {}
  BY DEF Clears, Others, FamilyOf
<1>2. \A e \in h.edges : /\ e \in g.edges /\ e.from \in Id /\ e.to \in Id
                         /\ e.from \notin S /\ e.to \notin S
  BY DEF Clears, Off, Clear, Maps, Relation
<1>3. \A i \in Id : \A e \in h.rels[i] : /\ e \in g.rels[i] /\ e.from \in Id /\ e.to \in Id
                                         /\ e.from \notin S /\ e.to \notin S
  BY DEF Clears, Off, Clear, Maps, Relation
<1>4. \A i \in Id : h.at[i] = g.at[i]
  BY DEF Clears, SameMarks
<1>5. Apart(h)
  BY <1>1, <1>4 DEF Clean, Apart, IsMarked
<1>6. Tied(h)
  BY <1>1, <1>2, <1>3, <1>4 DEF Clean, Tied, Known, IsMarked
<1> QED
  BY <1>5, <1>6 DEF Clean

\* Under the assumption a new name is not in use.
LEMMA RenameFree ==
    ASSUME NoVariants, NEW g \in Maps, NEW o \in Id, NEW n \in Id, MayRename(g, o, n)
    PROVE  o # n /\ FamilyOf(g, n) = {} /\ ~IsMarked(g, n) /\ FamilyOf(g, o) # {}
BY DEF MayRename, Taken, NoVariants

LEMMA CleanRekeys ==
    ASSUME NoVariants, NEW g \in Maps, Clean(g), NEW o \in Id, NEW n \in Id, MayRename(g, o, n),
           NEW h, Rekeys(g, h, o, n)
    PROVE  Clean(h)
<1>1. o # n /\ FamilyOf(g, n) = {} /\ ~IsMarked(g, n) /\ FamilyOf(g, o) # {}
  BY RenameFree
<1>2. h.live = Others(g.live, {o}) \cup NewRows(g.live, o, n)
  BY <1>1 DEF Rekeys
<1>3. \A m \in NewRows(g.live, o, n) : m.id = n
  BY DEF NewRows, Maps, Entity
<1>4. NewRows(g.live, o, n) # {}
  BY <1>1 DEF NewRows, FamilyOf
<1>5. /\ \A i \in Id \ {o, n} : FamilyOf(h, i) = FamilyOf(g, i)
      /\ FamilyOf(h, o) = {} /\ FamilyOf(h, n) # {}
  BY <1>1, <1>2, <1>3, <1>4 DEF FamilyOf, Others
<1>6. \A i \in Id : h.at[i] = g.at[i]
  BY DEF Rekeys, SameMarks
<1>7. Apart(h)
  BY <1>1, <1>5, <1>6 DEF Clean, Apart, IsMarked
<1>8. ASSUME NEW e \in h.edges
      PROVE  e.from # e.to /\ FamilyOf(h, e.from) # {} /\ FamilyOf(h, e.to) # {}
  <2>1. PICK f \in g.edges : e = [f EXCEPT !.from = NewId(@, o, n), !.to = NewId(@, o, n)]
    BY DEF Rekeys, NewEdges
  <2>2. f \in Relation
    BY DEF Maps
  <2>3. /\ e.from = NewId(f.from, o, n) /\ e.to = NewId(f.to, o, n)
        /\ f.from \in Id /\ f.to \in Id
    BY <2>1, <2>2 DEF Relation
  <2>4. /\ f.from # f.to /\ FamilyOf(g, f.from) # {} /\ FamilyOf(g, f.to) # {}
    BY DEF Clean, Tied
  <2> QED
    BY <1>1, <1>5, <2>3, <2>4 DEF NewId
<1>9. ASSUME NEW i \in Id, NEW e \in h.rels[i]
      PROVE  On(e, i) /\ e.from # e.to /\ Known(h, e.from) /\ Known(h, e.to)
  <2>1. e \in g.rels[i] /\ e.from # o /\ e.to # o /\ e.from \in Id /\ e.to \in Id
    BY DEF Rekeys, Off, Clear, Maps, Relation
  <2>2. On(e, i) /\ e.from # e.to /\ Known(g, e.from) /\ Known(g, e.to)
    BY <2>1 DEF Clean, Tied
  <2> QED
    BY <1>5, <1>6, <2>1, <2>2 DEF Known, IsMarked
<1> QED
  BY <1>7, <1>8, <1>9 DEF Clean, Tied

LEMMA CleanMarks ==
    ASSUME NEW g \in Maps, Clean(g), NEW S \in SUBSET Id, NEW t \in Nat \ {0},
           NEW h, Marks(g, h, S, t)
    PROVE  Clean(h)
<1>1. /\ \A i \in Id : i \notin S => FamilyOf(h, i) = FamilyOf(g, i)
      /\ \A i \in S : FamilyOf(h, i) = {}
  BY DEF Marks, Others, FamilyOf
<1>2. \A i \in Id : /\ i \in S => IsMarked(h, i)
                    /\ i \notin S => (IsMarked(h, i) <=> IsMarked(g, i)) /\ h.rels[i] = g.rels[i]
  BY DEF Marks, SameMark, IsMarked
<1>3. Apart(h)
  BY <1>1, <1>2 DEF Clean, Apart
<1>4. \A i \in Id : Known(g, i) => Known(h, i)
  BY <1>1, <1>2 DEF Known
<1>5. ASSUME NEW e \in h.edges
      PROVE  e.from # e.to /\ FamilyOf(h, e.from) # {} /\ FamilyOf(h, e.to) # {}
  BY <1>1 DEF Clean, Tied, Marks, Off, Clear, Maps, Relation
<1>6. ASSUME NEW i \in Id, NEW e \in h.rels[i]
      PROVE  On(e, i) /\ e.from # e.to /\ Known(h, e.from) /\ Known(h, e.to)
  <2>1. e \in Relation /\ e.from \in Id /\ e.to \in Id
    BY DEF Marks, Maps, Relation
  <2>2. On(e, i) /\ e.from # e.to /\ Known(g, e.from) /\ Known(g, e.to)
    <3>1. CASE i \in S
      BY <3>1 DEF Marks, Incident, Clean, Tied, Known
    <3>2. CASE i \notin S
      BY <1>2, <3>2 DEF Clean, Tied
    <3> QED
      BY <3>1, <3>2
  <2> QED
    BY <1>4, <2>1, <2>2
<1> QED
  BY <1>3, <1>5, <1>6 DEF Clean, Tied

LEMMA CleanUnmarks ==
    ASSUME NEW g \in Maps, Hides(g), Clean(g), NEW R \in SUBSET MarkedIds(g),
           NEW h, Unmarks(g, h, R)
    PROVE  Clean(h)
<1>1. /\ \A i \in Id : i \notin R => FamilyOf(h, i) = FamilyOf(g, i)
      /\ \A i \in R : g.ents[i] # {} /\ g.ents[i] \subseteq FamilyOf(h, i)
  BY DEF Unmarks, FamilyOf, Hides, MarkedIds
<1>2. \A i \in Id : /\ i \in R => ~IsMarked(h, i)
                    /\ i \notin R => (IsMarked(h, i) <=> IsMarked(g, i))
  BY DEF Unmarks, IsMarked
<1>3. Apart(h)
  BY <1>1, <1>2 DEF Clean, Apart
<1>4. \A i \in Id : /\ Known(g, i) => Known(h, i)
                    /\ Known(g, i) /\ ~StaysMarked(g, R, i) => FamilyOf(h, i) # {}
  BY <1>1, <1>2 DEF Known, StaysMarked
<1>5. R \in SUBSET Id
  BY DEF MarkedIds
<1>6. ASSUME NEW e \in Freed(g, R)
      PROVE  /\ e.from \in Id /\ e.to \in Id /\ e.from # e.to
             /\ Known(g, e.from) /\ Known(g, e.to)
  BY <1>5 DEF Freed, Clean, Tied, Maps, Relation
<1>7. ASSUME NEW e \in h.edges
      PROVE  e.from # e.to /\ FamilyOf(h, e.from) # {} /\ FamilyOf(h, e.to) # {}
  <2>1. CASE e \in g.edges
    <3>1. e.from \in Id /\ e.to \in Id
      BY <2>1 DEF Maps, Relation
    <3>2. \A i \in Id : FamilyOf(g, i) # {} => FamilyOf(h, i) # {}
      BY <1>1
    <3> QED
      BY <2>1, <3>1, <3>2 DEF Clean, Tied
  <2>2. CASE e \in Back(g, R)
    BY <1>4, <1>6, <2>2 DEF Back
  <2> QED
    BY <2>1, <2>2 DEF Unmarks
<1>8. ASSUME NEW i \in Id, NEW e \in h.rels[i]
      PROVE  On(e, i) /\ e.from # e.to /\ Known(h, e.from) /\ Known(h, e.to)
  <2>1. CASE e \in g.rels[i]
    <3>1. e.from \in Id /\ e.to \in Id
      BY <2>1 DEF Maps, Relation
    <3> QED
      BY <1>4, <2>1, <3>1 DEF Clean, Tied
  <2>2. CASE e \in MovedTo(g, R, i)
    BY <1>4, <1>6, <2>2 DEF MovedTo
  <2>3. i \notin R
    BY DEF Unmarks
  <2> QED
    BY <2>1, <2>2, <2>3 DEF Unmarks
<1> QED
  BY <1>3, <1>7, <1>8 DEF Clean, Tied

LEMMA CleanPurges ==
    ASSUME NEW g \in Maps, Clean(g), NEW i \in Id, NEW h, Purges(g, h, i)
    PROVE  Clean(h)
<1>1. \A j \in Id : FamilyOf(h, j) = FamilyOf(g, j)
  BY DEF Purges, SameLive, FamilyOf
<1>2. \A j \in Id : /\ IsMarked(h, j) => IsMarked(g, j)
                    /\ j # i /\ IsMarked(g, j) => IsMarked(h, j)
  BY DEF Purges, IsMarked
<1>3. Apart(h)
  BY <1>1, <1>2 DEF Clean, Apart
<1>4. ASSUME NEW e \in h.edges
      PROVE  e.from # e.to /\ FamilyOf(h, e.from) # {} /\ FamilyOf(h, e.to) # {}
  BY <1>1 DEF Clean, Tied, Purges, SameLive, Maps, Relation
<1>5. ASSUME NEW j \in Id, NEW e \in h.rels[j]
      PROVE  On(e, j) /\ e.from # e.to /\ Known(h, e.from) /\ Known(h, e.to)
  <2>1. e \in g.rels[j] /\ e.from # i /\ e.to # i /\ e.from \in Id /\ e.to \in Id
    BY DEF Purges, Off, Clear, Maps, Relation
  <2>2. On(e, j) /\ e.from # e.to /\ Known(g, e.from) /\ Known(g, e.to)
    BY <2>1 DEF Clean, Tied
  <2> QED
    BY <1>1, <1>2, <2>1, <2>2 DEF Known
<1> QED
  BY <1>3, <1>4, <1>5 DEF Clean, Tied

LEMMA MarkedWithMarked ==
    ASSUME NEW i \in Id, MayRestore(i)
    PROVE  MarkedWith(i) \cup {i} \in SUBSET MarkedIds(maps)
BY DEF MayRestore, MarkedWith, MarkedIds

LEMMA CleanStep ==
    ASSUME NoVariants, WindowInv, Clean(maps), [Next]_vars
    PROVE  Clean(maps')
<1>1. TypeOK /\ Hides(maps) /\ maps \in Maps /\ now \in Nat \ {0}
  BY DEF WindowInv, TypeOK
<1>2. CASE Wrote
  <2>1. CASE \E m \in Entity : MayCreate(maps, m) /\ Adds(maps, maps', m)
    BY <1>1, <2>1, CleanAdds
  <2>2. CASE \E e \in Relation : /\ FamilyOf(maps, e.from) # {} /\ FamilyOf(maps, e.to) # {}
                                 /\ Admits(maps, e) /\ Links(maps, maps', e)
    BY <1>1, <2>2, CleanLinks
  <2>3. CASE \E e \in Relation : Unlinks(maps, maps', e)
    BY <1>1, <2>3, CleanUnlinks
  <2>4. CASE \E S \in SUBSET Id : Clears(maps, maps', S)
    BY <1>1, <2>4, CleanClears
  <2>5. CASE \E o, n \in Id : MayRename(maps, o, n) /\ Rekeys(maps, maps', o, n)
    BY <1>1, <2>5, CleanRekeys
  <2>6. CASE \E i \in Id : /\ MayRestore(i)
                           /\ \E R \in SUBSET (MarkedWith(i) \cup {i}) : Unmarks(maps, maps', R)
    <3>1. PICK R \in SUBSET MarkedIds(maps) : Unmarks(maps, maps', R)
      BY <2>6, MarkedWithMarked
    <3> QED
      BY <1>1, <3>1, CleanUnmarks
  <2> QED
    BY <1>2, <2>1, <2>2, <2>3, <2>4, <2>5, <2>6 DEF Wrote
<1>3. CASE \E i \in Id, u \in User, S \in SUBSET Id : SoftDeleted(i, u, S)
  <2>1. PICK i \in Id, u \in User, S \in SUBSET Id : SoftDeleted(i, u, S)
    BY <1>3
  <2> QED
    BY <1>1, <2>1, CleanMarks DEF SoftDeleted
<1>4. CASE \E p \in pending : Purge(p)
  <2>1. PICK p \in pending : PurgeOf(p.id) /\ p.id \in Id
    BY <1>1, <1>4, PurgeShape
  <2> QED
    BY <1>1, <2>1, CleanPurges DEF PurgeOf
<1>5. CASE Idle
  BY <1>5 DEF Idle
<1> QED
  BY <1>1, <1>2, <1>3, <1>4, <1>5, StepShapes

LEMMA CleanInit ==
    ASSUME Init
    PROVE  Clean(maps)
BY DEF Init, Empty, Clean, Apart, Tied, FamilyOf, IsMarked

-----------------------------------------------------------------------------
(* Ownership. *)

LEMMA OwnershipFewer ==
    ASSUME NEW g, NEW h, Ownership(g), h.edges \subseteq g.edges
    PROVE  Ownership(h)
BY DEF Ownership

LEMMA OwnershipOneMore ==
    ASSUME NEW g, NEW h, Ownership(g), NEW e, Admits(g, e), h.edges = g.edges \cup {e}
    PROVE  Ownership(h)
BY DEF Ownership, Admits

LEMMA OwnershipRekeys ==
    ASSUME NoVariants, NEW g \in Maps, Clean(g), Ownership(g),
           NEW o \in Id, NEW n \in Id, MayRename(g, o, n), NEW h, Rekeys(g, h, o, n)
    PROVE  Ownership(h)
<1>1. FamilyOf(g, n) = {}
  BY RenameFree
<1>2. \A f \in g.edges : f.from # n /\ f.to # n
  BY <1>1 DEF Clean, Tied
<1>3. ASSUME NEW e \in h.edges
      PROVE  \E f \in g.edges : e.from = NewId(f.from, o, n) /\ e.to = NewId(f.to, o, n)
  <2>1. PICK f \in g.edges : e = [f EXCEPT !.from = NewId(@, o, n), !.to = NewId(@, o, n)]
    BY DEF Rekeys, NewEdges
  <2>2. f \in Relation
    BY DEF Maps
  <2> QED
    BY <2>1, <2>2 DEF Relation
<1>4. ASSUME NEW e \in h.edges, NEW f \in h.edges
      PROVE  (e.to = f.to => e.from = f.from) /\ e.to # f.from
  <2>1. PICK x \in g.edges : e.from = NewId(x.from, o, n) /\ e.to = NewId(x.to, o, n)
    BY <1>3
  <2>2. PICK y \in g.edges : f.from = NewId(y.from, o, n) /\ f.to = NewId(y.to, o, n)
    BY <1>3
  <2>3. (x.to = y.to => x.from = y.from) /\ x.to # y.from
    BY DEF Ownership
  <2> QED
    BY <1>2, <2>1, <2>2, <2>3 DEF NewId
<1> QED
  BY <1>4 DEF Ownership

\* An edge that a restore brings back is admitted by the edges that were live:
\* either the check has found so, or both its ends were marked, and no live edge
\* touches those.
LEMMA BackIsAdmitted ==
    ASSUME TypeOK, Clean(maps), NEW i \in Id, MayRestore(i),
           NEW R \in SUBSET (MarkedWith(i) \cup {i}), NEW e \in Back(maps, R)
    PROVE  Admits(maps, e)
<1>1. R \in SUBSET MarkedIds(maps) /\ MarkedWith(i) \cup {i} \in SUBSET MarkedIds(maps)
  BY MarkedWithMarked
<1>2. PICK j \in R : e \in maps.rels[j]
  BY DEF Back, Freed
<1>3. j \in Id /\ IsMarked(maps, j) /\ On(e, j) /\ e.from # e.to /\ e.from \in Id /\ e.to \in Id
  BY <1>1, <1>2 DEF MarkedIds, Clean, Tied, TypeOK, Maps, Relation
<1>4. ~StaysMarked(maps, R, e.from) /\ ~StaysMarked(maps, R, e.to)
  BY DEF Back
<1>5. CASE IsMarked(maps, e.from) /\ IsMarked(maps, e.to)
  <2>1. FamilyOf(maps, e.from) = {} /\ FamilyOf(maps, e.to) = {}
    BY <1>3, <1>5 DEF Clean, Apart
  <2>2. \A f \in maps.edges : FamilyOf(maps, f.from) # {} /\ FamilyOf(maps, f.to) # {}
    BY DEF Clean, Tied
  <2> QED
    BY <1>3, <2>1, <2>2 DEF Admits
<1>6. CASE ~IsMarked(maps, FarEnd(e, j))
  <2>1. FarEnd(e, j) \notin MarkedWith(i) \cup {i}
    BY <1>1, <1>6 DEF MarkedIds
  <2>2. e \in Revived(MarkedWith(i) \cup {i})
    BY <1>2, <1>3, <1>6, <2>1 DEF Revived
  <2> QED
    BY <2>2 DEF MayRestore
<1> QED
  BY <1>3, <1>5, <1>6 DEF FarEnd, On

LEMMA OwnershipUnmarks ==
    ASSUME TypeOK, Clean(maps), Ownership(maps), ~Ownership(maps'), NEW i \in Id, MayRestore(i),
           NEW R \in SUBSET (MarkedWith(i) \cup {i}), Unmarks(maps, maps', R)
    PROVE  /\ MarkedIds(maps') \subseteq MarkedIds(maps) /\ MarkedIds(maps') # MarkedIds(maps)
           /\ \E e, f \in maps'.edges \ maps.edges : e # f
<1>1. maps'.edges = maps.edges \cup Back(maps, R)
  BY DEF Unmarks
<1>2. PICK e \in Back(maps, R) : e \notin maps.edges
  BY <1>1, OwnershipFewer
<1>3. maps'.edges # maps.edges \cup {e}
  BY <1>2, BackIsAdmitted, OwnershipOneMore
<1>4. \E f \in Back(maps, R) : f \notin maps.edges /\ f # e
  BY <1>1, <1>2, <1>3
<1>5. R \in SUBSET MarkedIds(maps) /\ R # {}
  BY <1>2, MarkedWithMarked DEF Back, Freed
<1>6. /\ \A j \in R : j \in MarkedIds(maps) /\ j \notin MarkedIds(maps')
      /\ \A j \in Id \ R : j \in MarkedIds(maps') => j \in MarkedIds(maps)
  BY <1>5 DEF Unmarks, MarkedIds, IsMarked
<1>7. MarkedIds(maps') \subseteq Id
  BY DEF MarkedIds
<1> QED
  BY <1>1, <1>2, <1>4, <1>5, <1>6, <1>7

\* Where ids are no variants of each other, ownership breaks only in a restore
\* that brings back two hidden edges: creating, deleting, renaming, purging and
\* restores of one edge keep it, wherever they were cut short.
THEOREM OwnershipBreaksInPairs ==
    ASSUME NoVariants
    PROVE  Spec => OnlyPairedEdgesBreakOwnership
<1>1. ASSUME WindowInv, Clean(maps), [Next]_vars, Ownership(maps), ~Ownership(maps')
      PROVE  /\ MarkedIds(maps') \subseteq MarkedIds(maps) /\ MarkedIds(maps') # MarkedIds(maps)
             /\ \E e, f \in maps'.edges \ maps.edges : e # f
  <2>1. TypeOK /\ maps \in Maps
    BY <1>1 DEF WindowInv, TypeOK
  <2>2. ~(maps'.edges \subseteq maps.edges)
    BY <1>1, OwnershipFewer
  <2>3. ~\E i \in Id, u \in User, S \in SUBSET Id : SoftDeleted(i, u, S)
    BY <2>2 DEF SoftDeleted, Marks, Off
  <2>4. ~\E p \in pending : Purge(p)
    BY <2>1, <2>2, PurgeShape DEF PurgeOf, Purges, SameLive
  <2>5. Wrote
    BY <1>1, <2>1, <2>2, <2>3, <2>4, StepShapes DEF Idle
  <2>6. ~\E e \in Relation : Admits(maps, e) /\ Links(maps, maps', e)
    BY <1>1, OwnershipOneMore DEF Links
  <2>7. ~\E o, n \in Id : MayRename(maps, o, n) /\ Rekeys(maps, maps', o, n)
    BY <1>1, <2>1, OwnershipRekeys
  <2>8. \E i \in Id : /\ MayRestore(i)
                      /\ \E R \in SUBSET (MarkedWith(i) \cup {i}) : Unmarks(maps, maps', R)
    BY <2>2, <2>5, <2>6, <2>7 DEF Wrote, Adds, Unlinks, Clears, Off
  <2> QED
    BY <1>1, <2>1, <2>8, OwnershipUnmarks
<1>2. WindowInv /\ Clean(maps) /\ [Next]_vars =>
        [Ownership(maps) /\ ~Ownership(maps') =>
           /\ MarkedIds(maps') \subseteq MarkedIds(maps) /\ MarkedIds(maps') # MarkedIds(maps)
           /\ \E e, f \in maps'.edges \ maps.edges : e # f]_vars
  BY <1>1
<1>3. Init => Clean(maps)
  BY CleanInit
<1>4. WindowInv /\ Clean(maps) /\ [Next]_vars => Clean(maps)'
  BY CleanStep
<1> QED
  BY <1>2, <1>3, <1>4, WindowAlways, PTL DEF Spec, OnlyPairedEdgesBreakOwnership

-----------------------------------------------------------------------------
(* What a restore brings back. *)

\* A hidden edge stays with the mark of its source while both ends are marked.
HoldsOn ==
    \A i \in Id : \A e \in maps.rels[i] :
        e.from = i /\ IsMarked(maps', i) /\ IsMarked(maps', e.to) => e \in maps'.rels[i]

\* No family with S in it that is live takes a hidden edge of two marked ends.
LEMMA HoldsOnCleared ==
    ASSUME maps \in Maps, Clean(maps), SameMarks(maps, maps'), NEW S \in SUBSET Id,
           \A j \in S : FamilyOf(maps, j) # {},
           \A j \in Id : maps'.rels[j] = Off(maps.rels[j], S)
    PROVE  HoldsOn
<1>1. \A j \in Id : IsMarked(maps', j) => j \notin S
  BY DEF Clean, Apart, SameMarks, IsMarked
<1>2. \A i \in Id : \A e \in maps.rels[i] : e.to \in Id
  BY DEF Maps, Relation
<1> QED
  BY <1>1, <1>2 DEF HoldsOn, Off, Clear

LEMMA HoldsOnWrote ==
    ASSUME maps \in Maps, Clean(maps), Wrote
    PROVE  HoldsOn
<1>1. CASE maps'.rels = maps.rels
  BY <1>1 DEF HoldsOn
<1>2. CASE \E S \in SUBSET Id : (\A j \in S : FamilyOf(maps, j) # {}) /\ Clears(maps, maps', S)
  BY <1>2, HoldsOnCleared DEF Clears
<1>3. CASE \E o, n \in Id : MayRename(maps, o, n) /\ Rekeys(maps, maps', o, n)
  <2>1. PICK o \in Id, n \in Id : MayRename(maps, o, n) /\ Rekeys(maps, maps', o, n)
    BY <1>3
  <2>2. {o} \in SUBSET Id /\ \A j \in {o} : FamilyOf(maps, j) # {}
    BY <2>1 DEF MayRename
  <2> QED
    BY <2>1, <2>2, HoldsOnCleared DEF Rekeys
<1>4. CASE \E R : Unmarks(maps, maps', R)
  <2>1. PICK R : Unmarks(maps, maps', R)
    BY <1>4
  <2>2. \A j \in Id : IsMarked(maps', j) => maps.rels[j] \subseteq maps'.rels[j]
    BY <2>1 DEF Unmarks, IsMarked
  <2> QED
    BY <2>2 DEF HoldsOn
<1> QED
  BY <1>1, <1>2, <1>3, <1>4 DEF Wrote, Adds, Links, Unlinks

LEMMA HoldsOnPurged ==
    ASSUME maps \in Maps, NEW i \in Id, PurgeOf(i)
    PROVE  HoldsOn
<1>1. CASE UNCHANGED maps
  BY <1>1 DEF HoldsOn
<1>2. CASE Purges(maps, maps', i)
  <2>1. ~IsMarked(maps', i)
    BY <1>2 DEF Purges, IsMarked
  <2>2. \A j \in Id \ {i} : maps'.rels[j] = Off(maps.rels[j], {i})
    BY <1>2 DEF Purges
  <2> QED
    BY <2>1, <2>2 DEF HoldsOn, Off, Clear
<1> QED
  BY <1>1, <1>2 DEF PurgeOf

LEMMA TookStays ==
    ASSUME TypeOK, TookInv, Rest, HoldsOn, \A i \in Id : maps'.at[i] \in {maps.at[i], 0}
    PROVE  TookInv'
<1>1. took' = StillTaken(took)
      /\ by' = [i \in Id |-> IF IsMarked(maps', i) THEN by[i] ELSE Nobody]
  BY DEF Rest, Keep
<1>2. ASSUME NEW i \in Id, NEW j \in took'[i]
      PROVE  /\ i # j /\ IsMarked(maps', i) /\ IsMarked(maps', j)
             /\ by'[j] = by'[i] /\ maps'.at[j] = maps'.at[i]
             /\ \E e \in maps'.rels[i] : e.from = i /\ e.to = j
  <2>1. IsMarked(maps', i) /\ IsMarked(maps', j) /\ j \in took[i] /\ j \in Id
    BY <1>1 DEF StillTaken, MarkedIds
  <2>2. /\ i # j /\ by[j] = by[i] /\ maps.at[j] = maps.at[i]
        /\ \E e \in maps.rels[i] : e.from = i /\ e.to = j
    BY <2>1 DEF TookInv
  <2>3. by'[j] = by'[i] /\ maps'.at[j] = maps'.at[i]
    BY <1>1, <2>1, <2>2 DEF IsMarked
  <2>4. \E e \in maps'.rels[i] : e.from = i /\ e.to = j
    BY <2>1, <2>2 DEF HoldsOn
  <2> QED
    BY <2>1, <2>2, <2>3, <2>4
<1> QED
  BY <1>2 DEF TookInv

LEMMA TookSoftDeleted ==
    ASSUME TypeOK, Clean(maps), TookInv,
           NEW i \in Id, NEW u \in User, NEW S \in SUBSET Id, SoftDeleted(i, u, S)
    PROVE  TookInv'
<1> DEFINE deleter == [j \in Id |-> IF j \in S \cup {i} THEN u ELSE by[j]]
           t == [took EXCEPT ![i] = S]
<1>1. /\ Marks(maps, maps', S \cup {i}, now) /\ maps'.rels[i] = Incident(maps, i)
      /\ S \in SUBSET OwnedBy(maps, i) /\ FamilyOf(maps, i) # {}
      /\ took' = StillTaken(t)
      /\ by' = [j \in Id |-> IF IsMarked(maps', j) THEN deleter[j] ELSE Nobody]
  BY DEF SoftDeleted, Keep
<1>2. /\ \A j \in S \cup {i} : deleter[j] = u
      /\ \A j \in Id \ (S \cup {i}) : deleter[j] = by[j]
      /\ t[i] = S /\ \A j \in Id \ {i} : t[j] = took[j]
  BY DEF TypeOK
<1> HIDE DEF deleter, t
<1>3. ASSUME NEW k \in Id, NEW j \in took'[k]
      PROVE  /\ k # j /\ IsMarked(maps', k) /\ IsMarked(maps', j)
             /\ by'[j] = by'[k] /\ maps'.at[j] = maps'.at[k]
             /\ \E e \in maps'.rels[k] : e.from = k /\ e.to = j
  <2>1. IsMarked(maps', k) /\ IsMarked(maps', j) /\ j \in t[k] /\ j \in Id
    BY <1>1 DEF StillTaken, MarkedIds
  <2>2. by'[j] = deleter[j] /\ by'[k] = deleter[k]
    BY <1>1, <2>1
  <2>3. CASE k = i
    <3>1. j \in S /\ j # i /\ \E e \in maps.edges : e.from = i /\ e.to = j
      BY <1>1, <1>2, <2>1, <2>3 DEF OwnedBy
    <3>2. \E e \in maps'.rels[k] : e.from = k /\ e.to = j
      BY <1>1, <2>3, <3>1 DEF Incident, On
    <3>3. maps'.at[j] = maps'.at[k]
      BY <1>1, <2>3, <3>1 DEF Marks
    <3> QED
      BY <1>2, <2>1, <2>2, <2>3, <3>1, <3>2, <3>3
  <2>4. CASE k # i
    <3>1. /\ k # j /\ IsMarked(maps, k) /\ IsMarked(maps, j)
          /\ by[j] = by[k] /\ maps.at[j] = maps.at[k]
          /\ \E e \in maps.rels[k] : e.from = k /\ e.to = j
      BY <1>2, <2>1, <2>4 DEF TookInv
    <3>2. k \notin S \cup {i} /\ j \notin S \cup {i}
      BY <1>1, <2>1, <3>1, OwnedByIds DEF Clean, Apart
    <3>3. SameMark(maps, maps', k) /\ SameMark(maps, maps', j)
      BY <1>1, <2>1, <3>2 DEF Marks
    <3>4. by'[j] = by'[k]
      BY <1>2, <2>1, <2>2, <3>1, <3>2
    <3> QED
      BY <2>1, <3>1, <3>3, <3>4 DEF SameMark
  <2> QED
    BY <2>3, <2>4
<1> QED
  BY <1>3 DEF TookInv

LEMMA TookStep ==
    ASSUME WindowInv, Clean(maps), TookInv, [Next]_vars
    PROVE  TookInv'
<1>1. TypeOK /\ Hides(maps) /\ maps \in Maps
  BY DEF WindowInv, TypeOK
<1>2. CASE Wrote /\ Rest
  BY <1>1, <1>2, WroteMaps, HoldsOnWrote, TookStays
<1>3. CASE \E i \in Id, u \in User, S \in SUBSET Id : SoftDeleted(i, u, S)
  BY <1>1, <1>3, TookSoftDeleted
<1>4. CASE \E p \in pending : Purge(p)
  <2>1. PICK p \in pending : PurgeOf(p.id) /\ p.id \in Id
    BY <1>1, <1>4, PurgeShape
  <2> QED
    BY <1>1, <2>1, PurgeMaps, HoldsOnPurged, TookStays DEF PurgeOf
<1>5. CASE Idle
  BY <1>5 DEF Idle, TookInv
<1> QED
  BY <1>1, <1>2, <1>3, <1>4, <1>5, StepShapes

LEMMA RestoreBrings ==
    ASSUME WindowInv, TookInv, NEW i \in Id, Restore(i), NEW j \in took[i]
    PROVE  FamilyOf(maps', j) # {}
<1> DEFINE R == MarkedWith(i) \cup {i}
<1>1. maps \in Maps /\ j \in Id /\ Hides(maps)
  BY DEF WindowInv, TypeOK
<1>2. MayRestore(i) /\ maps' = UnmarkAll(maps, R)
  BY DEF Restore, Writes
<1>3. R \in SUBSET Id
  BY DEF MarkedWith, MarkedIds
<1>4. /\ i # j /\ IsMarked(maps, j) /\ by[j] = by[i] /\ maps.at[j] = maps.at[i]
      /\ \E e \in maps.rels[i] : e.from = i /\ e.to = j
  BY DEF TookInv
<1>5. Together(i, j)
  BY <1>1, <1>4, SoftDeleteAssumption DEF Together, Maps
<1>6. j \in R
  BY <1>1, <1>4, <1>5 DEF MarkedWith, MarkedIds
<1> HIDE DEF R
<1>7. Unmarks(maps, maps', R)
  BY <1>1, <1>2, <1>3, UnmarkAllIs
<1>8. maps.ents[j] # {} /\ \A m \in maps.ents[j] : m.id = j
  BY <1>1, <1>4 DEF Hides
<1>9. maps.ents[j] \subseteq maps'.live
  BY <1>6, <1>7 DEF Unmarks
<1> QED
  BY <1>8, <1>9 DEF FamilyOf

\* Where ids are no variants of each other, a restore of an owner brings back
\* every entity that its soft delete took along and nothing has touched since:
\* whatever was restored, deleted, renamed or purged around it, and wherever the
\* delete was cut short.
THEOREM OwnedEntitiesComeBack ==
    ASSUME NoVariants
    PROVE  Spec => OwnedComeBack
<1>1. WindowInv /\ TookInv /\ [Next]_vars =>
        [\A i \in Id : Restore(i) => \A j \in took[i] : FamilyOf(maps', j) # {}]_vars
  BY RestoreBrings
<1>2. Init => Clean(maps)
  BY CleanInit
<1>3. WindowInv /\ Clean(maps) /\ [Next]_vars => Clean(maps)'
  BY CleanStep
<1>4. Init => TookInv
  BY DEF Init, TookInv
<1>5. WindowInv /\ Clean(maps) /\ TookInv /\ [Next]_vars => TookInv'
  BY TookStep
<1> QED
  BY <1>1, <1>2, <1>3, <1>4, <1>5, WindowAlways, PTL DEF Spec, OwnedComeBack

=============================================================================
