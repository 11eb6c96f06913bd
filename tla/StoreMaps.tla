------------------------------ MODULE StoreMaps ------------------------------
(***************************************************************************)
(* The maps of the memory store of rela (internal/store/memstore), which   *)
(* is also the plainest statement of the store contract: live entities and *)
(* relations, and the families taken out of them by soft deletes.  A       *)
(* method holds txMu and mu throughout, so what it does is a function of   *)
(* the maps: the operators below give when a method succeeds and the maps  *)
(* it leaves.  MemStore makes each an action; SoftDelete composes them, as *)
(* a transaction (Tx) does in one step.                                    *)
(*                                                                         *)
(* Abstracted as in FsStore: contents, versions, mentions, attachments,    *)
(* relation types (one), events, and calls that change nothing.            *)
(***************************************************************************)
EXTENDS Naturals

CONSTANTS
    Id,         \* bare entity ids
    Face,       \* faces an entity may have
    Implicit,   \* the implicit face
    Type,       \* entity types
    Fold,       \* storeutil.FoldID
    RenameTo    \* the new ids callers ask for, for each id

ASSUME MapsAssumption ==
    /\ Implicit \in Face
    /\ Fold \in [Id -> Id]
    /\ RenameTo \in [Id -> SUBSET Id]

Entity == [id: Id, face: Face, type: Type]
Relation == [from: Id, face: Face, to: Id]

\* The maps.  A family taken out by a mark is ents[i] with the relations it
\* holds, rels[i]; at[i] is when, and 0 when i is not marked.
Maps == [live: SUBSET Entity, edges: SUBSET Relation, at: [Id -> Nat],
         ents: [Id -> SUBSET Entity], rels: [Id -> SUBSET Relation]]

-----------------------------------------------------------------------------
(* Reading the maps g. *)

FamilyOf(g, i) == {m \in g.live : m.id = i}
On(e, i) == e.from = i \/ e.to = i
Incident(g, i) == {e \in g.edges : On(e, i)}
FarEnd(e, i) == IF e.from = i THEN e.to ELSE e.from
IsMarked(g, i) == g.at[i] # 0

\* idTaken and markedTaken, which skip the family of except.
Taken(g, i, except) ==
    \E j \in Id : /\ FamilyOf(g, j) # {} \/ IsMarked(g, j)
                  /\ Fold[j] = Fold[i]
                  /\ \A x \in except : Fold[j] # Fold[x]

MarkHolds(g, i) == \E j \in Id : IsMarked(g, j) /\ Fold[j] = Fold[i]

\* dropMarkedEdges: the hidden edges on i, whoever holds them.
DropHidden(g, i) == [j \in Id |-> {e \in g.rels[j] : ~On(e, i)}]

\* createEntity: a named face takes the type of a sibling, any one of them;
\* the implicit face needs the id to be free.
MayCreate(g, m) ==
    /\ ~MarkHolds(g, m.id)
    /\ IF m.face = Implicit
         THEN ~Taken(g, m.id, {})
         ELSE /\ \A k \in FamilyOf(g, m.id) : k.face # m.face
              /\ \/ FamilyOf(g, m.id) = {}
                 \/ \E k \in FamilyOf(g, m.id) : k.type = m.type

MayRename(g, o, n) ==
    FamilyOf(g, o) # {} /\ n \in RenameTo[o] /\ ~Taken(g, n, {o})

-----------------------------------------------------------------------------
(* What the methods make of the maps. *)

\* MemStore.New.
Empty == [live |-> {}, edges |-> {}, at |-> [i \in Id |-> 0],
          ents |-> [i \in Id |-> {}], rels |-> [i \in Id |-> {}]]

WithEntity(g, m) == [g EXCEPT !.live = @ \cup {m}]
WithEdge(g, e) == [g EXCEPT !.edges = @ \cup {e}]

\* deleteEntity with cascade.
Without(g, i) ==
    [g EXCEPT !.live = @ \ FamilyOf(g, i),
              !.edges = @ \ Incident(g, i),
              !.rels = DropHidden(g, i)]

\* The edges that go with a face: those on its tail, or all with the last.
FaceEdges(g, m) ==
    {e \in g.edges : \/ e.from = m.id /\ e.face = m.face /\ m.face # Implicit
                     \/ FamilyOf(g, m.id) = {m} /\ On(e, m.id)}

WithoutFace(g, m) ==
    [g EXCEPT !.live = @ \ {m}, !.edges = @ \ FaceEdges(g, m)]

\* rekeyFamily stores a face under its new key and removes the old key.
Rekeyed(g, o, n) ==
    [g EXCEPT !.live = (@ \cup {[m EXCEPT !.id = n] : m \in FamilyOf(g, o)})
                         \ FamilyOf(g, o),
              !.edges = {[e EXCEPT !.from = IF @ = o THEN n ELSE @,
                                   !.to = IF @ = o THEN n ELSE @] : e \in @},
              !.rels = DropHidden(g, o)]

\* Every face and every incident edge, under one mark of time t.
Marked(g, i, t) ==
    [g EXCEPT !.live = @ \ FamilyOf(g, i),
              !.edges = @ \ Incident(g, i),
              !.at[i] = t,
              !.ents[i] = FamilyOf(g, i),
              !.rels[i] = Incident(g, i)]

\* An edge whose other end is still marked stays hidden and moves there.
MovesOn(g, e, i) == FarEnd(e, i) # i /\ IsMarked(g, FarEnd(e, i))

Unmarked(g, i) ==
    LET moving == {e \in g.rels[i] : MovesOn(g, e, i)} IN
    [g EXCEPT !.live = @ \cup g.ents[i],
              !.edges = @ \cup (g.rels[i] \ moving),
              !.at[i] = 0,
              !.ents[i] = {},
              !.rels = [j \in Id |-> IF j = i THEN {}
                                     ELSE @[j] \cup {e \in moving : FarEnd(e, i) = j}]]

\* The rows go, and the hidden edges on i that other families hold.
Purged(g, i) ==
    [g EXCEPT !.at[i] = 0, !.ents[i] = {},
              !.rels = [j \in Id |-> IF j = i THEN {} ELSE DropHidden(g, i)[j]]]

=============================================================================
