------------------------ MODULE FsStoreContractProofs ------------------------
(***************************************************************************)
(* The file store implements the memory store, for every value of the      *)
(* constants: each of its operations is the operation of the same name on  *)
(* MemStore's maps, and without faults nothing else is a step.             *)
(***************************************************************************)
EXTENDS FsStoreContract, FsStoreProofs

NoFaults == MaxFaults = 0

\* What the proof of a step knows: the invariants of the file store.
Known == MarkInv /\ FilesHold /\ faults = 0

-----------------------------------------------------------------------------
(* Reading: the index is the maps, so the same questions get the same        *)
(* answers.                                                                  *)

LEMMA SameFamilies ==
    ASSUME NEW i
    PROVE  /\ Memory!FamilyOf(Index, i) = Family(i)
           /\ Memory!Incident(Index, i) = Related(i)
           /\ Memory!IsMarked(Index, i) = (markedAt[i] # 0)
BY DEF Memory!FamilyOf, Memory!Incident, Memory!IsMarked, Memory!On, Index, Family,
   Related, Touches

\* dropMarkedEdges of both stores.
LEMMA SameHidden ==
    ASSUME TypeOK, NEW i \in Id
    PROVE  Memory!DropHidden(Index, i) = [j \in Id |-> famEdges[j] \ Hidden(i)]
<1>1. \A j \in Id : {e \in famEdges[j] : ~Memory!On(e, i)} = famEdges[j] \ Hidden(i)
  BY DEF Memory!On, Hidden, Touches
<1> QED
  BY <1>1 DEF Memory!DropHidden, Index

\* idTaken and markedTaken are one question of the memory store.
LEMMA SameTaken ==
    ASSUME TypeOK, NEW i \in Id, NEW skip \in SUBSET Id
    PROVE  /\ Memory!Taken(Index, i, skip) <=> IdTaken(i, skip) \/ MarkedTaken(i, skip)
           /\ Memory!MarkHolds(Index, i) <=> MarkedTaken(i, {})
<1>1. ASSUME IdTaken(i, skip) PROVE Memory!Taken(Index, i, skip)
  <2>1. PICK m \in live : Fold[m.id] = Fold[i] /\ \A s \in skip : Fold[m.id] # Fold[s]
    BY <1>1 DEF IdTaken
  <2>2. m.id \in Id /\ m \in Memory!FamilyOf(Index, m.id)
    BY DEF TypeOK, Meta, Memory!FamilyOf, Index
  <2> QED
    BY <2>1, <2>2 DEF Memory!Taken
<1>2. ASSUME Memory!Taken(Index, i, skip) PROVE IdTaken(i, skip) \/ MarkedTaken(i, skip)
  <2>1. PICK j \in Id : /\ Family(j) # {} \/ markedAt[j] # 0
                        /\ Fold[j] = Fold[i]
                        /\ \A s \in skip : Fold[j] # Fold[s]
    BY <1>2, SameFamilies DEF Memory!Taken
  <2> QED
    BY <2>1 DEF IdTaken, MarkedTaken, Family
<1>3. MarkedTaken(i, skip) => Memory!Taken(Index, i, skip)
  BY SameFamilies DEF MarkedTaken, Memory!Taken
<1>4. Memory!MarkHolds(Index, i) <=> MarkedTaken(i, {})
  BY SameFamilies DEF Memory!MarkHolds, MarkedTaken
<1> QED
  BY <1>1, <1>2, <1>3, <1>4

\* The index is a value of the maps, field by field.
LEMMA IndexIsMaps ==
    ASSUME TypeOK
    PROVE  /\ Index \in Memory!Maps
           /\ Index.live = live /\ Index.edges = edges
           /\ Index.at = markedAt /\ Index.ents = famEnts /\ Index.rels = famEdges
BY DEF Index, TypeOK, Memory!Maps, Memory!Entity, Memory!Relation, Meta, Edge

LEMMA SameTypes == Memory!Entity = Meta /\ Memory!Relation = Edge
BY DEF Memory!Entity, Memory!Relation, Meta, Edge

LEMMA MapsEqual ==
    ASSUME NEW g \in Memory!Maps, NEW h \in Memory!Maps,
           g.live = h.live, g.edges = h.edges,
           g.at = h.at, g.ents = h.ents, g.rels = h.rels
    PROVE  g = h
BY DEF Memory!Maps

\* Maps that have what a step gives the index are the index after it.
LEMMA NextIndexIs ==
    ASSUME TypeOK', NEW h \in Memory!Maps,
           h.live = live', h.edges = edges',
           h.at = markedAt', h.ents = famEnts', h.rels = famEdges'
    PROVE  Index' = h
<1>1. TypeOK' => Index' \in Memory!Maps
  BY DEF Index, TypeOK, Memory!Maps, Memory!Entity, Memory!Relation, Meta, Edge
<1>2. /\ Index'.live = live' /\ Index'.edges = edges'
      /\ Index'.at = markedAt' /\ Index'.ents = famEnts' /\ Index'.rels = famEdges'
  BY DEF Index
<1> QED
  BY <1>1, <1>2, MapsEqual

-----------------------------------------------------------------------------
(* One lemma for each operation.                                             *)

LEMMA CreateEntityMaps ==
    ASSUME TypeOK, NEW m \in Meta, CreateEntity(m)
    PROVE  Memory!CreateEntity(m)
<1>1. m.id \in Id
  BY DEF Meta
<1>2. Memory!MayCreate(Index, m)
  BY <1>1, SameTaken, SameFamilies DEF Memory!MayCreate, CreateEntity
<1>3. Memory!Becomes(Memory!WithEntity(Index, m))
  BY DEF Memory!Becomes, Memory!WithEntity, Index, CreateEntity, rest
<1> QED
  BY <1>2, <1>3 DEF Memory!CreateEntity

LEMMA UpdateEntityMaps ==
    ASSUME TypeOK, NEW m \in Meta, NEW k \in Meta, UpdateEntity(m, k)
    PROVE  \E t \in Type : Memory!UpdateEntity(m, t)
<1>1. PICK t \in Type : k = [m EXCEPT !.type = t]
  BY DEF UpdateEntity, Retypes
<1>2. m \in Index.live /\ m.face = Implicit
  BY DEF UpdateEntity, Retypes, Index
<1>3. Memory!Becomes([Index EXCEPT !.live = (@ \ {m}) \cup {[m EXCEPT !.type = t]}])
  <2>1. /\ live' = (live \ {m}) \cup {[m EXCEPT !.type = t]}
        /\ UNCHANGED <<edges, markedAt, famEnts, famEdges, clock>>
    BY <1>1 DEF UpdateEntity, rest
  <2> QED
    BY <2>1 DEF Memory!Becomes, Index
<1> QED
  BY <1>2, <1>3 DEF Memory!UpdateEntity

LEMMA DeleteFamilyMaps ==
    ASSUME TypeOK, TypeOK', NEW i \in Id, NEW cascade \in BOOLEAN, DeleteFamily(i, cascade)
    PROVE  Memory!DeleteFamily(i, cascade)
<1> DEFINE h == Memory!Without(Index, i)
           L == live \ Family(i)
           E == edges \ Related(i)
           R == [j \in Id |-> famEdges[j] \ Hidden(i)]
<1>1. h = [Index EXCEPT !.live = L, !.edges = E, !.rels = R]
  BY IndexIsMaps, SameFamilies, SameHidden DEF Memory!Without
<1>2. L \in SUBSET Meta /\ E \in SUBSET Edge /\ R \in [Id -> SUBSET Edge]
  BY DEF TypeOK
<1>3. live' = L /\ edges' = E /\ famEdges' = R /\ UNCHANGED <<markedAt, famEnts, clock>>
  BY DEF DeleteFamily, rest
<1> HIDE DEF L, E, R, h
<1>4. /\ h \in Memory!Maps
      /\ h.live = L /\ h.edges = E /\ h.at = markedAt /\ h.ents = famEnts /\ h.rels = R
  BY <1>1, <1>2, IndexIsMaps, SameTypes DEF Memory!Maps
<1>5. Index' = h
  BY <1>3, <1>4, NextIndexIs
<1> QED
  BY <1>3, <1>5, SameFamilies DEF Memory!DeleteFamily, Memory!Becomes, DeleteFamily, h

LEMMA DeleteFaceMaps ==
    ASSUME TypeOK, TypeOK', NEW m \in Meta, DeleteFace(m)
    PROVE  Memory!DeleteFace(m)
<1> DEFINE h == Memory!WithoutFace(Index, m)
           L == live \ {m}
           E == edges \ OwnedEdges(m)
<1>1. Memory!FaceEdges(Index, m) = OwnedEdges(m)
  BY SameFamilies DEF Memory!FaceEdges, OwnedEdges, IsLastFace, Memory!On, Touches, Index
<1>2. h = [Index EXCEPT !.live = L, !.edges = E]
  BY <1>1, IndexIsMaps DEF Memory!WithoutFace
<1>3. L \in SUBSET Meta /\ E \in SUBSET Edge
  BY DEF TypeOK
<1>4. live' = L /\ edges' = E /\ UNCHANGED <<markedAt, famEnts, famEdges, clock>>
  BY DEF DeleteFace
<1> HIDE DEF L, E, h
<1>5. /\ h \in Memory!Maps
      /\ h.live = L /\ h.edges = E /\ h.at = markedAt /\ h.ents = famEnts /\ h.rels = famEdges
  BY <1>2, <1>3, IndexIsMaps, SameTypes DEF Memory!Maps
<1>6. Index' = h
  BY <1>4, <1>5, NextIndexIs
<1> QED
  BY <1>4, <1>6, IndexIsMaps DEF Memory!DeleteFace, Memory!Becomes, DeleteFace, h

\* The memory store stores a face under its new key and then removes the old
\* one, and goes over all relations; the keys differ, and a relation that does
\* not touch the id stays as it is.
LEMMA RenameFamilyMaps ==
    ASSUME TypeOK, TypeOK', NoSelfRename, NEW o \in Id, NEW n \in Id, RenameFamily(o, n)
    PROVE  Memory!RenameFamily(o, n)
<1> DEFINE Rekeyed(e) == [e EXCEPT !.from = IF @ = o THEN n ELSE @,
                                   !.to = IF @ = o THEN n ELSE @]
<1>1. MayRename(o, n) /\ Rekey(o, n)
  BY DEF RenameFamily
<1>2. Memory!MayRename(Index, o, n)
  BY <1>1, SameTaken, SameFamilies DEF Memory!MayRename, MayRename
<1>3. (live \cup Renamed(Family(o), n)) \ Family(o)
        = (live \ Family(o)) \cup Renamed(Family(o), n)
  BY <1>1, RenamedApart
<1>4. \A e \in edges \ Related(o) : Rekeyed(e) = e
  BY DEF Related, Touches, TypeOK, Edge
<1>5. {Rekeyed(e) : e \in edges} = (edges \ Related(o)) \cup Moved(Related(o), o, n)
  <2>1. {Rekeyed(e) : e \in edges}
          = {Rekeyed(e) : e \in edges \ Related(o)} \cup {Rekeyed(e) : e \in Related(o)}
    BY DEF Related
  <2>2. {Rekeyed(e) : e \in edges \ Related(o)} = edges \ Related(o)
    BY <1>4
  <2> QED
    BY <2>1, <2>2 DEF Moved
<1> DEFINE h == Memory!Rekeyed(Index, o, n)
           L == (live \cup Renamed(Family(o), n)) \ Family(o)
           E == {Rekeyed(e) : e \in edges}
           R == [j \in Id |-> famEdges[j] \ Hidden(o)]
<1>6. h = [Index EXCEPT !.live = L, !.edges = E, !.rels = R]
  BY IndexIsMaps, SameFamilies, SameHidden DEF Memory!Rekeyed, Renamed
<1>7. live' = L /\ edges' = E /\ famEdges' = R /\ UNCHANGED <<markedAt, famEnts, clock>>
  BY <1>1, <1>3, <1>5 DEF RenameFamily, Rekey, rest
<1>8. L \in SUBSET Meta /\ E \in SUBSET Edge /\ R \in [Id -> SUBSET Edge]
  <2>1. Family(o) \subseteq Meta /\ Related(o) \subseteq Edge
    BY DEF Family, Related, TypeOK
  <2>2. Renamed(Family(o), n) \subseteq Meta /\ Moved(Related(o), o, n) \subseteq Edge
    BY <2>1, RenamedType, MovedType
  <2>3. E \in SUBSET Edge
    BY <1>5, <2>2 DEF TypeOK
  <2> QED
    BY <2>2, <2>3 DEF TypeOK
<1> HIDE DEF L, E, R, h
<1>9. /\ h \in Memory!Maps
      /\ h.live = L /\ h.edges = E /\ h.at = markedAt /\ h.ents = famEnts /\ h.rels = R
  BY <1>6, <1>8, IndexIsMaps, SameTypes DEF Memory!Maps
<1>10. Index' = h
  BY <1>7, <1>9, NextIndexIs
<1> QED
  BY <1>2, <1>7, <1>10 DEF Memory!RenameFamily, Memory!Becomes, h

LEMMA RelationMaps ==
    ASSUME TypeOK, NEW e \in Edge
    PROVE  /\ CreateRelation(e) => Memory!CreateRelation(e)
           /\ DeleteRelation(e) => Memory!DeleteRelation(e)
           /\ CheckEndpoints(e) => UNCHANGED <<Index, clock>>
<1>1. CreateRelation(e) => Memory!CreateRelation(e)
  BY DEF CreateRelation, Memory!CreateRelation, Memory!Becomes, Memory!WithEdge, Index, rest
<1>2. DeleteRelation(e) => Memory!DeleteRelation(e)
  BY SMTT(30) DEF DeleteRelation, Memory!DeleteRelation, Memory!Becomes, Index, rest
<1>3. CheckEndpoints(e) => UNCHANGED <<Index, clock>>
  BY DEF CheckEndpoints, Index, rest
<1> QED
  BY <1>1, <1>2, <1>3

LEMMA MarkDeletedMaps ==
    ASSUME TypeOK, TypeOK', NEW i \in Id, MarkDeleted(i)
    PROVE  Memory!MarkDeleted(i)
<1> DEFINE h == Memory!Marked(Index, i, clock')
           L == live \ Family(i)
           E == edges \ Related(i)
           A == [markedAt EXCEPT ![i] = clock']
           F == [famEnts EXCEPT ![i] = Family(i)]
           R == [famEdges EXCEPT ![i] = Related(i)]
<1>1. h
        = [Index EXCEPT !.live = L, !.edges = E, !.at = A, !.ents = F, !.rels = R]
  BY IndexIsMaps, SameFamilies DEF Memory!Marked, Memory!Maps
<1>2. clock' \in Nat /\ Family(i) \in SUBSET Meta /\ Related(i) \in SUBSET Edge
  BY DEF MarkDeleted, Family, Related, TypeOK
<1>3. /\ L \in SUBSET Meta /\ E \in SUBSET Edge /\ A \in [Id -> Nat]
      /\ F \in [Id -> SUBSET Meta] /\ R \in [Id -> SUBSET Edge]
  BY <1>2 DEF TypeOK
<1>4. live' = L /\ edges' = E /\ markedAt' = A /\ famEnts' = F /\ famEdges' = R
  BY DEF MarkDeleted
<1> HIDE DEF L, E, A, F, R, h
<1>5. /\ h \in Memory!Maps
      /\ h.live = L /\ h.edges = E /\ h.at = A /\ h.ents = F /\ h.rels = R
  BY <1>1, <1>3, IndexIsMaps, SameTypes DEF Memory!Maps
<1>6. Index' = h
  BY <1>4, <1>5, NextIndexIs
<1> QED
  BY <1>6, SameFamilies DEF Memory!MarkDeleted, MarkDeleted, h

\* Both stores pass a hidden edge on to the mark of its other end.
LEMMA UnmarkMaps ==
    ASSUME TypeOK, TypeOK', NEW i \in Id, Unmark(i)
    PROVE  Memory!Unmark(i)
<1> DEFINE moving == {e \in famEdges[i] : StaysHidden(e, i)}
<1>1. \A e : /\ Memory!MovesOn(Index, e, i) <=> StaysHidden(e, i)
             /\ Memory!FarEnd(e, i) = OtherEnd(e, i)
  BY SameFamilies DEF Memory!MovesOn, StaysHidden, Memory!FarEnd, OtherEnd
<1>2. {e \in Index.rels[i] : Memory!MovesOn(Index, e, i)} = moving
  BY <1>1 DEF Index
<1>3. famEdges[i] \ moving = {e \in famEdges[i] : ~StaysHidden(e, i)}
  OBVIOUS
<1>4. \A j \in Id : {e \in moving : Memory!FarEnd(e, i) = j} = PassedOn(i, j)
  BY <1>1 DEF PassedOn
<1> DEFINE h == Memory!Unmarked(Index, i)
           L == live \cup famEnts[i]
           E == edges \cup (famEdges[i] \ moving)
           A == [markedAt EXCEPT ![i] = 0]
           F == [famEnts EXCEPT ![i] = {}]
           R == [j \in Id |-> IF j = i THEN {} ELSE
                    famEdges[j] \cup {e \in moving : Memory!FarEnd(e, i) = j}]
<1>5. h
        = [Index EXCEPT !.live = L, !.edges = E, !.at = A, !.ents = F, !.rels = R]
  BY <1>2, IndexIsMaps DEF Memory!Unmarked, Memory!Maps
<1>6. /\ live' = L /\ edges' = E /\ markedAt' = A /\ famEnts' = F /\ famEdges' = R
      /\ UNCHANGED clock
  BY <1>3, <1>4 DEF Unmark, Restored, Handover, rest
<1>7. /\ L \in SUBSET Meta /\ E \in SUBSET Edge /\ A \in [Id -> Nat]
      /\ F \in [Id -> SUBSET Meta] /\ R \in [Id -> SUBSET Edge]
  BY DEF TypeOK
<1> HIDE DEF L, E, A, F, R, h
<1>8. /\ h \in Memory!Maps
      /\ h.live = L /\ h.edges = E /\ h.at = A /\ h.ents = F /\ h.rels = R
  BY <1>5, <1>7, IndexIsMaps, SameTypes DEF Memory!Maps
<1>9. Index' = h
  BY <1>6, <1>8, NextIndexIs
<1> QED
  BY <1>6, <1>9, SameFamilies DEF Memory!Unmark, Memory!Becomes, Unmark, h

LEMMA PurgeMarkedMaps ==
    ASSUME TypeOK, TypeOK', NEW i \in Id, PurgeMarked(i)
    PROVE  Memory!PurgeMarked(i)
<1> DEFINE h == Memory!Purged(Index, i)
           A == [markedAt EXCEPT ![i] = 0]
           F == [famEnts EXCEPT ![i] = {}]
           R == [j \in Id |-> IF j = i THEN {} ELSE famEdges[j] \ Hidden(i)]
<1>1. \A j \in Id : Memory!DropHidden(Index, i)[j] = famEdges[j] \ Hidden(i)
  BY SameHidden
<1>2. h = [Index EXCEPT !.at = A, !.ents = F, !.rels = R]
  BY <1>1, IndexIsMaps DEF Memory!Purged, Memory!Maps
<1>3. A \in [Id -> Nat] /\ F \in [Id -> SUBSET Meta] /\ R \in [Id -> SUBSET Edge]
  BY DEF TypeOK
<1>4. /\ markedAt' = A /\ famEnts' = F /\ famEdges' = R
      /\ UNCHANGED <<live, edges, clock>>
  BY DEF PurgeMarked, rest
<1> HIDE DEF A, F, R, h
<1>5. /\ h \in Memory!Maps
      /\ h.live = live /\ h.edges = edges /\ h.at = A /\ h.ents = F /\ h.rels = R
  BY <1>2, <1>3, IndexIsMaps, SameTypes DEF Memory!Maps
<1>6. Index' = h
  BY <1>4, <1>5, NextIndexIs
<1> QED
  BY <1>4, <1>6, SameFamilies DEF Memory!PurgeMarked, Memory!Becomes, PurgeMarked, h

-----------------------------------------------------------------------------
(* The steps together.                                                       *)

\* Without faults an operation either does all it was asked for or nothing:
\* the only error paths left are those of a file that is gone, and none is.
LEMMA NothingFails ==
    ASSUME NoFaults, Known, up
    PROVE  /\ \A i \in Id : ~DeleteFamilyFails(i) /\ ~PurgeFails(i)
           /\ \A m \in Meta : ~DeleteFaceFails(m)
           /\ \A m, k \in Meta : ~UpdateEntityFails(m, k)
           /\ \A o, n \in Id : ~RenameLeavesFiles(o, n) /\ ~RenameFails(o, n)
<1>1. ~Fault
  BY DEF Fault, NoFaults, Known
<1>2. \A i \in Id : Family(i) \subseteq entFiles
  BY DEF Known, FilesHold, Family
<1> QED
  BY <1>1, <1>2, ZenonT(30) DEF DeleteFamilyFails, PurgeFails, DeleteFaceFails,
     UpdateEntityFails, RenameLeavesFiles, RenameFails

LEMMA StepImplements ==
    ASSUME NoVariants, NoSelfRename, NoFaults, Known, up,
           [EntityStep \/ RelationStep \/ SoftDeleteStep]_vars
    PROVE  [Memory!Next]_<<Index, clock>>
<1> TypeOK
  BY DEF Known, MarkInv
<1> TypeOK'
  BY TypeStep DEF Next
<1>1. ASSUME NEW m \in Meta, CreateEntity(m) \/ DeleteFace(m) PROVE Memory!Next
  BY <1>1, CreateEntityMaps, DeleteFaceMaps, SameTypes DEF Memory!Next
<1>2. ASSUME NEW m \in Meta, NEW k \in Meta, UpdateEntity(m, k) PROVE Memory!Next
  BY <1>2, UpdateEntityMaps, SameTypes DEF Memory!Next
<1>3. ASSUME NEW i \in Id, NEW cascade \in BOOLEAN, DeleteFamily(i, cascade)
      PROVE  Memory!Next
  BY <1>3, DeleteFamilyMaps DEF Memory!Next
<1>4. ASSUME NEW o \in Id, NEW n \in Id, RenameFamily(o, n) PROVE Memory!Next
  BY <1>4, RenameFamilyMaps DEF Memory!Next
<1>5. CASE EntityStep
  BY <1>1, <1>2, <1>3, <1>4, <1>5, NothingFails DEF EntityStep
<1>6. ASSUME NEW e \in Edge, CreateRelation(e) \/ DeleteRelation(e) PROVE Memory!Next
  BY <1>6, RelationMaps, SameTypes DEF Memory!Next
<1>7. CASE RelationStep
  BY <1>6, <1>7, RelationMaps DEF RelationStep
<1>8. ASSUME NEW i \in Id, MarkDeleted(i) \/ Unmark(i) \/ PurgeMarked(i)
      PROVE  Memory!Next
  BY <1>8, MarkDeletedMaps, UnmarkMaps, PurgeMarkedMaps DEF Memory!Next
<1>9. CASE SoftDeleteStep
  BY <1>8, <1>9, NothingFails DEF SoftDeleteStep
<1>10. CASE UNCHANGED vars
  BY <1>10 DEF vars, memory, rest, Index
<1> QED
  BY <1>5, <1>7, <1>9, <1>10

\* A running store never crashes, and is a file store as FsStore specifies it.
LEMMA RunningKnown ==
    ASSUME NoVariants, NoSelfRename, NoFaults
    PROVE  Running => [](Known /\ up)
<1>1. Init => Known /\ up
  BY TypeInit DEF Init, Known, MarkInv, LiveXorMarked, OwnFaces, FilesHold
<1>2. ASSUME Known, up, [EntityStep \/ RelationStep \/ SoftDeleteStep]_vars
      PROVE  Known' /\ up'
  <2>1. [Next]_vars
    BY <1>2 DEF Next
  <2>2. MarkInv' /\ FilesHold'
    BY <1>2, <2>1, MarkStep, FilesStep DEF Known
  <2>3. ~Fault
    BY <1>2 DEF Fault, NoFaults, Known
  <2>4. UNCHANGED <<up, faults>>
    <3>1. ASSUME NEW m \in Meta, CreateEntity(m) \/ DeleteFace(m)
          PROVE  UNCHANGED <<up, faults>>
      BY <3>1 DEF CreateEntity, DeleteFace, rest
    <3>2. ASSUME NEW m \in Meta, NEW k \in Meta, UpdateEntity(m, k)
          PROVE  UNCHANGED <<up, faults>>
      BY <3>2 DEF UpdateEntity, rest
    <3>3. ASSUME NEW i \in Id, NEW cascade \in BOOLEAN, DeleteFamily(i, cascade)
          PROVE  UNCHANGED <<up, faults>>
      BY <3>3 DEF DeleteFamily, rest
    <3>4. ASSUME NEW o \in Id, NEW n \in Id, RenameFamily(o, n)
          PROVE  UNCHANGED <<up, faults>>
      BY <3>4 DEF RenameFamily, rest
    <3>5. CASE EntityStep
      BY <1>2, <3>1, <3>2, <3>3, <3>4, <3>5, NothingFails DEF EntityStep
    <3>6. CASE RelationStep
      BY <3>6 DEF RelationStep, CheckEndpoints, CreateRelation, DeleteRelation, rest
    <3>7. CASE SoftDeleteStep
      BY <1>2, <3>7, NothingFails
         DEF SoftDeleteStep, MarkDeleted, Unmark, PurgeMarked, rest
    <3>8. CASE UNCHANGED vars
      BY <3>8 DEF vars, memory, rest
    <3> QED
      BY <1>2, <3>5, <3>6, <3>7, <3>8
  <2> QED
    BY <1>2, <2>2, <2>4 DEF Known
<1>3. Known /\ up /\ [EntityStep \/ RelationStep \/ SoftDeleteStep]_vars => (Known /\ up)'
  BY <1>2
<1> QED
  BY <1>1, <1>3, PTL DEF Running

\* The two backends do the same to their maps in every call, whatever ids, faces,
\* types and bounds: the soft-delete hand-over between marks included, which each
\* of them implements on its own.
THEOREM FileStoreImplementsMemoryStore ==
    ASSUME NoVariants, NoSelfRename, NoFaults
    PROVE  Running => ImplementsMemStore
<1>1. Init => Memory!Init
  BY DEF Init, Memory!Init, Memory!Empty, Index
<1>2. Known /\ up /\ [EntityStep \/ RelationStep \/ SoftDeleteStep]_vars
        => [Memory!Next]_<<Index, clock>>
  BY StepImplements
<1> QED
  BY <1>1, <1>2, RunningKnown, PTL DEF Running, ImplementsMemStore, Memory!Spec, Memory!vars

=============================================================================
