--------------------------- MODULE FsStoreProofs ---------------------------
(***************************************************************************)
(* Theorems about FsStore, for every value of its constants.               *)
(***************************************************************************)
EXTENDS FsStore, FiniteSetTheorems, TLAPS

-----------------------------------------------------------------------------
(* Types of the operators the actions are built from. *)

\* A cut of a removal takes only what the removal was to take.
LEMMA CutsBounded ==
    ASSUME NEW H, NEW R, NEW E, NEW c \in DeleteCuts(H, R, E)
    PROVE  c.rels \subseteq H \cup R /\ c.ents \subseteq E
BY DEF DeleteCuts, Cut

LEMMA RenamedType ==
    ASSUME NEW S \in SUBSET Meta, NEW n \in Id
    PROVE  /\ Renamed(S, n) \subseteq Meta
           /\ \A m \in Renamed(S, n) : m.id = n
BY DEF Renamed, Meta

LEMMA MovedType ==
    ASSUME NEW S \in SUBSET Edge, NEW o \in Id, NEW n \in Id
    PROVE  Moved(S, o, n) \subseteq Edge
BY DEF Moved, Edge

\* A cut of a rename writes only under the new id and removes only what the
\* renamed family had.
LEMMA RenameCutsBounded ==
    ASSUME NEW o, NEW n, NEW c \in RenameCuts(o, n)
    PROVE  /\ c.hid \subseteq Hidden(o)
           /\ c.new \subseteq Renamed(Family(o), n)
           /\ c.wrote \subseteq Related(o)
           /\ c.old \subseteq Family(o)
BY DEF RenameCuts, RenameCut

\* What a stopped rename leaves on disk is well typed.
LEMMA RenameFilesType ==
    ASSUME TypeOK, NEW o \in Id, NEW n \in Id, NEW c,
           c.new \subseteq Renamed(Family(o), n), c.wrote \subseteq Related(o),
           RenameFiles(o, n, c)
    PROVE  entFiles' \subseteq Meta /\ relFiles' \subseteq Edge /\ listed' = listed
<1>1. Family(o) \subseteq Meta /\ Related(o) \subseteq Edge
  BY DEF TypeOK, Family, Related
<1>2. Renamed(Family(o), n) \subseteq Meta
  BY <1>1, RenamedType
<1>3. Moved(c.wrote, o, n) \subseteq Edge
  BY <1>1, MovedType
<1> QED
  BY <1>2, <1>3 DEF RenameFiles, TypeOK

\* Every step keeps the types: one step per action, the cuts of the removals
\* and of the renames by the lemmas above.
LEMMA TypeStep ==
    ASSUME TypeOK, [Next]_vars
    PROVE  TypeOK'
<1> USE ConstantsAssumption
<1> \A i \in Id : Family(i) \subseteq Meta /\ Related(i) \subseteq Edge
  BY DEF TypeOK, Family, Related
<1>1. ASSUME NEW m \in Meta, CreateEntity(m) PROVE TypeOK'
  BY <1>1 DEF CreateEntity, TypeOK, rest
<1>2. ASSUME NEW m \in Meta, DeleteFace(m) PROVE TypeOK'
  <2>1. m.id \in Id
    BY DEF Meta
  <2> QED
    BY <1>2, <2>1 DEF DeleteFace, RemoveFiles, Cut, TypeOK
<1>3. ASSUME NEW m \in Meta, DeleteFaceFails(m) PROVE TypeOK'
  BY <1>3 DEF DeleteFaceFails, RemoveFiles, Fault, TypeOK
<1>4. ASSUME NEW m \in Meta, NEW k \in Meta, UpdateEntity(m, k) PROVE TypeOK'
  BY <1>4 DEF UpdateEntity, TypeOK, rest
<1>5. ASSUME NEW m \in Meta, NEW k \in Meta, UpdateEntityFails(m, k) PROVE TypeOK'
  BY <1>5 DEF UpdateEntityFails, Fault, TypeOK, memory
<1>6. ASSUME NEW i \in Id, NEW cascade \in BOOLEAN, DeleteFamily(i, cascade) PROVE TypeOK'
  BY <1>6 DEF DeleteFamily, RemoveFiles, Cut, TypeOK, rest
<1>7. ASSUME NEW i \in Id, DeleteFamilyFails(i) PROVE TypeOK'
  BY <1>7 DEF DeleteFamilyFails, RemoveFiles, Fault, TypeOK
<1>8. ASSUME NEW o \in Id, NEW n \in Id, RenameFamily(o, n) PROVE TypeOK'
  <2> DEFINE c == RenameCut(Hidden(o), Renamed(Family(o), n),
                            Related(o), Related(o), Family(o))
  <2>1. RenameFiles(o, n, c) /\ c.new = Renamed(Family(o), n) /\ c.wrote = Related(o)
    BY <1>8 DEF RenameFamily, RenameCut
  <2>2. entFiles' \subseteq Meta /\ relFiles' \subseteq Edge /\ listed' = listed
    BY <2>1, RenameFilesType
  <2>3. live' \subseteq Meta /\ edges' \subseteq Edge
    BY <1>8, RenamedType, MovedType DEF RenameFamily, Rekey, TypeOK
  <2> QED
    BY <1>8, <2>2, <2>3 DEF RenameFamily, TypeOK, rest
<1>9. ASSUME NEW o \in Id, NEW n \in Id, RenameLeavesFiles(o, n) PROVE TypeOK'
  <2>1. PICK gone \in SUBSET Related(o), old \in SUBSET Family(o) :
          RenameFiles(o, n, RenameCut(Hidden(o), Renamed(Family(o), n),
                                      Related(o), gone, old))
    BY <1>9 DEF RenameLeavesFiles
  <2>2. entFiles' \subseteq Meta /\ relFiles' \subseteq Edge /\ listed' = listed
    BY <2>1, RenameFilesType DEF RenameCut
  <2>3. live' \subseteq Meta /\ edges' \subseteq Edge
    BY <1>9, RenamedType, MovedType DEF RenameLeavesFiles, Rekey, TypeOK
  <2> QED
    BY <1>9, <2>2, <2>3 DEF RenameLeavesFiles, Fault, TypeOK
<1>10. ASSUME NEW o \in Id, NEW n \in Id, RenameFails(o, n) PROVE TypeOK'
  <2>1. PICK c \in RenameCuts(o, n) :
          RenameFiles(o, n, c) /\ famEdges' = [j \in Id |-> famEdges[j] \ c.hid]
    BY <1>10 DEF RenameFails
  <2>2. entFiles' \subseteq Meta /\ relFiles' \subseteq Edge /\ listed' = listed
    BY <2>1, RenameCutsBounded, RenameFilesType
  <2>3. faults' \in Nat
    BY <1>10 DEF RenameFails, Fault, TypeOK
  <2> QED
    BY <1>10, <2>1, <2>2, <2>3 DEF RenameFails, TypeOK
<1>11. ASSUME NEW e \in Edge, CheckEndpoints(e) PROVE TypeOK'
  BY <1>11 DEF CheckEndpoints, TypeOK, disk, rest
<1>12. ASSUME NEW e \in Edge, CreateRelation(e) PROVE TypeOK'
  BY <1>12 DEF CreateRelation, TypeOK, rest
<1>13. ASSUME NEW e \in Edge, DeleteRelation(e) PROVE TypeOK'
  BY <1>13 DEF DeleteRelation, TypeOK, rest
<1>14. ASSUME NEW i \in Id, MarkDeleted(i) PROVE TypeOK'
  BY <1>14 DEF MarkDeleted, Relist, TypeOK
<1>15. ASSUME NEW i \in Id, Unmark(i) PROVE TypeOK'
  BY <1>15 DEF Unmark, Relist, Restored, Handover, PassedOn, TypeOK, rest
<1>16. ASSUME NEW i \in Id, PurgeMarked(i) PROVE TypeOK'
  BY <1>16 DEF PurgeMarked, Relist, TypeOK, rest
<1>17. ASSUME NEW i \in Id, PurgeFails(i) PROVE TypeOK'
  BY <1>17 DEF PurgeFails, RemoveFiles, Fault, TypeOK, memory
<1>18. CASE Crash
  <2>1. entFiles' \subseteq Meta /\ relFiles' \subseteq Edge /\ listed' = listed
    <3>1. CASE UNCHANGED disk
      BY <3>1 DEF disk, TypeOK
    <3>2. ASSUME NEW k \in Meta, entFiles' = entFiles \cup {k},
                 UNCHANGED <<relFiles, listed>>
          PROVE  entFiles' \subseteq Meta /\ relFiles' \subseteq Edge /\ listed' = listed
      BY <3>2 DEF TypeOK
    <3>3. ASSUME NEW c, RemoveFiles(c)
          PROVE  entFiles' \subseteq Meta /\ relFiles' \subseteq Edge /\ listed' = listed
      BY <3>3 DEF RemoveFiles, TypeOK
    <3>4. ASSUME NEW o \in Id, NEW n \in Id, RenameInterrupted(o, n)
          PROVE  entFiles' \subseteq Meta /\ relFiles' \subseteq Edge /\ listed' = listed
      BY <3>4, RenameCutsBounded, RenameFilesType DEF RenameInterrupted
    <3>5. Interrupted
      BY <1>18 DEF Crash
    <3> QED
      BY <3>1, <3>2, <3>3, <3>4, <3>5 DEF Interrupted, PurgeInterrupted
  <2> QED
    BY <1>18, <2>1 DEF Crash, TypeOK, rest
<1>19. CASE Reopen
  <2>1. PICK L \in Scans(entFiles) :
          /\ markedAt' = OpenMarks(L)
          /\ live' = {m \in L : OpenMarks(L)[m.id] = 0}
          /\ famEnts' = [i \in Id |-> {m \in L : m.id = i /\ OpenMarks(L)[i] # 0}]
          /\ famEdges' = [i \in Id |-> {e \in relFiles : HoldsFirst(i, e, OpenMarks(L))}]
    BY <1>19 DEF Reopen
  <2>2. L \subseteq Meta
    BY DEF Scans, TypeOK
  <2>3. markedAt' \in [Id -> Nat]
    BY <2>1 DEF OpenMarks, TypeOK
  <2>4. famEnts' \in [Id -> SUBSET Meta] /\ famEdges' \in [Id -> SUBSET Edge]
    BY <2>1, <2>2 DEF TypeOK
  <2>5. edges' \subseteq Edge /\ live' \subseteq Meta
    BY <1>19, <2>1, <2>2 DEF Reopen, TypeOK
  <2> QED
    BY <1>19, <2>3, <2>4, <2>5 DEF Reopen, disk, rest, TypeOK
<1>20. CASE UNCHANGED vars
  BY <1>20 DEF vars, disk, memory, rest, TypeOK
<1> QED
  BY <1>1, <1>2, <1>3, <1>4, <1>5, <1>6, <1>7, <1>8, <1>9, <1>10, <1>11, <1>12,
     <1>13, <1>14, <1>15, <1>16, <1>17, <1>18, <1>19, <1>20
     DEF Next, EntityStep, RelationStep, SoftDeleteStep

LEMMA TypeInit == Init => TypeOK
BY ConstantsAssumption DEF Init, TypeOK

\* Every state the store reaches is well typed, whatever fails or crashes.
THEOREM TypeCorrect == Spec => []TypeOK
<1>1. Init => TypeOK
  BY TypeInit
<1>2. TypeOK /\ [Next]_vars => TypeOK'
  BY TypeStep
<1> QED
  BY <1>1, <1>2, PTL DEF Spec

-----------------------------------------------------------------------------
(* The list on disk and the marks in memory. *)

\* Hard deletes, renames, creates and updates leave the marks alone.
LEMMA EntityStepKeepsMarks ==
    ASSUME EntityStep
    PROVE  UNCHANGED <<listed, markedAt, famEnts, clock>>
<1>1. ASSUME NEW m \in Meta, CreateEntity(m) \/ DeleteFace(m) \/ DeleteFaceFails(m)
      PROVE  UNCHANGED <<listed, markedAt, famEnts, clock>>
  BY <1>1 DEF CreateEntity, DeleteFace, DeleteFaceFails, RemoveFiles, rest
<1>2. ASSUME NEW m \in Meta, NEW k \in Meta, UpdateEntity(m, k) \/ UpdateEntityFails(m, k)
      PROVE  UNCHANGED <<listed, markedAt, famEnts, clock>>
  BY <1>2 DEF UpdateEntity, UpdateEntityFails, memory, rest
<1>3. ASSUME NEW i \in Id, NEW cascade \in BOOLEAN, DeleteFamily(i, cascade)
      PROVE  UNCHANGED <<listed, markedAt, famEnts, clock>>
  BY <1>3 DEF DeleteFamily, RemoveFiles, rest
<1>4. ASSUME NEW i \in Id, DeleteFamilyFails(i)
      PROVE  UNCHANGED <<listed, markedAt, famEnts, clock>>
  BY <1>4 DEF DeleteFamilyFails, RemoveFiles
<1>5. ASSUME NEW o \in Id, NEW n \in Id,
             RenameFamily(o, n) \/ RenameFails(o, n) \/ RenameLeavesFiles(o, n)
      PROVE  UNCHANGED <<listed, markedAt, famEnts, clock>>
  BY <1>5 DEF RenameFamily, RenameFails, RenameLeavesFiles, RenameFiles, rest
<1> QED
  BY <1>1, <1>2, <1>3, <1>4, <1>5 DEF EntityStep

\* Every write of the list writes the marks the call leaves, and an open takes
\* the times it read.
LEMMA ListStep ==
    ASSUME TypeOK, MarksAreListed, [Next]_vars
    PROVE  MarksAreListed'
<1>1. ASSUME NEW i \in Id, MarkDeleted(i) PROVE MarksAreListed'
  BY <1>1 DEF MarkDeleted, Relist, MarksAreListed
<1>2. ASSUME NEW i \in Id, Unmark(i) PROVE MarksAreListed'
  BY <1>2 DEF Unmark, Relist, MarksAreListed
<1>3. ASSUME NEW i \in Id, PurgeMarked(i) PROVE MarksAreListed'
  BY <1>3 DEF PurgeMarked, Relist, MarksAreListed
<1>4. ASSUME NEW i \in Id, PurgeFails(i) PROVE MarksAreListed'
  BY <1>4 DEF PurgeFails, RemoveFiles, MarksAreListed, memory
<1>5. CASE Crash
  BY <1>5 DEF Crash, MarksAreListed
<1>6. CASE Reopen
  BY <1>6 DEF Reopen, OpenMarks, MarksAreListed, disk
<1>7. CASE UNCHANGED vars
  BY <1>7 DEF vars, disk, memory, MarksAreListed
<1>8. CASE RelationStep
  BY <1>8 DEF RelationStep, CheckEndpoints, CreateRelation, DeleteRelation,
     disk, MarksAreListed
<1>9. CASE EntityStep
  BY <1>9, EntityStepKeepsMarks DEF MarksAreListed
<1> QED
  BY <1>1, <1>2, <1>3, <1>4, <1>5, <1>6, <1>7, <1>8, <1>9
     DEF Next, SoftDeleteStep

\* A soft delete in force is on disk with its time, so no crash loses it.
THEOREM MarksSurvive == Spec => []MarksAreListed
<1>1. Init => MarksAreListed
  BY DEF Init, MarksAreListed
<1>2. TypeOK /\ MarksAreListed /\ [Next]_vars => MarksAreListed'
  BY ListStep
<1> QED
  BY <1>1, <1>2, TypeCorrect, PTL DEF Spec

-----------------------------------------------------------------------------
(* Live and soft-deleted entities are apart.  A family under a mark holds    *)
(* the faces of that id and nothing else; without case variants an id that   *)
(* no mark folds to is not marked.                                           *)

NoVariants == \A i, j \in Id : Fold[i] = Fold[j] => i = j

OwnFaces ==
    \A i \in Id : \A m \in famEnts[i] : m.id = i /\ markedAt[i] # 0

MarkInv == TypeOK /\ LiveXorMarked /\ OwnFaces

\* The id a rename asks for is free of marks: it is the id itself, which is
\* live, or no mark folds to it.
LEMMA RenameTargetUnmarked ==
    ASSUME NoVariants, MarkInv, NEW o \in Id, NEW n \in Id, MayRename(o, n)
    PROVE  markedAt[n] = 0 /\ markedAt[o] = 0
<1>1. markedAt[o] = 0
  BY DEF MayRename, Family, MarkInv, LiveXorMarked
<1>2. markedAt[n] = 0
  BY <1>1 DEF MayRename, MarkedTaken, NoVariants
<1> QED
  BY <1>1, <1>2

LEMMA MarkStep ==
    ASSUME NoVariants, MarkInv, [Next]_vars
    PROVE  MarkInv'
<1> TypeOK /\ LiveXorMarked /\ OwnFaces
  BY DEF MarkInv
<1>1. TypeOK'
  BY TypeStep
<1>2. ASSUME EntityStep PROVE LiveXorMarked' /\ OwnFaces'
  <2>1. OwnFaces'
    BY <1>2, EntityStepKeepsMarks DEF OwnFaces
  <2>2. ASSUME NEW m \in Meta, CreateEntity(m) PROVE LiveXorMarked'
    <3>1. markedAt[m.id] = 0
      BY <2>2 DEF CreateEntity, MarkedTaken, Meta
    <3> QED
      BY <2>2, <3>1 DEF CreateEntity, LiveXorMarked
  <2>3. ASSUME NEW m \in Meta, DeleteFace(m) \/ DeleteFaceFails(m) PROVE LiveXorMarked'
    BY <2>3 DEF DeleteFace, DeleteFaceFails, LiveXorMarked
  <2>4. ASSUME NEW m \in Meta, NEW k \in Meta, UpdateEntity(m, k) PROVE LiveXorMarked'
    <3>1. m \in live /\ k.id = m.id
      BY <2>4 DEF UpdateEntity, Retypes, Meta
    <3> QED
      BY <2>4, <3>1 DEF UpdateEntity, LiveXorMarked
  <2>5. ASSUME NEW m \in Meta, NEW k \in Meta, UpdateEntityFails(m, k) PROVE LiveXorMarked'
    BY <2>5 DEF UpdateEntityFails, memory, LiveXorMarked
  <2>6. ASSUME NEW i \in Id, NEW cascade \in BOOLEAN, DeleteFamily(i, cascade)
        PROVE  LiveXorMarked'
    BY <2>6 DEF DeleteFamily, LiveXorMarked
  <2>7. ASSUME NEW i \in Id, DeleteFamilyFails(i) PROVE LiveXorMarked'
    BY <2>7 DEF DeleteFamilyFails, LiveXorMarked
  <2>8. ASSUME NEW o \in Id, NEW n \in Id,
               RenameFamily(o, n) \/ RenameLeavesFiles(o, n)
        PROVE  LiveXorMarked'
    <3>1. MayRename(o, n) /\ Rekey(o, n) /\ markedAt' = markedAt
      BY <2>8 DEF RenameFamily, RenameLeavesFiles
    <3>2. markedAt[n] = 0
      BY <3>1, RenameTargetUnmarked
    <3>3. Family(o) \subseteq Meta
      BY DEF Family, TypeOK
    <3>4. \A m \in Renamed(Family(o), n) : m.id = n
      BY <3>3, RenamedType
    <3> QED
      BY <3>1, <3>2, <3>4 DEF Rekey, LiveXorMarked
  <2>9. ASSUME NEW o \in Id, NEW n \in Id, RenameFails(o, n) PROVE LiveXorMarked'
    BY <2>9 DEF RenameFails, LiveXorMarked
  <2> QED
    BY <1>2, <2>1, <2>2, <2>3, <2>4, <2>5, <2>6, <2>7, <2>8, <2>9 DEF EntityStep
<1>3. ASSUME RelationStep PROVE LiveXorMarked' /\ OwnFaces'
  BY <1>3 DEF RelationStep, CheckEndpoints, CreateRelation, DeleteRelation,
     LiveXorMarked, OwnFaces
<1>4. ASSUME NEW i \in Id, MarkDeleted(i) PROVE LiveXorMarked' /\ OwnFaces'
  BY <1>4 DEF MarkDeleted, Family, LiveXorMarked, OwnFaces, TypeOK
<1>5. ASSUME NEW i \in Id, Unmark(i) PROVE LiveXorMarked' /\ OwnFaces'
  BY <1>5 DEF Unmark, Restored, LiveXorMarked, OwnFaces, TypeOK
<1>6. ASSUME NEW i \in Id, PurgeMarked(i) PROVE LiveXorMarked' /\ OwnFaces'
  BY <1>6 DEF PurgeMarked, LiveXorMarked, OwnFaces, TypeOK
<1>7. ASSUME NEW i \in Id, PurgeFails(i) PROVE LiveXorMarked' /\ OwnFaces'
  BY <1>7 DEF PurgeFails, memory, LiveXorMarked, OwnFaces
<1>8. ASSUME Crash PROVE LiveXorMarked' /\ OwnFaces'
  BY <1>8 DEF Crash, LiveXorMarked, OwnFaces
<1>9. ASSUME Reopen PROVE LiveXorMarked' /\ OwnFaces'
  <2>1. PICK L \in Scans(entFiles) :
          /\ markedAt' = OpenMarks(L)
          /\ live' = {m \in L : OpenMarks(L)[m.id] = 0}
          /\ famEnts' = [i \in Id |-> {m \in L : m.id = i /\ OpenMarks(L)[i] # 0}]
    BY <1>9 DEF Reopen
  <2> QED
    BY <2>1 DEF LiveXorMarked, OwnFaces
<1>10. ASSUME UNCHANGED vars PROVE LiveXorMarked' /\ OwnFaces'
  BY <1>10 DEF vars, memory, LiveXorMarked, OwnFaces
<1> QED
  BY <1>1, <1>2, <1>3, <1>4, <1>5, <1>6, <1>7, <1>8, <1>9, <1>10
     DEF Next, SoftDeleteStep, MarkInv

LEMMA MarkInvHolds ==
    ASSUME NoVariants
    PROVE  Spec => []MarkInv
<1>1. Init => MarkInv
  BY TypeInit DEF Init, MarkInv, LiveXorMarked, OwnFaces
<1>2. MarkInv /\ [Next]_vars => MarkInv'
  BY MarkStep
<1> QED
  BY <1>1, <1>2, PTL DEF Spec

\* No entity is both live and soft-deleted, in a project without case variants.
THEOREM NeverLiveAndMarked ==
    ASSUME NoVariants
    PROVE  Spec => []LiveXorMarked
<1>1. MarkInv => LiveXorMarked
  BY DEF MarkInv
<1> QED
  BY <1>1, MarkInvHolds, PTL

-----------------------------------------------------------------------------
(* What may happen to a soft-deleted entity. *)

\* A purge that dropped its mark removed every hidden face, and a restore
\* brought every one back, whatever failed or crashed before.
THEOREM MarksEndWhole == Spec => MarkEndsWhole
<1> DEFINE Whole == \A i \in Id :
              up /\ up' /\ markedAt[i] # 0 /\ markedAt'[i] = 0 =>
                famEnts[i] \subseteq live' \/ famEnts[i] \cap entFiles' = {}
<1>1. TypeOK /\ [Next]_vars => Whole
  <2> SUFFICES ASSUME TypeOK, [Next]_vars, NEW i \in Id,
                      up, up', markedAt[i] # 0, markedAt'[i] = 0
               PROVE  famEnts[i] \subseteq live' \/ famEnts[i] \cap entFiles' = {}
    OBVIOUS
  <2>1. ASSUME NEW j \in Id, MarkDeleted(j) PROVE FALSE
    BY <2>1 DEF MarkDeleted, TypeOK
  <2>2. ASSUME NEW j \in Id, Unmark(j) PROVE famEnts[i] \subseteq live'
    BY <2>2 DEF Unmark, Restored, TypeOK
  <2>3. ASSUME NEW j \in Id, PurgeMarked(j) PROVE famEnts[i] \cap entFiles' = {}
    BY <2>3 DEF PurgeMarked, TypeOK
  <2>4. ASSUME NEW j \in Id, PurgeFails(j) PROVE FALSE
    BY <2>4 DEF PurgeFails, memory
  <2>5. ~EntityStep
    BY EntityStepKeepsMarks
  <2>6. ~RelationStep
    BY DEF RelationStep, CheckEndpoints, CreateRelation, DeleteRelation
  <2>7. ~Crash /\ ~Reopen /\ ~UNCHANGED vars
    BY DEF Crash, Reopen, vars, memory
  <2> QED
    BY <2>1, <2>2, <2>3, <2>4, <2>5, <2>6, <2>7 DEF Next, SoftDeleteStep
<1>2. TypeOK /\ [Next]_vars => [Whole]_vars
  BY <1>1
<1> QED
  BY <1>2, TypeCorrect, PTL DEF Spec, MarkEndsWhole

\* A hard delete, an update or a rename removes only files of live faces, also
\* when it fails half-way.
LEMMA EntityStepTakesLive ==
    ASSUME EntityStep
    PROVE  entFiles \ entFiles' \subseteq live
<1>1. ASSUME NEW m \in Meta, CreateEntity(m) \/ DeleteFace(m) \/ DeleteFaceFails(m)
      PROVE  entFiles \ entFiles' \subseteq live
  <2>1. \A c \in DeleteCuts({}, OwnedEdges(m), {}) : c.ents = {}
    BY CutsBounded
  <2> QED
    BY <1>1, <2>1 DEF CreateEntity, DeleteFace, DeleteFaceFails, RemoveFiles, Cut
<1>2. ASSUME NEW m \in Meta, NEW k \in Meta, UpdateEntity(m, k) \/ UpdateEntityFails(m, k)
      PROVE  entFiles \ entFiles' \subseteq live
  BY <1>2 DEF UpdateEntity, UpdateEntityFails, Retypes
<1>3. ASSUME NEW i \in Id, NEW cascade \in BOOLEAN, DeleteFamily(i, cascade)
      PROVE  entFiles \ entFiles' \subseteq live
  BY <1>3 DEF DeleteFamily, RemoveFiles, Cut, Family
<1>4. ASSUME NEW i \in Id, DeleteFamilyFails(i)
      PROVE  entFiles \ entFiles' \subseteq live
  BY <1>4, CutsBounded DEF DeleteFamilyFails, RemoveFiles, Family
<1>5. ASSUME NEW o \in Id, NEW n \in Id, RenameFamily(o, n) \/ RenameLeavesFiles(o, n)
      PROVE  entFiles \ entFiles' \subseteq live
  BY <1>5 DEF RenameFamily, RenameLeavesFiles, RenameFiles, RenameCut, Family
<1>6. ASSUME NEW o \in Id, NEW n \in Id, RenameFails(o, n)
      PROVE  entFiles \ entFiles' \subseteq live
  BY <1>6, RenameCutsBounded DEF RenameFails, RenameFiles, Family
<1> QED
  BY <1>1, <1>2, <1>3, <1>4, <1>5, <1>6 DEF EntityStep

\* A crash in the middle of anything but a purge does so too.
LEMMA CrashTakesLive ==
    ASSUME Crash, \A i \in Id : ~PurgeInterrupted(i)
    PROVE  entFiles \ entFiles' \subseteq live
<1>1. Interrupted
  BY DEF Crash
<1>2. ASSUME NEW o \in Id, NEW n \in Id, RenameInterrupted(o, n)
      PROVE  entFiles \ entFiles' \subseteq live
  BY <1>2, RenameCutsBounded DEF RenameInterrupted, RenameFiles, Family
<1>3. ASSUME NEW i \in Id, NEW c \in DeleteCuts(Hidden(i), Related(i), Family(i)),
             RemoveFiles(c)
      PROVE  entFiles \ entFiles' \subseteq live
  BY <1>3, CutsBounded DEF RemoveFiles, Family
<1>4. ASSUME NEW m, NEW c \in DeleteCuts({}, OwnedEdges(m), {}), RemoveFiles(c)
      PROVE  entFiles \ entFiles' \subseteq live
  <2>1. c.ents = {}
    BY CutsBounded
  <2> QED
    BY <1>4, <2>1 DEF RemoveFiles
<1> QED
  BY <1>1, <1>2, <1>3, <1>4 DEF Interrupted, disk

\* A soft-deleted entity stays restorable: no call but its own purge takes a
\* file of it, because every other removal takes live faces.
THEOREM OnlyPurgeRemoves ==
    ASSUME NoVariants
    PROVE  Spec => OnlyPurgeTakesHidden
<1> DEFINE Taken == \A i \in Id :
              (famEnts[i] \cap entFiles) \ entFiles' # {} =>
                \/ PurgeMarked(i) \/ PurgeFails(i)
                \/ ~up' /\ PurgeInterrupted(i)
<1>1. MarkInv /\ [Next]_vars => Taken
  <2> SUFFICES ASSUME MarkInv, [Next]_vars, NEW i \in Id,
                      NEW m \in famEnts[i] \cap entFiles, m \notin entFiles'
               PROVE  \/ PurgeMarked(i) \/ PurgeFails(i)
                      \/ ~up' /\ PurgeInterrupted(i)
    OBVIOUS
  <2>1. m.id = i /\ m \notin live
    BY DEF MarkInv, OwnFaces, LiveXorMarked
  <2>2. \A j \in Id : m \in famEnts[j] => j = i
    BY <2>1 DEF MarkInv, OwnFaces
  <2>3. ~EntityStep
    BY <2>1, EntityStepTakesLive
  <2>4. ~RelationStep
    BY DEF RelationStep, CheckEndpoints, CreateRelation, DeleteRelation, disk
  <2>5. ASSUME NEW j \in Id, PurgeMarked(j) \/ PurgeFails(j) PROVE j = i
    <3>1. m \in famEnts[j]
      BY <2>5, CutsBounded DEF PurgeMarked, PurgeFails, RemoveFiles
    <3> QED
      BY <3>1, <2>2
  <2>6. ASSUME NEW j \in Id, PurgeInterrupted(j) PROVE j = i
    <3>1. m \in famEnts[j]
      BY <2>6, CutsBounded DEF PurgeInterrupted, RemoveFiles
    <3> QED
      BY <3>1, <2>2
  <2>7. CASE Crash
    <3>1. PICK j \in Id : PurgeInterrupted(j)
      BY <2>1, <2>7, CrashTakesLive
    <3> QED
      BY <2>6, <2>7, <3>1 DEF Crash
  <2>8. ~Reopen /\ ~UNCHANGED vars
    BY DEF Reopen, vars, disk
  <2>9. \A j \in Id : ~MarkDeleted(j) /\ ~Unmark(j)
    BY DEF MarkDeleted, Unmark
  <2> QED
    BY <2>3, <2>4, <2>5, <2>7, <2>8, <2>9 DEF Next, SoftDeleteStep
<1>2. MarkInv /\ [Next]_vars => [Taken]_vars
  BY <1>1
<1> QED
  BY <1>2, MarkInvHolds, PTL DEF Spec, OnlyPurgeTakesHidden

-----------------------------------------------------------------------------
(* Hidden edges, when no relation is created on a stale endpoint check.  The *)
(* order of the marks is the order of their times, and the list an open      *)
(* reads has it too: no two entries carry one time.                          *)

Serial == MaxInFlight = 0

TimesInOrder ==
    /\ \A i \in Id : listed[i] <= clock
    /\ \A i, j \in Id : listed[i] = listed[j] /\ listed[i] # 0 => i = j

EdgeInv ==
    /\ MarkInv /\ MarksAreListed /\ TimesInOrder
    /\ checked = {} /\ LiveEdgesAvoidMarks /\ HeldByFirstMark

LEMMA TimesStep ==
    ASSUME TypeOK, MarksAreListed, TimesInOrder, [Next]_vars
    PROVE  TimesInOrder'
<1>1. \A i \in Id : markedAt[i] = 0 \/ markedAt[i] = listed[i]
  BY DEF MarksAreListed
<1>2. ASSUME NEW i \in Id, MarkDeleted(i) PROVE TimesInOrder'
  BY <1>1, <1>2 DEF MarkDeleted, Relist, TimesInOrder, TypeOK
<1>3. ASSUME NEW i \in Id, Unmark(i) \/ PurgeMarked(i) PROVE TimesInOrder'
  BY <1>1, <1>3 DEF Unmark, PurgeMarked, Relist, TimesInOrder, TypeOK, rest
<1>4. ASSUME NEW i \in Id, PurgeFails(i) PROVE TimesInOrder'
  BY <1>4 DEF PurgeFails, RemoveFiles, TimesInOrder
<1>5. CASE EntityStep
  BY <1>5, EntityStepKeepsMarks DEF TimesInOrder
<1>6. CASE RelationStep
  BY <1>6 DEF RelationStep, CheckEndpoints, CreateRelation, DeleteRelation,
     TimesInOrder, disk, rest
<1>7. CASE Crash
  <2>1. UNCHANGED <<listed, clock>>
    <3>1. Interrupted /\ UNCHANGED clock
      BY <1>7 DEF Crash, rest
    <3> QED
      BY <3>1 DEF Interrupted, RemoveFiles, RenameInterrupted, PurgeInterrupted,
         RenameFiles, disk
  <2> QED
    BY <2>1 DEF TimesInOrder
<1>8. CASE Reopen
  BY <1>8 DEF Reopen, disk, rest, TimesInOrder
<1>9. CASE UNCHANGED vars
  BY <1>9 DEF vars, disk, rest, TimesInOrder
<1> QED
  BY <1>2, <1>3, <1>4, <1>5, <1>6, <1>7, <1>8, <1>9 DEF Next, SoftDeleteStep

\* A rename gives its edges ends that no mark touches.
LEMMA MovedAvoidMarks ==
    ASSUME NEW S \in SUBSET Edge, NEW o \in Id, NEW n \in Id,
           markedAt[n] = 0,
           \A e \in S : markedAt[e.from] = 0 /\ markedAt[e.to] = 0,
           NEW e \in Moved(S, o, n)
    PROVE  markedAt[e.from] = 0 /\ markedAt[e.to] = 0
BY DEF Moved, Edge

\* An entity step gives no family a hidden edge.
LEMMA EntityStepDropsEdges ==
    ASSUME EntityStep, TypeOK
    PROVE  \A i \in Id : famEdges'[i] \subseteq famEdges[i]
<1>1. ASSUME NEW m \in Meta, CreateEntity(m) \/ DeleteFace(m) \/ DeleteFaceFails(m)
      PROVE  famEdges' = famEdges
  BY <1>1 DEF CreateEntity, DeleteFace, DeleteFaceFails
<1>2. ASSUME NEW m \in Meta, NEW k \in Meta, UpdateEntity(m, k) \/ UpdateEntityFails(m, k)
      PROVE  famEdges' = famEdges
  BY <1>2 DEF UpdateEntity, UpdateEntityFails, memory
<1>3. ASSUME NEW i \in Id, NEW cascade \in BOOLEAN, DeleteFamily(i, cascade)
      PROVE  \A j \in Id : famEdges'[j] \subseteq famEdges[j]
  BY <1>3 DEF DeleteFamily
<1>4. ASSUME NEW i \in Id, DeleteFamilyFails(i)
      PROVE  \A j \in Id : famEdges'[j] \subseteq famEdges[j]
  BY <1>4 DEF DeleteFamilyFails
<1>5. ASSUME NEW o \in Id, NEW n \in Id, RenameFamily(o, n) \/ RenameLeavesFiles(o, n)
      PROVE  \A j \in Id : famEdges'[j] \subseteq famEdges[j]
  BY <1>5 DEF RenameFamily, RenameLeavesFiles
<1>6. ASSUME NEW o \in Id, NEW n \in Id, RenameFails(o, n)
      PROVE  \A j \in Id : famEdges'[j] \subseteq famEdges[j]
  BY <1>6 DEF RenameFails
<1> QED
  BY <1>1, <1>2, <1>3, <1>4, <1>5, <1>6 DEF EntityStep

\* An entity step gives the live index an edge only by renaming one end.
LEMMA EntityStepMovesEdges ==
    ASSUME EntityStep
    PROVE  edges' \subseteq edges \/ \E o, n \in Id : MayRename(o, n) /\ Rekey(o, n)
<1>1. ASSUME NEW m \in Meta, CreateEntity(m) \/ DeleteFace(m) \/ DeleteFaceFails(m)
      PROVE  edges' \subseteq edges
  BY <1>1 DEF CreateEntity, DeleteFace, DeleteFaceFails
<1>2. ASSUME NEW m \in Meta, NEW k \in Meta, UpdateEntity(m, k) \/ UpdateEntityFails(m, k)
      PROVE  edges' \subseteq edges
  BY <1>2 DEF UpdateEntity, UpdateEntityFails, memory
<1>3. ASSUME NEW i \in Id, NEW cascade \in BOOLEAN, DeleteFamily(i, cascade)
      PROVE  edges' \subseteq edges
  BY <1>3 DEF DeleteFamily
<1>4. ASSUME NEW i \in Id, DeleteFamilyFails(i) PROVE edges' \subseteq edges
  BY <1>4 DEF DeleteFamilyFails
<1>5. ASSUME NEW o \in Id, NEW n \in Id, RenameFails(o, n) PROVE edges' \subseteq edges
  BY <1>5 DEF RenameFails
<1>6. ASSUME NEW o \in Id, NEW n \in Id, RenameFamily(o, n) \/ RenameLeavesFiles(o, n)
      PROVE  MayRename(o, n) /\ Rekey(o, n)
  BY <1>6 DEF RenameFamily, RenameLeavesFiles
<1> QED
  BY <1>1, <1>2, <1>3, <1>4, <1>5, <1>6 DEF EntityStep

\* So no entity step puts a live edge on a mark.
LEMMA EntityStepEdges ==
    ASSUME NoVariants, EntityStep, MarkInv, LiveEdgesAvoidMarks
    PROVE  LiveEdgesAvoidMarks'
<1>1. CASE edges' \subseteq edges
  BY <1>1, EntityStepKeepsMarks DEF LiveEdgesAvoidMarks
<1>2. ASSUME NEW o \in Id, NEW n \in Id, MayRename(o, n) /\ Rekey(o, n)
      PROVE  LiveEdgesAvoidMarks'
  <2>1. markedAt[n] = 0
    BY <1>2, RenameTargetUnmarked
  <2>2. Related(o) \subseteq Edge /\ Related(o) \subseteq edges
    BY DEF Related, MarkInv, TypeOK
  <2>3. \A e \in Moved(Related(o), o, n) : markedAt[e.from] = 0 /\ markedAt[e.to] = 0
    BY <2>1, <2>2, MovedAvoidMarks DEF LiveEdgesAvoidMarks
  <2> QED
    BY <1>2, <2>3, EntityStepKeepsMarks DEF Rekey, LiveEdgesAvoidMarks
<1> QED
  BY <1>1, <1>2, EntityStepMovesEdges

\* A hidden edge has its own family's mark first, so another mark or restore of
\* either end keeps the order, and a live edge is in no family.
LEMMA EdgeStep ==
    ASSUME NoVariants, Serial, EdgeInv, [Next]_vars
    PROVE  EdgeInv'
<1> /\ MarkInv /\ MarksAreListed /\ TimesInOrder
    /\ checked = {} /\ LiveEdgesAvoidMarks /\ HeldByFirstMark /\ TypeOK
  BY DEF EdgeInv, MarkInv
<1> DEFINE Goal == checked' = {} /\ LiveEdgesAvoidMarks' /\ HeldByFirstMark'
<1>1. MarkInv' /\ MarksAreListed' /\ TimesInOrder'
  BY MarkStep, ListStep, TimesStep
<1>2. ASSUME EntityStep PROVE Goal
  <2>1. checked' = {}
    <3>1. ASSUME NEW m \in Meta, CreateEntity(m) \/ DeleteFace(m) \/ DeleteFaceFails(m)
          PROVE  checked' = checked
      BY <3>1 DEF CreateEntity, DeleteFace, DeleteFaceFails
    <3>2. ASSUME NEW m \in Meta, NEW k \in Meta,
                 UpdateEntity(m, k) \/ UpdateEntityFails(m, k)
          PROVE  checked' = checked
      BY <3>2 DEF UpdateEntity, UpdateEntityFails, memory
    <3>3. ASSUME NEW i \in Id, NEW cascade \in BOOLEAN, DeleteFamily(i, cascade)
          PROVE  checked' = checked
      BY <3>3 DEF DeleteFamily
    <3>4. ASSUME NEW i \in Id, DeleteFamilyFails(i) PROVE checked' = checked
      BY <3>4 DEF DeleteFamilyFails
    <3>5. ASSUME NEW o \in Id, NEW n \in Id,
                 RenameFamily(o, n) \/ RenameLeavesFiles(o, n) \/ RenameFails(o, n)
          PROVE  checked' = checked
      BY <3>5 DEF RenameFamily, RenameLeavesFiles, RenameFails
    <3> QED
      BY <1>2, <3>1, <3>2, <3>3, <3>4, <3>5 DEF EntityStep
  <2>2. LiveEdgesAvoidMarks'
    BY <1>2, EntityStepEdges
  <2>3. HeldByFirstMark'
    BY <1>2, EntityStepKeepsMarks, EntityStepDropsEdges DEF HeldByFirstMark
  <2> QED
    BY <2>1, <2>2, <2>3
<1>3. ASSUME NEW e \in Edge, CheckEndpoints(e) PROVE FALSE
  BY <1>3, FS_EmptySet DEF CheckEndpoints, Serial
<1>4. ASSUME NEW e \in Edge, CreateRelation(e) PROVE Goal
  <2>1. markedAt[e.from] = 0 /\ markedAt[e.to] = 0
    BY <1>4 DEF CreateRelation, EndsLive, Family, LiveXorMarked, MarkInv
  <2> QED
    BY <1>4, <2>1 DEF CreateRelation, LiveEdgesAvoidMarks, HeldByFirstMark
<1>5. ASSUME NEW e \in Edge, DeleteRelation(e) PROVE Goal
  BY <1>5 DEF DeleteRelation, LiveEdgesAvoidMarks, HeldByFirstMark
<1>6. ASSUME NEW i \in Id, MarkDeleted(i) PROVE Goal
  <2>1. markedAt[i] = 0
    BY <1>6 DEF MarkDeleted, Family, LiveXorMarked, MarkInv
  <2>2. \A j \in Id : markedAt[j] < clock + 1
    BY DEF MarksAreListed, TimesInOrder, TypeOK
  <2>3. LiveEdgesAvoidMarks'
    BY <1>6 DEF MarkDeleted, Related, Touches, LiveEdgesAvoidMarks, TypeOK
  <2>4. famEdges'[i] \subseteq edges /\ \A e \in famEdges'[i] : Touches(e, i)
    BY <1>6 DEF MarkDeleted, Related, TypeOK
  <2>5. \A j \in Id \ {i} : famEdges'[j] = famEdges[j] /\ markedAt'[j] = markedAt[j]
    BY <1>6 DEF MarkDeleted, TypeOK
  <2>6. markedAt'[i] = clock + 1 /\ clock + 1 # 0
    BY <1>6 DEF MarkDeleted, TypeOK
  <2>7. ASSUME NEW e \in famEdges'[i]
        PROVE  /\ \A j \in {e.from, e.to} \ {i} : markedAt'[j] = 0
               /\ \A j \in Id \ {i} : e \notin famEdges'[j]
    <3>1. e \in Edge /\ markedAt[e.from] = 0 /\ markedAt[e.to] = 0
      BY <2>4 DEF LiveEdgesAvoidMarks, TypeOK
    <3>2. e.from \in Id /\ e.to \in Id
      BY <3>1 DEF Edge
    <3>3. \A j \in Id : e \notin famEdges[j]
      BY <3>1 DEF HeldByFirstMark, Touches
    <3> QED
      BY <2>5, <3>1, <3>2, <3>3
  <2>8. ASSUME NEW k \in Id \ {i}, NEW e \in famEdges'[k]
        PROVE  /\ markedAt'[k] # 0 /\ Touches(e, k)
               /\ \A j \in {e.from, e.to} \ {k} : markedAt'[j] = 0 \/ markedAt'[k] < markedAt'[j]
               /\ \A j \in Id \ {k} : e \notin famEdges'[j]
    <3>1. e \in famEdges[k] /\ e \in Edge
      BY <2>5 DEF TypeOK
    <3>2. e.from \in Id /\ e.to \in Id
      BY <3>1 DEF Edge
    <3>3. e \notin famEdges'[i]
      BY <2>7, <2>8
    <3> QED
      BY <2>2, <2>5, <2>6, <3>1, <3>2, <3>3 DEF HeldByFirstMark
  <2>9. HeldByFirstMark'
    BY <2>4, <2>6, <2>7, <2>8 DEF HeldByFirstMark, Touches
  <2> QED
    BY <1>6, <2>3, <2>9 DEF MarkDeleted
<1>7. ASSUME NEW i \in Id, Unmark(i) PROVE Goal
  <2>1. markedAt'[i] = 0 /\ \A j \in Id \ {i} : markedAt'[j] = markedAt[j]
    BY <1>7 DEF Unmark, TypeOK
  <2>2. /\ famEdges'[i] = {}
        /\ \A j \in Id \ {i} : famEdges'[j] = famEdges[j] \cup PassedOn(i, j)
    BY <1>7 DEF Unmark, Handover
  <2>3. ASSUME NEW e \in edges' PROVE markedAt'[e.from] = 0 /\ markedAt'[e.to] = 0
    <3>1. CASE e \in edges
      BY <1>7, <3>1, <2>1 DEF LiveEdgesAvoidMarks, TypeOK, Edge
    <3>2. CASE e \in famEdges[i] /\ ~StaysHidden(e, i)
      <4>1. Touches(e, i) /\ e.from \in Id /\ e.to \in Id
        BY <3>2 DEF HeldByFirstMark, TypeOK, Edge
      <4> QED
        BY <2>1, <3>2, <4>1 DEF StaysHidden, OtherEnd, Touches
    <3> QED
      BY <1>7, <3>1, <3>2 DEF Unmark
  <2>4. ASSUME NEW k \in Id, NEW e \in famEdges'[k]
        PROVE  /\ markedAt'[k] # 0 /\ Touches(e, k)
               /\ \A j \in {e.from, e.to} \ {k} : markedAt'[j] = 0 \/ markedAt'[k] < markedAt'[j]
               /\ \A j \in Id \ {k} : e \notin famEdges'[j]
    <3>1. k # i
      BY <2>2
    <3>2. e \in famEdges[k] \/ e \in PassedOn(i, k)
      BY <2>2, <3>1
    <3>3. e \in Edge /\ e.from \in Id /\ e.to \in Id
      BY <3>2 DEF PassedOn, TypeOK, Edge
    <3>4. CASE e \in famEdges[k]
      <4>1. \A j \in Id \ {k} : e \notin famEdges[j]
        BY <3>4 DEF HeldByFirstMark
      <4>2. \A j \in Id \ {k} : e \notin famEdges'[j]
        BY <2>2, <3>1, <4>1 DEF PassedOn
      <4>3. markedAt[k] # 0 /\ Touches(e, k)
             /\ \A j \in {e.from, e.to} \ {k} : markedAt[j] = 0 \/ markedAt[k] < markedAt[j]
        BY <3>4 DEF HeldByFirstMark
      <4> QED
        BY <2>1, <3>1, <3>3, <4>2, <4>3
    <3>5. CASE e \in PassedOn(i, k)
      <4>1. e \in famEdges[i] /\ markedAt[k] # 0 /\ OtherEnd(e, i) = k
        BY <3>5 DEF PassedOn, StaysHidden
      <4>2. Touches(e, i) /\ \A j \in Id \ {i} : e \notin famEdges[j]
        BY <4>1 DEF HeldByFirstMark
      <4>3. {e.from, e.to} = {i, k}
        BY <3>1, <4>1, <4>2 DEF OtherEnd, Touches
      <4>4. \A j \in Id \ {k} : e \notin famEdges'[j]
        BY <2>2, <4>1, <4>2 DEF PassedOn
      <4> QED
        BY <2>1, <3>1, <4>1, <4>3, <4>4 DEF Touches
    <3> QED
      BY <3>2, <3>4, <3>5
  <2> QED
    BY <1>7, <2>3, <2>4 DEF Unmark, LiveEdgesAvoidMarks, HeldByFirstMark
<1>8. ASSUME NEW i \in Id, PurgeMarked(i) PROVE Goal
  <2>1. markedAt'[i] = 0 /\ \A j \in Id \ {i} : markedAt'[j] = markedAt[j]
    BY <1>8 DEF PurgeMarked, TypeOK
  <2>2. /\ famEdges'[i] = {}
        /\ \A j \in Id \ {i} : famEdges'[j] \subseteq famEdges[j]
    BY <1>8 DEF PurgeMarked
  <2>3. LiveEdgesAvoidMarks'
    BY <1>8, <2>1 DEF PurgeMarked, LiveEdgesAvoidMarks, TypeOK, Edge
  <2>4. HeldByFirstMark'
    <3> SUFFICES ASSUME NEW k \in Id, NEW e \in famEdges'[k]
                 PROVE  /\ markedAt'[k] # 0 /\ Touches(e, k)
                        /\ \A j \in {e.from, e.to} \ {k} : markedAt'[j] = 0 \/ markedAt'[k] < markedAt'[j]
                        /\ \A j \in Id \ {k} : e \notin famEdges'[j]
      BY DEF HeldByFirstMark, Touches
    <3>1. k # i /\ e \in famEdges[k]
      BY <2>2
    <3>2. e.from \in Id /\ e.to \in Id
      BY <3>1 DEF TypeOK, Edge
    <3>3. \A j \in Id \ {k} : e \notin famEdges'[j]
      BY <2>2, <3>1 DEF HeldByFirstMark
    <3>4. markedAt[k] # 0 /\ Touches(e, k)
           /\ \A j \in {e.from, e.to} \ {k} : markedAt[j] = 0 \/ markedAt[k] < markedAt[j]
      BY <3>1 DEF HeldByFirstMark
    <3> QED
      BY <2>1, <3>1, <3>2, <3>3, <3>4
  <2> QED
    BY <1>8, <2>3, <2>4 DEF PurgeMarked
<1>9. ASSUME NEW i \in Id, PurgeFails(i) PROVE Goal
  BY <1>9 DEF PurgeFails, memory, LiveEdgesAvoidMarks, HeldByFirstMark
<1>10. ASSUME Crash PROVE Goal
  BY <1>10 DEF Crash, LiveEdgesAvoidMarks, HeldByFirstMark
<1>11. ASSUME Reopen PROVE Goal
  <2>1. PICK L \in Scans(entFiles) :
          /\ markedAt' = OpenMarks(L)
          /\ famEdges' = [i \in Id |-> {e \in relFiles : HoldsFirst(i, e, OpenMarks(L))}]
          /\ edges' = {e \in relFiles : OpenMarks(L)[e.from] = 0 /\ OpenMarks(L)[e.to] = 0}
    BY <1>11 DEF Reopen
  <2>2. LiveEdgesAvoidMarks'
    BY <2>1 DEF LiveEdgesAvoidMarks
  <2>3. \A i, j \in Id : markedAt'[i] = markedAt'[j] /\ markedAt'[i] # 0 => i = j
    BY <2>1 DEF OpenMarks, TimesInOrder
  <2>4. \A i \in Id : markedAt'[i] \in Nat
    BY <1>1 DEF MarkInv, TypeOK
  <2>5. HeldByFirstMark'
    <3> SUFFICES ASSUME NEW k \in Id, NEW e \in famEdges'[k]
                 PROVE  /\ markedAt'[k] # 0 /\ Touches(e, k)
                        /\ \A j \in {e.from, e.to} \ {k} : markedAt'[j] = 0 \/ markedAt'[k] < markedAt'[j]
                        /\ \A j \in Id \ {k} : e \notin famEdges'[j]
      BY DEF HeldByFirstMark, Touches
    <3>1. e \in relFiles /\ e.from \in Id /\ e.to \in Id
      BY <2>1 DEF TypeOK, Edge
    <3>2. markedAt'[k] # 0 /\ Touches(e, k)
           /\ \A j \in Id : markedAt'[j] # 0 /\ Touches(e, j) => markedAt'[k] <= markedAt'[j]
      BY <2>1 DEF HoldsFirst
    <3>3. \A j \in {e.from, e.to} \ {k} : markedAt'[j] = 0 \/ markedAt'[k] < markedAt'[j]
      BY <2>3, <2>4, <3>1, <3>2 DEF Touches
    <3>4. ASSUME NEW j \in Id \ {k}, e \in famEdges'[j] PROVE FALSE
      <4>1. markedAt'[j] # 0 /\ Touches(e, j) /\ markedAt'[j] <= markedAt'[k]
        BY <2>1, <3>2, <3>4 DEF HoldsFirst
      <4> QED
        BY <2>3, <2>4, <3>2, <4>1
    <3> QED
      BY <3>2, <3>3, <3>4
  <2> QED
    BY <1>11, <2>2, <2>5 DEF Reopen
<1>12. ASSUME UNCHANGED vars PROVE Goal
  BY <1>12 DEF vars, memory, LiveEdgesAvoidMarks, HeldByFirstMark
<1> QED
  BY <1>1, <1>2, <1>3, <1>4, <1>5, <1>6, <1>7, <1>8, <1>9, <1>10, <1>11, <1>12
     DEF Next, RelationStep, SoftDeleteStep, EdgeInv

LEMMA EdgeInvHolds ==
    ASSUME NoVariants, Serial
    PROVE  Spec => []EdgeInv
<1>1. Init => EdgeInv
  <2> SUFFICES ASSUME Init PROVE EdgeInv
    OBVIOUS
  <2>1. MarkInv
    BY TypeInit DEF Init, MarkInv, LiveXorMarked, OwnFaces
  <2> QED
    BY <2>1 DEF Init, EdgeInv, MarksAreListed, TimesInOrder, LiveEdgesAvoidMarks,
       HeldByFirstMark
<1>2. EdgeInv /\ [Next]_vars => EdgeInv'
  BY EdgeStep
<1> QED
  BY <1>1, <1>2, PTL DEF Spec

\* Each hidden relation has one holder, the end marked first, through failed
\* calls, restores, purges and restarts.
THEOREM OneHolder ==
    ASSUME NoVariants, Serial
    PROVE  Spec => []HeldByFirstMark
<1>1. EdgeInv => HeldByFirstMark
  BY DEF EdgeInv
<1> QED
  BY <1>1, EdgeInvHolds, PTL

-----------------------------------------------------------------------------
(* Live edges and marks, whatever endpoint checks are stale.                 *)

HeldEdgesTouch == \A i \in Id : \A e \in famEdges[i] : Touches(e, i)

\* What a family holds touches it: it took its own edges, was handed one of
\* which it is the other end, or found one at an open.
LEMMA HeldEdgesStep ==
    ASSUME TypeOK, HeldEdgesTouch, [Next]_vars
    PROVE  HeldEdgesTouch'
<1>1. CASE EntityStep
  BY <1>1, EntityStepDropsEdges DEF HeldEdgesTouch
<1>2. CASE RelationStep
  BY <1>2 DEF RelationStep, CheckEndpoints, CreateRelation, DeleteRelation, HeldEdgesTouch
<1>3. ASSUME NEW i \in Id, MarkDeleted(i) PROVE HeldEdgesTouch'
  BY <1>3 DEF MarkDeleted, Related, HeldEdgesTouch, TypeOK
<1>4. ASSUME NEW i \in Id, Unmark(i) PROVE HeldEdgesTouch'
  <2> SUFFICES ASSUME NEW k \in Id, NEW e \in famEdges'[k]
               PROVE  Touches(e, k)
    BY DEF HeldEdgesTouch
  <2>1. e \in famEdges[k] \/ e \in PassedOn(i, k)
    BY <1>4 DEF Unmark, Handover
  <2> QED
    BY <2>1 DEF PassedOn, OtherEnd, Touches, HeldEdgesTouch
<1>5. ASSUME NEW i \in Id, PurgeMarked(i) PROVE HeldEdgesTouch'
  BY <1>5 DEF PurgeMarked, HeldEdgesTouch
<1>6. ASSUME NEW i \in Id, PurgeFails(i) PROVE HeldEdgesTouch'
  BY <1>6 DEF PurgeFails, memory, HeldEdgesTouch
<1>7. CASE Crash
  BY <1>7 DEF Crash, HeldEdgesTouch
<1>8. CASE Reopen
  BY <1>8 DEF Reopen, HoldsFirst, HeldEdgesTouch
<1>9. CASE UNCHANGED vars
  BY <1>9 DEF vars, memory, HeldEdgesTouch
<1> QED
  BY <1>1, <1>2, <1>3, <1>4, <1>5, <1>6, <1>7, <1>8, <1>9 DEF Next, SoftDeleteStep

\* An edge that comes to touch a mark by a rename touched one before: the new id
\* is not marked.
LEMMA RekeyCarries ==
    ASSUME TypeOK, NEW o \in Id, NEW n \in Id, Rekey(o, n), markedAt[n] = 0,
           NEW e \in edges', TouchesMark(e)
    PROVE  \/ e \in edges
           \/ e \in Moved({d \in Related(o) : TouchesMark(d)}, o, n)
<1>1. CASE e \in edges
  BY <1>1
<1>2. CASE e \in Moved(Related(o), o, n)
  <2>1. PICK d \in Related(o) :
          e = [d EXCEPT !.from = IF @ = o THEN n ELSE @, !.to = IF @ = o THEN n ELSE @]
    BY <1>2 DEF Moved
  <2>2. d \in Edge
    BY DEF Related, TypeOK
  <2>3. /\ e.from = d.from \/ e.from = n
        /\ e.to = d.to \/ e.to = n
    BY <2>1, <2>2 DEF Edge
  <2>4. TouchesMark(d)
    BY <2>3 DEF TouchesMark
  <2> QED
    BY <2>1, <2>4 DEF Moved
<1> QED
  BY <1>1, <1>2 DEF Rekey

Reaches(e) ==
    \/ e \in edges /\ TouchesMark(e)
    \/ e \in checked /\ ~EndsLive(e) /\ CreateRelation(e)
    \/ \E o, n \in Id :
         Rekey(o, n) /\ e \in Moved({d \in Related(o) : TouchesMark(d)}, o, n)

\* No step but a relation create on a stale endpoint check puts a live relation
\* on a soft-deleted entity, through renames, restores, purges, faults, crashes
\* and reopens, with any number of creates in flight.
THEOREM StaleChecksAlone ==
    ASSUME NoVariants
    PROVE  Spec => OnlyStaleChecksReachMarks
<1> DEFINE Reached == \A e \in edges' : TouchesMark(e)' => Reaches(e)
<1>1. Init => HeldEdgesTouch
  BY DEF Init, HeldEdgesTouch
<1>2. TypeOK /\ HeldEdgesTouch /\ [Next]_vars => HeldEdgesTouch'
  BY HeldEdgesStep
<1>3. MarkInv /\ HeldEdgesTouch /\ [Next]_vars => Reached
  <2> SUFFICES ASSUME MarkInv, HeldEdgesTouch, [Next]_vars,
                      NEW e \in edges', TouchesMark(e)'
               PROVE  Reaches(e)
    OBVIOUS
  <2> TypeOK
    BY DEF MarkInv
  <2>1. ASSUME e \in edges,
               \A i \in {e.from, e.to} : markedAt'[i] = markedAt[i] \/ markedAt'[i] = 0
        PROVE  Reaches(e)
    BY <2>1 DEF TouchesMark, Reaches
  <2>2. CASE EntityStep
    <3>1. markedAt' = markedAt
      BY <2>2, EntityStepKeepsMarks
    <3>2. CASE edges' \subseteq edges
      BY <3>1, <3>2, <2>1
    <3>3. CASE ~(edges' \subseteq edges)
      <4>1. PICK o \in Id, n \in Id : MayRename(o, n) /\ Rekey(o, n)
        BY <2>2, <3>3, EntityStepMovesEdges
      <4>2. markedAt[n] = 0
        BY <4>1, RenameTargetUnmarked
      <4>3. TouchesMark(e)
        BY <3>1 DEF TouchesMark
      <4> QED
        BY <4>1, <4>2, <4>3, RekeyCarries DEF Reaches
    <3> QED
      BY <3>2, <3>3
  <2>3. ASSUME NEW d \in Edge, CreateRelation(d) PROVE Reaches(e)
    <3>1. UNCHANGED markedAt /\ (e \in edges \/ e = d)
      BY <2>3 DEF CreateRelation
    <3>2. CASE e = d
      <4>1. TouchesMark(d)
        BY <3>1, <3>2 DEF TouchesMark
      <4>2. ~EndsLive(d)
        BY <4>1 DEF TouchesMark, EndsLive, Family, MarkInv, LiveXorMarked
      <4> QED
        BY <2>3, <3>2, <4>2 DEF CreateRelation, Reaches
    <3> QED
      BY <2>1, <3>1, <3>2
  <2>4. ASSUME NEW d \in Edge, CheckEndpoints(d) \/ DeleteRelation(d) PROVE Reaches(e)
    <3>1. UNCHANGED markedAt /\ e \in edges
      BY <2>4 DEF CheckEndpoints, DeleteRelation
    <3> QED
      BY <2>1, <3>1
  <2>5. ASSUME NEW i \in Id, MarkDeleted(i) PROVE Reaches(e)
    <3>1. e \in edges /\ ~Touches(e, i)
      BY <2>5 DEF MarkDeleted, Related
    <3>2. \A j \in {e.from, e.to} : markedAt'[j] = markedAt[j]
      BY <2>5, <3>1 DEF MarkDeleted, Touches, TypeOK
    <3> QED
      BY <2>1, <3>1, <3>2
  <2>6. ASSUME NEW i \in Id, Unmark(i) PROVE Reaches(e)
    <3>1. \A j \in Id : markedAt'[j] = IF j = i THEN 0 ELSE markedAt[j]
      BY <2>6 DEF Unmark, TypeOK
    <3>2. CASE e \in edges
      <4>1. e.from \in Id /\ e.to \in Id
        BY <3>2 DEF TypeOK, Edge
      <4> QED
        BY <2>1, <3>1, <3>2, <4>1
    <3>3. CASE e \in famEdges[i] /\ ~StaysHidden(e, i)
      <4>1. Touches(e, i) /\ e.from \in Id /\ e.to \in Id
        BY <3>3 DEF HeldEdgesTouch, TypeOK, Edge
      <4>2. markedAt'[e.from] = 0 /\ markedAt'[e.to] = 0
        BY <3>1, <3>3, <4>1 DEF StaysHidden, OtherEnd, Touches
      <4> QED
        BY <4>2 DEF TouchesMark
    <3> QED
      BY <2>6, <3>2, <3>3 DEF Unmark
  <2>7. ASSUME NEW i \in Id, PurgeMarked(i) PROVE Reaches(e)
    <3>1. e \in edges /\ e.from \in Id /\ e.to \in Id
      BY <2>7 DEF PurgeMarked, TypeOK, Edge
    <3>2. \A j \in Id : markedAt'[j] = markedAt[j] \/ markedAt'[j] = 0
      BY <2>7 DEF PurgeMarked, TypeOK
    <3> QED
      BY <2>1, <3>1, <3>2
  <2>8. ASSUME NEW i \in Id, PurgeFails(i) PROVE Reaches(e)
    BY <2>1, <2>8 DEF PurgeFails, memory
  <2>9. ~Crash
    BY DEF Crash
  <2>10. ~Reopen
    BY DEF Reopen, TouchesMark
  <2>11. CASE UNCHANGED vars
    BY <2>1, <2>11 DEF vars, memory
  <2> QED
    BY <2>2, <2>3, <2>4, <2>5, <2>6, <2>7, <2>8, <2>9, <2>10, <2>11
       DEF Next, RelationStep, SoftDeleteStep
<1>4. MarkInv => TypeOK
  BY DEF MarkInv
<1>5. Spec => []HeldEdgesTouch
  BY <1>1, <1>2, <1>4, MarkInvHolds, PTL DEF Spec
<1>6. MarkInv /\ HeldEdgesTouch /\ [Next]_vars => [Reached]_vars
  BY <1>3
<1>7. Spec => [][Reached]_vars
  BY <1>5, <1>6, MarkInvHolds, PTL DEF Spec
<1>8. [Reached]_vars => [\A e \in edges' : TouchesMark(e)' =>
         \/ e \in edges /\ TouchesMark(e)
         \/ e \in checked /\ ~EndsLive(e) /\ CreateRelation(e)
         \/ \E o, n \in Id :
              Rekey(o, n) /\ e \in Moved({d \in Related(o) : TouchesMark(d)}, o, n)]_vars
  BY DEF Reaches
<1> QED
  BY <1>7, <1>8, PTL DEF OnlyStaleChecksReachMarks

-----------------------------------------------------------------------------
(* Renames write before they remove.  A rename of an id to itself does not:  *)
(* what it wrote is what it removes, so it is left out.                      *)

NoSelfRename == \A i \in Id : i \notin RenameTo[i]

\* A rename that has removed an old face has written all of them, and what it
\* writes is none of what it removes.
LEMMA RenamedFilesStay ==
    ASSUME TypeOK, NoSelfRename, NEW o \in Id, NEW n \in Id, MayRename(o, n),
           NEW c, RenameFiles(o, n, c), c.old \subseteq Family(o),
           c.old # {} => c.new = Renamed(Family(o), n)
    PROVE  \A m \in entFiles \ entFiles' : Renamed({m}, n) \subseteq entFiles'
<1>1. n # o
  BY DEF MayRename, NoSelfRename
<1> SUFFICES ASSUME NEW m \in entFiles \ entFiles'
             PROVE  Renamed({m}, n) \subseteq entFiles'
  OBVIOUS
<1>2. m \in c.old /\ m \in Family(o)
  BY DEF RenameFiles
<1>3. Renamed({m}, n) \subseteq c.new
  BY <1>2 DEF Renamed
<1>4. \A x \in Renamed({m}, n) : x.id = n
  BY <1>2 DEF Renamed, Family, TypeOK, Meta
<1>5. \A x \in c.new : x \notin c.old => x \in entFiles'
  BY DEF RenameFiles
<1>6. \A x \in c.old : x.id = o
  BY DEF Family
<1> QED
  BY <1>1, <1>3, <1>4, <1>5, <1>6

LEMMA RenameCutsWriteFirst ==
    ASSUME NEW o, NEW n, NEW c \in RenameCuts(o, n)
    PROVE  c.old \subseteq Family(o) /\ (c.old # {} => c.new = Renamed(Family(o), n))
BY DEF RenameCuts, RenameCut

\* No rename, finished, failed or interrupted, loses a face: what is gone under
\* the old id is on disk under the new one.
THEOREM RenamesKeepFaces ==
    ASSUME NoSelfRename
    PROVE  Spec => RenameKeepsFaces
<1> DEFINE Keeps == \A m \in entFiles \ entFiles' : \A o, n \in Id :
              (\/ RenameFamily(o, n) \/ RenameFails(o, n) \/ RenameLeavesFiles(o, n)
               \/ up /\ ~up' /\ RenameInterrupted(o, n))
              => Renamed({m}, n) \subseteq entFiles'
<1>1. ASSUME TypeOK PROVE Keeps
  <2> SUFFICES ASSUME NEW m \in entFiles \ entFiles', NEW o \in Id, NEW n \in Id,
                      \/ RenameFamily(o, n) \/ RenameFails(o, n) \/ RenameLeavesFiles(o, n)
                      \/ up /\ ~up' /\ RenameInterrupted(o, n)
               PROVE  Renamed({m}, n) \subseteq entFiles'
    OBVIOUS
  <2>1. CASE RenameFamily(o, n)
    BY <1>1, <2>1, RenamedFilesStay DEF RenameFamily, RenameCut
  <2>2. CASE RenameLeavesFiles(o, n)
    <3>1. PICK gone \in SUBSET Related(o), old \in SUBSET Family(o) :
            RenameFiles(o, n, RenameCut(Hidden(o), Renamed(Family(o), n),
                                        Related(o), gone, old))
      BY <2>2 DEF RenameLeavesFiles
    <3> QED
      BY <1>1, <2>2, <3>1, RenamedFilesStay DEF RenameLeavesFiles, RenameCut
  <2>3. CASE RenameFails(o, n)
    <3>1. PICK c \in RenameCuts(o, n) : RenameFiles(o, n, c)
      BY <2>3 DEF RenameFails
    <3> QED
      BY <1>1, <2>3, <3>1, RenameCutsWriteFirst, RenamedFilesStay DEF RenameFails
  <2>4. CASE RenameInterrupted(o, n)
    BY <1>1, <2>4, RenameCutsWriteFirst, RenamedFilesStay DEF RenameInterrupted
  <2> QED
    BY <2>1, <2>2, <2>3, <2>4
<1>2. TypeOK /\ [Next]_vars => [Keeps]_vars
  BY <1>1
<1> QED
  BY <1>2, TypeCorrect, PTL DEF Spec, RenameKeepsFaces

-----------------------------------------------------------------------------
(* The index never runs ahead of the disk: while no file effect has failed,  *)
(* every entity it lists or hides has its file.                              *)

FilesHold ==
    up /\ faults = 0 =>
        live \subseteq entFiles /\ \A i \in Id : famEnts[i] \subseteq entFiles

\* A step that returned an error counts a fault, and the count never falls.
LEMMA FaultsCount ==
    ASSUME TypeOK
    PROVE  ~(Fault /\ faults' = 0)
BY DEF Fault, TypeOK

\* The files of hidden faces are none of a live family's.
LEMMA HiddenApart ==
    ASSUME MarkInv, NEW i \in Id
    PROVE  famEnts[i] \cap live = {} /\ \A j \in Id \ {i} : famEnts[i] \cap famEnts[j] = {}
BY DEF MarkInv, OwnFaces, LiveXorMarked

\* Faces of a renamed family are none of the old family's.
LEMMA RenamedApart ==
    ASSUME TypeOK, NoSelfRename, NEW o \in Id, NEW n \in Id, MayRename(o, n)
    PROVE  Renamed(Family(o), n) \cap Family(o) = {}
<1>1. n # o
  BY DEF MayRename, NoSelfRename
<1>2. \A m \in Renamed(Family(o), n) : m.id = n
  BY DEF Renamed, Family, TypeOK, Meta
<1> QED
  BY <1>1, <1>2 DEF Family

LEMMA FilesStep ==
    ASSUME NoVariants, NoSelfRename, MarkInv, FilesHold, [Next]_vars
    PROVE  FilesHold'
<1> TypeOK
  BY DEF MarkInv
<1> SUFFICES ASSUME up', faults' = 0
             PROVE  live' \subseteq entFiles' /\ \A i \in Id : famEnts'[i] \subseteq entFiles'
  BY DEF FilesHold
<1> DEFINE Goal == live' \subseteq entFiles' /\ \A i \in Id : famEnts'[i] \subseteq entFiles'
           Held == live \subseteq entFiles /\ \A i \in Id : famEnts[i] \subseteq entFiles
<1>0. ~Fault
  BY FaultsCount
<1>1. ASSUME NEW m \in Meta, CreateEntity(m) PROVE Goal
  BY <1>1 DEF CreateEntity, FilesHold, rest
<1>2. ASSUME NEW m \in Meta, DeleteFace(m) PROVE Goal
  <2>1. Held
    BY <1>2 DEF DeleteFace, FilesHold
  <2> QED
    BY <1>2, <2>1, HiddenApart DEF DeleteFace, RemoveFiles, Cut
<1>3. ASSUME NEW m \in Meta, DeleteFaceFails(m) PROVE Goal
  BY <1>0, <1>3 DEF DeleteFaceFails
<1>4. ASSUME NEW m \in Meta, NEW k \in Meta, UpdateEntity(m, k) PROVE Goal
  <2>1. Held
    BY <1>4 DEF UpdateEntity, FilesHold, rest
  <2>2. m \in live /\ k # m
    BY <1>4 DEF UpdateEntity, Retypes, Meta
  <2>3. \A i \in Id : m \notin famEnts[i]
    BY <2>2, HiddenApart
  <2> QED
    BY <1>4, <2>1, <2>2, <2>3 DEF UpdateEntity
<1>5. ASSUME NEW m \in Meta, NEW k \in Meta, UpdateEntityFails(m, k) PROVE Goal
  BY <1>0, <1>5 DEF UpdateEntityFails
<1>6. ASSUME NEW i \in Id, NEW cascade \in BOOLEAN, DeleteFamily(i, cascade) PROVE Goal
  <2>1. Held
    BY <1>6 DEF DeleteFamily, FilesHold, rest
  <2>2. Family(i) \subseteq live
    BY DEF Family
  <2> QED
    BY <1>6, <2>1, <2>2, HiddenApart DEF DeleteFamily, RemoveFiles, Cut
<1>7. ASSUME NEW i \in Id, DeleteFamilyFails(i) PROVE FALSE
  <2>1. ~(Family(i) \subseteq entFiles) /\ faults' = faults /\ up
    BY <1>0, <1>7 DEF DeleteFamilyFails
  <2> QED
    BY <2>1 DEF FilesHold, Family
<1>8. ASSUME NEW o \in Id, NEW n \in Id, RenameFamily(o, n) PROVE Goal
  <2>1. Held
    BY <1>8 DEF RenameFamily, FilesHold, rest
  <2>2. Family(o) \subseteq live /\ Renamed(Family(o), n) \cap Family(o) = {}
    BY <1>8, RenamedApart DEF Family, RenameFamily
  <2>3. entFiles' = (entFiles \cup Renamed(Family(o), n)) \ Family(o)
    BY <1>8 DEF RenameFamily, RenameFiles, RenameCut
  <2> QED
    BY <1>8, <2>1, <2>2, <2>3, HiddenApart DEF RenameFamily, Rekey
<1>9. ASSUME NEW o \in Id, NEW n \in Id, RenameLeavesFiles(o, n) PROVE Goal
  BY <1>0, <1>9 DEF RenameLeavesFiles
<1>10. ASSUME NEW o \in Id, NEW n \in Id, RenameFails(o, n) PROVE FALSE
  <2>1. ~(Family(o) \subseteq entFiles) /\ faults' = faults /\ up
    BY <1>0, <1>10 DEF RenameFails
  <2> QED
    BY <2>1 DEF FilesHold, Family
<1>11. CASE RelationStep
  BY <1>11 DEF RelationStep, CheckEndpoints, CreateRelation, DeleteRelation,
     FilesHold, disk, rest
<1>12. ASSUME NEW i \in Id, MarkDeleted(i) PROVE Goal
  BY <1>12 DEF MarkDeleted, Family, FilesHold, TypeOK
<1>13. ASSUME NEW i \in Id, Unmark(i) PROVE Goal
  BY <1>13 DEF Unmark, Restored, FilesHold, TypeOK, rest
<1>14. ASSUME NEW i \in Id, PurgeMarked(i) PROVE Goal
  <2>1. Held
    BY <1>14 DEF PurgeMarked, FilesHold, rest
  <2> QED
    BY <1>14, <2>1, HiddenApart DEF PurgeMarked, TypeOK
<1>15. ASSUME NEW i \in Id, PurgeFails(i) PROVE Goal
  BY <1>0, <1>15 DEF PurgeFails
<1>16. CASE Crash
  BY <1>16 DEF Crash
<1>17. CASE Reopen
  <2>1. PICK L \in Scans(entFiles) :
          /\ live' = {m \in L : OpenMarks(L)[m.id] = 0}
          /\ famEnts' = [i \in Id |-> {m \in L : m.id = i /\ OpenMarks(L)[i] # 0}]
    BY <1>17 DEF Reopen
  <2>2. L \subseteq entFiles /\ entFiles' = entFiles
    BY <1>17 DEF Scans, Reopen, disk
  <2> QED
    BY <2>1, <2>2
<1>18. CASE UNCHANGED vars
  BY <1>18 DEF vars, disk, memory, rest, FilesHold
<1> QED
  BY <1>1, <1>2, <1>3, <1>4, <1>5, <1>6, <1>7, <1>8, <1>9, <1>10, <1>11, <1>12,
     <1>13, <1>14, <1>15, <1>16, <1>17, <1>18
     DEF Next, EntityStep, SoftDeleteStep

-----------------------------------------------------------------------------
(* The relation files are the edges of the index and of the hidden families, *)
(* as long as no file effect has failed.                                     *)

AllHidden == UNION {famEdges[j] : j \in Id}

RelationsHold == up /\ faults = 0 => relFiles = edges \cup AllHidden

\* An edge is live or hidden by one mark.
LEMMA EdgesApart ==
    ASSUME EdgeInv, NEW j \in Id
    PROVE  /\ edges \cap famEdges[j] = {}
           /\ \A k \in Id \ {j} : famEdges[j] \cap famEdges[k] = {}
BY DEF EdgeInv, MarkInv, HeldByFirstMark, LiveEdgesAvoidMarks, Touches

LEMMA HiddenIs ==
    ASSUME NEW i
    PROVE  Hidden(i) = {e \in AllHidden : Touches(e, i)}
BY DEF Hidden, AllHidden

\* What a renamed family's edges become touches the old id no more.
LEMMA MovedApart ==
    ASSUME NEW S \in SUBSET Edge, NEW o \in Id, NEW n \in Id, n # o
    PROVE  \A e \in Moved(S, o, n) : ~Touches(e, o)
BY DEF Moved, Edge, Touches

LEMMA RelationsStep ==
    ASSUME NoVariants, NoSelfRename, Serial, EdgeInv, FilesHold, RelationsHold,
           [Next]_vars
    PROVE  RelationsHold'
<1> MarkInv /\ TypeOK /\ checked = {}
  BY DEF EdgeInv, MarkInv
<1> SUFFICES ASSUME up', faults' = 0
             PROVE  relFiles' = edges' \cup AllHidden'
  BY DEF RelationsHold
<1> DEFINE Goal == relFiles' = edges' \cup AllHidden'
           Held == relFiles = edges \cup AllHidden
<1>0. ~Fault
  BY FaultsCount
<1>1. ASSUME NEW m \in Meta, CreateEntity(m) PROVE Goal
  BY <1>1 DEF CreateEntity, RelationsHold, AllHidden, rest
<1>2. ASSUME NEW m \in Meta, DeleteFace(m) PROVE Goal
  <2>1. Held /\ OwnedEdges(m) \subseteq edges /\ AllHidden' = AllHidden
    BY <1>2 DEF DeleteFace, RelationsHold, OwnedEdges, AllHidden
  <2>2. edges \cap AllHidden = {}
    BY EdgesApart DEF AllHidden
  <2>3. relFiles' = relFiles \ OwnedEdges(m) /\ edges' = edges \ OwnedEdges(m)
    BY <1>2 DEF DeleteFace, RemoveFiles, Cut
  <2> QED
    BY <2>1, <2>2, <2>3
<1>3. ASSUME NEW m \in Meta, DeleteFaceFails(m) PROVE Goal
  BY <1>0, <1>3 DEF DeleteFaceFails
<1>4. ASSUME NEW m \in Meta, NEW k \in Meta, UpdateEntity(m, k) PROVE Goal
  BY <1>4 DEF UpdateEntity, RelationsHold, AllHidden, rest
<1>5. ASSUME NEW m \in Meta, NEW k \in Meta, UpdateEntityFails(m, k) PROVE Goal
  BY <1>0, <1>5 DEF UpdateEntityFails
<1>6. ASSUME NEW i \in Id, NEW cascade \in BOOLEAN, DeleteFamily(i, cascade) PROVE Goal
  <2>1. Held /\ Related(i) \subseteq edges /\ Hidden(i) \subseteq AllHidden
    BY <1>6, HiddenIs DEF DeleteFamily, RelationsHold, Related, rest
  <2>2. edges \cap AllHidden = {}
    BY EdgesApart DEF AllHidden
  <2>3. /\ relFiles' = relFiles \ (Hidden(i) \cup Related(i))
        /\ edges' = edges \ Related(i)
        /\ famEdges' = [j \in Id |-> famEdges[j] \ Hidden(i)]
    BY <1>6 DEF DeleteFamily, RemoveFiles, Cut
  <2>4. AllHidden' = AllHidden \ Hidden(i)
    BY <2>3 DEF AllHidden
  <2> QED
    BY <2>1, <2>2, <2>3, <2>4
<1>7. ASSUME NEW i \in Id, DeleteFamilyFails(i) PROVE FALSE
  BY <1>0, <1>7 DEF DeleteFamilyFails, FilesHold, Family
<1>8. ASSUME NEW o \in Id, NEW n \in Id, RenameFamily(o, n) PROVE Goal
  <2>1. Held /\ Related(o) \subseteq edges /\ Hidden(o) \subseteq AllHidden
    BY <1>8, HiddenIs DEF RenameFamily, RelationsHold, Related, rest
  <2>2. edges \cap AllHidden = {}
    BY EdgesApart DEF AllHidden
  <2>3. /\ relFiles' = ((relFiles \ Hidden(o)) \cup Moved(Related(o), o, n)) \ Related(o)
        /\ edges' = (edges \ Related(o)) \cup Moved(Related(o), o, n)
        /\ famEdges' = [j \in Id |-> famEdges[j] \ Hidden(o)]
    BY <1>8 DEF RenameFamily, RenameFiles, RenameCut, Rekey
  <2>4. AllHidden' = AllHidden \ Hidden(o)
    BY <2>3 DEF AllHidden
  <2>5. Moved(Related(o), o, n) \cap Related(o) = {}
    <3>1. Related(o) \in SUBSET Edge /\ n # o
      BY <1>8 DEF Related, TypeOK, RenameFamily, MayRename, NoSelfRename
    <3> QED
      BY <3>1, MovedApart DEF Related
  <2> QED
    BY <2>1, <2>2, <2>3, <2>4, <2>5
<1>9. ASSUME NEW o \in Id, NEW n \in Id, RenameLeavesFiles(o, n) PROVE Goal
  BY <1>0, <1>9 DEF RenameLeavesFiles
<1>10. ASSUME NEW o \in Id, NEW n \in Id, RenameFails(o, n) PROVE FALSE
  BY <1>0, <1>10 DEF RenameFails, FilesHold, Family
<1>11. ASSUME NEW e \in Edge, CheckEndpoints(e) \/ CreateRelation(e) PROVE Goal
  BY <1>11 DEF CheckEndpoints, CreateRelation, RelationsHold, AllHidden, disk, rest
<1>12. ASSUME NEW e \in Edge, DeleteRelation(e) PROVE Goal
  <2>1. Held /\ e \in edges /\ relFiles' = relFiles \ {e} /\ edges' = edges \ {e}
        /\ AllHidden' = AllHidden
    BY <1>12 DEF DeleteRelation, RelationsHold, AllHidden, rest
  <2>2. edges \cap AllHidden = {}
    BY EdgesApart DEF AllHidden
  <2> QED
    BY <2>1, <2>2
<1>13. ASSUME NEW i \in Id, MarkDeleted(i) PROVE Goal
  <2>1. Held /\ relFiles' = relFiles /\ edges' = edges \ Related(i)
        /\ famEdges' = [famEdges EXCEPT ![i] = Related(i)]
    BY <1>13 DEF MarkDeleted, RelationsHold
  <2>2. famEdges[i] = {}
    <3>1. markedAt[i] = 0
      BY <1>13 DEF MarkDeleted, Family, MarkInv, LiveXorMarked
    <3> QED
      BY <3>1 DEF EdgeInv, HeldByFirstMark
  <2>3. AllHidden' = AllHidden \cup Related(i)
    BY <2>1, <2>2 DEF AllHidden, TypeOK
  <2> QED
    BY <2>1, <2>3 DEF Related
<1>14. ASSUME NEW i \in Id, Unmark(i) PROVE Goal
  <2> DEFINE freed == {e \in famEdges[i] : ~StaysHidden(e, i)}
  <2>1. Held /\ relFiles' = relFiles /\ edges' = edges \cup freed
        /\ famEdges' = Handover(i)
    BY <1>14 DEF Unmark, RelationsHold, rest
  <2>2. ASSUME NEW e \in AllHidden PROVE e \in freed \/ e \in AllHidden'
    <3>1. PICK j \in Id : e \in famEdges[j]
      BY DEF AllHidden
    <3>2. CASE j # i
      BY <2>1, <3>1, <3>2 DEF Handover, AllHidden
    <3>3. CASE j = i /\ StaysHidden(e, i)
      <4>1. OtherEnd(e, i) \in Id \ {i}
        BY <3>1, <3>3 DEF StaysHidden, OtherEnd, TypeOK, Edge
      <4>2. e \in famEdges'[OtherEnd(e, i)]
        BY <2>1, <3>1, <3>3, <4>1 DEF Handover, PassedOn
      <4> QED
        BY <4>1, <4>2 DEF AllHidden
    <3> QED
      BY <3>1, <3>2, <3>3
  <2>3. AllHidden' \subseteq AllHidden
    BY <2>1 DEF Handover, PassedOn, AllHidden
  <2>4. freed \subseteq AllHidden
    BY DEF AllHidden
  <2> HIDE DEF freed
  <2> QED
    BY <2>1, <2>2, <2>3, <2>4
<1>15. ASSUME NEW i \in Id, PurgeMarked(i) PROVE Goal
  <2>1. Held /\ relFiles' = relFiles \ Doomed(i) /\ edges' = edges
        /\ famEdges' = [j \in Id |-> IF j = i THEN {} ELSE famEdges[j] \ Hidden(i)]
    BY <1>15 DEF PurgeMarked, RelationsHold, rest
  <2>2. edges \cap AllHidden = {}
    BY EdgesApart DEF AllHidden
  <2>3. Doomed(i) \subseteq AllHidden
    BY HiddenIs DEF Doomed, AllHidden
  <2>4. AllHidden' = AllHidden \ Doomed(i)
    <3>1. \A j \in Id \ {i} : famEdges[j] \cap famEdges[i] = {}
      BY EdgesApart
    <3> QED
      BY <2>1, <3>1 DEF AllHidden, Doomed
  <2> QED
    BY <2>1, <2>2, <2>3, <2>4
<1>16. ASSUME NEW i \in Id, PurgeFails(i) PROVE Goal
  BY <1>0, <1>16 DEF PurgeFails
<1>17. CASE Crash
  BY <1>17 DEF Crash
<1>18. CASE Reopen
  <2>1. PICK L \in Scans(entFiles) :
          /\ markedAt' = OpenMarks(L)
          /\ famEdges' = [i \in Id |-> {e \in relFiles : HoldsFirst(i, e, OpenMarks(L))}]
          /\ edges' = {e \in relFiles : OpenMarks(L)[e.from] = 0 /\ OpenMarks(L)[e.to] = 0}
    BY <1>18 DEF Reopen
  <2>2. \A i \in Id : markedAt'[i] \in Nat
    BY TypeStep DEF TypeOK
  <2>3. ASSUME NEW e \in relFiles PROVE e \in edges' \/ \E i \in Id : e \in famEdges'[i]
    <3>1. e.from \in Id /\ e.to \in Id
      BY DEF TypeOK, Edge
    <3>2. CASE markedAt'[e.from] = 0 /\ markedAt'[e.to] = 0
      BY <2>1, <3>2
    <3>3. CASE /\ markedAt'[e.from] # 0
               /\ markedAt'[e.to] = 0 \/ markedAt'[e.from] <= markedAt'[e.to]
      <4>1. HoldsFirst(e.from, e, markedAt')
        BY <2>2, <3>1, <3>3 DEF HoldsFirst, Touches
      <4> QED
        BY <2>1, <3>1, <4>1
    <3>4. CASE /\ markedAt'[e.to] # 0
               /\ markedAt'[e.from] = 0 \/ markedAt'[e.to] <= markedAt'[e.from]
      <4>1. HoldsFirst(e.to, e, markedAt')
        BY <2>2, <3>1, <3>4 DEF HoldsFirst, Touches
      <4> QED
        BY <2>1, <3>1, <4>1
    <3> QED
      BY <2>2, <3>1, <3>2, <3>3, <3>4
  <2>4. relFiles' = relFiles
    BY <1>18 DEF Reopen, disk
  <2>5. edges' \subseteq relFiles /\ \A i \in Id : famEdges'[i] \subseteq relFiles
    BY <2>1
  <2> QED
    BY <2>3, <2>4, <2>5 DEF AllHidden
<1>19. CASE UNCHANGED vars
  BY <1>19 DEF vars, disk, memory, rest, RelationsHold, AllHidden
<1> QED
  BY <1>1, <1>2, <1>3, <1>4, <1>5, <1>6, <1>7, <1>8, <1>9, <1>10, <1>11, <1>12,
     <1>13, <1>14, <1>15, <1>16, <1>17, <1>18, <1>19
     DEF Next, EntityStep, RelationStep, SoftDeleteStep

-----------------------------------------------------------------------------
(* Every relation on disk has its ends, in the index while the store is open *)
(* and among the files while it is not: removals take relations before       *)
(* entities, and renames write entities before relations.  An end in         *)
(* lastFaceOf may be missing.                                                *)

Stands(x) == x \in lastFaceOf \/ Family(x) # {} \/ famEnts[x] # {}
OnDisk(x) == x \in lastFaceOf \/ \E m \in entFiles : m.id = x

EndsKept ==
    /\ ~up => edges = {}
    /\ up /\ faults = 0 => \A e \in relFiles : Stands(e.from) /\ Stands(e.to)
    /\ ~up /\ faults = 0 => \A e \in relFiles : OnDisk(e.from) /\ OnDisk(e.to)

DiskInv == EdgeInv /\ FilesHold /\ RelationsHold /\ EndsKept

\* What stands in the index has a file.
LEMMA StandingOnDisk ==
    ASSUME DiskInv, up, faults = 0, NEW x \in Id, Stands(x)
    PROVE  OnDisk(x)
BY DEF DiskInv, EdgeInv, MarkInv, OwnFaces, FilesHold, Stands, OnDisk, Family

\* An end of a relation keeps standing when its live and hidden faces stay.
LEMMA StillStands ==
    ASSUME NEW x, Stands(x), lastFaceOf \subseteq lastFaceOf',
           Family(x) \subseteq Family(x)', famEnts[x] \subseteq famEnts'[x]
    PROVE  Stands(x)'
BY DEF Stands

\* Relations that a removal of the hidden and live edges of an id leaves do not
\* touch the id.
LEMMA LeftOver ==
    ASSUME DiskInv, up, faults = 0, NEW i,
           NEW e \in relFiles, e \notin Hidden(i), e \notin Related(i)
    PROVE  ~Touches(e, i)
BY HiddenIs DEF DiskInv, RelationsHold, Related

\* A purge takes every relation of the id: none is live.
LEMMA LeftByPurge ==
    ASSUME DiskInv, up, faults = 0, NEW i \in Id, markedAt[i] # 0,
           NEW e \in relFiles, e \notin Doomed(i)
    PROVE  ~Touches(e, i)
BY HiddenIs DEF DiskInv, RelationsHold, EdgeInv, LiveEdgesAvoidMarks, Touches, Doomed

\* The ends of a renamed relation are the new id and its other ends.
LEMMA MovedEnds ==
    ASSUME NEW S \in SUBSET Edge, NEW o, NEW n, NEW e \in Moved(S, o, n)
    PROVE  \E d \in S : /\ e.from = n \/ (e.from = d.from /\ e.from # o)
                        /\ e.to = n \/ (e.to = d.to /\ e.to # o)
BY DEF Moved, Edge

LEMMA RelationEnds ==
    ASSUME TypeOK, NEW e \in relFiles \cup edges
    PROVE  e.from \in Id /\ e.to \in Id
BY DEF TypeOK, Edge

\* The operations of an open store keep the ends in the index.
LEMMA EndsStep ==
    ASSUME NoVariants, NoSelfRename, DiskInv, Next, up, up', faults' = 0
    PROVE  \A e \in relFiles' : Stands(e.from)' /\ Stands(e.to)'
<1> TypeOK /\ MarkInv /\ EdgeInv /\ FilesHold /\ checked = {} /\ LiveXorMarked /\ OwnFaces
  BY DEF DiskInv, EdgeInv, MarkInv
<1> DEFINE Goal == \A e \in relFiles' : Stands(e.from)' /\ Stands(e.to)'
           Kept(e) == Stands(e.from) /\ Stands(e.to)
<1>0. ~Fault
  BY FaultsCount
<1>a. ASSUME faults = 0 PROVE \A e \in relFiles : Kept(e)
  BY <1>a DEF DiskInv, EndsKept
<1>1. ASSUME NEW m \in Meta, CreateEntity(m) PROVE Goal
  <2>1. \A x : Stands(x) => Stands(x)'
    BY <1>1, StillStands DEF CreateEntity, Family, rest
  <2> QED
    BY <1>1, <1>a, <2>1 DEF CreateEntity, rest
<1>2. ASSUME NEW m \in Meta, DeleteFace(m) PROVE Goal
  <2>1. faults = 0 /\ relFiles' = relFiles \ OwnedEdges(m) /\ live' = live \ {m}
        /\ famEnts' = famEnts /\ m \in live
    BY <1>2 DEF DeleteFace, RemoveFiles, Cut
  <2>2. ASSUME NEW e \in relFiles', NEW x, Touches(e, x), Stands(x) PROVE Stands(x)'
    <3>1. lastFaceOf \subseteq lastFaceOf'
      BY <1>2 DEF DeleteFace
    <3>2. CASE x # m.id
      BY <2>1, <2>2, <3>1, <3>2, StillStands DEF Family
    <3>3. CASE x = m.id /\ ~IsLastFace(m)
      <4>1. PICK k \in Family(m.id) : k # m
        BY <2>1, <3>3 DEF IsLastFace, Family
      <4> QED
        BY <2>1, <3>3, <4>1 DEF Stands, Family
    <3>4. CASE x = m.id /\ IsLastFace(m)
      <4>1. e \notin edges
        BY <2>1, <2>2, <3>4 DEF OwnedEdges
      <4>2. e \in Hidden(x)
        BY <1>2, <2>1, <2>2, <4>1, HiddenIs DEF DiskInv, RelationsHold, DeleteFace
      <4> QED
        BY <1>2, <3>4, <4>2 DEF DeleteFace, Stands
    <3> QED
      BY <3>2, <3>3, <3>4
  <2>3. relFiles' \subseteq relFiles
    BY <2>1
  <2> QED
    BY <1>a, <2>1, <2>2, <2>3 DEF Touches
<1>3. ASSUME NEW m \in Meta, DeleteFaceFails(m) PROVE FALSE
  BY <1>0, <1>3 DEF DeleteFaceFails
<1>4. ASSUME NEW m \in Meta, NEW k \in Meta, UpdateEntity(m, k) PROVE Goal
  <2>1. k.id = m.id
    BY <1>4 DEF UpdateEntity, Retypes, Meta
  <2>2. \A x : Stands(x) => Stands(x)'
    BY <1>4, <2>1 DEF UpdateEntity, Stands, Family, rest
  <2> QED
    BY <1>4, <1>a, <2>2 DEF UpdateEntity, rest
<1>5. ASSUME NEW m \in Meta, NEW k \in Meta, UpdateEntityFails(m, k) PROVE FALSE
  BY <1>0, <1>5 DEF UpdateEntityFails
<1>6. ASSUME NEW i \in Id, NEW cascade \in BOOLEAN, DeleteFamily(i, cascade) PROVE Goal
  <2>1. /\ faults = 0 /\ relFiles' = relFiles \ (Hidden(i) \cup Related(i))
        /\ live' = live \ Family(i) /\ famEnts' = famEnts /\ lastFaceOf' = lastFaceOf
    BY <1>6 DEF DeleteFamily, RemoveFiles, Cut, rest
  <2>2. \A e \in relFiles' : e \in relFiles /\ ~Touches(e, i)
    BY <2>1, LeftOver
  <2>3. \A x : x # i /\ Stands(x) => Stands(x)'
    BY <2>1, StillStands DEF Family
  <2> QED
    BY <1>a, <2>1, <2>2, <2>3 DEF Touches
<1>7. ASSUME NEW i \in Id, DeleteFamilyFails(i) PROVE FALSE
  BY <1>0, <1>7 DEF DeleteFamilyFails, FilesHold, Family
<1>8. ASSUME NEW o \in Id, NEW n \in Id, RenameFamily(o, n) PROVE Goal
  <2>1. /\ faults = 0 /\ famEnts' = famEnts /\ lastFaceOf' = lastFaceOf
        /\ relFiles' = ((relFiles \ Hidden(o)) \cup Moved(Related(o), o, n)) \ Related(o)
        /\ live' = (live \ Family(o)) \cup Renamed(Family(o), n)
    BY <1>8 DEF RenameFamily, RenameFiles, RenameCut, Rekey, rest
  <2>2. \A x : x # o /\ Stands(x) => Stands(x)'
    BY <2>1, StillStands DEF Family
  <2>3. Stands(n)'
    <3>1. PICK m : m \in Family(o)
      BY <1>8 DEF RenameFamily, MayRename
    <3>2. [m EXCEPT !.id = n] \in live' /\ [m EXCEPT !.id = n].id = n
      BY <2>1, <3>1 DEF Renamed, Family, TypeOK, Meta
    <3> QED
      BY <3>2 DEF Stands, Family
  <2>4. ASSUME NEW e \in relFiles', e \in relFiles PROVE Stands(e.from)' /\ Stands(e.to)'
    <3>1. ~Touches(e, o)
      <4>1. e \notin Related(o)
        BY <2>1
      <4>2. e \in relFiles \ Hidden(o) \/ e \in Moved(Related(o), o, n)
        BY <2>1
      <4>3. CASE e \in Moved(Related(o), o, n)
        BY <1>8, <4>3, MovedApart
           DEF Related, TypeOK, RenameFamily, MayRename, NoSelfRename
      <4> QED
        BY <1>8, <2>1, <4>1, <4>2, <4>3, LeftOver
    <3> QED
      BY <1>a, <2>1, <2>2, <2>4, <3>1 DEF Touches
  <2>5. ASSUME NEW e \in Moved(Related(o), o, n) PROVE Stands(e.from)' /\ Stands(e.to)'
    <3>1. Related(o) \in SUBSET Edge /\ Related(o) \subseteq relFiles
      BY <1>8, <2>1 DEF Related, TypeOK, DiskInv, RelationsHold, RenameFamily
    <3>2. PICK d \in Related(o) : /\ e.from = n \/ (e.from = d.from /\ e.from # o)
                                  /\ e.to = n \/ (e.to = d.to /\ e.to # o)
      BY <3>1, MovedEnds
    <3> QED
      BY <1>a, <2>1, <2>2, <2>3, <3>1, <3>2
  <2> QED
    BY <2>1, <2>4, <2>5
<1>9. ASSUME NEW o \in Id, NEW n \in Id, RenameLeavesFiles(o, n) PROVE FALSE
  BY <1>0, <1>9 DEF RenameLeavesFiles
<1>10. ASSUME NEW o \in Id, NEW n \in Id, RenameFails(o, n) PROVE FALSE
  BY <1>0, <1>10 DEF RenameFails, FilesHold, Family
<1>11. ASSUME NEW e \in Edge, CheckEndpoints(e) \/ DeleteRelation(e) PROVE Goal
  <2>1. \A x : Stands(x) => Stands(x)'
    BY <1>11 DEF CheckEndpoints, DeleteRelation, Stands, Family, rest
  <2> QED
    BY <1>11, <1>a, <2>1 DEF CheckEndpoints, DeleteRelation, disk, rest
<1>12. ASSUME NEW e \in Edge, CreateRelation(e) PROVE Goal
  <2>1. \A x : Stands(x) => Stands(x)'
    BY <1>12 DEF CreateRelation, Stands, Family, rest
  <2>2. Stands(e.from) /\ Stands(e.to)
    BY <1>12 DEF CreateRelation, EndsLive, Stands
  <2> QED
    BY <1>12, <1>a, <2>1, <2>2 DEF CreateRelation, rest
<1>13. ASSUME NEW i \in Id, MarkDeleted(i) PROVE Goal
  <2>1. \A x \in Id : Stands(x) => Stands(x)'
    BY <1>13 DEF MarkDeleted, Stands, Family, TypeOK
  <2> QED
    BY <1>13, <1>a, <2>1, RelationEnds DEF MarkDeleted
<1>14. ASSUME NEW i \in Id, Unmark(i) PROVE Goal
  <2>1. \A x \in Id : Stands(x) => Stands(x)'
    BY <1>14 DEF Unmark, Restored, Stands, Family, OwnFaces, TypeOK, rest
  <2> QED
    BY <1>14, <1>a, <2>1, RelationEnds DEF Unmark, rest
<1>15. ASSUME NEW i \in Id, PurgeMarked(i) PROVE Goal
  <2>1. /\ faults = 0 /\ relFiles' = relFiles \ Doomed(i) /\ markedAt[i] # 0
        /\ live' = live /\ famEnts' = [famEnts EXCEPT ![i] = {}]
        /\ lastFaceOf' = lastFaceOf
    BY <1>15 DEF PurgeMarked, rest
  <2>2. \A e \in relFiles' : e \in relFiles /\ ~Touches(e, i)
    BY <2>1, LeftByPurge
  <2>3. \A x \in Id : x # i /\ Stands(x) => Stands(x)'
    BY <2>1 DEF Family, Stands, TypeOK
  <2> QED
    BY <1>a, <2>1, <2>2, <2>3, RelationEnds DEF Touches
<1>16. ASSUME NEW i \in Id, PurgeFails(i) PROVE FALSE
  BY <1>0, <1>16 DEF PurgeFails
<1> QED
  BY <1>1, <1>2, <1>3, <1>4, <1>5, <1>6, <1>7, <1>8, <1>9, <1>10, <1>11, <1>12,
     <1>13, <1>14, <1>15, <1>16
     DEF Next, EntityStep, RelationStep, SoftDeleteStep, Crash, Reopen

-----------------------------------------------------------------------------
(* The cuts of a crash, and the next open.                                   *)

\* A removal that takes an entity file has taken every relation first.
LEMMA RelationsGoFirst ==
    ASSUME NEW H, NEW R, NEW E, NEW c \in DeleteCuts(H, R, E)
    PROVE  c.ents # {} => c.rels = H \cup R
BY DEF DeleteCuts, Cut

\* A rename writes all faces before it rewrites a relation, and drops or
\* rewrites all relations before it removes an old face.
LEMMA FacesGoFirst ==
    ASSUME NEW o, NEW n, NEW c \in RenameCuts(o, n)
    PROVE  /\ c.wrote # {} => c.new = Renamed(Family(o), n)
           /\ c.old # {} => c.hid = Hidden(o) /\ c.gone = Related(o)
BY DEF RenameCuts, RenameCut

LEMMA FilesStayOnDisk ==
    ASSUME NEW x, OnDisk(x), entFiles \subseteq entFiles', lastFaceOf' = lastFaceOf
    PROVE  OnDisk(x)'
BY DEF OnDisk

\* A removal over i cut short: the relations of i are gone when a face is.
LEMMA CutRemovalEnds ==
    ASSUME TypeOK, NEW i \in Id, NEW H, NEW R, NEW E, NEW c \in DeleteCuts(H, R, E),
           RemoveFiles(c), lastFaceOf' = lastFaceOf,
           \A e \in relFiles : OnDisk(e.from) /\ OnDisk(e.to),
           \A m \in E : m.id = i,
           \A e \in relFiles \ (H \cup R) : ~Touches(e, i)
    PROVE  \A e \in relFiles' : OnDisk(e.from)' /\ OnDisk(e.to)'
<1>1. relFiles' = relFiles \ c.rels /\ entFiles' = entFiles \ c.ents
  BY DEF RemoveFiles
<1>2. CASE c.ents = {}
  BY <1>1, <1>2, FilesStayOnDisk
<1>3. CASE c.ents # {}
  <2>1. c.rels = H \cup R /\ c.ents \subseteq E
    BY <1>3, RelationsGoFirst, CutsBounded
  <2>2. \A x : x # i /\ OnDisk(x) => OnDisk(x)'
    BY <1>1, <2>1 DEF OnDisk
  <2> QED
    BY <1>1, <2>1, <2>2 DEF Touches
<1> QED
  BY <1>2, <1>3

LEMMA CutRenameEnds ==
    ASSUME NoSelfRename, DiskInv, up, faults = 0,
           NEW o \in Id, NEW n \in Id, RenameInterrupted(o, n), lastFaceOf' = lastFaceOf,
           \A e \in relFiles : OnDisk(e.from) /\ OnDisk(e.to)
    PROVE  \A e \in relFiles' : OnDisk(e.from)' /\ OnDisk(e.to)'
<1> TypeOK
  BY DEF DiskInv, EdgeInv, MarkInv
<1>1. MayRename(o, n) /\ n # o
  BY DEF RenameInterrupted, MayRename, NoSelfRename
<1>2. PICK c \in RenameCuts(o, n) : RenameFiles(o, n, c)
  BY DEF RenameInterrupted
<1>3. /\ entFiles' = (entFiles \cup c.new) \ c.old
      /\ relFiles' = ((relFiles \ c.hid) \cup Moved(c.wrote, o, n)) \ c.gone
      /\ c.wrote \subseteq Related(o) /\ c.old \subseteq Family(o)
      /\ c.new \subseteq Renamed(Family(o), n)
  BY <1>2, RenameCutsBounded DEF RenameFiles
<1>4. Related(o) \in SUBSET Edge /\ Related(o) \subseteq relFiles /\ Family(o) \subseteq Meta
  BY DEF Related, Family, TypeOK, DiskInv, RelationsHold
<1>5. \A m \in Renamed(Family(o), n) : m.id = n
  BY <1>4, RenamedType
<1>6. \A x : x # o /\ OnDisk(x) => OnDisk(x)'
  BY <1>3 DEF OnDisk, Family
<1>7. c.wrote # {} => OnDisk(n)'
  <2> SUFFICES ASSUME c.wrote # {} PROVE OnDisk(n)'
    OBVIOUS
  <2>1. c.new = Renamed(Family(o), n)
    BY <1>2, FacesGoFirst
  <2>2. PICK m : m \in Family(o)
    BY <1>1 DEF MayRename
  <2>3. PICK k : k \in c.new
    BY <2>1, <2>2 DEF Renamed
  <2>4. k.id = n /\ k \notin c.old
    BY <1>1, <1>3, <1>5, <2>3 DEF Family
  <2> QED
    BY <1>3, <2>3, <2>4 DEF OnDisk
<1>8. ASSUME NEW e \in Moved(c.wrote, o, n) PROVE OnDisk(e.from)' /\ OnDisk(e.to)'
  <2>1. c.wrote \in SUBSET Edge /\ c.wrote \subseteq relFiles
    BY <1>3, <1>4
  <2>2. PICK d \in c.wrote : /\ e.from = n \/ (e.from = d.from /\ e.from # o)
                             /\ e.to = n \/ (e.to = d.to /\ e.to # o)
    BY <2>1, MovedEnds
  <2> QED
    BY <1>6, <1>7, <2>1, <2>2
<1>9. ASSUME NEW e \in relFiles', e \in relFiles, e \notin Moved(c.wrote, o, n)
      PROVE  OnDisk(e.from)' /\ OnDisk(e.to)'
  <2>1. CASE c.old = {}
    <3>1. entFiles \subseteq entFiles'
      BY <1>3, <2>1
    <3> QED
      BY <1>9, <3>1, FilesStayOnDisk
  <2>2. CASE c.old # {}
    <3>1. c.hid = Hidden(o) /\ c.gone = Related(o)
      BY <1>2, <2>2, FacesGoFirst
    <3>2. e \notin Hidden(o) /\ e \notin Related(o)
      BY <1>3, <1>9, <3>1
    <3>3. ~Touches(e, o)
      BY <1>9, <3>2, LeftOver
    <3> QED
      BY <1>6, <1>9, <3>3 DEF Touches
  <2> QED
    BY <2>1, <2>2
<1> QED
  BY <1>3, <1>8, <1>9

LEMMA CrashEnds ==
    ASSUME NoSelfRename, DiskInv, Crash, faults = 0
    PROVE  \A e \in relFiles' : OnDisk(e.from)' /\ OnDisk(e.to)'
<1> TypeOK /\ up /\ lastFaceOf' = lastFaceOf /\ Interrupted
  BY DEF DiskInv, EdgeInv, MarkInv, Crash, rest
<1> DEFINE Goal == \A e \in relFiles' : OnDisk(e.from)' /\ OnDisk(e.to)'
<1>1. \A e \in relFiles : OnDisk(e.from) /\ OnDisk(e.to)
  BY StandingOnDisk, RelationEnds DEF DiskInv, EndsKept
<1>2. ASSUME entFiles \subseteq entFiles', relFiles' \subseteq relFiles PROVE Goal
  BY <1>1, <1>2, FilesStayOnDisk
<1>3. ASSUME NEW i \in Id, NEW c \in DeleteCuts(Hidden(i), Related(i), Family(i)),
             RemoveFiles(c)
      PROVE  Goal
  <2>1. \A e \in relFiles \ (Hidden(i) \cup Related(i)) : ~Touches(e, i)
    BY LeftOver
  <2>2. \A m \in Family(i) : m.id = i
    BY DEF Family
  <2> QED
    BY <1>1, <1>3, <2>1, <2>2, CutRemovalEnds
<1>4. ASSUME NEW m, NEW c \in DeleteCuts({}, OwnedEdges(m), {}), RemoveFiles(c)
      PROVE  Goal
  BY <1>2, <1>4, CutsBounded DEF RemoveFiles
<1>5. ASSUME NEW i \in Id, PurgeInterrupted(i) PROVE Goal
  <2>1. PICK c \in DeleteCuts({}, Doomed(i), famEnts[i]) : RemoveFiles(c)
    BY <1>5 DEF PurgeInterrupted
  <2>2. \A e \in relFiles \ ({} \cup Doomed(i)) : ~Touches(e, i)
    BY <1>5, LeftByPurge DEF PurgeInterrupted
  <2>3. \A m \in famEnts[i] : m.id = i
    BY DEF DiskInv, EdgeInv, MarkInv, OwnFaces
  <2> QED
    BY <1>1, <2>1, <2>2, <2>3, CutRemovalEnds
<1>6. ASSUME NEW o \in Id, NEW n \in Id, RenameInterrupted(o, n) PROVE Goal
  BY <1>1, <1>6, CutRenameEnds
<1>7. CASE UNCHANGED disk
  BY <1>2, <1>7 DEF disk
<1>8. ASSUME NEW k, entFiles' = entFiles \cup {k}, UNCHANGED <<relFiles, listed>>
      PROVE  Goal
  BY <1>2, <1>8
<1> QED
  BY <1>3, <1>4, <1>5, <1>6, <1>7, <1>8 DEF Interrupted

\* An open finds a face of every id with a file, live or under its mark.
LEMMA ReopenEnds ==
    ASSUME DiskInv, Reopen, faults = 0
    PROVE  \A e \in relFiles' : Stands(e.from)' /\ Stands(e.to)'
<1> TypeOK /\ ~up /\ lastFaceOf' = lastFaceOf /\ relFiles' = relFiles
  BY DEF DiskInv, EdgeInv, MarkInv, Reopen, rest, disk
<1>1. PICK L \in Scans(entFiles) :
        /\ live' = {m \in L : OpenMarks(L)[m.id] = 0}
        /\ famEnts' = [i \in Id |-> {m \in L : m.id = i /\ OpenMarks(L)[i] # 0}]
  BY DEF Reopen
<1>2. ASSUME NEW x \in Id, OnDisk(x) PROVE Stands(x)'
  <2>1. CASE x \in lastFaceOf
    BY <2>1 DEF Stands
  <2>2. CASE \E m \in entFiles : m.id = x
    <3>1. PICK k \in L : k.id = x
      BY <2>2 DEF Scans, SameKey
    <3>2. CASE OpenMarks(L)[x] = 0
      BY <1>1, <3>1, <3>2 DEF Stands, Family
    <3>3. CASE OpenMarks(L)[x] # 0
      BY <1>1, <3>1, <3>3 DEF Stands
    <3> QED
      BY <3>2, <3>3
  <2> QED
    BY <1>2, <2>1, <2>2 DEF OnDisk
<1> QED
  BY <1>2, RelationEnds DEF DiskInv, EndsKept

LEMMA DiskStep ==
    ASSUME NoVariants, NoSelfRename, Serial, DiskInv, [Next]_vars
    PROVE  DiskInv'
<1> EdgeInv /\ MarkInv /\ TypeOK /\ FilesHold /\ RelationsHold /\ EndsKept
  BY DEF DiskInv, EdgeInv, MarkInv
<1>1. EdgeInv' /\ FilesHold' /\ RelationsHold'
  BY EdgeStep, FilesStep, RelationsStep
<1>2. CASE UNCHANGED vars
  BY <1>1, <1>2 DEF vars, disk, memory, rest, EndsKept, Stands, OnDisk, Family, DiskInv
<1>3. CASE Crash
  <2>1. faults' = faults /\ ~up' /\ edges' = {}
    BY <1>3 DEF Crash, rest
  <2> QED
    BY <1>1, <1>3, <2>1, CrashEnds DEF EndsKept, DiskInv
<1>4. CASE Reopen
  <2>1. faults' = faults /\ up'
    BY <1>4 DEF Reopen, rest
  <2> QED
    BY <1>1, <1>4, <2>1, ReopenEnds DEF EndsKept, DiskInv
<1>5. CASE Next /\ ~Crash /\ ~Reopen
  <2>1. up /\ up'
    <3>1. ASSUME EntityStep PROVE up /\ up'
      <4>1. ASSUME NEW m \in Meta, CreateEntity(m) \/ DeleteFace(m) \/ DeleteFaceFails(m)
            PROVE  up /\ up'
        BY <4>1 DEF CreateEntity, DeleteFace, DeleteFaceFails
      <4>2. ASSUME NEW m \in Meta, NEW k \in Meta,
                   UpdateEntity(m, k) \/ UpdateEntityFails(m, k)
            PROVE  up /\ up'
        BY <4>2 DEF UpdateEntity, UpdateEntityFails, memory
      <4>3. ASSUME NEW i \in Id, NEW cascade \in BOOLEAN,
                   DeleteFamily(i, cascade) \/ DeleteFamilyFails(i)
            PROVE  up /\ up'
        BY <4>3 DEF DeleteFamily, DeleteFamilyFails
      <4>4. ASSUME NEW o \in Id, NEW n \in Id,
                   RenameFamily(o, n) \/ RenameFails(o, n) \/ RenameLeavesFiles(o, n)
            PROVE  up /\ up'
        BY <4>4 DEF RenameFamily, RenameFails, RenameLeavesFiles
      <4> QED
        BY <3>1, <4>1, <4>2, <4>3, <4>4 DEF EntityStep
    <3>2. ASSUME RelationStep PROVE up /\ up'
      BY <3>2 DEF RelationStep, CheckEndpoints, CreateRelation, DeleteRelation
    <3>3. ASSUME SoftDeleteStep PROVE up /\ up'
      BY <3>3 DEF SoftDeleteStep, MarkDeleted, Unmark, PurgeMarked, PurgeFails, memory
    <3> QED
      BY <1>5, <3>1, <3>2, <3>3 DEF Next
  <2> QED
    BY <1>1, <1>5, <2>1, EndsStep DEF EndsKept, DiskInv
<1> QED
  BY <1>2, <1>3, <1>4, <1>5

LEMMA DiskInvHolds ==
    ASSUME NoVariants, NoSelfRename, Serial
    PROVE  Spec => []DiskInv
<1>1. Init => DiskInv
  <2> SUFFICES ASSUME Init PROVE DiskInv
    OBVIOUS
  <2>1. MarkInv
    BY TypeInit DEF Init, MarkInv, LiveXorMarked, OwnFaces
  <2>2. EdgeInv
    BY <2>1 DEF Init, EdgeInv, MarksAreListed, TimesInOrder, LiveEdgesAvoidMarks,
       HeldByFirstMark
  <2> QED
    BY <2>2 DEF Init, DiskInv, FilesHold, RelationsHold, AllHidden, EndsKept
<1>2. DiskInv /\ [Next]_vars => DiskInv'
  BY DiskStep
<1> QED
  BY <1>1, <1>2, PTL DEF Spec

\* No crash and no sequence of calls leaves a live relation without an end, but
\* at an id whose last face went from under a hidden relation.
THEOREM RelationsKeepEnds ==
    ASSUME NoVariants, NoSelfRename, Serial
    PROVE  Spec => []EdgesHaveEnds
<1>1. DiskInv => EdgesHaveEnds
  <2> SUFFICES ASSUME DiskInv, faults = 0, NEW e \in edges,
                      {e.from, e.to} \cap lastFaceOf = {}
               PROVE  EndsLive(e)
    BY DEF EdgesHaveEnds
  <2>1. up /\ e \in relFiles
    BY DEF DiskInv, EndsKept, RelationsHold
  <2>2. Stands(e.from) /\ Stands(e.to)
    BY <2>1 DEF DiskInv, EndsKept
  <2>3. e.from \in Id /\ e.to \in Id
    BY RelationEnds DEF DiskInv, EdgeInv, MarkInv
  <2>4. famEnts[e.from] = {} /\ famEnts[e.to] = {}
    BY <2>3 DEF DiskInv, EdgeInv, MarkInv, OwnFaces, LiveEdgesAvoidMarks
  <2> QED
    BY <2>2, <2>4 DEF Stands, EndsLive
<1> QED
  BY <1>1, DiskInvHolds, PTL

-----------------------------------------------------------------------------
(* What an open would build.  A crash in the middle of a change of type      *)
(* leaves two files of one face, and the index lists one: with a second type *)
(* a face can be deleted and come back at the next open.                     *)

OneType == \A s, t \in Type : s = t

NoOrphans == up /\ faults = 0 => entFiles \subseteq live \cup UNION {famEnts[i] : i \in Id}

LEMMA OneFileAFace ==
    ASSUME OneType, NEW m \in Meta, NEW k \in Meta, SameKey(m, k)
    PROVE  m = k
BY DEF OneType, Meta, SameKey

LEMMA OrphansStep ==
    ASSUME OneType, MarkInv, NoOrphans, FilesHold, [Next]_vars
    PROVE  NoOrphans'
<1> TypeOK
  BY DEF MarkInv
<1> DEFINE Hides(m) == \E i \in Id : m \in famEnts[i]
<1> SUFFICES ASSUME up', faults' = 0, NEW m \in entFiles'
             PROVE  m \in live' \/ Hides(m)'
  BY DEF NoOrphans
<1>0. ~Fault
  BY FaultsCount
<1>a. ASSUME up, faults = 0, m \in entFiles PROVE m \in live \/ Hides(m)
  BY <1>a DEF NoOrphans
<1>1. ASSUME NEW k \in Meta, CreateEntity(k) PROVE m \in live' \/ Hides(m)'
  BY <1>1, <1>a DEF CreateEntity, rest
<1>2. ASSUME NEW k \in Meta, DeleteFace(k) PROVE m \in live' \/ Hides(m)'
  BY <1>2, <1>a DEF DeleteFace, RemoveFiles, Cut
<1>3. ASSUME NEW k \in Meta, DeleteFaceFails(k) PROVE FALSE
  BY <1>0, <1>3 DEF DeleteFaceFails
<1>4. ASSUME NEW j \in Meta, NEW k \in Meta, UpdateEntity(j, k) \/ UpdateEntityFails(j, k)
      PROVE  FALSE
  BY <1>4 DEF UpdateEntity, UpdateEntityFails, Retypes, OneType, Meta
<1>5. ASSUME NEW i \in Id, NEW cascade \in BOOLEAN, DeleteFamily(i, cascade)
      PROVE  m \in live' \/ Hides(m)'
  BY <1>5, <1>a DEF DeleteFamily, RemoveFiles, Cut, rest
<1>6. ASSUME NEW i \in Id, DeleteFamilyFails(i) PROVE FALSE
  BY <1>0, <1>6 DEF DeleteFamilyFails, FilesHold, Family
<1>7. ASSUME NEW o \in Id, NEW n \in Id, RenameFamily(o, n)
      PROVE  m \in live' \/ Hides(m)'
  BY <1>7, <1>a DEF RenameFamily, RenameFiles, RenameCut, Rekey, rest
<1>8. ASSUME NEW o \in Id, NEW n \in Id, RenameLeavesFiles(o, n) PROVE FALSE
  BY <1>0, <1>8 DEF RenameLeavesFiles
<1>9. ASSUME NEW o \in Id, NEW n \in Id, RenameFails(o, n) PROVE FALSE
  BY <1>0, <1>9 DEF RenameFails, FilesHold, Family
<1>10. CASE RelationStep
  BY <1>10, <1>a DEF RelationStep, CheckEndpoints, CreateRelation, DeleteRelation, disk, rest
<1>11. ASSUME NEW i \in Id, MarkDeleted(i) PROVE m \in live' \/ Hides(m)'
  <2>1. famEnts[i] = {}
    BY <1>11 DEF MarkDeleted, Family, MarkInv, LiveXorMarked, OwnFaces
  <2> QED
    BY <1>11, <1>a, <2>1 DEF MarkDeleted, TypeOK
<1>12. ASSUME NEW i \in Id, Unmark(i) PROVE m \in live' \/ Hides(m)'
  BY <1>12, <1>a DEF Unmark, Restored, TypeOK, rest
<1>13. ASSUME NEW i \in Id, PurgeMarked(i) PROVE m \in live' \/ Hides(m)'
  BY <1>13, <1>a DEF PurgeMarked, TypeOK, rest
<1>14. ASSUME NEW i \in Id, PurgeFails(i) PROVE FALSE
  BY <1>0, <1>14 DEF PurgeFails
<1>15. CASE Crash
  BY <1>15 DEF Crash
<1>16. CASE Reopen
  <2>1. PICK L \in Scans(entFiles) :
          /\ live' = {k \in L : OpenMarks(L)[k.id] = 0}
          /\ famEnts' = [i \in Id |-> {k \in L : k.id = i /\ OpenMarks(L)[i] # 0}]
    BY <1>16 DEF Reopen
  <2>2. m \in entFiles
    BY <1>16 DEF Reopen, disk
  <2>3. PICK k \in L : SameKey(m, k)
    BY <2>2 DEF Scans
  <2>4. m \in L /\ m.id \in Id
    BY <2>2, <2>3, OneFileAFace DEF Scans, TypeOK, Meta
  <2> QED
    BY <2>1, <2>4
<1>17. CASE UNCHANGED vars
  BY <1>17, <1>a DEF vars, disk, memory, rest
<1> QED
  BY <1>1, <1>2, <1>3, <1>4, <1>5, <1>6, <1>7, <1>8, <1>9, <1>10, <1>11, <1>12,
     <1>13, <1>14, <1>15, <1>16, <1>17
     DEF Next, EntityStep, SoftDeleteStep

\* An edge on disk is hidden by the mark an open would give it to.
LEMMA HeldAsScanned ==
    ASSUME DiskInv, up, faults = 0, NEW i \in Id
    PROVE  famEdges[i] = {e \in relFiles : HoldsFirst(i, e, markedAt)}
<1> /\ TypeOK /\ HeldByFirstMark /\ LiveEdgesAvoidMarks
    /\ relFiles = edges \cup AllHidden
  BY DEF DiskInv, EdgeInv, MarkInv, RelationsHold
<1>1. ASSUME NEW e \in famEdges[i] PROVE e \in relFiles /\ HoldsFirst(i, e, markedAt)
  <2>1. markedAt[i] # 0 /\ Touches(e, i)
    BY DEF HeldByFirstMark
  <2>2. \A j \in {e.from, e.to} \ {i} : markedAt[j] = 0 \/ markedAt[i] < markedAt[j]
    BY DEF HeldByFirstMark
  <2>3. \A j \in Id : markedAt[j] \in Nat
    BY DEF TypeOK
  <2>4. \A j \in Id : markedAt[j] # 0 /\ Touches(e, j) => markedAt[i] <= markedAt[j]
    BY <2>2, <2>3 DEF Touches
  <2> QED
    BY <2>1, <2>4 DEF HoldsFirst, AllHidden
<1>2. ASSUME NEW e \in relFiles, HoldsFirst(i, e, markedAt) PROVE e \in famEdges[i]
  <2>1. markedAt[i] # 0 /\ Touches(e, i)
    BY <1>2 DEF HoldsFirst
  <2>2. e \notin edges
    BY <2>1 DEF LiveEdgesAvoidMarks, Touches
  <2>3. PICK k \in Id : e \in famEdges[k]
    BY <2>2 DEF AllHidden
  <2>4. markedAt[k] # 0 /\ Touches(e, k)
    BY <2>3 DEF HeldByFirstMark
  <2>5. markedAt[i] <= markedAt[k]
    BY <1>2, <2>4 DEF HoldsFirst
  <2>6. k # i => markedAt[k] < markedAt[i]
    BY <2>1, <2>3 DEF HeldByFirstMark, Touches
  <2>7. markedAt[i] \in Nat /\ markedAt[k] \in Nat
    BY DEF TypeOK
  <2> QED
    BY <2>3, <2>5, <2>6, <2>7
<1> QED
  BY <1>1, <1>2

\* With one entity type, the memory of a running store is what an open would
\* build from its files: nothing forgotten, nothing without a file, each hidden
\* relation with the mark that an open would give it to.
THEOREM MemoryIsAReopen ==
    ASSUME NoVariants, NoSelfRename, Serial, OneType
    PROVE  Spec => []ReopenAgrees
<1>1. Init => NoOrphans
  BY DEF Init, NoOrphans
<1>2. DiskInv /\ NoOrphans /\ [Next]_vars => NoOrphans'
  BY OrphansStep DEF DiskInv, EdgeInv
<1>3. DiskInv /\ NoOrphans => ReopenAgrees
  <2> SUFFICES ASSUME DiskInv, NoOrphans, up, faults = 0, \A i \in Id : ~Stale(i)
               PROVE  /\ live \cup UNION {famEnts[i] : i \in Id} \in Scans(entFiles)
                      /\ \A i \in Id : /\ markedAt[i] = listed[i]
                                       /\ famEdges[i] = {e \in relFiles : HoldsFirst(i, e, markedAt)}
                                       /\ \A m \in famEnts[i] : m.id = i
                      /\ edges = {e \in relFiles : markedAt[e.from] = 0 /\ markedAt[e.to] = 0}
    BY DEF ReopenAgrees
  <2> /\ TypeOK /\ MarkInv /\ EdgeInv /\ MarksAreListed /\ LiveEdgesAvoidMarks
      /\ HeldByFirstMark
    BY DEF DiskInv, EdgeInv, MarkInv
  <2>1. live \cup UNION {famEnts[i] : i \in Id} = entFiles
    BY DEF NoOrphans, DiskInv, FilesHold
  <2>2. entFiles \in Scans(entFiles)
    BY OneFileAFace DEF Scans, SameKey, TypeOK
  <2>3. \A i \in Id : markedAt[i] = listed[i]
    BY DEF MarksAreListed, Stale
  <2>4. \A i \in Id : famEdges[i] = {e \in relFiles : HoldsFirst(i, e, markedAt)}
    BY HeldAsScanned
  <2>5. \A i \in Id : \A m \in famEnts[i] : m.id = i
    BY DEF MarkInv, OwnFaces
  <2>6. relFiles = edges \cup AllHidden
    BY DEF DiskInv, RelationsHold
  <2>7. \A e \in AllHidden : markedAt[e.from] # 0 \/ markedAt[e.to] # 0
    BY DEF AllHidden, HeldByFirstMark, Touches
  <2>8. edges = {e \in relFiles : markedAt[e.from] = 0 /\ markedAt[e.to] = 0}
    BY <2>6, <2>7 DEF LiveEdgesAvoidMarks
  <2> QED
    BY <2>1, <2>2, <2>3, <2>4, <2>5, <2>8
<1> QED
  BY <1>1, <1>2, <1>3, DiskInvHolds, PTL DEF Spec

=============================================================================
