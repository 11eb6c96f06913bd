------------------------------ MODULE MemStore ------------------------------
(***************************************************************************)
(* The memory store as a state machine: its maps, and one action for each  *)
(* method that changes them.  FsStoreContract shows that the file store    *)
(* does the same on its index.                                             *)
(***************************************************************************)
EXTENDS StoreMaps

CONSTANT
    MaxMarks    \* bound: soft deletes in a behaviour

VARIABLES
    maps,   \* MemStore.entities, relations and marked
    clock   \* time of the last mark

vars == <<maps, clock>>

-----------------------------------------------------------------------------

Becomes(g) == maps' = g /\ UNCHANGED clock

CreateEntity(m) == MayCreate(maps, m) /\ Becomes(WithEntity(maps, m))

\* Only the implicit face may change its type.
UpdateEntity(m, t) ==
    /\ m \in maps.live /\ m.face = Implicit
    /\ Becomes([maps EXCEPT !.live = (@ \ {m}) \cup {[m EXCEPT !.type = t]}])

DeleteFamily(i, cascade) ==
    /\ FamilyOf(maps, i) # {}
    /\ cascade \/ Incident(maps, i) = {}
    /\ Becomes(Without(maps, i))

DeleteFace(m) == m \in maps.live /\ Becomes(WithoutFace(maps, m))

RenameFamily(o, n) == MayRename(maps, o, n) /\ Becomes(Rekeyed(maps, o, n))

\* The ends are not looked at.
CreateRelation(e) == e \notin maps.edges /\ Becomes(WithEdge(maps, e))

DeleteRelation(e) == e \in maps.edges /\ Becomes([maps EXCEPT !.edges = @ \ {e}])

MarkDeleted(i) ==
    /\ FamilyOf(maps, i) # {} /\ clock < MaxMarks
    /\ clock' = clock + 1
    /\ maps' = Marked(maps, i, clock')

Unmark(i) == IsMarked(maps, i) /\ Becomes(Unmarked(maps, i))

PurgeMarked(i) == IsMarked(maps, i) /\ Becomes(Purged(maps, i))

-----------------------------------------------------------------------------

Init == maps = Empty /\ clock = 0

Next ==
    \/ \E m \in Entity : \/ CreateEntity(m) \/ DeleteFace(m)
                         \/ \E t \in Type : UpdateEntity(m, t)
    \/ \E e \in Relation : CreateRelation(e) \/ DeleteRelation(e)
    \/ \E i \in Id : \/ \E cascade \in BOOLEAN : DeleteFamily(i, cascade)
                     \/ \E n \in Id : RenameFamily(i, n)
                     \/ MarkDeleted(i) \/ Unmark(i) \/ PurgeMarked(i)

Spec == Init /\ [][Next]_vars

=============================================================================
