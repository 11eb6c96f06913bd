------------------------------ MODULE FsStore ------------------------------
(***************************************************************************)
(* The file store of rela (internal/store/fsstore): entities and relations *)
(* as one markdown file each, an in-memory index built by scanning the     *)
(* directories when the store opens, and the soft-delete marks behind the  *)
(* Undo toast, kept in memory and listed in pending-deletes.json.          *)
(*                                                                         *)
(* Every write runs under txMu and mu, so one operation is one step.  What *)
(* is not atomic is the disk: an operation is a sequence of file writes    *)
(* and removals, and it may return an error in the middle (an I/O fault)   *)
(* or die there (a crash).  A "cut" below is what had reached the disk by  *)
(* then; a crash loses the memory and the next open rebuilds it.           *)
(*                                                                         *)
(* Abstracted: file contents, mentions, attachments, relation types (one), *)
(* the order of removals inside one phase (the code sorts by key; here any *)
(* order), and operations that leave every variable as it was (an update   *)
(* that keeps the type, a refused call).                                   *)
(***************************************************************************)
EXTENDS Naturals, FiniteSets

CONSTANTS
    Id,             \* bare entity ids
    Face,           \* faces (content states) an entity may have
    Implicit,       \* the implicit face
    Type,           \* declared entity types
    Fold,           \* storeutil.FoldID: the case-folded form of an id
    RenameTo,       \* the new ids callers ask for, for each id
    MaxFiles,       \* bound: entity files on disk when one is created
    MaxEdges,       \* bound: relation files on disk when one is created
    MaxMarks,       \* bound: soft deletes in a behaviour
    MaxFaults,      \* bound: I/O faults in a behaviour
    MaxInFlight     \* relation creates whose endpoint check may be stale

ASSUME ConstantsAssumption ==
    /\ Implicit \in Face
    /\ Fold \in [Id -> Id]
    /\ RenameTo \in [Id -> SUBSET Id]
    /\ MaxFiles \in Nat /\ MaxEdges \in Nat /\ MaxMarks \in Nat
    /\ MaxFaults \in Nat /\ MaxInFlight \in Nat

Meta == [id: Id, face: Face, type: Type]
Edge == [from: Id, face: Face, to: Id]

VARIABLES
    \* on disk
    entFiles,   \* entity files
    relFiles,   \* relation files
    listed,     \* pending-deletes.json: id -> time of its mark, 0 if absent
    \* in memory
    up,         \* the store is open
    live,       \* FSStore.entities, one Meta per (id, face)
    edges,      \* FSStore.relations
    markedAt,   \* FSStore.marked: id -> fsMarked.at, 0 if not marked
    famEnts,    \* fsMarked.entities of each marked id
    famEdges,   \* fsMarked.relations of each marked id
    checked,    \* relations a caller has checked the endpoints of
    \* the environment, and history
    clock,      \* time of the last mark
    faults,     \* I/O faults so far
    lastFaceOf  \* ids whose last face DeleteFace removed under a hidden edge

disk   == <<entFiles, relFiles, listed>>
memory == <<up, live, edges, markedAt, famEnts, famEdges, checked>>
rest   == <<clock, faults, lastFaceOf>>
vars   == <<disk, memory, rest>>

-----------------------------------------------------------------------------
(* Reads of the index. *)

Touches(e, i) == e.from = i \/ e.to = i
OtherEnd(e, i) == IF e.from = i THEN e.to ELSE e.from

\* stateFamily: the indexed faces of an id, and the edges on either end.
Family(i)  == {m \in live : m.id = i}

\* Mutant of Related: the edges that come in are not looked for.
RelatedOutgoing(i) == {e \in edges : e.from = i}

Related(i) == {e \in edges : Touches(e, i)}

\* Mutant of Hidden: dropMarkedEdges is not called.
HiddenForgotten(i) == {}

\* The hidden edges touching i, whichever marked family holds them.
Hidden(i) == {e \in UNION {famEdges[j] : j \in Id} : Touches(e, i)}

\* Case-folded, except ids folding like one in skip.
IdTaken(i, skip) ==
    \E m \in live : Fold[m.id] = Fold[i] /\ \A s \in skip : Fold[m.id] # Fold[s]

\* Mutant of MarkedTaken: a marked id is free to take.
MarkedNeverTaken(i, skip) == FALSE

MarkedTaken(i, skip) ==
    \E j \in Id : /\ markedAt[j] # 0 /\ Fold[j] = Fold[i]
                  /\ \A s \in skip : Fold[j] # Fold[s]

EndsLive(e) == Family(e.from) # {} /\ Family(e.to) # {}

-----------------------------------------------------------------------------
(* What has reached the disk when an operation stops part-way. *)

Cut(rels, ents) == [rels |-> rels, ents |-> ents]

\* Removals go hidden edges, then live edges, then entity files.
DeleteCuts(H, R, E) ==
    {Cut(h, {}) : h \in SUBSET H}
      \cup {Cut(H \cup r, {}) : r \in SUBSET R}
      \cup {Cut(H \cup R, x) : x \in SUBSET E}

RemoveFiles(c) ==
    /\ entFiles' = entFiles \ c.ents
    /\ relFiles' = relFiles \ c.rels
    /\ UNCHANGED listed

\* Mutant of Renamed: the new id ends up in the face of the state key.
RenamedFace(S, n) == {[m EXCEPT !.face = n] : m \in S}

Renamed(S, n) == {[m EXCEPT !.id = n] : m \in S}
Moved(S, o, n) ==
    {[e EXCEPT !.from = IF @ = o THEN n ELSE @,
               !.to   = IF @ = o THEN n ELSE @] : e \in S}

RenameCut(hid, new, wrote, gone, old) ==
    [hid |-> hid, new |-> new, wrote |-> wrote, gone |-> gone, old |-> old]

\* Mutant of RenameCuts: the old faces go before the new ones are written.
RenameCutsRemoveFirst(o, n) ==
    {RenameCut(Hidden(o), {}, {}, {}, x) : x \in SUBSET Family(o)}

\* A rename drops the hidden edges, writes every face under the new id,
\* rewrites the edges one by one (new file, then the old one goes), and
\* removes the old faces.
RenameCuts(o, n) ==
    LET H == Hidden(o)  F == Family(o)  R == Related(o)  N == Renamed(F, n) IN
    {RenameCut(h, {}, {}, {}, {}) : h \in SUBSET H}
      \cup {RenameCut(H, x, {}, {}, {}) : x \in SUBSET N}
      \cup {RenameCut(H, N, w, w, {}) : w \in SUBSET R}
      \cup {RenameCut(H, N, w \cup {e}, w, {}) : w \in SUBSET R, e \in R}
      \cup {RenameCut(H, N, R, R, x) : x \in SUBSET F}

RenameFiles(o, n, c) ==
    /\ entFiles' = (entFiles \cup c.new) \ c.old
    /\ relFiles' = ((relFiles \ c.hid) \cup Moved(c.wrote, o, n)) \ c.gone
    /\ UNCHANGED listed

\* One I/O fault of the budget.
Fault == faults < MaxFaults /\ faults' = faults + 1

-----------------------------------------------------------------------------
(* Entities. *)

\* A named face needs the type of a sibling, any one of them; the implicit
\* face needs the id to be free.
CreateEntity(m) ==
    /\ up
    /\ Cardinality(entFiles) < MaxFiles
    /\ ~MarkedTaken(m.id, {})
    /\ IF m.face = Implicit
         THEN ~IdTaken(m.id, {})
         ELSE /\ \A k \in Family(m.id) : k.face # m.face
              /\ Family(m.id) # {} => \E k \in Family(m.id) : k.type = m.type
    /\ entFiles' = entFiles \cup {m}
    /\ live' = live \cup {m}
    /\ UNCHANGED <<relFiles, listed, up, edges, markedAt, famEnts, famEdges,
                   checked, rest>>

\* updateEntityIf with a new type: only the implicit face may change it.
Retypes(m, k) ==
    /\ m \in live \cap entFiles
    /\ m.face = Implicit
    /\ k \in {[m EXCEPT !.type = t] : t \in Type \ {m.type}}

UpdateEntity(m, k) ==
    /\ up /\ Retypes(m, k)
    /\ entFiles' = (entFiles \cup {k}) \ {m}
    /\ live' = (live \ {m}) \cup {k}
    /\ UNCHANGED <<relFiles, listed, up, edges, markedAt, famEnts, famEdges,
                   checked, rest>>

\* The file at the old path cannot be removed.
UpdateEntityFails(m, k) ==
    /\ up /\ Retypes(m, k) /\ Fault
    /\ entFiles' = entFiles \cup {k}
    /\ UNCHANGED <<relFiles, listed, memory, clock, lastFaceOf>>

\* deleteEntity: every face, every incident edge, and first the hidden
\* edges that touch the id (dropMarkedEdges).
DeleteFamily(i, cascade) ==
    /\ up
    /\ Family(i) # {} /\ Family(i) \subseteq entFiles
    /\ cascade \/ Related(i) = {}
    /\ RemoveFiles(Cut(Hidden(i) \cup Related(i), Family(i)))
    /\ live' = live \ Family(i)
    /\ edges' = edges \ Related(i)
    /\ famEdges' = [j \in Id |-> famEdges[j] \ Hidden(i)]
    /\ UNCHANGED <<up, markedAt, famEnts, checked, rest>>

\* A removal fails, or a face cannot be loaded: the index forgets exactly
\* what came off disk.
DeleteFamilyFails(i) ==
    /\ up /\ Family(i) # {}
    /\ \E c \in DeleteCuts(Hidden(i), Related(i), Family(i)) :
         /\ c.ents # Family(i)
         /\ \/ Fault /\ (Family(i) \subseteq entFiles \/ c.rels \subseteq Hidden(i))
            \/ /\ ~(Family(i) \subseteq entFiles)
               /\ c = Cut(Hidden(i), {}) /\ UNCHANGED faults
         /\ RemoveFiles(c)
         /\ live' = live \ c.ents
         /\ edges' = edges \ (c.rels \cap relFiles)
         /\ famEdges' = [j \in Id |-> famEdges[j] \ (c.rels \cap Hidden(i))]
    /\ UNCHANGED <<up, markedAt, famEnts, checked, clock, lastFaceOf>>

\* The edges a face takes with it: those on its own tail, and every
\* incident edge when it is the last face.
IsLastFace(m) == Family(m.id) = {m}
OwnedEdges(m) ==
    {e \in edges : \/ e.from = m.id /\ e.face = m.face /\ m.face # Implicit
                   \/ IsLastFace(m) /\ Touches(e, m.id)}

DeleteFace(m) ==
    /\ up /\ m \in live \cap entFiles
    /\ RemoveFiles(Cut(OwnedEdges(m), {m}))
    /\ live' = live \ {m}
    /\ edges' = edges \ OwnedEdges(m)
    /\ lastFaceOf' = IF IsLastFace(m) /\ Hidden(m.id) # {}
                       THEN lastFaceOf \cup {m.id} ELSE lastFaceOf
    /\ UNCHANGED <<up, markedAt, famEnts, famEdges, checked, clock, faults>>

DeleteFaceFails(m) ==
    /\ up /\ m \in live \cap entFiles /\ Fault
    /\ \E c \in DeleteCuts({}, OwnedEdges(m), {}) :
         /\ RemoveFiles(c)
         /\ edges' = edges \ c.rels
    /\ UNCHANGED <<up, live, markedAt, famEnts, famEdges, checked, clock,
                   lastFaceOf>>

MayRename(o, n) ==
    /\ Family(o) # {}
    /\ n \in RenameTo[o]
    /\ ~IdTaken(n, {o}) /\ ~MarkedTaken(n, {o})

Rekey(o, n) ==
    /\ live' = (live \ Family(o)) \cup Renamed(Family(o), n)
    /\ edges' = (edges \ Related(o)) \cup Moved(Related(o), o, n)

RenameFamily(o, n) ==
    /\ up /\ MayRename(o, n) /\ Family(o) \subseteq entFiles
    /\ RenameFiles(o, n, RenameCut(Hidden(o), Renamed(Family(o), n),
                                   Related(o), Related(o), Family(o)))
    /\ Rekey(o, n)
    /\ famEdges' = [j \in Id |-> famEdges[j] \ Hidden(o)]
    /\ UNCHANGED <<up, markedAt, famEnts, checked, rest>>

\* Failures to remove an old file are ignored: the call succeeds and the old
\* files stay.
RenameLeavesFiles(o, n) ==
    /\ up /\ MayRename(o, n) /\ Family(o) \subseteq entFiles /\ Fault
    /\ \E gone \in SUBSET Related(o), old \in SUBSET Family(o) :
         /\ gone # Related(o) \/ old # Family(o)
         /\ RenameFiles(o, n, RenameCut(Hidden(o), Renamed(Family(o), n),
                                        Related(o), gone, old))
    /\ Rekey(o, n)
    /\ famEdges' = [j \in Id |-> famEdges[j] \ Hidden(o)]
    /\ UNCHANGED <<up, markedAt, famEnts, checked, clock, lastFaceOf>>

\* Any other failure returns with the entity and relation index as it was,
\* even when every file has moved (the attachment directory comes last).
RenameFails(o, n) ==
    /\ up /\ MayRename(o, n)
    /\ \E c \in RenameCuts(o, n) :
         /\ \/ Fault /\ (Family(o) \subseteq entFiles \/ c.wrote = {})
            \/ ~(Family(o) \subseteq entFiles) /\ c.hid = Hidden(o)
               /\ c.wrote = {} /\ c.old = {} /\ UNCHANGED faults
         /\ c.new \subseteq Renamed(Family(o) \cap entFiles, n)
         /\ c.wrote = c.gone
         /\ c.old \in {{}, Family(o)}
         /\ RenameFiles(o, n, c)
         /\ famEdges' = [j \in Id |-> famEdges[j] \ c.hid]
    /\ UNCHANGED <<up, live, edges, markedAt, famEnts, checked, clock, lastFaceOf>>

-----------------------------------------------------------------------------
(* Relations.  The store does not look at the endpoints; the entity manager *)
(* does, before it takes the store's locks.                                 *)

CheckEndpoints(e) ==
    /\ up /\ EndsLive(e)
    /\ e \notin checked /\ Cardinality(checked) < MaxInFlight
    /\ checked' = checked \cup {e}
    /\ UNCHANGED <<disk, up, live, edges, markedAt, famEnts, famEdges, rest>>

CreateRelation(e) ==
    /\ up
    /\ Cardinality(relFiles) < MaxEdges
    /\ EndsLive(e) \/ e \in checked
    /\ e \notin edges
    /\ relFiles' = relFiles \cup {e}
    /\ edges' = edges \cup {e}
    /\ checked' = checked \ {e}
    /\ UNCHANGED <<entFiles, listed, up, live, markedAt, famEnts, famEdges, rest>>

\* A file already gone is an error here, and the index keeps the edge.
DeleteRelation(e) ==
    /\ up /\ e \in edges \cap relFiles
    /\ relFiles' = relFiles \ {e}
    /\ edges' = edges \ {e}
    /\ UNCHANGED <<entFiles, listed, up, live, markedAt, famEnts, famEdges,
                   checked, rest>>

-----------------------------------------------------------------------------
(* Soft delete. *)

\* Mutant of Relist: the list is written from the marks as they were.
RelistCurrent(marks) == listed' = markedAt

\* writePendingDeletes.
Relist(marks) == listed' = marks

\* The list goes to disk before the index changes.
MarkDeleted(i) ==
    /\ up
    /\ Family(i) # {} /\ Family(i) \subseteq entFiles
    /\ clock < MaxMarks
    /\ clock' = clock + 1
    /\ markedAt' = [markedAt EXCEPT ![i] = clock + 1]
    /\ Relist(markedAt')
    /\ famEnts' = [famEnts EXCEPT ![i] = Family(i)]
    /\ famEdges' = [famEdges EXCEPT ![i] = Related(i)]
    /\ live' = live \ Family(i)
    /\ edges' = edges \ Related(i)
    /\ UNCHANGED <<entFiles, relFiles, up, checked, faults, lastFaceOf>>

\* Mutant of StaysHidden: every edge of a restored family becomes live.
NoneStaysHidden(e, i) == FALSE

\* An edge whose other end is still marked moves to that family.
StaysHidden(e, i) == OtherEnd(e, i) # i /\ markedAt[OtherEnd(e, i)] # 0

PassedOn(i, j) == {e \in famEdges[i] : StaysHidden(e, i) /\ OtherEnd(e, i) = j}

\* Mutant of Handover: the restored family keeps its edges as well.
HandoverKeeps(i) == [j \in Id |-> famEdges[j] \cup PassedOn(i, j)]

Handover(i) == [j \in Id |-> IF j = i THEN {} ELSE famEdges[j] \cup PassedOn(i, j)]

\* Mutant of Restored: only the implicit face comes back.
RestoredImplicit(i) == {m \in famEnts[i] : m.face = Implicit}

Restored(i) == famEnts[i]

Unmark(i) ==
    /\ up
    /\ markedAt[i] # 0 /\ famEnts[i] # {}
    /\ markedAt' = [markedAt EXCEPT ![i] = 0]
    /\ Relist(markedAt')
    /\ famEnts' = [famEnts EXCEPT ![i] = {}]
    /\ famEdges' = Handover(i)
    /\ live' = live \cup Restored(i)
    /\ edges' = edges \cup {e \in famEdges[i] : ~StaysHidden(e, i)}
    /\ UNCHANGED <<entFiles, relFiles, up, checked, rest>>

\* Mutant of Doomed: the edges other families hold keep their files.
DoomedOwn(i) == famEdges[i]

\* The family's own hidden edges, and those other families hold.
Doomed(i) == famEdges[i] \cup Hidden(i)

PurgeMarked(i) ==
    /\ up /\ markedAt[i] # 0
    /\ entFiles' = entFiles \ famEnts[i]
    /\ relFiles' = relFiles \ Doomed(i)
    /\ markedAt' = [markedAt EXCEPT ![i] = 0]
    /\ Relist(markedAt')
    /\ famEnts' = [famEnts EXCEPT ![i] = {}]
    /\ famEdges' = [j \in Id |-> IF j = i THEN {} ELSE famEdges[j] \ Hidden(i)]
    /\ UNCHANGED <<up, live, edges, checked, rest>>

\* Mutant of PurgeFails: the mark is dropped although files are left.
PurgeFailsUnmarked(i) ==
    /\ up /\ markedAt[i] # 0 /\ Fault
    /\ \E c \in DeleteCuts({}, Doomed(i), famEnts[i]) : RemoveFiles(c)
    /\ markedAt' = [markedAt EXCEPT ![i] = 0]
    /\ famEnts' = [famEnts EXCEPT ![i] = {}]
    /\ famEdges' = [famEdges EXCEPT ![i] = {}]
    /\ UNCHANGED <<up, live, edges, checked, clock, lastFaceOf>>

\* A failure, the write of the list included, leaves the mark in place.
PurgeFails(i) ==
    /\ up /\ markedAt[i] # 0 /\ Fault
    /\ \E c \in DeleteCuts({}, Doomed(i), famEnts[i]) : RemoveFiles(c)
    /\ UNCHANGED <<memory, clock, lastFaceOf>>

-----------------------------------------------------------------------------
(* Crash and open. *)

RenameInterrupted(o, n) ==
    /\ MayRename(o, n) /\ Family(o) \subseteq entFiles
    /\ \E c \in RenameCuts(o, n) : RenameFiles(o, n, c)

PurgeInterrupted(i) ==
    /\ markedAt[i] # 0
    /\ \E c \in DeleteCuts({}, Doomed(i), famEnts[i]) : RemoveFiles(c)

\* The files an operation in progress has already touched.  An operation of
\* one file effect needs no cut of its own: it is the finished operation.
Interrupted ==
    \/ UNCHANGED disk
    \/ \E m \in live, k \in Meta : /\ Retypes(m, k)
                                   /\ entFiles' = entFiles \cup {k}
                                   /\ UNCHANGED <<relFiles, listed>>
    \/ \E i \in Id : /\ Family(i) # {} /\ Family(i) \subseteq entFiles
                     /\ \E c \in DeleteCuts(Hidden(i), Related(i), Family(i)) : RemoveFiles(c)
    \/ \E m \in live \cap entFiles :
         \E c \in DeleteCuts({}, OwnedEdges(m), {}) : RemoveFiles(c)
    \/ \E o, n \in Id : RenameInterrupted(o, n)
    \/ \E i \in Id : PurgeInterrupted(i)

Crash ==
    /\ up
    /\ Interrupted
    /\ up' = FALSE
    /\ live' = {} /\ edges' = {} /\ checked' = {}
    /\ markedAt' = [i \in Id |-> 0]
    /\ famEnts' = [i \in Id |-> {}] /\ famEdges' = [i \in Id |-> {}]
    /\ UNCHANGED rest

\* scanEntityDirs: one index entry per (id, face).  Two files of one face,
\* under two types, leave the one scanned last.
SameKey(m, k) == m.id = k.id /\ m.face = k.face
Scans(F) ==
    {L \in SUBSET F : /\ \A m \in F : \E k \in L : SameKey(m, k)
                      /\ \A m, k \in L : SameKey(m, k) => m = k}

\* applyPendingDeletes: in the order of the marks, a listed id with an entity
\* file takes its faces, and the edges no earlier mark took.
OpenMarks(L) ==
    [i \in Id |-> IF \E m \in L : m.id = i THEN listed[i] ELSE 0]

\* Mutant of HoldsFirst: the list is applied latest mark first.
HoldsLast(i, e, marks) ==
    /\ marks[i] # 0 /\ Touches(e, i)
    /\ \A j \in Id : marks[j] # 0 /\ Touches(e, j) => marks[i] >= marks[j]

HoldsFirst(i, e, marks) ==
    /\ marks[i] # 0 /\ Touches(e, i)
    /\ \A j \in Id : marks[j] # 0 /\ Touches(e, j) => marks[i] <= marks[j]

Reopen ==
    /\ ~up
    /\ \E L \in Scans(entFiles) : LET marks == OpenMarks(L) IN
         /\ markedAt' = marks
         /\ live' = {m \in L : marks[m.id] = 0}
         /\ famEnts' = [i \in Id |-> {m \in L : m.id = i /\ marks[i] # 0}]
         /\ famEdges' = [i \in Id |-> {e \in relFiles : HoldsFirst(i, e, marks)}]
         /\ edges' = {e \in relFiles : marks[e.from] = 0 /\ marks[e.to] = 0}
    /\ up' = TRUE
    /\ UNCHANGED <<disk, checked, rest>>

-----------------------------------------------------------------------------

\* New on an empty project.
Init ==
    /\ entFiles = {} /\ relFiles = {} /\ listed = [i \in Id |-> 0]
    /\ up = TRUE /\ live = {} /\ edges = {} /\ checked = {}
    /\ markedAt = [i \in Id |-> 0]
    /\ famEnts = [i \in Id |-> {}] /\ famEdges = [i \in Id |-> {}]
    /\ clock = 0 /\ faults = 0 /\ lastFaceOf = {}

EntityStep ==
    \/ \E m \in Meta : \/ CreateEntity(m) \/ DeleteFace(m) \/ DeleteFaceFails(m)
                       \/ \E k \in Meta : UpdateEntity(m, k) \/ UpdateEntityFails(m, k)
    \/ \E i \in Id : \/ \E cascade \in BOOLEAN : DeleteFamily(i, cascade)
                     \/ DeleteFamilyFails(i)
    \/ \E o, n \in Id : \/ RenameFamily(o, n) \/ RenameFails(o, n)
                        \/ RenameLeavesFiles(o, n)

RelationStep ==
    \E e \in Edge : CheckEndpoints(e) \/ CreateRelation(e) \/ DeleteRelation(e)

SoftDeleteStep ==
    \E i \in Id : MarkDeleted(i) \/ Unmark(i) \/ PurgeMarked(i) \/ PurgeFails(i)

Next == EntityStep \/ RelationStep \/ SoftDeleteStep \/ Crash \/ Reopen

Spec == Init /\ [][Next]_vars

-----------------------------------------------------------------------------
(* Properties. *)

\* Type correctness.
TypeOK ==
    /\ entFiles \subseteq Meta /\ relFiles \subseteq Edge
    /\ listed \in [Id -> Nat]
    /\ up \in BOOLEAN
    /\ live \subseteq Meta /\ edges \subseteq Edge /\ checked \subseteq Edge
    /\ markedAt \in [Id -> Nat]
    /\ famEnts \in [Id -> SUBSET Meta] /\ famEdges \in [Id -> SUBSET Edge]
    /\ clock \in Nat /\ faults \in Nat /\ lastFaceOf \subseteq Id

\* No entity is both live and soft-deleted: "every read on the store treats it
\* as deleted" and the id stays held until the purge (store/softdelete.go), after
\* any sequence of creates, renames, restores, crashes and failed calls.
LiveXorMarked == \A m \in live : markedAt[m.id] = 0

\* A soft delete the caller was told of is in the list on disk with its time, so
\* a crash never forgets it: the list is written before the index changes.
MarksAreListed == \A i \in Id : markedAt[i] # 0 => listed[i] = markedAt[i]

\* "A hidden relation is held by the mark of ONE of its endpoints: the one marked
\* first" (store/softdelete.go), through restores that move it to the other end.
HeldByFirstMark ==
    \A i \in Id : \A e \in famEdges[i] :
        /\ markedAt[i] # 0 /\ Touches(e, i)
        /\ \A j \in {e.from, e.to} \ {i} : markedAt[j] = 0 \/ markedAt[i] < markedAt[j]
        /\ \A j \in Id \ {i} : e \notin famEdges[j]

\* "Its incident relations disappear with it" (store/softdelete.go): no edge in
\* the live index touches a soft-deleted entity.
LiveEdgesAvoidMarks ==
    \A e \in edges : markedAt[e.from] = 0 /\ markedAt[e.to] = 0

TouchesMark(e) == markedAt[e.from] # 0 \/ markedAt[e.to] # 0

\* The same where endpoint checks may be stale: the entity manager reads the ends
\* of a relation before the store's transaction (manager.go:3091).  No step puts
\* a live edge on a soft-deleted entity but a create whose check has gone stale;
\* a later rename of the edge's other end takes the edge along.
OnlyStaleChecksReachMarks ==
    [][\A e \in edges' : TouchesMark(e)' =>
         \/ e \in edges /\ TouchesMark(e)
         \/ e \in checked /\ ~EndsLive(e) /\ CreateRelation(e)
         \/ \E o, n \in Id :
              Rekey(o, n) /\ e \in Moved({d \in Related(o) : TouchesMark(d)}, o, n)]_vars

\* A file the store listed at open and that names no family then.
Stale(i) == listed[i] # 0 /\ markedAt[i] = 0

\* The memory is what opening the store on these files would build, down to
\* which mark holds an edge: no file forgotten, no entry without a file.  Ids
\* with a stale list entry are what LiveNeverListed is about.  Files of one type
\* only: a crash inside a retype leaves two files of one face (entity.go:429).
ReopenAgrees ==
    up /\ faults = 0 /\ (\A i \in Id : ~Stale(i)) =>
        /\ live \cup UNION {famEnts[i] : i \in Id} \in Scans(entFiles)
        /\ \A i \in Id : /\ markedAt[i] = listed[i]
                         /\ famEdges[i] = {e \in relFiles : HoldsFirst(i, e, markedAt)}
                         /\ \A m \in famEnts[i] : m.id = i
        /\ edges = {e \in relFiles : markedAt[e.from] = 0 /\ markedAt[e.to] = 0}

\* Removals go relations first and renames write before they remove, so no stop
\* between two file effects leaves an edge in the index whose end is gone.
\* Edges of ids in lastFaceOf are left out: deleteFace leaves the hidden edges of
\* an id it takes the last face of, and a restore of their other end brings them
\* back (entity.go:682).
EdgesHaveEnds ==
    faults = 0 =>
        \A e \in edges : {e.from, e.to} \cap lastFaceOf = {} => EndsLive(e)

\* A rename that finished or died at any point has every face it found on disk
\* under the old or the new id (entity.go: the new files are written first).
RenameKeepsFaces ==
    [][\A m \in entFiles \ entFiles' : \A o, n \in Id :
         (\/ RenameFamily(o, n) \/ RenameFails(o, n) \/ RenameLeavesFiles(o, n)
          \/ up /\ ~up' /\ RenameInterrupted(o, n))
         => Renamed({m}, n) \subseteq entFiles']_vars

\* A mark ends in one of two ways: every hidden face is live again, or no face
\* with a file is left (a purge that did half its work keeps the mark).
MarkEndsWhole ==
    [][\A i \in Id :
         up /\ up' /\ markedAt[i] # 0 /\ markedAt'[i] = 0 =>
           famEnts[i] \subseteq live' \/ famEnts[i] \cap entFiles' = {}]_vars

\* Nothing but a purge of the id, finished, failed or interrupted, takes a file
\* of a soft-deleted entity: it stays restorable whatever other calls run.
OnlyPurgeTakesHidden ==
    [][\A i \in Id :
         (famEnts[i] \cap entFiles) \ entFiles' # {} =>
           \/ PurgeMarked(i) \/ PurgeFails(i)
           \/ ~up' /\ PurgeInterrupted(i)]_vars

\* softdelete.go:273 "An entry whose files are gone is dropped": an id that is
\* live again is not on the list that hides ids at the next open.
LiveNeverListed == \A m \in live : listed[m.id] = 0

=============================================================================
