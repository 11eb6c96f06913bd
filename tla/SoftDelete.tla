----------------------------- MODULE SoftDelete -----------------------------
(***************************************************************************)
(* Soft delete and ownership in the entity manager of rela                 *)
(* (internal/entitymanager: softdelete.go, owning.go) with the collector   *)
(* behind the undo window (internal/appbuild/softdeletegc.go), over the    *)
(* maps of a store.                                                        *)
(*                                                                         *)
(* An owning edge makes its target part of its source: they are deleted    *)
(* and restored together.  Every call is one transaction, one step.  The   *)
(* stores without a database do not roll back, so a failure or a crash     *)
(* part-way keeps what was done.  The collector is not one transaction: it *)
(* lists the marks, then purges them one by one while other calls run.     *)
(*                                                                         *)
(* The marks of one soft delete have one time here.  In the code the store *)
(* takes one for each, call by call; coMarkWindow (owning.go:303) is there *)
(* for the difference, which is not exercised.  What is: marks of two      *)
(* deletes that fall within the window.                                    *)
(*                                                                         *)
(* All edges here are owning edges, of one type; entities have one face.   *)
(* Abstracted: access control, audit, versions, aliases, and the check of  *)
(* a relation's endpoints outside the transaction (FsStore has that race). *)
(***************************************************************************)
EXTENDS StoreMaps, FiniteSets

CONSTANTS
    Rank,       \* the order of ids, in which relations are listed
    User,       \* principals that delete
    Nobody,     \* the deleter of an entity that is not marked
    Delay,      \* the undo window
    CoMark,     \* coMarkWindow
    MaxTime,    \* bound: clock ticks
    MaxEdges,   \* bound: edges when one is created
    MaxFaults   \* bound: failures, unreadable files, crashes

ASSUME SoftDeleteAssumption ==
    /\ Rank \in [Id -> Nat] /\ \A i, j \in Id : Rank[i] = Rank[j] => i = j
    /\ Nobody \notin User
    /\ Delay \in Nat /\ CoMark \in Nat
    /\ MaxTime \in Nat /\ MaxEdges \in Nat /\ MaxFaults \in Nat

Listing == [id: Id, at: Nat]

VARIABLES
    maps,       \* the store
    by,         \* who marked an id
    unreadable, \* marked ids with a file that cannot be read
    now,        \* the clock
    pending,    \* the marks a collector run listed and has still to purge
    faults,     \* faults so far
    took        \* history: marked entities that went with a marked owner

vars == <<maps, by, unreadable, now, pending, faults, took>>

MarkedIds(g) == {i \in Id : IsMarked(g, i)}
Fault == faults < MaxFaults /\ faults' = faults + 1

\* Mutant of Keep: a restored or purged mark leaves its deleter behind.
KeepDeleter(deleter) ==
    /\ by' = deleter
    /\ unreadable' = unreadable \cap MarkedIds(maps')

\* What follows from maps' for the rest: a mark that ended takes its deleter
\* with it.
Keep(deleter) ==
    /\ by' = [i \in Id |-> IF IsMarked(maps', i) THEN deleter[i] ELSE Nobody]
    /\ unreadable' = unreadable \cap MarkedIds(maps')

StillTaken(t) ==
    [i \in Id |-> IF IsMarked(maps', i) THEN t[i] \cap MarkedIds(maps') ELSE {}]

\* A step of a call that marks nothing.
Writes(g) ==
    /\ maps' = g
    /\ Keep(by)
    /\ took' = StillTaken(took)
    /\ UNCHANGED <<now, pending>>

-----------------------------------------------------------------------------
(* Ownership. *)

\* Mutant of Admits: the source may be owned itself.
AdmitsChain(g, e) ==
    /\ e.from # e.to
    /\ \A f \in g.edges : /\ f.to = e.to => f.from = e.from
                          /\ f.from # e.to

\* CheckOwningEdge against the live edges of g: the target has no other owner
\* and owns nothing, and the source is not owned.
Admits(g, e) ==
    /\ e.from # e.to
    /\ \A f \in g.edges : /\ f.to = e.to => f.from = e.from
                          /\ f.to # e.from
                          /\ f.from # e.to

\* ownedChildIDs with a live family: what goes with i.
OwnedBy(g, i) ==
    {j \in Id \ {i} : /\ FamilyOf(g, j) # {}
                      /\ \E e \in g.edges : e.from = i /\ e.to = j}

\* How far the calls for each of S, in the order of their ids, can get.
UpTo(S) ==
    {P \in SUBSET S : \A j \in P : \A k \in S : Rank[k] < Rank[j] => k \in P}

-----------------------------------------------------------------------------
(* Calls that write the live graph. *)

Create(m) == MayCreate(maps, m) /\ Writes(WithEntity(maps, m)) /\ UNCHANGED faults

Relate(e) ==
    /\ Cardinality(maps.edges) < MaxEdges
    /\ e \notin maps.edges
    /\ FamilyOf(maps, e.from) # {} /\ FamilyOf(maps, e.to) # {}
    /\ Admits(maps, e)
    /\ Writes(WithEdge(maps, e)) /\ UNCHANGED faults

Unrelate(e) ==
    /\ e \in maps.edges
    /\ Writes([maps EXCEPT !.edges = @ \ {e}]) /\ UNCHANGED faults

Rename(o, n) ==
    /\ MayRename(maps, o, n)
    /\ Writes(Rekeyed(maps, o, n)) /\ UNCHANGED faults

\* Without, for all of S in turn.
Clear(e, S) == e.from \notin S /\ e.to \notin S

WithoutAll(g, S) ==
    [g EXCEPT !.live = {m \in @ : m.id \notin S},
              !.edges = {e \in @ : Clear(e, S)},
              !.rels = [j \in Id |-> {e \in @[j] : Clear(e, S)}]]

\* DeleteEntity with cascade: the owned entities, then the owner.
Delete(i) ==
    /\ FamilyOf(maps, i) # {}
    /\ Writes(WithoutAll(maps, OwnedBy(maps, i) \cup {i})) /\ UNCHANGED faults

DeleteFails(i) ==
    /\ FamilyOf(maps, i) # {} /\ Fault
    /\ \E S \in UpTo(OwnedBy(maps, i)) : Writes(WithoutAll(maps, S))

-----------------------------------------------------------------------------
(* Soft delete and restore. *)

\* Marked, for all of S in the order of their ids: the first mark on an edge
\* takes it.
TakenBy(g, j, S) ==
    {e \in Incident(g, j) : \A k \in S : On(e, k) => Rank[j] <= Rank[k]}

MarkAll(g, S, t) ==
    [g EXCEPT !.live = {m \in @ : m.id \notin S},
              !.edges = {e \in @ : Clear(e, S)},
              !.at = [j \in Id |-> IF j \in S THEN t ELSE @[j]],
              !.ents = [j \in Id |-> IF j \in S THEN FamilyOf(g, j) ELSE @[j]],
              !.rels = [j \in Id |-> IF j \in S THEN TakenBy(g, j, S) ELSE @[j]]]

\* Mutant of MarkFamily: the owned entities are marked before their owner.
MarkFamilyOwnedFirst(i, S) == Marked(MarkAll(maps, S, now), i, now)

\* The owner is marked first, so that its mark holds the owning edges.
MarkFamily(i, S) == MarkAll(Marked(maps, i, now), S, now)

\* Of the owned entities S were marked: all, or as many as there were before
\* a failure or a crash.
SoftDelete(i, u) ==
    /\ FamilyOf(maps, i) # {}
    /\ \E S \in UpTo(OwnedBy(maps, i)) :
         /\ IF S = OwnedBy(maps, i) THEN UNCHANGED faults ELSE Fault
         /\ maps' = MarkFamily(i, S)
         /\ Keep([j \in Id |-> IF j \in S \cup {i} THEN u ELSE by[j]])
         /\ took' = StillTaken([took EXCEPT ![i] = S])
    /\ UNCHANGED <<now, pending>>

\* markedTogether.
Together(i, j) ==
    /\ by[j] = by[i]
    /\ maps.at[j] <= maps.at[i] + CoMark
    /\ maps.at[i] <= maps.at[j] + CoMark

\* markedWithOwner: the targets of the owning edges that i's mark holds.
MarkedWith(i) ==
    {j \in MarkedIds(maps) \ {i} :
       /\ \E e \in maps.rels[i] : e.from = i /\ e.to = j
       /\ Together(i, j)}

\* revivedOwningEdges: hidden edges from the families R that come back to
\* another end, which is live.
Revived(R) ==
    {e \in UNION {maps.rels[j] : j \in R} :
       \E j \in R : /\ On(e, j) /\ FarEnd(e, j) \notin R
                    /\ ~IsMarked(maps, FarEnd(e, j))}

\* Mutant of MayRestore: checkRestoredOwning is not called.
MayRestoreUnchecked(i) == IsMarked(maps, i) /\ unreadable = {}

\* The list of marks must be readable, and every edge that comes back is
\* checked against the live graph, which has none of the others.
MayRestore(i) ==
    /\ IsMarked(maps, i)
    /\ unreadable = {}
    /\ \A e \in Revived(MarkedWith(i) \cup {i}) : Admits(maps, e)

\* Unmarked, for all of R in any order: a hidden edge of theirs comes back
\* unless one end stays marked, and then moves there.
StaysMarked(g, R, j) == IsMarked(g, j) /\ j \notin R
Freed(g, R) == UNION {g.rels[j] : j \in R}

UnmarkAll(g, R) ==
    [g EXCEPT !.live = @ \cup UNION {g.ents[j] : j \in R},
              !.edges = @ \cup {e \in Freed(g, R) : /\ ~StaysMarked(g, R, e.from)
                                                   /\ ~StaysMarked(g, R, e.to)},
              !.at = [j \in Id |-> IF j \in R THEN 0 ELSE @[j]],
              !.ents = [j \in Id |-> IF j \in R THEN {} ELSE @[j]],
              !.rels = [j \in Id |->
                          IF j \in R THEN {}
                          ELSE @[j] \cup {e \in Freed(g, R) : StaysMarked(g, R, j) /\ On(e, j)}]]

\* The owned entities, then the owner.
Restore(i) ==
    /\ MayRestore(i)
    /\ Writes(UnmarkAll(maps, MarkedWith(i) \cup {i})) /\ UNCHANGED faults

RestoreFails(i) ==
    /\ MayRestore(i) /\ Fault
    /\ \E S \in UpTo(MarkedWith(i)) : Writes(UnmarkAll(maps, S))

-----------------------------------------------------------------------------
(* The collector.  Runs do not overlap: the job has one idempotency key.    *)

\* Before the cutoff.
Past(t) == t + Delay < now

\* Mutant of MarksRead: a run that failed never frees the job's key.
MarksReadOnce == unreadable = {} /\ faults = 0

\* ListMarked reads every hidden file, and fails if one cannot be read.
MarksRead == unreadable = {}

\* Mutant of List: it goes on past the first mark newer than the cutoff.
ListAll ==
    /\ pending = {} /\ MarksRead
    /\ pending' = {[id |-> i, at |-> maps.at[i]] : i \in MarkedIds(maps)}
    /\ UNCHANGED <<maps, by, unreadable, now, faults, took>>

\* PurgeSoftDeleted up to the first purge.  A run that fails here, or finds
\* nothing, is the wait for the next tick.
List ==
    /\ pending = {} /\ MarksRead
    /\ pending' = {[id |-> i, at |-> maps.at[i]] :
                     i \in {j \in MarkedIds(maps) : Past(maps.at[j])}}
    /\ UNCHANGED <<maps, by, unreadable, now, faults, took>>

Oldest(p) == p \in pending /\ \A q \in pending : p.at <= q.at

\* The mark is purged as it is now; one restored meanwhile is passed over.
Purge(p) ==
    /\ Oldest(p)
    /\ maps' = IF IsMarked(maps, p.id) THEN Purged(maps, p.id) ELSE maps
    /\ Keep(by) /\ took' = StillTaken(took)
    /\ pending' = pending \ {p}
    /\ UNCHANGED <<now, faults>>

\* A purge fails, and the run goes on with the others.
PurgeFails(p) ==
    /\ Oldest(p) /\ Fault
    /\ pending' = pending \ {p}
    /\ UNCHANGED <<maps, by, unreadable, now, took>>

Collect == List \/ \E p \in pending : Purge(p)

-----------------------------------------------------------------------------
(* The environment. *)

Tick == now < MaxTime /\ now' = now + 1
        /\ UNCHANGED <<maps, by, unreadable, pending, faults, took>>

\* The process dies and starts again; the file store keeps its marks.
Restart == /\ Fault /\ pending # {} /\ pending' = {}
           /\ UNCHANGED <<maps, by, unreadable, now, took>>

\* A hidden file is edited from outside so that it does not parse, and back.
Damage(i) == /\ Fault /\ i \in MarkedIds(maps) \ unreadable
             /\ unreadable' = unreadable \cup {i}
             /\ UNCHANGED <<maps, by, now, pending, took>>

Repair(i) == /\ i \in unreadable /\ unreadable' = unreadable \ {i}
             /\ UNCHANGED <<maps, by, now, pending, faults, took>>

-----------------------------------------------------------------------------

Init ==
    /\ maps = Empty /\ by = [i \in Id |-> Nobody] /\ unreadable = {}
    /\ now = 1 /\ pending = {} /\ faults = 0 /\ took = [i \in Id |-> {}]

Call ==
    \/ \E m \in Entity : Create(m)
    \/ \E e \in Relation : Relate(e) \/ Unrelate(e)
    \/ \E i \in Id : \/ Delete(i) \/ DeleteFails(i)
                     \/ \E n \in Id : Rename(i, n)
                     \/ \E u \in User : SoftDelete(i, u)
                     \/ Restore(i) \/ RestoreFails(i)

Next ==
    \/ Call \/ Collect \/ (\E p \in pending : PurgeFails(p))
    \/ Tick \/ Restart \/ (\E i \in Id : Damage(i) \/ Repair(i))

\* The collector's ticker enqueues a run every interval, and the queue runs it.
Spec == Init /\ [][Next]_vars /\ WF_vars(Collect)

-----------------------------------------------------------------------------
(* Properties. *)

\* Type correctness.
TypeOK ==
    /\ maps \in Maps /\ by \in [Id -> User \cup {Nobody}]
    /\ \A i \in Id : by[i] = Nobody <=> ~IsMarked(maps, i)
    /\ unreadable \subseteq MarkedIds(maps)
    /\ now \in Nat /\ pending \subseteq Listing /\ faults \in Nat
    /\ took \in [Id -> SUBSET Id]

Ownership(g) ==
    \A e, f \in g.edges : /\ e.to = f.to => e.from = f.from
                          /\ e.to # f.from

\* "An entity has at most one owner, and an owned entity owns nothing"
\* (owning.go:88), after any restores: checkRestoredOwning "refuses a restore
\* that would bring back an owning edge the live graph no longer admits".
OwnershipHolds == Ownership(maps)

\* The only step that can break ownership is a restore that brings back two
\* hidden edges at once, neither of them checked against the other.
OnlyPairedEdgesBreakOwnership ==
    [][Ownership(maps) /\ ~Ownership(maps') =>
         /\ MarkedIds(maps') \subseteq MarkedIds(maps) /\ MarkedIds(maps') # MarkedIds(maps)
         /\ \E e, f \in maps'.edges \ maps.edges : e # f]_vars

\* A restore of an owner brings back everything its delete took along and
\* nothing has touched since, whatever was restored, deleted, renamed or purged
\* around it, and wherever the delete was cut short.
OwnedComeBack ==
    [][\A i \in Id : Restore(i) => \A j \in took[i] : FamilyOf(maps', j) # {}]_vars

\* Purges i for good.
Destroys(i) ==
    IsMarked(maps, i) /\ ~IsMarked(maps', i) /\ maps.ents[i] \cap maps'.live = {}

\* "The delay is the undo window: how long a soft-deleted entity can still be
\* restored" (softdeletegc.go:17), but for an entity restored and deleted again
\* after a run had listed its earlier mark: the purge goes by the id.
UndoWindowUnlessRelisted ==
    [][\A i \in Id : Destroys(i) =>
         \/ Past(maps.at[i])
         \/ \E p \in pending : p.id = i /\ p.at < maps.at[i]]_vars

Due(i) == IsMarked(maps, i) /\ Past(maps.at[i])

\* A mark past the window ends, whatever failures and restarts the collector
\* met ("one stuck row does not hold back the rest", softdelete.go:496), unless
\* some hidden file cannot be read: that one holds back all.
DueMarksEnd == \A i \in Id : Due(i) ~> (~Due(i) \/ unreadable # {})

=============================================================================
