# A verification development for rela

rela keeps a typed graph of entities and relations as markdown files (or in
PostgreSQL, SQLite or memory) and serves it to a command line, a web client,
scripts and agents. This directory holds TLA+ models of its concurrent and
crash-prone parts, TLC configurations that check them on small instances, and
TLAPS proofs of what matters most.

`PROJECT.json` is the index: components, runs, the source lines each definition
models, mutants, findings, hazards and theorems.

## The system: inventory

| Component (src/internal/...) | State | Operations | What is hard | What makes it correct |
|---|---|---|---|---|
| File store `store/fsstore` | one `.md` file per face of an entity and per relation; an in-memory index; soft-delete marks, in memory and in `pending-deletes.json` | create, update, rename, delete of entities, faces, relations; mark, unmark, list, purge; open | an operation is many file effects, any of which may fail or be the last one before a crash; two copies of the marks; relations whose ends are hidden at different times | memory equals what a reopen builds; no rename or delete loses a file it should keep; a hidden family stays whole and exclusive until purged |
| File-store watcher `fsstore/watcher.go`, `echo.go` | hashes of own writes | reconcile a changed path | own writes come back late, merged with external edits | index follows the disk; own writes are not announced twice |
| Entity manager `entitymanager` | none of its own over the store (counters, versions) | validated create/update/rename/delete, relation checks, soft-delete garbage collection | checks made before the store's locks; a purge from a list read earlier | no relation without ends; the undo window is honoured |
| Leases `lease`, `lease/kvlease` | a lease document and a version value in a KV | claim, renew, release, rekey, drop, watch | the clock is read before the lock; two values written one after the other; several processes | one live holder per entity; tokens never repeat; watchers miss no visible change |
| Scheduler `scheduler`, `schedulerstate` | task states and runs with leases, children, a failure ladder | create, start, finish, reap, settle, prune | duplicate and late deliveries, two schedulers, crashes in a run | one active run per task; a success is never lost; a failing task follows its ladder |
| Jobs `jobs` | queues of jobs, deferred jobs | enqueue, handle, retry | retries, limits, shutdown | a job is handled at least once while the process lives |
| Channels and realtime `channels`, `realtime` | append-only logs, subscribers with bounded queues | post, read, subscribe | slow subscribers, gaps, resync | a subscriber sees a gapless suffix or is told to resync |
| Piles `piles` | hand-collected sets in one document | add, move, remove | concurrent documents writes | nothing collected is lost |
| Locks `lock`, `filelock` | reference-counted keys | lock, unlock | waiters and cancellation | exclusion; the table empties |
| Automation `automation`, `autocascade`, state machines `statemachine` | none | evaluate | recursion bounds | termination, allowed transitions |
| Merges `conflict`, `syncmerge` | none | three-way merge | pure | agrees with a reference definition |
| Access control, metamodel, search, worlds, validation | configuration | evaluate | pure | - |
| Front ends, scripts, mail, git, migrations, web client | requests | - | I/O | - |

Interactions: front ends, scripts, automation and scheduled tasks all call the
entity manager; it calls one store backend under a transaction, then the
observers (search index, change feed, realtime hub, leases: a rename moves an
entity's lease, a delete drops it). The file watcher and the garbage collector
enter the store from goroutines of their own.

## The modules

| Module | What it is | Checked by |
|---|---|---|
| `FsStore` | the file store: entities, relations, soft delete, faults, crashes, reopen | `MCFsStore` with `FsStoreCrash`, `FsStoreLinks`, `FsStoreFaults`, `StaleList` |
| `StoreMaps`, `MemStore` | the memory store: what each method makes of its maps, and the maps as a state machine | through `FsStoreContract` and `SoftDelete` |
| `FsStoreContract` | the file store implements the memory store | `MCFsStore` with `FsStoreContract.cfg` |
| `SoftDelete` | soft delete, ownership and garbage collection in the entity manager, over `StoreMaps` | `MCSoftDelete` with `SoftDelete`, `TwoOwners` |
| `KvLease` | the lease store of the single-process tiers | `MCKvLease` with `KvLease.cfg` |
| `LeaseTable`, `KvLeaseContract` | what a lease store promises: one table of leases; and that `KvLease` implements it | through `KvLease.cfg` |
| `LeaseWatch` | how subscribers learn that leases changed, over what `KvLease` promises | `MCLeaseWatch` with `LeaseWatch.cfg` |
| `SchedulerRuns` | the runs of a scheduled task: state store, ticks, queue, handlers | `MCSchedulerRuns` with `SchedulerRuns`, `SchedulerLoop`, `LostRun` |
| `FsStoreProofs`, `FsStoreContractProofs` | theorems about `FsStore`, and the refinement of `MemStore` | `tlapm` |
| `KvLeaseProofs` | theorems about `KvLease`, and the refinement of `LeaseTable` | `tlapm` |
| `LeaseWatchProofs`, `SoftDeleteProofs` | theorems about `LeaseWatch` and `SoftDelete` | `tlapm` |
| `SchedulerRunsProofs`, `SchedulerWorkProofs`, `SchedulerServedProofs` | theorems about the record and the runs of `SchedulerRuns`, about who works on a run, and about who is served again | `tlapm` |

All of them run a store's operations one at a time under locks, so such an
operation is one action; what the locks do not cover (the disk, the clock, a check made
before the lock) is state or nondeterminism of its own. Definitions that end in
a "Mutant of" comment are not part of a specification: each is the plausible bug
that `PROJECT.json` puts in the place of the definition it names, to show that
the property it is listed with can fail.

### FsStore (src/internal/store/fsstore)

| Variable | In the code |
|---|---|
| `entFiles`, `relFiles` | the markdown files: one per (id, face, type), one per relation |
| `listed` | `pending-deletes.json`: the marked ids with the time of their mark |
| `up` | the process runs and the store is open |
| `live`, `edges` | `FSStore.entities`, `FSStore.relations` |
| `markedAt`, `famEnts`, `famEdges` | `FSStore.marked`: `at`, `entities`, `relations` of each `fsMarked` |
| `checked` | relations whose endpoints `Manager.CreateRelation` has read, before the store's transaction |
| `clock`, `faults`, `lastFaceOf` | the mark times, the faults so far, and a history variable that tells one finding from others |

| Actions | In the code |
|---|---|
| `CreateEntity`, `UpdateEntity`, `DeleteFamily`, `DeleteFace`, `RenameFamily` | `createEntity`, `updateEntityIf` where the type changes, `deleteEntity` over a family, `deleteFace`, `renameFamily` (entity.go) |
| `...Fails`, `RenameLeavesFiles` | the same with one file effect that returns an error: what reached the disk by then is a *cut* (`DeleteCuts`, `RenameCuts`), and the index changes as the error path changes it; failures the rename ignores leave the old files |
| `CheckEndpoints`, `CreateRelation`, `DeleteRelation` | the manager's endpoint reads, then `createRelation`, `deleteRelation` (relation.go) |
| `MarkDeleted`, `Unmark`, `PurgeMarked`, `PurgeFails` | softdelete.go, with the handover of hidden edges between marks |
| `Crash` | the process dies between any two file effects of any operation: the disk has a cut, the memory is gone |
| `Reopen` | `scanEntityDirs` and `applyPendingDeletes` |

Abstracted: contents, mentions, attachments (the failure of the attachment move
is a rename failure after every file moved), one relation type, the order of
removals within one phase (the code sorts; the model takes any order), and calls
that change nothing.

### KvLease (src/internal/lease/kvlease)

| Variable | In the code |
|---|---|
| `doc` | the lease document: last token, version, one `storedLease` per id |
| `damaged` | the stored document does not parse |
| `vk` | the version key, the second value, that watchers poll |
| `clock` | the time; a tick is a microsecond, the unit of `lease.NextToken`'s floor |
| `faults` | failed reads and writes, and values lost, so far |
| `top`, `exposed` | history: the highest token issued; both counters were lost at once |

`Loads` is `load`: the version key read (a failed read gives 0), the document
parsed, reset and written back when damaged. `Unchanged`, `Quiet` and `Visible`
are the three ways `write` ends: nothing to write, a write that keeps the
version, and one that moves it (`flush`), where the second value may fail to be
written. `Claim`, `Renew`, `Release`, `Rekey`, `Drop` and `Read` are the methods;
each takes a time `now` that is any reading of the clock up to this moment,
because callers read the clock before they wait for the semaphore and the file
lock. `Tick`, `LoseDocument` and `LoseVersionKey` are the environment: time, and
values deleted or damaged from outside, which the code is written to survive
(kv.go:188-232). A document write that fails changes nothing and is no step.

### LeaseTable, KvLeaseContract (src/internal/lease)

`LeaseTable` is the `Store` interface of lease.go as a state machine: a table
with at most one lease per id, and one action per method that writes. A lease
that is expired at the time a call carries is not seen by it, and the call may
remove it or leave it (`Swept`: `Claim` prunes, `Rekey` does not). Tokens are
any that grow (`Issue`), as long as the store has its count of them; a failed
access or a loss from outside (`Lose`) may cost it the table or the count, a
call without one may not (`Endures`). Neither the two values of the backend nor
the resets, the version and the quiet writes are in it.

`KvLeaseContract` puts the document's leases in the place of the table, the
highest token issued in that of `issued` and `exposed` in that of `forgotten`,
and states that `KvLease` behaves as `LeaseTable!Spec` says
(`ImplementsLeaseTable`). The two differ where an error would hide: `byHash`
takes the first lease with a hash and then compares the identity, while the
contract acts on the caller's lease with that hash, so they agree only because a
hash names one lease; and a token is issued from a counter that may have been
lost and rebuilt from the version key.

### StoreMaps, MemStore, FsStoreContract (src/internal/store/memstore)

`Maps` is the state a `MemStore` keeps: `live` and `edges` for `entities` and
`relations`, and `at`, `ents`, `rels` for `marked`. An operator of `StoreMaps`
is what one method does to them (`Without` for `deleteEntity`, `Rekeyed` for
`renameEntity`, `Marked`, `Unmarked`, `Purged` for the soft deleter), or when it
succeeds (`MayCreate`, `MayRename`). `MemStore` makes each an action: both
locks are held throughout a method.

The memory store is the plainest statement of the store contract, and the one
most tests of the repository run on. `FsStoreContract` instantiates it with the
index and the marks of `FsStore` and states that a file store that neither
crashes nor meets an I/O error behaves as `MemStore!Spec` says
(`ImplementsMemStore`). Its hidden edges make this more than a mapping of names:
the two backends implement the hand-over of edges between marks separately.

### SoftDelete (src/internal/entitymanager, appbuild/softdeletegc.go)

| Variable | In the code |
|---|---|
| `maps` | the store, as in `StoreMaps` |
| `by` | `DeletedBy` of each mark |
| `unreadable` | marked ids with a file that `ListMarked` cannot read |
| `pending` | what a run of `PurgeSoftDeleted` has listed and not yet purged |
| `now`, `faults`, `took` | the clock, faults so far, and history: the owned entities each marked owner took along |

| Actions | In the code |
|---|---|
| `Create`, `Relate`, `Unrelate`, `Rename`, `Delete` | the manager's calls with their ownership rules: `checkOwningEdgeLeaving`, cascade to `ownedChildIDs` |
| `DeleteFails`, `RestoreFails`, `SoftDelete` with part of the owned | a transaction cut short: the stores without a database keep what was written |
| `SoftDelete`, `Restore` | `softDeleteInTx`, `restoreInTx` with `markedWithOwner` and `checkRestoredOwning` |
| `List`, `Purge`, `PurgeFails` | `PurgeSoftDeleted`: one listing, then one purge at a time while other calls run |
| `Restart`, `Damage`, `Repair`, `Tick` | the process restarts, a hidden file is broken or mended from outside, time |

A delete, soft delete or restore calls a store method for each of several
families in the order of their ids (`Rank`); `UpTo(S)` are the sets of them a
cut transaction may have reached. What the methods make of the maps together is
written in closed form (`WithoutAll`, `MarkAll`, `UnmarkAll`), which the proofs
can reason about. That the closed forms are the methods called in turn is the
assumption `AllInTurn` of `MCSoftDelete`, which TLC evaluates over all small
maps of three ids and three edges.

One soft delete gives all its marks one time (`MarkFamily`). In the code each
store call reads its own, and `markedTogether` allows for the difference with
`coMarkWindow` (owning.go:303-328); a clock that steps by more than the window
inside one soft delete would lose the tie, and is not exercised. What is
exercised is the other side of the window: marks of two deletes that fall
within it.

### LeaseWatch (src/internal/lease/wake.go, service.go)

| Variable | In the code |
|---|---|
| `expires`, `version`, `now` | the lease store as `Store` describes it, and the clock |
| `seen`, `armed`, `from`, `target` | `version` of `Watch`; the fields of `expiryWatch`, with the timer |
| `pc`, `at` | where the watcher's goroutine is, and the time it has read |
| `wake`, `shown` | a subscriber's channel, and the leases it showed last |
| `owed` | a call of this process that wrote has not called `hub.wake` yet |
| `revived` | history, since the timer was set: ids whose expired lease a renewal brought back |
| `pruned`, `gap` | history, since the subscriber read: the four cases in which it is not told |

`Claim`, `Release`, `Rekey`, `Renew`, `Prune` are writes of this process or of
another; `LocalWake` is the `hub.wake` at a call's end. `Poll`, `ReadClock`,
`Arm`, `Fire`, `CheckLapse` and the failing `ArmFails`, `PollFails` are the
watcher between its reads (a `PollFails` happens only after an `ArmFails`, which
is the fault that counts); `Show` is a subscriber that reads its channel.

Every write carries a reading `t` of the clock of any age: the service takes it
before the lookup, the access check and the store's lock (service.go:281 for
`Renew`), and the store decides by it which leases are live. A renewal so late
that the lease has expired brings it back and leaves the version as it is
(kv.go:409-423), as in `KvLease`. The four cases a subscriber is not told of are

1. an expiry that was removed before the timer read it (`pruned`, the one that
   wake.go:82 names);
2. an expiry between the wake of a tick and the clock reading its arm follows;
3. what changes before a first version could be read (wake.go:111-118);
4. a lease that a late renewal brought back (the last three are `gap`).

### SchedulerRuns (src/internal/scheduler, schedulerstate)

| Variable | In the code |
|---|---|
| `task` | `TaskState`: last run, failures, next retry, version |
| `runs` | the run records: status, lease, occurrence, subjects of a fan-out |
| `jobs`, `handlers` | the queue's waiting jobs, and the handlers that execute one |
| `ticks` | for each scheduler, the stage of its tick and what it has read |
| `clock`, `faults`, `delivered` | the time, faults so far, history of the subjects served per occurrence |
| `forEach` | whether the task is plain or `for_each` |
| `twice` | history: runs of which a subject was given out again beside a handler that still runs |
| `outdated` | history: schedulers about to create a run for a task record that was pruned since they read it |

| Actions | In the code |
|---|---|
| `Reap`, `Load`, `CreateRun`, `Enqueue`, `Prune` | `tick`: reap expired runs, read the state, `dueReason`, create a run by version (`ErrStale`, `ErrRunActive`), enqueue, prune |
| `beginRun`, `Select`, `ExpectChildren`, `EnqueueChild` | the handler of a run (jobs.go, foreach.go) |
| `StartChild` and the ends of `Work` | the handler of a subject; `FinishRun` and `SettleChild` record how it went, `ApplyOutcome` moves the ladder |
| `TickDies`, `HandlerDies`, `JobLost`, failing calls | a process dies between two calls, the queue of the memory tier forgets, a call of the state store fails |
| `GiveUp` | neoq gives up on a handler that ignores its timeout and retries a subject's job beside it (neoqqueue.go:462-470) |
| `SessionLost` | PostgreSQL ends the session that holds a job's row; the row is free and the job is delivered again while its handler runs (pgqueue.go:195-210) |
| `Panics`, `Wedged` in `Reap` and `Dies` | `Reap` walks the ids there were when it began; ending a run may trim one it has still to visit, and it panics (kvstate.go:421-423) |

A handler the queue has let go of is `detached`: it goes on and records what it
did, and nobody waits for its return. `StartChild` leaves a claimed subject
"pending" (kvstate.go:256-260), so the second delivery claims it too: two
handlers of one subject may both be within their timeout, and the one that
settles it last finds it settled.

`IdOf` is the order of the runs' ids, which are random UUIDs (scheduler.go:567):
a constant, any map from runs to numbers to the proofs, and in the runs one that
has a later id before and one behind the first's. A reap that panics changes
nothing, since the document was not written, and may take the process with it.
`Legacy` says whether an older release may have left a record (`Imported`).
What fails within one step (a store call and the queue's record of the return)
is one fault. Handlers are a set, so two of one attempt that were let go within
one tick of the clock are one.

Abstracted: errors' texts, reloading, weekday schedules, skipped lease
extensions of under a minute, keys of subjects written before a document write
that failed (nothing reads them).

## What the runs check

Every name that begins with `Max` bounds an instance and is a guard in the
module, as is `BoundedAttempts`. Deadlock is checked in every run but
`LeaseWatch`, whose clock and versions may both reach their bounds.

| Run | Instance | What it shows |
|---|---|---|
| `FsStoreCrash` | 3 ids, 2 faces, 3 files, 1 relation, 2 marks, no faults | after any sequence of calls and crashes inside them: the memory equals what a reopen would build (`ReopenAgrees`), and no relation is left in the index without its ends (`EdgesHaveEnds`) |
| `FsStoreLinks` | 3 ids, 1 face, 3 files, 3 relations, 3 marks | relations between several marked families: each hidden one is held by the first-marked end (`HeldByFirstMark`), none is live with a hidden end (`LiveEdgesAvoidMarks`) |
| `FsStoreFaults` | 2 ids, 2 faces, 2 types, 1 fault | one I/O error anywhere: no id is both live and marked (`LiveXorMarked`), marks stay on disk (`MarksAreListed`), a mark ends whole (`MarkEndsWhole`), renames keep every face under one of the ids (`RenameKeepsFaces`) |
| `FsStoreContract` | 3 ids, 2 faces, 2 types, 3 files, 1 relation, 2 marks, one create in flight | the file store implements the memory store (`ImplementsMemStore`); with a stale endpoint check still only a purge takes a hidden file (`OnlyPurgeTakesHidden`), and nothing but a create on such a check puts a live relation on a hidden entity (`OnlyStaleChecksReachMarks`) |
| `SoftDelete` | 3 ids, 2 edges, 2 users, window 1, 3 ticks, 1 fault | owned entities come back with their owner (`OwnedComeBack`), ownership is broken only by a restore of two edges at once (`OnlyPairedEdgesBreakOwnership`), the undo window is honoured but for one race (`UndoWindowUnlessRelisted`), marks past it end (`DueMarksEnd`) |
| `KvLease` | 2 ids, 2 identities, 2 hashes, 2 notes, lifetimes 1 and 2, caps 2 and 1, 2 ticks, 2 faults | the eight properties of the lease store, below |
| `LeaseWatch` | 2 ids, lifetimes 1 and 2, 3 ticks, 2 moves of the version, 1 failed read | the timer covers every lease the watcher can know of, but for one brought back (`TimerCoversLeases`), and what a subscriber shows becomes true again in all but the four cases above (`ViewCatchesUp`) |
| `SchedulerRuns` | 2 schedulers, 2 subjects, a second attempt per subject, 2 runs, days of 1 tick, records pruned after 2, 5 ticks, 1 fault | one active run (`OneActiveRun`); no script executed side by side, nor a subject that was not given out twice (`NoOverlap`); no run abandoned under a handler on time, nor ended but for such a subject (`WorkersOwnTheirRun`); outcomes that tell the truth and are kept (`RunsEndTruthfully`, `SuccessCounts`, `LadderHasCause`); runs created only when due, but for one race (`CreatedWhenDue`); a subject served once in an occurrence (`ServedOnce`) |
| `SchedulerLoop` | 1 scheduler, 2 subjects, one attempt per subject, 3 runs, days of 3 ticks, 5 ticks, 1 fault, a record of an older release or none | a subject served once through a retry and a trim of ended runs (`ServedOnce`); active runs end, but for one whose reap panics (`RunsEnd`); owed tasks run (`OwedTasksRun`) |
| `StaleList`, `TwoOwners`, `LostRun` | the smallest instance that shows it | a disagreement between the code and what its documentation says (see Findings) |

Properties of `KvLease`: every token issued is above all before it
(`TokensIncrease`) and below a version key that is not behind the document
(`VersionAboveTokens`); the version never returns (`VersionGrows`); the caps
hold (`CapsHold`); a live lease ends early
only by its holder, its entity's rename or delete, or with the document
(`LiveLeaseStays`); a reader who saw a live lease learns from the version that
it ended or changed (`ChangesMoveVersion`); and whatever was lost before it, a
call makes of the leases what the interface says (`ImplementsLeaseTable`). That
a hash names one lease is proved (`HashNamesOneLease`) and not a property of the
run: the refinement, whose calls act on the caller's one lease with a hash,
fails where it does.

Why the bounds are enough. The hazards of the file store come from pairs:
two ends of a relation, two marks that hand an edge over, an id and the id it is
renamed to; a third id adds chains of them, and two marks with a restore between
cover every handover order (three in `FsStoreLinks`). One fault suffices because
each error path returns at the first error; a later call runs from the state it
left. One relation suffices for crashes, since cuts treat relations alike, and
for the refinement, since the methods do. Ownership is a matter of two edges and
three ids (two owners, or an owner of an owner), and two users tell a mark taken
along from one made apart. For leases, two ids, identities and hashes give every
conflict; two ticks with lifetimes 1 and 2 let a lease expire between the reading
of a clock and the write, and be extended and shortened; `MaxFaults` 2 allows
both counters to be lost, one after the other and at once. The watcher meets a
shortened lease, an expiry during each of its steps and a second lease behind
the first within three ticks and two visible writes, and a renewal that is up to
three ticks late. For the scheduler two runs
and one fault give a retry of a run that failed, was abandoned or lost its
result, a subject given out beside its handler, and a handler that overruns: what
fails within one step is one fault, and a failure that the script reports is
none. The trim of ended runs needs a third run, and is checked with one
scheduler: with two, a tick that stalls between its clock reading and its load
for several leases across midnight can create a run of an earlier occurrence,
and past `KeepEndedRuns` such runs the trim drops the record of the later one.
In `SchedulerRuns` a day is one tick and a record lives for two, the shortest
`pruneAgeFor` allows, so that records are pruned and counted anew within the
five ticks; `SchedulerLoop` has longer days, in which a retry falls into the
occurrence it repeats.

Fairness, where liveness is checked. `SoftDelete`: a run of the collector
(`WF_vars(Collect)`), which a ticker enqueues every interval for the life of the
process (softdeletegc.go); a restart, a failed purge or a failed listing is not
excluded, only bounded. `LeaseWatch`: a call that wrote reaches its `hub.wake`,
the watcher's goroutine goes on from each read, its ticker ticks, its `select`
takes a timer that fired, a subscriber reads its channel; neither writers nor
the clock owe anything. `SchedulerLoop`: each scheduler's tick (a ticker of one
minute, scheduler.go:462), as far as no reap panics on a run of another task in
the same document, handlers that run on (the queue cancels one after its
timeout), and time; the queue owes nothing, deliveries may never come. The file
store and the lease store are safety specifications.

What the passing runs assume: no rename of an id to itself (`RenameTo` leaves it
out) and no ids that differ only in case (`Fold` is the identity); see below for
both. The run of `ReopenAgrees` has files of
one type, the third exception below. Edges of ids whose last face was deleted, and ids whose list entry
outlived its files, are set aside in `EdgesHaveEnds` and `ReopenAgrees` by
`lastFaceOf` and `Stale`. Subject keys outlive `PruneAge`, which is longer than
two occurrences (`pruneAgeFor`). The clock of the lease store does not go back,
and one machine holds the file lock.

## Findings

Three are runs that end in a counterexample to what a comment of the code says.

- `StaleList`: an entry of `pending-deletes.json` without files is skipped, not
  dropped; an entity created later under the id is hidden at the open after, and
  collected (softdelete.go:284).
- `TwoOwners`: edges that one restore brings back are checked against the live
  graph, not against each other; an entity gets a second owner (owning.go:366).
- `LostRun`: `Reap` ends an expired run and trims one that its loop has still to
  visit, reads that one back as nil and panics (schedulerstate/kvstate/kvstate.go:423).
  The document is not written, so the first tick after a restart panics too: the
  run is never abandoned, and the task never runs again.

Others were met while modelling, and are what the assumptions and exceptions
above are for; each is in the models' reach:

- a rename of an id to itself passes the conflict check and then removes the
  files it wrote (fsstore/entity.go:886);
- deleting the last face does not drop the edges hidden with another entity's
  mark; a restore brings back an edge without an end (fsstore/entity.go:682);
- an update that changes an entity's type writes the new file and then removes
  the old one, which "must go too, or it would resurrect the stale record on the
  next reload" (entity.go:421): a crash between leaves both files, the next open
  indexes one of them, and once that is deleted the other comes back at the open
  after (TLC shows it when `FsStoreCrash` is given a second type and two ids);
- a named face is created beside an id that folds alike (fsstore/entity.go:324);
- endpoints of a relation are checked before the transaction: a soft delete
  between leaves a live relation to a hidden entity (manager.go:3091; the
  exception in `OnlyStaleChecksReachMarks`);
- an extension with a time read before the lock brings an expired lease back
  without moving the version (kvlease/kv.go:423): a timer set in between does
  not cover it, and nobody is woken (`revived` and `gap` in `LeaseWatch`);
- a lease that expires between the wake of a tick and the clock reading its arm
  follows is missed until the next change; wake.go:82 names one such case, a
  removal before the timer's read, and this is another (`gap` in `LeaseWatch`);
- a tick creates its run if the task's version is the one it read
  (schedulerstate.go:247), and a pruned record counts its versions from the
  start again (kvstate.go:439): a tick that stalls until the record was pruned
  and rebuilt to the same version creates a run that is not due (`outdated`, the
  exception in `CreatedWhenDue`; it takes a tick that stalls for `PruneAge`);
- a subject's job may be delivered again while its handler runs, because the
  queue gave up on the handler (neoqqueue.go:462) or PostgreSQL ended its
  session (pgqueue.go:201): both claim the subject, which is executed side by
  side, and the one may settle it and end the run under the other (`twice`, the
  exceptions in `NoOverlap` and `WorkersOwnTheirRun`; deliveries are at least
  once, so nothing says that this may not happen);
- a tick reads the clock before it loads the state (scheduler.go:482, 502): a
  failure recorded between the two with the ladder at its cap is then further
  off than the cap, counts as implausible and is retried at once, though a
  failing task follows its ladder alone (schedulerstate.go:330). No property
  covers it;
- a retry of a fan-out after midnight serves the next occurrence (jobs.go:116);
- the collector purges by id: an entity restored and deleted again while a run
  is under way goes without its undo window (entitymanager/softdelete.go:512;
  the exception in `UndoWindowUnlessRelisted`);
- one hidden file that cannot be read holds back the purge and the restore of
  all (fsstore/softdelete.go:191; the exception in `DueMarksEnd`).

## What is proved

`tlapm` checks the eight proof modules to the last leaf, for every value of the
constants that meets the assumptions of the modules and the hypotheses named in
a theorem. Every invariant and every action property of the passing runs is
proved, and so are both refinements.

The modules assume what their constants are (`ConstantsAssumption`,
`MapsAssumption`, `LeaseAssumption`, `WatchAssumption`, `SchedulerAssumption`,
`SoftDeleteAssumption`): types of the bounds and tables, values that stand for
"none" outside the set they complete, and of the scheduler that a handler's
timeout is below the lease of a running run and that powers of two are numbers
(the provers do not know it). The hypotheses are:

| Hypothesis | Meaning | Why it is assumed |
|---|---|---|
| `NoVariants` | no two ids fold alike (in `SoftDeleteProofs` also: no rename to the same id) | a Finding shows what goes wrong with variants |
| `NoSelfRename` | no rename of an id to itself | a Finding: it removes the files it wrote |
| `Serial` | `MaxInFlight = 0`: endpoints are checked inside the transaction; for `OneHolder`, `RelationsKeepEnds` and `MemoryIsAReopen` | a Finding: with a stale check a relation may be created to a hidden entity. What holds without it is `StaleChecksAlone` |
| `OneType` | files of one type, as in the run of `ReopenAgrees` | a Finding: a crash inside a retype leaves two files of a face |
| `NoFaults` | no I/O errors | the memory store has none |
| `[]InOrder`, or one `Node` | runs are created in the order of their occurrences | a tick that stalls past midnight beside a second scheduler creates one of an earlier occurrence, and the trim then drops the later one's keys ("Why the bounds are enough") |

`FsStoreProofs`:

- `TypeCorrect`, `MarksSurvive`: `TypeOK` and `MarksAreListed`, inductive as
  they stand (the latter with the type).
- `MarksEndWhole`: an action property that needs only the type.
- `NeverLiveAndMarked`, `OnlyPurgeRemoves`, with `NoVariants`. `LiveXorMarked`
  is not inductive: a restore and a reopen rebuild the live index from
  `famEnts`, so `MarkInv` adds that a mark's hidden faces carry its id and that
  an unmarked id hides nothing.
- `StaleChecksAlone`, with `NoVariants` alone: whatever checks are in flight, no
  step but a create on a stale one puts a live edge on a hidden entity. It needs
  of the hidden edges only that each touches the mark that holds it
  (`HeldEdgesTouch`), which every step keeps, and `MarkInv`.
- `OneHolder`, with `Serial` too. `EdgeInv` ties the edges, the
  families that hold them and the times of the marks, which are distinct and
  below the clock: without it a handover could give an edge to a later mark.
- `RenamesKeepFaces`, with `NoSelfRename`: in each cut of a rename, whether it
  failed, died or finished, no old file is gone before all new ones are there.
- `RelationsKeepEnds`, with `NoVariants`, `NoSelfRename` and `Serial`, where the
  models of disk and memory meet. `FilesHold` says that every face the index or
  a mark knows has its file, and `RelationsHold` that the relation files are the
  live edges and the hidden ones. `EndsKept` says, end by end, that an edge's
  ends are there: of the index while the store is open, and of the files while
  it is closed, because an open has nothing but the files to build edges
  from. It has to speak of each end apart: a relation that a rename moves
  may have one end in `lastFaceOf` and the other not. Each cut of each operation
  then has to keep the file form.
- `MemoryIsAReopen`, with `OneType` too: `DiskInv` is those three together with
  `EdgeInv`, `NoOrphans` adds that no file is unknown to the index, and
  `ReopenAgrees` follows.

`FsStoreContractProofs`: `FileStoreImplementsMemoryStore`, with `NoVariants`,
`NoSelfRename` and `NoFaults`. The initial states map to the memory store's; one
lemma per operation shows that its step is the memory store's operation of that
name on `Index`; the endpoint check is a stutter. That no operation takes an
error path needs `FilesHold`: a delete also fails without an I/O error, when a
file of the family is gone (`NothingFails`).

`KvLeaseProofs`: every call first gets one of four shapes (`CallShape`): it
changes nothing, thins the leases quietly or visibly, or issues a token.

- `LeaseTypes`: `TypeOK`.
- `TokensNeverRepeat`, `VersionCoversTokens`, `VersionNeverReturns`: from
  `TokenInv`. The token counter lives in the document and is rebuilt from the
  version key, so neither value alone bounds the tokens issued: `CounterHolds`
  says that the document's counter does while its version is not behind the key,
  and the key does while it is not behind the document, and `LostIsEmpty` that a
  lost document is an empty one.
- `HashNamesOneLease`, `CapsAlwaysHold`: inductive over the shapes, the caps with
  the finiteness of the leases and the library's theorems on cardinality.
- `LiveLeasesStay`, `ChangesShow`: call by call. A lease that is live
  now is live at every earlier reading of the clock; a call that ends one is its
  holder's, or the rename or the delete of its entity, and writes visibly; `LostIsEmpty` makes the
  leases a call loads those of the document.
- `KvImplementsLeaseTable`: one lemma per method (`ClaimMaps`, `RenewMaps`, ...),
  under `TokenInv` and `HashesUnique`. The first gives `Issue`: a call that ends
  without `exposed` loaded a counter that covers every token (`LoadCovers`). The
  second gives `OwnForm`: the lease that `byHash` picks is all the caller has
  under that hash. `CallEndures` shows that the call which loses the count has
  paid for a failed read. A read is a stutter, or a `Lose` when an access failed.

`LeaseWatchProofs`:

- `WatchTypes`, `TimerIsEarlyEnough`: `TypeOK` and `TimerCoversLeases`, from
  `WatchInv`, which adds that the version read last is not ahead of the store's
  and that the timer was armed from a time that has passed. A version that moves
  leaves the watcher behind it, so only a write that leaves the version alone
  (a pruning, a renewal to a later expiry) can concern the timer. Such a write
  decides by a clock reading of any age; it brings no expiry forward, and none
  back but those in `revived`.

`SoftDeleteProofs`: every step has one of a few shapes of what it makes of the
marks, the deleters and the clock.

- `SoftDeleteTyped`, `UndoWindowHolds`: from `WindowInv`, which has the type,
  that marks hide a family of their own id, that no mark is from the future, and
  that what the collector has listed is past its window and no newer than the
  mark of that id: what it purges is due, unless the id was marked again.
- `OwnershipBreaksInPairs`, with `NoVariants`: a step that adds at most one edge
  checks it against all the others, and only a restore adds two.
- `OwnedEntitiesComeBack`, with `NoVariants`: `TookInv` says of the ids an owner
  took along that they are still marked, at the owner's time and by its deleter,
  and that the owner's mark holds the edge to them, which is what
  `markedWithOwner` looks for.

`SchedulerRunsProofs`: what any step does to the task's record and the runs is
brought to one form (`RunsStep`): it leaves the runs there are, some of them
ended, failed or dropped with what that does to the record, or appends a run for
a version of the record it has checked.

- `RunsTyped`: `TypeOK`, with `TypeInv`, in which jobs, handlers and ticks name
  runs that exist.
- `OneRunAtATime`, `SuccessesCount`, `LaddersHaveCause`: inductive with
  `TypeInv` over `RunsStep`.
- `RunsCreatedWhenDue`: from `TickDue`. A tick that is about to create a run saw
  the task due at a version; while the record has that version it is the record
  it saw, unless the tick is `outdated`.

`SchedulerWorkProofs`: `WorkInv` is `Truthful` (a run's counters are what its
keys say, and a success has no subject that failed) and `Custody` (every
delivery, every handler and every subject still to be queued is a token, and
what holds a token agrees with the stage of its run and with the subject's key).
A subject has one token while no subject of its run was given out twice
(`twice`); a run's own job has one handler always, because the start of a
queued run ends its being queued.

- `WorkersOwnTheirRuns`: a handler within its timeout works on a run that is not
  abandoned, because the lease it renewed outlasts the timeout; and the run goes
  on, unless it is one of `twice`.
- `NeverOverlap`: a run has one handler; handlers within their timeout are of one
  run, by `OneActiveRun`, and each subject of it has one token, with the same
  exception.
- `RunsAreTruthful`: `Truthful` in the words of the property.

`SchedulerServedProofs`: each step is first said run by run (`Moves`): a run
goes on, ends now, or is dropped, and why.

- `SubjectsServedOnce`, with `[]InOrder`: `Recalled` says that a delivery is the
  key of some run of its occurrence, unless the occurrence is out of the reach
  of any run that may act, or a run of a later one exists. Pruning keeps it since
  `PruneAge` covers two occurrences and `Dated` ties the times of runs and
  record to the creation; the trim keeps it since it spares the occurrence of
  the newest ended run, and an active run is the last one (`LastLive`).
  `Unserved` is what it is for: what an expansion has read, and what a run that
  may act still owes, was not served, and nobody delivers between the reading
  and the expecting, by `Custody`.
- `OneServesOnce`: the ticks of one scheduler create runs at growing times
  (`Timely`), so `InOrder` holds.

Only model-checked: the liveness properties (`DueMarksEnd`, `ViewCatchesUp`,
`RunsEnd`, `OwedTasksRun`), since liveness under fairness, like `ENABLED`, is
out of the prover's reach; and `AllInTurn`, an induction over the families of a
transaction. The models have no recursive operators.

## What is not modelled

The components listed as `not_modelled` in `PROJECT.json`, with the reason
there: other backends of a contract modelled once (the PostgreSQL and SQLite
stores and leases), pure configuration (access control, metamodel, search), and
I/O (front ends, mail, git, scripts, the web client). Within the stores:
attachments, mentions, conversions of files and the file watcher, whose
correctness depends on how the operating system merges reports. Within the
entity manager: authorization, anchors of channels, audit, versions. Within the
lease service: its lookups and access checks around a renewal.

## Plan

Done: the models of the file store, the memory store, soft delete, the lease
store and its watcher and the scheduler's runs; the refinements of `MemStore` by
`FsStore` and of `LeaseTable` by `KvLease`; and the proofs of what their runs
check, but for what the list above leaves to TLC. Next come modules of
components that are left: the lease service (a renewal between a rename and the
lease hook), the realtime hub, piles; and pure modules for `statemachine` and
`syncmerge` against reference definitions.
