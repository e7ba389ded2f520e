# TLA+ models of sourced_rust

`sourced_rust` is an event-sourcing library: entities record events, repositories
persist streams of events, a queued repository serializes workflows with
per-entity locks, an outbox carries messages to a bus, services react to them.
This directory holds TLA+ models of its core, the TLC configurations that check
them on small instances, and TLAPS proofs of their main properties for every
instance. Line numbers refer to the files under `src/src/` of the repository.

## 1. Inventory of the system

| Component | State | Operations | Interacts with |
|---|---|---|---|
| `Entity` (`entity/`) | `version`, `events`, `committed_version`, `replaying` | `digest*`, `load_from_history`, `new_events`, `mark_committed`, `set_snapshot`, `rehydrate` | held by callers, loaded and committed by repositories |
| `HashMapRepository` (`hashmap_repo/`) | map id → event stream behind one `RwLock`, a read model store, a snapshot store | `get_one`, `get_many`, `find`, `find_one`, `exists`, `count`, `commit` | shared by all clones, all threads |
| Locks (`lock/`) | one `Mutex<bool>` + `Condvar` per id | `lock`, `try_lock`, `unlock`, `get_lock` | used by the two queued stores |
| `QueuedRepository` (`queued_repo/`) | the lock manager | the repository calls, locking what they return; `lock`, `unlock`, `abort`; `commit` unlocks | wraps any repository |
| `AggregateRepository` (`aggregate/`) | none | typed `get`, `find`, `exists`, `count`, `peek`, `commit`, `abort`, `hydrate` | wraps either repository |
| Outbox message (`outbox/`) | an aggregate: status, attempts, worker | `initialize`, `claim`, `complete`, `release`, `fail` | committed with aggregates |
| Outbox workers (`outbox_worker/`) | threads with a stop channel; `OutboxWorker` with batch size and attempt limit | store operations `claim/complete/release/fail_outbox_message`, the thread loop, `process_message`, `process_batch` | event store on one side, publisher on the other |
| Bus (`bus/`) | shared log + position per subscriber; named queues with one position | `publish`, `poll`, `ack`, `nack`, `send`, `listen`, `recv` | workers publish, services subscribe |
| Service (`microsvc/`) | handler table; transport threads | `dispatch`, `listen` loop, `subscribe` loop, `stop` | bus, repositories; HTTP and gRPC adapters |
| Read models (`read_model/`) | map key → (bytes, version) behind a `RwLock`; queued variant adds locks | `upsert`, `insert`, `update`, `delete`, `get_model`, finders | `CommitBuilder` writes them after the entities |
| `CommitBuilder` (`commit_builder/`) | queued models and messages | `commit`, `commit_many`, `commit_all` | repository, then read model store |
| Snapshots (`snapshot/`) | map id → (version, data) | snapshot-aware `get`/`commit`, hydration from a snapshot | event store; outside the entity locks |
| Upcasters (`entity/upcaster.rs`) | none | `upcast_events` | hydration |
| Emitter (`emitter/`) | local events queued by an aggregate, listeners | `enqueue`, `emit_queued` | fed by commands and by replay; drained after a commit |
| Derive macros (`sourced_rust_macros/`) | none | generate commands, replay, snapshots | every aggregate |
| HTTP, gRPC (`microsvc/`) | none | a request to `Service::dispatch` | |

What is hard here: several threads share one store and one lock table; a copy of
an entity is read long before it is committed; calls choose ids before they hold
locks; workers change a message in the store, in memory and at the publisher in
separate steps and may stop, die or be overtaken in between. `PROJECT.json`
lists these hazards one by one, each at its line, with the properties aimed at it.

What makes each part correct:

- event store: streams are append-only, gap-free and numbered; a multi-entity
  commit is all or nothing; no update is lost to a stale writer;
- queued repository: one holder per lock, an entity obtained under its lock is
  current until it is committed, every waiter is served, no lock outlives its
  workflow;
- outbox: a message is recorded as published only if it was, is never reopened
  once settled, has one claimant at a time, and is delivered at least once;
- bus and service: every queued message goes to exactly one listener, every
  published event to one transport of each handle, a taken one is dispatched and
  has its effect at most once, a receiver misses nothing it asked for;
- aggregates and snapshots: the state of an aggregate is the meaning of its
  events, however it was loaded; a snapshot holds committed state only; a guarded
  event is recorded once; listeners hear of committed events only;
- read models: a version detects every intervening write, a lock every
  intervening reader; a view shows committed history and does not go back; no
  lock is lost and nobody waits in a circle.

## 2. Modules

| Module | Models | Kind |
|---|---|---|
| `Entity` | `Entity` as a value with its operations | operators |
| `EventLog` | what an event store promises: atomic compare-and-append | abstract specification |
| `EventStore` | `HashMapRepository` and the copies in callers' hands | component |
| `EventStoreProofs` | theorems on `EventStore`, refinement of `EventLog` | proofs |
| `QueuedRepository` | `QueuedRepository`, `InMemoryLock` and the locking side of `AggregateRepository` | component |
| `QueuedRepositoryProofs` | theorems on `QueuedRepository` | proofs |
| `OutboxMessage` | the message's status machine as a value | operators |
| `Outbox` | store operations, worker threads, drivers, operators | component |
| `OutboxProofs`, `OutboxDeliveryProofs` | theorems on `Outbox`: settled messages; claims and deliveries | proofs |
| `Bus` | `InMemoryQueue`, `EventReceiver`, the `listen` and `subscribe` loops of a service | component |
| `BusProofs` | theorems on `Bus` | proofs |
| `Aggregate` | what the macros generate, hydration, upcasting, snapshots of one aggregate, as a value | operators |
| `AggregateProofs` | what upcasting and hydration compute, for every input | proofs |
| `SnapshotRepository` | `AggregateRepository`, `SnapshotAggregateRepository`, the snapshot store and the emitter | component |
| `SnapshotRepositoryProofs` | theorems on `SnapshotRepository` | proofs |
| `ReadModels` | the read model store, `QueuedReadModelStore` and `CommitBuilder` over an event store | component |
| `ReadModelsProofs` | theorems on `ReadModels` | proofs |
| `MCEventStore`, `MCQueuedRepository`, `MCOutbox`, `MCBus`, `MCSnapshotRepository`, `MCReadModels` | finite instances | model checking |

The modules stack the way the code does. `EventStore` is proved to be an atomic
compare-and-append; `QueuedRepository`, `Outbox`, `SnapshotRepository` and
`ReadModels` use it as one, which is why a stream is only its length in the first
and a message with a version in the second. `Aggregate` extends `Entity`, and
`SnapshotRepository` runs its operators for several clients. Operators whose
comment says "Mutant of" are variants of the definition that follows them, with a
plausible bug; no specification uses them.

### Entity and EventStore

An event is its sequence number and a tag (the copy that recorded it); payload,
metadata and timestamps are dropped. `entity[o]` is one `Entity` value; a
mutable borrow makes it private, so `Record`, `New` and the loads are single
steps. `event_store` and `entries` are the values and keys of the map (a commit
of an entity without events creates an empty entry). `batch`/`next` are the
commit that holds the write guard: `CommitBegin` is phase 1 (lines 183-193),
each `CommitAppend` one turn of phase 2 (195-201), `CommitConflict` the early
return. Readers wait for the guard (`GuardFree`). `get_many` is several `GetOne`
because the read guard is released between them; `find` reads under one guard.

### QueuedRepository

Threads run workflows: a call, work on what it returned, then commit or abort. `pc`
distinguishes the lock loop (`lock`, `asleep`), the (re-)fetch, the caller's work, a
failed commit and the unlock loop. Each lock acquisition, each fetch and each unlock
is a step of its own. Sleeping and testing the flag are one step because
`Condvar::wait` releases the mutex atomically; spurious wakeups are allowed. The
code records nowhere who holds a lock; `mine` does, for the properties only: no
guard and no other variable depends on it. What a thread will unlock follows from
its place and its call alone (`WillUnlock`). `Calls[t]` says which calls thread t's
code makes, so that disciplined callers and careless ones are instances of one
module.

### OutboxMessage and Outbox

A message's stream is represented by what it hydrates to: each command records
one event or, outside its guard, nothing. The store operations hold the write
guard throughout and are one step. A thread's publish and its `complete` or
`release` are separate steps, so it can be overtaken or die in between. A driver
follows the README's example: claim (or, as a loader, just read) messages, call
`process_batch`, then commit each message, leaving at the first conflict; a
driver's copies are `local`. `delivered` counts successful publishes and is seen
by no action. Operators release or fail messages at any time.

### Bus

A *source* is a named queue or a subscriber handle: a stream of events and one
cursor, moved under its lock by whoever takes an event. A handle's stream is the
shared log; clones of a handle share its cursor, which is why two transports may
read one source. The position in the stream stands for the event's id. A
transport's turn is three steps: take (`Poll`, `Listen`), dispatch (`DispatchOk`,
`DispatchErr`, `Panic`) and acknowledge (`Ack`, `Nack`); the stop signal is seen
only between turns. `recv` may take several `RecvPoll`s, skipping other types, and
may time out before each. `done` and `effects` are seen by no action: they record
who finished with what and which handlers returned Ok.

### Aggregate and SnapshotRepository

The aggregate is the `Todo` of the repository's tests, reduced to what replay can
get wrong: `Initialized` carries a payload that gained a field with each schema,
`Completed` is guarded by `!completed`. A payload is the sequence of its fields,
each `given` by a caller or filled in as `default` by an upcaster; the state is the
sequence of method bodies that ran. `Call` is the method the macros generate and is
used by commands and by replay alike, as in the code: the entity's `replaying` flag
alone tells them apart. `UpcastOne`, `Replay` and their like are recursive
functions.

A client loads (`Get`; `Find`; `GetAll` with one `GetOne` per id, since `get_many`
takes the read guard anew for each), hydrates one entity after another with the
snapshot that is stored at that moment (`HydrateNext`, `Rejected`, `FoundOne`,
`HydrateErr`), executes commands, commits, saves snapshots one by one
(`MaybeSnapshot`) and emits. Entity and snapshot are in different stores with
different guards, so a commit, a later snapshot or a deletion can come between any
two of these steps. Clients have schemas: old and new code share one store. Locks
are left out, which only adds interleavings.

### ReadModels

A view's data is the history of which it is the projection, so that "older" and
"newer" views of one aggregate can be compared. `want`/`todo` are the loops of a
call: locks still to be taken, in key order, and models still to be fetched or
written. `Fetch` is phase 3 of a search, with the release of what no longer
matches. `BuilderCommit` commits the aggregate; each `UpsertRaw` writes one view
and releases its lock. Every write ends with that release, whether or not the
caller had the lock, as in the code. `held` (who holds a lock) and `gone` (deleted
since it was read) are for the properties; the code records neither.

Callers are disciplined in a way the code does not enforce. A *guarded* key is
always read under its lock, locks are taken in key order and before the aggregate
is loaded; an *optimistic* key is only read without a lock. The two differ: a write
to an optimistic key clears a flag nobody has set. Acquiring a lock is one step
(its wait loop is refined in `QueuedRepository`), and so are a write and the
release after it.

## 3. Runs

| Run | Instance | Result |
|---|---|---|
| `event_store` | 2 ids, 2 copies of each, 1- and 2-entity batches in both orders, 2 events per copy; 100,542 states | all six properties hold |
| `same_id_commit` | batch of two copies of one id | violates `ConcurrentWritesDetected` |
| `queued_locking` | 2 threads, 2 ids, 3 calls each, every call that locks; 402,749 states | exclusion and serialization hold |
| `queued_open` | 3 threads, 2 ids, 1 call each: one disciplined, one using `lock()`, one committing peeked and new entities; 235,603 states | a set flag has a releaser, no lock left, no deadlock, all waiters served |
| `aggregate_queries` | gets and `exists` | violates `ReadChecksTakeNoLock` |
| `create_under_lock` | 3 threads, 1 id, gets and creations | violates `MutualExclusion` |
| `outbox` | 2 messages, 2 threads, 1 loading driver, 2 operator calls or refusals, 1 crash; 773,308 states | safety holds |
| `outbox_delivery` | 3 messages, claims of 2, 2 threads of which 1 may stop, 1 claiming driver, 2 refusals | single claimant, nothing stranded, nothing given up early, at-least-once |
| `outbox_batch_size` | 1 driver, claims 2, batch size 1 | violates `AtLeastOnce` |
| `bus` | 1 queue with 2 listeners, 1 handle shared by 2 subscribe threads, 1 receiver; 2 messages and 2 published events, one of each type; one transport of each source may stop or panic; 197,472 states | one consumer per event, no double effect, nothing the receiver wants is missed, every message served |
| `snapshots` | 1 client of schema 1 without snapshots, 2 of schema 3 with snapshots after every event; a stream of 2 events that all three write and one of 1 event for loads and commits of two aggregates; 761,691 states | state, snapshots, guards and local events agree with the stream |
| `read_models` | 2 callers, 2 guarded keys, 1 optimistic key, 2 events, versions up to 1, 2 and 2; 1,553,925 states | locks, views and versions hold, no circular wait, no deadlock |

**Bounds.** `MaxEvents` 2 gives every copy a committed and an uncommitted event,
enough for a copy to be behind, level with or ahead of another; two ids are what
a partial commit needs. Two ids and two threads give every lock-order conflict,
and three calls let a thread come back to a lock it has leaked; the third thread
of `queued_open` and `create_under_lock` is the one that profits from a lock
released by the wrong thread. Three messages with claims of two make a batch
with a rest; in `bus` two events per source let two
transports work at once on one source, the queue filling one by one and the log
by a batch; `MaxFaults`, `MaxCrashes`, `MaxCalls` and `MaxVersion` cap what
would grow for ever. In `snapshots` two events and three writers of one stream let
a snapshot be older than, level with or newer than the entity it meets, and schema
3 needs a chain of two upcasters; in `read_models` two events and two guarded keys
are what two overlapping builders and two lock orders need, and version 2 is a
version that a delete and an insert can bring back to 1. `queued_locking` and `read_models` use the symmetry of
their two threads, which make the same calls; no liveness run uses symmetry. `queued_locking`
turns the deadlock check off: `find` and the aggregate queries leave locks
behind by design of the code, after which the threads may indeed all wait.

**Fairness.** `QueuedRepository!FairSpec`: each thread's steps inside a call, and
its disposal of what the call returned, happen in the end (threads are scheduled
by the operating system, and the property is about callers that commit or
abort); no call is ever forced to be made. `Outbox!FairSpec`: worker threads run
their loop, drivers call theirs again, and a publisher refuses at most
`MaxFaults` times, the usual reading of at-least-once. `Bus!FairSpec`: transport threads
run their loops and handlers return, with Ok or an error; receivers are called by
nobody in particular and get none. Weak fairness suffices
for all; stopping, crashing and operators are never required.

### What the violations show

1. `same_id_commit`. Phase 1 validates all entities against the store before
   phase 2 appends any, so two copies of one id in one batch both pass and
   sequence numbers repeat.
2. `aggregate_queries`. `AggregateRepository::exists`/`count` go through
   `repo.find(|_| true)`: over a queued repository they lock every entity and
   drop the means to unlock them.
3. `create_under_lock`. `QueuedRepository::commit` says it acquires the locks of
   its entities but only looks them up, and then releases them: committing an
   entity that was not obtained under its lock frees somebody else's.
4. `outbox_batch_size`. The README's driver claims 100 messages for a worker
   with a batch size of 10; those not visited stay `InFlight`, and no code reads
   the lease.

## 4. Proofs

Every safety property that a passing run checks is also a theorem, for arbitrary
constants that satisfy the named assumptions (`StoreAssumption`,
`QueuedAssumption`, `OutboxAssumption`, `BusAssumption`, `ReadModelsAssumption`,
`SnapshotAssumption`), which TLC evaluates in every run. Where a theorem needs more,
the hypothesis is a definition of the module and is named below. The inductive
invariants are definitions of the component modules; TLC has checked each of them on
the instance of its run.

**EventStoreProofs.** `TypeCorrect` needs nothing more. The others assume
`DistinctIds`: no batch names two copies of one id (violation 1 shows why). The
invariant `IInv` adds to the stated properties that an entity's uncommitted
events are its own and numbered (`EntityOK`) and that what phase 1 found is
still true of the entities phase 2 has not reached (`PendingIsCurrent`): without
the first, `SequenceIsPosition` is not inductive, since a commit appends
whatever the entity holds; without the second, nothing relates the append to the
check. From it follow `SequencesAreGapFree`, `WritesAreDetected`,
`CopiesAgreeWithStore`, `ConflictsAreStale`, `StoreIsAppendOnly` and
`Refinement`: the store implements `EventLog`. The mapping lets a commit take
effect at phase 1: the logs already contain what is pending, because the guard
hides the store until phase 2 is over; each `CommitAppend` is then a stutter.

**QueuedRepositoryProofs.** `TypeCorrect` is unconditional. `LocksExclude` and
`WorkflowsAreSerialized` assume `Disciplined` (no thread commits peeked, new or
`lock()`ed entities; violation 3 shows why). `LockInv` adds `LockDiscipline`: at
each place of a call, which locks the thread holds and that what it has read under
them is still current. Exclusion makes other commits leave those entities alone;
that in turn makes `Current` true at every commit. `WorkflowsLeaveNoLock` and
`EveryLockHasAReleaser` assume `ReturnsWhatItLocks` (no `find` and no aggregate
query, which may lock more than they return) but neither discipline nor exclusion.
The first rests on `LocksAccounted`: at each place of a call, where the thread's
locks are to be found, among the ids visited, the entities to fetch or the ids to
unlock. The second is about the flags: `FlagHasReleaser` is inductive together with
`LocksAccounted`, because a thread drops an id from what it will unlock only in the
step that clears the flag, while the list itself moves from the ids locked to the
entities returned to the unlock loop. With `find` it is false: the lock of an entity
that no longer matches is on nobody's list.

**OutboxProofs.** `PublishedAreDelivered` and `SettledStaySettled` are
unconditional: any number of threads, drivers and loaders, crashes and operators
included. `OutboxInv` adds that whoever is about to record a message as
published has delivered it (`ClaimsOfDeliveryAreTrue`), and that a driver's copy
which still has the stored version is of an unsettled message
(`CopiesAreSound`): the argument why the version check of `commit` protects a
settled message from late workers.

**OutboxDeliveryProofs.** `OneClaimant`, `DeliveriesAreCounted` and
`GivenUpIsExhausted` assume `ClaimFirst`: no operator releases a message over a
worker's head, and drivers claim what they work on. Without it they are false, since
a released message is claimed again while its first worker still publishes, and
operators fail messages at will. `DeliveryInv` says that a worker holds only
messages which the store has in flight for it (`HeldIsClaimed`), that a thread which
has not published has an attempt to spare (`ThreadsAtWork`), and that a driver's
copies are at the stored version (`DriversAtWork`); the last gives
`ClaimedCommitsSucceed` as well. `GivenUpIsExhausted` adds `DeliveryIsRecorded`: a
message that was delivered is Published, or still with the one worker that delivered
it, so that no refusal and no commit can put it back or fail it. `NoMessageStranded`
adds `AllVisited` (no crash, and the batch size covers the claim: violation 4 and
section 5 show why).

**BusProofs.** All four theorems are unconditional. `ExactlyOneConsumer` alone is
not inductive: `BusInv` adds that a transport never works on an event it has finished
with (`WorkIsNew`), and, for the effects, that an effect is of an event some
transport of the source took (`EffectsAreTaken`) and that a transport about to
acknowledge has had its effect (`OkHasEffect`).

**ReadModelsProofs.** `ReadModelsInv` adds three parts. `HandsAreInOrder`: locked
models are read under their locks, locks are taken in order and before the aggregate
is loaded. `BaseIsHistory`: an aggregate in hand is committed history and no view under
the caller's locks shows more than it; this is why a builder cannot put an older view
over a newer one. `VersionsGrow`: versions do not fall until a delete. The action
properties `NoLostUpdate` and `LockedViewsAdvance` follow. `LocksNeverDeadlock` assumes
that the keys have an upper bound: in a circle of callers, the one that waits for the
largest key waits for somebody who would wait for a larger one.

**AggregateProofs.** Upcasting, the replay loop and the snapshot filter are recursive
functions, and what they compute is proved for inputs of every length. The induction
is carried out with sets: a set of naturals that holds 0 and is closed under successor
holds every natural, because the naturals outside it would have a least element
(`LeastNat`, `Induction`). `UpcastingEnds` is a counting argument: every turn of the
loop that changes the event uses an upcaster of a later version than all turns before,
so that n upcasters allow n such turns. `UpcastingReaches` shows that complete
upcasters lead each older event to the shape that decodes. `HydrateIsMeaning` and
`HydrateFromSnapshotIsMeaning` compare replay, which runs guarded methods on a changing
state, with `Meaning`, which reads the stream event by event; they need that the guarded
event occurs once, because replay skips a second one.

**SnapshotRepositoryProofs.** `HistoryInv` is the invariant. Its parts support one
another: streams and copies are numbered and hold the guarded event once
(`StreamsAreSound`, `HeldIsSound`), which needs that a guard is evaluated on the meaning
of the copy's events (`StateIsHistory`) and that a commit appends only to a stream
equal to what the copy was loaded from; hydration yields that meaning, if the snapshot
is a prefix of the stream (`SnapshotIsHistory`) and the entity, read earlier, is one
too (`LoadedIsPrefix`); a snapshot is one because it is taken of an aggregate with
nothing uncommitted. `EmitsAreCounted` counts emitted and pending local events together
against the stream. The proof takes the invariant apart into what holds of one client's
values next to the streams (`Parts`), so that a commit only has to show that streams
grow. `NewestSchemaLoads` assumes `UpcastersReach`: the upcasters lead from each earlier
version to the schema's own. `MCSnapshotRepository` asserts that its upcasters do.

**Only model-checked.** Liveness under fairness (`WaitersServed`, `AtLeastOnce`,
`EveryMessageServed`), which the prover does not support, and the four violations.

## 5. Limits of the models

- A crashed worker's messages stay `InFlight` for ever: the lease is written and
  never read. `InFlightIsHeld` and `AtLeastOnce` are therefore stated without
  crashes, and the thread run of `outbox` checks what remains true with them.
- A worker thread has no attempt limit; a publisher that always refuses makes it
  retry for ever. The runs bound refusals instead.
- `find` keeps the lock of an entity that stopped matching between its two reads
  and does not return it; `get` of an absent id keeps its lock too. `queued_open`
  therefore has no `find` caller, and its `get` callers dispose of every id they
  asked for.
- The bus does not redeliver: an event whose handler failed is finished with, and
  one whose handler panicked is lost with its thread. `EveryMessageServed` says
  served, not handled with success. `reset_position` and `clear` are left out.
- `try_recv` is `recv(0)`, which returns before its first poll: it never yields an
  event. In the model it is `Recv` followed by `RecvTimeout`.
- `CommitBuilder` writes views after the entities, each under its own guard.
  `docs/read-models.md` (lines 122 and 172) speaks of "a single transaction" and of
  a read model that "just rides along inside that lock scope". Neither is so: a
  reader between the two halves sees the new aggregate with the old view, and of
  two callers without read model locks the slower may put an older view over a
  newer one for good. `GuardedViewsAdvance` is therefore stated for keys that
  callers lock through `QueuedReadModelStore`. (`QueuedRepository` is not a
  `ReadModelStore`, so the builder cannot be started from one.)
- `delete` forgets the version, so an `update` whose version was read before a
  delete and a new insert succeeds against another model. `VersionNamesContent` and
  `UpdateRestsOnRead` say what holds up to a delete.
- A caller that gets the same guarded model twice waits for itself, and callers
  that take locks one by one in different orders wait for each other; the callers
  of `ReadModels` do neither.
- A snapshot written by another schema does not decode, and the load fails until
  somebody calls `delete_snapshot`: snapshots are not upcast and there is no
  fallback to full replay. `NewestCanLoad` is stated for stores whose snapshots all
  come from the newest schema.
- Fields marked `#[serde(skip)]` are not in a snapshot; a guard that reads one may
  decide differently after a load from a snapshot. The model's guard reads none.
- A `#[digest(..., when)]` under an `#[enqueue]` without the guard queues local
  events for commands that record nothing; `Call` has the guard on both, as
  `#[sourced]` generates it.
- Upcasters lead to later versions (`SnapshotAssumption`); a cycle would make
  `upcast_one` loop for ever. Callers of the emitter emit after every commit that
  succeeded, and drop the aggregate after one that failed.
- Except in `SnapshotRepository`, hydration always succeeds; in particular inside
  `claim_outbox_messages`. Mutexes are not poisoned, numbers do not overflow (`u64`
  lengths and versions, `u32` attempts).
- `set_snapshot` is not modelled: no code of the library calls it, and an entity on
  which it was called is no longer an event-sourced one.

Not modelled at all: HTTP and gRPC adapters, serialization, and the macros'
parsing and token manipulation (I/O, formatting, compile time, or no state of
their own).

## 6. Plan

1. (done) `Entity`, `EventStore`, `EventLog`, their proofs; `QueuedRepository` and
   `Outbox` with theirs; `Bus` with the service loops.
2. (done) `Aggregate` and `SnapshotRepository`; `ReadModels` with `CommitBuilder`.
3. (done) Proofs of the safety properties of every component, and of what
   upcasting and hydration compute.
4. Proofs still open: that `Outbox` messages hydrate to the status the module keeps,
   and that `QueuedRepository` runs each workflow on an `EventLog`.
5. If a run can be spared: the composition outbox worker → bus → service.
