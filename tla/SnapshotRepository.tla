------------------------- MODULE SnapshotRepository -------------------------
(***************************************************************************)
(* Callers of AggregateRepository and SnapshotAggregateRepository          *)
(* (aggregate/aggregate.rs, snapshot/repository.rs) over one store of      *)
(* events and one store of snapshots: load, command, commit, snapshot,     *)
(* emit.                                                                   *)
(*                                                                         *)
(* The event store is the atomic compare-and-append that EventStore is     *)
(* proved to be.  The snapshot store has a guard of its own: reading an    *)
(* entity and reading its snapshot, committing and saving the snapshot,    *)
(* are separate steps, and commit has released the entity's lock before    *)
(* the snapshot is saved.  Locks only take interleavings away, so there    *)
(* are none here.                                                          *)
(*                                                                         *)
(* Client c uses the aggregate type of schema Schema[c], with snapshots if *)
(* it is one of Snapshotters: old and new writers share one store.         *)
(***************************************************************************)
EXTENDS Aggregate, FiniteSets

CONSTANTS Ids, Clients,
          Snapshotters,  \* clients that use with_snapshots
          Searchers,     \* clients whose code searches: find, find_one, exists, count
          Schema,        \* Schema[c]: the schema of the aggregate type of c
          Upcasters,     \* Upcasters[s]: what A::upcasters() returns at schema s
          Frequency,     \* events between snapshots
          Methods,       \* Methods[c]: the <<id, name>> of the methods c's code calls
          MaxEvents      \* bound: MaxEvents[id] events in one stream or copy

\* Every upcaster leads to a later version.  The code does not check it, and
\* loops for ever in upcast_one if a chain comes back to where it was.
ASSUME SnapshotAssumption ==
  /\ Snapshotters \subseteq Clients /\ Searchers \subseteq Clients
  /\ Schema \in [Clients -> Nat \ {0}]
  /\ \A c \in Clients :
       /\ Upcasters[Schema[c]] \in Seq(UpcasterRecord)
       /\ \A i \in 1 .. Len(Upcasters[Schema[c]]) :
            Upcasters[Schema[c]][i].to_version > Upcasters[Schema[c]][i].from_version
  /\ Frequency \in Nat
  /\ Methods \in [Clients -> SUBSET (Ids \X Names)]
  /\ MaxEvents \in [Ids -> Nat]

VARIABLES store,      \* store[id]: the persisted stream, empty if id is absent
          snapshots,  \* the stored snapshots: a function on the ids that have one
          pc,         \* pc[c]: where client c is
          loading,    \* loading[c]: entities its current call has read
          aggs,       \* aggs[c]: the aggregates in its hands, by id
          todo,       \* todo[c]: ids that its loop has still to visit
          emitted     \* emitted[id]: how many local events reached listeners

vars == <<store, snapshots, pc, loading, aggs, todo, emitted>>

Places == {"idle", "read", "hydrate", "search", "snapshot", "emit"}
Nothing == [id \in {} |-> NewEntity]

\* f with the value v at x, whether or not x is in its domain; f without x.
Put(f, x, v) == [y \in DOMAIN f \cup {x} |-> IF y = x THEN v ELSE f[y]]
Without(f, x) == [y \in DOMAIN f \ {x} |-> f[y]]

\* The ids that client c works with.
IdsOf(c) == {m[1] : m \in Methods[c]}

Init ==
  /\ store = [id \in Ids |-> << >>]
  /\ snapshots = Nothing
  /\ pc = [c \in Clients |-> "idle"]
  /\ loading = [c \in Clients |-> Nothing]
  /\ aggs = [c \in Clients |-> Nothing]
  /\ todo = [c \in Clients |-> {}]
  /\ emitted = [id \in Ids |-> 0]
-----------------------------------------------------------------------------
(***************************************************************************)
(* Loading                                                                 *)
(***************************************************************************)

\* A call has read the entities of ids, and the loop that hydrates them begins.
\* A caller loads with empty hands.
Reading(c, ids, place) ==
  /\ pc[c] = "idle" /\ aggs[c] = Nothing
  /\ loading' = [loading EXCEPT ![c] = [id \in ids |-> LoadFromHistory(NewEntity, store[id])]]
  /\ pc' = [pc EXCEPT ![c] = place]
  /\ UNCHANGED <<store, snapshots, aggs, todo, emitted>>

\* The ids of c that are stored.
Existing(c) == {id \in IdsOf(c) : store[id] # << >>}

\* get and peek.
Get(c, id) == id \in Existing(c) /\ Reading(c, {id}, "hydrate")

\* find, find_one, exists and count read every entity under one read guard.
Find(c) == c \in Searchers /\ Existing(c) # {} /\ Reading(c, Existing(c), "search")

\* get_all and peek_all read one entity after another, each under its own guard.
GetAll(c) ==
  /\ pc[c] = "idle" /\ aggs[c] = Nothing /\ Cardinality(IdsOf(c)) > 1
  /\ todo' = [todo EXCEPT ![c] = IdsOf(c)]
  /\ pc' = [pc EXCEPT ![c] = "read"]
  /\ UNCHANGED <<store, snapshots, loading, aggs, emitted>>

\* get_one of the next id, which is left out if it is not stored.
GetOne(c, id) ==
  /\ pc[c] = "read" /\ id \in todo[c]
  /\ loading' = IF id \in Existing(c)
                  THEN [loading EXCEPT ![c] = Put(@, id, LoadFromHistory(NewEntity, store[id]))]
                  ELSE loading
  /\ todo' = [todo EXCEPT ![c] = @ \ {id}]
  /\ pc' = [pc EXCEPT ![c] = IF todo[c] # {id} THEN "read"
                             ELSE IF loading'[c] = Nothing THEN "idle" ELSE "hydrate"]
  /\ UNCHANGED <<store, snapshots, aggs, emitted>>

\* Mutant of UsesSnapshot: a snapshot newer than the entity is used as well.
UsesAnySnapshot(c, id) == c \in Snapshotters /\ id \in DOMAIN snapshots

\* hydrate_with_optional_snapshot: a snapshot that is ahead of the entity, which
\* was read before it, is not used.
UsesSnapshot(c, id) ==
  /\ c \in Snapshotters /\ id \in DOMAIN snapshots
  /\ snapshots[id].version <= loading[c][id].version

\* Hydration succeeds: the snapshot, if one is used, is one of this aggregate
\* type, and every event that is replayed decodes.
Hydrates(c, id) ==
  LET s == Schema[c]
      e == loading[c][id]
  IN  IF UsesSnapshot(c, id)
        THEN /\ snapshots[id].schema = s
             /\ Replays(AfterSnapshot(e, snapshots[id]), Upcasters[s], s)
        ELSE Replays(e.events, Upcasters[s], s)

\* The loop of the call goes on to the next entity, or the call returns.
Visited(c, id) ==
  /\ loading' = [loading EXCEPT ![c] = Without(@, id)]
  /\ pc' = [pc EXCEPT ![c] = IF DOMAIN loading[c] = {id} THEN "idle" ELSE @]
  /\ UNCHANGED <<store, snapshots, todo, emitted>>

\* Where a call hydrates: get, get_all and their peeks, or a search.
Hydrating(c, id) == pc[c] \in {"hydrate", "search"} /\ id \in DOMAIN loading[c]

\* The aggregate that the code makes of an entity, with the snapshot stored now.
Hydrated(c, id) ==
  LET e == loading[c][id]
      us == Upcasters[Schema[c]]
  IN  IF UsesSnapshot(c, id) THEN HydrateFromSnapshot(e, snapshots[id], us)
                             ELSE Hydrate(e, us)

\* The next entity is hydrated and will be returned.
HydrateNext(c, id) ==
  /\ Hydrating(c, id) /\ Hydrates(c, id)
  /\ aggs' = [aggs EXCEPT ![c] = Put(@, id, Hydrated(c, id))]
  /\ Visited(c, id)

\* The predicate of a search rejects what was hydrated.
Rejected(c, id) ==
  /\ Hydrating(c, id) /\ Hydrates(c, id) /\ pc[c] = "search"
  /\ Visited(c, id)
  /\ UNCHANGED aggs

\* find_one and exists return with the first match and look at no further entity.
FoundOne(c, id) ==
  /\ Hydrating(c, id) /\ Hydrates(c, id) /\ pc[c] = "search" /\ aggs[c] = Nothing
  /\ aggs' = [aggs EXCEPT ![c] = Put(@, id, Hydrated(c, id))]
  /\ loading' = [loading EXCEPT ![c] = Nothing]
  /\ pc' = [pc EXCEPT ![c] = "idle"]
  /\ UNCHANGED <<store, snapshots, todo, emitted>>

\* The error ends the call: nothing of it is returned.
HydrateErr(c, id) ==
  /\ Hydrating(c, id) /\ ~ Hydrates(c, id)
  /\ loading' = [loading EXCEPT ![c] = Nothing]
  /\ aggs' = [aggs EXCEPT ![c] = Nothing]
  /\ pc' = [pc EXCEPT ![c] = "idle"]
  /\ UNCHANGED <<store, snapshots, todo, emitted>>
-----------------------------------------------------------------------------
(***************************************************************************)
(* Commands and commit                                                     *)
(***************************************************************************)

\* A caller calls a method of its aggregate, or of a new one of an id it has
\* none of.
Execute(c, id, name) ==
  /\ pc[c] = "idle" /\ <<id, name>> \in Methods[c]
  /\ LET a == IF id \in DOMAIN aggs[c] THEN aggs[c][id] ELSE NewAggregate
     IN  /\ Len(a.entity.events) < MaxEvents[id]
         /\ aggs' = [aggs EXCEPT ![c] = Put(@, id, Command(a, name, Schema[c]))]
  /\ UNCHANGED <<store, snapshots, pc, loading, todo, emitted>>

\* Mutant of Current: no entity is compared with the store.
CurrentUnchecked(c) == TRUE

\* What commit finds under the write guard: every entity is up to date.
Current(c) ==
  \A id \in DOMAIN aggs[c] : aggs[c][id].entity.committed_version = Len(store[id])

\* A caller commits the aggregates in its hands.
Committing(c) == pc[c] = "idle" /\ aggs[c] # Nothing

\* An aggregate whose entity has been committed.
Marked(a) == [a EXCEPT !.entity = MarkCommitted(a.entity)]

\* commit, commit_all and the outbox commit: the entities are appended and
\* marked in one step, then the loop over the aggregates begins.
Commit(c) ==
  /\ Committing(c) /\ Current(c)
  /\ store' = [id \in Ids |-> IF id \in DOMAIN aggs[c]
                                THEN store[id] \o NewEvents(aggs[c][id].entity)
                                ELSE store[id]]
  /\ aggs' = [aggs EXCEPT ![c] = [id \in DOMAIN aggs[c] |-> Marked(aggs[c][id])]]
  /\ todo' = [todo EXCEPT ![c] = IF c \in Snapshotters THEN DOMAIN aggs[c] ELSE {}]
  /\ pc' = [pc EXCEPT ![c] = IF c \in Snapshotters THEN "snapshot" ELSE "emit"]
  /\ UNCHANGED <<snapshots, loading, emitted>>

\* Mutant of CommitConflict: the error is dropped and the snapshots are taken.
CommitConflictIgnored(c) ==
  /\ Committing(c) /\ ~ Current(c)
  /\ todo' = [todo EXCEPT ![c] = IF c \in Snapshotters THEN DOMAIN aggs[c] ELSE {}]
  /\ pc' = [pc EXCEPT ![c] = IF c \in Snapshotters THEN "snapshot" ELSE "emit"]
  /\ UNCHANGED <<store, snapshots, loading, aggs, emitted>>

\* commit returns ConcurrentWrite: no snapshot is taken, and the caller gives up
\* its aggregates, with the local events they have queued.
CommitConflict(c) ==
  /\ Committing(c) /\ ~ Current(c)
  /\ aggs' = [aggs EXCEPT ![c] = Nothing]
  /\ UNCHANGED <<store, snapshots, pc, loading, todo, emitted>>

\* maybe_snapshot for the next aggregate: if enough events have been added since
\* the snapshot it knows of, its snapshot replaces whatever is stored.
MaybeSnapshot(c, id) ==
  /\ pc[c] = "snapshot" /\ id \in todo[c]
  /\ LET a == aggs[c][id]
     IN  IF a.entity.version >= a.snapshot_version + Frequency
           THEN /\ snapshots' = Put(snapshots, id, CreateSnapshot(a, Schema[c]))
                /\ aggs' = [aggs EXCEPT ![c][id].snapshot_version = a.entity.version]
           ELSE UNCHANGED <<snapshots, aggs>>
  /\ todo' = [todo EXCEPT ![c] = @ \ {id}]
  /\ pc' = [pc EXCEPT ![c] = IF todo[c] = {id} THEN "emit" ELSE "snapshot"]
  /\ UNCHANGED <<store, loading, emitted>>

\* delete_snapshot, by anybody at any time.
DeleteSnapshot(id) ==
  /\ id \in DOMAIN snapshots
  /\ snapshots' = Without(snapshots, id)
  /\ UNCHANGED <<store, pc, loading, aggs, todo, emitted>>

\* An aggregate whose emitter has emitted its queue.
Drained(a) == [a EXCEPT !.queued = << >>]

\* emit_queued of the committed aggregates, after commit returned Ok: the queues
\* are drained and every local event reaches the listeners.
EmitQueued(c) ==
  /\ pc[c] = "emit"
  /\ emitted' = [id \in Ids |-> IF id \in DOMAIN aggs[c]
                                  THEN emitted[id] + Len(aggs[c][id].queued)
                                  ELSE emitted[id]]
  /\ aggs' = [aggs EXCEPT ![c] = [id \in DOMAIN aggs[c] |-> Drained(aggs[c][id])]]
  /\ pc' = [pc EXCEPT ![c] = "idle"]
  /\ UNCHANGED <<store, snapshots, loading, todo>>

\* A caller drops its aggregates, whether or not it has committed them.
Drop(c) ==
  /\ pc[c] = "idle" /\ aggs[c] # Nothing
  /\ aggs' = [aggs EXCEPT ![c] = Nothing]
  /\ UNCHANGED <<store, snapshots, pc, loading, todo, emitted>>
-----------------------------------------------------------------------------
Next ==
  \/ \E c \in Clients :
       \/ GetAll(c) \/ Find(c)
       \/ \E id \in Ids : \/ Get(c, id) \/ GetOne(c, id) \/ HydrateNext(c, id)
                          \/ Rejected(c, id) \/ FoundOne(c, id) \/ HydrateErr(c, id)
                          \/ MaybeSnapshot(c, id)
                          \/ \E name \in Names : Execute(c, id, name)
       \/ Commit(c) \/ CommitConflict(c) \/ EmitQueued(c) \/ Drop(c)
  \/ \E id \in Ids : DeleteSnapshot(id)

Spec == Init /\ [][Next]_vars
-----------------------------------------------------------------------------
(***************************************************************************)
(* Properties                                                              *)
(***************************************************************************)

\* Type correctness; no entity is left replaying, and a loop has ids to visit.
TypeOK ==
  /\ store \in [Ids -> Seq(EventRecord(Tags))]
  /\ DOMAIN snapshots \subseteq Ids
  /\ snapshots \in [DOMAIN snapshots ->
                     [version : Nat, schema : Nat, state : Seq(Effects)]]
  /\ pc \in [Clients -> Places]
  /\ loading = [c \in Clients |-> loading[c]]
  /\ aggs = [c \in Clients |-> aggs[c]]
  /\ todo \in [Clients -> SUBSET Ids]
  /\ emitted \in [Ids -> Nat]
  /\ \A c \in Clients :
       /\ DOMAIN loading[c] \subseteq Ids /\ DOMAIN aggs[c] \subseteq Ids
       /\ loading[c] \in [DOMAIN loading[c] -> EntityRecord(Tags)]
       /\ aggs[c] \in [DOMAIN aggs[c] -> AggregateRecord]
       /\ \A id \in DOMAIN aggs[c] :
            /\ ~ aggs[c][id].entity.replaying
            /\ aggs[c][id].snapshot_version <= aggs[c][id].entity.version
       /\ todo[c] \subseteq IF pc[c] = "snapshot" THEN DOMAIN aggs[c] ELSE IdsOf(c)
       /\ pc[c] \in {"read", "snapshot"} <=> todo[c] # {}
       /\ pc[c] \in {"hydrate", "search"} => loading[c] # Nothing
       /\ loading[c] # Nothing => pc[c] \in {"read", "hydrate", "search"}

\* The law of event sourcing: the state of an aggregate in anybody's hands is
\* the meaning of its entity's events, however it was hydrated and whatever
\* commits, snapshots and deletions raced with the load.
StateIsHistory ==
  \A c \in Clients : \A id \in DOMAIN aggs[c] :
    aggs[c][id].state = Meaning(aggs[c][id].entity.events, Schema[c])

\* A stored snapshot is the meaning of a prefix of the stored stream, however
\* late it was saved: it never holds state that was not committed.
SnapshotIsHistory ==
  \A id \in DOMAIN snapshots :
    LET snap == snapshots[id]
    IN  /\ snap.version <= Len(store[id])
        /\ snap.state = Meaning(SubSeq(store[id], 1, snap.version), snap.schema)

\* A guarded event is recorded at most once in a stream, although its guard was
\* evaluated on copies that others were changing.
GuardHoldsInHistory ==
  \A id \in Ids :
    Cardinality({i \in 1 .. Len(store[id]) : store[id][i].tag.name = "Completed"}) <= 1

\* Listeners hear of nothing that was not committed, and of nothing twice.
EmittedIsCommitted == \A id \in Ids : emitted[id] <= Len(store[id])

\* Upcasting reaches the newest schema from every older one: a client of the
\* newest schema, if snapshots are taken by that schema only, can load whatever
\* is stored.
NewestCanLoad ==
  \A c \in Clients :
    /\ \A d \in Clients : Schema[d] <= Schema[c]
    /\ \A d \in Snapshotters : Schema[d] = Schema[c]
    => \A id \in DOMAIN loading[c] : Hydrates(c, id)
-----------------------------------------------------------------------------
(***************************************************************************)
(* Why they hold                                                           *)
(***************************************************************************)

\* A stream, or a copy of one with more events, as methods record it: every
\* event is numbered by its place and was recorded by somebody's schema, and
\* the guarded event occurs once.
RecordedBy(tag, s) ==
  tag.version = VersionOf(tag.name, s) /\ Len(tag.fields) = Width(tag.name, s)
Sound(events) ==
  /\ \A i \in 1 .. Len(events) :
       /\ events[i].sequence = i
       /\ \E c \in Clients : RecordedBy(events[i].tag, Schema[c])
  /\ CompletedOnce(events)

\* The first n events of a copy are those of the stream.
AgreeUpTo(events, stream, n) ==
  n <= Len(events) /\ n <= Len(stream) /\ \A i \in 1 .. n : events[i] = stream[i]

StreamsAreSound == \A id \in Ids : Sound(store[id])

\* What a call has read was the whole stream once.
LoadedIsPrefix ==
  \A c \in Clients : \A id \in DOMAIN loading[c] :
    LET e == loading[c][id]
    IN  /\ ~ e.replaying
        /\ e.version = Len(e.events) /\ e.committed_version = Len(e.events)
        /\ AgreeUpTo(e.events, store[id], Len(e.events))

\* An aggregate in somebody's hands is what was stored and what its methods
\* recorded since; while a commit is being finished there is nothing new in it.
\* Its queue holds one local event for each event that is new.
HeldIsSound ==
  \A c \in Clients : \A id \in DOMAIN aggs[c] :
    LET e == aggs[c][id].entity
    IN  /\ e.version = Len(e.events)
        /\ Sound(e.events)
        /\ AgreeUpTo(e.events, store[id], e.committed_version)
        /\ IF pc[c] \in {"snapshot", "emit"}
             THEN e.committed_version = Len(e.events)
             ELSE e.committed_version + Len(aggs[c][id].queued) = Len(e.events)

\* Snapshots are taken by clients that use them, of their schema.
SnapshotsAreTyped ==
  /\ \A c \in Clients : pc[c] = "snapshot" => c \in Snapshotters
  /\ \A id \in DOMAIN snapshots : \E c \in Snapshotters : snapshots[id].schema = Schema[c]

\* The local events of id whose commit is done and whose emission is not.
Emitting(id) == {c \in Clients : pc[c] \in {"snapshot", "emit"} /\ id \in DOMAIN aggs[c]}
Pending(id) == UNION {{c} \X (1 .. Len(aggs[c][id].queued)) : c \in Emitting(id)}

\* There is an event in the stream for every local event emitted or about to be.
EmitsAreCounted ==
  \A id \in Ids : /\ IsFiniteSet(Pending(id))
                  /\ emitted[id] + Cardinality(Pending(id)) <= Len(store[id])

\* The inductive invariant.
HistoryInv ==
  /\ TypeOK /\ StreamsAreSound /\ LoadedIsPrefix /\ HeldIsSound
  /\ StateIsHistory /\ SnapshotIsHistory /\ SnapshotsAreTyped /\ EmitsAreCounted

\* The upcasters of every aggregate type lead from each earlier version of the
\* versioned event to the version its schema records, and no further.
UpcastersReach ==
  \A c \in Clients :
    LET us == Upcasters[Schema[c]]
    IN  /\ \A v \in 1 .. Schema[c] - 1 : \E i \in 1 .. Len(us) :
             us[i].event_type = "Initialized" /\ us[i].from_version = v
        /\ \A i \in 1 .. Len(us) :
             us[i].event_type # "Completed" /\ us[i].to_version <= Schema[c]
=============================================================================
