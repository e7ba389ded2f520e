----------------------------- MODULE EventStore -----------------------------
(***************************************************************************)
(* HashMapRepository (hashmap_repo/repository.rs): the event store shared  *)
(* by every clone of the repository, and the in-memory entities that       *)
(* callers load from it, change and commit back.                           *)
(*                                                                         *)
(* Object o is one Entity value in some caller's hands, always of the id   *)
(* IdOf[o]; &mut borrows make it private to one caller at a time, so its   *)
(* operations are atomic.  The store is behind one RwLock: a reader sees   *)
(* it only while no commit is under way.  A commit holds the write guard   *)
(* for its two phases; the second one appends entity after entity, one     *)
(* step each here.                                                         *)
(***************************************************************************)
EXTENDS Entity

CONSTANTS Ids,        \* entity ids
          Objects,    \* in-memory entities
          IdOf,       \* the id of each object
          Batches,    \* what callers pass to commit: sequences of objects
          MaxEvents   \* bound on the events of one object

ASSUME StoreAssumption ==
  /\ IdOf \in [Objects -> Ids]
  /\ MaxEvents \in Nat
  /\ Batches \subseteq Seq(Objects)
  \* a batch is not empty and borrows each of its objects mutably, so once
  /\ \A b \in Batches : /\ b # << >>
                        /\ \A i, j \in 1 .. Len(b) : b[i] = b[j] => i = j

VARIABLES event_store,  \* event_store[id]: the persisted stream (the map's values)
          entries,      \* the keys of the map
          entity,       \* entity[o]: the in-memory entity
          batch,        \* the entities being committed; empty = write guard free
          next,         \* index in batch of the next entity to append
          result        \* what the last finished commit returned

vars == <<event_store, entries, entity, batch, next, result>>

Results == {"none", "Ok", "ConcurrentWrite"}

\* No caller passes two entities of one id to the same commit.  The code does
\* not check it; properties that need it say so.
DistinctIds ==
  \A b \in Batches : \A i, j \in 1 .. Len(b) : IdOf[b[i]] = IdOf[b[j]] => i = j
-----------------------------------------------------------------------------
Init ==
  /\ event_store = [id \in Ids |-> << >>]
  /\ entries = {}
  /\ entity = [o \in Objects |-> NewEntity]
  /\ batch = << >>
  /\ next = 1
  /\ result = "none"

\* The RwLock guards: readers and a new writer wait for the write guard.
GuardFree == batch = << >>

\* The entities the running commit has still to append.
Pending == {batch[i] : i \in next .. Len(batch)}

\* The entities a running commit has borrowed: nobody else can touch them.
Borrowed == {batch[i] : i \in 1 .. Len(batch)}

\* A caller drops the object and starts a new entity of the same id.
New(o) ==
  /\ o \notin Borrowed
  /\ entity' = [entity EXCEPT ![o] = NewEntity]
  /\ UNCHANGED <<event_store, entries, batch, next, result>>

\* A caller records an event on its entity.
Record(o) ==
  /\ o \notin Borrowed
  /\ Len(entity[o].events) < MaxEvents
  /\ entity' = [entity EXCEPT ![o] = Digest(@, o)]
  /\ UNCHANGED <<event_store, entries, batch, next, result>>

\* get_one of an id that exists.  get_many is one get_one after another, with
\* the read guard released in between.  (On an absent id nothing changes.)
GetOne(o) ==
  /\ GuardFree
  /\ IdOf[o] \in entries
  /\ entity' = [entity EXCEPT
                  ![o] = LoadFromHistory(NewEntity, event_store[IdOf[o]])]
  /\ UNCHANGED <<event_store, entries, batch, next, result>>

\* find, and find_one for a single match: the entities that satisfy the
\* predicate, read under one read guard.  Any set of existing ids may match.
Find(S) ==
  /\ GuardFree
  /\ \A o \in S : IdOf[o] \in entries
  /\ \A o, p \in S : IdOf[o] = IdOf[p] => o = p
  /\ entity' = [o \in Objects |->
                  IF o \in S THEN LoadFromHistory(NewEntity, event_store[IdOf[o]])
                             ELSE entity[o]]
  /\ UNCHANGED <<event_store, entries, batch, next, result>>

\* Mutants of Validated: no check; stale entities accepted; first entity only.
ValidatedNever(b) == TRUE
ValidatedAtLeast(b) ==
  \A i \in 1 .. Len(b) :
    Len(event_store[IdOf[b[i]]]) >= entity[b[i]].committed_version
ValidatedFirst(b) ==
  Len(event_store[IdOf[b[1]]]) = entity[b[1]].committed_version

\* Phase 1 of commit: every entity was loaded at the current stored length.
Validated(b) ==
  \A i \in 1 .. Len(b) :
    Len(event_store[IdOf[b[i]]]) = entity[b[i]].committed_version

\* commit passes phase 1 and keeps the write guard for phase 2.
CommitBegin(b) ==
  /\ GuardFree
  /\ Validated(b)
  /\ batch' = b
  /\ next' = 1
  /\ UNCHANGED <<event_store, entries, entity, result>>

\* Mutant of CommitConflict: entities are marked committed before phase 1.
CommitConflictMarks(b) ==
  /\ GuardFree
  /\ ~ Validated(b)
  /\ entity' = [o \in Objects |-> IF \E i \in 1 .. Len(b) : b[i] = o
                                   THEN MarkCommitted(entity[o]) ELSE entity[o]]
  /\ result' = "ConcurrentWrite"
  /\ UNCHANGED <<event_store, entries, batch, next>>

\* commit returns ConcurrentWrite: some entity is stale, nothing is written.
CommitConflict(b) ==
  /\ GuardFree
  /\ ~ Validated(b)
  /\ result' = "ConcurrentWrite"
  /\ UNCHANGED <<event_store, entries, entity, batch, next>>

\* Mutant of CommitAppend: the stored stream is replaced, not extended.
CommitReplaces ==
  /\ ~ GuardFree
  /\ LET o == batch[next]
         id == IdOf[o]
     IN  /\ event_store' = [event_store EXCEPT ![id] = NewEvents(entity[o])]
         /\ entries' = entries \cup {id}
         /\ entity' = [entity EXCEPT ![o] = MarkCommitted(@)]
  /\ batch' = IF next < Len(batch) THEN batch ELSE << >>
  /\ next' = IF next < Len(batch) THEN next + 1 ELSE 1
  /\ result' = IF next < Len(batch) THEN result ELSE "Ok"

\* One turn of phase 2: append the entity's new events (creating the map entry
\* if there is none), mark it committed; after the last one the guard drops.
CommitAppend ==
  /\ ~ GuardFree
  /\ LET o == batch[next]
         id == IdOf[o]
     IN  /\ event_store' = [event_store EXCEPT ![id] = @ \o NewEvents(entity[o])]
         /\ entries' = entries \cup {id}
         /\ entity' = [entity EXCEPT ![o] = MarkCommitted(@)]
  /\ \/ /\ next < Len(batch)
        /\ next' = next + 1
        /\ UNCHANGED <<batch, result>>
     \/ /\ next = Len(batch)
        /\ batch' = << >>
        /\ next' = 1
        /\ result' = "Ok"

Next ==
  \/ \E o \in Objects : New(o) \/ Record(o) \/ GetOne(o)
  \/ \E S \in SUBSET Objects : Find(S)
  \/ \E b \in Batches : CommitBegin(b) \/ CommitConflict(b)
  \/ CommitAppend

Spec == Init /\ [][Next]_vars
-----------------------------------------------------------------------------
(***************************************************************************)
(* Properties                                                              *)
(***************************************************************************)

\* Type correctness of the store and of the entities.
TypeOK ==
  /\ event_store \in [Ids -> Seq(EventRecord(Objects))]
  /\ entries \in SUBSET Ids
  /\ entity \in [Objects -> EntityRecord(Objects)]
  /\ batch \in Batches \cup {<< >>}
  /\ next \in Nat \ {0}
  /\ next = 1 \/ next <= Len(batch)
  /\ result \in Results

\* Every stored event carries its own 1-based position as its sequence, so a
\* stream has no gap and no repeated sequence however commits interleave.
\* Snapshot hydration relies on it: it replays the events whose sequence is
\* above the snapshot's version.
SequenceIsPosition ==
  \A id \in Ids : \A i \in 1 .. Len(event_store[id]) :
    event_store[id][i].sequence = i

\* What an in-memory entity believes to be persisted really is, in the same
\* order, at the front of the stored stream: a copy may be stale, it never
\* disagrees with the store.  It is why comparing lengths in commit is enough.
CommittedIsPersisted ==
  \A o \in Objects :
    LET e == entity[o]
        s == event_store[IdOf[o]]
    IN  /\ e.committed_version <= Len(s)
        /\ \A i \in 1 .. e.committed_version : e.events[i] = s[i]

\* A commit that returned ConcurrentWrite lost to somebody: in the step that
\* reports it nothing was written, and one of its entities is behind the store
\* (never ahead of it), so a reload makes progress.
ConflictMeansStale ==
  [][\A b \in Batches :
       CommitConflict(b) =>
         /\ UNCHANGED <<event_store, entries, entity>>
         /\ \E i \in 1 .. Len(b) :
              entity[b[i]].committed_version < Len(event_store[IdOf[b[i]]])]_vars

\* Streams only grow at the end and an id, once there, stays.
AppendOnly ==
  [][/\ entries \subseteq entries'
     /\ \A id \in Ids :
          /\ Len(event_store[id]) <= Len(event_store'[id])
          /\ \A i \in 1 .. Len(event_store[id]) :
               event_store'[id][i] = event_store[id][i]]_vars

\* What the repository's test concurrent_writes_detected demands: of two
\* entities loaded at the same version and both changed, at most one is
\* persisted, so no sequence number occurs twice in a stream.
ConcurrentWritesDetected ==
  \A id \in Ids : \A i, j \in 1 .. Len(event_store[id]) :
    event_store[id][i].sequence = event_store[id][j].sequence => i = j
-----------------------------------------------------------------------------
(***************************************************************************)
(* The inductive invariant behind these properties, for DistinctIds.       *)
(***************************************************************************)

\* Between operations an entity is consistent in itself, and the events it has
\* recorded since its last load or commit are its own, numbered in order.
EntityOK ==
  \A o \in Objects :
    /\ ~ entity[o].replaying
    /\ entity[o].version = Len(entity[o].events)
    /\ entity[o].committed_version <= Len(entity[o].events)
    /\ \A i \in entity[o].committed_version + 1 .. Len(entity[o].events) :
         entity[o].events[i] = [sequence |-> i, tag |-> o]

\* What phase 1 established still holds of the entities phase 2 has not reached.
PendingIsCurrent ==
  \A o \in Pending :
    entity[o].committed_version = Len(event_store[IdOf[o]])

\* The inductive invariant: the safety properties above and what they rest on.
IInv == /\ TypeOK
        /\ EntityOK
        /\ PendingIsCurrent
        /\ CommittedIsPersisted
        /\ SequenceIsPosition
-----------------------------------------------------------------------------
(***************************************************************************)
(* The store implements EventLog.  A commit takes effect when phase 1      *)
(* succeeds: from then on the write guard hides the store until phase 2    *)
(* has appended everything, so the logs already hold what is pending.      *)
(***************************************************************************)
logBar ==
  [id \in Ids |->
     IF \E o \in Pending : IdOf[o] = id
       THEN entity[CHOOSE o \in Pending : IdOf[o] = id].events
       ELSE event_store[id]]

seenBar ==
  [o \in Objects |->
     IF o \in Pending THEN entity[o].events ELSE CommittedEvents(entity[o])]

EL == INSTANCE EventLog WITH log <- logBar, seen <- seenBar

\* No lost update and no partial commit: a commit of several entities is one
\* indivisible append, made only by a caller that had seen everything.
ImplementsEventLog == EL!Spec
=============================================================================
