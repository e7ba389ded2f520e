----------------------------- MODULE Aggregate -----------------------------
(***************************************************************************)
(* An event-sourced aggregate as a value: the methods that #[sourced],     *)
(* #[digest] and #[enqueue] generate (sourced_rust_macros), hydration      *)
(* (aggregate/aggregate.rs), hydration from a snapshot (snapshot/) and     *)
(* upcasting (entity/upcaster.rs).                                         *)
(*                                                                         *)
(* The aggregate is the Todo of the repository's tests: "Initialized" has  *)
(* a payload that gained a field with every schema, "Completed" has none   *)
(* and is guarded by !completed.  A payload is the sequence of its fields, *)
(* each given by the caller or filled in by an upcaster.  The domain state *)
(* is the sequence of method bodies that ran, with their arguments: every  *)
(* field of every such aggregate is a function of it.                      *)
(***************************************************************************)
EXTENDS Entity

Names == {"Initialized", "Completed"}

\* A payload, what is recorded with it, what a method body is run with, and the
\* aggregate.
Payloads == Seq({"given", "default"})
Tags == [name : Names, version : Nat, fields : Payloads]
Effects == [name : Names, fields : Payloads]
AggregateRecord ==
  [entity : EntityRecord(Tags), state : Seq(Effects), queued : Seq(Names),
   snapshot_version : Nat]

\* An EventUpcaster, with what its transform does taken from its versions.
UpcasterRecord == [event_type : STRING, from_version : Nat, to_version : Nat]

\* The fields of an event at schema s, and the version it is recorded with:
\* digest_v for the versioned event, digest_empty, which writes 1, for the other.
Width(name, s) == IF name = "Initialized" THEN s ELSE 0
VersionOf(name, s) == IF name = "Initialized" THEN s ELSE 1

Given(n) == [i \in 1 .. n |-> "given"]
Defaults(n) == [i \in 1 .. n |-> "default"]

\* A default aggregate: no state, and an emitter with nothing queued.
\* snapshot_version is a field of Entity that only snapshots read.
NewAggregate ==
  [entity |-> NewEntity, state |-> << >>, queued |-> << >>, snapshot_version |-> 0]

\* The `when` conditions of the methods.
Guard(name, state) ==
  name = "Completed" => \A i \in 1 .. Len(state) : state[i].name # "Completed"

\* EntityEmitter::enqueue.  The emitter of an aggregate wraps an entity of its
\* own, which nobody ever sets to replay: its check never holds anything back.
Queue(a, name) == [a EXCEPT !.queued = Append(@, name)]

\* Mutant of Enqueue: only the emitter's own entity is asked.
EnqueueAlways(a, name) == Queue(a, name)

\* What #[enqueue] generates: the local event is queued unless the entity replays.
Enqueue(a, name) == IF a.entity.replaying THEN a ELSE Queue(a, name)

\* What #[digest] generates, with the method's body: record the event, which a
\* replaying entity ignores, and run the body.
DigestAndRun(a, name, version, fields) ==
  [a EXCEPT !.entity = Digest(@, [name |-> name, version |-> version, fields |-> fields]),
            !.state = Append(@, [name |-> name, fields |-> fields])]

\* A method that #[sourced] generates: nothing outside its guard.  #[enqueue]
\* around #[digest] is the same if both have the guard.
Call(a, name, version, fields) ==
  IF Guard(name, a.state) THEN DigestAndRun(Enqueue(a, name), name, version, fields) ELSE a

\* A caller's command on an aggregate of schema s.
Command(a, name, s) == Call(a, name, VersionOf(name, s), Given(Width(name, s)))
-----------------------------------------------------------------------------
\* The upcaster that upcast_one applies next, if any: the first that matches.
Applicable(u, tag) == u.event_type = tag.name /\ u.from_version = tag.version
FirstMatch(tag, us) ==
  CHOOSE i \in 1 .. Len(us) :
    Applicable(us[i], tag) /\ \A j \in 1 .. i - 1 : ~ Applicable(us[j], tag)

\* One turn of the loop of upcast_one.  A transform appends defaults for the
\* fields that its target version added.
UpcastStep(tag, us) ==
  IF \A i \in 1 .. Len(us) : ~ Applicable(us[i], tag)
    THEN tag
    ELSE LET u == us[FirstMatch(tag, us)]
         IN  [tag EXCEPT !.version = u.to_version,
                         !.fields = @ \o Defaults(u.to_version - u.from_version)]

\* Mutant of UpcastOne: no chaining.
UpcastOnce(tag, us) == UpcastStep(tag, us)

\* upcast_one: until no upcaster matches.  Upcasters that always lead to a later
\* version are each used at most once; others would make the code loop for ever.
UpcastOne(tag, us) ==
  LET chain[n \in 0 .. Len(us)] == IF n = 0 THEN tag ELSE UpcastStep(chain[n - 1], us)
  IN  chain[Len(us)]

\* replay_event: decoding fails on an unknown name or another payload shape;
\* otherwise the method is called with the decoded arguments.
Decodes(tag, s) == tag.name \in Names /\ Len(tag.fields) = Width(tag.name, s)
ReplayEvent(a, tag) == Call(a, tag.name, tag.version, tag.fields)

\* The replay loop of hydrate and hydrate_from_snapshot, over upcast events.
\* One event that does not decode fails the whole hydration.
Replays(events, us, s) ==
  \A i \in 1 .. Len(events) : Decodes(UpcastOne(events[i].tag, us), s)
Replay(a, events, us) ==
  LET after[n \in 0 .. Len(events)] ==
        IF n = 0 THEN [a EXCEPT !.entity.replaying = TRUE]
                 ELSE ReplayEvent(after[n - 1], UpcastOne(events[n].tag, us))
  IN  [after[Len(events)] EXCEPT !.entity.replaying = FALSE]

\* hydrate: everything.
Hydrate(entity, us) == Replay([NewAggregate EXCEPT !.entity = entity], entity.events, us)

\* Mutant of AfterSnapshot: the snapshot's own last event is replayed again.
FromSnapshotOn(entity, snap) ==
  SelectSeq(entity.events, LAMBDA e : e.sequence >= snap.version)

\* The events that hydrate_from_snapshot replays: those that its filter keeps.
AfterSnapshot(entity, snap) ==
  LET es == entity.events
      kept[n \in 0 .. Len(es)] ==
        IF n = 0 THEN << >>
        ELSE IF es[n].sequence > snap.version THEN Append(kept[n - 1], es[n])
        ELSE kept[n - 1]
  IN  kept[Len(es)]

\* create_snapshot and restore_from_snapshot copy every field but the entity and
\* those marked #[serde(skip)], such as the emitter.
CreateSnapshot(a, s) == [version |-> a.entity.version, schema |-> s, state |-> a.state]
Restore(entity, snap) ==
  [NewAggregate EXCEPT !.entity = entity, !.state = snap.state,
                       !.snapshot_version = snap.version]

\* hydrate_from_snapshot: the restored state and the events after it.
HydrateFromSnapshot(entity, snap, us) ==
  Replay(Restore(entity, snap), AfterSnapshot(entity, snap), us)
-----------------------------------------------------------------------------
\* What a stream means to schema s, without replaying it: every event once, in
\* order, with the fields it was recorded with and defaults for the later ones.
Effect(tag, s) ==
  [name |-> tag.name,
   fields |-> tag.fields \o Defaults(Width(tag.name, s) - Len(tag.fields))]
Meaning(events, s) == [i \in 1 .. Len(events) |-> Effect(events[i].tag, s)]

\* The guarded event occurs at most once.
CompletedOnce(events) ==
  \A i, j \in 1 .. Len(events) :
    events[i].tag.name = "Completed" /\ events[j].tag.name = "Completed" => i = j
=============================================================================
