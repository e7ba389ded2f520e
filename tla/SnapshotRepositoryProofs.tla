---------------------- MODULE SnapshotRepositoryProofs ----------------------
(***************************************************************************)
(* Proofs about SnapshotRepository, for any clients, schemas, upcasters,   *)
(* methods, snapshot frequency and bounds: the state of every aggregate is *)
(* its history, every snapshot is a prefix of its stream, guarded events   *)
(* occur once, nothing uncommitted is emitted, and with complete upcasters *)
(* the newest schema can load everything.                                  *)
(*                                                                         *)
(* The invariant is taken apart into what is true of one value: of an      *)
(* entity that was read, of an aggregate that is held, of a snapshot that  *)
(* is stored, each next to the stream of its id.                           *)
(***************************************************************************)
EXTENDS SnapshotRepository, AggregateProofs

Events == EventRecord(Tags)
SnapshotRecord == [version : Nat, schema : Nat, state : Seq(Effects)]
Finishing == {"snapshot", "emit"}

\* An entity that was read from this stream.
ReadOK(e, stream) ==
  /\ e \in EntityRecord(Tags) /\ ~ e.replaying
  /\ e.version = Len(e.events) /\ e.committed_version = Len(e.events)
  /\ AgreeUpTo(e.events, stream, Len(e.events))

\* An aggregate of schema s in the hands of a client at place p.
HeldOK(a, s, stream, p) ==
  /\ a \in AggregateRecord /\ ~ a.entity.replaying
  /\ a.snapshot_version <= a.entity.version
  /\ a.entity.version = Len(a.entity.events)
  /\ Sound(a.entity.events)
  /\ AgreeUpTo(a.entity.events, stream, a.entity.committed_version)
  /\ IF p \in Finishing
       THEN a.entity.committed_version = Len(a.entity.events)
       ELSE a.entity.committed_version + Len(a.queued) = Len(a.entity.events)
  /\ a.state = Meaning(a.entity.events, s)

\* A snapshot that is stored next to this stream.
SnapOK(snap, stream) ==
  /\ snap \in SnapshotRecord /\ snap.version <= Len(stream)
  /\ snap.state = Meaning(SubSeq(stream, 1, snap.version), snap.schema)
  /\ \E c \in Snapshotters : snap.schema = Schema[c]

\* stream, later.
Grown(stream, later) ==
  /\ stream \in Seq(Events) /\ later \in Seq(Events)
  /\ Len(stream) <= Len(later) /\ \A i \in 1 .. Len(stream) : later[i] = stream[i]

-----------------------------------------------------------------------------
(***************************************************************************)
(* Values                                                                  *)
(***************************************************************************)

LEMMA SchemaFacts ==
  ASSUME NEW c \in Clients
  PROVE  Schema[c] \in Nat \ {0} /\ Upward(Upcasters[Schema[c]])
  BY SnapshotAssumption DEF SnapshotAssumption, Upward

\* Nothing that was true of a copy or a snapshot is undone by later commits.
LEMMA ReadGrown ==
  ASSUME NEW e, NEW stream, NEW later, Grown(stream, later), ReadOK(e, stream)
  PROVE  ReadOK(e, later)
<1>1. e.events \in Seq(Events) /\ Len(e.events) \in Nat
  BY DEF ReadOK, EntityRecord, Events
<1> QED BY <1>1 DEF Grown, ReadOK, AgreeUpTo

LEMMA HeldGrown ==
  ASSUME NEW a, NEW s, NEW p, NEW stream, NEW later, Grown(stream, later),
         HeldOK(a, s, stream, p)
  PROVE  HeldOK(a, s, later, p)
<1>1. AgreeUpTo(a.entity.events, later, a.entity.committed_version)
  <2>1. a.entity \in EntityRecord(Tags)
    BY DEF HeldOK, AggregateRecord
  <2>2. a.entity.committed_version \in Nat
    BY <2>1 DEF EntityRecord
  <2> QED BY <2>2 DEF Grown, HeldOK, AgreeUpTo
<1> QED BY <1>1 DEF HeldOK

LEMMA SnapGrown ==
  ASSUME NEW snap, NEW stream, NEW later, Grown(stream, later), SnapOK(snap, stream)
  PROVE  SnapOK(snap, later)
<1>1. snap.version \in Nat /\ snap.version <= Len(stream) /\ snap.version <= Len(later)
  BY DEF SnapOK, SnapshotRecord, Grown
<1>2. SubSeq(later, 1, snap.version) = SubSeq(stream, 1, snap.version)
  BY <1>1 DEF Grown
<1> QED BY <1>1, <1>2 DEF SnapOK

\* What the place matters for.
LEMMA HeldPlace ==
  ASSUME NEW a, NEW s, NEW stream, NEW p, NEW q, p \in Finishing <=> q \in Finishing,
         HeldOK(a, s, stream, p)
  PROVE  HeldOK(a, s, stream, q)
  BY DEF HeldOK

\* A loaded entity is what it was loaded from.
LEMMA LoadedOK ==
  ASSUME NEW stream \in Seq(Events)
  PROVE  ReadOK(LoadFromHistory(NewEntity, stream), stream)
<1> DEFINE e == LoadFromHistory(NewEntity, stream)
<1>1. /\ e = [version |-> Len(stream), events |-> stream, replaying |-> FALSE,
              committed_version |-> Len(stream)]
      /\ Len(stream) \in Nat
  BY DEF LoadFromHistory, NewEntity
<1>2. e \in EntityRecord(Tags)
  BY <1>1 DEF EntityRecord, Events
<1> QED BY <1>1, <1>2 DEF ReadOK, AgreeUpTo

\* A part of a sound stream is sound.
LEMMA SoundPrefix ==
  ASSUME NEW events, NEW stream, Len(events) \in Nat, Len(stream) \in Nat,
         AgreeUpTo(events, stream, Len(events)), Sound(stream)
  PROVE  Sound(events)
  BY DEF AgreeUpTo, Sound, CompletedOnce

\* The meaning of a stream has its type and its length.
LEMMA MeaningType ==
  ASSUME NEW events \in Seq(Events), NEW s \in Nat
  PROVE  Meaning(events, s) \in Seq(Effects) /\ Len(Meaning(events, s)) = Len(events)
<1> DEFINE E(i) == Effect(events[i].tag, s)
<1>1. \A i \in 1 .. Len(events) : events[i].tag \in Tags
  <2>1. \A i \in 1 .. Len(events) : events[i] \in Events
    OBVIOUS
  <2> QED BY <2>1 DEF Events, EventRecord
<1>2. \A i \in 1 .. Len(events) : E(i) \in Effects
  BY <1>1, EffectType
<1>3. Meaning(events, s) = [i \in 1 .. Len(events) |-> E(i)]
  BY DEF Meaning
<1> HIDE DEF E
<1>4. Len(events) \in Nat
  OBVIOUS
<1> QED BY <1>2, <1>3, <1>4

LEMMA MeaningOfPrefix ==
  ASSUME NEW stream \in Seq(Events), NEW s, NEW n \in 0 .. Len(stream)
  PROVE  Meaning(SubSeq(stream, 1, n), s) = MeaningUpTo(stream, n, s)
<1>1. /\ Len(SubSeq(stream, 1, n)) = n
      /\ \A i \in 1 .. n : SubSeq(stream, 1, n)[i] = stream[i]
  OBVIOUS
<1> QED BY <1>1 DEF Meaning, MeaningUpTo

\* An aggregate with the state that its entity's events mean, as hydration
\* leaves it.
LEMMA FreshOK ==
  ASSUME NEW e, NEW stream \in Seq(Events), ReadOK(e, stream), Sound(stream),
         NEW s \in Nat, NEW v \in 0 .. Len(e.events), NEW p, p \notin Finishing
  PROVE  HeldOK(Agg(e, Meaning(e.events, s), << >>, v), s, stream, p)
<1> DEFINE a == Agg(e, Meaning(e.events, s), << >>, v)
<1>1. e \in EntityRecord(Tags) /\ e.events \in Seq(Events) /\ Len(e.events) \in Nat
  BY DEF ReadOK, EntityRecord, Events
<1>2. Meaning(e.events, s) \in Seq(Effects)
  BY <1>1, MeaningType
<1>3. /\ a.entity = e /\ a.state = Meaning(e.events, s) /\ a.queued = << >>
      /\ a.snapshot_version = v
  BY DEF Agg
<1>4. a \in AggregateRecord
  BY <1>1, <1>2 DEF Agg, AggregateRecord
<1>5. Sound(e.events)
  BY <1>1, SoundPrefix DEF ReadOK
<1> HIDE DEF a
<1>6. HeldOK(a, s, stream, p)
  BY <1>1, <1>3, <1>4, <1>5 DEF HeldOK, ReadOK
<1> QED BY <1>6 DEF a

\* Whatever hydrate_with_optional_snapshot makes of an entity is sound, although
\* the snapshot was read later than the entity.
LEMMA HydratedOK ==
  ASSUME NEW c \in Clients, NEW id, NEW stream \in Seq(Events), Sound(stream),
         ReadOK(loading[c][id], stream),
         id \in DOMAIN snapshots => SnapOK(snapshots[id], stream),
         Hydrates(c, id), NEW p, p \notin Finishing
  PROVE  HeldOK(Hydrated(c, id), Schema[c], stream, p)
<1> DEFINE e == loading[c][id]
           s == Schema[c]
           us == Upcasters[s]
           snap == snapshots[id]
<1>1. s \in Nat /\ Upward(us)
  BY SchemaFacts
<1>2. /\ e \in EntityRecord(Tags) /\ ~ e.replaying /\ Len(e.events) \in Nat
      /\ e.events \in Seq(Events) /\ e.version = Len(e.events)
  BY DEF ReadOK, EntityRecord, Events
<1>3. Sound(e.events)
  BY <1>2, SoundPrefix DEF ReadOK
<1>4. CASE ~ UsesSnapshot(c, id)
  <2>1. Replays(e.events, us, s) /\ Hydrated(c, id) = Hydrate(e, us)
    BY <1>4 DEF Hydrates, Hydrated
  <2>2. Hydrate(e, us) = Agg(e, Meaning(e.events, s), << >>, 0)
    <3> HIDE DEF e, us, s
    <3> QED BY <1>1, <1>2, <1>3, <2>1, HydrateIsMeaning DEF Sound
  <2>3. 0 \in 0 .. Len(e.events)
    BY <1>2
  <2>4. HeldOK(Agg(e, Meaning(e.events, s), << >>, 0), s, stream, p)
    BY <1>1, <2>3, FreshOK
  <2> QED BY <2>1, <2>2, <2>4
<1>5. CASE UsesSnapshot(c, id)
  <2>1. /\ SnapOK(snap, stream) /\ snap.version <= Len(e.events) /\ snap.schema = s
        /\ Replays(AfterSnapshot(e, snap), us, s)
        /\ Hydrated(c, id) = HydrateFromSnapshot(e, snap, us)
    BY <1>2, <1>5 DEF Hydrates, Hydrated, UsesSnapshot
  <2>2. snap.version \in 0 .. Len(e.events)
    BY <1>2, <2>1 DEF SnapOK, SnapshotRecord
  <2>3. snap.state = MeaningUpTo(e.events, snap.version, s)
    <3>1. snap.version \in 0 .. Len(stream)
      BY <2>1 DEF SnapOK, SnapshotRecord
    <3>2. snap.state = MeaningUpTo(stream, snap.version, s)
      <4> HIDE DEF snap, s
      <4> QED BY <2>1, <3>1, MeaningOfPrefix DEF SnapOK
    <3>3. \A i \in 1 .. snap.version : e.events[i] = stream[i]
      BY <1>2, <2>2 DEF ReadOK, AgreeUpTo
    <3>4. MeaningUpTo(stream, snap.version, s) = MeaningUpTo(e.events, snap.version, s)
      <4> HIDE DEF snap, s, e
      <4> QED BY <3>3 DEF MeaningUpTo
    <3> QED BY <3>2, <3>4
  <2>4. \A i \in 1 .. Len(e.events) : e.events[i].sequence = i
    BY <1>3 DEF Sound
  <2>5. HydrateFromSnapshot(e, snap, us) = Agg(e, Meaning(e.events, s), << >>, snap.version)
    <3> HIDE DEF e, us, s, snap
    <3> QED BY <1>1, <1>2, <1>3, <2>1, <2>2, <2>3, <2>4, HydrateFromSnapshotIsMeaning
            DEF Sound
  <2>6. HeldOK(Agg(e, Meaning(e.events, s), << >>, snap.version), s, stream, p)
    <3> HIDE DEF e, s, snap
    <3> QED BY <1>1, <2>2, FreshOK DEF e
  <2> QED BY <2>1, <2>5, <2>6
<1> QED BY <1>4, <1>5

\* A new aggregate.
LEMMA NewOK ==
  ASSUME NEW s \in Nat, NEW stream \in Seq(Events), NEW p, p \notin Finishing
  PROVE  HeldOK(NewAggregate, s, stream, p)
<1>1. /\ NewAggregate.entity = NewEntity /\ NewAggregate.state = << >>
      /\ NewAggregate.queued = << >> /\ NewAggregate.snapshot_version = 0
  BY DEF NewAggregate
<1>2. /\ NewEntity.version = 0 /\ NewEntity.events = << >> /\ ~ NewEntity.replaying
      /\ NewEntity.committed_version = 0
  BY DEF NewEntity
<1>3. NewAggregate \in AggregateRecord
  BY DEF NewAggregate, AggregateRecord, NewEntity, EntityRecord
<1>4. Sound(<< >>)
  BY DEF Sound, CompletedOnce
<1>5. Meaning(<< >>, s) = << >>
  BY DEF Meaning
<1>6. AgreeUpTo(<< >>, stream, 0)
  BY DEF AgreeUpTo
<1> QED BY <1>1, <1>2, <1>3, <1>4, <1>5, <1>6 DEF HeldOK

LEMMA AggFields ==
  ASSUME NEW a \in AggregateRecord
  PROVE  /\ a = Agg(a.entity, a.state, a.queued, a.snapshot_version)
         /\ a.entity \in EntityRecord(Tags) /\ a.state \in Seq(Effects)
         /\ a.queued \in Seq(Names) /\ a.snapshot_version \in Nat
         /\ a.entity.events \in Seq(Events) /\ Len(a.entity.events) \in Nat
         /\ a.entity.version \in Nat /\ a.entity.committed_version \in Nat
         /\ Len(a.queued) \in Nat
<1>1. /\ a = Agg(a.entity, a.state, a.queued, a.snapshot_version)
      /\ a.entity \in EntityRecord(Tags) /\ a.state \in Seq(Effects)
      /\ a.queued \in Seq(Names) /\ a.snapshot_version \in Nat
  BY DEF AggregateRecord, Agg
<1> QED BY <1>1 DEF EntityRecord, Events

\* What an event that the method of schema s records is, and means to it.
LEMMA RecordedFacts ==
  ASSUME NEW name \in Names, NEW s \in Nat, NEW t,
         t = [name |-> name, version |-> VersionOf(name, s), fields |-> Given(Width(name, s))]
  PROVE  /\ t \in Tags /\ RecordedBy(t, s)
         /\ Effect(t, s) = [name |-> name, fields |-> Given(Width(name, s))]
<1> DEFINE w == Width(name, s)
<1>1. w \in Nat /\ VersionOf(name, s) \in Nat
  BY DEF Width, VersionOf
<1>2. Given(w) \in Payloads /\ Len(Given(w)) = w
  <2> HIDE DEF w
  <2> QED BY <1>1 DEF Given, Payloads
<1>3. w - Len(Given(w)) = 0
  BY <1>1, <1>2
<1>4. Defaults(0) = << >>
  BY DEF Defaults
<1>5. Given(w) \o << >> = Given(w)
  <2> HIDE DEF w
  <2> QED BY <1>2, ConcatEmptySeq DEF Payloads
<1> HIDE DEF w
<1>6. t.name = name /\ t.version = VersionOf(name, s) /\ t.fields = Given(w)
  BY DEF w
<1>7. t \in Tags
  BY <1>1, <1>2 DEF Tags, w
<1>8. RecordedBy(t, s)
  BY <1>2, <1>6 DEF RecordedBy, w
<1>9. Effect(t, s) = [name |-> name, fields |-> Given(w) \o Defaults(w - Len(Given(w)))]
  BY <1>6 DEF Effect, w
<1> QED BY <1>3, <1>4, <1>5, <1>7, <1>8, <1>9 DEF w

LEMMA MeaningAppend ==
  ASSUME NEW events \in Seq(Events), NEW ev \in Events, NEW s
  PROVE  Meaning(Append(events, ev), s) = Append(Meaning(events, s), Effect(ev.tag, s))
<1> DEFINE n == Len(events)
           all == Append(events, ev)
<1>1. n \in Nat /\ Len(all) = n + 1 /\ all[n + 1] = ev /\ \A i \in 1 .. n : all[i] = events[i]
  OBVIOUS
<1> HIDE DEF all, n
<1>2. Meaning(all, s) = MeaningUpTo(all, n + 1, s)
  BY <1>1 DEF Meaning, MeaningUpTo
<1>3. Meaning(events, s) = MeaningUpTo(all, n, s)
  BY <1>1 DEF Meaning, MeaningUpTo, n
<1>4. Append(MeaningUpTo(all, n, s), Effect(all[n + 1].tag, s)) = MeaningUpTo(all, n + 1, s)
  BY <1>1, MeaningGrows
<1> QED BY <1>1, <1>2, <1>3, <1>4 DEF all

\* Recording one more event keeps a copy sound if the guard of its method holds.
LEMMA SoundAppend ==
  ASSUME NEW events \in Seq(Events), Sound(events), NEW s, NEW c \in Clients,
         NEW t \in Tags, RecordedBy(t, Schema[c]), Guard(t.name, Meaning(events, s))
  PROVE  Sound(Append(events, [sequence |-> Len(events) + 1, tag |-> t]))
<1> DEFINE n == Len(events)
           ev == [sequence |-> n + 1, tag |-> t]
           all == Append(events, ev)
<1>0. n \in Nat
  OBVIOUS
<1>1. ev \in Events /\ ev.sequence = n + 1 /\ ev.tag = t
  BY <1>0 DEF Events, EventRecord
<1> HIDE DEF ev
<1>2. Len(all) = n + 1 /\ all[n + 1] = ev /\ \A i \in 1 .. n : all[i] = events[i]
  BY <1>1
<1> HIDE DEF all
<1>3. ASSUME NEW i \in 1 .. Len(all)
      PROVE  /\ all[i].sequence = i
             /\ \E d \in Clients : RecordedBy(all[i].tag, Schema[d])
  <2>1. CASE i = n + 1
    BY <1>1, <1>2, <2>1
  <2>2. CASE i # n + 1
    <3>1. i \in 1 .. n
      BY <1>0, <1>2, <2>2
    <3> QED BY <1>2, <3>1 DEF Sound
  <2> QED BY <2>1, <2>2
<1>4. t.name = "Completed" => \A i \in 1 .. n : events[i].tag.name # "Completed"
  <2>1. Len(Meaning(events, s)) = n /\ \A i \in 1 .. n :
          Meaning(events, s)[i].name = events[i].tag.name
    <3>1. Meaning(events, s) = MeaningUpTo(events, n, s)
      BY DEF Meaning, MeaningUpTo
    <3>2. Len(MeaningUpTo(events, n, s)) = n
      BY <1>0, MeaningGrows
    <3>3. \A i \in 1 .. n : MeaningUpTo(events, n, s)[i].name = events[i].tag.name
      BY DEF MeaningUpTo, Effect
    <3> QED BY <3>1, <3>2, <3>3
  <2> QED BY <2>1 DEF Guard
<1>5. CompletedOnce(all)
  <2> SUFFICES ASSUME NEW i \in 1 .. Len(all), NEW j \in 1 .. Len(all),
                      all[i].tag.name = "Completed", all[j].tag.name = "Completed"
               PROVE  i = j
    BY DEF CompletedOnce
  <2>1. CASE i \in 1 .. n /\ j \in 1 .. n
    BY <1>2, <2>1 DEF Sound, CompletedOnce
  <2>2. CASE i = n + 1 /\ j = n + 1
    BY <2>2
  <2>3. CASE i = n + 1 /\ j \in 1 .. n
    BY <1>1, <1>2, <1>4, <2>3
  <2>4. CASE j = n + 1 /\ i \in 1 .. n
    BY <1>1, <1>2, <1>4, <2>4
  <2> QED BY <1>0, <1>2, <2>1, <2>2, <2>3, <2>4
<1>6. Sound(all)
  BY <1>3, <1>5 DEF Sound
<1> QED BY <1>6 DEF all, ev

\* What a method leaves, if its guard holds: one more event, its effect, and one
\* more local event.
LEMMA CommandFacts ==
  ASSUME NEW a \in AggregateRecord, ~ a.entity.replaying, NEW name, NEW s,
         Guard(name, a.state)
  PROVE  Command(a, name, s)
         = Agg(Digest(a.entity, [name |-> name, version |-> VersionOf(name, s),
                                 fields |-> Given(Width(name, s))]),
               Append(a.state, [name |-> name, fields |-> Given(Width(name, s))]),
               Append(a.queued, name), a.snapshot_version)
<1> DEFINE f == Given(Width(name, s))
           v == VersionOf(name, s)
           e == a.entity
           st == a.state
           q == a.queued
           w == a.snapshot_version
           r == Append(q, name)
           d == Digest(e, [name |-> name, version |-> v, fields |-> f])
           y == Append(st, [name |-> name, fields |-> f])
<1>1. a = Agg(e, st, q, w) /\ ~ e.replaying
  BY AggFields
<1>2. Command(a, name, s) = DigestAndRun(Enqueue(a, name), name, v, f)
  BY DEF Command, Call
<1>3. Enqueue(a, name) = [a EXCEPT !.queued = r]
  BY DEF Enqueue, Queue
<1> HIDE DEF e, st, q, w, r
<1>4. [Agg(e, st, q, w) EXCEPT !.queued = r] = Agg(e, st, r, w)
  BY DEF Agg
<1>5. Agg(e, st, r, w).entity = e /\ Agg(e, st, r, w).state = st
  BY DEF Agg
<1>6. DigestAndRun(Agg(e, st, r, w), name, v, f)
        = [Agg(e, st, r, w) EXCEPT !.entity = d, !.state = y]
  BY <1>5 DEF DigestAndRun
<1> HIDE DEF d, y
<1>7. [Agg(e, st, r, w) EXCEPT !.entity = d, !.state = y]
        = [[Agg(e, st, r, w) EXCEPT !.entity = d] EXCEPT !.state = y]
  BY ExceptTwice
<1>8. [Agg(e, st, r, w) EXCEPT !.entity = d] = Agg(d, st, r, w)
  BY DEF Agg
<1>9. [Agg(d, st, r, w) EXCEPT !.state = y] = Agg(d, y, r, w)
  BY DEF Agg
<1>10. Enqueue(a, name) = Agg(e, st, r, w)
  BY <1>1, <1>3, <1>4
<1>11. Command(a, name, s) = Agg(d, y, r, w)
  BY <1>2, <1>6, <1>7, <1>8, <1>9, <1>10
<1> QED BY <1>11 DEF d, y, f, v, e, st, q, w, r

\* A method keeps an aggregate sound.
LEMMA CommandOK ==
  ASSUME NEW c \in Clients, NEW a, NEW stream \in Seq(Events), NEW p, p \notin Finishing,
         HeldOK(a, Schema[c], stream, p), NEW name \in Names
  PROVE  HeldOK(Command(a, name, Schema[c]), Schema[c], stream, p)
<1> DEFINE s == Schema[c]
<1>0. s \in Nat
  BY SchemaFacts
<1>1. CASE ~ Guard(name, a.state)
  <2>1. Command(a, name, s) = a
    BY <1>1 DEF Command, Call
  <2> QED BY <2>1
<1>2. CASE Guard(name, a.state)
  <2> DEFINE e == a.entity
             es == e.events
             n == Len(es)
             t == [name |-> name, version |-> VersionOf(name, s),
                   fields |-> Given(Width(name, s))]
             ev == [sequence |-> n + 1, tag |-> t]
             es2 == Append(es, ev)
             e2 == Digest(e, t)
             st2 == Append(a.state, [name |-> name, fields |-> Given(Width(name, s))])
             q2 == Append(a.queued, name)
             b == Agg(e2, st2, q2, a.snapshot_version)
  <2>1. /\ a \in AggregateRecord /\ ~ e.replaying /\ a.snapshot_version <= e.version
        /\ e.version = n /\ Sound(es) /\ AgreeUpTo(es, stream, e.committed_version)
        /\ e.committed_version + Len(a.queued) = n /\ a.state = Meaning(es, s)
    BY DEF HeldOK
  <2>2. Command(a, name, s) = b
    BY <1>2, <2>1, CommandFacts
  <2>3. /\ e \in EntityRecord(Tags) /\ a.state \in Seq(Effects) /\ a.queued \in Seq(Names)
        /\ a.snapshot_version \in Nat /\ es \in Seq(Events) /\ n \in Nat
        /\ e.committed_version \in Nat /\ Len(a.queued) \in Nat
    BY <2>1, AggFields
  <2>4. t \in Tags /\ RecordedBy(t, s) /\ t.name = name
        /\ Effect(t, s) = [name |-> name, fields |-> Given(Width(name, s))]
    BY <1>0, RecordedFacts
  <2> HIDE DEF t, s
  <2>5. ev \in Events /\ ev.tag = t
    BY <2>3, <2>4 DEF Events, EventRecord
  <2>6. e2 = [version |-> n + 1, events |-> es2, replaying |-> FALSE,
              committed_version |-> e.committed_version]
    <3>1. e.replaying = FALSE
      BY <2>1, <2>3 DEF EntityRecord
    <3> QED BY <3>1 DEF Digest
  <2>7. es2 \in Seq(Events) /\ Len(es2) = n + 1 /\ \A i \in 1 .. n : es2[i] = es[i]
    <3> HIDE DEF ev, es, n
    <3> QED BY <2>3, <2>5 DEF n
  <2>8. Sound(es2)
    <3>1. Guard(t.name, Meaning(es, s))
      BY <1>2, <2>1, <2>4
    <3>2. RecordedBy(t, Schema[c])
      BY <2>4 DEF s
    <3> HIDE DEF es
    <3> QED BY <2>1, <2>3, <2>4, <3>1, <3>2, SoundAppend
  <2>9. Meaning(es2, s) = st2
    <3> HIDE DEF es, ev
    <3> QED BY <2>1, <2>3, <2>4, <2>5, MeaningAppend
  <2>10. st2 \in Seq(Effects)
    <3> HIDE DEF es2
    <3> QED BY <1>0, <2>7, <2>9, MeaningType DEF s
  <2>11. q2 \in Seq(Names) /\ Len(q2) = Len(a.queued) + 1
    BY <2>3
  <2> HIDE DEF es2, st2, q2, e2
  <2>12. /\ e2 \in EntityRecord(Tags) /\ e2.version = n + 1 /\ e2.events = es2
         /\ ~ e2.replaying /\ e2.committed_version = e.committed_version
    BY <2>3, <2>6, <2>7 DEF EntityRecord, Events
  <2>13. /\ b \in AggregateRecord /\ b.entity = e2 /\ b.state = st2 /\ b.queued = q2
         /\ b.snapshot_version = a.snapshot_version
    BY <2>3, <2>10, <2>11, <2>12 DEF AggregateRecord, Agg
  <2> HIDE DEF b
  <2>14. AgreeUpTo(es2, stream, e.committed_version)
    BY <2>1, <2>3, <2>7 DEF AgreeUpTo
  <2>15. /\ b.snapshot_version <= b.entity.version
         /\ b.entity.version = Len(b.entity.events)
         /\ b.entity.committed_version + Len(b.queued) = Len(b.entity.events)
    <3>1. b.entity.version = n + 1 /\ Len(b.entity.events) = n + 1
      BY <2>7, <2>12, <2>13
    <3>2. b.snapshot_version <= n + 1
      BY <2>1, <2>3, <2>13
    <3>3. /\ b.entity.committed_version = e.committed_version
          /\ Len(b.queued) = Len(a.queued) + 1
      BY <2>11, <2>12, <2>13
    <3>4. e.committed_version + (Len(a.queued) + 1) = n + 1
      <4>1. \A i, j, k \in Nat : i + j = k => i + (j + 1) = k + 1
        OBVIOUS
      <4>2. e.committed_version + Len(a.queued) = n
        BY <2>1
      <4> HIDE DEF n, e
      <4> QED BY <2>3, <4>1, <4>2
    <3> QED BY <3>1, <3>2, <3>3, <3>4
  <2>16. HeldOK(b, s, stream, p)
    BY <2>8, <2>9, <2>12, <2>13, <2>14, <2>15 DEF HeldOK
  <2> QED BY <2>2, <2>16 DEF s
<1> QED BY <1>1, <1>2

\* A commit that finds the copy up to date stores what the copy holds, and the
\* aggregate has nothing new afterwards.
LEMMA CommittedOK ==
  ASSUME NEW c \in Clients, NEW a, NEW stream \in Seq(Events), NEW p, p \notin Finishing,
         HeldOK(a, Schema[c], stream, p), a.entity.committed_version = Len(stream),
         NEW q \in Finishing
  PROVE  /\ stream \o NewEvents(a.entity) = a.entity.events
         /\ Grown(stream, a.entity.events)
         /\ Len(a.entity.events) = Len(stream) + Len(a.queued)
         /\ HeldOK(Marked(a), Schema[c], a.entity.events, q)
         /\ Marked(a).queued = a.queued
<1> DEFINE e == a.entity
           es == e.events
           m == Len(stream)
           e2 == MarkCommitted(e)
           b == [a EXCEPT !.entity = e2]
<1>1. /\ a \in AggregateRecord /\ ~ e.replaying /\ a.snapshot_version <= e.version
      /\ e.version = Len(es) /\ Sound(es) /\ AgreeUpTo(es, stream, m)
      /\ m + Len(a.queued) = Len(es) /\ a.state = Meaning(es, Schema[c])
  BY DEF HeldOK
<1>2. /\ e \in EntityRecord(Tags) /\ es \in Seq(Events) /\ Len(es) \in Nat /\ m \in Nat
      /\ a = Agg(e, a.state, a.queued, a.snapshot_version) /\ a.state \in Seq(Effects)
      /\ a.queued \in Seq(Names) /\ a.snapshot_version \in Nat
  BY <1>1, AggFields
<1>3. m <= Len(es) /\ \A i \in 1 .. m : es[i] = stream[i]
  BY <1>1 DEF AgreeUpTo
<1>4. Grown(stream, es)
  BY <1>2, <1>3 DEF Grown
<1>5. stream \o NewEvents(e) = es
  <2>1. NewEvents(e) = SubSeq(es, m + 1, Len(es))
    BY DEF NewEvents
  <2> HIDE DEF es
  <2>2. stream \o SubSeq(es, m + 1, Len(es)) = es
    BY <1>2, <1>3
  <2> QED BY <2>1, <2>2
<1>6. e2 = [version |-> e.version, events |-> es, replaying |-> e.replaying,
            committed_version |-> e.version]
  BY <1>2 DEF MarkCommitted, EntityRecord
<1>7. /\ e2 \in EntityRecord(Tags) /\ e2.version = Len(es) /\ e2.events = es
      /\ ~ e2.replaying /\ e2.committed_version = Len(es)
  BY <1>1, <1>2, <1>6 DEF EntityRecord, Events
<1>8. b = Agg(e2, a.state, a.queued, a.snapshot_version)
  <2> DEFINE st == a.state
             u == a.queued
             w == a.snapshot_version
  <2>1. a = Agg(e, st, u, w)
    BY <1>2
  <2> HIDE DEF e, e2, st, u, w
  <2>2. [Agg(e, st, u, w) EXCEPT !.entity = e2] = Agg(e2, st, u, w)
    BY DEF Agg
  <2> QED BY <2>1, <2>2 DEF st, u, w
<1> HIDE DEF e2
<1>9. /\ b \in AggregateRecord /\ b.entity = e2 /\ b.state = a.state /\ b.queued = a.queued
      /\ b.snapshot_version = a.snapshot_version
  BY <1>2, <1>7, <1>8 DEF AggregateRecord, Agg
<1> HIDE DEF b
<1>10. AgreeUpTo(es, es, Len(es))
  BY <1>2 DEF AgreeUpTo
<1>11. HeldOK(b, Schema[c], es, q)
  BY <1>1, <1>7, <1>9, <1>10 DEF HeldOK
<1> QED BY <1>1, <1>4, <1>5, <1>9, <1>11 DEF b, e2, Marked

\* The snapshot of an aggregate that has been committed is a prefix of its
\* stream, however far the stream has grown.
LEMMA CreatedOK ==
  ASSUME NEW c \in Snapshotters, c \in Clients, NEW a, NEW stream \in Seq(Events),
         NEW p \in Finishing, HeldOK(a, Schema[c], stream, p)
  PROVE  SnapOK(CreateSnapshot(a, Schema[c]), stream)
<1> DEFINE es == a.entity.events
           n == Len(es)
           snap == CreateSnapshot(a, Schema[c])
<1>1. /\ a \in AggregateRecord /\ a.entity.version = n
      /\ AgreeUpTo(es, stream, n) /\ a.state = Meaning(es, Schema[c])
  BY DEF HeldOK
<1>2. /\ es \in Seq(Events) /\ n \in Nat /\ a.state \in Seq(Effects)
      /\ Schema[c] \in Nat
  BY <1>1, AggFields, SchemaFacts
<1>3. /\ snap.version = n /\ snap.schema = Schema[c] /\ snap.state = a.state
      /\ snap \in SnapshotRecord
  BY <1>1, <1>2 DEF CreateSnapshot, SnapshotRecord
<1>4. n \in 0 .. Len(stream) /\ \A i \in 1 .. n : es[i] = stream[i]
  BY <1>1, <1>2 DEF AgreeUpTo
<1> HIDE DEF snap
<1>5. Meaning(SubSeq(stream, 1, n), Schema[c]) = Meaning(es, Schema[c])
  <2>1. Meaning(SubSeq(stream, 1, n), Schema[c]) = MeaningUpTo(stream, n, Schema[c])
    BY <1>4, MeaningOfPrefix
  <2>2. MeaningUpTo(stream, n, Schema[c]) = Meaning(es, Schema[c])
    BY <1>4 DEF MeaningUpTo, Meaning
  <2> QED BY <2>1, <2>2
<1>6. SnapOK(snap, stream)
  BY <1>1, <1>3, <1>4, <1>5 DEF SnapOK
<1> QED BY <1>6 DEF snap

\* Noting the snapshot in the aggregate changes nothing else of it.
LEMMA NotedOK ==
  ASSUME NEW a, NEW s, NEW stream, NEW p, HeldOK(a, s, stream, p)
  PROVE  /\ HeldOK([a EXCEPT !.snapshot_version = a.entity.version], s, stream, p)
         /\ [a EXCEPT !.snapshot_version = a.entity.version].queued = a.queued
<1> DEFINE e == a.entity
           st == a.state
           u == a.queued
           w == a.snapshot_version
           v == e.version
           b == Agg(e, st, u, v)
<1>1. a \in AggregateRecord
  BY DEF HeldOK
<1>2. /\ a = Agg(e, st, u, w) /\ e \in EntityRecord(Tags) /\ st \in Seq(Effects)
      /\ u \in Seq(Names) /\ v \in Nat
  BY <1>1, AggFields
<1>3. [a EXCEPT !.snapshot_version = v] = b
  <2> HIDE DEF e, st, u, w, v
  <2> QED BY <1>2 DEF Agg
<1>4. /\ b \in AggregateRecord /\ b.entity = e /\ b.state = st /\ b.queued = u
      /\ b.snapshot_version = v
  <2> HIDE DEF e, st, u, w, v
  <2> QED BY <1>2 DEF Agg, AggregateRecord
<1> HIDE DEF b
<1>5. HeldOK(b, s, stream, p)
  BY <1>2, <1>4 DEF HeldOK
<1> QED BY <1>3, <1>4, <1>5

\* Emptying the queue of an aggregate that has nothing new.
LEMMA DrainedOK ==
  ASSUME NEW a, NEW s, NEW stream, NEW p \in Finishing, HeldOK(a, s, stream, p), NEW q
  PROVE  HeldOK(Drained(a), s, stream, q)
<1> DEFINE e == a.entity
           st == a.state
           u == a.queued
           w == a.snapshot_version
           b == Agg(e, st, << >>, w)
<1>1. a \in AggregateRecord
  BY DEF HeldOK
<1>2. /\ a = Agg(e, st, u, w) /\ e \in EntityRecord(Tags) /\ st \in Seq(Effects)
      /\ w \in Nat /\ e.committed_version \in Nat
  BY <1>1, AggFields
<1>3. [a EXCEPT !.queued = << >>] = b
  <2> HIDE DEF e, st, u, w
  <2> QED BY <1>2 DEF Agg
<1>4. /\ b \in AggregateRecord /\ b.entity = e /\ b.state = st /\ b.queued = << >>
      /\ b.snapshot_version = w
  <2> HIDE DEF e, st, u, w
  <2> QED BY <1>2 DEF Agg, AggregateRecord
<1> HIDE DEF b
<1>5. e.committed_version + Len(b.queued) = e.committed_version
  BY <1>2, <1>4
<1>6. HeldOK(b, s, stream, q)
  BY <1>2, <1>4, <1>5 DEF HeldOK
<1> QED BY <1>3, <1>6 DEF Drained
-----------------------------------------------------------------------------
(***************************************************************************)
(* The invariant, value by value                                           *)
(***************************************************************************)

IsFunction(f) == f = [x \in DOMAIN f |-> f[x]]

\* What client c is doing and holds, next to the streams st.
ControlOK(c, p, l, a, t) ==
  /\ p \in Places /\ t \in SUBSET Ids
  /\ IsFunction(l) /\ DOMAIN l \subseteq Ids
  /\ IsFunction(a) /\ DOMAIN a \subseteq Ids
  /\ t \subseteq IF p = "snapshot" THEN DOMAIN a ELSE IdsOf(c)
  /\ p \in {"read", "snapshot"} <=> t # {}
  /\ p \in {"hydrate", "search"} => DOMAIN l # {}
  /\ DOMAIN l # {} => p \in {"read", "hydrate", "search"}
  /\ p = "snapshot" => c \in Snapshotters
ClientOK(c, p, l, a, t, st) ==
  /\ ControlOK(c, p, l, a, t)
  /\ \A id \in DOMAIN l : ReadOK(l[id], st[id])
  /\ \A id \in DOMAIN a : HeldOK(a[id], Schema[c], st[id], p)

StoreOK(st) == st \in [Ids -> Seq(Events)] /\ \A id \in Ids : Sound(st[id])
SnapsOK(snaps, st) ==
  /\ IsFunction(snaps) /\ DOMAIN snaps \subseteq Ids
  /\ \A id \in DOMAIN snaps : SnapOK(snaps[id], st[id])

Shape ==
  /\ pc = [c \in Clients |-> pc[c]] /\ loading = [c \in Clients |-> loading[c]]
  /\ aggs = [c \in Clients |-> aggs[c]] /\ todo = [c \in Clients |-> todo[c]]
  /\ emitted \in [Ids -> Nat]

Parts ==
  /\ Shape /\ StoreOK(store) /\ SnapsOK(snapshots, store)
  /\ \A c \in Clients : ClientOK(c, pc[c], loading[c], aggs[c], todo[c], store)
  /\ EmitsAreCounted

LEMMA EmptyFunction ==
  ASSUME NEW f, IsFunction(f)
  PROVE  f = Nothing <=> DOMAIN f = {}
<1>1. DOMAIN Nothing = {}
  BY DEF Nothing
<1>2. ASSUME DOMAIN f = {} PROVE f = Nothing
  <2>1. f = [x \in {} |-> f[x]]
    BY <1>2 DEF IsFunction
  <2>2. [x \in {} |-> f[x]] = [x \in {} |-> NewEntity]
    OBVIOUS
  <2> QED BY <2>1, <2>2 DEF Nothing
<1> QED BY <1>1, <1>2

LEMMA PartsImplyInv == Parts => HistoryInv
<1> SUFFICES ASSUME Parts PROVE HistoryInv
  OBVIOUS
<1>1. /\ Shape /\ StoreOK(store) /\ SnapsOK(snapshots, store) /\ EmitsAreCounted
      /\ \A c \in Clients : ClientOK(c, pc[c], loading[c], aggs[c], todo[c], store)
  BY DEF Parts
<1>2. ASSUME NEW c \in Clients
      PROVE  /\ ControlOK(c, pc[c], loading[c], aggs[c], todo[c])
             /\ \A id \in DOMAIN loading[c] : ReadOK(loading[c][id], store[id])
             /\ \A id \in DOMAIN aggs[c] : HeldOK(aggs[c][id], Schema[c], store[id], pc[c])
  BY <1>1 DEF ClientOK
<1>3. TypeOK
  <2>1. store \in [Ids -> Seq(EventRecord(Tags))]
    BY <1>1 DEF StoreOK, Events
  <2>2. /\ DOMAIN snapshots \subseteq Ids
        /\ snapshots \in [DOMAIN snapshots ->
                           [version : Nat, schema : Nat, state : Seq(Effects)]]
    <3>1. \A id \in DOMAIN snapshots : snapshots[id] \in SnapshotRecord
      BY <1>1 DEF SnapsOK, SnapOK
    <3> QED BY <1>1, <3>1 DEF SnapsOK, IsFunction, SnapshotRecord
  <2>3. /\ pc \in [Clients -> Places] /\ todo \in [Clients -> SUBSET Ids]
        /\ emitted \in [Ids -> Nat]
        /\ loading = [c \in Clients |-> loading[c]] /\ aggs = [c \in Clients |-> aggs[c]]
    <3>1. \A c \in Clients : pc[c] \in Places /\ todo[c] \in SUBSET Ids
      BY <1>2 DEF ControlOK
    <3> QED BY <1>1, <3>1 DEF Shape
  <2>4. ASSUME NEW c \in Clients
        PROVE  /\ DOMAIN loading[c] \subseteq Ids /\ DOMAIN aggs[c] \subseteq Ids
               /\ loading[c] \in [DOMAIN loading[c] -> EntityRecord(Tags)]
               /\ aggs[c] \in [DOMAIN aggs[c] -> AggregateRecord]
               /\ \A id \in DOMAIN aggs[c] :
                    /\ ~ aggs[c][id].entity.replaying
                    /\ aggs[c][id].snapshot_version <= aggs[c][id].entity.version
               /\ todo[c] \subseteq IF pc[c] = "snapshot" THEN DOMAIN aggs[c] ELSE IdsOf(c)
               /\ pc[c] \in {"read", "snapshot"} <=> todo[c] # {}
               /\ pc[c] \in {"hydrate", "search"} => loading[c] # Nothing
               /\ loading[c] # Nothing => pc[c] \in {"read", "hydrate", "search"}
    <3>1. loading[c] = Nothing <=> DOMAIN loading[c] = {}
      BY <1>2, EmptyFunction DEF ControlOK
    <3>2. \A id \in DOMAIN loading[c] : loading[c][id] \in EntityRecord(Tags)
      BY <1>2 DEF ReadOK
    <3>3. \A id \in DOMAIN aggs[c] :
            /\ aggs[c][id] \in AggregateRecord /\ ~ aggs[c][id].entity.replaying
            /\ aggs[c][id].snapshot_version <= aggs[c][id].entity.version
      BY <1>2 DEF HeldOK
    <3>4. /\ loading[c] \in [DOMAIN loading[c] -> EntityRecord(Tags)]
          /\ aggs[c] \in [DOMAIN aggs[c] -> AggregateRecord]
      BY <1>2, <3>2, <3>3 DEF ControlOK, IsFunction
    <3> QED BY <1>2, <3>1, <3>3, <3>4 DEF ControlOK
  <2> QED BY <2>1, <2>2, <2>3, <2>4 DEF TypeOK
<1>4. StreamsAreSound
  BY <1>1 DEF StoreOK, StreamsAreSound
<1>5. LoadedIsPrefix
  BY <1>2 DEF LoadedIsPrefix, ReadOK
<1>6. HeldIsSound
  BY <1>2 DEF HeldIsSound, HeldOK, Finishing
<1>7. StateIsHistory
  BY <1>2 DEF StateIsHistory, HeldOK
<1>8. SnapshotIsHistory /\ SnapshotsAreTyped
  <2>1. \A c \in Clients : pc[c] = "snapshot" => c \in Snapshotters
    BY <1>2 DEF ControlOK
  <2> QED BY <1>1, <2>1 DEF SnapsOK, SnapOK, SnapshotIsHistory, SnapshotsAreTyped
<1> QED BY <1>1, <1>3, <1>4, <1>5, <1>6, <1>7, <1>8 DEF HistoryInv

LEMMA InitParts == Init => Parts
<1> SUFFICES ASSUME Init PROVE Parts
  OBVIOUS
<1>1. DOMAIN Nothing = {} /\ IsFunction(Nothing)
  BY DEF Nothing, IsFunction
<1>2. Shape
  BY DEF Init, Shape
<1>3. StoreOK(store)
  <2>1. Sound(<< >>)
    BY DEF Sound, CompletedOnce
  <2> QED BY <2>1 DEF Init, StoreOK
<1>4. SnapsOK(snapshots, store)
  BY <1>1 DEF Init, SnapsOK
<1>5. ASSUME NEW c \in Clients
      PROVE  ClientOK(c, pc[c], loading[c], aggs[c], todo[c], store)
  <2>1. pc[c] = "idle" /\ loading[c] = Nothing /\ aggs[c] = Nothing /\ todo[c] = {}
    BY DEF Init
  <2> QED BY <1>1, <2>1 DEF ClientOK, ControlOK, Places
<1>6. EmitsAreCounted
  <2> SUFFICES ASSUME NEW id \in Ids
               PROVE  /\ IsFiniteSet(Pending(id))
                      /\ emitted[id] + Cardinality(Pending(id)) <= Len(store[id])
    BY DEF EmitsAreCounted
  <2>1. Pending(id) = {}
    BY DEF Init, Pending, Emitting
  <2>2. emitted[id] = 0 /\ store[id] = << >>
    BY DEF Init
  <2> QED BY <2>1, <2>2, FS_EmptySet
<1> QED BY <1>2, <1>3, <1>4, <1>5, <1>6 DEF Parts

\* What is pending does not change if no client starts or ends the emission of
\* its commit and the queues of those in it stay as they are.
LEMMA PendingSame ==
  ASSUME \A c \in Clients : /\ pc'[c] \in Finishing <=> pc[c] \in Finishing
                            /\ pc[c] \in Finishing =>
                                 /\ DOMAIN aggs'[c] = DOMAIN aggs[c]
                                 /\ \A id \in DOMAIN aggs[c] :
                                      aggs'[c][id].queued = aggs[c][id].queued,
         store' = store, emitted' = emitted, EmitsAreCounted
  PROVE  EmitsAreCounted'
<1>1. \A id : Pending(id)' = Pending(id)
  BY DEF Pending, Emitting, Finishing
<1> QED BY <1>1 DEF EmitsAreCounted

\* A step of one client that stores no event and emits nothing.
LEMMA ClientStep ==
  ASSUME Parts, NEW c \in Clients, Shape', store' = store, emitted' = emitted,
         \A d \in Clients \ {c} : /\ pc'[d] = pc[d] /\ loading'[d] = loading[d]
                                  /\ aggs'[d] = aggs[d] /\ todo'[d] = todo[d],
         SnapsOK(snapshots', store),
         ClientOK(c, pc'[c], loading'[c], aggs'[c], todo'[c], store),
         pc'[c] \in Finishing <=> pc[c] \in Finishing,
         pc[c] \in Finishing => /\ DOMAIN aggs'[c] = DOMAIN aggs[c]
                                /\ \A id \in DOMAIN aggs[c] :
                                     aggs'[c][id].queued = aggs[c][id].queued
  PROVE  Parts'
<1>1. EmitsAreCounted'
  BY PendingSame DEF Parts
<1>2. StoreOK(store') /\ SnapsOK(snapshots', store')
  BY DEF Parts
<1>3. ASSUME NEW d \in Clients
      PROVE  ClientOK(d, pc'[d], loading'[d], aggs'[d], todo'[d], store')
  <2>1. CASE d = c
    BY <2>1
  <2>2. CASE d # c
    BY <2>2 DEF Parts
  <2> QED BY <2>1, <2>2
<1> QED BY <1>1, <1>2, <1>3 DEF Parts
-----------------------------------------------------------------------------
(***************************************************************************)
(* Loading                                                                 *)
(***************************************************************************)

\* What the parts say of one client.
LEMMA PartsOf ==
  ASSUME Parts, NEW c \in Clients
  PROVE  /\ Shape /\ StoreOK(store) /\ SnapsOK(snapshots, store)
         /\ ControlOK(c, pc[c], loading[c], aggs[c], todo[c])
         /\ ClientOK(c, pc[c], loading[c], aggs[c], todo[c], store)
         /\ \A id \in DOMAIN loading[c] : ReadOK(loading[c][id], store[id])
         /\ \A id \in DOMAIN aggs[c] : HeldOK(aggs[c][id], Schema[c], store[id], pc[c])
         /\ \A id \in Ids : store[id] \in Seq(Events) /\ Sound(store[id])
         /\ IdsOf(c) \subseteq Ids
<1>1. /\ Shape /\ StoreOK(store) /\ SnapsOK(snapshots, store)
      /\ ClientOK(c, pc[c], loading[c], aggs[c], todo[c], store)
  BY DEF Parts
<1>2. \A id \in Ids : store[id] \in Seq(Events) /\ Sound(store[id])
  BY <1>1 DEF StoreOK
<1>3. IdsOf(c) \subseteq Ids
  <2>1. Methods[c] \subseteq Ids \X Names
    BY SnapshotAssumption DEF SnapshotAssumption
  <2> QED BY <2>1 DEF IdsOf
<1> QED BY <1>1, <1>2, <1>3 DEF ClientOK

LEMMA ReadingStep ==
  ASSUME Parts, NEW c \in Clients, NEW ids \in SUBSET IdsOf(c), ids # {},
         NEW place \in {"hydrate", "search"}, Reading(c, ids, place)
  PROVE  Parts'
<1> USE PartsOf
<1> DEFINE l == [id \in ids |-> LoadFromHistory(NewEntity, store[id])]
<1>1. /\ pc[c] = "idle" /\ pc' = [pc EXCEPT ![c] = place]
      /\ loading' = [loading EXCEPT ![c] = l]
      /\ store' = store /\ snapshots' = snapshots /\ aggs' = aggs /\ todo' = todo
      /\ emitted' = emitted
  BY DEF Reading
<1>2. Shape'
  BY <1>1 DEF Shape
<1>3. pc'[c] = place /\ loading'[c] = l /\ aggs'[c] = aggs[c] /\ todo'[c] = todo[c]
  BY <1>1 DEF Shape
<1>4. DOMAIN l = ids /\ \A id \in ids : ReadOK(l[id], store[id])
  BY LoadedOK
<1>5. ControlOK(c, place, l, aggs[c], todo[c])
  BY <1>1, <1>4 DEF ControlOK, Places, IsFunction
<1>6. \A id \in DOMAIN aggs[c] : HeldOK(aggs[c][id], Schema[c], store[id], place)
  BY <1>1, HeldPlace DEF Finishing
<1>7. ClientOK(c, place, l, aggs[c], todo[c], store)
  BY <1>4, <1>5, <1>6 DEF ClientOK
<1>8. pc'[c] \notin Finishing /\ pc[c] \notin Finishing
  BY <1>1, <1>3 DEF Finishing
<1>9. \A d \in Clients \ {c} : /\ pc'[d] = pc[d] /\ loading'[d] = loading[d]
                               /\ aggs'[d] = aggs[d] /\ todo'[d] = todo[d]
  BY <1>1 DEF Shape
<1> HIDE DEF l
<1> QED BY <1>1, <1>2, <1>3, <1>7, <1>8, <1>9, ClientStep

LEMMA GetAllStep ==
  ASSUME Parts, NEW c \in Clients, GetAll(c)
  PROVE  Parts'
<1> USE PartsOf
<1>1. /\ pc[c] = "idle" /\ pc' = [pc EXCEPT ![c] = "read"]
      /\ todo' = [todo EXCEPT ![c] = IdsOf(c)]
      /\ store' = store /\ snapshots' = snapshots /\ aggs' = aggs /\ loading' = loading
      /\ emitted' = emitted /\ Cardinality(IdsOf(c)) > 1
  BY DEF GetAll
<1>2. Shape'
  BY <1>1 DEF Shape
<1>3. pc'[c] = "read" /\ loading'[c] = loading[c] /\ aggs'[c] = aggs[c] /\ todo'[c] = IdsOf(c)
  BY <1>1 DEF Shape
<1>4. IdsOf(c) # {}
  <2>1. Cardinality({}) = 0 /\ ~ (0 > 1)
    BY FS_EmptySet
  <2> QED BY <1>1, <2>1
<1>5. ControlOK(c, "read", loading[c], aggs[c], IdsOf(c))
  BY <1>1, <1>4 DEF ControlOK, Places
<1>6. \A id \in DOMAIN aggs[c] : HeldOK(aggs[c][id], Schema[c], store[id], "read")
  BY <1>1, HeldPlace DEF Finishing
<1>7. ClientOK(c, "read", loading[c], aggs[c], IdsOf(c), store)
  BY <1>5, <1>6 DEF ClientOK
<1>8. pc'[c] \notin Finishing /\ pc[c] \notin Finishing
  BY <1>1, <1>3 DEF Finishing
<1>9. \A d \in Clients \ {c} : /\ pc'[d] = pc[d] /\ loading'[d] = loading[d]
                               /\ aggs'[d] = aggs[d] /\ todo'[d] = todo[d]
  BY <1>1 DEF Shape
<1> QED BY <1>1, <1>2, <1>3, <1>7, <1>8, <1>9, ClientStep

LEMMA PutFacts ==
  /\ \A f, x, v : IsFunction(Put(f, x, v))
  /\ \A f, x, v : \A y : y \in DOMAIN Put(f, x, v) <=> (y = x \/ y \in DOMAIN f)
  /\ \A f, x, v : Put(f, x, v)[x] = v
  /\ \A f, x, v : \A y \in DOMAIN f : y # x => Put(f, x, v)[y] = f[y]
  BY DEF Put, IsFunction

LEMMA WithoutFacts ==
  /\ \A f, x : IsFunction(Without(f, x))
  /\ \A f, x : \A y : y \in DOMAIN Without(f, x) <=> (y # x /\ y \in DOMAIN f)
  /\ \A f, x : \A y \in DOMAIN f : y # x => Without(f, x)[y] = f[y]
  BY DEF Without, IsFunction

LEMMA GetOneStep ==
  ASSUME Parts, NEW c \in Clients, NEW id \in Ids, GetOne(c, id)
  PROVE  Parts'
<1> USE PartsOf
<1> DEFINE l == loading'[c]
           t == todo[c] \ {id}
           p == IF todo[c] # {id} THEN "read" ELSE IF l = Nothing THEN "idle" ELSE "hydrate"
           r == LoadFromHistory(NewEntity, store[id])
<1>1. /\ pc[c] = "read" /\ id \in todo[c] /\ pc' = [pc EXCEPT ![c] = p]
      /\ loading' = IF id \in Existing(c) THEN [loading EXCEPT ![c] = Put(loading[c], id, r)]
                                          ELSE loading
      /\ todo' = [todo EXCEPT ![c] = t]
      /\ store' = store /\ snapshots' = snapshots /\ aggs' = aggs /\ emitted' = emitted
  BY DEF GetOne
<1>2. Shape'
  <2>1. loading' = [d \in Clients |-> loading'[d]]
    BY <1>1 DEF Shape
  <2> QED BY <1>1, <2>1 DEF Shape
<1>3. pc'[c] = p /\ aggs'[c] = aggs[c] /\ todo'[c] = t
  BY <1>1 DEF Shape
<1>4. /\ IsFunction(l) /\ DOMAIN l \subseteq Ids
      /\ \A i \in DOMAIN l : ReadOK(l[i], store[i])
  <2>1. CASE id \in Existing(c)
    <3>1. l = Put(loading[c], id, r)
      BY <1>1, <2>1 DEF Shape
    <3>2. ReadOK(r, store[id])
      BY LoadedOK
    <3> HIDE DEF r, l
    <3>3. /\ IsFunction(l) /\ l[id] = r
          /\ \A i \in DOMAIN l : i = id \/ i \in DOMAIN loading[c]
          /\ \A i \in DOMAIN loading[c] : i # id => l[i] = loading[c][i]
      BY ONLY <3>1, PutFacts
    <3>4. DOMAIN loading[c] \subseteq Ids
      BY DEF ControlOK
    <3> QED BY <3>2, <3>3, <3>4
  <2>2. CASE id \notin Existing(c)
    <3>1. l = loading[c]
      BY <1>1, <2>2
    <3> QED BY <3>1 DEF ControlOK
  <2> QED BY <2>1, <2>2
<1>5. l = Nothing <=> DOMAIN l = {}
  BY <1>4, EmptyFunction
<1>6. p \in {"read", "idle", "hydrate"} /\ (p = "read" <=> t # {})
      /\ (p = "idle" => DOMAIN l = {}) /\ (p = "hydrate" => DOMAIN l # {})
  BY <1>1, <1>5
<1> HIDE DEF l, p
<1>7. ControlOK(c, p, l, aggs[c], t)
  BY <1>1, <1>4, <1>6 DEF ControlOK, Places
<1>8. \A i \in DOMAIN aggs[c] : HeldOK(aggs[c][i], Schema[c], store[i], p)
  BY <1>1, <1>6, HeldPlace DEF Finishing
<1>9. ClientOK(c, p, l, aggs[c], t, store)
  BY <1>4, <1>7, <1>8 DEF ClientOK
<1>10. pc'[c] \notin Finishing /\ pc[c] \notin Finishing
  BY <1>1, <1>3, <1>6 DEF Finishing
<1>11. \A d \in Clients \ {c} : /\ pc'[d] = pc[d] /\ loading'[d] = loading[d]
                                /\ aggs'[d] = aggs[d] /\ todo'[d] = todo[d]
  BY <1>1 DEF Shape
<1> QED BY <1>1, <1>2, <1>3, <1>9, <1>10, <1>11, ClientStep DEF l

\* The entities that a loop has still to hydrate.
LEMMA WithoutRead ==
  ASSUME NEW l, NEW id, NEW st, DOMAIN l \subseteq Ids,
         \A i \in DOMAIN l : ReadOK(l[i], st[i])
  PROVE  /\ IsFunction(Without(l, id)) /\ DOMAIN Without(l, id) \subseteq Ids
         /\ \A i \in DOMAIN Without(l, id) : ReadOK(Without(l, id)[i], st[i])
<1> DEFINE k == Without(l, id)
<1>1. /\ IsFunction(k) /\ \A i \in DOMAIN k : i # id /\ i \in DOMAIN l
      /\ \A i \in DOMAIN l : i # id => k[i] = l[i]
  BY WithoutFacts
<1> HIDE DEF k
<1>2. IsFunction(k) /\ DOMAIN k \subseteq Ids /\ \A i \in DOMAIN k : ReadOK(k[i], st[i])
  BY <1>1
<1> QED BY <1>2 DEF k

\* One more aggregate in a client's hands, or another in place of one.
LEMMA PutHeld ==
  ASSUME NEW a, NEW id \in Ids, NEW st, NEW s, NEW p, NEW v, DOMAIN a \subseteq Ids,
         \A i \in DOMAIN a : HeldOK(a[i], s, st[i], p), HeldOK(v, s, st[id], p)
  PROVE  /\ IsFunction(Put(a, id, v)) /\ DOMAIN Put(a, id, v) \subseteq Ids
         /\ \A i \in DOMAIN Put(a, id, v) : HeldOK(Put(a, id, v)[i], s, st[i], p)
<1> DEFINE b == Put(a, id, v)
<1>1. /\ IsFunction(b) /\ \A i \in DOMAIN b : i = id \/ i \in DOMAIN a
      /\ b[id] = v /\ \A i \in DOMAIN a : i # id => b[i] = a[i]
  BY PutFacts
<1> HIDE DEF b
<1>2. IsFunction(b) /\ DOMAIN b \subseteq Ids /\ \A i \in DOMAIN b : HeldOK(b[i], s, st[i], p)
  BY <1>1
<1> QED BY <1>2 DEF b

LEMMA NothingFacts ==
  IsFunction(Nothing) /\ DOMAIN Nothing = {}
  BY DEF Nothing, IsFunction

\* A client takes the aggregates a, and leaves l to be hydrated.
LEMMA HandsStep ==
  ASSUME Parts, NEW c \in Clients, NEW l, NEW a, NEW p,
         pc[c] \notin Finishing, p \in {"idle", "hydrate", "search"},
         p = pc[c] \/ (p = "idle" /\ pc[c] \in {"hydrate", "search"}),
         pc' = [pc EXCEPT ![c] = p], loading' = [loading EXCEPT ![c] = l],
         aggs' = [aggs EXCEPT ![c] = a],
         store' = store, snapshots' = snapshots, todo' = todo, emitted' = emitted,
         IsFunction(l), DOMAIN l \subseteq Ids, p = "idle" <=> DOMAIN l = {},
         \A i \in DOMAIN l : ReadOK(l[i], store[i]),
         IsFunction(a), DOMAIN a \subseteq Ids,
         \A i \in DOMAIN a : HeldOK(a[i], Schema[c], store[i], p)
  PROVE  Parts'
<1> USE PartsOf
<1>1. Shape'
  BY DEF Shape
<1>2. pc'[c] = p /\ loading'[c] = l /\ aggs'[c] = a /\ todo'[c] = todo[c]
  BY DEF Shape
<1>3. ControlOK(c, p, l, a, todo[c])
  BY DEF ControlOK, Places
<1>4. ClientOK(c, p, l, a, todo[c], store)
  BY <1>3 DEF ClientOK
<1>5. pc'[c] \notin Finishing
  BY <1>2 DEF Finishing
<1>6. \A d \in Clients \ {c} : /\ pc'[d] = pc[d] /\ loading'[d] = loading[d]
                               /\ aggs'[d] = aggs[d] /\ todo'[d] = todo[d]
  BY DEF Shape
<1> QED BY <1>1, <1>2, <1>4, <1>5, <1>6, ClientStep

\* What a call that hydrates id knows.
LEMMA HydratingFacts ==
  ASSUME Parts, NEW c \in Clients, NEW id \in Ids, Hydrating(c, id), Hydrates(c, id)
  PROVE  HeldOK(Hydrated(c, id), Schema[c], store[id], pc[c])
<1>1. /\ store[id] \in Seq(Events) /\ Sound(store[id])
      /\ ReadOK(loading[c][id], store[id])
  BY PartsOf DEF Hydrating
<1>2. id \in DOMAIN snapshots => SnapOK(snapshots[id], store[id])
  BY PartsOf DEF SnapsOK
<1>3. pc[c] \notin Finishing
  BY DEF Hydrating, Finishing
<1> QED BY <1>1, <1>2, <1>3, HydratedOK

\* The loop goes on, with the aggregates a in the client's hands.
LEMMA VisitedStep ==
  ASSUME Parts, NEW c \in Clients, NEW id \in Ids, NEW a, Hydrating(c, id), Visited(c, id),
         aggs' = [aggs EXCEPT ![c] = a], IsFunction(a), DOMAIN a \subseteq Ids,
         \A i \in DOMAIN a : HeldOK(a[i], Schema[c], store[i], pc[c])
  PROVE  Parts'
<1> USE PartsOf
<1> DEFINE l == Without(loading[c], id)
           p == IF DOMAIN loading[c] = {id} THEN "idle" ELSE pc[c]
<1>1. /\ pc[c] \in {"hydrate", "search"} /\ id \in DOMAIN loading[c]
      /\ pc' = [pc EXCEPT ![c] = p] /\ loading' = [loading EXCEPT ![c] = l]
      /\ store' = store /\ snapshots' = snapshots /\ todo' = todo /\ emitted' = emitted
  BY DEF Hydrating, Visited
<1>2. p \in {"idle", "hydrate", "search"}
      /\ (p = pc[c] \/ (p = "idle" /\ pc[c] \in {"hydrate", "search"}))
  BY <1>1
<1>3. /\ IsFunction(l) /\ DOMAIN l \subseteq Ids
      /\ \A i \in DOMAIN l : ReadOK(l[i], store[i])
  BY WithoutRead DEF ControlOK
<1>4. p = "idle" <=> DOMAIN l = {}
  <2>1. \A i : i \in DOMAIN l <=> (i # id /\ i \in DOMAIN loading[c])
    BY WithoutFacts
  <2> HIDE DEF l
  <2> QED BY <1>1, <2>1
<1>5. \A i \in DOMAIN a : HeldOK(a[i], Schema[c], store[i], p)
  BY <1>1, <1>2, HeldPlace DEF Finishing
<1>6. pc[c] \notin Finishing
  BY <1>1 DEF Finishing
<1> HIDE DEF l, p
<1> QED BY <1>1, <1>2, <1>3, <1>4, <1>5, <1>6, HandsStep

LEMMA HydrateNextStep ==
  ASSUME Parts, NEW c \in Clients, NEW id \in Ids, HydrateNext(c, id)
  PROVE  Parts'
<1> DEFINE v == Hydrated(c, id)
           a == Put(aggs[c], id, v)
<1>1. /\ Hydrating(c, id) /\ Hydrates(c, id) /\ Visited(c, id)
      /\ aggs' = [aggs EXCEPT ![c] = a]
  BY DEF HydrateNext
<1>2. HeldOK(v, Schema[c], store[id], pc[c])
  BY <1>1, HydratingFacts
<1>3. /\ DOMAIN aggs[c] \subseteq Ids
      /\ \A i \in DOMAIN aggs[c] : HeldOK(aggs[c][i], Schema[c], store[i], pc[c])
  BY PartsOf DEF ControlOK
<1> HIDE DEF v
<1>4. /\ IsFunction(a) /\ DOMAIN a \subseteq Ids
      /\ \A i \in DOMAIN a : HeldOK(a[i], Schema[c], store[i], pc[c])
  BY <1>2, <1>3, PutHeld
<1> HIDE DEF a
<1> QED BY <1>1, <1>4, VisitedStep

LEMMA RejectedStep ==
  ASSUME Parts, NEW c \in Clients, NEW id \in Ids, Rejected(c, id)
  PROVE  Parts'
<1>1. Hydrating(c, id) /\ Visited(c, id) /\ aggs' = aggs
  BY DEF Rejected
<1>2. aggs' = [aggs EXCEPT ![c] = aggs[c]]
  BY <1>1, PartsOf DEF Shape
<1>3. /\ IsFunction(aggs[c]) /\ DOMAIN aggs[c] \subseteq Ids
      /\ \A i \in DOMAIN aggs[c] : HeldOK(aggs[c][i], Schema[c], store[i], pc[c])
  BY PartsOf DEF ControlOK
<1> QED BY <1>1, <1>2, <1>3, VisitedStep

LEMMA FoundOneStep ==
  ASSUME Parts, NEW c \in Clients, NEW id \in Ids, FoundOne(c, id)
  PROVE  Parts'
<1> DEFINE v == Hydrated(c, id)
           a == Put(aggs[c], id, v)
<1>1. /\ Hydrating(c, id) /\ Hydrates(c, id) /\ pc[c] = "search"
      /\ aggs' = [aggs EXCEPT ![c] = a] /\ loading' = [loading EXCEPT ![c] = Nothing]
      /\ pc' = [pc EXCEPT ![c] = "idle"]
      /\ store' = store /\ snapshots' = snapshots /\ todo' = todo /\ emitted' = emitted
  BY DEF FoundOne
<1>2. HeldOK(v, Schema[c], store[id], "idle")
  BY <1>1, HydratingFacts, HeldPlace DEF Finishing
<1>3. /\ DOMAIN aggs[c] \subseteq Ids
      /\ \A i \in DOMAIN aggs[c] : HeldOK(aggs[c][i], Schema[c], store[i], "idle")
  BY <1>1, PartsOf, HeldPlace DEF ControlOK, Finishing
<1> HIDE DEF v
<1>4. /\ IsFunction(a) /\ DOMAIN a \subseteq Ids
      /\ \A i \in DOMAIN a : HeldOK(a[i], Schema[c], store[i], "idle")
  BY <1>2, <1>3, PutHeld
<1> HIDE DEF a
<1>5. pc[c] \notin Finishing
  BY <1>1 DEF Finishing
<1> QED BY <1>1, <1>4, <1>5, NothingFacts, HandsStep

LEMMA HydrateErrStep ==
  ASSUME Parts, NEW c \in Clients, NEW id \in Ids, HydrateErr(c, id)
  PROVE  Parts'
<1>1. /\ pc[c] \in {"hydrate", "search"}
      /\ aggs' = [aggs EXCEPT ![c] = Nothing] /\ loading' = [loading EXCEPT ![c] = Nothing]
      /\ pc' = [pc EXCEPT ![c] = "idle"]
      /\ store' = store /\ snapshots' = snapshots /\ todo' = todo /\ emitted' = emitted
  BY DEF HydrateErr, Hydrating
<1>2. pc[c] \notin Finishing
  BY <1>1 DEF Finishing
<1> QED BY <1>1, <1>2, NothingFacts, HandsStep
-----------------------------------------------------------------------------
(***************************************************************************)
(* Commands, giving up, snapshots                                          *)
(***************************************************************************)

\* An idle client has other aggregates in its hands.
LEMMA IdleStep ==
  ASSUME Parts, NEW c \in Clients, NEW a, pc[c] = "idle", aggs' = [aggs EXCEPT ![c] = a],
         UNCHANGED <<store, snapshots, pc, loading, todo, emitted>>,
         IsFunction(a), DOMAIN a \subseteq Ids,
         \A i \in DOMAIN a : HeldOK(a[i], Schema[c], store[i], "idle")
  PROVE  Parts'
<1> USE PartsOf
<1> DEFINE l == loading[c]
<1>1. pc' = [pc EXCEPT ![c] = "idle"] /\ loading' = [loading EXCEPT ![c] = l]
  BY DEF Shape
<1>2. pc[c] \notin Finishing
  BY DEF Finishing
<1>3. IsFunction(l) /\ DOMAIN l = {}
  BY DEF ControlOK
<1> HIDE DEF l
<1> QED BY <1>1, <1>2, <1>3, HandsStep

LEMMA ExecuteStep ==
  ASSUME Parts, NEW c \in Clients, NEW id \in Ids, NEW name \in Names, Execute(c, id, name)
  PROVE  Parts'
<1> USE PartsOf
<1> DEFINE b == IF id \in DOMAIN aggs[c] THEN aggs[c][id] ELSE NewAggregate
           v == Command(b, name, Schema[c])
           a == Put(aggs[c], id, v)
<1>1. /\ pc[c] = "idle" /\ aggs' = [aggs EXCEPT ![c] = a]
      /\ UNCHANGED <<store, snapshots, pc, loading, todo, emitted>>
  BY DEF Execute
<1>2. "idle" \notin Finishing /\ store[id] \in Seq(Events) /\ Schema[c] \in Nat
  BY SchemaFacts DEF Finishing
<1>3. HeldOK(b, Schema[c], store[id], "idle")
  <2>1. CASE id \in DOMAIN aggs[c]
    BY <1>1, <2>1
  <2>2. CASE id \notin DOMAIN aggs[c]
    BY <1>2, <2>2, NewOK
  <2> QED BY <2>1, <2>2
<1> HIDE DEF b
<1>4. HeldOK(v, Schema[c], store[id], "idle")
  BY <1>2, <1>3, CommandOK
<1> HIDE DEF v
<1>5. /\ DOMAIN aggs[c] \subseteq Ids
      /\ \A i \in DOMAIN aggs[c] : HeldOK(aggs[c][i], Schema[c], store[i], "idle")
  BY <1>1 DEF ControlOK
<1>6. /\ IsFunction(a) /\ DOMAIN a \subseteq Ids
      /\ \A i \in DOMAIN a : HeldOK(a[i], Schema[c], store[i], "idle")
  BY <1>4, <1>5, PutHeld
<1> HIDE DEF a
<1> QED BY <1>1, <1>6, IdleStep

LEMMA GiveUpStep ==
  ASSUME Parts, NEW c \in Clients, CommitConflict(c) \/ Drop(c)
  PROVE  Parts'
<1>1. /\ pc[c] = "idle" /\ aggs' = [aggs EXCEPT ![c] = Nothing]
      /\ UNCHANGED <<store, snapshots, pc, loading, todo, emitted>>
  BY DEF CommitConflict, Committing, Drop
<1> QED BY <1>1, NothingFacts, IdleStep

\* The snapshot that is saved replaces a newer one, perhaps, and is sound.
LEMMA SavedOK ==
  ASSUME NEW snaps, NEW st, SnapsOK(snaps, st), NEW id \in Ids, NEW v, SnapOK(v, st[id])
  PROVE  SnapsOK(Put(snaps, id, v), st)
<1> DEFINE b == Put(snaps, id, v)
<1>1. /\ IsFunction(b) /\ \A i \in DOMAIN b : i = id \/ i \in DOMAIN snaps
      /\ b[id] = v /\ \A i \in DOMAIN snaps : i # id => b[i] = snaps[i]
  BY PutFacts
<1> HIDE DEF b
<1>2. SnapsOK(b, st)
  BY <1>1 DEF SnapsOK
<1> QED BY <1>2 DEF b

LEMMA MaybeSnapshotStep ==
  ASSUME Parts, NEW c \in Clients, NEW id \in Ids, MaybeSnapshot(c, id)
  PROVE  Parts'
<1> USE PartsOf
<1> DEFINE a == aggs[c][id]
           p == IF todo[c] = {id} THEN "emit" ELSE "snapshot"
           t == todo[c] \ {id}
           b == [a EXCEPT !.snapshot_version = a.entity.version]
           taken == a.entity.version >= a.snapshot_version + Frequency
<1>1. /\ pc[c] = "snapshot" /\ id \in todo[c]
      /\ pc' = [pc EXCEPT ![c] = p] /\ todo' = [todo EXCEPT ![c] = t]
      /\ store' = store /\ loading' = loading /\ emitted' = emitted
  BY DEF MaybeSnapshot
<1>2. IF taken THEN /\ snapshots' = Put(snapshots, id, CreateSnapshot(a, Schema[c]))
                    /\ aggs' = [aggs EXCEPT ![c] = [aggs[c] EXCEPT ![id] = b]]
               ELSE snapshots' = snapshots /\ aggs' = aggs
  BY DEF MaybeSnapshot
<1>3. /\ id \in DOMAIN aggs[c] /\ IsFunction(aggs[c]) /\ DOMAIN aggs[c] \subseteq Ids
      /\ c \in Snapshotters /\ DOMAIN loading[c] = {}
  BY <1>1 DEF ControlOK
<1>4. /\ \A i \in DOMAIN aggs[c] : HeldOK(aggs[c][i], Schema[c], store[i], "snapshot")
      /\ "snapshot" \in Finishing /\ store[id] \in Seq(Events)
  BY <1>1 DEF Finishing
<1>5. SnapsOK(snapshots', store)
  <2>1. CASE taken
    <3>1. SnapOK(CreateSnapshot(a, Schema[c]), store[id])
      <4>1. HeldOK(a, Schema[c], store[id], "snapshot")
        BY <1>3, <1>4
      <4> HIDE DEF a
      <4> QED BY <1>3, <1>4, <4>1, CreatedOK
    <3> QED BY <1>2, <2>1, <3>1, SavedOK
  <2>2. CASE ~ taken
    BY <1>2, <2>2
  <2> QED BY <2>1, <2>2
<1> DEFINE h == aggs'[c]
<1>6. /\ Shape' /\ IsFunction(h) /\ DOMAIN h = DOMAIN aggs[c]
      /\ \A i \in DOMAIN h : /\ HeldOK(h[i], Schema[c], store[i], "snapshot")
                             /\ h[i].queued = aggs[c][i].queued
      /\ \A d \in Clients \ {c} : aggs'[d] = aggs[d]
  <2>1. CASE taken
    <3>1. /\ h = [aggs[c] EXCEPT ![id] = b] /\ aggs' = [d \in Clients |-> aggs'[d]]
          /\ \A d \in Clients \ {c} : aggs'[d] = aggs[d]
      <4> HIDE DEF b
      <4> QED BY <1>2, <2>1 DEF Shape
    <3>2. HeldOK(b, Schema[c], store[id], "snapshot") /\ b.queued = a.queued
      <4>1. HeldOK(a, Schema[c], store[id], "snapshot")
        BY <1>3, <1>4
      <4> HIDE DEF a
      <4> QED BY <4>1, NotedOK
    <3>3. /\ DOMAIN h = DOMAIN aggs[c] /\ h[id] = b /\ IsFunction(h)
          /\ \A i \in DOMAIN aggs[c] : i # id => h[i] = aggs[c][i]
      <4> HIDE DEF b, h
      <4> QED BY <1>3, <3>1 DEF IsFunction
    <3>4. Shape'
      BY <1>1, <3>1 DEF Shape
    <3> HIDE DEF h, b
    <3> QED BY <1>3, <1>4, <3>1, <3>2, <3>3, <3>4
  <2>2. CASE ~ taken
    <3>1. aggs' = aggs
      BY <1>2, <2>2
    <3>2. Shape'
      BY <1>1, <3>1 DEF Shape
    <3> QED BY <1>3, <1>4, <3>1, <3>2
  <2> QED BY <2>1, <2>2
<1>7. pc'[c] = p /\ loading'[c] = loading[c] /\ todo'[c] = t
  BY <1>1 DEF Shape
<1>8. p \in {"snapshot", "emit"} /\ (p = "snapshot" <=> t # {})
  BY <1>1
<1> HIDE DEF h, p
<1>9. ControlOK(c, p, loading[c], h, t)
  BY <1>1, <1>3, <1>6, <1>8 DEF ControlOK, Places
<1>10. \A i \in DOMAIN h : HeldOK(h[i], Schema[c], store[i], p)
  BY <1>6, <1>8, HeldPlace DEF Finishing
<1>11. ClientOK(c, p, loading[c], h, t, store)
  BY <1>3, <1>9, <1>10 DEF ClientOK
<1>12. pc'[c] \in Finishing /\ pc[c] \in Finishing
  BY <1>1, <1>7, <1>8 DEF Finishing
<1>13. \A d \in Clients \ {c} : /\ pc'[d] = pc[d] /\ loading'[d] = loading[d]
                                /\ aggs'[d] = aggs[d] /\ todo'[d] = todo[d]
  BY <1>1, <1>6 DEF Shape
<1> QED BY <1>1, <1>5, <1>6, <1>7, <1>11, <1>12, <1>13, ClientStep DEF h

LEMMA DeleteSnapshotStep ==
  ASSUME Parts, NEW id \in Ids, DeleteSnapshot(id)
  PROVE  Parts'
<1>1. /\ snapshots' = Without(snapshots, id)
      /\ UNCHANGED <<store, pc, loading, aggs, todo, emitted>>
  BY DEF DeleteSnapshot
<1>2. SnapsOK(snapshots', store')
  <2> DEFINE b == Without(snapshots, id)
  <2>1. /\ IsFunction(b) /\ \A i \in DOMAIN b : i # id /\ i \in DOMAIN snapshots
        /\ \A i \in DOMAIN snapshots : i # id => b[i] = snapshots[i]
    BY WithoutFacts
  <2> HIDE DEF b
  <2>2. SnapsOK(b, store)
    BY <2>1 DEF SnapsOK, Parts
  <2> QED BY <1>1, <2>2 DEF b
<1>3. Shape' /\ StoreOK(store')
      /\ \A c \in Clients : ClientOK(c, pc'[c], loading'[c], aggs'[c], todo'[c], store')
  BY <1>1 DEF Parts, Shape
<1>4. EmitsAreCounted'
  BY <1>1, PendingSame DEF Parts
<1> QED BY <1>2, <1>3, <1>4 DEF Parts
-----------------------------------------------------------------------------
(***************************************************************************)
(* Commit and emission                                                     *)
(***************************************************************************)

\* Nothing that another client knows is undone by a commit.
LEMMA ClientGrown ==
  ASSUME NEW c, NEW p, NEW l, NEW a, NEW t, NEW st, NEW later,
         \A id \in Ids : Grown(st[id], later[id]), ClientOK(c, p, l, a, t, st)
  PROVE  ClientOK(c, p, l, a, t, later)
<1>1. DOMAIN l \subseteq Ids /\ DOMAIN a \subseteq Ids
  BY DEF ClientOK, ControlOK
<1>2. \A id \in DOMAIN l : ReadOK(l[id], later[id])
  BY <1>1, ReadGrown DEF ClientOK
<1>3. \A id \in DOMAIN a : HeldOK(a[id], Schema[c], later[id], p)
  BY <1>1, HeldGrown DEF ClientOK
<1> QED BY <1>2, <1>3 DEF ClientOK

\* The local events of one client.
Share(c, n) == {c} \X (1 .. n)

LEMMA ShareFacts ==
  ASSUME NEW c, NEW n \in Nat
  PROVE  IsFiniteSet(Share(c, n)) /\ Cardinality(Share(c, n)) = n
<1>1. IsFiniteSet({c}) /\ Cardinality({c}) = 1
  BY FS_Singleton
<1>2. IsFiniteSet(1 .. n) /\ Cardinality(1 .. n) = n
  BY FS_Interval
<1> DEFINE A == {c}
           B == 1 .. n
<1> HIDE DEF A, B
<1>3. IsFiniteSet(A \X B) /\ Cardinality(A \X B) = Cardinality(A) * Cardinality(B)
  <2>1. IsFiniteSet(A) /\ IsFiniteSet(B)
    BY <1>1, <1>2 DEF A, B
  <2> QED BY <2>1, FS_Product
<1>4. Cardinality(A) = 1 /\ Cardinality(B) = n /\ Share(c, n) = A \X B
  BY <1>1, <1>2 DEF A, B, Share
<1>5. Cardinality(A \X B) = n
  <2>1. Cardinality(A \X B) = 1 * n
    BY <1>3, <1>4, Zenon
  <2> QED BY <2>1
<1> QED BY <1>3, <1>4, <1>5

\* Adding the local events of a client that had none pending.
LEMMA ShareAdded ==
  ASSUME NEW S, IsFiniteSet(S), NEW c, NEW n \in Nat, \A x \in S : x[1] # c
  PROVE  /\ IsFiniteSet(S \cup Share(c, n))
         /\ Cardinality(S \cup Share(c, n)) = Cardinality(S) + n
<1>1. IsFiniteSet(Share(c, n)) /\ Cardinality(Share(c, n)) = n
  BY ShareFacts
<1>2. S \cap Share(c, n) = {}
  BY DEF Share
<1>3. Cardinality({}) = 0 /\ Cardinality(S) \in Nat
  BY FS_EmptySet, FS_CardinalityType
<1> DEFINE T == Share(c, n)
<1> HIDE DEF T
<1>4. /\ IsFiniteSet(S \cup T)
      /\ Cardinality(S \cup T) = Cardinality(S) + Cardinality(T) - Cardinality(S \cap T)
  <2>1. IsFiniteSet(T)
    BY <1>1 DEF T
  <2> QED BY <2>1, FS_Union
<1>5. S \cap T = {} /\ Cardinality(T) = n
  BY <1>1, <1>2 DEF T
<1>6. Cardinality(S \cup T) = Cardinality(S) + n
  <2>1. Cardinality(S \cap T) = 0
    BY <1>3, <1>5, Zenon
  <2>2. Cardinality(S \cup T) = Cardinality(S) + n - 0
    BY <1>4, <1>5, <2>1, Zenon
  <2>3. \A k, m \in Nat : k + m - 0 = k + m
    OBVIOUS
  <2> QED BY <1>3, <2>2, <2>3, Zenon
<1> QED BY <1>4, <1>6 DEF T

LEMMA PendingMembers ==
  ASSUME NEW id
  PROVE  \A x : x \in Pending(id) <=>
                  \E c \in Clients : /\ pc[c] \in Finishing /\ id \in DOMAIN aggs[c]
                                     /\ x \in Share(c, Len(aggs[c][id].queued))
  BY DEF Pending, Emitting, Share, Finishing

\* What a commit does to the aggregates in the client's hands and their streams.
LEMMA CommitFacts ==
  ASSUME Parts, NEW c \in Clients, Commit(c), NEW id \in DOMAIN aggs[c],
         NEW p \in Finishing
  PROVE  /\ id \in Ids /\ store'[id] = aggs[c][id].entity.events
         /\ store'[id] \in Seq(Events) /\ Sound(store'[id])
         /\ Grown(store[id], store'[id])
         /\ Len(aggs[c][id].queued) \in Nat
         /\ Len(store'[id]) = Len(store[id]) + Len(aggs[c][id].queued)
         /\ HeldOK(Marked(aggs[c][id]), Schema[c], store'[id], p)
         /\ Marked(aggs[c][id]).queued = aggs[c][id].queued
<1> DEFINE a == aggs[c][id]
<1>1. /\ id \in Ids /\ store[id] \in Seq(Events)
      /\ HeldOK(a, Schema[c], store[id], pc[c])
  BY PartsOf DEF ControlOK
<1>2. /\ pc[c] \notin Finishing /\ a.entity.committed_version = Len(store[id])
      /\ store'[id] = store[id] \o NewEvents(a.entity)
  BY <1>1 DEF Commit, Committing, Current, Finishing
<1> HIDE DEF a
<1>3. /\ store[id] \o NewEvents(a.entity) = a.entity.events
      /\ Grown(store[id], a.entity.events)
      /\ Len(a.entity.events) = Len(store[id]) + Len(a.queued)
      /\ HeldOK(Marked(a), Schema[c], a.entity.events, p)
      /\ Marked(a).queued = a.queued
  BY <1>1, <1>2, CommittedOK
<1>4. a.entity.events \in Seq(Events) /\ Sound(a.entity.events) /\ Len(a.queued) \in Nat
  BY <1>1, AggFields DEF HeldOK
<1>5. store'[id] = a.entity.events
  BY <1>2, <1>3
<1>6. /\ store'[id] \in Seq(Events) /\ Sound(store'[id]) /\ Grown(store[id], store'[id])
      /\ Len(store'[id]) = Len(store[id]) + Len(a.queued)
      /\ HeldOK(Marked(a), Schema[c], store'[id], p)
  BY <1>3, <1>4, <1>5
<1> QED BY <1>1, <1>3, <1>4, <1>5, <1>6 DEF a

\* What a commit assigns.
LEMMA CommitAssigns ==
  ASSUME NEW c \in Clients, Commit(c)
  PROVE  /\ pc[c] = "idle" /\ aggs[c] # Nothing
         /\ pc' = [pc EXCEPT ![c] = IF c \in Snapshotters THEN "snapshot" ELSE "emit"]
         /\ todo' = [todo EXCEPT ![c] = IF c \in Snapshotters THEN DOMAIN aggs[c] ELSE {}]
         /\ aggs' = [aggs EXCEPT ![c] = [id \in DOMAIN aggs[c] |-> Marked(aggs[c][id])]]
         /\ snapshots' = snapshots /\ loading' = loading /\ emitted' = emitted
         /\ store' = [id \in Ids |-> store'[id]]
         /\ \A id \in Ids : id \notin DOMAIN aggs[c] => store'[id] = store[id]
<1>1. /\ pc[c] = "idle" /\ aggs[c] # Nothing
      /\ pc' = [pc EXCEPT ![c] = IF c \in Snapshotters THEN "snapshot" ELSE "emit"]
      /\ todo' = [todo EXCEPT ![c] = IF c \in Snapshotters THEN DOMAIN aggs[c] ELSE {}]
      /\ snapshots' = snapshots /\ loading' = loading /\ emitted' = emitted
  BY DEF Commit, Committing
<1>2. aggs' = [aggs EXCEPT ![c] = [id \in DOMAIN aggs[c] |-> Marked(aggs[c][id])]]
  BY DEF Commit
<1>3. /\ store' = [id \in Ids |-> store'[id]]
      /\ \A id \in Ids : id \notin DOMAIN aggs[c] => store'[id] = store[id]
  BY DEF Commit
<1> QED BY <1>1, <1>2, <1>3

\* The local events of a commit become pending when its events are stored.
LEMMA CommitCounted ==
  ASSUME Parts, NEW c \in Clients, Commit(c)
  PROVE  EmitsAreCounted'
<1> DEFINE p == IF c \in Snapshotters THEN "snapshot" ELSE "emit"
           H == DOMAIN aggs[c]
<1>1. /\ pc[c] = "idle" /\ pc' = [pc EXCEPT ![c] = p] /\ emitted' = emitted
      /\ aggs' = [aggs EXCEPT ![c] = [id \in H |-> Marked(aggs[c][id])]]
      /\ \A id \in Ids : id \notin H => store'[id] = store[id]
  BY CommitAssigns
<1>2. p \in Finishing /\ pc[c] \notin Finishing
  BY <1>1 DEF Finishing
<1>3. /\ pc'[c] = p /\ aggs'[c] = [id \in H |-> Marked(aggs[c][id])]
      /\ \A d \in Clients : d # c => pc'[d] = pc[d] /\ aggs'[d] = aggs[d]
  <2> HIDE DEF p
  <2> QED BY <1>1, PartsOf DEF Shape
<1> HIDE DEF p
<1>4. /\ DOMAIN aggs'[c] = H
      /\ \A id \in H : Len(aggs'[c][id].queued) = Len(aggs[c][id].queued)
  <2>1. \A id \in H : aggs'[c][id] = Marked(aggs[c][id])
    BY <1>3
  <2>2. \A id \in H : Marked(aggs[c][id]).queued = aggs[c][id].queued
    BY <1>2, CommitFacts
  <2> QED BY <1>3, <2>1, <2>2
<1> SUFFICES ASSUME NEW id \in Ids
             PROVE  /\ IsFiniteSet(Pending(id)')
                    /\ emitted'[id] + Cardinality(Pending(id)') <= Len(store'[id])
  BY DEF EmitsAreCounted
<1> DEFINE S == Pending(id)
           S2 == Pending(id)'
           n == Len(aggs[c][id].queued)
<1>5. /\ IsFiniteSet(S) /\ emitted[id] + Cardinality(S) <= Len(store[id])
      /\ emitted[id] \in Nat /\ Len(store[id]) \in Nat
  BY PartsOf DEF Parts, EmitsAreCounted, Shape
<1>6. \A x : x \in S <=> \E d \in Clients : /\ pc[d] \in Finishing /\ id \in DOMAIN aggs[d]
                                            /\ x \in Share(d, Len(aggs[d][id].queued))
  BY PendingMembers
<1>7. \A x : x \in S2 <=> \E d \in Clients : /\ pc'[d] \in Finishing /\ id \in DOMAIN aggs'[d]
                                             /\ x \in Share(d, Len(aggs'[d][id].queued))
  BY DEF Pending, Emitting, Share, Finishing
<1> HIDE DEF S, S2
<1>8. CASE id \notin H
  <2>1. S2 = S
    BY <1>2, <1>3, <1>4, <1>6, <1>7, <1>8
  <2> QED BY <1>1, <1>5, <1>8, <2>1 DEF S, S2
<1>9. CASE id \in H
  <2>1. n \in Nat /\ Len(store'[id]) = Len(store[id]) + n
    BY <1>2, <1>9, CommitFacts
  <2>2. \A x \in S : x[1] # c
    BY <1>2, <1>6 DEF Share
  <2>3. S2 = S \cup Share(c, n)
    <3>1. Len(aggs'[c][id].queued) = n
      BY <1>4, <1>9
    <3> HIDE DEF n
    <3>2. ASSUME NEW x PROVE x \in S2 <=> x \in S \/ x \in Share(c, n)
      <4>1. ASSUME x \in S2 PROVE x \in S \/ x \in Share(c, n)
        BY <1>3, <1>6, <1>7, <3>1, <4>1
      <4>2. ASSUME x \in Share(c, n) PROVE x \in S2
        BY <1>2, <1>3, <1>4, <1>7, <1>9, <3>1, <4>2
      <4>3. ASSUME x \in S PROVE x \in S2
        BY <1>2, <1>3, <1>6, <1>7, <4>3
      <4> QED BY <4>1, <4>2, <4>3
    <3> QED BY <3>2
  <2> HIDE DEF n
  <2>4. IsFiniteSet(S2) /\ Cardinality(S2) = Cardinality(S) + n /\ Cardinality(S) \in Nat
    BY <1>5, <2>1, <2>2, <2>3, ShareAdded, FS_CardinalityType
  <2> QED BY <1>1, <1>5, <2>1, <2>4 DEF S, S2
<1> QED BY <1>8, <1>9

LEMMA CommitStep ==
  ASSUME Parts, NEW c \in Clients, Commit(c)
  PROVE  Parts'
<1> USE PartsOf
<1> DEFINE H == DOMAIN aggs[c]
           p == IF c \in Snapshotters THEN "snapshot" ELSE "emit"
           t == IF c \in Snapshotters THEN H ELSE {}
           h == [id \in H |-> Marked(aggs[c][id])]
<1>1. /\ pc[c] = "idle" /\ aggs[c] # Nothing
      /\ pc' = [pc EXCEPT ![c] = p] /\ todo' = [todo EXCEPT ![c] = t]
      /\ aggs' = [aggs EXCEPT ![c] = h]
      /\ snapshots' = snapshots /\ loading' = loading /\ emitted' = emitted
      /\ store' = [id \in Ids |-> store'[id]]
      /\ \A id \in Ids : id \notin H => store'[id] = store[id]
  BY CommitAssigns
<1>2. Shape'
  <2> HIDE DEF h, p, t
  <2> QED BY <1>1 DEF Shape
<1>3. p \in Finishing
  BY DEF Finishing
<1> HIDE DEF p
<1>4. /\ H \subseteq Ids /\ H # {} /\ DOMAIN loading[c] = {}
      /\ IsFunction(loading[c])
  BY <1>1, EmptyFunction DEF ControlOK
<1>5. \A id \in H : /\ store'[id] \in Seq(Events) /\ Sound(store'[id])
                    /\ Grown(store[id], store'[id])
                    /\ HeldOK(Marked(aggs[c][id]), Schema[c], store'[id], p)
  BY <1>3, CommitFacts
<1>6. StoreOK(store')
  BY <1>1, <1>5 DEF StoreOK
<1>7. \A id \in Ids : Grown(store[id], store'[id])
  <2>1. \A id \in Ids : Grown(store[id], store[id])
    BY DEF Grown
  <2> QED BY <1>1, <1>5, <2>1
<1>8. SnapsOK(snapshots', store')
  BY <1>1, <1>7, SnapGrown DEF SnapsOK
<1>9. /\ pc'[c] = p /\ loading'[c] = loading[c] /\ aggs'[c] = h /\ todo'[c] = t
      /\ \A d \in Clients \ {c} : /\ pc'[d] = pc[d] /\ loading'[d] = loading[d]
                                  /\ aggs'[d] = aggs[d] /\ todo'[d] = todo[d]
  <2> HIDE DEF h, t
  <2> QED BY <1>1 DEF Shape
<1>10. ControlOK(c, p, loading[c], h, t)
  BY <1>4 DEF ControlOK, Places, IsFunction, p
<1>11. ClientOK(c, p, loading[c], h, t, store')
  BY <1>4, <1>5, <1>10 DEF ClientOK
<1>12. ASSUME NEW d \in Clients
       PROVE  ClientOK(d, pc'[d], loading'[d], aggs'[d], todo'[d], store')
  <2>1. CASE d = c
    BY <1>9, <1>11, <2>1
  <2>2. CASE d # c
    <3>1. ClientOK(d, pc[d], loading[d], aggs[d], todo[d], store)
      BY DEF Parts
    <3>2. ClientOK(d, pc[d], loading[d], aggs[d], todo[d], store')
      BY <1>7, <3>1, ClientGrown
    <3> QED BY <1>9, <2>2, <3>2
  <2> QED BY <2>1, <2>2
<1>13. EmitsAreCounted'
  BY CommitCounted
<1> QED BY <1>2, <1>6, <1>8, <1>12, <1>13 DEF Parts

\* Local events that are emitted were pending, and are no more.
LEMMA EmitCounted ==
  ASSUME Parts, NEW c \in Clients, EmitQueued(c)
  PROVE  EmitsAreCounted' /\ emitted' \in [Ids -> Nat]
<1> DEFINE H == DOMAIN aggs[c]
<1>1. /\ pc[c] = "emit" /\ pc' = [pc EXCEPT ![c] = "idle"] /\ store' = store
      /\ aggs' = [aggs EXCEPT ![c] = [id \in H |-> Drained(aggs[c][id])]]
      /\ emitted' = [id \in Ids |-> IF id \in H THEN emitted[id] + Len(aggs[c][id].queued)
                                               ELSE emitted[id]]
  BY DEF EmitQueued
<1>2. /\ pc'[c] = "idle" /\ pc'[c] \notin Finishing /\ pc[c] \in Finishing
      /\ \A d \in Clients : d # c => pc'[d] = pc[d] /\ aggs'[d] = aggs[d]
  BY <1>1, PartsOf DEF Shape, Finishing
<1>3. \A id \in H : Len(aggs[c][id].queued) \in Nat
  BY PartsOf, AggFields DEF HeldOK
<1>4. emitted \in [Ids -> Nat]
  BY DEF Parts, Shape
<1>5. emitted' \in [Ids -> Nat]
  BY <1>1, <1>3, <1>4
<1>6. ASSUME NEW id \in Ids
      PROVE  /\ IsFiniteSet(Pending(id)')
             /\ emitted'[id] + Cardinality(Pending(id)') <= Len(store'[id])
  <2> DEFINE S == Pending(id)
             S2 == Pending(id)'
             n == Len(aggs[c][id].queued)
  <2>1. /\ IsFiniteSet(S) /\ emitted[id] + Cardinality(S) <= Len(store[id])
        /\ emitted[id] \in Nat /\ Len(store[id]) \in Nat
    BY PartsOf DEF Parts, EmitsAreCounted, Shape
  <2>2. \A x : x \in S <=> \E d \in Clients : /\ pc[d] \in Finishing /\ id \in DOMAIN aggs[d]
                                              /\ x \in Share(d, Len(aggs[d][id].queued))
    BY PendingMembers
  <2>3. \A x : x \in S2 <=> \E d \in Clients : /\ pc'[d] \in Finishing /\ id \in DOMAIN aggs'[d]
                                               /\ x \in Share(d, Len(aggs'[d][id].queued))
    BY DEF Pending, Emitting, Share, Finishing
  <2> HIDE DEF S, S2
  <2>4. CASE id \notin H
    <3>1. S2 = S
      BY <1>2, <2>2, <2>3, <2>4
    <3> QED BY <1>1, <2>1, <2>4, <3>1 DEF S, S2
  <2>5. CASE id \in H
    <3>1. n \in Nat /\ emitted'[id] = emitted[id] + n
      BY <1>1, <1>3, <2>5
    <3>2. \A x \in S2 : x[1] # c
      BY <1>2, <2>3 DEF Share
    <3> HIDE DEF n
    <3>3. S = S2 \cup Share(c, n)
      <4>1. ASSUME NEW x PROVE x \in S <=> x \in S2 \/ x \in Share(c, n)
        <5>1. ASSUME x \in S PROVE x \in S2 \/ x \in Share(c, n)
          BY <1>2, <2>2, <2>3, <5>1 DEF n
        <5>2. ASSUME x \in Share(c, n) PROVE x \in S
          BY <1>2, <2>2, <2>5, <5>2 DEF n
        <5>3. ASSUME x \in S2 PROVE x \in S
          BY <1>2, <2>2, <2>3, <5>3
        <5> QED BY <5>1, <5>2, <5>3
      <4> QED BY <4>1
    <3>4. IsFiniteSet(S2)
      <4>1. S2 \in SUBSET S
        BY <3>3
      <4> QED BY <2>1, <4>1, FS_Subset
    <3>5. Cardinality(S) = Cardinality(S2) + n /\ Cardinality(S2) \in Nat
      BY <3>1, <3>2, <3>3, <3>4, ShareAdded, FS_CardinalityType
    <3> QED BY <1>1, <2>1, <3>1, <3>4, <3>5 DEF S, S2
  <2> QED BY <2>4, <2>5
<1> QED BY <1>5, <1>6 DEF EmitsAreCounted

LEMMA EmitQueuedStep ==
  ASSUME Parts, NEW c \in Clients, EmitQueued(c)
  PROVE  Parts'
<1> USE PartsOf
<1> DEFINE H == DOMAIN aggs[c]
           h == [id \in H |-> Drained(aggs[c][id])]
<1>1. /\ pc[c] = "emit" /\ pc' = [pc EXCEPT ![c] = "idle"]
      /\ aggs' = [aggs EXCEPT ![c] = h]
      /\ store' = store /\ snapshots' = snapshots /\ loading' = loading /\ todo' = todo
  BY DEF EmitQueued
<1>2. EmitsAreCounted' /\ emitted' \in [Ids -> Nat]
  BY EmitCounted
<1>3. Shape'
  <2> HIDE DEF h
  <2> QED BY <1>1, <1>2 DEF Shape
<1>4. /\ pc'[c] = "idle" /\ loading'[c] = loading[c] /\ aggs'[c] = h /\ todo'[c] = todo[c]
      /\ \A d \in Clients \ {c} : /\ pc'[d] = pc[d] /\ loading'[d] = loading[d]
                                  /\ aggs'[d] = aggs[d] /\ todo'[d] = todo[d]
  <2> HIDE DEF h
  <2> QED BY <1>1 DEF Shape
<1>5. ControlOK(c, "idle", loading[c], h, todo[c])
  BY <1>1 DEF ControlOK, Places, IsFunction
<1>6. \A id \in H : HeldOK(Drained(aggs[c][id]), Schema[c], store[id], "idle")
  <2>1. "emit" \in Finishing
    BY DEF Finishing
  <2> QED BY <1>1, <2>1, DrainedOK
<1>7. ClientOK(c, "idle", loading[c], h, todo[c], store)
  BY <1>5, <1>6 DEF ClientOK
<1>8. ASSUME NEW d \in Clients
      PROVE  ClientOK(d, pc'[d], loading'[d], aggs'[d], todo'[d], store')
  <2>1. CASE d = c
    BY <1>1, <1>4, <1>7, <2>1
  <2>2. CASE d # c
    <3>1. ClientOK(d, pc[d], loading[d], aggs[d], todo[d], store)
      BY DEF Parts
    <3> QED BY <1>1, <1>4, <2>2, <3>1
  <2> QED BY <2>1, <2>2
<1>9. StoreOK(store') /\ SnapsOK(snapshots', store')
  BY <1>1 DEF Parts
<1> QED BY <1>2, <1>3, <1>8, <1>9 DEF Parts
-----------------------------------------------------------------------------
(***************************************************************************)
(* Theorems                                                                *)
(***************************************************************************)

LEMMA NextParts == Parts /\ [Next]_vars => Parts'
<1> SUFFICES ASSUME Parts, [Next]_vars PROVE Parts'
  OBVIOUS
<1>1. ASSUME NEW c \in Clients, GetAll(c) PROVE Parts'
  BY <1>1, GetAllStep
<1>2. ASSUME NEW c \in Clients, Find(c) PROVE Parts'
  <2>1. Existing(c) \in SUBSET IdsOf(c) /\ Existing(c) # {} /\ Reading(c, Existing(c), "search")
    BY <1>2 DEF Find, Existing
  <2> QED BY <2>1, ReadingStep
<1>3. ASSUME NEW c \in Clients, NEW id \in Ids, Get(c, id) PROVE Parts'
  <2>1. {id} \in SUBSET IdsOf(c) /\ {id} # {} /\ Reading(c, {id}, "hydrate")
    BY <1>3 DEF Get, Existing
  <2> QED BY <2>1, ReadingStep
<1>4. ASSUME NEW c \in Clients, NEW id \in Ids, GetOne(c, id) PROVE Parts'
  BY <1>4, GetOneStep
<1>5. ASSUME NEW c \in Clients, NEW id \in Ids, HydrateNext(c, id) PROVE Parts'
  BY <1>5, HydrateNextStep
<1>6. ASSUME NEW c \in Clients, NEW id \in Ids, Rejected(c, id) PROVE Parts'
  BY <1>6, RejectedStep
<1>7. ASSUME NEW c \in Clients, NEW id \in Ids, FoundOne(c, id) PROVE Parts'
  BY <1>7, FoundOneStep
<1>8. ASSUME NEW c \in Clients, NEW id \in Ids, HydrateErr(c, id) PROVE Parts'
  BY <1>8, HydrateErrStep
<1>9. ASSUME NEW c \in Clients, NEW id \in Ids, MaybeSnapshot(c, id) PROVE Parts'
  BY <1>9, MaybeSnapshotStep
<1>10. ASSUME NEW c \in Clients, NEW id \in Ids, NEW name \in Names, Execute(c, id, name)
       PROVE  Parts'
  BY <1>10, ExecuteStep
<1>11. ASSUME NEW c \in Clients, Commit(c) PROVE Parts'
  BY <1>11, CommitStep
<1>12. ASSUME NEW c \in Clients, CommitConflict(c) \/ Drop(c) PROVE Parts'
  BY <1>12, GiveUpStep
<1>13. ASSUME NEW c \in Clients, EmitQueued(c) PROVE Parts'
  BY <1>13, EmitQueuedStep
<1>14. ASSUME NEW id \in Ids, DeleteSnapshot(id) PROVE Parts'
  BY <1>14, DeleteSnapshotStep
<1>15. ASSUME UNCHANGED vars PROVE Parts'
  <2>1. /\ store' = store /\ snapshots' = snapshots /\ pc' = pc /\ loading' = loading
        /\ aggs' = aggs /\ todo' = todo /\ emitted' = emitted
    BY <1>15 DEF vars
  <2>2. EmitsAreCounted'
    BY <2>1, PendingSame DEF Parts
  <2> QED BY <2>1, <2>2 DEF Parts, Shape
<1> QED BY <1>1, <1>2, <1>3, <1>4, <1>5, <1>6, <1>7, <1>8, <1>9, <1>10, <1>11, <1>12,
           <1>13, <1>14, <1>15 DEF Next

\* The inductive invariant of loading, commands, commits, snapshots and emission.
THEOREM HistoryInvariant == Spec => []HistoryInv
<1>1. Spec => []Parts
  BY InitParts, NextParts, PTL DEF Spec
<1> QED BY <1>1, PartsImplyInv, PTL

\* Every variable keeps its type, no entity is left replaying, and every loop of
\* a load or of a commit has ids to visit.
THEOREM TypeCorrect == Spec => []TypeOK
<1>1. HistoryInv => TypeOK
  BY DEF HistoryInv
<1> QED BY <1>1, HistoryInvariant, PTL

\* However an aggregate was hydrated, from all its events or from a snapshot that
\* was saved, replaced or deleted while it was being loaded, its state is what
\* its events mean.
THEOREM AggregatesAreHistory == Spec => []StateIsHistory
<1>1. HistoryInv => StateIsHistory
  BY DEF HistoryInv
<1> QED BY <1>1, HistoryInvariant, PTL

\* maybe_snapshot saves nothing that is not in the stream, however late it is.
THEOREM SnapshotsAreHistory == Spec => []SnapshotIsHistory
<1>1. HistoryInv => SnapshotIsHistory
  BY DEF HistoryInv
<1> QED BY <1>1, HistoryInvariant, PTL

\* A guard that every writer evaluates on its own copy holds in the stream.
THEOREM GuardsHold == Spec => []GuardHoldsInHistory
<1>1. HistoryInv => GuardHoldsInHistory
  <2> SUFFICES ASSUME HistoryInv, NEW id \in Ids
               PROVE  Cardinality({i \in 1 .. Len(store[id]) :
                                     store[id][i].tag.name = "Completed"}) <= 1
    BY DEF GuardHoldsInHistory
  <2> DEFINE S == {i \in 1 .. Len(store[id]) : store[id][i].tag.name = "Completed"}
  <2>1. \A i, j \in S : i = j
    BY DEF HistoryInv, StreamsAreSound, Sound, CompletedOnce
  <2> HIDE DEF S
  <2>2. S = {} \/ \E x : S = {x}
    BY <2>1
  <2>3. CASE S = {}
    <3>1. Cardinality(S) = 0
      BY <2>3, FS_EmptySet
    <3> QED BY <3>1 DEF S
  <2>4. CASE \E x : S = {x}
    <3>1. PICK x : S = {x}
      BY <2>4
    <3>2. Cardinality(S) = 1
      BY <3>1, FS_Singleton
    <3> QED BY <3>2 DEF S
  <2> QED BY <2>2, <2>3, <2>4
<1> QED BY <1>1, HistoryInvariant, PTL

\* emit_queued after commit: at most one local event for each stored event.
THEOREM OnlyCommittedIsEmitted == Spec => []EmittedIsCommitted
<1>1. HistoryInv => EmittedIsCommitted
  <2> SUFFICES ASSUME HistoryInv, NEW id \in Ids PROVE emitted[id] <= Len(store[id])
    BY DEF EmittedIsCommitted
  <2>1. /\ IsFiniteSet(Pending(id))
        /\ emitted[id] + Cardinality(Pending(id)) <= Len(store[id])
        /\ emitted[id] \in Nat /\ Len(store[id]) \in Nat
    BY DEF HistoryInv, EmitsAreCounted, TypeOK
  <2>2. Cardinality(Pending(id)) \in Nat
    BY <2>1, FS_CardinalityType
  <2> QED BY <2>1, <2>2
<1> QED BY <1>1, HistoryInvariant, PTL

\* What was recorded by a schema that is not newer decodes.
LEMMA OlderDecodes ==
  ASSUME UpcastersReach, NEW c \in Clients, \A d \in Clients : Schema[d] <= Schema[c],
         NEW tag \in Tags, NEW d \in Clients, RecordedBy(tag, Schema[d])
  PROVE  Decodes(UpcastOne(tag, Upcasters[Schema[c]]), Schema[c])
<1> DEFINE s == Schema[c]
           us == Upcasters[s]
           r == Schema[d]
<1>1. s \in Nat \ {0} /\ r \in Nat \ {0} /\ Upward(us)
  BY SchemaFacts
<1>2. r \in 1 .. s
  BY <1>1
<1>3. /\ \A v \in 1 .. s - 1 : \E i \in 1 .. Len(us) :
           us[i].event_type = "Initialized" /\ us[i].from_version = v
      /\ \A i \in 1 .. Len(us) : us[i].event_type # "Completed" /\ us[i].to_version <= s
  BY DEF UpcastersReach
<1>4. tag.version = VersionOf(tag.name, r) /\ Len(tag.fields) = Width(tag.name, r)
  BY DEF RecordedBy
<1> HIDE DEF s, us, r
<1>5. \E k \in 1 .. s : /\ tag.version = VersionOf(tag.name, k)
                        /\ Len(tag.fields) = Width(tag.name, k)
  BY <1>2, <1>4
<1>6. Decodes(UpcastOne(tag, us), s)
  BY ONLY <1>1, <1>3, <1>5, tag \in Tags, UpcastingReaches
<1> QED BY <1>6 DEF s, us

\* With upcasters that lead from every earlier version to its own, a client of
\* the newest schema never fails to hydrate what it has read.
THEOREM NewestSchemaLoads ==
  ASSUME UpcastersReach
  PROVE  Spec => []NewestCanLoad
<1>1. HistoryInv => NewestCanLoad
  <2> SUFFICES ASSUME HistoryInv, NEW c \in Clients,
                      \A d \in Clients : Schema[d] <= Schema[c],
                      \A d \in Snapshotters : Schema[d] = Schema[c],
                      NEW id \in DOMAIN loading[c]
               PROVE  Hydrates(c, id)
    BY DEF NewestCanLoad
  <2> DEFINE s == Schema[c]
             us == Upcasters[s]
             e == loading[c][id]
             es == e.events
             m == Len(es)
             snap == snapshots[id]
             T(ev) == Decodes(UpcastOne(ev.tag, us), s)
  <2>1. /\ id \in Ids /\ e \in EntityRecord(Tags) /\ e.version = m
        /\ AgreeUpTo(es, store[id], m) /\ Sound(store[id]) /\ store[id] \in Seq(Events)
    BY DEF HistoryInv, TypeOK, LoadedIsPrefix, StreamsAreSound, Events
  <2>2. es \in Seq(Events) /\ m \in Nat
    BY <2>1 DEF EntityRecord, Events
  <2>3. Sound(es)
    BY <2>1, <2>2, SoundPrefix
  <2>4. \A i \in 1 .. m : T(es[i])
    <3> SUFFICES ASSUME NEW i \in 1 .. m PROVE T(es[i])
      OBVIOUS
    <3>1. PICK d \in Clients : RecordedBy(es[i].tag, Schema[d])
      BY <2>3 DEF Sound
    <3>2. es[i].tag \in Tags
      <4>1. es[i] \in Events
        BY <2>2
      <4> QED BY <4>1 DEF Events, EventRecord
    <3> QED BY <3>1, <3>2, OlderDecodes
  <2>5. CASE ~ UsesSnapshot(c, id)
    BY <2>4, <2>5 DEF Hydrates, Replays
  <2>6. CASE UsesSnapshot(c, id)
    <3>1. id \in DOMAIN snapshots /\ snap.version <= m
      BY <2>1, <2>6 DEF UsesSnapshot
    <3>2. snap.schema = s
      BY <3>1 DEF HistoryInv, SnapshotsAreTyped
    <3>3. snap.version \in 0 .. m
      <4>1. snap.version \in Nat
        BY <3>1 DEF HistoryInv, TypeOK
      <4> QED BY <2>2, <3>1, <4>1
    <3>4. \A i \in 1 .. m : es[i].sequence = i
      BY <2>3 DEF Sound
    <3> DEFINE v == snap.version
               k == m - v
               later == AfterSnapshot(e, snap)
    <3>5. later = From(es, v, k)
      <4> HIDE DEF e, snap
      <4> QED BY <2>2, <3>3, <3>4, AfterSnapshotFacts
    <3>6. k \in Nat /\ v \in Nat /\ v + k = m
      BY <2>2, <3>3
    <3> HIDE DEF later, k, v, m, es, T
    <3>7. Len(From(es, v, k)) = k
      BY <3>6, FromGrows
    <3>8. ASSUME NEW i \in 1 .. k PROVE T(From(es, v, k)[i])
      <4>1. From(es, v, k)[i] = es[v + i] /\ v + i \in 1 .. m
        BY <2>2, <3>6 DEF From
      <4> QED BY <2>4, <4>1
    <3>9. \A i \in 1 .. Len(later) : T(later[i])
      BY <3>5, <3>7, <3>8
    <3>10. Replays(later, us, s)
      BY <3>9 DEF Replays, T
    <3> QED BY <2>6, <3>2, <3>10 DEF Hydrates, later
  <2> QED BY <2>5, <2>6
<1> QED BY <1>1, HistoryInvariant, PTL
=============================================================================
