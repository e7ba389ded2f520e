-------------------------- MODULE EventStoreProofs --------------------------
(***************************************************************************)
(* Proofs about EventStore, for any ids, objects and batches.              *)
(***************************************************************************)
EXTENDS EventStore, TLAPS, SequenceTheorems

-----------------------------------------------------------------------------
(***************************************************************************)
(* The operations on an entity preserve its type.                          *)
(***************************************************************************)

\* Entity::digest returns an entity whatever the entity was.
LEMMA DigestType ==
  ASSUME NEW T, NEW t \in T, NEW e \in EntityRecord(T)
  PROVE  Digest(e, t) \in EntityRecord(T)
<1>1. e.events \in Seq(EventRecord(T)) /\ Len(e.events) \in Nat
  BY DEF EntityRecord
<1>2. [sequence |-> Len(e.events) + 1, tag |-> t] \in EventRecord(T)
  BY <1>1 DEF EventRecord
<1>3. Append(e.events, [sequence |-> Len(e.events) + 1, tag |-> t])
         \in Seq(EventRecord(T))
  BY <1>1, <1>2
<1> QED
  BY <1>1, <1>3 DEF EntityRecord, Digest

\* Loading a stream into a fresh entity yields an entity.
LEMMA LoadType ==
  ASSUME NEW T, NEW s \in Seq(EventRecord(T))
  PROVE  LoadFromHistory(NewEntity, s) \in EntityRecord(T)
BY DEF EntityRecord, LoadFromHistory, NewEntity

\* Entity::mark_committed returns an entity.
LEMMA MarkType ==
  ASSUME NEW T, NEW e \in EntityRecord(T)
  PROVE  MarkCommitted(e) \in EntityRecord(T)
BY DEF EntityRecord, MarkCommitted

\* Entity::new_events is a stream.
LEMMA NewEventsType ==
  ASSUME NEW T, NEW e \in EntityRecord(T)
  PROVE  NewEvents(e) \in Seq(EventRecord(T))
<1>1. /\ e.events \in Seq(EventRecord(T))
      /\ e.committed_version \in Nat
      /\ Len(e.events) \in Nat
  BY DEF EntityRecord
<1>2. CASE e.committed_version + 1 <= Len(e.events)
  BY <1>1, <1>2, SubSeqProperties DEF NewEvents
<1>3. CASE ~ (e.committed_version + 1 <= Len(e.events))
  <2>1. NewEvents(e) = << >>
    BY <1>1, <1>3, SubSeqEmpty DEF NewEvents
  <2> QED
    BY <2>1
<1> QED
  BY <1>2, <1>3

\* The type invariant is preserved by every step of the store.
LEMMA TypeStep == TypeOK /\ [Next]_vars => TypeOK'
<1> SUFFICES ASSUME TypeOK, [Next]_vars PROVE TypeOK'
  OBVIOUS
<1> USE StoreAssumption
<1>1. ASSUME NEW o \in Objects, New(o) PROVE TypeOK'
  <2>1. NewEntity \in EntityRecord(Objects)
    BY DEF EntityRecord, NewEntity
  <2> QED
    BY <1>1, <2>1 DEF New, TypeOK
<1>2. ASSUME NEW o \in Objects, Record(o) PROVE TypeOK'
  <2>1. Digest(entity[o], o) \in EntityRecord(Objects)
    BY DigestType DEF TypeOK
  <2> QED
    BY <1>2, <2>1 DEF Record, TypeOK
<1>3. ASSUME NEW o \in Objects, GetOne(o) PROVE TypeOK'
  <2>1. LoadFromHistory(NewEntity, event_store[IdOf[o]]) \in EntityRecord(Objects)
    BY LoadType DEF TypeOK
  <2> QED
    BY <1>3, <2>1 DEF GetOne, TypeOK
<1>4. ASSUME NEW S \in SUBSET Objects, Find(S) PROVE TypeOK'
  <2>1. \A o \in Objects :
          LoadFromHistory(NewEntity, event_store[IdOf[o]]) \in EntityRecord(Objects)
    BY LoadType DEF TypeOK
  <2> QED
    BY <1>4, <2>1 DEF Find, TypeOK
<1>5. ASSUME NEW b \in Batches, CommitBegin(b) PROVE TypeOK'
  BY <1>5 DEF CommitBegin, TypeOK
<1>6. ASSUME NEW b \in Batches, CommitConflict(b) PROVE TypeOK'
  BY <1>6 DEF CommitConflict, TypeOK, Results
<1>7. ASSUME CommitAppend PROVE TypeOK'
  <2> DEFINE o == batch[next]
  <2>1. batch \in Batches /\ next \in 1 .. Len(batch) /\ o \in Objects
    BY <1>7 DEF CommitAppend, GuardFree, TypeOK
  <2>2. IdOf[o] \in Ids
    BY <2>1
  <2>3. NewEvents(entity[o]) \in Seq(EventRecord(Objects))
    BY <2>1, NewEventsType DEF TypeOK
  <2>4. MarkCommitted(entity[o]) \in EntityRecord(Objects)
    BY <2>1, MarkType DEF TypeOK
  <2>5. event_store[IdOf[o]] \o NewEvents(entity[o]) \in Seq(EventRecord(Objects))
    BY <2>2, <2>3, ConcatProperties DEF TypeOK
  <2>6. event_store' \in [Ids -> Seq(EventRecord(Objects))]
    BY <1>7, <2>2, <2>5 DEF CommitAppend, TypeOK
  <2>7. entity' \in [Objects -> EntityRecord(Objects)]
    BY <1>7, <2>1, <2>4 DEF CommitAppend, TypeOK
  <2>8. entries' \in SUBSET Ids
    BY <1>7, <2>2 DEF CommitAppend, TypeOK
  <2>9. /\ batch' \in Batches \cup {<< >>}
        /\ next' \in Nat \ {0}
        /\ next' = 1 \/ next' <= Len(batch')
        /\ result' \in Results
    BY <1>7, <2>1 DEF CommitAppend, TypeOK, Results
  <2> QED
    BY <2>6, <2>7, <2>8, <2>9 DEF TypeOK
<1>8. CASE UNCHANGED vars
  BY <1>8 DEF vars, TypeOK
<1> QED
  BY <1>1, <1>2, <1>3, <1>4, <1>5, <1>6, <1>7, <1>8 DEF Next

\* Type correctness of the event store and of every in-memory entity.
THEOREM TypeCorrect == Spec => []TypeOK
<1>1. Init => TypeOK
  BY DEF Init, TypeOK, EntityRecord, NewEntity, Results
<1> QED
  BY <1>1, TypeStep, PTL DEF Spec
-----------------------------------------------------------------------------
(***************************************************************************)
(* Lemmas about streams                                                    *)
(***************************************************************************)

\* Appending to s what t has beyond s gives t, when t continues s.
LEMMA AppendTail ==
  ASSUME NEW T, NEW s \in Seq(T), NEW t \in Seq(T),
         Len(s) <= Len(t), \A i \in 1 .. Len(s) : t[i] = s[i]
  PROVE  s \o SubSeq(t, Len(s) + 1, Len(t)) = t
<1> DEFINE u == SubSeq(t, Len(s) + 1, Len(t))
<1>1. Len(s) \in Nat /\ Len(t) \in Nat
  OBVIOUS
<1>2. CASE Len(s) = Len(t)
  <2>1. u = << >>
    BY <1>1, <1>2, SubSeqEmpty
  <2>2. s \o u = s
    BY <2>1, ConcatEmptySeq
  <2>3. s = t
    BY <1>1, <1>2, SeqEqual
  <2> QED
    BY <2>2, <2>3
<1>3. CASE Len(s) # Len(t)
  <2>1. /\ u \in Seq(T)
        /\ Len(u) = Len(t) - Len(s)
        /\ \A i \in 1 .. Len(t) - Len(s) : u[i] = t[Len(s) + i]
    <3>1. /\ Len(s) + 1 \in 1 .. Len(t) + 1
          /\ Len(t) \in Len(s) .. Len(t)
          /\ Len(s) + 1 <= Len(t)
      BY <1>1, <1>3
    <3>2. /\ SubSeq(t, Len(s) + 1, Len(t)) \in Seq(T)
          /\ Len(SubSeq(t, Len(s) + 1, Len(t))) = Len(t) - (Len(s) + 1) + 1
          /\ \A i \in 1 .. Len(t) - (Len(s) + 1) + 1 :
               SubSeq(t, Len(s) + 1, Len(t))[i] = t[Len(s) + 1 + i - 1]
      BY <3>1, <1>1, SubSeqProperties
    <3> QED
      BY <3>2, <1>1
  <2>2. /\ s \o u \in Seq(T)
        /\ Len(s \o u) = Len(t)
        /\ \A i \in 1 .. Len(s \o u) :
             (s \o u)[i] = IF i <= Len(s) THEN s[i] ELSE u[i - Len(s)]
    BY <1>1, <2>1, ConcatProperties
  <2>3. \A i \in 1 .. Len(t) : (s \o u)[i] = t[i]
    <3> SUFFICES ASSUME NEW i \in 1 .. Len(t) PROVE (s \o u)[i] = t[i]
      OBVIOUS
    <3>1. CASE i <= Len(s)
      BY <3>1, <1>1, <2>2
    <3>2. CASE ~ (i <= Len(s))
      <4>1. i - Len(s) \in 1 .. Len(t) - Len(s)
        BY <3>2, <1>1
      <4> QED
        BY <3>2, <4>1, <1>1, <2>1, <2>2
    <3> QED
      BY <3>1, <3>2
  <2>4. QED
    BY <2>2, <2>3, <1>1, SeqEqual
<1> QED
  BY <1>2, <1>3

\* The front of a stream, taken whole, is the stream.
LEMMA WholeFront ==
  ASSUME NEW T, NEW s \in Seq(T)
  PROVE  SubSeq(s, 1, Len(s)) = s
OBVIOUS

\* Two streams that agree on their first n events have the same front.
LEMMA SameFront ==
  ASSUME NEW T, NEW s \in Seq(T), NEW t \in Seq(T), NEW n \in Nat,
         n <= Len(s), n <= Len(t), \A i \in 1 .. n : s[i] = t[i]
  PROVE  SubSeq(s, 1, n) = SubSeq(t, 1, n)
OBVIOUS
-----------------------------------------------------------------------------
(***************************************************************************)
(* The inductive invariant                                                 *)
(***************************************************************************)

\* A turn of phase 2 finds a valid object, and what it appends brings the
\* stream of that object's id to exactly the object's events.
LEMMA AppendEffect ==
  ASSUME IInv, CommitAppend
  PROVE  /\ batch \in Batches /\ next \in 1 .. Len(batch)
         /\ batch[next] \in Objects /\ IdOf[batch[next]] \in Ids
         /\ entity[batch[next]].committed_version
              = Len(event_store[IdOf[batch[next]]])
         /\ event_store' = [event_store EXCEPT ![IdOf[batch[next]]]
                                = entity[batch[next]].events]
         /\ entity' = [entity EXCEPT ![batch[next]] = MarkCommitted(@)]
<1> USE StoreAssumption
<1> DEFINE o == batch[next]
           e == entity[o]
           s == event_store[IdOf[o]]
<1>1. batch \in Batches /\ next \in 1 .. Len(batch) /\ o \in Objects
  BY DEF CommitAppend, GuardFree, IInv, TypeOK
<1>2. IdOf[o] \in Ids
  BY <1>1
<1>3. e.committed_version = Len(s)
  BY <1>1 DEF IInv, PendingIsCurrent, Pending
<1>4. /\ s \in Seq(EventRecord(Objects))
      /\ e.events \in Seq(EventRecord(Objects))
  BY <1>1, <1>2 DEF IInv, TypeOK, EntityRecord
<1>5. Len(s) <= Len(e.events)
  BY <1>1, <1>3 DEF IInv, EntityOK
<1>6. \A i \in 1 .. Len(s) : e.events[i] = s[i]
  BY <1>1, <1>3 DEF IInv, CommittedIsPersisted
<1>7. s \o NewEvents(e) = e.events
  <2> HIDE DEF s, e
  <2>1. s \o SubSeq(e.events, Len(s) + 1, Len(e.events)) = e.events
    BY <1>4, <1>5, <1>6, AppendTail
  <2> QED
    BY <1>3, <2>1 DEF NewEvents
<1>8. event_store' = [event_store EXCEPT ![IdOf[o]] = e.events]
  BY <1>7 DEF CommitAppend
<1>9. entity' = [entity EXCEPT ![o] = MarkCommitted(@)]
  BY DEF CommitAppend
<1> HIDE DEF o, e, s
<1> QED
  BY <1>1, <1>2, <1>3, <1>8, <1>9 DEF o, e, s

\* The invariant survives a step of a caller on its own entities: recording,
\* starting anew or reading.
LEMMA CallerStep ==
  ASSUME IInv,
         \/ \E o \in Objects : New(o) \/ Record(o) \/ GetOne(o)
         \/ \E S \in SUBSET Objects : Find(S)
  PROVE  EntityOK' /\ PendingIsCurrent' /\ CommittedIsPersisted'
         /\ SequenceIsPosition'
<1> USE StoreAssumption
<1>1. UNCHANGED <<event_store, batch, next>> /\ Pending' = Pending
  BY DEF New, Record, GetOne, Find, Pending
<1>2. Pending \subseteq Borrowed
  BY DEF Pending, Borrowed, IInv, TypeOK
<1>3. SequenceIsPosition'
  BY <1>1 DEF SequenceIsPosition, IInv
<1>4. ASSUME NEW p \in Objects
      PROVE  \/ entity'[p] = entity[p]
             \/ p \notin Borrowed /\ entity'[p] = NewEntity
             \/ p \notin Borrowed /\ entity'[p] = Digest(entity[p], p)
             \/ GuardFree /\ entity'[p] = LoadFromHistory(NewEntity, event_store[IdOf[p]])
  BY DEF New, Record, GetOne, Find, IInv, TypeOK
<1>5. ASSUME NEW p \in Objects
      PROVE  /\ ~ entity'[p].replaying
             /\ entity'[p].version = Len(entity'[p].events)
             /\ entity'[p].committed_version <= Len(entity'[p].events)
             /\ \A i \in entity'[p].committed_version + 1 .. Len(entity'[p].events) :
                  entity'[p].events[i] = [sequence |-> i, tag |-> p]
             /\ entity'[p].committed_version <= Len(event_store[IdOf[p]])
             /\ \A i \in 1 .. entity'[p].committed_version :
                  entity'[p].events[i] = event_store[IdOf[p]][i]
             /\ p \in Pending => entity'[p] = entity[p]
  <2> DEFINE e == entity[p]
  <2>1. /\ event_store[IdOf[p]] \in Seq(EventRecord(Objects))
        /\ e.events \in Seq(EventRecord(Objects))
        /\ e.committed_version \in Nat
        /\ Len(event_store[IdOf[p]]) \in Nat
    BY DEF IInv, TypeOK, EntityRecord
  <2>2. /\ ~ e.replaying
        /\ e.version = Len(e.events)
        /\ e.committed_version <= Len(e.events)
        /\ \A i \in e.committed_version + 1 .. Len(e.events) :
             e.events[i] = [sequence |-> i, tag |-> p]
    BY DEF IInv, EntityOK
  <2>3. /\ e.committed_version <= Len(event_store[IdOf[p]])
        /\ \A i \in 1 .. e.committed_version : e.events[i] = event_store[IdOf[p]][i]
    BY DEF IInv, CommittedIsPersisted
  <2>4. CASE entity'[p] = e
    BY <2>2, <2>3, <2>4
  <2>5. CASE p \notin Borrowed /\ entity'[p] = NewEntity
    BY <2>1, <2>5, <1>2 DEF NewEntity
  <2>6. CASE p \notin Borrowed /\ entity'[p] = Digest(e, p)
    <3> DEFINE f == Append(e.events, [sequence |-> Len(e.events) + 1, tag |-> p])
    <3>1. /\ entity'[p].events = f
          /\ entity'[p].version = Len(e.events) + 1
          /\ entity'[p].committed_version = e.committed_version
          /\ ~ entity'[p].replaying
      BY <2>2, <2>6 DEF Digest
    <3>2. /\ Len(f) = Len(e.events) + 1
          /\ \A i \in 1 .. Len(e.events) : f[i] = e.events[i]
          /\ f[Len(e.events) + 1] = [sequence |-> Len(e.events) + 1, tag |-> p]
      BY <2>1
    <3>3. \A i \in e.committed_version + 1 .. Len(f) :
            f[i] = [sequence |-> i, tag |-> p]
      <4> HIDE DEF f, e
      <4> TAKE i \in e.committed_version + 1 .. Len(f)
      <4>1. CASE i = Len(e.events) + 1
        BY <3>2, <4>1
      <4>2. CASE i # Len(e.events) + 1
        <5>1. /\ i \in e.committed_version + 1 .. Len(e.events)
              /\ i \in 1 .. Len(e.events)
          BY <2>1, <3>2, <4>2
        <5> QED
          BY <2>2, <3>2, <5>1
      <4> QED
        BY <4>1, <4>2
    <3>4. \A i \in 1 .. e.committed_version : f[i] = event_store[IdOf[p]][i]
      BY <2>1, <2>2, <2>3, <3>2
    <3> HIDE DEF f
    <3> QED
      BY <2>1, <2>2, <2>3, <2>6, <3>1, <3>2, <3>3, <3>4, <1>2
  <2>7. CASE GuardFree /\ entity'[p] = LoadFromHistory(NewEntity, event_store[IdOf[p]])
    <3>1. Pending = {}
      BY <2>7 DEF GuardFree, Pending, IInv, TypeOK
    <3> QED
      BY <2>1, <2>7, <3>1 DEF LoadFromHistory, NewEntity
  <2> HIDE DEF e
  <2> QED
    BY <1>4, <2>4, <2>5, <2>6, <2>7 DEF e
<1>6. EntityOK'
  BY <1>5 DEF EntityOK
<1>7. CommittedIsPersisted'
  BY <1>1, <1>5 DEF CommittedIsPersisted
<1>8. PendingIsCurrent'
  <2>1. Pending \subseteq Objects
    BY DEF Pending, IInv, TypeOK
  <2> QED
    BY <1>1, <1>5, <2>1 DEF PendingIsCurrent, IInv
<1> QED
  BY <1>3, <1>6, <1>7, <1>8

\* Entering phase 2: phase 1 is what makes the pending entities current.
LEMMA BeginStep ==
  ASSUME IInv, NEW b \in Batches, CommitBegin(b)
  PROVE  EntityOK' /\ PendingIsCurrent' /\ CommittedIsPersisted'
         /\ SequenceIsPosition'
<1>1. UNCHANGED <<event_store, entity>>
  BY DEF CommitBegin
<1>2. EntityOK' /\ CommittedIsPersisted' /\ SequenceIsPosition'
  BY <1>1 DEF EntityOK, CommittedIsPersisted, SequenceIsPosition, IInv
<1>3. Pending' = {b[i] : i \in 1 .. Len(b)}
  BY DEF CommitBegin, Pending
<1>4. PendingIsCurrent'
  BY <1>1, <1>3 DEF CommitBegin, Validated, PendingIsCurrent
<1> QED
  BY <1>2, <1>4

\* The objects still pending after a turn of phase 2: all but the one appended.
LEMMA PendingAfterAppend ==
  ASSUME TypeOK, CommitAppend
  PROVE  Pending' = Pending \ {batch[next]}
<1> USE StoreAssumption
<1>1. batch \in Batches /\ next \in 1 .. Len(batch)
  BY DEF CommitAppend, GuardFree, TypeOK
<1>2. \A i, j \in 1 .. Len(batch) : batch[i] = batch[j] => i = j
  BY <1>1
<1>3. CASE next < Len(batch)
  <2>1. batch' = batch /\ next' = next + 1
    BY <1>3, <1>1 DEF CommitAppend
  <2> QED
    BY <1>1, <1>2, <2>1 DEF Pending
<1>4. CASE ~ (next < Len(batch))
  <2>1. next = Len(batch) /\ batch' = << >> /\ next' = 1
    BY <1>4, <1>1 DEF CommitAppend
  <2>2. Pending' = {}
    BY <2>1 DEF Pending
  <2>3. Pending = {batch[next]}
    BY <1>1, <2>1 DEF Pending
  <2> QED
    BY <2>2, <2>3
<1> QED
  BY <1>3, <1>4

\* Two pending objects are of different ids, when callers pass distinct ids.
LEMMA PendingDistinct ==
  ASSUME TypeOK, DistinctIds
  PROVE  /\ Pending \subseteq Objects
         /\ \A o, p \in Pending : IdOf[o] = IdOf[p] => o = p
<1> USE StoreAssumption
<1>1. CASE batch = << >>
  BY <1>1 DEF TypeOK, Pending
<1>2. CASE batch # << >>
  BY <1>2 DEF TypeOK, Pending, DistinctIds
<1> QED
  BY <1>1, <1>2

\* A turn of phase 2 preserves the invariant.
LEMMA AppendStep ==
  ASSUME IInv, DistinctIds, CommitAppend
  PROVE  EntityOK' /\ PendingIsCurrent' /\ CommittedIsPersisted'
         /\ SequenceIsPosition'
<1> USE StoreAssumption
<1> DEFINE o == batch[next]
           e == entity[o]
           s == event_store[IdOf[o]]
<1>1. /\ batch \in Batches /\ next \in 1 .. Len(batch)
      /\ o \in Objects /\ IdOf[o] \in Ids
      /\ e.committed_version = Len(s)
      /\ event_store' = [event_store EXCEPT ![IdOf[o]] = e.events]
      /\ entity' = [entity EXCEPT ![o] = MarkCommitted(@)]
  BY AppendEffect
<1>2. TypeOK
  BY DEF IInv
<1>3. o \in Pending
  BY <1>1 DEF Pending
<1> HIDE DEF o, e, s
<1>4. /\ e.events \in Seq(EventRecord(Objects))
      /\ e.committed_version \in Nat
      /\ e.version = Len(e.events)
      /\ e.committed_version <= Len(e.events)
      /\ ~ e.replaying
      /\ \A i \in e.committed_version + 1 .. Len(e.events) :
           e.events[i] = [sequence |-> i, tag |-> o]
  BY <1>1 DEF e, IInv, TypeOK, EntityOK, EntityRecord
<1>5. \A i \in 1 .. e.committed_version : e.events[i] = s[i]
  BY <1>1 DEF e, s, IInv, CommittedIsPersisted
<1>6. /\ event_store'[IdOf[o]] = e.events
      /\ \A id \in Ids \ {IdOf[o]} : event_store'[id] = event_store[id]
  BY <1>1, <1>2 DEF TypeOK
<1>7. /\ entity'[o].events = e.events
      /\ entity'[o].version = Len(e.events)
      /\ entity'[o].committed_version = Len(e.events)
      /\ ~ entity'[o].replaying
      /\ \A p \in Objects \ {o} : entity'[p] = entity[p]
  BY <1>1, <1>2, <1>4 DEF e, TypeOK, EntityRecord, MarkCommitted
<1>8. SequenceIsPosition'
  <2> SUFFICES ASSUME NEW id \in Ids, NEW i \in 1 .. Len(event_store'[id])
               PROVE  event_store'[id][i].sequence = i
    BY DEF SequenceIsPosition
  <2>1. CASE id # IdOf[o]
    BY <2>1, <1>6 DEF IInv, SequenceIsPosition
  <2>2. CASE id = IdOf[o]
    <3>1. i \in 1 .. Len(e.events) /\ event_store'[id][i] = e.events[i]
      BY <2>2, <1>6
    <3>2. CASE i <= e.committed_version
      <4>1. i \in 1 .. Len(s) /\ e.events[i] = s[i]
        BY <3>1, <3>2, <1>1, <1>4, <1>5
      <4>2. s[i].sequence = i
        BY <4>1, <1>1 DEF s, IInv, SequenceIsPosition
      <4> QED
        BY <3>1, <4>1, <4>2
    <3>3. CASE ~ (i <= e.committed_version)
      <4>1. i \in e.committed_version + 1 .. Len(e.events)
        BY <3>1, <3>3, <1>4
      <4>2. e.events[i] = [sequence |-> i, tag |-> o]
        BY <4>1, <1>4
      <4> QED
        BY <3>1, <4>2
    <3> QED
      BY <3>2, <3>3
  <2> QED
    BY <2>1, <2>2
<1>9. EntityOK'
  <2>1. \A i \in entity'[o].committed_version + 1 .. Len(entity'[o].events) : FALSE
    BY <1>4, <1>7
  <2> QED
    BY <1>4, <1>7, <2>1 DEF EntityOK, IInv
<1>10. CommittedIsPersisted'
  <2> SUFFICES ASSUME NEW p \in Objects
               PROVE  /\ entity'[p].committed_version <= Len(event_store'[IdOf[p]])
                      /\ \A i \in 1 .. entity'[p].committed_version :
                           entity'[p].events[i] = event_store'[IdOf[p]][i]
    BY DEF CommittedIsPersisted
  <2>1. CASE p = o
    BY <2>1, <1>4, <1>6, <1>7
  <2>2. CASE p # o
    <3>1. /\ entity'[p] = entity[p]
          /\ entity[p].committed_version \in Nat
          /\ Len(event_store[IdOf[p]]) \in Nat
          /\ IdOf[p] \in Ids
          /\ entity[p].committed_version <= Len(event_store[IdOf[p]])
          /\ \A i \in 1 .. entity[p].committed_version :
               entity[p].events[i] = event_store[IdOf[p]][i]
      BY <2>2, <1>7, <1>2 DEF IInv, CommittedIsPersisted, TypeOK, EntityRecord
    <3>2. CASE IdOf[p] # IdOf[o]
      BY <3>1, <3>2, <1>6
    <3>3. CASE IdOf[p] = IdOf[o]
      <4>1. event_store[IdOf[p]] = s /\ event_store'[IdOf[p]] = e.events
        BY <3>3, <1>6 DEF s
      <4>2. entity[p].committed_version <= e.committed_version
        BY <3>1, <4>1, <1>1
      <4>3. \A i \in 1 .. entity[p].committed_version : i \in 1 .. e.committed_version
        BY <3>1, <4>2, <1>4
      <4>4. \A i \in 1 .. entity[p].committed_version : entity[p].events[i] = e.events[i]
        BY <3>1, <4>1, <4>3, <1>5
      <4>5. entity[p].committed_version <= Len(e.events)
        BY <3>1, <4>2, <1>4
      <4> QED
        BY <3>1, <4>1, <4>4, <4>5
    <3> QED
      BY <3>2, <3>3
  <2> QED
    BY <2>1, <2>2
<1>11. PendingIsCurrent'
  <2> SUFFICES ASSUME NEW p \in Pending'
               PROVE  entity'[p].committed_version = Len(event_store'[IdOf[p]])
    BY DEF PendingIsCurrent
  <2>1. p \in Pending /\ p # o
    BY <1>2, PendingAfterAppend DEF o
  <2>2. p \in Objects /\ IdOf[p] \in Ids \ {IdOf[o]}
    BY <1>2, <1>3, <2>1, PendingDistinct
  <2> QED
    BY <1>6, <1>7, <2>1, <2>2 DEF IInv, PendingIsCurrent
<1> QED
  BY <1>8, <1>9, <1>10, <1>11

\* IInv is inductive.
LEMMA InvStep ==
  ASSUME DistinctIds
  PROVE  IInv /\ [Next]_vars => IInv'
<1> SUFFICES ASSUME IInv, [Next]_vars PROVE IInv'
  OBVIOUS
<1>1. TypeOK'
  BY TypeStep DEF IInv
<1>2. CASE \/ \E o \in Objects : New(o) \/ Record(o) \/ GetOne(o)
           \/ \E S \in SUBSET Objects : Find(S)
  BY <1>1, <1>2, CallerStep DEF IInv
<1>3. ASSUME NEW b \in Batches, CommitBegin(b) PROVE IInv'
  BY <1>1, <1>3, BeginStep DEF IInv
<1>4. ASSUME NEW b \in Batches, CommitConflict(b) PROVE IInv'
  BY <1>1, <1>4 DEF CommitConflict, IInv, EntityOK, PendingIsCurrent, Pending,
                    CommittedIsPersisted, SequenceIsPosition
<1>5. CASE CommitAppend
  BY <1>1, <1>5, AppendStep DEF IInv
<1>6. CASE UNCHANGED vars
  BY <1>1, <1>6 DEF vars, IInv, EntityOK, PendingIsCurrent, Pending,
                    CommittedIsPersisted, SequenceIsPosition
<1> QED
  BY <1>2, <1>3, <1>4, <1>5, <1>6 DEF Next

\* The initial state satisfies the invariant.
LEMMA InvInit == Init => IInv
<1> SUFFICES ASSUME Init PROVE IInv
  OBVIOUS
<1> USE StoreAssumption
<1>1. TypeOK
  BY DEF Init, TypeOK, EntityRecord, NewEntity, Results
<1>2. EntityOK /\ CommittedIsPersisted /\ SequenceIsPosition
  BY DEF Init, EntityOK, CommittedIsPersisted, SequenceIsPosition, NewEntity
<1>3. PendingIsCurrent
  BY DEF Init, PendingIsCurrent, Pending
<1> QED
  BY <1>1, <1>2, <1>3 DEF IInv

\* The invariant holds throughout, if no commit lists an id twice.
THEOREM Invariance ==
  ASSUME DistinctIds
  PROVE  Spec => []IInv
<1>1. Init => IInv
  BY InvInit
<1>2. IInv /\ [Next]_vars => IInv'
  BY InvStep
<1> QED
  BY <1>1, <1>2, PTL DEF Spec

\* Streams are gap-free and duplicate-free however commits interleave.
THEOREM SequencesAreGapFree ==
  ASSUME DistinctIds
  PROVE  Spec => []SequenceIsPosition
<1>1. IInv => SequenceIsPosition
  BY DEF IInv
<1> QED
  BY <1>1, Invariance, PTL

\* Of two writers that loaded the same version at most one is persisted.
THEOREM WritesAreDetected ==
  ASSUME DistinctIds
  PROVE  Spec => []ConcurrentWritesDetected
<1>1. IInv => ConcurrentWritesDetected
  BY DEF IInv, SequenceIsPosition, ConcurrentWritesDetected
<1> QED
  BY <1>1, Invariance, PTL

\* A copy may be stale but never disagrees with the store.
THEOREM CopiesAgreeWithStore ==
  ASSUME DistinctIds
  PROVE  Spec => []CommittedIsPersisted
<1>1. IInv => CommittedIsPersisted
  BY DEF IInv
<1> QED
  BY <1>1, Invariance, PTL

\* A failed commit lost a race: an entity of the batch is behind the store.
THEOREM ConflictsAreStale ==
  ASSUME DistinctIds
  PROVE  Spec => ConflictMeansStale
<1> USE StoreAssumption
<1>1. ASSUME IInv, NEW b \in Batches, CommitConflict(b)
      PROVE  /\ UNCHANGED <<event_store, entries, entity>>
             /\ \E i \in 1 .. Len(b) :
                  entity[b[i]].committed_version < Len(event_store[IdOf[b[i]]])
  <2>1. PICK i \in 1 .. Len(b) :
          Len(event_store[IdOf[b[i]]]) # entity[b[i]].committed_version
    BY <1>1 DEF CommitConflict, Validated
  <2>2. b[i] \in Objects /\ IdOf[b[i]] \in Ids
    OBVIOUS
  <2>3. /\ Len(event_store[IdOf[b[i]]]) \in Nat
        /\ entity[b[i]].committed_version \in Nat
        /\ entity[b[i]].committed_version <= Len(event_store[IdOf[b[i]]])
    BY <1>1, <2>2 DEF IInv, TypeOK, EntityRecord, CommittedIsPersisted
  <2> QED
    BY <1>1, <2>1, <2>3 DEF CommitConflict
<1>2. IInv /\ [Next]_vars =>
        [\A b \in Batches :
           CommitConflict(b) =>
             /\ UNCHANGED <<event_store, entries, entity>>
             /\ \E i \in 1 .. Len(b) :
                  entity[b[i]].committed_version < Len(event_store[IdOf[b[i]]])]_vars
  BY <1>1
<1> QED
  BY <1>2, Invariance, PTL DEF Spec, ConflictMeansStale

\* Streams only grow at the end.
THEOREM StoreIsAppendOnly ==
  ASSUME DistinctIds
  PROVE  Spec => AppendOnly
<1> USE StoreAssumption
<1> DEFINE Grows == /\ entries \subseteq entries'
                    /\ \A id \in Ids :
                         /\ Len(event_store[id]) <= Len(event_store'[id])
                         /\ \A i \in 1 .. Len(event_store[id]) :
                              event_store'[id][i] = event_store[id][i]
<1>1. ASSUME IInv, CommitAppend PROVE Grows
  <2> DEFINE o == batch[next]
             e == entity[o]
             s == event_store[IdOf[o]]
  <2>1. /\ o \in Objects /\ IdOf[o] \in Ids
        /\ e.committed_version = Len(s)
        /\ event_store' = [event_store EXCEPT ![IdOf[o]] = e.events]
    BY <1>1, AppendEffect
  <2>2. entries \subseteq entries'
    BY <1>1 DEF CommitAppend
  <2> HIDE DEF o, e, s
  <2>3. /\ e.committed_version <= Len(e.events)
        /\ \A i \in 1 .. Len(s) : e.events[i] = s[i]
    BY <1>1, <2>1 DEF e, s, IInv, EntityOK, CommittedIsPersisted
  <2>4. /\ event_store'[IdOf[o]] = e.events
        /\ \A id \in Ids \ {IdOf[o]} : event_store'[id] = event_store[id]
    BY <1>1, <2>1 DEF IInv, TypeOK
  <2>5. \A id \in Ids : Len(event_store[id]) \in Nat
    BY <1>1 DEF IInv, TypeOK
  <2> QED
    BY <2>1, <2>2, <2>3, <2>4, <2>5 DEF s
<1>2. ASSUME IInv, [Next]_vars, ~ CommitAppend PROVE Grows
  <2>1. UNCHANGED <<event_store, entries>>
    BY <1>2 DEF Next, vars, New, Record, GetOne, Find, CommitBegin, CommitConflict
  <2>2. \A id \in Ids : Len(event_store[id]) \in Nat
    BY <1>2 DEF IInv, TypeOK
  <2> QED
    BY <2>1, <2>2
<1>3. IInv /\ [Next]_vars => [Grows]_vars
  BY <1>1, <1>2
<1> QED
  BY <1>3, Invariance, PTL DEF Spec, AppendOnly
-----------------------------------------------------------------------------
(***************************************************************************)
(* The refinement of EventLog                                              *)
(***************************************************************************)

\* While no commit runs the abstract state is the store and what copies start
\* from.
LEMMA BarWhenFree ==
  ASSUME TypeOK, GuardFree
  PROVE  /\ Pending = {}
         /\ logBar = event_store
         /\ seenBar = [o \in Objects |-> CommittedEvents(entity[o])]
<1>1. Pending = {}
  BY DEF GuardFree, Pending, TypeOK
<1> QED
  BY <1>1 DEF logBar, seenBar, TypeOK

\* A pending entity's log already ends with its new events.
LEMMA BarOfPending ==
  ASSUME TypeOK, DistinctIds, NEW o \in Pending
  PROVE  /\ o \in Objects /\ IdOf[o] \in Ids
         /\ logBar[IdOf[o]] = entity[o].events
         /\ seenBar[o] = entity[o].events
<1> USE StoreAssumption
<1>1. o \in Objects /\ IdOf[o] \in Ids
  BY PendingDistinct
<1>2. \A p \in Pending : IdOf[p] = IdOf[o] => p = o
  BY PendingDistinct
<1>3. (CHOOSE p \in Pending : IdOf[p] = IdOf[o]) = o
  BY <1>2
<1>4. logBar[IdOf[o]] = entity[o].events
  BY <1>1, <1>3 DEF logBar
<1>5. seenBar[o] = entity[o].events
  BY <1>1 DEF seenBar
<1> QED
  BY <1>1, <1>4, <1>5

\* The log of an id that no pending entity has is the stored stream.
LEMMA BarOfOthers ==
  ASSUME NEW id \in Ids, \A o \in Pending : IdOf[o] # id
  PROVE  logBar[id] = event_store[id]
BY DEF logBar

\* A commit that passes phase 1 is the atomic commit of EventLog.
LEMMA BeginRefines ==
  ASSUME IInv, DistinctIds, TypeOK', NEW b \in Batches, CommitBegin(b)
  PROVE  EL!CommitBatch(Pending')
<1> USE StoreAssumption
<1>1. /\ logBar = event_store
      /\ seenBar = [o \in Objects |-> CommittedEvents(entity[o])]
      /\ UNCHANGED <<event_store, entity>>
  BY BarWhenFree DEF CommitBegin, IInv
<1>2. /\ Pending' \subseteq Objects
      /\ \A o, p \in Pending' : IdOf[o] = IdOf[p] => o = p
  <2>1. Pending' = {b[i] : i \in 1 .. Len(b)}
    BY DEF CommitBegin, Pending
  <2> QED
    BY <2>1 DEF DistinctIds
<1>3. ASSUME NEW o \in Pending'
      PROVE  /\ logBar'[IdOf[o]] = entity[o].events
             /\ seenBar'[o] = entity[o].events
  <2>1. (CHOOSE p \in Pending' : IdOf[p] = IdOf[o]) = o
    BY <1>2
  <2>2. logBar'[IdOf[o]] = entity'[o].events
    BY <1>2, <2>1 DEF logBar
  <2>3. seenBar'[o] = entity'[o].events
    BY <1>2 DEF seenBar
  <2> QED
    BY <1>1, <2>2, <2>3
<1>4. \A id \in Ids : (\A o \in Pending' : IdOf[o] # id) => logBar'[id] = event_store[id]
  BY <1>1 DEF logBar
<1>5. \A o \in Objects \ Pending' : seenBar'[o] = CommittedEvents(entity[o])
  BY <1>1 DEF seenBar
<1>6. ASSUME NEW o \in Pending'
      PROVE  /\ seenBar[o] = logBar[IdOf[o]]
             /\ EL!Extends(logBar'[IdOf[o]], logBar[IdOf[o]])
             /\ \A i \in Len(logBar[IdOf[o]]) + 1 .. Len(logBar'[IdOf[o]]) :
                  logBar'[IdOf[o]][i] = [sequence |-> i, tag |-> o]
  <2> DEFINE e == entity[o]
             s == event_store[IdOf[o]]
  <2>1. o \in Objects /\ IdOf[o] \in Ids
    BY <1>2
  <2>2. e.committed_version = Len(s)
    <3>1. PICK i \in 1 .. Len(b) : o = b[i]
      BY DEF CommitBegin, Pending
    <3> QED
      BY <3>1 DEF CommitBegin, Validated
  <2>3. /\ s \in Seq(EventRecord(Objects))
        /\ e.events \in Seq(EventRecord(Objects))
        /\ e.committed_version <= Len(e.events)
        /\ \A i \in 1 .. e.committed_version : e.events[i] = s[i]
        /\ \A i \in e.committed_version + 1 .. Len(e.events) :
             e.events[i] = [sequence |-> i, tag |-> o]
    BY <2>1 DEF IInv, TypeOK, EntityRecord, EntityOK, CommittedIsPersisted
  <2> HIDE DEF e, s
  <2>4. CommittedEvents(e) = s
    <3>1. SubSeq(e.events, 1, Len(s)) = SubSeq(s, 1, Len(s))
      BY <2>2, <2>3, SameFront
    <3> QED
      BY <2>2, <2>3, <3>1, WholeFront DEF CommittedEvents
  <2>5. logBar[IdOf[o]] = s /\ seenBar[o] = s
    BY <1>1, <2>1, <2>4 DEF s, e
  <2>6. logBar'[IdOf[o]] = e.events
    BY <1>3 DEF e
  <2>7. EL!Extends(e.events, s)
    BY <2>2, <2>3 DEF EL!Extends
  <2> QED
    BY <2>2, <2>3, <2>5, <2>6, <2>7
<1>7. seenBar' = [o \in Objects |-> IF o \in Pending' THEN logBar'[IdOf[o]]
                                    ELSE seenBar[o]]
  <2>1. \A o \in Objects :
          seenBar'[o] = IF o \in Pending' THEN logBar'[IdOf[o]] ELSE seenBar[o]
    BY <1>1, <1>3, <1>5
  <2> QED
    BY <2>1 DEF seenBar
<1> QED
  BY <1>1, <1>2, <1>4, <1>6, <1>7 DEF EL!CommitBatch

\* A turn of phase 2 is invisible: the abstract logs already have the events.
LEMMA AppendRefines ==
  ASSUME IInv, DistinctIds, CommitAppend
  PROVE  UNCHANGED <<logBar, seenBar>>
<1> USE StoreAssumption
<1> DEFINE o == batch[next]
           e == entity[o]
<1>1. /\ o \in Objects /\ IdOf[o] \in Ids
      /\ event_store' = [event_store EXCEPT ![IdOf[o]] = e.events]
      /\ entity' = [entity EXCEPT ![o] = MarkCommitted(@)]
      /\ batch \in Batches /\ next \in 1 .. Len(batch)
  BY AppendEffect
<1>2. TypeOK /\ TypeOK'
  <2>1. [Next]_vars
    BY DEF Next
  <2> QED
    BY <2>1, TypeStep DEF IInv
<1>3. o \in Pending
  BY <1>1 DEF Pending
<1>4. Pending' = Pending \ {o}
  BY <1>2, PendingAfterAppend
<1>5. /\ Pending \subseteq Objects
      /\ \A p, q \in Pending : IdOf[p] = IdOf[q] => p = q
  BY <1>2, PendingDistinct
<1> HIDE DEF o
<1>6. /\ e.events \in Seq(EventRecord(Objects))
      /\ e.version = Len(e.events)
  BY <1>1, <1>2 DEF IInv, TypeOK, EntityOK, EntityRecord
<1>7. /\ entity'[o].events = e.events
      /\ entity'[o].committed_version = Len(e.events)
      /\ \A p \in Objects \ {o} : entity'[p] = entity[p]
  BY <1>1, <1>2, <1>6 DEF TypeOK, EntityRecord, MarkCommitted
<1> HIDE DEF e
<1>8. \A id \in Ids : logBar'[id] = logBar[id]
  <2> SUFFICES ASSUME NEW id \in Ids PROVE logBar'[id] = logBar[id]
    OBVIOUS
  <2>1. CASE id = IdOf[o]
    <3>1. \A p \in Pending' : IdOf[p] # id
      BY <2>1, <1>3, <1>4, <1>5
    <3>2. logBar'[id] = event_store'[id]
      BY <3>1 DEF logBar
    <3>3. logBar[id] = entity[o].events
      BY <2>1, <1>2, <1>3, BarOfPending
    <3>4. event_store'[id] = e.events
      BY <2>1, <1>1, <1>2 DEF TypeOK
    <3> QED
      BY <3>2, <3>3, <3>4 DEF e
  <2>2. CASE id # IdOf[o] /\ \E p \in Pending : IdOf[p] = id
    <3>1. PICK p \in Pending : IdOf[p] = id
      BY <2>2
    <3>2. p \in Pending' /\ p \in Objects \ {o}
      BY <2>2, <3>1, <1>4, <1>5
    <3>3. logBar[id] = entity[p].events
      BY <3>1, <1>2, BarOfPending
    <3>4. (CHOOSE q \in Pending' : IdOf[q] = id) = p
      BY <3>1, <3>2, <1>4, <1>5
    <3>5. logBar'[id] = entity'[p].events
      BY <3>1, <3>2, <3>4 DEF logBar
    <3> QED
      BY <3>2, <3>3, <3>5, <1>7
  <2>3. CASE id # IdOf[o] /\ ~ \E p \in Pending : IdOf[p] = id
    <3>1. logBar[id] = event_store[id]
      BY <2>3, BarOfOthers
    <3>2. logBar'[id] = event_store'[id]
      BY <2>3, <1>4 DEF logBar
    <3>3. event_store'[id] = event_store[id]
      BY <2>3, <1>1, <1>2 DEF TypeOK
    <3> QED
      BY <3>1, <3>2, <3>3
  <2> QED
    BY <2>1, <2>2, <2>3
<1>9. \A p \in Objects : seenBar'[p] = seenBar[p]
  <2> SUFFICES ASSUME NEW p \in Objects PROVE seenBar'[p] = seenBar[p]
    OBVIOUS
  <2>1. CASE p = o
    <3>1. seenBar[p] = e.events
      BY <2>1, <1>3 DEF seenBar, e
    <3>2. seenBar'[p] = CommittedEvents(entity'[o])
      BY <2>1, <1>4 DEF seenBar
    <3>3. CommittedEvents(entity'[o]) = e.events
      BY <1>6, <1>7, WholeFront DEF CommittedEvents
    <3> QED
      BY <3>1, <3>2, <3>3
  <2>2. CASE p # o
    <3>1. entity'[p] = entity[p] /\ (p \in Pending' <=> p \in Pending)
      BY <2>2, <1>4, <1>7
    <3> QED
      BY <3>1 DEF seenBar
  <2> QED
    BY <2>1, <2>2
<1> QED
  BY <1>8, <1>9 DEF logBar, seenBar

\* A step of a caller on its own entities is a read, a fresh start or nothing.
LEMMA CallerRefines ==
  ASSUME IInv, DistinctIds,
         \/ \E o \in Objects : New(o) \/ Record(o) \/ GetOne(o)
         \/ \E S \in SUBSET Objects : Find(S)
  PROVE  EL!Next \/ UNCHANGED <<logBar, seenBar>>
<1> USE StoreAssumption
<1>1. /\ UNCHANGED <<event_store, batch, next>> /\ Pending' = Pending
      /\ TypeOK /\ Pending \subseteq Objects /\ Pending \subseteq Borrowed
  <2>1. Pending \subseteq Borrowed
    BY DEF Pending, Borrowed, IInv, TypeOK
  <2> QED
    BY <2>1, PendingDistinct DEF New, Record, GetOne, Find, Pending, IInv
<1>2. ASSUME \A p \in Pending : entity'[p] = entity[p]
      PROVE  logBar' = logBar
  <2>1. ASSUME NEW id \in Ids, \E o \in Pending : IdOf[o] = id
        PROVE  (CHOOSE o \in Pending : IdOf[o] = id) \in Pending
    BY <2>1
  <2> QED
    BY <1>1, <1>2, <2>1 DEF logBar
<1>3. ASSUME NEW o \in Objects, New(o) PROVE EL!Next
  <2>1. o \notin Pending /\ entity' = [entity EXCEPT ![o] = NewEntity]
    BY <1>1, <1>3 DEF New
  <2>2. logBar' = logBar
    BY <1>1, <1>2, <2>1 DEF TypeOK
  <2>3. CommittedEvents(NewEntity) = << >>
    BY DEF CommittedEvents, NewEntity
  <2>4. seenBar' = [seenBar EXCEPT ![o] = << >>]
    BY <1>1, <2>1, <2>3 DEF seenBar, TypeOK
  <2>5. EL!Forget(o)
    BY <2>2, <2>4 DEF EL!Forget
  <2> QED
    BY <2>5 DEF EL!Next
<1>4. ASSUME NEW o \in Objects, Record(o) PROVE UNCHANGED <<logBar, seenBar>>
  <2>1. o \notin Pending /\ entity' = [entity EXCEPT ![o] = Digest(@, o)]
    BY <1>1, <1>4 DEF Record
  <2>2. logBar' = logBar
    BY <1>1, <1>2, <2>1 DEF TypeOK
  <2> DEFINE e == entity[o]
             r == [sequence |-> Len(e.events) + 1, tag |-> o]
             f == Append(e.events, r)
  <2>3. /\ e.events \in Seq(EventRecord(Objects))
        /\ e.committed_version \in Nat
        /\ e.committed_version <= Len(e.events)
        /\ ~ e.replaying
    BY <1>1 DEF IInv, EntityOK, TypeOK, EntityRecord
  <2>4. entity'[o].events = f /\ entity'[o].committed_version = e.committed_version
    BY <1>1, <2>1, <2>3 DEF Digest, TypeOK
  <2> HIDE DEF e
  <2>5. /\ f \in Seq(EventRecord(Objects))
        /\ Len(f) = Len(e.events) + 1
        /\ \A i \in 1 .. Len(e.events) : f[i] = e.events[i]
    <3>1. r \in EventRecord(Objects)
      BY <2>3 DEF EventRecord
    <3> QED
      BY <2>3, <3>1
  <2> HIDE DEF f, r
  <2>6. CommittedEvents(entity'[o]) = CommittedEvents(e)
    <3>1. SubSeq(f, 1, e.committed_version) = SubSeq(e.events, 1, e.committed_version)
      BY <2>3, <2>5, SameFront
    <3> QED
      BY <2>4, <3>1 DEF CommittedEvents
  <2>7. seenBar' = seenBar
    BY <1>1, <2>1, <2>6 DEF seenBar, TypeOK, e
  <2> QED
    BY <2>2, <2>7
<1>5. ASSUME NEW S \in SUBSET Objects, GuardFree,
             entity' = [o \in Objects |->
                IF o \in S THEN LoadFromHistory(NewEntity, event_store[IdOf[o]])
                           ELSE entity[o]]
      PROVE  EL!Next
  <2>1. /\ Pending = {} /\ logBar = event_store
        /\ seenBar = [o \in Objects |-> CommittedEvents(entity[o])]
    BY <1>1, <1>5, BarWhenFree
  <2>2. logBar' = logBar
    BY <1>2, <2>1
  <2>3. seenBar' = [o \in Objects |-> CommittedEvents(entity'[o])]
    BY <1>1, <2>1 DEF seenBar
  <2>4. ASSUME NEW o \in S
        PROVE  CommittedEvents(entity'[o]) = event_store[IdOf[o]]
    <3>1. event_store[IdOf[o]] \in Seq(EventRecord(Objects))
      BY <1>1 DEF TypeOK
    <3> QED
      BY <1>5, <3>1, WholeFront DEF CommittedEvents, LoadFromHistory
  <2>5. EL!Read(S)
    BY <1>5, <2>1, <2>2, <2>3, <2>4 DEF EL!Read
  <2> QED
    BY <2>5 DEF EL!Next
<1>6. ASSUME NEW o \in Objects, GetOne(o) PROVE EL!Next
  <2>1. entity' = [p \in Objects |->
           IF p \in {o} THEN LoadFromHistory(NewEntity, event_store[IdOf[p]])
                        ELSE entity[p]]
    BY <1>1, <1>6 DEF GetOne, TypeOK
  <2> QED
    BY <1>5, <1>6, <2>1 DEF GetOne
<1>7. ASSUME NEW S \in SUBSET Objects, Find(S) PROVE EL!Next
  BY <1>5, <1>7 DEF Find
<1> QED
  BY <1>3, <1>4, <1>6, <1>7

\* The event store implements the atomic, multi-log compare-and-append of
\* EventLog: no update is lost and no commit of several entities is partial.
THEOREM Refinement ==
  ASSUME DistinctIds
  PROVE  Spec => ImplementsEventLog
<1> USE StoreAssumption
<1>1. Init => EL!Init
  <2> SUFFICES ASSUME Init PROVE EL!Init
    OBVIOUS
  <2>1. TypeOK /\ GuardFree
    BY InvInit DEF IInv, Init, GuardFree
  <2>2. CommittedEvents(NewEntity) = << >>
    BY DEF CommittedEvents, NewEntity
  <2> QED
    BY <2>1, <2>2, BarWhenFree DEF EL!Init, Init
<1>2. IInv /\ [Next]_vars => [EL!Next]_(EL!vars)
  <2> SUFFICES ASSUME IInv, [Next]_vars
               PROVE  EL!Next \/ UNCHANGED <<logBar, seenBar>>
    BY DEF EL!vars
  <2>1. CASE \/ \E o \in Objects : New(o) \/ Record(o) \/ GetOne(o)
             \/ \E S \in SUBSET Objects : Find(S)
    BY <2>1, CallerRefines
  <2>2. ASSUME NEW b \in Batches, CommitBegin(b) PROVE EL!Next
    <3>1. IInv'
      BY InvStep
    <3>2. Pending' \subseteq Objects
      BY <3>1, <2>2 DEF IInv, TypeOK, Pending
    <3>3. EL!CommitBatch(Pending')
      BY <2>2, <3>1, BeginRefines DEF IInv
    <3> QED
      BY <3>2, <3>3 DEF EL!Next
  <2>3. ASSUME NEW b \in Batches, CommitConflict(b)
        PROVE  UNCHANGED <<logBar, seenBar>>
    BY <2>3 DEF CommitConflict, logBar, seenBar, Pending
  <2>4. CASE CommitAppend
    BY <2>4, AppendRefines
  <2>5. CASE UNCHANGED vars
    BY <2>5 DEF vars, logBar, seenBar, Pending
  <2> QED
    BY <2>1, <2>2, <2>3, <2>4, <2>5 DEF Next
<1> QED
  BY <1>1, <1>2, Invariance, PTL DEF Spec, ImplementsEventLog, EL!Spec
=============================================================================
