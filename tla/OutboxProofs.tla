----------------------------- MODULE OutboxProofs -----------------------------
(***************************************************************************)
(* Proofs about Outbox for any number of messages, threads, drivers,       *)
(* operators' calls and crashes.                                           *)
(***************************************************************************)
EXTENDS Outbox, TLAPS

Settled == {"Published", "Failed"}

\* The commands of a message keep its type.
LEMMA CommandsType ==
  ASSUME NEW s \in OutboxMessageRecord
  PROVE  /\ Complete(s) \in OutboxMessageRecord
         /\ Release(s) \in OutboxMessageRecord
         /\ Fail(s) \in OutboxMessageRecord
         /\ Stored(s) \in OutboxMessageRecord
  BY DEF Complete, Release, Fail, Stored, Changed, IsInFlight, CanFail,
         OutboxMessageRecord, OutboxMessageStatus

\* s2 can follow the stored message s: it is s itself, or has another event,
\* and then s was not settled.
Follows(s, s2) ==
  \/ s2 = s
  \/ s2.version > s.version /\ s.status \notin Settled

\* Every store operation that rewrites a message by a command is such a step,
\* and none of them but complete publishes a message.
LEMMA CommandsFollow ==
  ASSUME NEW s \in OutboxMessageRecord, s.committed_version = s.version
  PROVE  /\ Follows(s, Stored(Complete(s)))
         /\ Follows(s, Stored(Release(s)))
         /\ Follows(s, Stored(Fail(s)))
         /\ Stored(Release(s)).status = "Published" => s.status = "Published"
         /\ Stored(Fail(s)).status = "Published" => s.status = "Published"
  BY DEF Complete, Release, Fail, Stored, Changed, IsInFlight, CanFail,
         OutboxMessageRecord, OutboxMessageStatus, Follows, Settled

\* The same of a claim.
LEMMA ClaimFollows ==
  ASSUME NEW s \in OutboxMessageRecord, s.committed_version = s.version,
         NEW w \in Workers
  PROVE  /\ Stored(ClaimFor(s, w)) \in OutboxMessageRecord
         /\ Follows(s, Stored(ClaimFor(s, w)))
         /\ IsPending(s) => Stored(ClaimFor(s, w)).status = "InFlight"
         /\ Stored(ClaimFor(s, w)).status = "Published" => s.status = "Published"
  BY DEF ClaimFor, Stored, Changed, IsPending, OutboxMessageRecord,
         OutboxMessageStatus, Follows, Settled

\* What process_message does to a copy.
LEMMA ProcessedCopy ==
  ASSUME NEW c \in OutboxMessageRecord, NEW d \in Workers, NEW ok \in BOOLEAN
  PROVE  /\ Processed(c, d, ok) \in OutboxMessageRecord
         /\ Processed(c, d, ok).committed_version = c.committed_version
         /\ Processed(c, d, ok) = c \/ Processed(c, d, ok).version > c.version
         /\ ~ ok /\ Processed(c, d, ok).status = "Published" => c.status = "Published"
  BY OutboxAssumption
     DEF Processed, ClaimFor, Complete, Release, Fail, Changed, IsPending, IsInFlight,
         CanFail, OutboxMessageRecord, OutboxMessageStatus, OutboxAssumption

LEMMA TakeSubset == ASSUME NEW S, NEW n, NEW B \in Take(S, n) PROVE B \subseteq S
  BY DEF Take

LEMMA PendingAreMessages == Pending \subseteq Messages
  BY DEF Pending, Existing
-----------------------------------------------------------------------------
(***************************************************************************)
(* How the store moves.                                                    *)
(***************************************************************************)

\* The part of TypeOK about the store.
StoreOK ==
  /\ store \in [Messages -> OutboxMessageRecord]
  /\ \A m \in Messages : /\ store[m].committed_version = store[m].version
                         /\ store[m].version = 0 => store[m] = DefaultMessage

\* The part about the rest.
RestOK ==
  /\ pc \in [Workers -> Places]
  /\ held \in [Workers -> SUBSET Messages]
  /\ current \in [Workers -> SUBSET Messages]
  /\ local \in [Workers -> [Messages -> OutboxMessageRecord]]
  /\ batch \in [Workers -> SUBSET Messages]
  /\ delivered \in [Messages -> Nat]
  /\ faults \in Nat /\ crashes \in Nat

LEMMA TypeParts == /\ TypeOK <=> StoreOK /\ RestOK
                   /\ TypeOK' <=> StoreOK' /\ RestOK'
  BY DEF TypeOK, StoreOK, RestOK

\* The store moves on by Follows, message by message.
StoreFollows == \A m \in Messages : Follows(store[m], store'[m])

\* One message is rewritten by a message that can follow it.
LEMMA OneFollows ==
  ASSUME StoreOK, NEW m \in Messages, NEW s2 \in OutboxMessageRecord,
         s2.committed_version = s2.version, Follows(store[m], s2),
         store' = [store EXCEPT ![m] = s2]
  PROVE  StoreOK' /\ StoreFollows
<1>1. store' \in [Messages -> OutboxMessageRecord]
  BY DEF StoreOK
<1>2. \A k \in Messages : store'[k] = IF k = m THEN s2 ELSE store[k]
  BY DEF StoreOK
<1>3. s2.version = 0 => s2 = DefaultMessage
  <2>1. store[m].version \in Nat /\ s2.version \in Nat
    BY DEF StoreOK, OutboxMessageRecord
  <2> QED BY <2>1 DEF StoreOK, Follows
<1>4. StoreOK'
  BY <1>1, <1>2, <1>3 DEF StoreOK
<1> QED BY <1>2, <1>4 DEF StoreFollows, Follows

\* One message is rewritten by one of its commands.
LEMMA CommandStep ==
  ASSUME StoreOK, NEW m \in Messages,
         \/ store' = [store EXCEPT ![m] = Stored(Complete(@))]
         \/ store' = [store EXCEPT ![m] = Stored(Release(@))]
         \/ store' = [store EXCEPT ![m] = Stored(Fail(@))]
  PROVE  StoreOK' /\ StoreFollows
<1>1. store[m] \in OutboxMessageRecord /\ store[m].committed_version = store[m].version
  BY DEF StoreOK
<1>2. /\ Stored(Complete(store[m])) \in OutboxMessageRecord
      /\ Stored(Release(store[m])) \in OutboxMessageRecord
      /\ Stored(Fail(store[m])) \in OutboxMessageRecord
  BY <1>1, CommandsType
<1>3. \A s : Stored(s).committed_version = Stored(s).version
  BY DEF Stored
<1>4. /\ Follows(store[m], Stored(Complete(store[m])))
      /\ Follows(store[m], Stored(Release(store[m])))
      /\ Follows(store[m], Stored(Fail(store[m])))
  BY <1>1, CommandsFollow
<1>5. CASE store' = [store EXCEPT ![m] = Stored(Complete(@))]
  BY <1>2, <1>3, <1>4, <1>5, OneFollows
<1>6. CASE store' = [store EXCEPT ![m] = Stored(Release(@))]
  BY <1>2, <1>3, <1>4, <1>6, OneFollows
<1>7. CASE store' = [store EXCEPT ![m] = Stored(Fail(@))]
  BY <1>2, <1>3, <1>4, <1>7, OneFollows
<1> QED BY <1>5, <1>6, <1>7

\* A new message is stored.
LEMMA CreateStep ==
  ASSUME StoreOK, NEW m \in Messages, Create(m)
  PROVE  /\ StoreOK' /\ StoreFollows
         /\ \A k \in Messages : store'[k].status = "Published"
                                  => store[k].status = "Published"
<1> DEFINE new == Stored(Initialize(DefaultMessage))
<1>1. /\ new \in OutboxMessageRecord /\ new.version = 1
      /\ new.committed_version = 1 /\ new.status = "Pending"
  BY DEF DefaultMessage, Initialize, Changed, Stored, OutboxMessageRecord,
         OutboxMessageStatus
<1>2. store' = [store EXCEPT ![m] = new]
  BY DEF Create
<1> HIDE DEF new
<1>3. store[m].version = 0
  BY DEF Create, Existing, StoreOK, OutboxMessageRecord
<1>4. store[m].status = "Pending"
  BY <1>3 DEF StoreOK, DefaultMessage
<1>5. Follows(store[m], new)
  BY <1>1, <1>3, <1>4 DEF Follows, Settled
<1>6. StoreOK' /\ StoreFollows
  BY <1>1, <1>2, <1>5, OneFollows
<1> QED BY <1>1, <1>2, <1>6 DEF StoreOK

\* The claimed messages were pending and are in flight; the others stay.
LEMMA ClaimStep ==
  ASSUME StoreOK, NEW w \in Workers, NEW C \in SUBSET Pending,
         store' = [m \in Messages |->
            IF m \in C THEN Stored(ClaimFor(store[m], w)) ELSE store[m]]
  PROVE  /\ StoreOK' /\ StoreFollows
         /\ \A m \in C : store'[m].status = "InFlight"
         /\ \A m \in Messages : store'[m].status = "Published"
                                  => store[m].status = "Published"
<1>1. ASSUME NEW m \in Messages
      PROVE  /\ store[m] \in OutboxMessageRecord
             /\ store[m].committed_version = store[m].version
             /\ Stored(ClaimFor(store[m], w)) \in OutboxMessageRecord
             /\ Stored(ClaimFor(store[m], w)).committed_version
                  = Stored(ClaimFor(store[m], w)).version
             /\ Follows(store[m], Stored(ClaimFor(store[m], w)))
  <2>1. store[m] \in OutboxMessageRecord /\ store[m].committed_version = store[m].version
    BY DEF StoreOK
  <2>2. \A s : Stored(s).committed_version = Stored(s).version
    BY DEF Stored
  <2> QED BY <2>1, <2>2, ClaimFollows
<1>2. StoreFollows
  BY <1>1 DEF StoreFollows, Follows
<1>3. store' \in [Messages -> OutboxMessageRecord]
  BY <1>1
<1>4. ASSUME NEW m \in Messages
      PROVE  /\ store'[m].committed_version = store'[m].version
             /\ store'[m].version = 0 => store'[m] = DefaultMessage
  <2>1. store'[m].committed_version = store'[m].version
    BY <1>1
  <2>2. store[m].version \in Nat /\ store'[m].version \in Nat
    BY <1>1, <1>3 DEF OutboxMessageRecord
  <2>3. store'[m].version = 0 => store'[m] = store[m]
    BY <1>2, <2>2 DEF StoreFollows, Follows
  <2> QED BY <2>1, <2>3 DEF StoreOK
<1>5. StoreOK'
  BY <1>3, <1>4 DEF StoreOK
<1>6. \A m \in C : store'[m].status = "InFlight"
  BY <1>1, ClaimFollows DEF Pending, Existing
<1>7. \A m \in Messages : store'[m].status = "Published" => store[m].status = "Published"
  BY <1>1, ClaimFollows
<1> QED BY <1>2, <1>5, <1>6, <1>7
-----------------------------------------------------------------------------
(***************************************************************************)
(* The invariant is kept.                                                  *)
(***************************************************************************)

\* When the store follows and no driver gets new messages or changes a copy,
\* copies stay sound.
LEMMA CopiesKept ==
  ASSUME StoreOK, StoreOK', RestOK, RestOK', CopiesAreSound, StoreFollows,
         local' = local,
         \A d \in Drivers : pc'[d] \in {"batch", "commit"} =>
           pc[d] \in {"batch", "commit"} /\ held'[d] \subseteq held[d]
  PROVE  CopiesAreSound'
<1> SUFFICES ASSUME NEW d \in Drivers, pc'[d] \in {"batch", "commit"}, NEW m \in held'[d]
             PROVE  LET c == local[d][m]
                        s == store'[m]
                    IN  /\ c.committed_version <= c.version
                        /\ c.committed_version <= s.version
                        /\ c.committed_version = s.version =>
                             /\ s.status \notin {"Published", "Failed"}
                             /\ c.version = c.committed_version => c = s
  BY DEF CopiesAreSound
<1>1. d \in Workers /\ m \in held[d] /\ m \in Messages
  BY OutboxAssumption DEF OutboxAssumption, RestOK
<1>2. /\ local[d][m].committed_version \in Nat /\ local[d][m].version \in Nat
      /\ store[m].version \in Nat /\ store'[m].version \in Nat
  BY <1>1 DEF RestOK, StoreOK, OutboxMessageRecord
<1>3. store'[m] = store[m] \/ store'[m].version > store[m].version
  BY <1>1 DEF StoreFollows, Follows
<1> QED BY <1>1, <1>2, <1>3 DEF CopiesAreSound

\* The parts of the invariant.
Inv == StoreOK /\ RestOK /\ PublishedWasDelivered /\ ClaimsOfDeliveryAreTrue
       /\ CopiesAreSound

LEMMA InvIsOutboxInv == (Inv <=> OutboxInv) /\ (Inv' <=> OutboxInv')
  BY TypeParts DEF Inv, OutboxInv

\* Steps of producers and operators.
LEMMA EnvironmentStep ==
  ASSUME Inv, NEW m \in Messages, Create(m) \/ ManualRelease(m) \/ ManualFail(m)
  PROVE  Inv' /\ StoreFollows
<1> USE DEF Inv
<1>1. UNCHANGED <<pc, held, current, local, batch, delivered>>
  BY DEF Create, ManualRelease, ManualFail
<1>2. RestOK'
  BY <1>1 DEF RestOK, Create, ManualRelease, ManualFail
<1>3. /\ StoreOK' /\ StoreFollows
      /\ \A k \in Messages : store'[k].status = "Published" => store[k].status = "Published"
  <2>1. CASE Create(m)
    BY <2>1, CreateStep
  <2>2. CASE ManualRelease(m)
    <3>1. store' = [store EXCEPT ![m] = Stored(Release(@))]
      BY <2>2 DEF ManualRelease
    <3> QED BY <3>1, CommandStep, CommandsFollow DEF StoreOK
  <2>3. CASE ManualFail(m)
    <3>1. store' = [store EXCEPT ![m] = Stored(Fail(@))]
      BY <2>3 DEF ManualFail
    <3> QED BY <3>1, CommandStep, CommandsFollow DEF StoreOK
  <2> QED BY <2>1, <2>2, <2>3
<1>4. CopiesAreSound'
  BY <1>1, <1>2, <1>3, CopiesKept
<1> QED BY <1>1, <1>2, <1>3, <1>4 DEF PublishedWasDelivered, ClaimsOfDeliveryAreTrue

\* Steps of a worker thread inside a batch.
LEMMA ThreadBatchStep ==
  ASSUME Inv, NEW t \in Threads,
         \/ \E m \in Messages : PublishOk(t, m) \/ PublishErr(t, m)
         \/ CompleteOutboxMessage(t)
         \/ ReleaseOutboxMessage(t)
         \/ Stop(t)
         \/ Crash(t)
  PROVE  Inv' /\ StoreFollows
<1> USE DEF Inv
<1>0. t \in Workers /\ t \notin Drivers /\ Drivers \subseteq Workers
  BY OutboxAssumption DEF OutboxAssumption
<1>1. RestOK'
  <2>1. CASE \E m \in Messages : PublishOk(t, m) \/ PublishErr(t, m)
    <3>1. PICK m \in Messages : PublishOk(t, m) \/ PublishErr(t, m)
      BY <2>1
    <3>a. current' = [current EXCEPT ![t] = {m}]
      BY <3>1 DEF PublishOk, PublishErr
    <3>b. \E p \in Places : pc' = [pc EXCEPT ![t] = p]
      BY <3>1 DEF PublishOk, PublishErr, Places
    <3>2. current' \in [Workers -> SUBSET Messages] /\ pc' \in [Workers -> Places]
      BY <3>a, <3>b DEF RestOK
    <3>3. delivered' \in [Messages -> Nat] /\ faults' \in Nat
      <4>1. CASE PublishOk(t, m)
        BY <4>1 DEF PublishOk, RestOK
      <4>2. CASE PublishErr(t, m)
        BY <4>2 DEF PublishErr, RestOK
      <4> QED BY <3>1, <4>1, <4>2
    <3>4. UNCHANGED <<held, local, batch, crashes>>
      BY <3>1 DEF PublishOk, PublishErr
    <3> QED BY <3>2, <3>3, <3>4 DEF RestOK
  <2>2. CASE CompleteOutboxMessage(t) \/ ReleaseOutboxMessage(t)
    <3>1. NextInBatch(t)
      BY <2>2 DEF CompleteOutboxMessage, ReleaseOutboxMessage
    <3>2. current' \in [Workers -> SUBSET Messages] /\ held' \in [Workers -> SUBSET Messages]
      BY <3>1 DEF NextInBatch, RestOK
    <3>3. pc' \in [Workers -> Places]
      BY <3>1 DEF NextInBatch, RestOK, Places
    <3> QED BY <3>1, <3>2, <3>3 DEF NextInBatch, RestOK
  <2>3. CASE Stop(t) \/ Crash(t)
    BY <2>3 DEF Stop, Crash, RestOK, Places
  <2> QED BY <2>1, <2>2, <2>3
<1>2. /\ local' = local
      /\ \A d \in Workers : d # t => /\ pc'[d] = pc[d] /\ held'[d] = held[d]
                                    /\ current'[d] = current[d]
      /\ \A m \in Messages : delivered[m] <= delivered'[m]
  BY DEF PublishOk, PublishErr, CompleteOutboxMessage, ReleaseOutboxMessage, NextInBatch,
         Stop, Crash, RestOK
<1>3. pc'[t] = "published" => \A m \in current'[t] : delivered'[m] > 0
  BY <1>0 DEF PublishOk, PublishErr, CompleteOutboxMessage, ReleaseOutboxMessage,
         NextInBatch, Stop, Crash, RestOK
<1>4. /\ StoreOK' /\ StoreFollows
      /\ \A m \in Messages : store'[m].status = "Published" =>
           store[m].status = "Published" \/ delivered[m] > 0
  <2>1. CASE UNCHANGED store
    BY <2>1 DEF StoreOK, StoreFollows, Follows
  <2>2. CASE CompleteOutboxMessage(t)
    <3>1. PICK m \in current[t] : store' = [store EXCEPT ![m] = Stored(Complete(@))]
      BY <2>2 DEF CompleteOutboxMessage
    <3>2. m \in Messages /\ delivered[m] > 0
      BY <1>0, <2>2, <3>1 DEF CompleteOutboxMessage, ClaimsOfDeliveryAreTrue, RestOK
    <3> QED BY <3>1, <3>2, CommandStep DEF StoreOK
  <2>3. CASE ReleaseOutboxMessage(t)
    <3>1. PICK m \in current[t] : store' = [store EXCEPT ![m] = Stored(Release(@))]
      BY <2>3 DEF ReleaseOutboxMessage
    <3>2. m \in Messages
      BY <1>0, <3>1 DEF RestOK
    <3> QED BY <3>1, <3>2, CommandStep, CommandsFollow DEF StoreOK
  <2> QED BY <2>1, <2>2, <2>3 DEF PublishOk, PublishErr, Stop, Crash
<1>5. CopiesAreSound'
  BY <1>0, <1>1, <1>2, <1>4, CopiesKept
<1>6. \A m \in Messages : delivered[m] \in Nat /\ delivered'[m] \in Nat
  BY <1>1 DEF RestOK
<1>7. PublishedWasDelivered'
  BY <1>2, <1>4, <1>6 DEF PublishedWasDelivered
<1>8. ClaimsOfDeliveryAreTrue'
  <2>1. ASSUME NEW w \in Workers, pc'[w] = "published", NEW m \in current'[w]
        PROVE  delivered'[m] > 0
    <3>1. m \in Messages
      BY <1>1, <2>1 DEF RestOK
    <3> QED BY <1>2, <1>3, <1>6, <2>1, <3>1 DEF ClaimsOfDeliveryAreTrue
  <2>2. ASSUME NEW w \in Workers, NEW m \in Messages, local'[w][m].status = "Published"
        PROVE  delivered'[m] > 0
    BY <1>2, <1>6, <2>2 DEF ClaimsOfDeliveryAreTrue
  <2> QED BY <2>1, <2>2 DEF ClaimsOfDeliveryAreTrue
<1> QED BY <1>1, <1>4, <1>5, <1>7, <1>8

\* A driver, or a thread, starts a batch.
LEMMA StartBatchStep ==
  ASSUME Inv, NEW w \in Workers, ClaimOutboxMessages(w) \/ (w \in Drivers /\ LoadPending(w))
  PROVE  Inv' /\ StoreFollows
<1> USE DEF Inv
<1>1. /\ UNCHANGED <<current, delivered, faults, crashes>>
      /\ pc' = [pc EXCEPT ![w] = "batch"]
  BY DEF ClaimOutboxMessages, LoadPending
<1>2. PICK C \in SUBSET Pending :
        /\ held' = [held EXCEPT ![w] = C]
        /\ \E B \in SUBSET C : batch' = [batch EXCEPT ![w] = B]
        /\ local' = local \/ local' = [local EXCEPT ![w] = store']
        /\ w \in Drivers => local' = [local EXCEPT ![w] = store']
        /\ \/ store' = [m \in Messages |->
                 IF m \in C THEN Stored(ClaimFor(store[m], w)) ELSE store[m]]
           \/ store' = store
  <2>1. CASE ClaimOutboxMessages(w)
    <3>1. PICK C \in Take(Pending, Claim) :
            /\ store' = [m \in Messages |->
                 IF m \in C THEN Stored(ClaimFor(store[m], w)) ELSE store[m]]
            /\ held' = [held EXCEPT ![w] = C]
            /\ \E B \in Take(C, BatchSize) :
                 batch' = [batch EXCEPT ![w] = IF w \in Drivers THEN B ELSE {}]
            /\ local' = [local EXCEPT ![w] = IF w \in Drivers THEN store' ELSE @]
      BY <2>1 DEF ClaimOutboxMessages
    <3>2. C \in SUBSET Pending
      BY TakeSubset
    <3>3. \E B \in SUBSET C : batch' = [batch EXCEPT ![w] = B]
      <4>1. PICK B \in Take(C, BatchSize) :
                 batch' = [batch EXCEPT ![w] = IF w \in Drivers THEN B ELSE {}]
        BY <3>1
      <4>2. B \in SUBSET C /\ {} \in SUBSET C
        BY TakeSubset
      <4> QED BY <4>1, <4>2
    <3>4. w \notin Drivers => local' = local
      BY <3>1 DEF RestOK
    <3> QED BY <3>1, <3>2, <3>3, <3>4
  <2>2. CASE w \in Drivers /\ LoadPending(w)
    <3>1. PICK B \in Take(Pending, BatchSize) : batch' = [batch EXCEPT ![w] = B]
      BY <2>2 DEF LoadPending
    <3>2. B \in SUBSET Pending
      BY TakeSubset
    <3> QED BY <2>2, <3>1, <3>2 DEF LoadPending
  <2> QED BY <2>1, <2>2
<1>3. /\ StoreOK' /\ StoreFollows
      /\ \A m \in C : store'[m].status \in {"InFlight", "Pending"}
      /\ \A m \in Messages : store'[m].status = "Published" => store[m].status = "Published"
  <2>1. CASE store' = store
    BY <2>1 DEF StoreOK, StoreFollows, Follows, Pending, Existing, IsPending
  <2>2. CASE store' = [m \in Messages |->
                 IF m \in C THEN Stored(ClaimFor(store[m], w)) ELSE store[m]]
    BY <2>2, ClaimStep
  <2> QED BY <1>2, <2>1, <2>2
<1>4. RestOK'
  <2>1. C \subseteq Messages
    BY PendingAreMessages
  <2>2. held' \in [Workers -> SUBSET Messages] /\ batch' \in [Workers -> SUBSET Messages]
    BY <1>2, <2>1 DEF RestOK
  <2>3. local' \in [Workers -> [Messages -> OutboxMessageRecord]]
    BY <1>2, <1>3 DEF RestOK, StoreOK
  <2>4. pc' \in [Workers -> Places]
    BY <1>1 DEF RestOK, Places
  <2> QED BY <1>1, <2>2, <2>3, <2>4 DEF RestOK
<1>5. PublishedWasDelivered'
  BY <1>1, <1>3 DEF PublishedWasDelivered
<1>6. ClaimsOfDeliveryAreTrue'
  <2>1. \A v \in Workers : pc'[v] = "published" => pc[v] = "published"
    BY <1>1 DEF RestOK
  <2>2. \A v \in Workers : local'[v] = local[v] \/ local'[v] = store'
    BY <1>2 DEF RestOK
  <2> QED BY <1>1, <1>5, <2>1, <2>2 DEF ClaimsOfDeliveryAreTrue, PublishedWasDelivered
<1>7. CopiesAreSound'
  <2> SUFFICES ASSUME NEW d \in Drivers, pc'[d] \in {"batch", "commit"}, NEW m \in held'[d]
               PROVE  LET c == local'[d][m]
                          s == store'[m]
                      IN  /\ c.committed_version <= c.version
                          /\ c.committed_version <= s.version
                          /\ c.committed_version = s.version =>
                               /\ s.status \notin {"Published", "Failed"}
                               /\ c.version = c.committed_version => c = s
    BY DEF CopiesAreSound
  <2>0. d \in Workers /\ m \in Messages
    BY <1>4, OutboxAssumption DEF OutboxAssumption, RestOK
  <2>1. CASE d = w
    <3>1. m \in C /\ local'[d][m] = store'[m]
      BY <1>2, <2>0, <2>1 DEF RestOK
    <3>2. store'[m].version \in Nat /\ store'[m].committed_version = store'[m].version
      BY <1>3, <2>0 DEF StoreOK, OutboxMessageRecord
    <3> QED BY <1>3, <3>1, <3>2
  <2>2. CASE d # w
    <3>1. pc'[d] = pc[d] /\ held'[d] = held[d] /\ local'[d] = local[d]
      BY <1>1, <1>2, <2>0, <2>2 DEF RestOK
    <3>2. /\ local[d][m].committed_version \in Nat /\ local[d][m].version \in Nat
          /\ store[m].version \in Nat /\ store'[m].version \in Nat
      BY <1>3, <2>0 DEF RestOK, StoreOK, OutboxMessageRecord
    <3>3. store'[m] = store[m] \/ store'[m].version > store[m].version
      BY <1>3, <2>0 DEF StoreFollows, Follows
    <3> QED BY <3>1, <3>2, <3>3 DEF CopiesAreSound
  <2> QED BY <2>1, <2>2
<1> QED BY <1>3, <1>4, <1>5, <1>6, <1>7

\* process_message changes a copy only.
LEMMA ProcessStep ==
  ASSUME Inv, NEW d \in Drivers, NEW m \in Messages, NEW ok \in BOOLEAN,
         ProcessMessage(d, m, ok)
  PROVE  Inv' /\ StoreFollows
<1> USE DEF Inv
<1>0. d \in Workers /\ Drivers \subseteq Workers
  BY OutboxAssumption DEF OutboxAssumption
<1>1. UNCHANGED <<store, pc, held, current, crashes>>
  BY DEF ProcessMessage
<1>2. StoreOK' /\ StoreFollows
  BY <1>1 DEF StoreOK, StoreFollows, Follows
<1> DEFINE c == local[d][m]
           c2 == Processed(c, d, ok)
<1>3. /\ c \in OutboxMessageRecord /\ c2 \in OutboxMessageRecord
      /\ c2.committed_version = c.committed_version
      /\ c2 = c \/ c2.version > c.version
      /\ ~ ok /\ c2.status = "Published" => c.status = "Published"
  <2>1. c \in OutboxMessageRecord
    BY <1>0 DEF RestOK
  <2> QED BY <1>0, <2>1, ProcessedCopy
<1>4. local' = [local EXCEPT ![d][m] = c2]
  BY DEF ProcessMessage
<1> HIDE DEF c2
<1>5. /\ local' \in [Workers -> [Messages -> OutboxMessageRecord]]
      /\ \A v \in Workers, k \in Messages :
           local'[v][k] = IF v = d /\ k = m THEN c2 ELSE local[v][k]
  BY <1>0, <1>3, <1>4 DEF RestOK
<1>6. /\ delivered' \in [Messages -> Nat]
      /\ \A k \in Messages : delivered[k] <= delivered'[k]
      /\ ok => delivered'[m] > 0
  BY DEF ProcessMessage, RestOK
<1>7. RestOK'
  <2>1. faults' \in Nat
    BY DEF ProcessMessage, RestOK
  <2>2. batch' \in [Workers -> SUBSET Messages]
    BY DEF ProcessMessage, RestOK
  <2> QED BY <1>1, <1>5, <1>6, <2>1, <2>2 DEF RestOK
<1>8. \A k \in Messages : delivered[k] \in Nat /\ delivered'[k] \in Nat
  BY <1>6 DEF RestOK
<1>9. PublishedWasDelivered'
  BY <1>1, <1>6, <1>8 DEF PublishedWasDelivered
<1>10. ClaimsOfDeliveryAreTrue'
  <2>1. ASSUME NEW w \in Workers, pc'[w] = "published", NEW k \in current'[w]
        PROVE  delivered'[k] > 0
    <3>1. k \in Messages /\ delivered[k] > 0
      BY <1>1, <2>1 DEF ClaimsOfDeliveryAreTrue, RestOK
    <3> QED BY <1>6, <1>8, <3>1
  <2>2. ASSUME NEW w \in Workers, NEW k \in Messages, local'[w][k].status = "Published"
        PROVE  delivered'[k] > 0
    <3>1. CASE w = d /\ k = m
      <4>1. c2.status = "Published"
        BY <1>5, <2>2, <3>1
      <4>2. CASE ok
        BY <1>6, <3>1, <4>2
      <4>3. CASE ~ ok
        <5>1. delivered[m] > 0
          BY <1>0, <1>3, <4>1, <4>3 DEF ClaimsOfDeliveryAreTrue
        <5> QED BY <1>6, <1>8, <3>1, <5>1
      <4> QED BY <4>2, <4>3
    <3>2. CASE ~ (w = d /\ k = m)
      BY <1>5, <1>6, <1>8, <2>2, <3>2 DEF ClaimsOfDeliveryAreTrue
    <3> QED BY <3>1, <3>2
  <2> QED BY <2>1, <2>2 DEF ClaimsOfDeliveryAreTrue
<1>11. CopiesAreSound'
  <2> SUFFICES ASSUME NEW e \in Drivers, pc[e] \in {"batch", "commit"}, NEW k \in held[e]
               PROVE  LET x == local'[e][k]
                          s == store[k]
                      IN  /\ x.committed_version <= x.version
                          /\ x.committed_version <= s.version
                          /\ x.committed_version = s.version =>
                               /\ s.status \notin {"Published", "Failed"}
                               /\ x.version = x.committed_version => x = s
    BY <1>1 DEF CopiesAreSound
  <2>1. e \in Workers /\ k \in Messages
    BY <1>0 DEF RestOK
  <2>2. CASE e = d /\ k = m
    <3>1. local'[e][k] = c2
      BY <1>5, <2>1, <2>2
    <3>2. /\ c.version \in Nat /\ c.committed_version \in Nat /\ c2.version \in Nat
          /\ store[m].version \in Nat
      BY <1>3 DEF OutboxMessageRecord, StoreOK
    <3>3. /\ c.committed_version <= c.version
          /\ c.committed_version <= store[m].version
          /\ c.committed_version = store[m].version =>
               /\ store[m].status \notin {"Published", "Failed"}
               /\ c.version = c.committed_version => c = store[m]
      BY <2>2 DEF CopiesAreSound
    <3> HIDE DEF c
    <3> QED BY <1>3, <2>2, <3>1, <3>2, <3>3
  <2>3. CASE ~ (e = d /\ k = m)
    BY <1>5, <2>1, <2>3 DEF CopiesAreSound
  <2> QED BY <2>2, <2>3
<1> QED BY <1>2, <1>7, <1>9, <1>10, <1>11

\* The driver's commits: one that the version check lets through rewrites a
\* message nobody touched.
LEMMA DriverCommitStep ==
  ASSUME Inv, NEW d \in Drivers,
         \/ \E m \in Messages : CommitMessage(d, m) \/ CommitConflict(d, m)
         \/ BatchDone(d)
  PROVE  Inv' /\ StoreFollows
<1> USE DEF Inv
<1>0. d \in Workers /\ Drivers \subseteq Workers
  BY OutboxAssumption DEF OutboxAssumption
<1>1. UNCHANGED <<current, local, batch, delivered, faults, crashes>>
  BY DEF CommitMessage, CommitConflict, BatchDone
<1>2. RestOK'
  <2>1. held' \in [Workers -> SUBSET Messages]
    BY DEF CommitMessage, CommitConflict, BatchDone, RestOK
  <2>2. pc' \in [Workers -> Places]
    BY DEF CommitMessage, CommitConflict, BatchDone, RestOK, Places
  <2> QED BY <1>1, <2>1, <2>2 DEF RestOK
<1>3. /\ \A e \in Workers : e # d => pc'[e] = pc[e] /\ held'[e] = held[e]
      /\ pc[d] \in {"batch", "commit"} /\ pc'[d] # "published"
      /\ held'[d] \subseteq held[d]
  BY <1>0 DEF CommitMessage, CommitConflict, BatchDone, RestOK
<1>4. /\ StoreOK' /\ StoreFollows
      /\ \A k \in Messages : store'[k].status = "Published" =>
           store[k].status = "Published" \/ delivered[k] > 0
  <2>1. ASSUME NEW m \in Messages, CommitMessage(d, m)
        PROVE  /\ StoreOK' /\ StoreFollows
               /\ \A k \in Messages : store'[k].status = "Published" =>
                    store[k].status = "Published" \/ delivered[k] > 0
    <3> DEFINE c == local[d][m]
    <3>1. /\ store' = [store EXCEPT ![m] = Stored(c)]
          /\ c.committed_version = store[m].version
      BY <2>1 DEF CommitMessage
    <3>2. /\ c \in OutboxMessageRecord /\ Stored(c) \in OutboxMessageRecord
      <4>1. c \in OutboxMessageRecord
        BY <1>0 DEF RestOK
      <4> QED BY <4>1, CommandsType
    <3>3. /\ Stored(c).version = c.version /\ Stored(c).committed_version = c.version
          /\ Stored(c).status = c.status
      BY DEF Stored
    <3>4. /\ c.committed_version <= c.version
          /\ store[m].status \notin Settled
          /\ c.version = c.committed_version => c = store[m]
      BY <2>1, <3>1 DEF CommitMessage, CopiesAreSound, Settled
    <3>5. c = store[m] => Stored(c) = store[m]
      BY <3>2 DEF Stored, OutboxMessageRecord, StoreOK
    <3>6. c.version \in Nat /\ c.committed_version \in Nat
      BY <3>2 DEF OutboxMessageRecord
    <3>7. c.status = "Published" => delivered[m] > 0
      BY <1>0 DEF ClaimsOfDeliveryAreTrue
    <3> HIDE DEF c
    <3>8. Follows(store[m], Stored(c))
      BY <3>1, <3>3, <3>4, <3>5, <3>6 DEF Follows
    <3>9. StoreOK' /\ StoreFollows
      BY <3>1, <3>2, <3>3, <3>8, OneFollows
    <3> QED BY <3>1, <3>3, <3>7, <3>9 DEF StoreOK
  <2>2. CASE UNCHANGED store
    BY <2>2 DEF StoreOK, StoreFollows, Follows
  <2> QED BY <2>1, <2>2 DEF CommitConflict, BatchDone
<1>5. CopiesAreSound'
  BY <1>0, <1>1, <1>2, <1>3, <1>4, CopiesKept
<1>6. PublishedWasDelivered'
  BY <1>1, <1>4 DEF PublishedWasDelivered
<1>7. ClaimsOfDeliveryAreTrue'
  BY <1>1, <1>3 DEF ClaimsOfDeliveryAreTrue
<1> QED BY <1>2, <1>4, <1>5, <1>6, <1>7

\* Every step keeps the invariant, and the store follows.
LEMMA InvStep == Inv /\ [Next]_vars => Inv' /\ StoreFollows
<1> SUFFICES ASSUME Inv, [Next]_vars PROVE Inv' /\ StoreFollows
  OBVIOUS
<1>0. Threads \subseteq Workers /\ Drivers \subseteq Workers
  BY OutboxAssumption DEF OutboxAssumption
<1>1. ASSUME NEW m \in Messages, Create(m) \/ ManualRelease(m) \/ ManualFail(m)
      PROVE  Inv' /\ StoreFollows
  BY <1>1, EnvironmentStep
<1>2. ASSUME NEW t \in Threads, ThreadStep(t) \/ Stop(t) \/ Crash(t)
      PROVE  Inv' /\ StoreFollows
  <2>1. CASE ClaimOutboxMessages(t)
    BY <1>0, <2>1, StartBatchStep
  <2>2. CASE \/ \E m \in Messages : PublishOk(t, m) \/ PublishErr(t, m)
             \/ CompleteOutboxMessage(t) \/ ReleaseOutboxMessage(t)
             \/ Stop(t) \/ Crash(t)
    BY <2>2, ThreadBatchStep
  <2> QED BY <1>2, <2>1, <2>2 DEF ThreadStep
<1>3. ASSUME NEW d \in Drivers, DriverStep(d)
      PROVE  Inv' /\ StoreFollows
  <2>1. CASE ClaimOutboxMessages(d) \/ LoadPending(d)
    BY <1>0, <2>1, StartBatchStep
  <2>2. ASSUME NEW m \in Messages, NEW ok \in BOOLEAN, ProcessMessage(d, m, ok)
        PROVE  Inv' /\ StoreFollows
    BY <2>2, ProcessStep
  <2>3. ASSUME NEW m \in Messages, CommitMessage(d, m) \/ CommitConflict(d, m)
        PROVE  Inv' /\ StoreFollows
    BY <2>3, DriverCommitStep
  <2>4. CASE BatchDone(d)
    BY <2>4, DriverCommitStep
  <2> QED BY <1>3, <2>1, <2>2, <2>3, <2>4 DEF DriverStep
<1>4. CASE (\E w \in Workers : PollNothing(w)) \/ UNCHANGED vars
  BY <1>4 DEF PollNothing, vars, Inv, StoreOK, RestOK, StoreFollows, Follows,
     PublishedWasDelivered, ClaimsOfDeliveryAreTrue, CopiesAreSound
<1> QED BY <1>1, <1>2, <1>3, <1>4 DEF Next

LEMMA InvInit == Init => Inv
<1> SUFFICES ASSUME Init PROVE Inv
  OBVIOUS
<1>1. DefaultMessage \in OutboxMessageRecord /\ DefaultMessage.status = "Pending"
      /\ DefaultMessage.version = 0 /\ DefaultMessage.committed_version = 0
  BY DEF DefaultMessage, OutboxMessageRecord, OutboxMessageStatus
<1>2. StoreOK
  BY <1>1 DEF Init, StoreOK
<1>3. RestOK
  BY <1>1, OutboxAssumption DEF Init, RestOK, Places, OutboxAssumption
<1>4. PublishedWasDelivered /\ ClaimsOfDeliveryAreTrue
  BY <1>1 DEF Init, PublishedWasDelivered, ClaimsOfDeliveryAreTrue
<1>5. CopiesAreSound
  BY OutboxAssumption DEF Init, CopiesAreSound, OutboxAssumption
<1> QED BY <1>2, <1>3, <1>4, <1>5 DEF Inv

\* The inductive invariant holds of every outbox.
THEOREM OutboxInvariance == Spec => []OutboxInv
<1>1. Spec => []Inv
  BY InvInit, InvStep, PTL DEF Spec
<1> QED BY <1>1, InvIsOutboxInv, PTL

\* Type correctness.
THEOREM TypeCorrect == Spec => []TypeOK
<1>1. OutboxInv => TypeOK
  BY DEF OutboxInv
<1> QED BY <1>1, OutboxInvariance, PTL

\* No message is recorded as Published that was not delivered, whatever the
\* interleaving of threads, drivers, operators and crashes.
THEOREM PublishedAreDelivered == Spec => []PublishedWasDelivered
<1>1. OutboxInv => PublishedWasDelivered
  BY DEF OutboxInv
<1> QED BY <1>1, OutboxInvariance, PTL

\* Settled messages stay as they are.
THEOREM SettledStaySettled == Spec => SettledIsFinal
<1>1. Inv /\ [Next]_vars =>
        [\A m \in Messages : store[m].status \in {"Published", "Failed"}
                                => store'[m] = store[m]]_vars
  BY InvStep DEF StoreFollows, Follows, Settled
<1>2. Spec => []Inv
  BY InvInit, InvStep, PTL DEF Spec
<1> QED BY <1>1, <1>2, PTL DEF Spec, SettledIsFinal
=============================================================================
