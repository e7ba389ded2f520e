------------------------ MODULE OutboxDeliveryProofs ------------------------
(***************************************************************************)
(* Proofs about the deliveries of Outbox, where nobody takes a claimed     *)
(* message out of a worker's hands (ClaimFirst).  The invariant is         *)
(* DeliveryInv, on top of OutboxInv; NothingStranded is added to it where  *)
(* threads do not die and batches are visited in full (AllVisited), and    *)
(* DeliveryIsRecorded for what is given up.                                *)
(***************************************************************************)
EXTENDS OutboxProofs, FiniteSetTheorems

\* The invariant, worker by worker.
HeldOK(w) ==
  /\ pc[w] \in {"poll", "stopped"} => held[w] = {}
  /\ \A m \in held[w] : store[m].status = "InFlight" /\ store[m].worker_id = {w}

ThreadOK(t) ==
  /\ pc[t] # "commit"
  /\ pc[t] \in {"published", "refused"} => \E m \in held[t] : current[t] = {m}
  /\ \A m \in held[t] : \/ pc[t] \in {"published", "dead"} /\ m \in current[t]
                        \/ delivered[m] < store[m].attempts

DriverOK(d) ==
  pc[d] # "poll" =>
    /\ pc[d] = "batch" \/ (pc[d] = "commit" /\ batch[d] = {})
    /\ batch[d] \subseteq held[d]
    /\ \A m \in held[d] : /\ local[d][m].committed_version = store[m].version
                          /\ local[d][m].attempts = store[m].attempts
    /\ \A m \in batch[d] : local[d][m] = store[m] /\ delivered[m] < store[m].attempts

WorkerOK(w) ==
  /\ HeldOK(w)
  /\ w \in Threads => ThreadOK(w)
  /\ w \in Drivers => DriverOK(w)

Work == Inv /\ (\A w \in Workers : WorkerOK(w)) /\ DeliveriesAreAttempts

LEMMA WorkersAre ==
  /\ Threads \subseteq Workers /\ Drivers \subseteq Workers
  /\ \A w \in Workers : (w \in Threads <=> w \notin Drivers)
  BY OutboxAssumption DEF OutboxAssumption

LEMMA WorkIsDeliveryInv == /\ Work <=> OutboxInv /\ DeliveryInv
                           /\ Work' <=> OutboxInv' /\ DeliveryInv'
<1>1. (\A w \in Workers : WorkerOK(w)) <=> HeldIsClaimed /\ ThreadsAtWork /\ DriversAtWork
  BY WorkersAre DEF WorkerOK, HeldOK, ThreadOK, DriverOK, HeldIsClaimed, ThreadsAtWork,
                    DriversAtWork, IsInFlight
<1>2. (\A w \in Workers : WorkerOK(w)') <=> HeldIsClaimed' /\ ThreadsAtWork' /\ DriversAtWork'
  BY WorkersAre DEF WorkerOK, HeldOK, ThreadOK, DriverOK, HeldIsClaimed, ThreadsAtWork,
                    DriversAtWork, IsInFlight
<1> QED BY <1>1, <1>2, InvIsOutboxInv DEF Work, DeliveryInv

\* What the commands do to a message.
LEMMA CommandEffects ==
  ASSUME NEW s \in OutboxMessageRecord, NEW w \in Workers
  PROVE  /\ Stored(Complete(s)).attempts = s.attempts
         /\ Stored(Release(s)).attempts = s.attempts
         /\ Stored(Complete(s)).status # "InFlight"
         /\ Stored(Release(s)).status # "InFlight"
         /\ s.status = "Pending" => /\ Stored(ClaimFor(s, w)).status = "InFlight"
                                    /\ Stored(ClaimFor(s, w)).worker_id = {w}
                                    /\ Stored(ClaimFor(s, w)).attempts = s.attempts + 1
  BY DEF Complete, Release, ClaimFor, Stored, Changed, IsInFlight, IsPending,
         OutboxMessageRecord

\* What process_message does to a claimed message: it counts no further attempt
\* and leaves the message with nobody.
LEMMA ProcessedEffects ==
  ASSUME NEW s \in OutboxMessageRecord, NEW d \in Workers, NEW ok \in BOOLEAN,
         s.status = "InFlight"
  PROVE  /\ Processed(s, d, ok).attempts = s.attempts
         /\ Processed(s, d, ok).status # "InFlight"
  BY DEF Processed, ClaimFor, Complete, Release, Fail, Changed, IsInFlight, IsPending,
         CanFail, OutboxMessageRecord

\* Nobody else has what a worker holds, and nobody holds what is not in flight.
LEMMA HeldOnce ==
  ASSUME Work, NEW w \in Workers, NEW m \in held[w], NEW v \in Workers, v # w
  PROVE  m \notin held[v]
  BY DEF Work, WorkerOK, HeldOK

LEMMA HeldIsInFlight ==
  ASSUME Work, NEW w \in Workers, NEW m \in held[w]
  PROVE  m \in Messages /\ store[m].status = "InFlight" /\ store[m].worker_id = {w}
  BY DEF Work, WorkerOK, HeldOK, Inv, RestOK

\* A worker that does nothing, and whose messages nobody touches, is as before.
LEMMA WorkerKept ==
  ASSUME NEW w \in Workers, WorkerOK(w),
         pc'[w] = pc[w], held'[w] = held[w], current'[w] = current[w],
         batch'[w] = batch[w], local'[w] = local[w],
         \A m \in held[w] : store'[m] = store[m] /\ delivered'[m] = delivered[m]
  PROVE  WorkerOK(w)'
<1>1. HeldOK(w)'
  BY DEF WorkerOK, HeldOK
<1>2. w \in Threads => ThreadOK(w)'
  BY DEF WorkerOK, ThreadOK
<1>3. w \in Drivers => DriverOK(w)'
  <2> SUFFICES ASSUME w \in Drivers, DriverOK(w), pc[w] # "poll"
               PROVE  /\ pc[w] = "batch" \/ (pc[w] = "commit" /\ batch[w] = {})
                      /\ batch[w] \subseteq held[w]
                      /\ \A m \in held[w] : /\ local[w][m].committed_version = store'[m].version
                                            /\ local[w][m].attempts = store'[m].attempts
                      /\ \A m \in batch[w] : /\ local[w][m] = store'[m]
                                             /\ delivered'[m] < store'[m].attempts
    BY DEF WorkerOK, DriverOK
  <2> QED BY DEF DriverOK
<1> QED BY <1>1, <1>2, <1>3 DEF WorkerOK
-----------------------------------------------------------------------------
(***************************************************************************)
(* The steps                                                               *)
(***************************************************************************)

LEMMA DeliveryCreate ==
  ASSUME Work, NEW m \in Messages, Create(m), Inv'
  PROVE  Work'
<1>1. /\ m \notin Existing
      /\ store' = [store EXCEPT ![m] = Stored(Initialize(DefaultMessage))]
      /\ UNCHANGED <<pc, held, current, local, batch, delivered>>
  BY DEF Create
<1>2. store[m].version = 0
  BY <1>1 DEF Work, Inv, StoreOK, OutboxMessageRecord, Existing
<1>3. store[m] = DefaultMessage
  BY <1>2 DEF Work, Inv, StoreOK
<1>4. \A w \in Workers : m \notin held[w]
  BY <1>3, HeldIsInFlight DEF DefaultMessage
<1>5. \A k \in Messages : k # m => store'[k] = store[k]
  BY <1>1 DEF Work, Inv, StoreOK
<1>6. \A w \in Workers : WorkerOK(w)'
  <2> SUFFICES ASSUME NEW w \in Workers PROVE WorkerOK(w)'
    OBVIOUS
  <2>1. \A k \in held[w] : store'[k] = store[k]
    BY <1>4, <1>5, HeldIsInFlight
  <2> QED BY <1>1, <2>1, WorkerKept DEF Work
<1>7. store'[m].attempts = 0 /\ store[m].attempts = 0
  BY <1>1, <1>3 DEF Work, Inv, StoreOK, DefaultMessage, Initialize, Changed, Stored
<1>8. DeliveriesAreAttempts'
  BY <1>1, <1>5, <1>7 DEF Work, DeliveriesAreAttempts
<1> QED BY <1>6, <1>8 DEF Work

\* Claimed messages were pending, so nobody held them; each gets one more attempt.
LEMMA DeliveryClaim ==
  ASSUME Work, NEW w \in Workers, ClaimOutboxMessages(w), Inv'
  PROVE  Work'
<1> USE DEF Work
<1>1. PICK C \in Take(Pending, Claim) :
        /\ store' = [m \in Messages |->
             IF m \in C THEN Stored(ClaimFor(store[m], w)) ELSE store[m]]
        /\ held' = [held EXCEPT ![w] = C]
        /\ \E B \in Take(C, BatchSize) :
             batch' = [batch EXCEPT ![w] = IF w \in Drivers THEN B ELSE {}]
        /\ local' = [local EXCEPT ![w] = IF w \in Drivers THEN store' ELSE local[w]]
  BY DEF ClaimOutboxMessages
<1>2. PICK B \in Take(C, BatchSize) :
        batch' = [batch EXCEPT ![w] = IF w \in Drivers THEN B ELSE {}]
  BY <1>1
<1>3. C \subseteq Pending /\ B \subseteq C /\ C \subseteq Messages
  BY TakeSubset, PendingAreMessages
<1>4. /\ pc[w] = "poll" /\ pc' = [pc EXCEPT ![w] = "batch"]
      /\ UNCHANGED <<current, delivered>>
  BY DEF ClaimOutboxMessages
<1>5. \A m \in C : store[m] \in OutboxMessageRecord /\ store[m].status = "Pending"
  BY <1>3 DEF Pending, IsPending, Inv, StoreOK
<1>6. \A m \in C : /\ store'[m].status = "InFlight" /\ store'[m].worker_id = {w}
                   /\ store'[m].attempts = store[m].attempts + 1
  BY <1>1, <1>3, <1>5, CommandEffects
<1>7. \A m \in Messages \ C : store'[m] = store[m]
  BY <1>1
<1>8. \A m \in Messages : delivered[m] \in Nat /\ store[m].attempts \in Nat
                          /\ delivered[m] <= store[m].attempts
  BY DEF Inv, StoreOK, RestOK, OutboxMessageRecord, DeliveriesAreAttempts
<1>9. DeliveriesAreAttempts'
  BY <1>3, <1>4, <1>6, <1>7, <1>8 DEF DeliveriesAreAttempts
<1>10. /\ pc'[w] = "batch" /\ held'[w] = C
       /\ w \in Drivers => batch'[w] = B /\ local'[w] = store'
  BY <1>1, <1>2, <1>4 DEF Inv, RestOK
<1>11. \A v \in Workers : v # w => /\ pc'[v] = pc[v] /\ held'[v] = held[v]
                                   /\ current'[v] = current[v] /\ batch'[v] = batch[v]
                                   /\ local'[v] = local[v]
  BY <1>1, <1>2, <1>4 DEF Inv, RestOK
<1>12. ASSUME NEW v \in Workers, v # w PROVE WorkerOK(v)'
  <2>1. \A m \in held[v] : store'[m] = store[m] /\ delivered'[m] = delivered[m]
    BY <1>4, <1>5, <1>7, HeldIsInFlight
  <2> QED BY <1>11, <1>12, <2>1, WorkerKept
<1>13. \A m \in C : delivered'[m] < store'[m].attempts
  BY <1>3, <1>4, <1>6, <1>8
<1>14. WorkerOK(w)'
  <2>1. HeldOK(w)'
    BY <1>6, <1>10 DEF HeldOK
  <2>2. w \in Threads => ThreadOK(w)'
    BY <1>10, <1>13 DEF ThreadOK
  <2>3. \A m \in C : store'[m].committed_version = store'[m].version
    BY <1>3 DEF Inv, StoreOK
  <2>4. w \in Drivers => DriverOK(w)'
    BY <1>3, <1>10, <1>13, <2>3 DEF DriverOK
  <2> QED BY <2>1, <2>2, <2>4 DEF WorkerOK
<1> QED BY <1>9, <1>12, <1>14

\* A thread publishes, or tries to.
LEMMA DeliveryPublish ==
  ASSUME Work, NEW t \in Threads, NEW m \in Messages,
         PublishOk(t, m) \/ PublishErr(t, m), Inv'
  PROVE  Work'
<1> USE DEF Work
<1>0. t \in Workers /\ t \notin Drivers
  BY WorkersAre
<1>1. /\ pc[t] = "batch" /\ m \in held[t]
      /\ current' = [current EXCEPT ![t] = {m}]
      /\ UNCHANGED <<store, held, local, batch>>
      /\ \/ /\ delivered' = [delivered EXCEPT ![m] = delivered[m] + 1]
            /\ pc' = [pc EXCEPT ![t] = "published"]
         \/ delivered' = delivered /\ pc' = [pc EXCEPT ![t] = "refused"]
  BY DEF PublishOk, PublishErr
<1>2. /\ current'[t] = {m}
      /\ \/ pc'[t] = "published" /\ delivered'[m] = delivered[m] + 1
         \/ pc'[t] = "refused" /\ delivered'[m] = delivered[m]
      /\ \A k \in Messages : k # m => delivered'[k] = delivered[k]
      /\ \A v \in Workers : v # t => pc'[v] = pc[v] /\ current'[v] = current[v]
  BY <1>0, <1>1 DEF Inv, RestOK
<1>3. ThreadOK(t)
  BY <1>0 DEF WorkerOK
<1>4. /\ delivered[m] < store[m].attempts
      /\ delivered[m] \in Nat /\ store[m].attempts \in Nat
  BY <1>1, <1>3 DEF ThreadOK, Inv, RestOK, StoreOK, OutboxMessageRecord
<1>5. DeliveriesAreAttempts'
  <2>1. delivered'[m] <= store[m].attempts
    BY <1>2, <1>4
  <2> QED BY <1>1, <1>2, <2>1 DEF DeliveriesAreAttempts
<1>6. ASSUME NEW v \in Workers, v # t PROVE WorkerOK(v)'
  <2>1. \A k \in held[v] : k # m /\ k \in Messages
    BY <1>0, <1>1, <1>6, HeldOnce, HeldIsInFlight
  <2>2. \A k \in held[v] : store'[k] = store[k] /\ delivered'[k] = delivered[k]
    BY <1>1, <1>2, <2>1
  <2> QED BY <1>1, <1>2, <1>6, <2>2, WorkerKept
<1>7. WorkerOK(t)'
  <2>1. HeldOK(t)'
    BY <1>0, <1>1, <1>2 DEF WorkerOK, HeldOK
  <2>2. ThreadOK(t)'
    <3>1. ASSUME NEW k \in held[t]
          PROVE  (pc'[t] = "published" /\ k \in current'[t]) \/ delivered'[k] < store[k].attempts
      <4>1. CASE k = m
        BY <1>2, <1>4, <4>1
      <4>2. CASE k # m
        <5>1. k \in Messages
          BY <1>0, HeldIsInFlight
        <5> QED BY <1>1, <1>2, <1>3, <4>2, <5>1 DEF ThreadOK
      <4> QED BY <4>1, <4>2
    <3> QED BY <1>1, <1>2, <3>1 DEF ThreadOK
  <2> QED BY <1>0, <2>1, <2>2 DEF WorkerOK
<1> QED BY <1>5, <1>6, <1>7

\* A thread settles its current message and lets go of it.
LEMMA DeliverySettle ==
  ASSUME Work, NEW t \in Threads,
         CompleteOutboxMessage(t) \/ ReleaseOutboxMessage(t), Inv'
  PROVE  Work'
<1> USE DEF Work
<1>0. t \in Workers /\ t \notin Drivers
  BY WorkersAre
<1>1. ThreadOK(t) /\ HeldOK(t)
  BY <1>0 DEF WorkerOK
<1>2. pc[t] \in {"published", "refused"} /\ NextInBatch(t)
  BY DEF CompleteOutboxMessage, ReleaseOutboxMessage
<1>3. PICK m \in held[t] : current[t] = {m}
  BY <1>1, <1>2 DEF ThreadOK
<1>4. \/ store' = [store EXCEPT ![m] = Stored(Complete(store[m]))]
      \/ store' = [store EXCEPT ![m] = Stored(Release(store[m]))]
  BY <1>3 DEF CompleteOutboxMessage, ReleaseOutboxMessage
<1>5. /\ held' = [held EXCEPT ![t] = held[t] \ {m}]
      /\ current' = [current EXCEPT ![t] = {}]
      /\ pc' = [pc EXCEPT ![t] = IF held[t] = {m} THEN "poll" ELSE "batch"]
      /\ UNCHANGED <<local, batch, delivered>>
  BY <1>2, <1>3 DEF NextInBatch
<1>6. /\ held'[t] = held[t] \ {m}
      /\ pc'[t] = IF held[t] = {m} THEN "poll" ELSE "batch"
      /\ \A v \in Workers : v # t =>
           pc'[v] = pc[v] /\ current'[v] = current[v] /\ held'[v] = held[v]
  BY <1>0, <1>5 DEF Inv, RestOK
<1>7. m \in Messages /\ store[m] \in OutboxMessageRecord
  BY <1>0, HeldIsInFlight DEF Inv, StoreOK
<1>8. /\ store'[m].attempts = store[m].attempts
      /\ \A k \in Messages : k # m => store'[k] = store[k]
  BY <1>0, <1>4, <1>7, CommandEffects DEF Inv, StoreOK
<1>9. DeliveriesAreAttempts'
  BY <1>5, <1>8 DEF DeliveriesAreAttempts
<1>10. ASSUME NEW v \in Workers, v # t PROVE WorkerOK(v)'
  <2>1. \A k \in held[v] : store'[k] = store[k] /\ delivered'[k] = delivered[k]
    BY <1>0, <1>3, <1>5, <1>8, <1>10, HeldOnce, HeldIsInFlight
  <2> QED BY <1>5, <1>6, <1>10, <2>1, WorkerKept
<1>11. WorkerOK(t)'
  <2>1. \A k \in held'[t] : k \in held[t] /\ k \notin current[t] /\ store'[k] = store[k]
    BY <1>0, <1>3, <1>6, <1>8, HeldIsInFlight
  <2>2. HeldOK(t)'
    BY <1>1, <1>6, <2>1 DEF HeldOK
  <2>3. ThreadOK(t)'
    BY <1>1, <1>5, <1>6, <2>1 DEF ThreadOK
  <2> QED BY <1>0, <2>2, <2>3 DEF WorkerOK
<1> QED BY <1>9, <1>10, <1>11

\* A thread stops between batches, or dies with its batch in its hands.
LEMMA DeliveryEnd ==
  ASSUME Work, NEW t \in Threads, Stop(t) \/ Crash(t), Inv'
  PROVE  Work'
<1> USE DEF Work
<1>0. t \in Workers /\ t \notin Drivers
  BY WorkersAre
<1>1. /\ UNCHANGED <<store, held, current, local, batch, delivered>>
      /\ \/ pc[t] = "poll" /\ pc' = [pc EXCEPT ![t] = "stopped"]
         \/ /\ pc[t] \in {"batch", "published", "refused"}
            /\ pc' = [pc EXCEPT ![t] = "dead"]
  BY DEF Stop, Crash
<1>2. /\ \/ pc[t] = "poll" /\ pc'[t] = "stopped"
         \/ pc[t] \in {"batch", "published", "refused"} /\ pc'[t] = "dead"
      /\ \A v \in Workers : v # t => pc'[v] = pc[v]
  BY <1>0, <1>1 DEF Inv, RestOK
<1>3. ASSUME NEW v \in Workers, v # t PROVE WorkerOK(v)'
  BY <1>1, <1>2, <1>3, WorkerKept
<1>4. WorkerOK(t)'
  BY <1>0, <1>1, <1>2 DEF WorkerOK, HeldOK, ThreadOK
<1>5. DeliveriesAreAttempts'
  BY <1>1 DEF DeliveriesAreAttempts
<1> QED BY <1>3, <1>4, <1>5

\* process_message on a claimed message of the batch.
LEMMA DeliveryProcess ==
  ASSUME Work, NEW d \in Drivers, NEW m \in Messages, NEW ok \in BOOLEAN,
         ProcessMessage(d, m, ok), Inv'
  PROVE  Work'
<1> USE DEF Work
<1>0. d \in Workers /\ d \notin Threads
  BY WorkersAre
<1>1. /\ pc[d] = "batch" /\ m \in batch[d]
      /\ delivered' = IF ok THEN [delivered EXCEPT ![m] = delivered[m] + 1] ELSE delivered
      /\ local' = [local EXCEPT ![d][m] = Processed(local[d][m], d, ok)]
      /\ batch' = [batch EXCEPT ![d] = batch[d] \ {m}]
      /\ UNCHANGED <<store, pc, held, current>>
  BY DEF ProcessMessage
<1>2. HeldOK(d) /\ DriverOK(d)
  BY <1>0 DEF WorkerOK
<1>3. /\ m \in held[d] /\ local[d][m] = store[m] /\ delivered[m] < store[m].attempts
      /\ batch[d] \subseteq held[d]
  BY <1>1, <1>2 DEF DriverOK
<1>4. /\ store[m] \in OutboxMessageRecord /\ store[m].status = "InFlight"
      /\ delivered[m] \in Nat /\ store[m].attempts \in Nat
  BY <1>0, <1>3, HeldIsInFlight DEF Inv, StoreOK, RestOK, OutboxMessageRecord
<1>5. /\ \A k \in Messages : k # m => delivered'[k] = delivered[k]
      /\ delivered'[m] <= store[m].attempts
  BY <1>1, <1>3, <1>4 DEF Inv, RestOK
<1>6. /\ local'[d][m] = Processed(store[m], d, ok)
      /\ \A k \in Messages : k # m => local'[d][k] = local[d][k]
      /\ \A v \in Workers : v # d => local'[v] = local[v] /\ batch'[v] = batch[v]
      /\ batch'[d] = batch[d] \ {m}
  BY <1>0, <1>1, <1>3 DEF Inv, RestOK
<1>7. DeliveriesAreAttempts'
  BY <1>1, <1>5 DEF DeliveriesAreAttempts
<1>8. ASSUME NEW v \in Workers, v # d PROVE WorkerOK(v)'
  <2>1. \A k \in held[v] : store'[k] = store[k] /\ delivered'[k] = delivered[k]
    BY <1>0, <1>1, <1>3, <1>5, <1>8, HeldOnce, HeldIsInFlight
  <2> QED BY <1>1, <1>6, <1>8, <2>1, WorkerKept
<1>9. WorkerOK(d)'
  <2>1. HeldOK(d)'
    BY <1>1, <1>2 DEF HeldOK
  <2>2. /\ local'[d][m].committed_version = store[m].version
        /\ local'[d][m].attempts = store[m].attempts
    <3>1. /\ Processed(store[m], d, ok).committed_version = store[m].committed_version
          /\ Processed(store[m], d, ok).attempts = store[m].attempts
      BY <1>0, <1>4, ProcessedCopy, ProcessedEffects
    <3> QED BY <1>6, <3>1 DEF Inv, StoreOK
  <2>3. \A k \in held[d] : /\ local'[d][k].committed_version = store[k].version
                           /\ local'[d][k].attempts = store[k].attempts
    BY <1>0, <1>1, <1>2, <1>6, <2>2, HeldIsInFlight DEF DriverOK
  <2>4. \A k \in batch[d] \ {m} : local'[d][k] = store[k] /\ delivered'[k] < store[k].attempts
    BY <1>0, <1>1, <1>2, <1>3, <1>5, <1>6, HeldIsInFlight DEF DriverOK
  <2>5. DriverOK(d)'
    BY <1>1, <1>3, <1>6, <2>3, <2>4 DEF DriverOK
  <2> QED BY <1>0, <2>1, <2>5 DEF WorkerOK
<1> QED BY <1>7, <1>8, <1>9

LEMMA DeliveryBatchDone ==
  ASSUME Work, NEW d \in Drivers, BatchDone(d), Inv'
  PROVE  Work'
<1> USE DEF Work
<1>0. d \in Workers /\ d \notin Threads
  BY WorkersAre
<1>1. /\ pc[d] = "batch" /\ batch[d] = {} /\ pc' = [pc EXCEPT ![d] = "commit"]
      /\ UNCHANGED <<store, held, current, local, batch, delivered>>
  BY DEF BatchDone
<1>2. pc'[d] = "commit" /\ \A v \in Workers : v # d => pc'[v] = pc[v]
  BY <1>0, <1>1 DEF Inv, RestOK
<1>3. ASSUME NEW v \in Workers, v # d PROVE WorkerOK(v)'
  BY <1>1, <1>2, <1>3, WorkerKept
<1>4. WorkerOK(d)'
  BY <1>0, <1>1, <1>2 DEF WorkerOK, HeldOK, DriverOK
<1>5. DeliveriesAreAttempts'
  BY <1>1 DEF DeliveriesAreAttempts
<1> QED BY <1>3, <1>4, <1>5

\* The commit of a claimed message: the version check lets it through.
LEMMA DeliveryCommit ==
  ASSUME Work, NEW d \in Drivers, NEW m \in Messages, CommitMessage(d, m), Inv'
  PROVE  Work'
<1> USE DEF Work
<1>0. d \in Workers /\ d \notin Threads
  BY WorkersAre
<1>1. /\ pc[d] = "commit" /\ m \in held[d]
      /\ store' = [store EXCEPT ![m] = Stored(local[d][m])]
      /\ held' = [held EXCEPT ![d] = held[d] \ {m}]
      /\ pc' = [pc EXCEPT ![d] = IF held[d] = {m} THEN "poll" ELSE pc[d]]
      /\ UNCHANGED <<current, local, batch, delivered>>
  BY DEF CommitMessage
<1>2. HeldOK(d) /\ DriverOK(d)
  BY <1>0 DEF WorkerOK
<1>3. batch[d] = {} /\ local[d][m].attempts = store[m].attempts
  BY <1>1, <1>2 DEF DriverOK
<1>4. /\ store'[m].attempts = store[m].attempts
      /\ \A k \in Messages : k # m => store'[k] = store[k]
  BY <1>1, <1>3 DEF Inv, StoreOK, Stored
<1>5. /\ held'[d] = held[d] \ {m}
      /\ pc'[d] = IF held[d] = {m} THEN "poll" ELSE "commit"
      /\ \A v \in Workers : v # d => pc'[v] = pc[v] /\ held'[v] = held[v]
  BY <1>0, <1>1 DEF Inv, RestOK
<1>6. DeliveriesAreAttempts'
  BY <1>1, <1>4 DEF DeliveriesAreAttempts
<1>7. ASSUME NEW v \in Workers, v # d PROVE WorkerOK(v)'
  <2>1. \A k \in held[v] : store'[k] = store[k] /\ delivered'[k] = delivered[k]
    BY <1>0, <1>1, <1>4, <1>7, HeldOnce, HeldIsInFlight
  <2> QED BY <1>1, <1>5, <1>7, <2>1, WorkerKept
<1>8. WorkerOK(d)'
  <2>1. \A k \in held'[d] : k \in held[d] /\ store'[k] = store[k]
    BY <1>0, <1>4, <1>5, HeldIsInFlight
  <2>2. HeldOK(d)'
    BY <1>2, <1>5, <2>1 DEF HeldOK
  <2>3. DriverOK(d)'
    BY <1>1, <1>2, <1>3, <1>5, <2>1 DEF DriverOK
  <2> QED BY <1>0, <2>2, <2>3 DEF WorkerOK
<1> QED BY <1>6, <1>7, <1>8

\* Nobody changes a claimed message, so the commit of one never conflicts.
LEMMA CommitsNeverConflict ==
  ASSUME Work, NEW d \in Drivers, NEW m \in Messages
  PROVE  ~ CommitConflict(d, m)
<1> SUFFICES ASSUME CommitConflict(d, m) PROVE FALSE
  OBVIOUS
<1>1. DriverOK(d)
  BY WorkersAre DEF Work, WorkerOK
<1> QED BY <1>1 DEF CommitConflict, DriverOK

LEMMA WorkKeptUnchanged ==
  ASSUME Work, UNCHANGED vars
  PROVE  Work'
<1>1. UNCHANGED <<store, pc, held, current, local, batch, delivered>>
  BY DEF vars
<1>2. \A w \in Workers : WorkerOK(w)'
  BY <1>1, WorkerKept DEF Work
<1>3. Inv'
  BY InvStep DEF Work
<1> QED BY <1>1, <1>2, <1>3 DEF Work, DeliveriesAreAttempts

\* The steps that are left when operators and loaders keep out.
LEMMA StepsLeft ==
  ASSUME ClaimFirst, Work, [Next]_vars
  PROVE  \/ \E m \in Messages : Create(m)
         \/ \E w \in Workers : ClaimOutboxMessages(w)
         \/ \E t \in Threads : \/ \E m \in Messages : PublishOk(t, m) \/ PublishErr(t, m)
                               \/ CompleteOutboxMessage(t) \/ ReleaseOutboxMessage(t)
                               \/ Stop(t) \/ Crash(t)
         \/ \E d \in Drivers : \/ \E m \in Messages : \/ \E ok \in BOOLEAN : ProcessMessage(d, m, ok)
                                                      \/ CommitMessage(d, m)
                               \/ BatchDone(d)
         \/ UNCHANGED vars
<1>1. \A m \in Messages : ~ ManualRelease(m) /\ ~ ManualFail(m)
  BY DEF ClaimFirst, ManualRelease, ManualFail
<1>2. \A d \in Drivers : ~ LoadPending(d) /\ \A m \in Messages : ~ CommitConflict(d, m)
  BY CommitsNeverConflict DEF ClaimFirst, LoadPending
<1>3. \A w \in Workers : PollNothing(w) => UNCHANGED vars
  BY DEF PollNothing
<1>4. CASE \E m \in Messages : Create(m) \/ ManualRelease(m) \/ ManualFail(m)
  BY <1>1, <1>4
<1>5. CASE \E t \in Threads : ThreadStep(t) \/ Stop(t) \/ Crash(t)
  BY <1>5, WorkersAre DEF ThreadStep
<1>6. CASE \E d \in Drivers : DriverStep(d)
  BY <1>2, <1>6, WorkersAre DEF DriverStep
<1>7. CASE (\E w \in Workers : PollNothing(w)) \/ UNCHANGED vars
  BY <1>3, <1>7
<1> QED BY <1>4, <1>5, <1>6, <1>7 DEF Next

LEMMA WorkStep ==
  ASSUME ClaimFirst, Work, [Next]_vars
  PROVE  Work'
<1>1. Inv'
  BY InvStep DEF Work
<1>2. CASE \E m \in Messages : Create(m)
  BY <1>1, <1>2, DeliveryCreate
<1>3. CASE \E w \in Workers : ClaimOutboxMessages(w)
  BY <1>1, <1>3, DeliveryClaim
<1>4. CASE \E t \in Threads : \/ \E m \in Messages : PublishOk(t, m) \/ PublishErr(t, m)
                              \/ CompleteOutboxMessage(t) \/ ReleaseOutboxMessage(t)
                              \/ Stop(t) \/ Crash(t)
  BY <1>1, <1>4, DeliveryPublish, DeliverySettle, DeliveryEnd
<1>5. CASE \E d \in Drivers : \/ \E m \in Messages : \/ \E ok \in BOOLEAN : ProcessMessage(d, m, ok)
                                                     \/ CommitMessage(d, m)
                              \/ BatchDone(d)
  BY <1>1, <1>5, DeliveryProcess, DeliveryCommit, DeliveryBatchDone
<1>6. CASE UNCHANGED vars
  BY <1>6, WorkKeptUnchanged
<1> QED BY <1>2, <1>3, <1>4, <1>5, <1>6, StepsLeft

LEMMA WorkInit == Init => Work
<1> SUFFICES ASSUME Init PROVE Work
  OBVIOUS
<1>1. Inv
  BY InvInit
<1>2. \A w \in Workers : WorkerOK(w)
  BY DEF Init, WorkerOK, HeldOK, ThreadOK, DriverOK
<1>3. DeliveriesAreAttempts
  BY DEF Init, DeliveriesAreAttempts, DefaultMessage
<1> QED BY <1>1, <1>2, <1>3 DEF Work
-----------------------------------------------------------------------------
(***************************************************************************)
(* No message is stranded.                                                 *)
(***************************************************************************)

\* With enough room in the batch, process_batch visits all that was claimed.
LEMMA BatchIsAll ==
  ASSUME AllVisited, NEW C \in Take(Pending, Claim), NEW B \in Take(C, BatchSize)
  PROVE  B = C
<1>1. Claim \in Nat /\ BatchSize \in Nat /\ Claim <= BatchSize /\ IsFiniteSet(Messages)
  BY OutboxAssumption DEF OutboxAssumption, AllVisited
<1>2. C \subseteq Pending /\ B \subseteq C /\ Pending \subseteq Messages
  BY TakeSubset, PendingAreMessages
<1>3. IsFiniteSet(C) /\ IsFiniteSet(Pending)
  BY <1>1, <1>2, FS_Subset
<1>4. Cardinality(C) \in Nat /\ Cardinality(C) <= Claim
  <2>1. Cardinality(C) \in Nat /\ Cardinality(Pending) \in Nat
    BY <1>3, FS_CardinalityType
  <2> QED BY <1>1, <2>1 DEF Take
<1>5. IsFiniteSet(B) /\ Cardinality(B) <= Cardinality(C)
      /\ (Cardinality(C) = Cardinality(B) => C = B)
  BY <1>2, <1>3, FS_Subset
<1>6. Cardinality(B) \in Nat
  BY <1>5, FS_CardinalityType
<1>7. Cardinality(B) = BatchSize \/ B = C
  BY DEF Take
<1> QED BY <1>1, <1>4, <1>5, <1>6, <1>7

\* Every message that comes to be in flight is held, and every one that a worker
\* lets go of is no longer in flight.
LEMMA StrandedStep ==
  ASSUME ClaimFirst, AllVisited, Work, Work', NothingStranded, [Next]_vars
  PROVE  NothingStranded'
<1> USE DEF Work
<1>0. /\ crashes = 0 /\ \A w \in Workers : pc[w] # "dead"
      /\ \A m \in Messages : store[m].status = "InFlight" => \E w \in Workers : m \in held[w]
      /\ \A d \in Drivers : pc[d] # "poll" =>
           \A m \in held[d] \ batch[d] : local[d][m].status # "InFlight"
  BY DEF NothingStranded, IsInFlight
<1>1. ASSUME NEW m \in Messages, Create(m)
      PROVE  NothingStranded'
  <2>1. /\ UNCHANGED <<pc, held, local, batch, crashes>>
        /\ store' = [store EXCEPT ![m] = Stored(Initialize(DefaultMessage))]
    BY <1>1 DEF Create
  <2>2. store'[m].status = "Pending" /\ \A k \in Messages : k # m => store'[k] = store[k]
    BY <2>1 DEF Inv, StoreOK, Stored, Initialize, Changed
  <2> QED BY <1>0, <2>1, <2>2 DEF NothingStranded, IsInFlight
<1>2. ASSUME NEW w \in Workers, ClaimOutboxMessages(w)
      PROVE  NothingStranded'
  <2>1. PICK C \in Take(Pending, Claim) :
          /\ store' = [m \in Messages |->
               IF m \in C THEN Stored(ClaimFor(store[m], w)) ELSE store[m]]
          /\ held' = [held EXCEPT ![w] = C]
          /\ \E B \in Take(C, BatchSize) :
               batch' = [batch EXCEPT ![w] = IF w \in Drivers THEN B ELSE {}]
          /\ local' = [local EXCEPT ![w] = IF w \in Drivers THEN store' ELSE local[w]]
    BY <1>2 DEF ClaimOutboxMessages
  <2>2. PICK B \in Take(C, BatchSize) :
          batch' = [batch EXCEPT ![w] = IF w \in Drivers THEN B ELSE {}]
    BY <2>1
  <2>3. B = C
    BY BatchIsAll
  <2>4. pc[w] = "poll" /\ pc' = [pc EXCEPT ![w] = "batch"] /\ crashes' = crashes
    BY <1>2 DEF ClaimOutboxMessages
  <2>5. /\ held'[w] = C /\ (w \in Drivers => batch'[w] = C)
        /\ pc'[w] = "batch"
        /\ \A v \in Workers : v # w => /\ held'[v] = held[v] /\ batch'[v] = batch[v]
                                       /\ local'[v] = local[v] /\ pc'[v] = pc[v]
    BY <2>1, <2>2, <2>3, <2>4 DEF Inv, RestOK
  <2>6. \A m \in Messages : store'[m].status = "InFlight" => \E v \in Workers : m \in held'[v]
    <3> SUFFICES ASSUME NEW m \in Messages, store'[m].status = "InFlight"
                 PROVE  \E v \in Workers : m \in held'[v]
      OBVIOUS
    <3>1. CASE m \in C
      BY <2>5, <3>1
    <3>2. CASE m \notin C
      <4>1. store'[m] = store[m]
        BY <2>1, <3>2
      <4>2. PICK v \in Workers : m \in held[v]
        BY <1>0, <4>1
      <4>3. held[w] = {}
        BY <2>4 DEF WorkerOK, HeldOK
      <4>4. v # w
        BY <4>2, <4>3
      <4> QED BY <2>5, <4>2, <4>4
    <3> QED BY <3>1, <3>2
  <2>7. \A d \in Drivers : pc'[d] # "poll" =>
          \A m \in held'[d] \ batch'[d] : local'[d][m].status # "InFlight"
    BY <1>0, <2>5, WorkersAre
  <2>8. crashes' = 0 /\ \A v \in Workers : pc'[v] # "dead"
    BY <1>0, <2>4, <2>5
  <2> QED BY <2>6, <2>7, <2>8 DEF NothingStranded, IsInFlight
<1>3. ASSUME NEW t \in Threads, NEW m \in Messages, PublishOk(t, m) \/ PublishErr(t, m)
      PROVE  NothingStranded'
  <2>1. /\ UNCHANGED <<store, held, local, batch, crashes>>
        /\ pc' = [pc EXCEPT ![t] = "published"] \/ pc' = [pc EXCEPT ![t] = "refused"]
    BY <1>3 DEF PublishOk, PublishErr
  <2>2. /\ \A w \in Workers : pc'[w] # "dead"
        /\ \A d \in Drivers : pc'[d] = pc[d]
    BY <1>0, <2>1, WorkersAre DEF Inv, RestOK
  <2> QED BY <1>0, <2>1, <2>2 DEF NothingStranded, IsInFlight
<1>4. ASSUME NEW t \in Threads, CompleteOutboxMessage(t) \/ ReleaseOutboxMessage(t)
      PROVE  NothingStranded'
  <2>0. t \in Workers /\ ThreadOK(t)
    BY WorkersAre DEF WorkerOK
  <2>1. pc[t] \in {"published", "refused"} /\ NextInBatch(t)
    BY <1>4 DEF CompleteOutboxMessage, ReleaseOutboxMessage
  <2>2. PICK m \in held[t] : current[t] = {m}
    BY <2>0, <2>1 DEF ThreadOK
  <2>3. \/ store' = [store EXCEPT ![m] = Stored(Complete(store[m]))]
        \/ store' = [store EXCEPT ![m] = Stored(Release(store[m]))]
    BY <1>4, <2>2 DEF CompleteOutboxMessage, ReleaseOutboxMessage
  <2>4. m \in Messages /\ store[m] \in OutboxMessageRecord
    BY <2>0, HeldIsInFlight DEF Inv, StoreOK
  <2>5. store'[m].status # "InFlight" /\ \A k \in Messages : k # m => store'[k] = store[k]
    BY <2>0, <2>3, <2>4, CommandEffects DEF Inv, StoreOK
  <2>6. /\ held' = [held EXCEPT ![t] = held[t] \ {m}]
        /\ pc' = [pc EXCEPT ![t] = IF held[t] = {m} THEN "poll" ELSE "batch"]
        /\ UNCHANGED <<local, batch, crashes>>
    BY <2>1, <2>2 DEF NextInBatch
  <2>7. /\ held'[t] = held[t] \ {m}
        /\ \A w \in Workers : pc'[w] # "dead"
        /\ \A v \in Workers : v # t => pc'[v] = pc[v] /\ held'[v] = held[v]
    BY <1>0, <2>0, <2>6 DEF Inv, RestOK
  <2>8. \A k \in Messages : store'[k].status = "InFlight" => \E v \in Workers : k \in held'[v]
    <3> SUFFICES ASSUME NEW k \in Messages, store'[k].status = "InFlight"
                 PROVE  \E v \in Workers : k \in held'[v]
      OBVIOUS
    <3>1. k # m /\ store[k].status = "InFlight"
      BY <2>5
    <3>2. PICK v \in Workers : k \in held[v]
      BY <1>0, <3>1
    <3> QED BY <2>7, <3>1, <3>2
  <2>9. \A d \in Drivers : pc'[d] = pc[d] /\ held'[d] = held[d]
    BY <2>7, WorkersAre
  <2> QED BY <1>0, <2>6, <2>7, <2>8, <2>9 DEF NothingStranded, IsInFlight
<1>5. ASSUME NEW t \in Threads, Stop(t) \/ Crash(t)
      PROVE  NothingStranded'
  <2>1. Stop(t)
    BY <1>0, <1>5 DEF Crash
  <2>2. /\ pc' = [pc EXCEPT ![t] = "stopped"]
        /\ UNCHANGED <<store, held, local, batch, crashes>>
    BY <2>1 DEF Stop
  <2>3. /\ \A w \in Workers : pc'[w] # "dead"
        /\ \A d \in Drivers : pc'[d] = pc[d]
    BY <1>0, <2>2, WorkersAre DEF Inv, RestOK
  <2> QED BY <1>0, <2>2, <2>3 DEF NothingStranded, IsInFlight
<1>6. ASSUME NEW d \in Drivers, NEW m \in Messages, NEW ok \in BOOLEAN, ProcessMessage(d, m, ok)
      PROVE  NothingStranded'
  <2>0. d \in Workers /\ DriverOK(d)
    BY WorkersAre DEF WorkerOK
  <2>1. /\ pc[d] = "batch" /\ m \in batch[d]
        /\ local' = [local EXCEPT ![d][m] = Processed(local[d][m], d, ok)]
        /\ batch' = [batch EXCEPT ![d] = batch[d] \ {m}]
        /\ UNCHANGED <<store, pc, held, crashes>>
    BY <1>6 DEF ProcessMessage
  <2>2. local[d][m] = store[m] /\ m \in held[d]
    BY <2>0, <2>1 DEF DriverOK
  <2>3. store[m] \in OutboxMessageRecord /\ store[m].status = "InFlight"
    BY <2>0, <2>2, HeldIsInFlight DEF Inv, StoreOK
  <2>4. /\ local'[d][m].status # "InFlight"
        /\ \A k \in Messages : k # m => local'[d][k] = local[d][k]
        /\ \A v \in Workers : v # d => local'[v] = local[v] /\ batch'[v] = batch[v]
        /\ batch'[d] = batch[d] \ {m}
    <3>1. Processed(store[m], d, ok).status # "InFlight"
      BY <2>0, <2>3, ProcessedEffects
    <3> QED BY <2>0, <2>1, <2>2, <3>1 DEF Inv, RestOK
  <2>5. ASSUME NEW e \in Drivers, pc'[e] # "poll", NEW k \in held'[e] \ batch'[e]
        PROVE  local'[e][k].status # "InFlight"
    <3>0. e \in Workers /\ k \in held[e] /\ k \in Messages
      BY <2>1, <2>5, WorkersAre, HeldIsInFlight
    <3>1. CASE e # d
      BY <1>0, <2>1, <2>4, <2>5, <3>0, <3>1
    <3>2. CASE e = d /\ k = m
      BY <2>4, <3>2
    <3>3. CASE e = d /\ k # m
      BY <1>0, <2>1, <2>4, <2>5, <3>0, <3>3
    <3> QED BY <3>1, <3>2, <3>3
  <2> QED BY <1>0, <2>1, <2>5 DEF NothingStranded, IsInFlight
<1>7. ASSUME NEW d \in Drivers, NEW m \in Messages, CommitMessage(d, m)
      PROVE  NothingStranded'
  <2>0. d \in Workers /\ DriverOK(d)
    BY WorkersAre DEF WorkerOK
  <2>1. /\ pc[d] = "commit" /\ m \in held[d]
        /\ store' = [store EXCEPT ![m] = Stored(local[d][m])]
        /\ held' = [held EXCEPT ![d] = held[d] \ {m}]
        /\ pc' = [pc EXCEPT ![d] = IF held[d] = {m} THEN "poll" ELSE pc[d]]
        /\ UNCHANGED <<local, batch, crashes>>
    BY <1>7 DEF CommitMessage
  <2>2. local[d][m].status # "InFlight"
    <3>1. batch[d] = {}
      BY <2>0, <2>1 DEF DriverOK
    <3> QED BY <1>0, <2>1, <3>1
  <2>3. store'[m].status # "InFlight" /\ \A k \in Messages : k # m => store'[k] = store[k]
    BY <2>1, <2>2 DEF Inv, StoreOK, Stored
  <2>4. /\ held'[d] = held[d] \ {m} /\ pc'[d] \in {"poll", "commit"}
        /\ \A v \in Workers : v # d => pc'[v] = pc[v] /\ held'[v] = held[v]
    BY <2>0, <2>1 DEF Inv, RestOK
  <2>5. \A k \in Messages : store'[k].status = "InFlight" => \E v \in Workers : k \in held'[v]
    <3> SUFFICES ASSUME NEW k \in Messages, store'[k].status = "InFlight"
                 PROVE  \E v \in Workers : k \in held'[v]
      OBVIOUS
    <3>1. k # m /\ store[k].status = "InFlight"
      BY <2>3
    <3>2. PICK v \in Workers : k \in held[v]
      BY <1>0, <3>1
    <3> QED BY <2>4, <3>1, <3>2
  <2>6. ASSUME NEW e \in Drivers, pc'[e] # "poll", NEW k \in held'[e] \ batch'[e]
        PROVE  local'[e][k].status # "InFlight"
    <3>1. e \in Workers /\ k \in held[e] /\ pc[e] # "poll"
      BY <2>1, <2>4, <2>6, WorkersAre
    <3> QED BY <1>0, <2>1, <2>6, <3>1
  <2>7. \A w \in Workers : pc'[w] # "dead"
    BY <1>0, <2>4
  <2> QED BY <1>0, <2>1, <2>5, <2>6, <2>7 DEF NothingStranded, IsInFlight
<1>8. ASSUME NEW d \in Drivers, BatchDone(d)
      PROVE  NothingStranded'
  <2>1. /\ pc[d] = "batch" /\ pc' = [pc EXCEPT ![d] = "commit"]
        /\ UNCHANGED <<store, held, local, batch, crashes>>
    BY <1>8 DEF BatchDone
  <2>2. /\ \A w \in Workers : pc'[w] # "dead"
        /\ \A e \in Drivers : pc'[e] # "poll" => pc[e] # "poll"
    BY <1>0, <2>1, WorkersAre DEF Inv, RestOK
  <2> QED BY <1>0, <2>1, <2>2 DEF NothingStranded, IsInFlight
<1>9. CASE UNCHANGED vars
  BY <1>9 DEF vars, NothingStranded
<1> QED BY <1>1, <1>2, <1>3, <1>4, <1>5, <1>6, <1>7, <1>8, <1>9, StepsLeft

LEMMA StrandedInit == ASSUME AllVisited, Init PROVE NothingStranded
  BY WorkersAre DEF AllVisited, Init, NothingStranded, IsInFlight, DefaultMessage
-----------------------------------------------------------------------------
(***************************************************************************)
(* What is given up is exhausted and undelivered.                          *)
(***************************************************************************)

\* The invariant, message by message and worker by worker.
MessageOK(m) ==
  /\ store[m].status \in {"Pending", "Failed"} => delivered[m] = 0
  /\ store[m].status = "Failed" => store[m].attempts >= MaxAttempts

RecordedBy(w) ==
  \A m \in held[w] :
    /\ w \in Threads =>
         (pc[w] \in {"published", "dead"} /\ m \in current[w]) \/ delivered[m] = 0
    /\ w \in Drivers =>
         /\ local[w][m].status = "Published" \/ delivered[m] = 0
         /\ local[w][m].status = "Failed" => local[w][m].attempts >= MaxAttempts

Recorded == (\A m \in Messages : MessageOK(m)) /\ \A w \in Workers : RecordedBy(w)

LEMMA RecordedIs == Recorded <=> DeliveryIsRecorded /\ FailedIsExhausted
<1>1. (\A m \in Messages : MessageOK(m)) <=>
        /\ \A m \in Messages : store[m].status = "Pending" => delivered[m] = 0
        /\ FailedIsExhausted
  BY DEF MessageOK, FailedIsExhausted
<1>2. (\A w \in Workers : RecordedBy(w)) <=>
        /\ \A t \in Threads : \A m \in held[t] :
             (pc[t] \in {"published", "dead"} /\ m \in current[t]) \/ delivered[m] = 0
        /\ \A d \in Drivers : \A m \in held[d] :
             /\ local[d][m].status = "Published" \/ delivered[m] = 0
             /\ local[d][m].status = "Failed" => local[d][m].attempts >= MaxAttempts
  BY WorkersAre DEF RecordedBy
<1> QED BY <1>1, <1>2 DEF Recorded, DeliveryIsRecorded

\* What process_message makes of a claimed message.
LEMMA ProcessedOutcome ==
  ASSUME NEW s \in OutboxMessageRecord, NEW d \in Workers, NEW ok \in BOOLEAN,
         s.status = "InFlight"
  PROVE  /\ ok => Processed(s, d, ok).status = "Published"
         /\ Processed(s, d, ok).status = "Failed" =>
              Processed(s, d, ok).attempts >= MaxAttempts
  BY DEF Processed, ClaimFor, Complete, Release, Fail, Changed, IsInFlight, IsPending,
         CanFail, OutboxMessageRecord

\* What complete and release make of it in the store.
LEMMA SettledOutcome ==
  ASSUME NEW s \in OutboxMessageRecord, s.status = "InFlight"
  PROVE  /\ Stored(Complete(s)).status = "Published"
         /\ Stored(Release(s)).status = "Pending"
  BY DEF Complete, Release, Stored, Changed, IsInFlight, OutboxMessageRecord

\* A worker that does nothing, and whose messages are not published by others.
LEMMA RecordKept ==
  ASSUME NEW w \in Workers, RecordedBy(w),
         pc'[w] = pc[w], held'[w] = held[w], current'[w] = current[w],
         local'[w] = local[w], \A m \in held[w] : delivered'[m] = delivered[m]
  PROVE  RecordedBy(w)'
<1> SUFFICES ASSUME NEW m \in held'[w]
             PROVE  /\ w \in Threads =>
                         \/ pc'[w] \in {"published", "dead"} /\ m \in current'[w]
                         \/ delivered'[m] = 0
                    /\ w \in Drivers =>
                         /\ local'[w][m].status = "Published" \/ delivered'[m] = 0
                         /\ local'[w][m].status = "Failed" =>
                              local'[w][m].attempts >= MaxAttempts
  BY DEF RecordedBy
<1> QED BY DEF RecordedBy

\* A worker delivers only what nobody has delivered, and says so before it lets
\* go of it.
LEMMA RecordedStep ==
  ASSUME ClaimFirst, Work, Work', Recorded, [Next]_vars
  PROVE  Recorded'
<1> USE DEF Work, Recorded
<1>1. ASSUME NEW m \in Messages, Create(m)
      PROVE  Recorded'
  <2>1. /\ m \notin Existing /\ UNCHANGED <<pc, held, current, local, delivered>>
        /\ store' = [store EXCEPT ![m] = Stored(Initialize(DefaultMessage))]
    BY <1>1 DEF Create
  <2>2. store[m].version = 0
    BY <2>1 DEF Inv, StoreOK, OutboxMessageRecord, Existing
  <2>3. store[m].status = "Pending"
    BY <2>2 DEF Inv, StoreOK, DefaultMessage
  <2>4. store'[m].status = "Pending" /\ \A k \in Messages : k # m => store'[k] = store[k]
    BY <2>1 DEF Inv, StoreOK, Stored, Initialize, Changed
  <2>5. \A k \in Messages : MessageOK(k)'
    BY <2>1, <2>3, <2>4 DEF MessageOK
  <2>6. \A w \in Workers : RecordedBy(w)'
    BY <2>1, RecordKept
  <2> QED BY <2>5, <2>6
<1>2. ASSUME NEW w \in Workers, ClaimOutboxMessages(w)
      PROVE  Recorded'
  <2>1. PICK C \in Take(Pending, Claim) :
          /\ store' = [m \in Messages |->
               IF m \in C THEN Stored(ClaimFor(store[m], w)) ELSE store[m]]
          /\ held' = [held EXCEPT ![w] = C]
          /\ local' = [local EXCEPT ![w] = IF w \in Drivers THEN store' ELSE local[w]]
    BY <1>2 DEF ClaimOutboxMessages
  <2>2. C \subseteq Pending /\ C \subseteq Messages
    BY TakeSubset, PendingAreMessages
  <2>3. pc' = [pc EXCEPT ![w] = "batch"] /\ UNCHANGED <<current, delivered>>
    BY <1>2 DEF ClaimOutboxMessages
  <2>4. \A m \in C : store[m] \in OutboxMessageRecord /\ store[m].status = "Pending"
    BY <2>2 DEF Pending, IsPending, Inv, StoreOK
  <2>5. \A m \in C : store'[m].status = "InFlight" /\ delivered[m] = 0
    BY <2>1, <2>2, <2>4, CommandEffects DEF MessageOK
  <2>6. \A m \in Messages \ C : store'[m] = store[m]
    BY <2>1
  <2>7. \A m \in Messages : MessageOK(m)'
    BY <2>3, <2>5, <2>6 DEF MessageOK
  <2>8. /\ held'[w] = C /\ (w \in Drivers => local'[w] = store')
        /\ \A v \in Workers : v # w => /\ held'[v] = held[v] /\ local'[v] = local[v]
                                       /\ pc'[v] = pc[v] /\ current'[v] = current[v]
    BY <2>1, <2>3 DEF Inv, RestOK
  <2>9. RecordedBy(w)'
    BY <2>3, <2>5, <2>8 DEF RecordedBy
  <2>10. \A v \in Workers : RecordedBy(v)'
    BY <2>3, <2>8, <2>9, RecordKept
  <2> QED BY <2>7, <2>10
<1>3. ASSUME NEW t \in Threads, NEW m \in Messages, PublishOk(t, m) \/ PublishErr(t, m)
      PROVE  Recorded'
  <2>0. t \in Workers /\ t \notin Drivers
    BY WorkersAre
  <2>1. /\ pc[t] = "batch" /\ m \in held[t]
        /\ current' = [current EXCEPT ![t] = {m}] /\ UNCHANGED <<store, held, local>>
        /\ \/ /\ delivered' = [delivered EXCEPT ![m] = delivered[m] + 1]
              /\ pc' = [pc EXCEPT ![t] = "published"]
           \/ delivered' = delivered /\ pc' = [pc EXCEPT ![t] = "refused"]
    BY <1>3 DEF PublishOk, PublishErr
  <2>2. /\ current'[t] = {m}
        /\ pc'[t] = "published" \/ delivered'[m] = delivered[m]
        /\ \A k \in Messages : k # m => delivered'[k] = delivered[k]
        /\ \A v \in Workers : v # t => pc'[v] = pc[v] /\ current'[v] = current[v]
    BY <2>0, <2>1 DEF Inv, RestOK
  <2>3. store[m].status = "InFlight"
    BY <2>0, <2>1, HeldIsInFlight
  <2>4. \A k \in Messages : MessageOK(k)'
    BY <2>1, <2>2, <2>3 DEF MessageOK
  <2>5. \A k \in held[t] : k \in Messages /\ delivered[k] = 0
    BY <2>0, <2>1, HeldIsInFlight DEF RecordedBy
  <2>6. RecordedBy(t)'
    BY <2>0, <2>1, <2>2, <2>5 DEF RecordedBy
  <2>7. ASSUME NEW v \in Workers, v # t PROVE RecordedBy(v)'
    <3>1. \A k \in held[v] : delivered'[k] = delivered[k]
      BY <2>0, <2>1, <2>2, <2>7, HeldOnce, HeldIsInFlight
    <3> QED BY <2>1, <2>2, <2>7, <3>1, RecordKept
  <2> QED BY <2>4, <2>6, <2>7
<1>4. ASSUME NEW t \in Threads, CompleteOutboxMessage(t) \/ ReleaseOutboxMessage(t)
      PROVE  Recorded'
  <2>0. t \in Workers /\ t \notin Drivers /\ ThreadOK(t)
    BY WorkersAre DEF WorkerOK
  <2>1. pc[t] \in {"published", "refused"} /\ NextInBatch(t)
    BY <1>4 DEF CompleteOutboxMessage, ReleaseOutboxMessage
  <2>2. PICK m \in held[t] : current[t] = {m}
    BY <2>0, <2>1 DEF ThreadOK
  <2>3. m \in Messages /\ store[m] \in OutboxMessageRecord /\ store[m].status = "InFlight"
    BY <2>0, HeldIsInFlight DEF Inv, StoreOK
  <2>4. \/ store' = [store EXCEPT ![m] = Stored(Complete(store[m]))]
        \/ /\ store' = [store EXCEPT ![m] = Stored(Release(store[m]))]
           /\ delivered[m] = 0
    <3>1. pc[t] = "refused" => delivered[m] = 0
      BY <2>0 DEF RecordedBy
    <3> QED BY <1>4, <2>2, <3>1 DEF CompleteOutboxMessage, ReleaseOutboxMessage
  <2>5. /\ held' = [held EXCEPT ![t] = held[t] \ {m}]
        /\ current' = [current EXCEPT ![t] = {}]
        /\ pc' = [pc EXCEPT ![t] = IF held[t] = {m} THEN "poll" ELSE "batch"]
        /\ UNCHANGED <<local, delivered>>
    BY <2>1, <2>2 DEF NextInBatch
  <2>6. /\ held'[t] = held[t] \ {m}
        /\ \A v \in Workers : v # t =>
             pc'[v] = pc[v] /\ held'[v] = held[v] /\ current'[v] = current[v]
    BY <2>0, <2>5 DEF Inv, RestOK
  <2>7. /\ \A k \in Messages : k # m => store'[k] = store[k]
        /\ store'[m].status = "Published" \/ (store'[m].status = "Pending" /\ delivered[m] = 0)
    BY <2>3, <2>4, SettledOutcome DEF Inv, StoreOK
  <2>8. \A k \in Messages : MessageOK(k)'
    BY <2>5, <2>7 DEF MessageOK
  <2>9. \A k \in held[t] \ {m} : delivered[k] = 0
    BY <2>0, <2>2 DEF RecordedBy
  <2>10. RecordedBy(t)'
    BY <2>0, <2>5, <2>6, <2>9 DEF RecordedBy
  <2>11. ASSUME NEW v \in Workers, v # t PROVE RecordedBy(v)'
    BY <2>5, <2>6, <2>11, RecordKept
  <2> QED BY <2>8, <2>10, <2>11
<1>5. ASSUME NEW t \in Threads, Stop(t) \/ Crash(t)
      PROVE  Recorded'
  <2>0. t \in Workers /\ t \notin Drivers
    BY WorkersAre
  <2>1. /\ UNCHANGED <<store, held, current, local, delivered>>
        /\ \/ pc[t] = "poll" /\ pc' = [pc EXCEPT ![t] = "stopped"]
           \/ pc' = [pc EXCEPT ![t] = "dead"]
    BY <1>5 DEF Stop, Crash
  <2>2. /\ pc'[t] = "dead" \/ (pc[t] = "poll" /\ pc'[t] = "stopped")
        /\ \A v \in Workers : v # t => pc'[v] = pc[v]
    BY <2>0, <2>1 DEF Inv, RestOK
  <2>3. RecordedBy(t)'
    BY <2>0, <2>1, <2>2 DEF RecordedBy
  <2>4. \A v \in Workers : RecordedBy(v)'
    BY <2>1, <2>2, <2>3, RecordKept
  <2>5. \A m \in Messages : MessageOK(m)'
    BY <2>1 DEF MessageOK
  <2> QED BY <2>4, <2>5
<1>6. ASSUME NEW d \in Drivers, NEW m \in Messages, NEW ok \in BOOLEAN, ProcessMessage(d, m, ok)
      PROVE  Recorded'
  <2>0. d \in Workers /\ d \notin Threads /\ DriverOK(d)
    BY WorkersAre DEF WorkerOK
  <2>1. /\ pc[d] = "batch" /\ m \in batch[d]
        /\ delivered' = IF ok THEN [delivered EXCEPT ![m] = delivered[m] + 1] ELSE delivered
        /\ local' = [local EXCEPT ![d][m] = Processed(local[d][m], d, ok)]
        /\ UNCHANGED <<store, pc, held, current>>
    BY <1>6 DEF ProcessMessage
  <2>2. local[d][m] = store[m] /\ m \in held[d]
    BY <2>0, <2>1 DEF DriverOK
  <2>3. store[m] \in OutboxMessageRecord /\ store[m].status = "InFlight"
    BY <2>0, <2>2, HeldIsInFlight DEF Inv, StoreOK
  <2>4. delivered[m] = 0
    BY <2>0, <2>2, <2>3 DEF RecordedBy
  <2>5. /\ local'[d][m] = Processed(store[m], d, ok)
        /\ \A k \in Messages : k # m => local'[d][k] = local[d][k]
        /\ \A v \in Workers : v # d => local'[v] = local[v]
        /\ \A k \in Messages : k # m => delivered'[k] = delivered[k]
        /\ ok \/ delivered'[m] = 0
    BY <2>0, <2>1, <2>2, <2>4 DEF Inv, RestOK
  <2>6. /\ local'[d][m].status = "Published" \/ delivered'[m] = 0
        /\ local'[d][m].status = "Failed" => local'[d][m].attempts >= MaxAttempts
    BY <2>0, <2>3, <2>5, ProcessedOutcome
  <2>7. ASSUME NEW k \in held[d]
        PROVE  /\ local'[d][k].status = "Published" \/ delivered'[k] = 0
               /\ local'[d][k].status = "Failed" => local'[d][k].attempts >= MaxAttempts
    <3>1. CASE k = m
      BY <2>6, <3>1
    <3>2. CASE k # m
      <4>1. k \in Messages
        BY <2>0, HeldIsInFlight
      <4>2. local'[d][k] = local[d][k] /\ delivered'[k] = delivered[k]
        BY <2>5, <3>2, <4>1
      <4> QED BY <2>0, <4>2 DEF RecordedBy
    <3> QED BY <3>1, <3>2
  <2>8. RecordedBy(d)'
    BY <2>0, <2>1, <2>7 DEF RecordedBy
  <2>9. ASSUME NEW v \in Workers, v # d PROVE RecordedBy(v)'
    <3>1. \A k \in held[v] : delivered'[k] = delivered[k]
      BY <2>0, <2>2, <2>5, <2>9, HeldOnce, HeldIsInFlight
    <3> QED BY <2>1, <2>5, <2>9, <3>1, RecordKept
  <2>10. \A k \in Messages : MessageOK(k)'
    BY <2>1, <2>3, <2>5 DEF MessageOK
  <2> QED BY <2>8, <2>9, <2>10
<1>7. ASSUME NEW d \in Drivers, NEW m \in Messages, CommitMessage(d, m)
      PROVE  Recorded'
  <2>0. d \in Workers /\ d \notin Threads
    BY WorkersAre
  <2>1. /\ m \in held[d] /\ store' = [store EXCEPT ![m] = Stored(local[d][m])]
        /\ held' = [held EXCEPT ![d] = held[d] \ {m}]
        /\ pc' = [pc EXCEPT ![d] = IF held[d] = {m} THEN "poll" ELSE pc[d]]
        /\ UNCHANGED <<current, local, delivered>>
    BY <1>7 DEF CommitMessage
  <2>2. /\ local[d][m].status = "Published" \/ delivered[m] = 0
        /\ local[d][m].status = "Failed" => local[d][m].attempts >= MaxAttempts
    BY <2>0, <2>1 DEF RecordedBy
  <2>3. /\ store'[m].status = local[d][m].status
        /\ store'[m].attempts = local[d][m].attempts
        /\ \A k \in Messages : k # m => store'[k] = store[k]
    BY <2>1 DEF Inv, StoreOK, Stored
  <2>4. \A k \in Messages : MessageOK(k)'
    <3> SUFFICES ASSUME NEW k \in Messages PROVE MessageOK(k)'
      OBVIOUS
    <3>1. CASE k = m
      BY <2>1, <2>2, <2>3, <3>1 DEF MessageOK
    <3>2. CASE k # m
      BY <2>1, <2>3, <3>2 DEF MessageOK
    <3> QED BY <3>1, <3>2
  <2>5. /\ held'[d] \subseteq held[d]
        /\ \A v \in Workers : v # d => pc'[v] = pc[v] /\ held'[v] = held[v]
    BY <2>0, <2>1 DEF Inv, RestOK
  <2>6. RecordedBy(d)'
    BY <2>0, <2>1, <2>5 DEF RecordedBy
  <2>7. \A v \in Workers : RecordedBy(v)'
    BY <2>1, <2>5, <2>6, RecordKept
  <2> QED BY <2>4, <2>7
<1>8. ASSUME NEW d \in Drivers, BatchDone(d)
      PROVE  Recorded'
  <2>0. d \in Workers /\ d \notin Threads
    BY WorkersAre
  <2>1. /\ pc' = [pc EXCEPT ![d] = "commit"]
        /\ UNCHANGED <<store, held, current, local, delivered>>
    BY <1>8 DEF BatchDone
  <2>2. \A v \in Workers : v # d => pc'[v] = pc[v]
    BY <2>1 DEF Inv, RestOK
  <2>3. RecordedBy(d)'
    BY <2>0, <2>1 DEF RecordedBy
  <2>4. \A v \in Workers : RecordedBy(v)'
    BY <2>1, <2>2, <2>3, RecordKept
  <2>5. \A m \in Messages : MessageOK(m)'
    BY <2>1 DEF MessageOK
  <2> QED BY <2>4, <2>5
<1>9. CASE UNCHANGED vars
  <2>1. UNCHANGED <<store, pc, held, current, local, delivered>>
    BY <1>9 DEF vars
  <2>2. \A w \in Workers : RecordedBy(w)'
    BY <2>1, RecordKept
  <2>3. \A m \in Messages : MessageOK(m)'
    BY <2>1 DEF MessageOK
  <2> QED BY <2>2, <2>3
<1> QED BY <1>1, <1>2, <1>3, <1>4, <1>5, <1>6, <1>7, <1>8, <1>9, StepsLeft

LEMMA RecordedInit == Init => Recorded
  BY DEF Init, Recorded, MessageOK, RecordedBy, DefaultMessage
-----------------------------------------------------------------------------
(***************************************************************************)
(* The theorems                                                            *)
(***************************************************************************)

\* The inductive invariants hold.
THEOREM DeliveryInvariance ==
  ASSUME ClaimFirst
  PROVE  Spec => [](OutboxInv /\ DeliveryInv)
<1>1. Init => Work
  BY WorkInit
<1>2. Work /\ [Next]_vars => Work'
  BY WorkStep
<1>3. Work => OutboxInv /\ DeliveryInv
  BY WorkIsDeliveryInv
<1> QED BY <1>1, <1>2, <1>3, PTL DEF Spec

\* A message is in the hands of the one worker that claimed it: two threads, or a
\* thread and a driver, never publish one message at a time.
THEOREM OneClaimant ==
  ASSUME ClaimFirst
  PROVE  Spec => []SingleClaimant
<1>1. OutboxInv /\ DeliveryInv => SingleClaimant
  <2> SUFFICES ASSUME Work PROVE SingleClaimant
    BY WorkIsDeliveryInv
  <2> QED BY HeldOnce, HeldIsInFlight DEF SingleClaimant
<1> QED BY <1>1, DeliveryInvariance, PTL

\* A message is delivered at most as often as it was claimed, also when threads
\* crash between a publish and its complete.
THEOREM DeliveriesAreCounted ==
  ASSUME ClaimFirst
  PROVE  Spec => []DeliveriesAreAttempts
<1>1. OutboxInv /\ DeliveryInv => DeliveriesAreAttempts
  BY DEF DeliveryInv
<1> QED BY <1>1, DeliveryInvariance, PTL

\* A message is given up only when its attempts are used up and no publisher has
\* accepted it, whichever threads and drivers made the attempts and although the
\* threads count no limit.
THEOREM GivenUpIsExhausted ==
  ASSUME ClaimFirst
  PROVE  Spec => []FailedIsExhausted
<1>1. Init => Work /\ Recorded
  BY WorkInit, RecordedInit
<1>2. Work /\ Recorded /\ [Next]_vars => (Work /\ Recorded)'
  BY WorkStep, RecordedStep
<1>3. Recorded => FailedIsExhausted
  BY RecordedIs
<1> QED BY <1>1, <1>2, <1>3, PTL DEF Spec

\* No message is left InFlight with nobody to settle it: neither a stop, nor a
\* refused publish, nor the driver's commits strand one.
THEOREM NoMessageStranded ==
  ASSUME ClaimFirst, AllVisited
  PROVE  Spec => []InFlightIsHeld
<1>1. Init => Work /\ NothingStranded
  BY WorkInit, StrandedInit
<1>2. Work /\ NothingStranded /\ [Next]_vars => (Work /\ NothingStranded)'
  BY WorkStep, StrandedStep
<1>3. Work /\ NothingStranded => InFlightIsHeld
  <2> SUFFICES ASSUME Work, NothingStranded, NEW m \in Messages, IsInFlight(store[m])
               PROVE  \E w \in Workers : m \in held[w] /\ pc[w] \notin {"stopped", "dead"}
    BY DEF InFlightIsHeld
  <2>1. PICK w \in Workers : m \in held[w]
    BY DEF NothingStranded
  <2>2. pc[w] # "stopped" /\ pc[w] # "dead"
    BY <2>1 DEF Work, WorkerOK, HeldOK, NothingStranded
  <2> QED BY <2>1, <2>2
<1> QED BY <1>1, <1>2, <1>3, PTL DEF Spec

\* The commits of a driver that claimed its messages never conflict: the version
\* check in repo.commit is no obstacle to process_batch.
THEOREM ClaimedCommitsSucceed ==
  ASSUME ClaimFirst
  PROVE  Spec => [][\A d \in Drivers, m \in Messages : ~ CommitConflict(d, m)]_vars
<1>1. OutboxInv /\ DeliveryInv /\ [Next]_vars =>
        [\A d \in Drivers, m \in Messages : ~ CommitConflict(d, m)]_vars
  BY WorkIsDeliveryInv, CommitsNeverConflict
<1> QED BY <1>1, DeliveryInvariance, PTL DEF Spec
=============================================================================
