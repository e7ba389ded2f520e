------------------------------- MODULE Outbox -------------------------------
(***************************************************************************)
(* The outbox: messages stored next to the aggregates, and the workers     *)
(* that publish them.                                                      *)
(*                                                                         *)
(*   Threads  OutboxWorkerThread (outbox_worker/thread.rs): claim a batch, *)
(*            publish each message, complete or release it in the store.   *)
(*   Drivers  callers of OutboxWorker::process_batch (outbox_worker/       *)
(*            worker.rs) that commit the processed messages afterwards.    *)
(*            They claim their messages, or, the Loaders, just read the    *)
(*            pending ones and let process_message claim them.             *)
(*                                                                         *)
(* The store operations of outbox_worker/repository_ext.rs each hold the   *)
(* write guard throughout and are one step.  Operators may call            *)
(* release_outbox_message and fail_outbox_message at any time.             *)
(***************************************************************************)
EXTENDS OutboxMessage, FiniteSets

CONSTANTS Messages,
          Threads, Drivers,  \* the workers
          Loaders,           \* drivers that load pending messages unclaimed
          Stoppable,         \* threads whose handle may be stopped or dropped
          Manual,            \* what operators do: subset of {"release", "fail"}
          Claim,             \* `max` of claim_outbox_messages
          BatchSize,         \* batch_size of OutboxWorker
          MaxAttempts,       \* max_attempts of OutboxWorker
          MaxFaults,         \* bound on refused publishes and operator calls
          MaxCrashes         \* bound on the threads that die

ASSUME OutboxAssumption ==
  /\ Workers = Threads \cup Drivers
  /\ Threads \cap Drivers = {}
  /\ Loaders \subseteq Drivers /\ Stoppable \subseteq Threads
  /\ Manual \subseteq {"release", "fail"}
  /\ Claim \in Nat \ {0} /\ BatchSize \in Nat /\ MaxAttempts \in Nat
  /\ MaxFaults \in Nat /\ MaxCrashes \in Nat

VARIABLES store,      \* store[m]: the stored message; version 0 = not stored
          pc,         \* pc[w]: where worker w is
          held,       \* held[w]: the messages of its batch not yet settled
          current,    \* current[w]: the message a thread has just tried to publish
          local,      \* local[w][m]: a driver's in-memory copies
          batch,      \* batch[w]: those process_batch has still to visit
          delivered,  \* delivered[m]: successful publishes of m
          faults,     \* refusals and operator calls that may still happen
          crashes     \* crashes that may still happen

vars == <<store, pc, held, current, local, batch, delivered, faults, crashes>>

Places == {"poll", "batch", "published", "refused", "commit", "stopped", "dead"}

Init ==
  /\ store = [m \in Messages |-> DefaultMessage]
  /\ pc = [w \in Workers |-> "poll"]
  /\ held = [w \in Workers |-> {}]
  /\ current = [w \in Workers |-> {}]
  /\ local = [w \in Workers |-> [m \in Messages |-> DefaultMessage]]
  /\ batch = [w \in Workers |-> {}]
  /\ delivered = [m \in Messages |-> 0]
  /\ faults = MaxFaults
  /\ crashes = MaxCrashes

Existing == {m \in Messages : store[m].version > 0}
Pending == {m \in Existing : IsPending(store[m])}
-----------------------------------------------------------------------------
\* A producer commits the new message with its aggregate, in one commit.  An id
\* that is already stored is a ConcurrentWrite and changes nothing.
Create(m) ==
  /\ m \notin Existing
  /\ store' = [store EXCEPT ![m] = Stored(Initialize(DefaultMessage))]
  /\ UNCHANGED <<pc, held, current, local, batch, delivered, faults, crashes>>

\* The first n messages of a slice; map order makes them any n.
Take(S, n) == {B \in SUBSET S : Cardinality(B) = n \/ (B = S /\ Cardinality(S) < n)}

\* Mutant of ClaimOutboxMessages: in-flight messages are claimed again.
ClaimInFlightToo(w) ==
  /\ pc[w] = "poll" /\ w \notin Loaders
  /\ \E C \in Take({m \in Existing : CanFail(store[m])}, Claim) :
       /\ C # {}
       /\ store' = [m \in Messages |->
            IF m \in C THEN Stored(ClaimFor(Release(store[m]), w)) ELSE store[m]]
       /\ held' = [held EXCEPT ![w] = C]
       /\ batch' = [batch EXCEPT ![w] = IF w \in Drivers THEN C ELSE {}]
       /\ local' = [local EXCEPT ![w] = store']
  /\ pc' = [pc EXCEPT ![w] = "batch"]
  /\ UNCHANGED <<current, delivered, faults, crashes>>

\* claim_outbox_messages: up to Claim pending messages become InFlight at once.
\* A driver's process_batch will visit only the first BatchSize of them.
ClaimOutboxMessages(w) ==
  /\ pc[w] = "poll" /\ w \notin Loaders
  /\ \E C \in Take(Pending, Claim) :
       /\ C # {}
       /\ store' = [m \in Messages |->
            IF m \in C THEN Stored(ClaimFor(store[m], w)) ELSE store[m]]
       /\ held' = [held EXCEPT ![w] = C]
       /\ \E B \in Take(C, BatchSize) :
            batch' = [batch EXCEPT ![w] = IF w \in Drivers THEN B ELSE {}]
       /\ local' = [local EXCEPT ![w] = IF w \in Drivers THEN store' ELSE @]
  /\ pc' = [pc EXCEPT ![w] = "batch"]
  /\ UNCHANGED <<current, delivered, faults, crashes>>

\* outbox_messages_pending: a Loader reads the pending messages.
LoadPending(d) ==
  /\ pc[d] = "poll" /\ d \in Loaders /\ Pending # {}
  /\ held' = [held EXCEPT ![d] = Pending]
  /\ \E B \in Take(Pending, BatchSize) : batch' = [batch EXCEPT ![d] = B]
  /\ local' = [local EXCEPT ![d] = store]
  /\ pc' = [pc EXCEPT ![d] = "batch"]
  /\ UNCHANGED <<store, current, delivered, faults, crashes>>

\* Nothing is pending: the poll returns no message.
PollNothing(w) ==
  /\ pc[w] = "poll" /\ Pending = {}
  /\ UNCHANGED vars
-----------------------------------------------------------------------------
(***************************************************************************)
(* Worker threads                                                          *)
(***************************************************************************)

\* publisher.publish(event) (or send, for a message with a destination) is Ok.
PublishOk(t, m) ==
  /\ pc[t] = "batch" /\ m \in held[t]
  /\ delivered' = [delivered EXCEPT ![m] = @ + 1]
  /\ current' = [current EXCEPT ![t] = {m}]
  /\ pc' = [pc EXCEPT ![t] = "published"]
  /\ UNCHANGED <<store, held, local, batch, faults, crashes>>

\* publisher.publish(event) is an error.
PublishErr(t, m) ==
  /\ pc[t] = "batch" /\ m \in held[t] /\ faults > 0
  /\ faults' = faults - 1
  /\ current' = [current EXCEPT ![t] = {m}]
  /\ pc' = [pc EXCEPT ![t] = "refused"]
  /\ UNCHANGED <<store, held, local, batch, delivered, crashes>>

\* The thread is done with its current message and goes on with the batch.
NextInBatch(t) ==
  /\ held' = [held EXCEPT ![t] = @ \ current[t]]
  /\ current' = [current EXCEPT ![t] = {}]
  /\ pc' = [pc EXCEPT ![t] = IF held[t] = current[t] THEN "poll" ELSE "batch"]
  /\ UNCHANGED <<local, batch, delivered, faults, crashes>>

\* complete_outbox_message, whoever claimed the message last.
CompleteOutboxMessage(t) ==
  /\ pc[t] = "published"
  /\ \E m \in current[t] : store' = [store EXCEPT ![m] = Stored(Complete(@))]
  /\ NextInBatch(t)

\* Mutant of ReleaseOutboxMessage: complete is called whatever publish returned.
CompleteAnyway(t) ==
  /\ pc[t] = "refused"
  /\ \E m \in current[t] : store' = [store EXCEPT ![m] = Stored(Complete(@))]
  /\ NextInBatch(t)

\* Mutant of ReleaseOutboxMessage: the message is dropped, not released.
DropRefused(t) ==
  /\ pc[t] = "refused"
  /\ NextInBatch(t)
  /\ UNCHANGED store

\* release_outbox_message after a refused publish.
ReleaseOutboxMessage(t) ==
  /\ pc[t] = "refused"
  /\ \E m \in current[t] : store' = [store EXCEPT ![m] = Stored(Release(@))]
  /\ NextInBatch(t)

\* Mutant of Stop: the signal is tested between two messages.
StopMidBatch(t) ==
  /\ t \in Stoppable /\ pc[t] \in {"poll", "batch"}
  /\ pc' = [pc EXCEPT ![t] = "stopped"]
  /\ UNCHANGED <<store, held, current, local, batch, delivered, faults, crashes>>

\* The stop signal is seen: only at the top of the loop.
Stop(t) ==
  /\ t \in Stoppable /\ pc[t] = "poll"
  /\ pc' = [pc EXCEPT ![t] = "stopped"]
  /\ UNCHANGED <<store, held, current, local, batch, delivered, faults, crashes>>

\* The publisher panics, or the process dies: the thread is gone.
Crash(t) ==
  /\ crashes > 0 /\ pc[t] \in {"batch", "published", "refused"}
  /\ crashes' = crashes - 1
  /\ pc' = [pc EXCEPT ![t] = "dead"]
  /\ UNCHANGED <<store, held, current, local, batch, delivered, faults>>
-----------------------------------------------------------------------------
(***************************************************************************)
(* Drivers of OutboxWorker                                                 *)
(***************************************************************************)

\* Mutant of Processed: the message is given up one attempt early.
ProcessedGivesUpEarly(msg, d, ok) ==
  LET m == ClaimFor(msg, d)
  IN  IF ok THEN Complete(m)
      ELSE IF m.attempts + 1 >= MaxAttempts THEN Fail(m) ELSE Release(m)

\* What process_message leaves in the driver's copy, after claiming it if it
\* was still pending: complete, or on an error fail or release.
Processed(msg, d, ok) ==
  LET m == ClaimFor(msg, d)
  IN  IF ok THEN Complete(m)
      ELSE IF m.attempts >= MaxAttempts THEN Fail(m) ELSE Release(m)

\* One turn of process_batch: process_message on the next message.
ProcessMessage(d, m, ok) ==
  /\ pc[d] = "batch" /\ m \in batch[d]
  /\ ok \/ faults > 0
  /\ faults' = IF ok THEN faults ELSE faults - 1
  /\ delivered' = IF ok THEN [delivered EXCEPT ![m] = @ + 1] ELSE delivered
  /\ local' = [local EXCEPT ![d][m] = Processed(@, d, ok)]
  /\ batch' = [batch EXCEPT ![d] = @ \ {m}]
  /\ UNCHANGED <<store, pc, held, current, crashes>>

\* process_batch returns; the driver's commits follow.
BatchDone(d) ==
  /\ pc[d] = "batch" /\ batch[d] = {}
  /\ pc' = [pc EXCEPT ![d] = "commit"]
  /\ UNCHANGED <<store, held, current, local, batch, delivered, faults, crashes>>

\* Mutant of CommitMessage: the stored version is not compared.
CommitUnchecked(d, m) ==
  /\ pc[d] = "commit" /\ m \in held[d]
  /\ store' = [store EXCEPT ![m] = Stored(local[d][m])]
  /\ held' = [held EXCEPT ![d] = @ \ {m}]
  /\ pc' = [pc EXCEPT ![d] = IF held[d] = {m} THEN "poll" ELSE @]
  /\ UNCHANGED <<current, local, batch, delivered, faults, crashes>>

\* repo.commit(&mut message.entity): stored if nobody changed it since.
CommitMessage(d, m) ==
  /\ pc[d] = "commit" /\ m \in held[d]
  /\ store[m].version = local[d][m].committed_version
  /\ store' = [store EXCEPT ![m] = Stored(local[d][m])]
  /\ held' = [held EXCEPT ![d] = @ \ {m}]
  /\ pc' = [pc EXCEPT ![d] = IF held[d] = {m} THEN "poll" ELSE @]
  /\ UNCHANGED <<current, local, batch, delivered, faults, crashes>>

\* The commit is a ConcurrentWrite: `?` leaves the loop, the rest of the batch
\* is dropped with it.
CommitConflict(d, m) ==
  /\ pc[d] = "commit" /\ m \in held[d]
  /\ store[m].version # local[d][m].committed_version
  /\ held' = [held EXCEPT ![d] = {}]
  /\ pc' = [pc EXCEPT ![d] = "poll"]
  /\ UNCHANGED <<store, current, local, batch, delivered, faults, crashes>>
-----------------------------------------------------------------------------
\* An operator calls release_outbox_message or fail_outbox_message.
ManualRelease(m) ==
  /\ "release" \in Manual /\ faults > 0 /\ IsInFlight(store[m])
  /\ faults' = faults - 1
  /\ store' = [store EXCEPT ![m] = Stored(Release(@))]
  /\ UNCHANGED <<pc, held, current, local, batch, delivered, crashes>>

ManualFail(m) ==
  /\ "fail" \in Manual /\ faults > 0 /\ m \in Existing /\ CanFail(store[m])
  /\ faults' = faults - 1
  /\ store' = [store EXCEPT ![m] = Stored(Fail(@))]
  /\ UNCHANGED <<pc, held, current, local, batch, delivered, crashes>>

ThreadStep(t) ==
  \/ ClaimOutboxMessages(t)
  \/ \E m \in Messages : PublishOk(t, m) \/ PublishErr(t, m)
  \/ CompleteOutboxMessage(t)
  \/ ReleaseOutboxMessage(t)

DriverStep(d) ==
  \/ ClaimOutboxMessages(d)
  \/ LoadPending(d)
  \/ \E m \in Messages : \/ \E ok \in BOOLEAN : ProcessMessage(d, m, ok)
                         \/ CommitMessage(d, m)
                         \/ CommitConflict(d, m)
  \/ BatchDone(d)

Next ==
  \/ \E m \in Messages : Create(m) \/ ManualRelease(m) \/ ManualFail(m)
  \/ \E t \in Threads : ThreadStep(t) \/ Stop(t) \/ Crash(t)
  \/ \E d \in Drivers : DriverStep(d)
  \/ \E w \in Workers : PollNothing(w)

Spec == Init /\ [][Next]_vars

\* Threads run their loop and drivers call theirs again and again.  A publisher
\* refuses only MaxFaults times, so it works again in the end.
FairSpec ==
  /\ Spec
  /\ \A t \in Threads : WF_vars(ThreadStep(t))
  /\ \A d \in Drivers : WF_vars(DriverStep(d))
-----------------------------------------------------------------------------
(***************************************************************************)
(* Properties                                                              *)
(***************************************************************************)

\* Type correctness; the store holds committed messages only, and one without
\* events is not stored.
TypeOK ==
  /\ store \in [Messages -> OutboxMessageRecord]
  /\ \A m \in Messages : /\ store[m].committed_version = store[m].version
                         /\ store[m].version = 0 => store[m] = DefaultMessage
  /\ pc \in [Workers -> Places]
  /\ held \in [Workers -> SUBSET Messages]
  /\ current \in [Workers -> SUBSET Messages]
  /\ local \in [Workers -> [Messages -> OutboxMessageRecord]]
  /\ batch \in [Workers -> SUBSET Messages]
  /\ delivered \in [Messages -> Nat]
  /\ faults \in Nat /\ crashes \in Nat

\* A message is marked Published only after a successful publish, whatever
\* crashes, operators and commit conflicts come in between.
PublishedWasDelivered ==
  \A m \in Messages : store[m].status = "Published" => delivered[m] > 0

\* Published and Failed are final: no late complete, release or commit of a
\* worker that lost its claim brings a settled message back.
SettledIsFinal ==
  [][\A m \in Messages : store[m].status \in {"Published", "Failed"}
                           => store'[m] = store[m]]_vars

\* What keeps late writes harmless: every change of a stored message adds an
\* event, so a driver's copy that still has the stored version is of a message
\* nobody has touched since it was claimed or loaded, unsettled then as now.
CopiesAreSound ==
  \A d \in Drivers : pc[d] \in {"batch", "commit"} => \A m \in held[d] :
    LET c == local[d][m]
        s == store[m]
    IN  /\ c.committed_version <= c.version
        /\ c.committed_version <= s.version
        /\ c.committed_version = s.version =>
             /\ s.status \notin {"Published", "Failed"}
             /\ c.version = c.committed_version => c = s

\* Whoever is about to record a message as Published has delivered it.
ClaimsOfDeliveryAreTrue ==
  /\ \A w \in Workers : pc[w] = "published" => \A m \in current[w] : delivered[m] > 0
  /\ \A w \in Workers, m \in Messages :
       local[w][m].status = "Published" => delivered[m] > 0

\* The inductive invariant.
OutboxInv == /\ TypeOK
             /\ PublishedWasDelivered
             /\ ClaimsOfDeliveryAreTrue
             /\ CopiesAreSound

\* A claimed message is in the hands of the worker that claimed it and of no
\* other.  (Needs that operators release nothing and drivers claim first.)
SingleClaimant ==
  \A w \in Workers : \A m \in held[w] :
    /\ store[m].worker_id = {w}
    /\ \A v \in Workers \ {w} : m \notin held[v]

\* No message is stranded: an InFlight one is in some worker's hands, a stopped
\* worker has none.
InFlightIsHeld ==
  \A m \in Messages : IsInFlight(store[m]) =>
    \E w \in Workers : m \in held[w] /\ pc[w] \notin {"stopped", "dead"}

\* Every publish is counted by an attempt, so retries are the only duplicates.
DeliveriesAreAttempts == \A m \in Messages : delivered[m] <= store[m].attempts

\* A message is given up only after max_attempts attempts, by whatever workers,
\* and never one that a publisher has accepted.
FailedIsExhausted ==
  \A m \in Messages : store[m].status = "Failed" =>
    store[m].attempts >= MaxAttempts /\ delivered[m] = 0

\* The conditions that SingleClaimant names: nobody releases or fails a message
\* over a worker's head, and drivers claim what they work on.
ClaimFirst == Loaders = {} /\ Manual = {}

\* And those without which a message can be stranded: no thread dies, and
\* process_batch visits all that a driver claimed.
AllVisited == Claim <= BatchSize /\ MaxCrashes = 0 /\ IsFiniteSet(Messages)

\* A worker holds what it has claimed, and nothing between two batches.
HeldIsClaimed ==
  \A w \in Workers :
    /\ pc[w] \in {"poll", "stopped"} => held[w] = {}
    /\ \A m \in held[w] : IsInFlight(store[m]) /\ store[m].worker_id = {w}

\* A thread works on a message of its batch; what it has not published has an
\* attempt to spare.
ThreadsAtWork ==
  \A t \in Threads :
    /\ pc[t] # "commit"
    /\ pc[t] \in {"published", "refused"} => \E m \in held[t] : current[t] = {m}
    /\ \A m \in held[t] : \/ pc[t] \in {"published", "dead"} /\ m \in current[t]
                          \/ delivered[m] < store[m].attempts

\* A driver's copies are of what is stored, and its commits cannot conflict; what
\* it has not visited is as it was claimed.
DriversAtWork ==
  \A d \in Drivers : pc[d] # "poll" =>
    /\ pc[d] = "batch" \/ (pc[d] = "commit" /\ batch[d] = {})
    /\ batch[d] \subseteq held[d]
    /\ \A m \in held[d] : /\ local[d][m].committed_version = store[m].version
                          /\ local[d][m].attempts = store[m].attempts
    /\ \A m \in batch[d] : local[d][m] = store[m] /\ delivered[m] < store[m].attempts

\* The inductive invariant of delivery, under ClaimFirst.
DeliveryInv == HeldIsClaimed /\ ThreadsAtWork /\ DriversAtWork /\ DeliveriesAreAttempts

\* What it needs in addition under AllVisited.
NothingStranded ==
  /\ crashes = 0 /\ \A w \in Workers : pc[w] # "dead"
  /\ \A m \in Messages : IsInFlight(store[m]) => \E w \in Workers : m \in held[w]
  /\ \A d \in Drivers : pc[d] # "poll" =>
       \A m \in held[d] \ batch[d] : ~ IsInFlight(local[d][m])

\* Where a delivered message is, under ClaimFirst: recorded as Published, or with
\* the one worker that delivered it and is about to say so.  A driver's copy is
\* Failed only when its attempts are used up.
DeliveryIsRecorded ==
  /\ \A m \in Messages : store[m].status = "Pending" => delivered[m] = 0
  /\ \A t \in Threads : \A m \in held[t] :
       (pc[t] \in {"published", "dead"} /\ m \in current[t]) \/ delivered[m] = 0
  /\ \A d \in Drivers : \A m \in held[d] :
       /\ local[d][m].status = "Published" \/ delivered[m] = 0
       /\ local[d][m].status = "Failed" => local[d][m].attempts >= MaxAttempts

\* "the outbox guarantees at-least-once delivery": a stored message is published
\* in the end, or given up as Failed.
AtLeastOnce ==
  \A m \in Messages :
    m \in Existing ~> delivered[m] > 0 \/ store[m].status = "Failed"
=============================================================================
