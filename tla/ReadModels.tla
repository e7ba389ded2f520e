----------------------------- MODULE ReadModels -----------------------------
(***************************************************************************)
(* The read model store (read_model/in_memory.rs), its per-model locks     *)
(* (read_model/queued.rs) and CommitBuilder (commit_builder/mod.rs), used  *)
(* by callers that keep views of one aggregate in                          *)
(* QueuedReadModelStore<HashMapRepository>.                                *)
(*                                                                         *)
(* The aggregate is its history, and the event store the atomic            *)
(* compare-and-append that EventStore is proved to be.  The data of a view *)
(* is the history of which it is the projection.                           *)
(*                                                                         *)
(* A Guarded key belongs to a collection that every caller reads under its *)
(* lock before it writes, taking the locks in key order and loading the    *)
(* aggregate once it has them.  An Optimistic key belongs to one that is   *)
(* only read with ReadOpts::no_lock().  Nothing records who holds a lock:  *)
(* `held` is that knowledge.  Locks are refined in QueuedRepository; here  *)
(* taking one is one step that waits for the flag, and a write and the     *)
(* release that follows it are one step too, since nothing that another    *)
(* caller can do depends on a lock being held a little longer.             *)
(***************************************************************************)
EXTENDS Naturals, Sequences

CONSTANTS Callers,
          Guarded, Optimistic,  \* numbers: the order of the key strings
          Matching,             \* lengths of history that the predicate accepts
          MaxHistory,           \* bound on the events of the aggregate
          MaxVersion            \* MaxVersion[k]: bound on the version of model k

Keys == Guarded \cup Optimistic

ASSUME ReadModelsAssumption ==
  /\ Keys \subseteq Nat /\ Guarded \cap Optimistic = {}
  /\ Matching \subseteq Nat /\ MaxHistory \in Nat /\ MaxVersion \in [Keys -> Nat]
  /\ "not loaded" \notin Callers

VARIABLES history,  \* the committed events of the aggregate: who wrote each
          storage,  \* storage[k]: the stored model and its version, 0 if absent
          locked,   \* locked[k]: the flag inside the lock of k
          call,     \* call[c]: the operation that c is in
          want,     \* want[c]: keys that the operation has still to lock
          todo,     \* todo[c]: keys that it has still to fetch or to write
          held,     \* held[c]: locks that c took and has not released
          copy,     \* copy[c]: what c read, a function on the keys it read
          base,     \* base[c]: the aggregate in the hands of c, if any
          gone      \* gone[c]: keys deleted since c read them

vars == <<history, storage, locked, call, want, todo, held, copy, base, gone>>

Operations == {"none", "lock", "get_model", "find_models", "commit"}
Absent == [version |-> 0, data |-> << >>]
NotLoaded == << "not loaded" >>
NoCopies == [k \in {} |-> Absent]

Put(f, x, v) == [y \in DOMAIN f \cup {x} |-> IF y = x THEN v ELSE f[y]]
Without(f, x) == [y \in DOMAIN f \ {x} |-> f[y]]

\* s is t or an earlier stage of it.
Precedes(s, t) == Len(s) <= Len(t) /\ \A i \in 1 .. Len(s) : s[i] = t[i]

Init ==
  /\ history = << >>
  /\ storage = [k \in Keys |-> Absent]
  /\ locked = [k \in Keys |-> FALSE]
  /\ call = [c \in Callers |-> "none"]
  /\ want = [c \in Callers |-> {}]
  /\ todo = [c \in Callers |-> {}]
  /\ held = [c \in Callers |-> {}]
  /\ copy = [c \in Callers |-> NoCopies]
  /\ base = [c \in Callers |-> NotLoaded]
  /\ gone = [c \in Callers |-> {}]

Idle(c) == call[c] = "none"
InHand(c) == held[c] \cup DOMAIN copy[c]
Present(k) == storage[k].version # 0
Matches(k) == Present(k) /\ Len(storage[k].data) \in Matching
-----------------------------------------------------------------------------
(***************************************************************************)
(* Reading                                                                 *)
(***************************************************************************)

\* An operation of c that locks the keys ks in order and then fetches ms.
Start(c, name, ks, ms) ==
  /\ call' = [call EXCEPT ![c] = name]
  /\ want' = [want EXCEPT ![c] = ks]
  /\ todo' = [todo EXCEPT ![c] = ms]
  /\ UNCHANGED <<history, storage, locked, held, copy, base, gone>>

\* A caller takes its locks in order, before it loads the aggregate, and works
\* on optimistic keys with no lock in its hands.
MayLock(c, k) ==
  /\ Idle(c) /\ k \in Guarded /\ base[c] = NotLoaded
  /\ \A j \in InHand(c) : j \in Guarded /\ j < k

Lock(c, k) == MayLock(c, k) /\ Start(c, "lock", {k}, {})

\* Mutant of GetModel: the model is read before its lock is taken.
GetModelReadsFirst(c, k) ==
  /\ MayLock(c, k)
  /\ call' = [call EXCEPT ![c] = "get_model"]
  /\ want' = [want EXCEPT ![c] = {k}]
  /\ copy' = [copy EXCEPT ![c] = Put(@, k, storage[k])]
  /\ UNCHANGED <<history, storage, locked, todo, held, base, gone>>

GetModel(c, k) == MayLock(c, k) /\ Start(c, "get_model", {k}, {k})

\* Phase 1 of find_models, without locks.  Without a match the call is over.
FindModels(c) ==
  /\ Idle(c) /\ InHand(c) = {}
  /\ LET matches == {k \in Guarded : Matches(k)}
     IN  matches # {} /\ Start(c, "find_models", matches, matches)

\* find_one_model: the same for the first match in the order of a HashMap.
FindOneModel(c) ==
  /\ Idle(c) /\ InHand(c) = {}
  /\ \E k \in Guarded : Matches(k) /\ Start(c, "find_models", {k}, {k})

\* Mutant of Acquire: the locks are taken in the order of the matches.
AcquireAnyOrder(c) ==
  \E k \in want[c] :
    /\ ~ locked[k]
    /\ locked' = [locked EXCEPT ![k] = TRUE]
    /\ held' = [held EXCEPT ![c] = @ \cup {k}]
    /\ want' = [want EXCEPT ![c] = @ \ {k}]
    /\ call' = [call EXCEPT ![c] = IF want'[c] \cup todo[c] = {} THEN "none" ELSE @]
    /\ UNCHANGED <<history, storage, todo, copy, base, gone>>

\* Lock::lock of the next key, by Lock, get_model and lock_ids_in_order.
Acquire(c) ==
  \E k \in want[c] :
    /\ \A j \in want[c] : k <= j
    /\ ~ locked[k]
    /\ locked' = [locked EXCEPT ![k] = TRUE]
    /\ held' = [held EXCEPT ![c] = @ \cup {k}]
    /\ want' = [want EXCEPT ![c] = @ \ {k}]
    /\ call' = [call EXCEPT ![c] = IF want'[c] \cup todo[c] = {} THEN "none" ELSE @]
    /\ UNCHANGED <<history, storage, todo, copy, base, gone>>

\* The caller is given what is stored for k: the model or None.
Returned(c, k) ==
  /\ copy' = [copy EXCEPT ![c] = Put(@, k, storage[k])]
  /\ gone' = [gone EXCEPT ![c] = @ \ {k}]

\* Mutant of Fetch: the lock of a model that no longer matches stays taken.
FetchKeepsLock(c, k) ==
  /\ call[c] \in {"get_model", "find_models"} /\ want[c] = {} /\ k \in todo[c]
  /\ IF call[c] = "find_models" /\ ~ Matches(k)
       THEN /\ held' = [held EXCEPT ![c] = @ \ {k}]
            /\ UNCHANGED <<locked, copy, gone>>
       ELSE Returned(c, k) /\ UNCHANGED <<locked, held>>
  /\ todo' = [todo EXCEPT ![c] = @ \ {k}]
  /\ call' = [call EXCEPT ![c] = IF todo[c] = {k} THEN "none" ELSE @]
  /\ UNCHANGED <<history, storage, want, base>>

\* The inner get_model, with every lock taken.  get_model keeps its lock even if
\* there is no model; a search releases what is gone or no longer matches.
Fetch(c, k) ==
  /\ call[c] \in {"get_model", "find_models"} /\ want[c] = {} /\ k \in todo[c]
  /\ IF call[c] = "find_models" /\ ~ Matches(k)
       THEN /\ locked' = [locked EXCEPT ![k] = FALSE]
            /\ held' = [held EXCEPT ![c] = @ \ {k}]
            /\ UNCHANGED <<copy, gone>>
       ELSE Returned(c, k) /\ UNCHANGED <<locked, held>>
  /\ todo' = [todo EXCEPT ![c] = @ \ {k}]
  /\ call' = [call EXCEPT ![c] = IF todo[c] = {k} THEN "none" ELSE @]
  /\ UNCHANGED <<history, storage, want, base>>

\* The *_with calls with ReadOpts::no_lock().
Peek(c, k) ==
  /\ Idle(c) /\ k \in Optimistic /\ held[c] = {} /\ base[c] = NotLoaded
  /\ Returned(c, k)
  /\ UNCHANGED <<history, storage, locked, call, want, todo, held, base>>

\* Mutant of LoadAggregate: the aggregate was loaded before the locks were taken.
LoadAggregateEarlier(c) ==
  /\ Idle(c) /\ InHand(c) # {} /\ base[c] = NotLoaded
  /\ \E n \in 0 .. Len(history) : base' = [base EXCEPT ![c] = SubSeq(history, 1, n)]
  /\ UNCHANGED <<history, storage, locked, call, want, todo, held, copy, gone>>

\* The caller loads the aggregate that its views show.
LoadAggregate(c) ==
  /\ Idle(c) /\ InHand(c) # {} /\ base[c] = NotLoaded
  /\ base' = [base EXCEPT ![c] = history]
  /\ UNCHANGED <<history, storage, locked, call, want, todo, held, copy, gone>>
-----------------------------------------------------------------------------
(***************************************************************************)
(* Writing                                                                 *)
(***************************************************************************)

\* Mutant of Saved: every write stores version 1.
SavedAsFirst(k, data) == [version |-> 1, data |-> data]

\* What upsert, save_raw, insert and update store: 0 stands for no version.
Saved(k, data) == [version |-> storage[k].version + 1, data |-> data]

\* release(k), whoever holds it, and c is done with k: with nothing left in its
\* hands it forgets the aggregate too.
Release(c, k) ==
  /\ locked' = [locked EXCEPT ![k] = FALSE]
  /\ held' = [held EXCEPT ![c] = @ \ {k}]
  /\ copy' = [copy EXCEPT ![c] = Without(@, k)]
  /\ base' = [base EXCEPT ![c] = IF InHand(c) = {k} THEN NotLoaded ELSE @]

\* c may write the projection of its aggregate to k.
MayWrite(c, k) == Idle(c) /\ k \in InHand(c) /\ base[c] # NotLoaded

Write(c, k) ==
  /\ storage[k].version < MaxVersion[k]
  /\ storage' = [storage EXCEPT ![k] = Saved(k, base[c])]
  /\ Release(c, k)
  /\ gone' = [gone EXCEPT ![c] = @ \ {k}]
  /\ UNCHANGED <<history, call, want, todo>>

\* Insert and Update that are refused change nothing, the lock included.
Upsert(c, k) == MayWrite(c, k) /\ Write(c, k)
Insert(c, k) == MayWrite(c, k) /\ ~ Present(k) /\ Write(c, k)

\* Mutant of Accepts: any model that exists is updated.
AcceptsPresent(c, k) == Present(k)

\* The check of update.
Accepts(c, k) == Present(k) /\ storage[k].version = copy[c][k].version

Update(c, k) == MayWrite(c, k) /\ k \in DOMAIN copy[c] /\ Accepts(c, k) /\ Write(c, k)

\* delete returns Ok whether or not there was a model.
Delete(c, k) ==
  /\ Idle(c) /\ k \in InHand(c)
  /\ storage' = [storage EXCEPT ![k] = Absent]
  /\ gone' = [d \in Callers |-> IF d = c THEN gone[d] \ {k}
                                ELSE IF k \in DOMAIN copy[d] THEN gone[d] \cup {k}
                                ELSE gone[d]]
  /\ Release(c, k)
  /\ UNCHANGED <<history, call, want, todo>>

\* unlock and abort; for a key that was only peeked at, the caller drops its copy.
Unlock(c, k) ==
  /\ Idle(c) /\ k \in InHand(c)
  /\ Release(c, k)
  /\ gone' = [gone EXCEPT ![c] = @ \ {k}]
  /\ UNCHANGED <<history, storage, call, want, todo>>
-----------------------------------------------------------------------------
(***************************************************************************)
(* CommitBuilder                                                           *)
(***************************************************************************)

\* The caller has changed its aggregate and chains the views in its hands.
Building(c) ==
  /\ Idle(c) /\ base[c] # NotLoaded
  /\ \A k \in InHand(c) : storage[k].version < MaxVersion[k]

\* The commit of the builder, which QueuedReadModelStore passes on without
\* touching a lock: the aggregate, in one step with the outbox messages.
BuilderCommit(c) ==
  /\ Building(c) /\ Len(history) < MaxHistory
  /\ base[c] = history
  /\ history' = Append(history, c)
  /\ base' = [base EXCEPT ![c] = history']
  /\ call' = [call EXCEPT ![c] = "commit"]
  /\ todo' = [todo EXCEPT ![c] = InHand(c)]
  /\ UNCHANGED <<storage, locked, want, held, copy, gone>>

\* Mutant of BuilderConflict: the views are written although the commit failed.
BuilderConflictWrites(c) ==
  /\ Building(c)
  /\ base[c] # history
  /\ base' = [base EXCEPT ![c] = Append(@, c)]
  /\ call' = [call EXCEPT ![c] = "commit"]
  /\ todo' = [todo EXCEPT ![c] = InHand(c)]
  /\ UNCHANGED <<history, storage, locked, want, held, copy, gone>>

\* Another commit came first: the builder returns before it writes a view, the
\* locks stay taken and the caller's aggregate is of no more use.
BuilderConflict(c) ==
  /\ Building(c)
  /\ base[c] # history
  /\ base' = [base EXCEPT ![c] = NotLoaded]
  /\ UNCHANGED <<history, storage, locked, call, want, todo, held, copy, gone>>

\* commit_all without an aggregate: only the views are written.
BuilderCommitAll(c) ==
  /\ Building(c)
  /\ call' = [call EXCEPT ![c] = "commit"]
  /\ todo' = [todo EXCEPT ![c] = InHand(c)]
  /\ UNCHANGED <<history, storage, locked, want, held, copy, base, gone>>

\* Mutant of UpsertRaw: the builder returns after the first view.
UpsertRawReturnsEarly(c, k) ==
  /\ call[c] = "commit" /\ k \in todo[c]
  /\ storage' = [storage EXCEPT ![k] = Saved(k, base[c])]
  /\ Release(c, k)
  /\ todo' = [todo EXCEPT ![c] = @ \ {k}]
  /\ call' = [call EXCEPT ![c] = "none"]
  /\ gone' = [gone EXCEPT ![c] = @ \ {k}]
  /\ UNCHANGED <<history, want>>

\* upsert_raw of the next view, and the release of its lock.
UpsertRaw(c, k) ==
  /\ call[c] = "commit" /\ k \in todo[c]
  /\ storage' = [storage EXCEPT ![k] = Saved(k, base[c])]
  /\ Release(c, k)
  /\ todo' = [todo EXCEPT ![c] = @ \ {k}]
  /\ call' = [call EXCEPT ![c] = IF todo[c] = {k} THEN "none" ELSE @]
  /\ gone' = [gone EXCEPT ![c] = @ \ {k}]
  /\ UNCHANGED <<history, want>>
-----------------------------------------------------------------------------
Next ==
  \E c \in Callers :
    \/ FindModels(c) \/ FindOneModel(c) \/ Acquire(c) \/ LoadAggregate(c)
    \/ BuilderCommit(c) \/ BuilderConflict(c) \/ BuilderCommitAll(c)
    \/ \E k \in Keys :
         \/ Lock(c, k) \/ GetModel(c, k) \/ Fetch(c, k) \/ Peek(c, k)
         \/ Upsert(c, k) \/ Insert(c, k) \/ Update(c, k) \/ Delete(c, k)
         \/ Unlock(c, k) \/ UpsertRaw(c, k)

Spec == Init /\ [][Next]_vars
-----------------------------------------------------------------------------
(***************************************************************************)
(* Properties                                                              *)
(***************************************************************************)

Histories == Seq(Callers)
Models == [version : Nat, data : Histories]

\* Type correctness; an operation has keys to go through until it is over, and
\* only an absent model has version 0.
TypeOK ==
  /\ history \in Histories
  /\ storage \in [Keys -> Models]
  /\ locked \in [Keys -> BOOLEAN]
  /\ call \in [Callers -> Operations]
  /\ want \in [Callers -> SUBSET Guarded]
  /\ todo \in [Callers -> SUBSET Keys]
  /\ held \in [Callers -> SUBSET Guarded]
  /\ copy = [c \in Callers |-> copy[c]]
  /\ base \in [Callers -> Histories \cup {NotLoaded}]
  /\ gone \in [Callers -> SUBSET Keys]
  /\ \A c \in Callers :
       /\ DOMAIN copy[c] \subseteq Keys /\ copy[c] \in [DOMAIN copy[c] -> Models]
       /\ call[c] = "none" <=> want[c] \cup todo[c] = {}
  /\ \A k \in Keys : ~ Present(k) => storage[k] = Absent

\* A lock is taken exactly while one caller knows that it holds it: none is left
\* behind by a search or an operation that ended, and no two callers hold one.
LocksAreHeld ==
  \A k \in Keys :
    /\ locked[k] <=> \E c \in Callers : k \in held[c]
    /\ \A c, d \in Callers : k \in held[c] \cap held[d] => c = d

\* What get_model and find_models returned under its lock stays what is stored
\* for as long as the caller holds the lock.
HeldCopyIsCurrent ==
  \A c \in Callers : \A k \in held[c] \cap DOMAIN copy[c] : copy[c][k] = storage[k]

\* A view shows committed history only, although CommitBuilder writes it apart
\* from the aggregate and the commit may fail.
ViewsAreHistory == \A k \in Keys : Precedes(storage[k].data, history)

\* A view that callers lock never goes back: a slow builder does not overwrite
\* the view of a later commit.
GuardedViewsAdvance ==
  [][\A k \in Guarded :
       Present(k) /\ Present(k)' => Precedes(storage[k].data, storage'[k].data)]_vars

\* Until a model is deleted, its version names its content: a caller whose
\* version is still the stored one has seen what is stored.
VersionNamesContent ==
  \A c \in Callers : \A k \in DOMAIN copy[c] \ gone[c] :
    copy[c][k].version = storage[k].version => copy[c][k] = storage[k]

\* No lost update: an update that succeeds replaces what its caller had read,
\* unless the model was deleted in between.
UpdateRestsOnRead ==
  [][\A c \in Callers, k \in Keys :
       Update(c, k) /\ k \notin gone[c] => copy[c][k] = storage[k]]_vars

\* c waits for a key that d holds.
WaitsFor(c, d) ==
  \E k \in want[c] : (\A j \in want[c] : k <= j) /\ k \in held[d]

\* Callers never wait for one another in a circle, nor for themselves: of any
\* group of callers, one waits for nobody in the group.
NoCircularWait ==
  \A S \in SUBSET Callers : S # {} => \E c \in S : \A d \in S : ~ WaitsFor(c, d)

\* What a caller has in its hands: a locked model is read under its lock only;
\* locks are taken in order, before the aggregate is loaded; an operation fetches
\* what it has locked and not read yet; a builder writes all that is in hand.
HandsAreInOrder ==
  \A c \in Callers :
    /\ DOMAIN copy[c] \cap Guarded \subseteq held[c]
    /\ \A k \in want[c], j \in held[c] : j < k
    /\ base[c] # NotLoaded => InHand(c) # {} /\ call[c] \in {"none", "commit"}
    /\ IF call[c] = "commit"
         THEN base[c] # NotLoaded /\ todo[c] = InHand(c) /\ want[c] = {}
         ELSE todo[c] \subseteq (held[c] \cup want[c]) \ DOMAIN copy[c]

\* The aggregate in hand is committed history, and no view under a lock of the
\* caller shows more than it.
BaseIsHistory ==
  \A c \in Callers : base[c] # NotLoaded =>
    /\ Precedes(base[c], history)
    /\ \A k \in held[c] : Precedes(storage[k].data, base[c])

\* Until it is deleted, a model's version is not behind the one that was read.
VersionsGrow ==
  \A c \in Callers : \A k \in DOMAIN copy[c] \ gone[c] :
    copy[c][k].version <= storage[k].version

\* The inductive invariant.
ReadModelsInv ==
  /\ TypeOK /\ LocksAreHeld /\ HandsAreInOrder /\ HeldCopyIsCurrent
  /\ ViewsAreHistory /\ BaseIsHistory /\ VersionsGrow /\ VersionNamesContent
=============================================================================
