-------------------------- MODULE QueuedRepository --------------------------
(***************************************************************************)
(* QueuedRepository (queued_repo/repository.rs) over its per-entity locks  *)
(* (lock/in_memory.rs), as seen by threads that each run one workflow at a *)
(* time: a call that returns entities, some work, then commit or abort.    *)
(*                                                                         *)
(* The inner repository is taken by what EventStore is proved to be, an    *)
(* atomic compare-and-append: of a stream only its length matters here,    *)
(* and of an in-memory entity only its committed_version.  An id with no   *)
(* events is one that get_one does not find: a new entity is committed     *)
(* with at least one event.                                                *)
(*                                                                         *)
(* A lock is a Mutex<bool> and a Condvar.  Testing the flag and going to   *)
(* sleep is one step (Condvar::wait releases the mutex atomically); a      *)
(* sleeper returns by notify_one, or spuriously, and tests again.  Nothing *)
(* records who holds a lock: `mine` is that knowledge, kept here only to   *)
(* state properties.                                                       *)
(***************************************************************************)
EXTENDS Naturals, FiniteSets

CONSTANTS Threads,
          Ids,        \* numbers: their order is the order of the id strings
          Matching,   \* stream lengths for which the callers' predicates hold
          Calls,      \* Calls[t]: the calls that the code of thread t makes
          MaxCalls,   \* bound on the calls of one thread
          MaxVersion  \* bound on the length of a stream

\* get is get_one, get_many and get_with(lock); peek is get_with(no_lock); new
\* is a fresh entity; lock is QueuedRepository::lock followed by a peek.  The
\* agg_ calls are those of AggregateRepository; exists stands for count too.
AllCalls == {"get", "find", "find_one", "peek", "new", "lock",
             "agg_find", "agg_find_one", "agg_exists"}

ASSUME QueuedAssumption ==
  /\ Ids \subseteq Nat
  /\ Calls \in [Threads -> SUBSET AllCalls]
  /\ MaxCalls \in Nat /\ MaxVersion \in Nat

VARIABLES locked,  \* locked[id]: the flag inside the lock of id
          stored,  \* stored[id]: events stored for id
          pc,      \* pc[t]: where thread t is
          op,      \* op[t]: the call it makes or made last
          want,    \* want[t]: the ids that call locks and fetches
          todo,    \* todo[t]: the ids the current loop has still to visit
          got,     \* got[t]: the ids the call has returned to the caller
          copy,    \* copy[t][id]: committed_version of the caller's entity
          mine,    \* mine[t]: locks t took, or was told it took, and not released
          calls    \* calls[t]: calls t may still make

vars == <<locked, stored, pc, op, want, todo, got, copy, mine, calls>>

Places == {"idle", "lock", "asleep", "fetch", "work", "failed", "unlock"}

Init ==
  /\ locked = [id \in Ids |-> FALSE]
  /\ stored \in [Ids -> {0, 1}]
  /\ pc = [t \in Threads |-> "idle"]
  /\ op = [t \in Threads |-> "get"]
  /\ want = [t \in Threads |-> {}]
  /\ todo = [t \in Threads |-> {}]
  /\ got = [t \in Threads |-> {}]
  /\ copy = [t \in Threads |-> [id \in Ids |-> 0]]
  /\ mine = [t \in Threads |-> {}]
  /\ calls = [t \in Threads |-> MaxCalls]

\* lock_ids_in_order takes the locks in the order of the ids.
IsFirst(id, S) == id \in S /\ \A j \in S : id <= j

\* Threads asleep on the Condvar of id.
Sleepers(id) == {u \in Threads : pc[u] = "asleep" /\ IsFirst(id, todo[u])}

\* What the inner find scans.
Existing == {id \in Ids : stored[id] > 0}
Matched == {id \in Existing : stored[id] \in Matching}
-----------------------------------------------------------------------------
(***************************************************************************)
(* Calls                                                                   *)
(***************************************************************************)

\* A call starts: it goes to place p, to visit the ids S there; the caller of a
\* call that ends at once already has G.
Start(t, c, S, G, p) ==
  /\ pc[t] = "idle" /\ calls[t] > 0 /\ c \in Calls[t]
  /\ pc' = [pc EXCEPT ![t] = p]
  /\ op' = [op EXCEPT ![t] = c]
  /\ want' = [want EXCEPT ![t] = S]
  /\ todo' = [todo EXCEPT ![t] = S]
  /\ got' = [got EXCEPT ![t] = G]
  /\ copy' = [copy EXCEPT ![t] = [id \in Ids |-> 0]]
  /\ calls' = [calls EXCEPT ![t] = @ - 1]

\* Mutant of Get: the entities are read without their locks.
GetUnlocked(t, S) ==
  /\ S # {}
  /\ Start(t, "get", S, {}, "fetch")
  /\ UNCHANGED <<locked, stored, mine>>

\* get_one(id), get_many(ids): first the locks, in order and without repeats.
Get(t, S) ==
  /\ S # {}
  /\ Start(t, "get", S, {}, "lock")
  /\ UNCHANGED <<locked, stored, mine>>

\* Mutant of FindScan: no early return when nothing matches.
FindScanEmpty(t) ==
  /\ Start(t, "find", Matched, {}, "lock")
  /\ UNCHANGED <<locked, stored, mine>>

\* find: the ids are those that match now, before any lock is taken.  With no
\* match nothing is locked and the call returns.
FindScan(t) ==
  /\ Start(t, "find", Matched, {}, IF Matched = {} THEN "idle" ELSE "lock")
  /\ UNCHANGED <<locked, stored, mine>>

\* find_one: any one match, chosen without its lock.
FindOneScan(t) ==
  /\ \/ \E id \in Matched : Start(t, "find_one", {id}, {}, "lock")
     \/ Matched = {} /\ Start(t, "find_one", {}, {}, "idle")
  /\ UNCHANGED <<locked, stored, mine>>

\* AggregateRepository find, find_one, exists and count: repo.find(|_| true).
AggregateScan(t, c) ==
  /\ c \in {"agg_find", "agg_find_one", "agg_exists"}
  /\ Start(t, c, Existing, {}, IF Existing = {} THEN "idle" ELSE "lock")
  /\ UNCHANGED <<locked, stored, mine>>

\* peek of an existing id: its entity, no lock.
Peek(t, id) ==
  /\ stored[id] > 0
  /\ Start(t, "peek", {id}, {}, "fetch")
  /\ UNCHANGED <<locked, stored, mine>>

\* A fresh entity of an id, of which the caller has asked nothing.
New(t, id) ==
  /\ Start(t, "new", {}, {id}, "work")
  /\ UNCHANGED <<locked, stored, mine>>

\* QueuedRepository::lock: try_lock, and Ok whether or not it succeeded.
LockCall(t, id) ==
  /\ Start(t, "lock", {id}, {}, "fetch")
  /\ locked' = [locked EXCEPT ![id] = TRUE]
  /\ mine' = [mine EXCEPT ![t] = @ \cup {id}]
  /\ UNCHANGED stored

\* Mutant of Acquire: the flag is not tested again.
AcquireUntested(t, id) ==
  /\ pc[t] = "lock" /\ IsFirst(id, todo[t])
  /\ locked' = [locked EXCEPT ![id] = TRUE]
  /\ mine' = [mine EXCEPT ![t] = @ \cup {id}]
  /\ pc' = [pc EXCEPT ![t] = IF todo[t] = {id} THEN "fetch" ELSE @]
  /\ todo' = [todo EXCEPT ![t] = IF @ = {id} THEN want[t] ELSE @ \ {id}]
  /\ UNCHANGED <<stored, op, want, got, copy, calls>>

\* InMemoryLock::lock on the next id: taken if free; the last one ends the loop.
Acquire(t, id) ==
  /\ pc[t] = "lock" /\ IsFirst(id, todo[t]) /\ ~ locked[id]
  /\ locked' = [locked EXCEPT ![id] = TRUE]
  /\ mine' = [mine EXCEPT ![t] = @ \cup {id}]
  /\ IF todo[t] = {id}
       THEN /\ pc' = [pc EXCEPT ![t] = "fetch"]
            /\ todo' = [todo EXCEPT ![t] = want[t]]
       ELSE /\ todo' = [todo EXCEPT ![t] = @ \ {id}]
            /\ UNCHANGED pc
  /\ UNCHANGED <<stored, op, want, got, copy, calls>>

\* InMemoryLock::lock finds the flag set and waits.
Sleep(t, id) ==
  /\ pc[t] = "lock" /\ IsFirst(id, todo[t]) /\ locked[id]
  /\ pc' = [pc EXCEPT ![t] = "asleep"]
  /\ UNCHANGED <<locked, stored, op, want, todo, got, copy, mine, calls>>

\* Condvar::wait may return without a notification.
SpuriousWakeup(t) ==
  /\ pc[t] = "asleep"
  /\ pc' = [pc EXCEPT ![t] = "lock"]
  /\ UNCHANGED <<locked, stored, op, want, todo, got, copy, mine, calls>>

\* Is entity id, read now, part of what the call returns?  A get tells its
\* caller about every id asked for, found or not.
Returned(t, id) ==
  CASE op[t] \in {"get", "peek", "lock"} -> TRUE
    [] op[t] \in {"find", "find_one", "agg_find"} -> id \in Matched
    [] op[t] = "agg_find_one" -> id \in Matched /\ got[t] = {}
    [] op[t] = "agg_exists" -> FALSE

\* Mutant of Fetch: find_one keeps the lock of an entity that no longer matches.
FetchKeepsLock(t, id) ==
  /\ pc[t] = "fetch" /\ id \in todo[t]
  /\ copy' = [copy EXCEPT ![t][id] = stored[id]]
  /\ got' = IF Returned(t, id) THEN [got EXCEPT ![t] = @ \cup {id}] ELSE got
  /\ todo' = [todo EXCEPT ![t] = @ \ {id}]
  /\ pc' = [pc EXCEPT ![t] = IF todo[t] # {id} THEN @
                             ELSE IF got'[t] = {} THEN "idle" ELSE "work"]
  /\ UNCHANGED <<locked, stored, op, want, mine, calls>>

\* The (re-)fetch of one id from the inner repository.  After the last one the
\* call returns; only find_one gives back the lock of an entity that no longer
\* matches.
Fetch(t, id) ==
  /\ pc[t] = "fetch" /\ id \in todo[t]
  /\ copy' = [copy EXCEPT ![t][id] = stored[id]]
  /\ got' = IF Returned(t, id) THEN [got EXCEPT ![t] = @ \cup {id}] ELSE got
  /\ IF todo[t] # {id}
       THEN /\ todo' = [todo EXCEPT ![t] = @ \ {id}]
            /\ UNCHANGED pc
       ELSE IF got'[t] = {} /\ op[t] = "find_one"
       THEN /\ pc' = [pc EXCEPT ![t] = "unlock"]
            /\ UNCHANGED todo
       ELSE /\ pc' = [pc EXCEPT ![t] = IF got'[t] = {} THEN "idle" ELSE "work"]
            /\ todo' = [todo EXCEPT ![t] = {}]
  /\ UNCHANGED <<locked, stored, op, want, mine, calls>>
-----------------------------------------------------------------------------
(***************************************************************************)
(* commit and abort                                                        *)
(***************************************************************************)

\* The inner commit's validation of the caller's entities.
Current(t) == \A id \in got[t] : stored[id] = copy[t][id]

\* Mutant of Commit: only the entities that changed are unlocked.
CommitUnlocksChanged(t, D) ==
  /\ pc[t] = "work" /\ Current(t)
  /\ D \subseteq got[t] /\ \A id \in D : stored[id] < MaxVersion
  /\ \A id \in got[t] \ D : stored[id] > 0
  /\ stored' = [id \in Ids |-> IF id \in D THEN stored[id] + 1 ELSE stored[id]]
  /\ copy' = [copy EXCEPT ![t] = [id \in Ids |-> IF id \in D THEN @[id] + 1 ELSE @[id]]]
  /\ pc' = [pc EXCEPT ![t] = IF D = {} THEN "idle" ELSE "unlock"]
  /\ todo' = [todo EXCEPT ![t] = D]
  /\ UNCHANGED <<locked, op, want, got, mine, calls>>

\* commit succeeds: the entities in D had a new event each.  The locks of all
\* of them are released next, whoever holds them: commit looks the locks up
\* but does not take them.
Commit(t, D) ==
  /\ pc[t] = "work" /\ Current(t)
  /\ D \subseteq got[t] /\ \A id \in D : stored[id] < MaxVersion
  /\ \A id \in got[t] \ D : stored[id] > 0
  /\ stored' = [id \in Ids |-> IF id \in D THEN stored[id] + 1 ELSE stored[id]]
  /\ copy' = [copy EXCEPT ![t] = [id \in Ids |-> IF id \in D THEN @[id] + 1 ELSE @[id]]]
  /\ pc' = [pc EXCEPT ![t] = "unlock"]
  /\ todo' = [todo EXCEPT ![t] = got[t]]
  /\ UNCHANGED <<locked, op, want, got, mine, calls>>

\* commit fails with ConcurrentWrite: no lock is released.
CommitConflict(t) ==
  /\ pc[t] = "work" /\ ~ Current(t)
  /\ pc' = [pc EXCEPT ![t] = "failed"]
  /\ UNCHANGED <<locked, stored, op, want, todo, got, copy, mine, calls>>

\* The entities that the caller got from a call that locks, or says it does.
GotLocked(t) == IF op[t] \in {"peek", "new"} THEN {} ELSE got[t]

\* The caller gives up, before or after a failed commit: it aborts the ids of
\* the entities it got locked, one by one, and just drops the others.
Abort(t) ==
  /\ pc[t] \in {"work", "failed"}
  /\ todo' = [todo EXCEPT ![t] = GotLocked(t)]
  /\ pc' = [pc EXCEPT ![t] = IF todo'[t] = {} THEN "idle" ELSE "unlock"]
  /\ UNCHANGED <<locked, stored, op, want, got, copy, mine, calls>>

\* Mutant of Unlock: no sleeper is woken.
UnlockNotifiesNobody(t, id) ==
  /\ pc[t] = "unlock" /\ id \in todo[t]
  /\ locked' = [locked EXCEPT ![id] = FALSE]
  /\ mine' = [mine EXCEPT ![t] = @ \ {id}]
  /\ todo' = [todo EXCEPT ![t] = @ \ {id}]
  /\ pc' = [pc EXCEPT ![t] = IF todo[t] = {id} THEN "idle" ELSE @]
  /\ UNCHANGED <<stored, op, want, got, copy, calls>>

\* InMemoryLock::unlock: clear the flag and wake one sleeper, if it was set.
Unlock(t, id) ==
  /\ pc[t] = "unlock" /\ id \in todo[t]
  /\ locked' = [locked EXCEPT ![id] = FALSE]
  /\ mine' = [mine EXCEPT ![t] = @ \ {id}]
  /\ todo' = [todo EXCEPT ![t] = @ \ {id}]
  /\ LET p == IF todo[t] = {id} THEN "idle" ELSE "unlock"
     IN  \/ /\ locked[id]
            /\ \E u \in Sleepers(id) : pc' = [pc EXCEPT ![t] = p, ![u] = "lock"]
         \/ /\ ~ locked[id] \/ Sleepers(id) = {}
            /\ pc' = [pc EXCEPT ![t] = p]
  /\ UNCHANGED <<stored, op, want, got, copy, calls>>
-----------------------------------------------------------------------------
\* A step inside a call, or of a caller that has entities to dispose of.
Progress(t) ==
  \/ \E id \in Ids : Acquire(t, id) \/ Sleep(t, id) \/ Fetch(t, id) \/ Unlock(t, id)
  \/ \E D \in SUBSET Ids : Commit(t, D)
  \/ CommitConflict(t)
  \/ Abort(t)

\* The start of a call.
Begin(t) ==
  \/ \E S \in SUBSET Ids : Get(t, S)
  \/ FindScan(t)
  \/ FindOneScan(t)
  \/ \E c \in AllCalls : AggregateScan(t, c)
  \/ \E id \in Ids : Peek(t, id) \/ New(t, id) \/ LockCall(t, id)

\* Every thread has made all its calls.
Finished ==
  /\ \A t \in Threads : pc[t] = "idle" /\ calls[t] = 0
  /\ UNCHANGED vars

Next == \/ \E t \in Threads : Begin(t) \/ Progress(t) \/ SpuriousWakeup(t)
        \/ Finished

Spec == Init /\ [][Next]_vars

\* Threads run, and a caller that was given entities commits or aborts them.
\* Nothing forces a thread to make a call.
FairSpec == Spec /\ \A t \in Threads : WF_vars(Progress(t))
-----------------------------------------------------------------------------
(***************************************************************************)
(* Properties                                                              *)
(***************************************************************************)

\* Type correctness; a thread inside a loop has an id to visit and a caller at
\* work has an entity.
TypeOK ==
  /\ locked \in [Ids -> BOOLEAN]
  /\ stored \in [Ids -> Nat]
  /\ pc \in [Threads -> Places]
  /\ op \in [Threads -> AllCalls]
  /\ want \in [Threads -> SUBSET Ids]
  /\ todo \in [Threads -> SUBSET Ids]
  /\ got \in [Threads -> SUBSET Ids]
  /\ copy \in [Threads -> [Ids -> Nat]]
  /\ mine \in [Threads -> SUBSET Ids]
  /\ calls \in [Threads -> Nat]
  /\ \A t \in Threads :
       /\ pc[t] \in {"lock", "asleep", "fetch", "unlock"} => todo[t] # {}
       /\ pc[t] \in {"lock", "asleep", "fetch"} => todo[t] \subseteq want[t]
       /\ pc[t] \in {"work", "failed"} => got[t] # {}

\* Mutual exclusion: at most one thread has the lock of an id, and the flag is
\* set exactly when one has.  Needs callers that commit only what they got with
\* its lock: commit and abort release locks without checking who holds them.
MutualExclusion ==
  /\ \A t, u \in Threads : t # u => mine[t] \cap mine[u] = {}
  /\ \A id \in Ids : locked[id] <=> \E t \in Threads : id \in mine[t]

\* Serialized workflows: what a locking call returned stays current until the
\* caller disposes of it, so a commit under locks is never a ConcurrentWrite.
SerializedWorkflows ==
  \A t \in Threads : pc[t] \in {"work", "failed"} => pc[t] = "work" /\ Current(t)

\* The ids that thread t will unlock before it is idle again, as far as its
\* place in the code and its call tell: what the call has locked so far, then
\* what the caller was given to dispose of, then what is left of the loop.
WillUnlock(t) ==
  CASE pc[t] = "idle" -> {}
    [] pc[t] \in {"lock", "asleep"} -> want[t] \ todo[t]
    [] pc[t] = "fetch" -> IF op[t] = "peek" THEN {} ELSE want[t]
    [] pc[t] \in {"work", "failed"} -> GotLocked(t)
    [] pc[t] = "unlock" -> todo[t]

\* A flag that is set has a thread on its way to clear it, even when lock() told
\* two callers that they have the lock and when commits release the locks of
\* others.  (Needs callers whose calls return all they lock: the locks that find
\* and the aggregate queries keep for themselves have no such thread.)
FlagHasReleaser ==
  \A id \in Ids : locked[id] => \E t \in Threads : id \in WillUnlock(t)

\* A thread that is done with its workflow has released every lock it took.
NoLockLeft == \A t \in Threads : pc[t] = "idle" => mine[t] = {}

\* No caller commits or unlocks an entity it has not got under its lock.
Disciplined == \A t \in Threads : Calls[t] \cap {"peek", "new", "lock"} = {}

\* What the locks protect, place by place: a call holds what it has locked so
\* far; what it has read under a lock is current; commit and abort release only
\* what the thread holds.
LockDiscipline ==
  \A t \in Threads :
    /\ op[t] \notin {"peek", "new", "lock"}
    /\ pc[t] # "failed"
    /\ pc[t] \in {"lock", "asleep"} => got[t] = {} /\ want[t] \ todo[t] \subseteq mine[t]
    /\ pc[t] = "fetch" => got[t] \subseteq want[t] /\ want[t] \subseteq mine[t]
    /\ pc[t] = "work" => got[t] \subseteq mine[t]
    /\ pc[t] = "unlock" => todo[t] \subseteq mine[t]
    /\ pc[t] \in {"fetch", "work"} => \A id \in got[t] : copy[t][id] = stored[id]

\* The inductive invariant of disciplined callers.
LockInv == TypeOK /\ MutualExclusion /\ LockDiscipline

\* Every lock a call of these takes is one of an entity it returns: the other
\* calls may return fewer entities than they locked.
ReturnsWhatItLocks ==
  \A t \in Threads : Calls[t] \subseteq {"get", "find_one", "peek", "new", "lock"}

\* Where the locks of a thread are to be found, place by place: among the ids
\* it has visited, then among the entities it has or has still to fetch, and at
\* the end among the ids it has still to unlock.
LocksAccounted ==
  \A t \in Threads :
    /\ pc[t] = "idle" \/ op[t] \in {"peek", "new"} => mine[t] = {}
    /\ pc[t] \in {"lock", "asleep", "fetch"} =>
         /\ op[t] \in {"get", "find_one", "peek", "lock"}
         /\ op[t] = "find_one" => \E id \in Ids : want[t] = {id}
    /\ pc[t] \in {"lock", "asleep"} => /\ op[t] # "peek" /\ got[t] = {}
                                      /\ mine[t] \subseteq want[t]
    /\ pc[t] = "fetch" => /\ mine[t] \subseteq want[t]
                         /\ got[t] \cup todo[t] = want[t]
    /\ pc[t] \in {"work", "failed"} => mine[t] \subseteq got[t]
    /\ pc[t] = "unlock" => mine[t] \subseteq todo[t]

\* What the comments on exists and count of QueuedRepository say: a read check
\* takes no lock.  exists and count of AggregateRepository go another way.
ReadChecksTakeNoLock ==
  \A t \in Threads : op[t] = "agg_exists" => mine[t] = {}

\* No wakeup is lost: a thread that waits for a lock gets it in the end, once
\* the others stop making new calls.
WaitersServed ==
  \A t \in Threads : pc[t] \in {"lock", "asleep"} ~> pc[t] = "fetch"
=============================================================================
