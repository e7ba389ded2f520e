----------------------- MODULE QueuedRepositoryProofs -----------------------
(***************************************************************************)
(* Proofs about QueuedRepository for any number of threads, ids and calls: *)
(* type correctness; for callers that commit only what they got under its  *)
(* lock, mutual exclusion and serialized workflows; for callers that are   *)
(* given all they lock, that every lock is given back and that a set flag  *)
(* always has a thread on its way to clear it.                             *)
(***************************************************************************)
EXTENDS QueuedRepository, TLAPS

LEMMA ScansAreIds == Existing \subseteq Ids /\ Matched \subseteq Ids
  BY DEF Existing, Matched

\* Starting a call keeps the types, whatever the call is.
LEMMA StartType ==
  ASSUME TypeOK, NEW t \in Threads, NEW c \in AllCalls,
         NEW S \in SUBSET Ids, NEW G \in SUBSET Ids, NEW p \in Places,
         Start(t, c, S, G, p),
         locked' \in [Ids -> BOOLEAN], stored' \in [Ids -> Nat],
         mine' \in [Threads -> SUBSET Ids],
         p \in {"lock", "asleep", "fetch", "unlock"} => S # {},
         p \in {"work", "failed"} => G # {}
  PROVE  TypeOK'
<1>1. /\ pc' \in [Threads -> Places] /\ op' \in [Threads -> AllCalls]
      /\ want' \in [Threads -> SUBSET Ids] /\ todo' \in [Threads -> SUBSET Ids]
      /\ got' \in [Threads -> SUBSET Ids]
  BY DEF Start, TypeOK
<1>2. copy' \in [Threads -> [Ids -> Nat]]
  BY DEF Start, TypeOK
<1>3. calls' \in [Threads -> Nat]
  BY DEF Start, TypeOK
<1>4. ASSUME NEW u \in Threads
      PROVE  /\ pc'[u] \in {"lock", "asleep", "fetch", "unlock"} => todo'[u] # {}
             /\ pc'[u] \in {"lock", "asleep", "fetch"} => todo'[u] \subseteq want'[u]
             /\ pc'[u] \in {"work", "failed"} => got'[u] # {}
  <2>1. CASE u = t
    BY <2>1 DEF Start, TypeOK
  <2>2. CASE u # t
    BY <2>2 DEF Start, TypeOK
  <2> QED BY <2>1, <2>2
<1> QED BY <1>1, <1>2, <1>3, <1>4 DEF TypeOK

\* A thread starts a call.
LEMMA BeginType ==
  ASSUME TypeOK, NEW t \in Threads, Begin(t)
  PROVE  TypeOK'
<1> USE DEF AllCalls, Places
<1>1. ASSUME NEW S \in SUBSET Ids, Get(t, S) PROVE TypeOK'
  <2>1. /\ locked' \in [Ids -> BOOLEAN] /\ stored' \in [Ids -> Nat]
        /\ mine' \in [Threads -> SUBSET Ids]
    BY <1>1 DEF Get, TypeOK
  <2> QED BY <1>1, <2>1, StartType DEF Get
<1>2. ASSUME FindScan(t) PROVE TypeOK'
  <2>1. /\ locked' \in [Ids -> BOOLEAN] /\ stored' \in [Ids -> Nat]
        /\ mine' \in [Threads -> SUBSET Ids]
    BY <1>2 DEF FindScan, TypeOK
  <2>2. CASE Matched = {}
    BY <1>2, <2>1, <2>2, StartType, ScansAreIds DEF FindScan
  <2>3. CASE Matched # {}
    BY <1>2, <2>1, <2>3, StartType, ScansAreIds DEF FindScan
  <2> QED BY <2>2, <2>3
<1>3. ASSUME FindOneScan(t) PROVE TypeOK'
  <2>1. /\ locked' \in [Ids -> BOOLEAN] /\ stored' \in [Ids -> Nat]
        /\ mine' \in [Threads -> SUBSET Ids]
    BY <1>3 DEF FindOneScan, TypeOK
  <2>2. ASSUME NEW id \in Matched, Start(t, "find_one", {id}, {}, "lock") PROVE TypeOK'
    BY <2>1, <2>2, StartType, ScansAreIds
  <2>3. ASSUME Start(t, "find_one", {}, {}, "idle") PROVE TypeOK'
    BY <2>1, <2>3, StartType
  <2> QED BY <1>3, <2>2, <2>3 DEF FindOneScan
<1>4. ASSUME NEW c \in AllCalls, AggregateScan(t, c) PROVE TypeOK'
  <2>1. /\ locked' \in [Ids -> BOOLEAN] /\ stored' \in [Ids -> Nat]
        /\ mine' \in [Threads -> SUBSET Ids]
    BY <1>4 DEF AggregateScan, TypeOK
  <2>2. CASE Existing = {}
    BY <1>4, <2>1, <2>2, StartType, ScansAreIds DEF AggregateScan
  <2>3. CASE Existing # {}
    BY <1>4, <2>1, <2>3, StartType, ScansAreIds DEF AggregateScan
  <2> QED BY <2>2, <2>3
<1>5. ASSUME NEW id \in Ids, Peek(t, id) PROVE TypeOK'
  <2>1. /\ locked' \in [Ids -> BOOLEAN] /\ stored' \in [Ids -> Nat]
        /\ mine' \in [Threads -> SUBSET Ids]
    BY <1>5 DEF Peek, TypeOK
  <2> QED BY <1>5, <2>1, StartType DEF Peek
<1>6. ASSUME NEW id \in Ids, New(t, id) PROVE TypeOK'
  <2>1. /\ locked' \in [Ids -> BOOLEAN] /\ stored' \in [Ids -> Nat]
        /\ mine' \in [Threads -> SUBSET Ids]
    BY <1>6 DEF New, TypeOK
  <2> QED BY <1>6, <2>1, StartType DEF New
<1>7. ASSUME NEW id \in Ids, LockCall(t, id) PROVE TypeOK'
  <2>1. /\ locked' \in [Ids -> BOOLEAN] /\ stored' \in [Ids -> Nat]
        /\ mine' \in [Threads -> SUBSET Ids]
    BY <1>7 DEF LockCall, TypeOK
  <2> QED BY <1>7, <2>1, StartType DEF LockCall
<1> QED BY <1>1, <1>2, <1>3, <1>4, <1>5, <1>6, <1>7 DEF Begin

\* A step of a thread inside a call, or disposing of its entities.
LEMMA ProgressType ==
  ASSUME TypeOK, NEW t \in Threads, Progress(t) \/ SpuriousWakeup(t)
  PROVE  TypeOK'
<1> USE DEF Places
<1>1. ASSUME NEW id \in Ids, Acquire(t, id) PROVE TypeOK'
  <2>1. locked' \in [Ids -> BOOLEAN] /\ mine' \in [Threads -> SUBSET Ids]
    BY <1>1 DEF Acquire, TypeOK
  <2>2. id \in todo[t] /\ todo[t] \subseteq want[t]
    BY <1>1 DEF Acquire, IsFirst, TypeOK
  <2>3. CASE todo[t] = {id}
    <3>1. pc' = [pc EXCEPT ![t] = "fetch"] /\ todo' = [todo EXCEPT ![t] = want[t]]
      BY <1>1, <2>3 DEF Acquire
    <3>2. pc' \in [Threads -> Places] /\ todo' \in [Threads -> SUBSET Ids]
      BY <3>1 DEF TypeOK
    <3>3. UNCHANGED <<stored, op, want, got, copy, calls>>
      BY <1>1 DEF Acquire
    <3> QED BY <2>1, <2>2, <3>1, <3>2, <3>3 DEF TypeOK
  <2>4. CASE todo[t] # {id}
    <3>1. pc' = pc /\ todo' = [todo EXCEPT ![t] = @ \ {id}]
      BY <1>1, <2>4 DEF Acquire
    <3>2. todo' \in [Threads -> SUBSET Ids]
      BY <3>1 DEF TypeOK
    <3>3. UNCHANGED <<stored, op, want, got, copy, calls>>
      BY <1>1 DEF Acquire
    <3>4. todo[t] \ {id} # {}
      BY <2>2, <2>4
    <3> QED BY <2>1, <2>2, <3>1, <3>2, <3>3, <3>4 DEF TypeOK
  <2> QED BY <2>3, <2>4
<1>2. ASSUME NEW id \in Ids, Sleep(t, id) PROVE TypeOK'
  BY <1>2 DEF Sleep, IsFirst, TypeOK
<1>3. ASSUME NEW id \in Ids, Fetch(t, id) PROVE TypeOK'
  <2>1. got' \in [Threads -> SUBSET Ids] /\ copy' \in [Threads -> [Ids -> Nat]]
    BY <1>3 DEF Fetch, TypeOK
  <2>2. \A u \in Threads : u # t => got'[u] = got[u]
    BY <1>3 DEF Fetch, TypeOK
  <2>3. CASE todo[t] # {id}
    <3>1. pc' = pc /\ todo' = [todo EXCEPT ![t] = @ \ {id}]
      BY <1>3, <2>3 DEF Fetch
    <3>2. todo[t] \ {id} # {} /\ pc[t] = "fetch"
      BY <1>3, <2>3 DEF Fetch
    <3>3. UNCHANGED <<locked, stored, op, want, mine, calls>>
      BY <1>3 DEF Fetch
    <3> QED BY <2>1, <2>2, <3>1, <3>2, <3>3 DEF TypeOK
  <2>4. CASE todo[t] = {id} /\ got'[t] = {} /\ op[t] = "find_one"
    BY <1>3, <2>1, <2>2, <2>4 DEF Fetch, TypeOK
  <2>5. CASE todo[t] = {id} /\ ~ (got'[t] = {} /\ op[t] = "find_one")
    <3>1. /\ pc' = [pc EXCEPT ![t] = IF got'[t] = {} THEN "idle" ELSE "work"]
          /\ todo' = [todo EXCEPT ![t] = {}]
      BY <1>3, <2>5 DEF Fetch
    <3>2. UNCHANGED <<locked, stored, op, want, mine, calls>>
      BY <1>3 DEF Fetch
    <3> QED BY <2>1, <2>2, <3>1, <3>2 DEF TypeOK
  <2> QED BY <2>3, <2>4, <2>5
<1>4. ASSUME NEW id \in Ids, Unlock(t, id) PROVE TypeOK'
  <2>1. /\ locked' \in [Ids -> BOOLEAN] /\ mine' \in [Threads -> SUBSET Ids]
        /\ todo' \in [Threads -> SUBSET Ids]
    BY <1>4 DEF Unlock, TypeOK
  <2>2. CASE \E u \in Sleepers(id) :
               pc' = [pc EXCEPT ![t] = IF todo[t] = {id} THEN "idle" ELSE "unlock",
                                ![u] = "lock"]
    <3>1. PICK u \in Sleepers(id) :
               pc' = [pc EXCEPT ![t] = IF todo[t] = {id} THEN "idle" ELSE "unlock",
                                ![u] = "lock"]
      BY <2>2
    <3>2. u \in Threads /\ u # t /\ pc[u] = "asleep"
      BY <1>4, <3>1 DEF Unlock, Sleepers
    <3> QED BY <1>4, <2>1, <3>1, <3>2 DEF Unlock, TypeOK
  <2>3. CASE pc' = [pc EXCEPT ![t] = IF todo[t] = {id} THEN "idle" ELSE "unlock"]
    BY <1>4, <2>1, <2>3 DEF Unlock, TypeOK
  <2> QED BY <1>4, <2>2, <2>3 DEF Unlock
<1>5. ASSUME NEW D \in SUBSET Ids, Commit(t, D) PROVE TypeOK'
  BY <1>5 DEF Commit, TypeOK
<1>6. ASSUME CommitConflict(t) PROVE TypeOK'
  BY <1>6 DEF CommitConflict, TypeOK
<1>7. ASSUME Abort(t) PROVE TypeOK'
  BY <1>7 DEF Abort, GotLocked, TypeOK
<1>8. ASSUME SpuriousWakeup(t) PROVE TypeOK'
  BY <1>8 DEF SpuriousWakeup, TypeOK
<1> QED BY <1>1, <1>2, <1>3, <1>4, <1>5, <1>6, <1>7, <1>8 DEF Progress

LEMMA TypeStep == TypeOK /\ [Next]_vars => TypeOK'
<1> SUFFICES ASSUME TypeOK, [Next]_vars PROVE TypeOK'
  OBVIOUS
<1>1. ASSUME NEW t \in Threads, Begin(t) \/ Progress(t) \/ SpuriousWakeup(t)
      PROVE  TypeOK'
  BY <1>1, BeginType, ProgressType
<1>2. CASE Finished \/ UNCHANGED vars
  BY <1>2 DEF Finished, vars, TypeOK
<1> QED BY <1>1, <1>2 DEF Next

LEMMA TypeInit == Init => TypeOK
  BY QueuedAssumption DEF Init, TypeOK, Places, AllCalls, QueuedAssumption

\* Type correctness, for every set of callers.
THEOREM TypeCorrect == Spec => []TypeOK
  BY TypeInit, TypeStep, PTL DEF Spec
-----------------------------------------------------------------------------
(***************************************************************************)
(* Disciplined callers                                                     *)
(***************************************************************************)

\* Of the calls, disciplined callers make only those that take locks first.
LEMMA StartDiscipline ==
  ASSUME LockInv, NEW t \in Threads, NEW c \in AllCalls \ {"peek", "new", "lock"},
         NEW S \in SUBSET Ids, NEW p \in {"idle", "lock"},
         Start(t, c, S, {}, p), UNCHANGED <<locked, stored, mine>>
  PROVE  MutualExclusion' /\ LockDiscipline'
<1>1. MutualExclusion'
  BY DEF LockInv, MutualExclusion
<1>2. ASSUME NEW u \in Threads, u # t
      PROVE  /\ op'[u] = op[u] /\ pc'[u] = pc[u] /\ got'[u] = got[u]
             /\ todo'[u] = todo[u] /\ want'[u] = want[u] /\ copy'[u] = copy[u]
  BY <1>2 DEF Start, LockInv, TypeOK
<1>3. /\ op'[t] = c /\ pc'[t] = p /\ got'[t] = {}
      /\ todo'[t] = S /\ want'[t] = S
  BY DEF Start, LockInv, TypeOK
<1>4. LockDiscipline'
  BY <1>2, <1>3 DEF LockInv, LockDiscipline
<1> QED BY <1>1, <1>4

LEMMA BeginDiscipline ==
  ASSUME Disciplined, LockInv, NEW t \in Threads, Begin(t)
  PROVE  MutualExclusion' /\ LockDiscipline'
<1> USE DEF AllCalls
<1>0. \A c \in {"peek", "new", "lock"} : c \notin Calls[t]
  BY DEF Disciplined
<1>1. ASSUME NEW S \in SUBSET Ids, Get(t, S)
      PROVE  MutualExclusion' /\ LockDiscipline'
  BY <1>1, StartDiscipline DEF Get
<1>2. ASSUME FindScan(t) PROVE MutualExclusion' /\ LockDiscipline'
  BY <1>2, StartDiscipline, ScansAreIds DEF FindScan
<1>3. ASSUME FindOneScan(t) PROVE MutualExclusion' /\ LockDiscipline'
  <2>1. UNCHANGED <<locked, stored, mine>>
    BY <1>3 DEF FindOneScan
  <2>2. ASSUME NEW id \in Matched, Start(t, "find_one", {id}, {}, "lock")
        PROVE  MutualExclusion' /\ LockDiscipline'
    BY <2>1, <2>2, StartDiscipline, ScansAreIds
  <2>3. ASSUME Start(t, "find_one", {}, {}, "idle")
        PROVE  MutualExclusion' /\ LockDiscipline'
    BY <2>1, <2>3, StartDiscipline
  <2> QED BY <1>3, <2>2, <2>3 DEF FindOneScan
<1>4. ASSUME NEW c \in AllCalls, AggregateScan(t, c)
      PROVE  MutualExclusion' /\ LockDiscipline'
  BY <1>4, StartDiscipline, ScansAreIds DEF AggregateScan
<1>5. ASSUME NEW id \in Ids, Peek(t, id) \/ New(t, id) \/ LockCall(t, id)
      PROVE  FALSE
  BY <1>0, <1>5 DEF Peek, New, LockCall, Start
<1> QED BY <1>1, <1>2, <1>3, <1>4, <1>5 DEF Begin

\* The flag of the next lock is clear, so nobody has it; now t has.
LEMMA AcquireDiscipline ==
  ASSUME LockInv, NEW t \in Threads, NEW id \in Ids, Acquire(t, id)
  PROVE  MutualExclusion' /\ LockDiscipline'
<1> USE DEF LockInv
<1>1. /\ mine' = [mine EXCEPT ![t] = @ \cup {id}]
      /\ locked' = [locked EXCEPT ![id] = TRUE]
      /\ UNCHANGED <<stored, op, want, got, copy>>
  BY DEF Acquire
<1>2. \A u \in Threads : id \notin mine[u]
  BY DEF Acquire, MutualExclusion
<1>3. MutualExclusion'
  BY <1>1, <1>2 DEF MutualExclusion, TypeOK
<1>4. /\ \A u \in Threads : mine[u] \subseteq mine'[u]
      /\ \A u \in Threads : u # t => pc'[u] = pc[u] /\ todo'[u] = todo[u]
      /\ id \in mine'[t] /\ pc[t] = "lock" /\ id \in todo[t]
  BY <1>1 DEF Acquire, IsFirst, TypeOK
<1>5. /\ got[t] = {} /\ want[t] \ todo[t] \subseteq mine[t]
  BY <1>4 DEF LockDiscipline
<1>6. \/ pc'[t] = "fetch" /\ todo[t] = {id} /\ want[t] \subseteq mine'[t]
      \/ pc'[t] = "lock" /\ todo'[t] = todo[t] \ {id}
  BY <1>4, <1>5 DEF Acquire, TypeOK
<1>7. LockDiscipline'
  BY <1>1, <1>4, <1>5, <1>6 DEF LockDiscipline
<1> QED BY <1>3, <1>7

\* Only entities whose lock t has are read, so they stay as they were read.
LEMMA FetchDiscipline ==
  ASSUME LockInv, NEW t \in Threads, NEW id \in Ids, Fetch(t, id)
  PROVE  MutualExclusion' /\ LockDiscipline'
<1> USE DEF LockInv
<1>1. UNCHANGED <<locked, stored, op, want, mine>>
  BY DEF Fetch
<1>2. MutualExclusion'
  BY <1>1 DEF MutualExclusion
<1>3. /\ pc[t] = "fetch" /\ id \in todo[t] /\ todo[t] \subseteq want[t]
      /\ got[t] \subseteq want[t] /\ want[t] \subseteq mine[t]
  BY DEF Fetch, LockDiscipline, TypeOK
<1>4. /\ \A u \in Threads : u # t => /\ pc'[u] = pc[u] /\ todo'[u] = todo[u]
                                    /\ got'[u] = got[u] /\ copy'[u] = copy[u]
      /\ copy'[t] = [copy[t] EXCEPT ![id] = stored[id]]
  BY DEF Fetch, TypeOK
<1>5. got'[t] = got[t] \/ got'[t] = got[t] \cup {id}
  BY DEF Fetch, TypeOK
<1>6. got'[t] \subseteq want[t] /\ \A j \in got'[t] : copy'[t][j] = stored[j]
  BY <1>3, <1>4, <1>5 DEF LockDiscipline, TypeOK
<1>7. \/ pc'[t] = "fetch"
      \/ pc'[t] = "unlock" /\ todo'[t] = todo[t]
      \/ pc'[t] \in {"idle", "work"}
  <2>1. CASE todo[t] # {id}
    BY <1>3, <2>1 DEF Fetch
  <2>2. CASE todo[t] = {id} /\ got'[t] = {} /\ op[t] = "find_one"
    BY <2>2 DEF Fetch, TypeOK
  <2>3. CASE todo[t] = {id} /\ ~ (got'[t] = {} /\ op[t] = "find_one")
    <3>1. pc' = [pc EXCEPT ![t] = IF got'[t] = {} THEN "idle" ELSE "work"]
      BY <2>3 DEF Fetch
    <3> QED BY <3>1 DEF TypeOK
  <2> QED BY <2>1, <2>2, <2>3
<1>8. LockDiscipline'
  <2> SUFFICES ASSUME NEW u \in Threads
               PROVE  /\ op'[u] \notin {"peek", "new", "lock"}
                      /\ pc'[u] # "failed"
                      /\ pc'[u] \in {"lock", "asleep"} =>
                           got'[u] = {} /\ want'[u] \ todo'[u] \subseteq mine'[u]
                      /\ pc'[u] = "fetch" =>
                           got'[u] \subseteq want'[u] /\ want'[u] \subseteq mine'[u]
                      /\ pc'[u] = "work" => got'[u] \subseteq mine'[u]
                      /\ pc'[u] = "unlock" => todo'[u] \subseteq mine'[u]
                      /\ pc'[u] \in {"fetch", "work"} =>
                           \A j \in got'[u] : copy'[u][j] = stored'[j]
    BY DEF LockDiscipline
  <2>1. CASE u = t
    BY <1>1, <1>3, <1>6, <1>7, <2>1 DEF LockDiscipline
  <2>2. CASE u # t
    BY <1>1, <1>4, <2>2 DEF LockDiscipline
  <2> QED BY <2>1, <2>2
<1> QED BY <1>2, <1>8

\* A commit changes streams whose locks t has: nobody else has read them.
LEMMA CommitDiscipline ==
  ASSUME LockInv, NEW t \in Threads, NEW D \in SUBSET Ids, Commit(t, D)
  PROVE  MutualExclusion' /\ LockDiscipline'
<1> USE DEF LockInv
<1>1. UNCHANGED <<locked, op, want, got, mine>>
  BY DEF Commit
<1>2. MutualExclusion'
  BY <1>1 DEF MutualExclusion
<1>3. /\ \A u \in Threads : u # t => /\ pc'[u] = pc[u] /\ todo'[u] = todo[u]
                                    /\ copy'[u] = copy[u]
      /\ pc'[t] = "unlock" /\ todo'[t] = got[t]
      /\ got[t] \subseteq mine[t] /\ D \subseteq got[t]
  BY DEF Commit, LockDiscipline, TypeOK
<1>4. ASSUME NEW u \in Threads, u # t, pc[u] \in {"fetch", "work"}, NEW j \in got[u]
      PROVE  copy'[u][j] = stored'[j]
  <2>1. j \in mine[u] /\ copy[u][j] = stored[j]
    BY <1>4 DEF LockDiscipline
  <2>2. j \notin D
    BY <1>3, <1>4, <2>1 DEF MutualExclusion
  <2>3. j \in Ids
    BY <1>4 DEF TypeOK
  <2> QED BY <1>3, <1>4, <2>1, <2>2, <2>3 DEF Commit
<1>5. LockDiscipline'
  BY <1>1, <1>3, <1>4 DEF LockDiscipline
<1> QED BY <1>2, <1>5

\* t gives back a lock it has: it was its only owner.
LEMMA UnlockDiscipline ==
  ASSUME LockInv, NEW t \in Threads, NEW id \in Ids, Unlock(t, id)
  PROVE  MutualExclusion' /\ LockDiscipline'
<1> USE DEF LockInv
<1>1. /\ mine' = [mine EXCEPT ![t] = @ \ {id}]
      /\ locked' = [locked EXCEPT ![id] = FALSE]
      /\ todo' = [todo EXCEPT ![t] = @ \ {id}]
      /\ UNCHANGED <<stored, op, want, got, copy>>
  BY DEF Unlock
<1>2. pc[t] = "unlock" /\ id \in mine[t]
  BY DEF Unlock, LockDiscipline
<1>3. MutualExclusion'
  <2>1. \A u, v \in Threads : u # v => mine'[u] \cap mine'[v] = {}
    BY <1>1 DEF MutualExclusion, TypeOK
  <2>2. \A j \in Ids : locked'[j] <=> \E u \in Threads : j \in mine'[u]
    <3> SUFFICES ASSUME NEW j \in Ids
                 PROVE  locked'[j] <=> \E u \in Threads : j \in mine'[u]
      OBVIOUS
    <3>1. CASE j = id
      BY <1>1, <1>2, <3>1 DEF MutualExclusion, TypeOK
    <3>2. CASE j # id
      BY <1>1, <3>2 DEF MutualExclusion, TypeOK
    <3> QED BY <3>1, <3>2
  <2> QED BY <2>1, <2>2 DEF MutualExclusion
<1>4. /\ \A u \in Threads : u # t => /\ mine'[u] = mine[u] /\ todo'[u] = todo[u]
                                    /\ \/ pc'[u] = pc[u]
                                       \/ pc[u] = "asleep" /\ pc'[u] = "lock"
      /\ mine'[t] = mine[t] \ {id} /\ todo'[t] = todo[t] \ {id}
  BY <1>1, <1>2 DEF Unlock, Sleepers, TypeOK
<1>5. pc'[t] \in {"idle", "unlock"}
  BY <1>2 DEF Unlock, Sleepers, TypeOK
<1>6. LockDiscipline'
  BY <1>1, <1>2, <1>4, <1>5 DEF LockDiscipline
<1> QED BY <1>3, <1>6

\* The remaining steps move a thread without touching locks or streams.
LEMMA OtherDiscipline ==
  ASSUME LockInv, NEW t \in Threads, NEW id \in Ids,
         Sleep(t, id) \/ CommitConflict(t) \/ Abort(t) \/ SpuriousWakeup(t)
  PROVE  MutualExclusion' /\ LockDiscipline'
<1> USE DEF LockInv
<1>1. UNCHANGED <<locked, stored, op, want, got, copy, mine>>
  BY DEF Sleep, CommitConflict, Abort, SpuriousWakeup
<1>2. MutualExclusion'
  BY <1>1 DEF MutualExclusion
<1>3. ~ CommitConflict(t)
  BY DEF CommitConflict, Current, LockDiscipline
<1>4. CASE Sleep(t, id)
  <2>1. /\ \A u \in Threads : u # t => pc'[u] = pc[u]
        /\ pc[t] = "lock" /\ pc'[t] = "asleep" /\ todo' = todo
    BY <1>4 DEF Sleep, TypeOK
  <2> QED BY <1>1, <1>2, <2>1 DEF LockDiscipline
<1>5. CASE SpuriousWakeup(t)
  <2>1. /\ \A u \in Threads : u # t => pc'[u] = pc[u]
        /\ pc[t] = "asleep" /\ pc'[t] = "lock" /\ todo' = todo
    BY <1>5 DEF SpuriousWakeup, TypeOK
  <2> QED BY <1>1, <1>2, <2>1 DEF LockDiscipline
<1>6. CASE Abort(t)
  <2>1. /\ \A u \in Threads : u # t => pc'[u] = pc[u] /\ todo'[u] = todo[u]
        /\ pc[t] \in {"work", "failed"} /\ pc'[t] \in {"idle", "unlock"}
        /\ todo'[t] \subseteq got[t]
    BY <1>6 DEF Abort, GotLocked, TypeOK
  <2>2. todo'[t] \subseteq mine[t]
    BY <2>1 DEF LockDiscipline
  <2> QED BY <1>1, <1>2, <2>1, <2>2 DEF LockDiscipline
<1> QED BY <1>2, <1>3, <1>4, <1>5, <1>6

\* The invariant behind mutual exclusion and serialized workflows.
THEOREM LockInvariance ==
  ASSUME Disciplined
  PROVE  Spec => []LockInv
<1>1. Init => LockInv
  BY TypeInit DEF Init, LockInv, MutualExclusion, LockDiscipline
<1>2. LockInv /\ [Next]_vars => LockInv'
  <2> SUFFICES ASSUME LockInv, [Next]_vars PROVE MutualExclusion' /\ LockDiscipline'
    BY TypeStep DEF LockInv
  <2>1. ASSUME NEW t \in Threads, Begin(t)
        PROVE  MutualExclusion' /\ LockDiscipline'
    BY <2>1, BeginDiscipline
  <2>2. ASSUME NEW t \in Threads, Progress(t) \/ SpuriousWakeup(t)
        PROVE  MutualExclusion' /\ LockDiscipline'
    <3>1. Ids # {}
      <4>1. CASE SpuriousWakeup(t)
        BY <4>1 DEF SpuriousWakeup, LockInv, TypeOK
      <4>2. CASE CommitConflict(t) \/ Abort(t)
        BY <4>2 DEF CommitConflict, Abort, LockInv, TypeOK
      <4>3. CASE \E D \in SUBSET Ids : Commit(t, D)
        BY <4>3 DEF Commit, LockInv, TypeOK
      <4> QED BY <2>2, <4>1, <4>2, <4>3 DEF Progress
    <3> QED BY <2>2, <3>1, AcquireDiscipline, FetchDiscipline, CommitDiscipline,
               UnlockDiscipline, OtherDiscipline DEF Progress
  <2>3. CASE Finished \/ UNCHANGED vars
    BY <2>3 DEF Finished, vars, LockInv, MutualExclusion, LockDiscipline
  <2> QED BY <2>1, <2>2, <2>3 DEF Next
<1> QED BY <1>1, <1>2, PTL DEF Spec

\* Mutual exclusion: no two threads have the lock of one id, and the flag of a
\* lock tells the truth, for callers that commit only what they locked.
THEOREM LocksExclude ==
  ASSUME Disciplined
  PROVE  Spec => []MutualExclusion
<1>1. LockInv => MutualExclusion
  BY DEF LockInv
<1> QED BY <1>1, LockInvariance, PTL

\* Serialized workflows: such a caller never sees ConcurrentWrite.
THEOREM WorkflowsAreSerialized ==
  ASSUME Disciplined
  PROVE  Spec => []SerializedWorkflows
<1>1. LockInv => SerializedWorkflows
  BY DEF LockInv, LockDiscipline, SerializedWorkflows, Current
<1> QED BY <1>1, LockInvariance, PTL
-----------------------------------------------------------------------------
(***************************************************************************)
(* Callers that are given all they lock                                    *)
(***************************************************************************)

\* A thread other than the one that steps is where it was, or was woken.
LEMMA AccountedElsewhere ==
  ASSUME LocksAccounted, NEW t \in Threads, NEW u \in Threads, u # t,
         pc'[u] = pc[u] \/ (pc[u] = "asleep" /\ pc'[u] = "lock"),
         op'[u] = op[u], want'[u] = want[u], todo'[u] = todo[u],
         got'[u] = got[u], mine'[u] = mine[u]
  PROVE  /\ pc'[u] = "idle" \/ op'[u] \in {"peek", "new"} => mine'[u] = {}
         /\ pc'[u] \in {"lock", "asleep", "fetch"} =>
              /\ op'[u] \in {"get", "find_one", "peek", "lock"}
              /\ op'[u] = "find_one" => \E id \in Ids : want'[u] = {id}
         /\ pc'[u] \in {"lock", "asleep"} => /\ op'[u] # "peek" /\ got'[u] = {}
                                            /\ mine'[u] \subseteq want'[u]
         /\ pc'[u] = "fetch" => /\ mine'[u] \subseteq want'[u]
                               /\ got'[u] \cup todo'[u] = want'[u]
         /\ pc'[u] \in {"work", "failed"} => mine'[u] \subseteq got'[u]
         /\ pc'[u] = "unlock" => mine'[u] \subseteq todo'[u]
  BY DEF LocksAccounted

\* An idle thread has no lock; what lock() takes, it fetches next.
LEMMA BeginAccounted ==
  ASSUME ReturnsWhatItLocks, TypeOK, LocksAccounted, NEW t \in Threads, Begin(t)
  PROVE  LocksAccounted'
<1>1. ASSUME NEW c, NEW S, NEW G, NEW p, Start(t, c, S, G, p)
      PROVE  /\ c \in {"get", "find_one", "peek", "new", "lock"} /\ mine[t] = {}
             /\ pc'[t] = p /\ op'[t] = c /\ want'[t] = S /\ todo'[t] = S /\ got'[t] = G
             /\ \A u \in Threads : u # t =>
                  /\ pc'[u] = pc[u] /\ op'[u] = op[u] /\ want'[u] = want[u]
                  /\ todo'[u] = todo[u] /\ got'[u] = got[u]
  <2>1. c \in {"get", "find_one", "peek", "new", "lock"} /\ mine[t] = {}
    BY <1>1 DEF Start, ReturnsWhatItLocks, LocksAccounted
  <2> QED BY <1>1, <2>1 DEF Start, TypeOK
<1>2. ASSUME NEW S \in SUBSET Ids, Get(t, S) PROVE LocksAccounted'
  <2>1. Start(t, "get", S, {}, "lock") /\ mine' = mine
    BY <1>2 DEF Get
  <2> QED BY <1>1, <2>1, AccountedElsewhere DEF LocksAccounted
<1>3. ASSUME NEW c \in {"find", "agg_find", "agg_find_one", "agg_exists"},
             FindScan(t) \/ AggregateScan(t, c)
      PROVE  FALSE
  BY <1>3 DEF FindScan, AggregateScan, Start, ReturnsWhatItLocks
<1>4. ASSUME FindOneScan(t) PROVE LocksAccounted'
  <2>1. mine' = mine
    BY <1>4 DEF FindOneScan
  <2>2. ASSUME NEW id \in Matched, Start(t, "find_one", {id}, {}, "lock")
        PROVE  LocksAccounted'
    BY <1>1, <2>1, <2>2, ScansAreIds, AccountedElsewhere DEF LocksAccounted
  <2>3. ASSUME Start(t, "find_one", {}, {}, "idle") PROVE LocksAccounted'
    BY <1>1, <2>1, <2>3, AccountedElsewhere DEF LocksAccounted
  <2> QED BY <1>4, <2>2, <2>3 DEF FindOneScan
<1>5. ASSUME NEW id \in Ids, Peek(t, id) PROVE LocksAccounted'
  <2>1. Start(t, "peek", {id}, {}, "fetch") /\ mine' = mine
    BY <1>5 DEF Peek
  <2> QED BY <1>1, <2>1, AccountedElsewhere DEF LocksAccounted
<1>6. ASSUME NEW id \in Ids, New(t, id) PROVE LocksAccounted'
  <2>1. Start(t, "new", {}, {id}, "work") /\ mine' = mine
    BY <1>6 DEF New
  <2> QED BY <1>1, <2>1, AccountedElsewhere DEF LocksAccounted
<1>7. ASSUME NEW id \in Ids, LockCall(t, id) PROVE LocksAccounted'
  <2>1. Start(t, "lock", {id}, {}, "fetch") /\ mine' = [mine EXCEPT ![t] = @ \cup {id}]
    BY <1>7 DEF LockCall
  <2>2. /\ mine'[t] = mine[t] \cup {id}
        /\ \A u \in Threads : u # t => mine'[u] = mine[u]
    BY <2>1 DEF TypeOK
  <2> QED BY <1>1, <2>1, <2>2, AccountedElsewhere DEF LocksAccounted
<1>8. ASSUME NEW c \in AllCalls, AggregateScan(t, c) PROVE LocksAccounted'
  BY <1>3, <1>8 DEF AggregateScan
<1> QED BY <1>2, <1>3, <1>4, <1>5, <1>6, <1>7, <1>8 DEF Begin

\* What a thread locks it wants; what it wants it fetches and is given, or
\* gives back.
LEMMA ProgressAccounted ==
  ASSUME TypeOK, LocksAccounted, NEW t \in Threads, Progress(t) \/ SpuriousWakeup(t)
  PROVE  LocksAccounted'
<1>1. ASSUME NEW id \in Ids, Acquire(t, id) PROVE LocksAccounted'
  <2>1. /\ mine'[t] = mine[t] \cup {id} /\ UNCHANGED <<op, want, got>>
        /\ \A u \in Threads : u # t =>
             pc'[u] = pc[u] /\ todo'[u] = todo[u] /\ mine'[u] = mine[u]
    BY <1>1 DEF Acquire, TypeOK
  <2>2. /\ pc[t] = "lock" /\ id \in want[t] /\ got[t] = {} /\ mine[t] \subseteq want[t]
        /\ op[t] \in {"get", "find_one", "lock"}
    BY <1>1 DEF Acquire, IsFirst, TypeOK, LocksAccounted
  <2>3. (pc'[t] = "fetch" /\ todo'[t] = want[t]) \/ pc'[t] = "lock"
    BY <1>1, <2>2 DEF Acquire, TypeOK
  <2> QED BY <2>1, <2>2, <2>3, AccountedElsewhere DEF LocksAccounted
<1>2. ASSUME NEW id \in Ids, Fetch(t, id) PROVE LocksAccounted'
  <2>1. /\ UNCHANGED <<op, want, mine>>
        /\ pc[t] = "fetch" /\ id \in todo[t] /\ todo[t] \subseteq want[t]
        /\ op[t] \in {"get", "find_one", "peek", "lock"}
        /\ mine[t] \subseteq want[t] /\ got[t] \cup todo[t] = want[t]
    BY <1>2 DEF Fetch, LocksAccounted, TypeOK
  <2>2. \A u \in Threads : u # t =>
           pc'[u] = pc[u] /\ todo'[u] = todo[u] /\ got'[u] = got[u]
    BY <1>2 DEF Fetch, TypeOK
  <2>3. CASE op[t] \in {"get", "peek", "lock"}
    <3>1. Returned(t, id)
      BY <2>3 DEF Returned
    <3>2. got'[t] = got[t] \cup {id}
      BY <1>2, <3>1 DEF Fetch, TypeOK
    <3>3. CASE todo[t] # {id}
      <4>1. pc'[t] = "fetch" /\ todo'[t] = todo[t] \ {id}
        BY <1>2, <2>1, <3>3 DEF Fetch, TypeOK
      <4>2. got'[t] \cup todo'[t] = want[t]
        BY <2>1, <3>2, <4>1
      <4> QED BY <2>1, <2>2, <2>3, <4>1, <4>2, AccountedElsewhere DEF LocksAccounted
    <3>4. CASE todo[t] = {id}
      <4>1. pc'[t] = "work"
        BY <1>2, <2>1, <2>3, <3>2, <3>4 DEF Fetch, TypeOK
      <4>2. got'[t] = want[t]
        BY <2>1, <3>2, <3>4
      <4> QED BY <2>1, <2>2, <4>1, <4>2, AccountedElsewhere DEF LocksAccounted
    <3> QED BY <3>3, <3>4
  <2>4. CASE op[t] = "find_one"
    <3>1. PICK x \in Ids : want[t] = {x}
      BY <2>1, <2>4 DEF LocksAccounted
    <3>2. todo[t] = {id} /\ want[t] = {id} /\ mine[t] \subseteq {id}
      BY <2>1, <3>1
    <3>3. CASE got'[t] = {}
      <4>1. pc'[t] = "unlock" /\ todo'[t] = {id}
        BY <1>2, <2>4, <3>2, <3>3 DEF Fetch, TypeOK
      <4> QED BY <2>1, <2>2, <3>2, <4>1, AccountedElsewhere DEF LocksAccounted
    <3>4. CASE got'[t] # {}
      <4>1. pc'[t] = "work"
        BY <1>2, <3>2, <3>4 DEF Fetch, TypeOK
      <4>2. got'[t] = got[t] \/ got'[t] = got[t] \cup {id}
        BY <1>2 DEF Fetch, TypeOK
      <4>3. got'[t] = {id}
        BY <2>1, <3>2, <3>4, <4>2
      <4> QED BY <2>1, <2>2, <3>2, <4>1, <4>3, AccountedElsewhere DEF LocksAccounted
    <3> QED BY <3>3, <3>4
  <2> QED BY <2>1, <2>3, <2>4
<1>3. ASSUME NEW id \in Ids, Unlock(t, id) PROVE LocksAccounted'
  <2>1. /\ UNCHANGED <<op, want, got>> /\ pc[t] = "unlock"
        /\ mine'[t] = mine[t] \ {id} /\ todo'[t] = todo[t] \ {id}
        /\ mine[t] \subseteq todo[t]
        /\ \A u \in Threads : u # t => todo'[u] = todo[u] /\ mine'[u] = mine[u]
    BY <1>3 DEF Unlock, LocksAccounted, TypeOK
  <2>2. /\ pc'[t] = IF todo[t] = {id} THEN "idle" ELSE "unlock"
        /\ \A u \in Threads : u # t =>
             pc'[u] = pc[u] \/ (pc[u] = "asleep" /\ pc'[u] = "lock")
    BY <1>3, <2>1 DEF Unlock, Sleepers, TypeOK
  <2> QED BY <2>1, <2>2, AccountedElsewhere DEF LocksAccounted
<1>4. ASSUME NEW D \in SUBSET Ids, Commit(t, D) PROVE LocksAccounted'
  <2>1. /\ UNCHANGED <<op, want, got, mine>>
        /\ pc[t] = "work" /\ pc'[t] = "unlock" /\ todo'[t] = got[t]
        /\ \A u \in Threads : u # t => pc'[u] = pc[u] /\ todo'[u] = todo[u]
    BY <1>4 DEF Commit, TypeOK
  <2> QED BY <2>1, AccountedElsewhere DEF LocksAccounted
<1>5. ASSUME Abort(t) PROVE LocksAccounted'
  <2>1. /\ UNCHANGED <<op, want, got, mine>>
        /\ pc[t] \in {"work", "failed"} /\ todo'[t] = GotLocked(t)
        /\ pc'[t] = IF todo'[t] = {} THEN "idle" ELSE "unlock"
        /\ \A u \in Threads : u # t => pc'[u] = pc[u] /\ todo'[u] = todo[u]
    BY <1>5 DEF Abort, TypeOK
  <2>2. mine[t] \subseteq GotLocked(t)
    BY <2>1 DEF LocksAccounted, GotLocked
  <2> QED BY <2>1, <2>2, AccountedElsewhere DEF LocksAccounted
<1>6. ASSUME NEW id \in Ids, Sleep(t, id) PROVE LocksAccounted'
  <2>1. /\ UNCHANGED <<op, want, todo, got, mine>>
        /\ pc[t] = "lock" /\ pc'[t] = "asleep"
        /\ \A u \in Threads : u # t => pc'[u] = pc[u]
    BY <1>6 DEF Sleep, TypeOK
  <2> QED BY <2>1, AccountedElsewhere DEF LocksAccounted
<1>7. ASSUME CommitConflict(t) \/ SpuriousWakeup(t) PROVE LocksAccounted'
  <2>1. /\ UNCHANGED <<op, want, todo, got, mine>>
        /\ \/ pc[t] = "work" /\ pc'[t] = "failed"
           \/ pc[t] = "asleep" /\ pc'[t] = "lock"
        /\ \A u \in Threads : u # t => pc'[u] = pc[u]
    BY <1>7 DEF CommitConflict, SpuriousWakeup, TypeOK
  <2> QED BY <2>1, AccountedElsewhere DEF LocksAccounted
<1> QED BY <1>1, <1>2, <1>3, <1>4, <1>5, <1>6, <1>7 DEF Progress

\* Where the locks of such callers are.
THEOREM LocksAreAccounted ==
  ASSUME ReturnsWhatItLocks
  PROVE  Spec => []LocksAccounted
<1>1. Init => LocksAccounted
  BY DEF Init, LocksAccounted
<1>2. TypeOK /\ LocksAccounted /\ [Next]_vars => LocksAccounted'
  <2>1. CASE Finished \/ UNCHANGED vars
    BY <2>1 DEF Finished, vars, LocksAccounted
  <2> QED BY <2>1, BeginAccounted, ProgressAccounted DEF Next
<1> QED BY <1>1, <1>2, TypeCorrect, PTL DEF Spec

\* A finished workflow leaves no lock behind, whether it committed, failed or
\* gave up, and although other callers release locks that are not theirs.
THEOREM WorkflowsLeaveNoLock ==
  ASSUME ReturnsWhatItLocks
  PROVE  Spec => []NoLockLeft
<1>1. LocksAccounted => NoLockLeft
  BY DEF LocksAccounted, NoLockLeft
<1> QED BY <1>1, LocksAreAccounted, PTL
-----------------------------------------------------------------------------
(***************************************************************************)
(* A set flag has a thread on its way to clear it                          *)
(***************************************************************************)

\* A thread that stays where it is, or is woken, goes on to unlock the same ids.
LEMMA SameWillUnlock ==
  ASSUME TypeOK, NEW u \in Threads,
         pc'[u] = pc[u] \/ (pc[u] = "asleep" /\ pc'[u] = "lock"),
         op'[u] = op[u], want'[u] = want[u], todo'[u] = todo[u], got'[u] = got[u]
  PROVE  WillUnlock(u)' = WillUnlock(u)
<1>1. pc[u] \in Places
  BY DEF TypeOK
<1> QED BY <1>1 DEF WillUnlock, GotLocked, Places

\* If only thread t changes what it will unlock, and forgets only ids whose flag
\* is clear afterwards, every set flag keeps its releaser.
LEMMA ReleaserKept ==
  ASSUME FlagHasReleaser, NEW t \in Threads,
         \A u \in Threads : u # t => WillUnlock(u)' = WillUnlock(u),
         \A id \in Ids : locked'[id] => locked[id] \/ id \in WillUnlock(t)',
         \A id \in WillUnlock(t) : id \in WillUnlock(t)' \/ ~ locked'[id]
  PROVE  FlagHasReleaser'
  BY DEF FlagHasReleaser

\* A thread that starts a call had nothing to unlock.
LEMMA BeginReleaser ==
  ASSUME ReturnsWhatItLocks, TypeOK, FlagHasReleaser, NEW t \in Threads, Begin(t)
  PROVE  FlagHasReleaser'
<1>1. ASSUME NEW c, NEW S, NEW G, NEW p, Start(t, c, S, G, p)
      PROVE  /\ WillUnlock(t) = {}
             /\ \A u \in Threads : u # t => WillUnlock(u)' = WillUnlock(u)
  <2>1. WillUnlock(t) = {}
    BY <1>1 DEF Start, WillUnlock
  <2>2. ASSUME NEW u \in Threads, u # t PROVE WillUnlock(u)' = WillUnlock(u)
    <3>1. /\ pc'[u] = pc[u] /\ op'[u] = op[u] /\ want'[u] = want[u]
          /\ todo'[u] = todo[u] /\ got'[u] = got[u]
      BY <1>1, <2>2 DEF Start, TypeOK
    <3> QED BY <3>1, SameWillUnlock
  <2> QED BY <2>1, <2>2
<1>2. ASSUME NEW c, NEW S, NEW G, NEW p, Start(t, c, S, G, p), locked' = locked
      PROVE  FlagHasReleaser'
  BY <1>1, <1>2, ReleaserKept
<1>3. ASSUME NEW S \in SUBSET Ids, Get(t, S) PROVE FlagHasReleaser'
  BY <1>2, <1>3 DEF Get
<1>4. ASSUME FindScan(t) PROVE FlagHasReleaser'
  BY <1>2, <1>4 DEF FindScan
<1>5. ASSUME FindOneScan(t) PROVE FlagHasReleaser'
  BY <1>2, <1>5 DEF FindOneScan
<1>6. ASSUME NEW c \in AllCalls, AggregateScan(t, c) PROVE FlagHasReleaser'
  BY <1>2, <1>6 DEF AggregateScan
<1>7. ASSUME NEW id \in Ids, Peek(t, id) \/ New(t, id) PROVE FlagHasReleaser'
  BY <1>2, <1>7 DEF Peek, New
<1>8. ASSUME NEW id \in Ids, LockCall(t, id) PROVE FlagHasReleaser'
  <2>1. Start(t, "lock", {id}, {}, "fetch") /\ locked' = [locked EXCEPT ![id] = TRUE]
    BY <1>8 DEF LockCall
  <2>2. pc'[t] = "fetch" /\ op'[t] = "lock" /\ want'[t] = {id}
    BY <2>1 DEF Start, TypeOK
  <2>3. id \in WillUnlock(t)'
    BY <2>2 DEF WillUnlock
  <2>4. \A j \in Ids : locked'[j] => locked[j] \/ j = id
    BY <2>1 DEF TypeOK
  <2> QED BY <1>1, <2>1, <2>3, <2>4, ReleaserKept
<1> QED BY <1>3, <1>4, <1>5, <1>6, <1>7, <1>8 DEF Begin

\* What a thread has locked stays on its list until it clears the flag.
LEMMA ProgressReleaser ==
  ASSUME TypeOK, LocksAccounted, FlagHasReleaser, NEW t \in Threads,
         Progress(t) \/ SpuriousWakeup(t)
  PROVE  FlagHasReleaser'
<1>1. ASSUME NEW id \in Ids, Acquire(t, id) PROVE FlagHasReleaser'
  <2>1. /\ UNCHANGED <<op, want, got>> /\ locked' = [locked EXCEPT ![id] = TRUE]
        /\ pc[t] = "lock" /\ id \in todo[t] /\ todo[t] \subseteq want[t]
        /\ op[t] # "peek"
        /\ \A u \in Threads : u # t => pc'[u] = pc[u] /\ todo'[u] = todo[u]
    BY <1>1 DEF Acquire, IsFirst, TypeOK, LocksAccounted
  <2>2. \/ pc'[t] = "fetch"
        \/ pc'[t] = "lock" /\ todo'[t] = todo[t] \ {id}
    BY <1>1, <2>1 DEF Acquire, TypeOK
  <2>3. WillUnlock(t) = want[t] \ todo[t]
    BY <2>1 DEF WillUnlock
  <2>4. WillUnlock(t) \cup {id} \subseteq WillUnlock(t)'
    BY <2>1, <2>2, <2>3 DEF WillUnlock
  <2>5. \A j \in Ids : locked'[j] => locked[j] \/ j = id
    BY <2>1 DEF TypeOK
  <2>6. \A u \in Threads : u # t => WillUnlock(u)' = WillUnlock(u)
    BY <2>1, SameWillUnlock
  <2> QED BY <2>4, <2>5, <2>6, ReleaserKept
<1>2. ASSUME NEW id \in Ids, Fetch(t, id) PROVE FlagHasReleaser'
  <2>1. /\ UNCHANGED <<locked, op, want>>
        /\ pc[t] = "fetch" /\ id \in todo[t] /\ todo[t] \subseteq want[t]
        /\ op[t] \in {"get", "find_one", "peek", "lock"}
        /\ got[t] \cup todo[t] = want[t]
    BY <1>2 DEF Fetch, LocksAccounted, TypeOK
  <2>2. \A u \in Threads : u # t =>
           pc'[u] = pc[u] /\ todo'[u] = todo[u] /\ got'[u] = got[u]
    BY <1>2 DEF Fetch, TypeOK
  <2>3. WillUnlock(t) \subseteq WillUnlock(t)'
    <3>1. CASE op[t] = "peek"
      BY <2>1, <3>1 DEF WillUnlock
    <3>2. CASE op[t] # "peek" /\ todo[t] # {id}
      <4>1. pc'[t] = "fetch"
        BY <1>2, <2>1, <3>2 DEF Fetch
      <4> QED BY <2>1, <4>1 DEF WillUnlock
    <3>3. CASE op[t] \in {"get", "lock"} /\ todo[t] = {id}
      <4>1. Returned(t, id)
        BY <3>3 DEF Returned
      <4>2. got'[t] = want[t]
        BY <1>2, <2>1, <3>3, <4>1 DEF Fetch, TypeOK
      <4>3. pc'[t] = "work"
        BY <1>2, <2>1, <3>3, <4>2 DEF Fetch, TypeOK
      <4> QED BY <2>1, <3>3, <4>2, <4>3 DEF WillUnlock, GotLocked
    <3>4. CASE op[t] = "find_one" /\ todo[t] = {id}
      <4>1. PICK x \in Ids : want[t] = {x}
        BY <2>1, <3>4 DEF LocksAccounted
      <4>2. want[t] = {id}
        BY <2>1, <4>1
      <4>3. CASE got'[t] = {}
        <5>1. pc'[t] = "unlock" /\ todo'[t] = {id}
          BY <1>2, <3>4, <4>3 DEF Fetch, TypeOK
        <5> QED BY <2>1, <3>4, <4>2, <5>1 DEF WillUnlock
      <4>4. CASE got'[t] # {}
        <5>1. pc'[t] = "work"
          BY <1>2, <3>4, <4>4 DEF Fetch, TypeOK
        <5>2. got'[t] = got[t] \/ got'[t] = got[t] \cup {id}
          BY <1>2 DEF Fetch, TypeOK
        <5>3. got'[t] = {id}
          BY <2>1, <4>2, <4>4, <5>2
        <5> QED BY <2>1, <3>4, <4>2, <5>1, <5>3 DEF WillUnlock, GotLocked
      <4> QED BY <4>3, <4>4
    <3> QED BY <2>1, <3>1, <3>2, <3>3, <3>4
  <2>4. \A u \in Threads : u # t => WillUnlock(u)' = WillUnlock(u)
    BY <2>1, <2>2, SameWillUnlock
  <2> QED BY <2>1, <2>3, <2>4, ReleaserKept
<1>3. ASSUME NEW id \in Ids, Unlock(t, id) PROVE FlagHasReleaser'
  <2>1. /\ UNCHANGED <<op, want, got>> /\ locked' = [locked EXCEPT ![id] = FALSE]
        /\ pc[t] = "unlock" /\ todo'[t] = todo[t] \ {id}
        /\ \A u \in Threads : u # t => todo'[u] = todo[u]
    BY <1>3 DEF Unlock, TypeOK
  <2>2. /\ pc'[t] = IF todo[t] = {id} THEN "idle" ELSE "unlock"
        /\ \A u \in Threads : u # t =>
             pc'[u] = pc[u] \/ (pc[u] = "asleep" /\ pc'[u] = "lock")
    BY <1>3, <2>1 DEF Unlock, Sleepers, TypeOK
  <2>3. WillUnlock(t) = todo[t] /\ WillUnlock(t)' = todo[t] \ {id}
    BY <2>1, <2>2 DEF WillUnlock
  <2>4. ~ locked'[id] /\ \A j \in Ids : locked'[j] => locked[j]
    BY <2>1 DEF TypeOK
  <2>5. \A u \in Threads : u # t => WillUnlock(u)' = WillUnlock(u)
    BY <2>1, <2>2, SameWillUnlock
  <2> QED BY <2>3, <2>4, <2>5, ReleaserKept
<1>4. ASSUME Abort(t) \/ \E D \in SUBSET Ids : Commit(t, D) PROVE FlagHasReleaser'
  <2>1. /\ UNCHANGED <<locked, op, want, got>> /\ pc[t] \in {"work", "failed"}
        /\ \A u \in Threads : u # t => pc'[u] = pc[u] /\ todo'[u] = todo[u]
        /\ todo'[t] \in {got[t], GotLocked(t)}
        /\ pc'[t] = "unlock" \/ (pc'[t] = "idle" /\ todo'[t] = {})
    BY <1>4 DEF Abort, Commit, GotLocked, TypeOK
  <2>2. WillUnlock(t) = GotLocked(t) /\ WillUnlock(t)' = todo'[t]
    BY <2>1 DEF WillUnlock
  <2>3. WillUnlock(t) \subseteq WillUnlock(t)'
    BY <2>1, <2>2 DEF GotLocked
  <2>4. \A u \in Threads : u # t => WillUnlock(u)' = WillUnlock(u)
    BY <2>1, SameWillUnlock
  <2> QED BY <2>1, <2>3, <2>4, ReleaserKept
<1>5. ASSUME NEW id \in Ids, Sleep(t, id) PROVE FlagHasReleaser'
  <2>1. /\ UNCHANGED <<locked, op, want, todo, got>>
        /\ pc[t] = "lock" /\ pc'[t] = "asleep"
        /\ \A u \in Threads : u # t => pc'[u] = pc[u]
    BY <1>5 DEF Sleep, TypeOK
  <2>2. WillUnlock(t)' = WillUnlock(t)
    BY <2>1 DEF WillUnlock
  <2> QED BY <2>1, <2>2, SameWillUnlock, ReleaserKept
<1>6. ASSUME CommitConflict(t) \/ SpuriousWakeup(t) PROVE FlagHasReleaser'
  <2>1. /\ UNCHANGED <<locked, op, want, todo, got>>
        /\ \/ pc[t] = "work" /\ pc'[t] = "failed"
           \/ pc[t] = "asleep" /\ pc'[t] = "lock"
        /\ \A u \in Threads : u # t => pc'[u] = pc[u]
    BY <1>6 DEF CommitConflict, SpuriousWakeup, TypeOK
  <2>2. WillUnlock(t)' = WillUnlock(t)
    BY <2>1 DEF WillUnlock, GotLocked
  <2> QED BY <2>1, <2>2, SameWillUnlock, ReleaserKept
<1> QED BY <1>1, <1>2, <1>3, <1>4, <1>5, <1>6 DEF Progress

\* No flag stays set with nobody to clear it, although nothing records who holds
\* a lock, lock() reports success to callers that did not get it and commits
\* release the locks of others.
THEOREM EveryLockHasAReleaser ==
  ASSUME ReturnsWhatItLocks
  PROVE  Spec => []FlagHasReleaser
<1>1. Init => FlagHasReleaser
  BY DEF Init, FlagHasReleaser
<1>2. TypeOK /\ LocksAccounted /\ FlagHasReleaser /\ [Next]_vars => FlagHasReleaser'
  <2> SUFFICES ASSUME TypeOK, LocksAccounted, FlagHasReleaser, [Next]_vars
               PROVE  FlagHasReleaser'
    OBVIOUS
  <2>1. ASSUME UNCHANGED vars PROVE FlagHasReleaser'
    <3>1. UNCHANGED <<locked, pc, op, want, todo, got>>
      BY <2>1 DEF vars
    <3>2. \A u \in Threads : WillUnlock(u)' = WillUnlock(u)
      BY <3>1, SameWillUnlock
    <3> QED BY <3>1, <3>2 DEF FlagHasReleaser
  <2> QED BY <2>1, BeginReleaser, ProgressReleaser DEF Next, Finished
<1> QED BY <1>1, <1>2, TypeCorrect, LocksAreAccounted, PTL DEF Spec
=============================================================================
