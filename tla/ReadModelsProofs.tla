-------------------------- MODULE ReadModelsProofs --------------------------
(***************************************************************************)
(* Proofs about ReadModels for any callers, keys and bounds.  The          *)
(* invariant is ReadModelsInv.                                             *)
(***************************************************************************)
EXTENDS ReadModels, WellFoundedInduction, TLAPS

\* Stages of a history: Precedes is a partial order that appending extends.
LEMMA PrecedesFacts ==
  /\ \A s \in Histories : Precedes(s, s) /\ Precedes(<< >>, s)
  /\ \A s, t, u \in Histories : Precedes(s, t) /\ Precedes(t, u) => Precedes(s, u)
  /\ \A s \in Histories, c \in Callers : Append(s, c) \in Histories /\ Precedes(s, Append(s, c))
<1>1. ASSUME NEW s \in Histories
      PROVE  Precedes(s, s) /\ Precedes(<< >>, s)
  BY DEF Histories, Precedes
<1>2. ASSUME NEW s \in Histories, NEW t \in Histories, NEW u \in Histories,
             Precedes(s, t), Precedes(t, u)
      PROVE  Precedes(s, u)
  <2>1. Len(s) \in Nat /\ Len(t) \in Nat /\ Len(u) \in Nat
    BY DEF Histories
  <2> QED BY <1>2, <2>1 DEF Precedes
<1>3. ASSUME NEW s \in Histories, NEW c \in Callers
      PROVE  Append(s, c) \in Histories /\ Precedes(s, Append(s, c))
  BY DEF Histories, Precedes
<1> QED BY <1>1, <1>2, <1>3

\* What is not loaded is no history.
LEMMA NotLoadedIsNoHistory == NotLoaded \notin Histories
<1> SUFFICES ASSUME NotLoaded \in Seq(Callers) PROVE FALSE
  BY DEF Histories
<1>1. Len(NotLoaded) = 1 /\ NotLoaded[1] = "not loaded"
  BY DEF NotLoaded
<1>2. \A s \in Seq(Callers) : \A i \in 1 .. Len(s) : s[i] \in Callers
  OBVIOUS
<1>3. 1 \in 1 .. Len(NotLoaded)
  <2>1. 1 \in 1 .. 1
    OBVIOUS
  <2> QED BY <1>1, <2>1, Zenon
<1>4. NotLoaded[1] \in Callers
  BY <1>2, <1>3
<1> QED BY <1>1, <1>4, ReadModelsAssumption DEF ReadModelsAssumption

LEMMA AbsentIsModel == Absent \in Models
<1>1. << >> \in Histories
  BY DEF Histories
<1> QED BY <1>1 DEF Absent, Models

LEMMA KeyFacts ==
  /\ \A k \in Guarded : k \in Keys /\ k \notin Optimistic
  /\ \A k \in Optimistic : k \in Keys /\ k \notin Guarded
  /\ \A k \in Keys : k \in Nat
  BY ReadModelsAssumption DEF ReadModelsAssumption, Keys

\* The types of the variables, without the conditions that relate them.
VarsOK ==
  /\ history \in Histories
  /\ storage \in [Keys -> Models]
  /\ locked \in [Keys -> BOOLEAN]
  /\ call \in [Callers -> Operations]
  /\ want \in [Callers -> SUBSET Guarded]
  /\ todo \in [Callers -> SUBSET Keys]
  /\ held \in [Callers -> SUBSET Guarded]
  /\ copy = [c \in Callers |-> copy[c]]
  /\ base \in [Callers -> Histories \cup {NotLoaded}]
  /\ gone \in [Callers -> SUBSET Keys]

CopiesOK ==
  \A c \in Callers : DOMAIN copy[c] \subseteq Keys /\ copy[c] \in [DOMAIN copy[c] -> Models]

CallsOK == \A c \in Callers : call[c] = "none" <=> want[c] \cup todo[c] = {}

StorageOK == \A k \in Keys : storage[k].version = 0 => storage[k] = Absent

\* The conditions on the hands of one caller.
HandsOK(c) ==
  /\ DOMAIN copy[c] \cap Guarded \subseteq held[c]
  /\ \A k \in want[c], j \in held[c] : j < k
  /\ base[c] # NotLoaded => InHand(c) # {} /\ call[c] \in {"none", "commit"}
  /\ call[c] = "commit" => base[c] # NotLoaded /\ todo[c] = InHand(c) /\ want[c] = {}
  /\ call[c] # "commit" => todo[c] \subseteq (held[c] \cup want[c]) \ DOMAIN copy[c]

Inv ==
  /\ VarsOK /\ CopiesOK /\ CallsOK /\ StorageOK /\ LocksAreHeld
  /\ \A c \in Callers : HandsOK(c)
  /\ HeldCopyIsCurrent
  /\ ViewsAreHistory /\ BaseIsHistory /\ VersionsGrow /\ VersionNamesContent

LEMMA InvIsReadModelsInv == (Inv <=> ReadModelsInv) /\ (Inv' <=> ReadModelsInv')
<1>1. TypeOK <=> VarsOK /\ CopiesOK /\ CallsOK /\ StorageOK
  BY DEF TypeOK, VarsOK, CopiesOK, CallsOK, StorageOK, Present
<1>2. TypeOK' <=> VarsOK' /\ CopiesOK' /\ CallsOK' /\ StorageOK'
  BY DEF TypeOK, VarsOK, CopiesOK, CallsOK, StorageOK, Present
<1>3. HandsAreInOrder <=> \A c \in Callers : HandsOK(c)
  BY DEF HandsAreInOrder, HandsOK
<1>4. HandsAreInOrder' <=> \A c \in Callers : HandsOK(c)'
  BY DEF HandsAreInOrder, HandsOK, InHand
<1> QED BY <1>1, <1>2, <1>3, <1>4 DEF Inv, ReadModelsInv

LEMMA InvInit == Init => Inv
<1> SUFFICES ASSUME Init PROVE Inv
  OBVIOUS
<1> USE DEF Init
<1>1. /\ << >> \in Histories /\ Precedes(<< >>, << >>)
      /\ Absent \in Models /\ Absent.version = 0 /\ Absent.data = << >>
  <2>1. << >> \in Histories
    BY DEF Histories
  <2> QED BY <2>1, AbsentIsModel, PrecedesFacts DEF Absent
<1>2. VarsOK
  BY <1>1 DEF VarsOK, Operations
<1>3. \A c \in Callers : copy[c] = NoCopies /\ DOMAIN NoCopies = {}
  BY DEF NoCopies
<1>4. CopiesOK
  BY <1>3 DEF CopiesOK, NoCopies
<1>5. CallsOK /\ StorageOK
  BY DEF CallsOK, StorageOK
<1>6. LocksAreHeld /\ HeldCopyIsCurrent
  BY DEF LocksAreHeld, HeldCopyIsCurrent
<1>7. \A c \in Callers : HandsOK(c)
  BY <1>3 DEF HandsOK
<1>8. ViewsAreHistory
  BY <1>1 DEF ViewsAreHistory
<1>9. BaseIsHistory
  BY DEF BaseIsHistory
<1>10. VersionsGrow /\ VersionNamesContent
  BY <1>3 DEF VersionsGrow, VersionNamesContent
<1> QED BY <1>2, <1>4, <1>5, <1>6, <1>7, <1>8, <1>9, <1>10 DEF Inv

\* A key that a caller has in its hands is locked by nobody else.
LEMMA NobodyElseHolds ==
  ASSUME Inv, NEW c \in Callers, NEW k \in InHand(c), NEW d \in Callers, d # c
  PROVE  k \notin held[d]
<1> SUFFICES ASSUME k \in held[d] PROVE FALSE
  OBVIOUS
<1>1. k \in Guarded /\ k \in Keys
  BY KeyFacts DEF Inv, VarsOK
<1>2. k \in held[c]
  BY <1>1 DEF Inv, HandsOK, InHand
<1> QED BY <1>1, <1>2 DEF Inv, LocksAreHeld
-----------------------------------------------------------------------------
(***************************************************************************)
(* Reading                                                                 *)
(***************************************************************************)

\* An operation that locks and fetches starts.
LEMMA StartStep ==
  ASSUME Inv, NEW c \in Callers, NEW name \in {"lock", "get_model", "find_models"},
         NEW ks \in SUBSET Guarded, NEW ms \in SUBSET ks,
         Start(c, name, ks, ms), Idle(c), ks # {}, base[c] = NotLoaded,
         \A k \in ks, j \in InHand(c) : j < k
  PROVE  Inv'
<1> USE DEF Inv
<1>1. /\ call' = [call EXCEPT ![c] = name]
      /\ want' = [want EXCEPT ![c] = ks]
      /\ todo' = [todo EXCEPT ![c] = ms]
      /\ UNCHANGED <<history, storage, locked, held, copy, base, gone>>
  BY DEF Start
<1>2. ms \in SUBSET Keys /\ name \in Operations /\ name # "none" /\ name # "commit"
  BY KeyFacts DEF Operations
<1>3. VarsOK'
  BY <1>1, <1>2 DEF VarsOK
<1>4. /\ call'[c] = name /\ want'[c] = ks /\ todo'[c] = ms
      /\ \A d \in Callers : d # c => /\ call'[d] = call[d] /\ want'[d] = want[d]
                                     /\ todo'[d] = todo[d]
  BY <1>1 DEF VarsOK
<1>5. CallsOK'
  BY <1>2, <1>4 DEF CallsOK
<1>6. \A k \in ks : k \in Nat /\ k \notin DOMAIN copy[c]
  <2> SUFFICES ASSUME NEW k \in ks PROVE k \in Nat /\ k \notin DOMAIN copy[c]
    OBVIOUS
  <2>1. k \in Nat
    BY KeyFacts
  <2>2. k \notin InHand(c)
    BY <2>1
  <2> QED BY <2>1, <2>2 DEF InHand
<1>7. ASSUME NEW d \in Callers PROVE HandsOK(d)'
  <2>1. CASE d = c
    BY <1>1, <1>2, <1>4, <1>6, <2>1 DEF HandsOK, InHand
  <2>2. CASE d # c
    <3>1. HandsOK(d)
      OBVIOUS
    <3> QED BY <1>1, <1>4, <2>2, <3>1 DEF HandsOK, InHand
  <2> QED BY <2>1, <2>2
<1>8. /\ CopiesOK' /\ StorageOK' /\ LocksAreHeld' /\ HeldCopyIsCurrent'
      /\ ViewsAreHistory' /\ BaseIsHistory' /\ VersionsGrow' /\ VersionNamesContent'
  BY <1>1 DEF CopiesOK, StorageOK, LocksAreHeld, HeldCopyIsCurrent, ViewsAreHistory,
              BaseIsHistory, VersionsGrow, VersionNamesContent
<1> QED BY <1>3, <1>5, <1>7, <1>8

\* Lock, GetModel, FindModels and FindOneModel are such starts.
LEMMA ReadsStart ==
  ASSUME Inv, NEW c \in Callers,
         \/ FindModels(c) \/ FindOneModel(c)
         \/ \E k \in Keys : Lock(c, k) \/ GetModel(c, k)
  PROVE  Inv'
<1>1. ASSUME NEW k \in Keys, Lock(c, k) \/ GetModel(c, k) PROVE Inv'
  <2>1. MayLock(c, k)
    BY <1>1 DEF Lock, GetModel
  <2>2. /\ Idle(c) /\ k \in Guarded /\ base[c] = NotLoaded
        /\ \A j \in InHand(c) : j < k
    BY <2>1 DEF MayLock
  <2>3. Start(c, "lock", {k}, {}) \/ Start(c, "get_model", {k}, {k})
    BY <1>1 DEF Lock, GetModel
  <2>4. {k} \in SUBSET Guarded /\ {k} # {} /\ {} \in SUBSET {k} /\ {k} \in SUBSET {k}
    BY <2>2
  <2>5. CASE Start(c, "lock", {k}, {})
    BY <2>2, <2>4, <2>5, StartStep
  <2>6. CASE Start(c, "get_model", {k}, {k})
    BY <2>2, <2>4, <2>6, StartStep
  <2> QED BY <2>3, <2>5, <2>6
<1>2. ASSUME NEW ks \in SUBSET Guarded, ks # {}, Idle(c), InHand(c) = {},
             Start(c, "find_models", ks, ks)
      PROVE  Inv'
  <2>1. base[c] = NotLoaded
    BY <1>2 DEF Inv, HandsOK
  <2> QED BY <1>2, <2>1, StartStep
<1>3. CASE FindModels(c)
  BY <1>2, <1>3 DEF FindModels
<1>4. CASE FindOneModel(c)
  <2>1. PICK k \in Guarded : Start(c, "find_models", {k}, {k})
    BY <1>4 DEF FindOneModel
  <2> QED BY <1>2, <1>4, <2>1 DEF FindOneModel
<1> QED BY <1>1, <1>3, <1>4

\* The next lock in order is taken.
LEMMA AcquireStep ==
  ASSUME Inv, NEW c \in Callers, Acquire(c)
  PROVE  Inv'
<1> USE DEF Inv
<1>1. PICK k \in want[c] :
        /\ \A j \in want[c] : k <= j
        /\ ~ locked[k]
        /\ locked' = [locked EXCEPT ![k] = TRUE]
        /\ held' = [held EXCEPT ![c] = held[c] \cup {k}]
        /\ want' = [want EXCEPT ![c] = want[c] \ {k}]
        /\ call' = [call EXCEPT ![c] = IF want'[c] \cup todo[c] = {} THEN "none" ELSE call[c]]
        /\ UNCHANGED <<history, storage, todo, copy, base, gone>>
  BY DEF Acquire
<1>2. k \in Guarded /\ k \in Keys /\ k \in Nat
  BY KeyFacts DEF VarsOK
<1>3. VarsOK'
  <2>1. locked' \in [Keys -> BOOLEAN] /\ held' \in [Callers -> SUBSET Guarded]
        /\ want' \in [Callers -> SUBSET Guarded]
    BY <1>1, <1>2 DEF VarsOK
  <2>2. call' \in [Callers -> Operations]
    BY <1>1 DEF VarsOK, Operations
  <2> QED BY <1>1, <2>1, <2>2 DEF VarsOK
<1>4. /\ held'[c] = held[c] \cup {k} /\ want'[c] = want[c] \ {k}
      /\ call'[c] = IF want'[c] \cup todo[c] = {} THEN "none" ELSE call[c]
      /\ \A d \in Callers : d # c => /\ call'[d] = call[d] /\ want'[d] = want[d]
                                     /\ held'[d] = held[d]
      /\ locked'[k] = TRUE
      /\ \A j \in Keys : j # k => locked'[j] = locked[j]
  BY <1>1, <1>2 DEF VarsOK
<1>5. call[c] \notin {"none", "commit"} /\ base[c] = NotLoaded
  BY <1>1 DEF CallsOK, HandsOK
<1>6. CallsOK'
  BY <1>1, <1>4, <1>5 DEF CallsOK
<1>7. LocksAreHeld'
  <2>1. \A d \in Callers : k \notin held[d]
    BY <1>1, <1>2 DEF LocksAreHeld
  <2>2. \A j \in Keys, d \in Callers : j # k => (j \in held'[d] <=> j \in held[d])
    BY <1>4
  <2>3. \A d \in Callers : k \in held'[d] <=> d = c
    BY <1>4, <2>1
  <2> QED BY <1>4, <2>2, <2>3 DEF LocksAreHeld
<1>8. ASSUME NEW d \in Callers PROVE HandsOK(d)'
  <2>1. CASE d = c
    <3>1. \A j \in want[c] \ {k} : j > k
      <4>1. \A j \in want[c] : j \in Nat
        BY KeyFacts DEF VarsOK
      <4> QED BY <1>1, <1>2, <4>1
    <3>2. HandsOK(c)
      OBVIOUS
    <3>3. \A i \in want'[c], j \in held'[c] : j < i
      BY <1>4, <3>1, <3>2 DEF HandsOK
    <3>4. call'[c] # "commit" /\ base'[c] = NotLoaded
      BY <1>1, <1>4, <1>5
    <3>5. DOMAIN copy'[c] \cap Guarded \subseteq held'[c]
      BY <1>1, <1>4, <3>2 DEF HandsOK
    <3>6. todo'[c] \subseteq (held'[c] \cup want'[c]) \ DOMAIN copy'[c]
      BY <1>1, <1>4, <1>5, <3>2 DEF HandsOK
    <3> QED BY <2>1, <3>3, <3>4, <3>5, <3>6 DEF HandsOK
  <2>2. CASE d # c
    <3>1. HandsOK(d)
      OBVIOUS
    <3> QED BY <1>1, <1>4, <2>2, <3>1 DEF HandsOK, InHand
  <2> QED BY <2>1, <2>2
<1>9. HeldCopyIsCurrent'
  <2>1. k \notin DOMAIN copy[c]
    <3>1. \A j \in held[c] : j # k
      BY <1>1, <1>2, KeyFacts DEF HandsOK, VarsOK
    <3> QED BY <1>2, <3>1 DEF HandsOK
  <2> QED BY <1>1, <1>4, <2>1 DEF HeldCopyIsCurrent
<1>10. BaseIsHistory'
  BY <1>1, <1>4, <1>5 DEF BaseIsHistory
<1>11. /\ CopiesOK' /\ StorageOK' /\ ViewsAreHistory' /\ VersionsGrow' /\ VersionNamesContent'
  BY <1>1 DEF CopiesOK, StorageOK, ViewsAreHistory, VersionsGrow, VersionNamesContent
<1> QED BY <1>3, <1>6, <1>7, <1>8, <1>9, <1>10, <1>11

\* The caller is given what is stored: by Peek, or by Fetch under the lock.
LEMMA ReturnedKeeps ==
  ASSUME Inv, NEW c \in Callers, NEW k \in Keys, Returned(c, k),
         k \in Guarded => k \in held[c],
         UNCHANGED <<history, storage, locked, held, base>>
  PROVE  /\ copy' = [d \in Callers |-> copy'[d]] /\ gone' \in [Callers -> SUBSET Keys]
         /\ CopiesOK' /\ StorageOK' /\ LocksAreHeld' /\ HeldCopyIsCurrent'
         /\ ViewsAreHistory' /\ BaseIsHistory' /\ VersionsGrow' /\ VersionNamesContent'
         /\ DOMAIN copy'[c] = DOMAIN copy[c] \cup {k}
         /\ \A d \in Callers : d # c => copy'[d] = copy[d]
<1> USE DEF Inv
<1>1. /\ copy' = [copy EXCEPT ![c] = Put(copy[c], k, storage[k])]
      /\ gone' = [gone EXCEPT ![c] = gone[c] \ {k}]
  BY DEF Returned
<1>2. /\ copy'[c] = Put(copy[c], k, storage[k])
      /\ \A d \in Callers : d # c => copy'[d] = copy[d] /\ gone'[d] = gone[d]
      /\ gone'[c] = gone[c] \ {k}
      /\ copy' = [d \in Callers |-> copy'[d]] /\ gone' \in [Callers -> SUBSET Keys]
  BY <1>1 DEF VarsOK
<1>3. /\ DOMAIN copy'[c] = DOMAIN copy[c] \cup {k}
      /\ copy'[c][k] = storage[k]
      /\ \A j \in DOMAIN copy[c] : j # k => copy'[c][j] = copy[c][j]
      /\ copy'[c] = [j \in DOMAIN copy'[c] |-> copy'[c][j]]
  BY <1>2 DEF Put
<1>4. CopiesOK'
  <2>1. storage[k] \in Models
    BY DEF VarsOK
  <2>2. DOMAIN copy'[c] \subseteq Keys /\ \A j \in DOMAIN copy'[c] : copy'[c][j] \in Models
    BY <1>3, <2>1 DEF CopiesOK
  <2>3. copy'[c] \in [DOMAIN copy'[c] -> Models]
    BY <1>3, <2>2
  <2> QED BY <1>2, <2>2, <2>3 DEF CopiesOK
<1>5. HeldCopyIsCurrent'
  BY <1>2, <1>3 DEF HeldCopyIsCurrent
<1>6. VersionsGrow'
  <2>1. storage[k].version \in Nat
    BY DEF VarsOK, Models
  <2> QED BY <1>2, <1>3, <2>1 DEF VersionsGrow
<1>7. VersionNamesContent'
  BY <1>2, <1>3 DEF VersionNamesContent
<1>8. StorageOK' /\ LocksAreHeld' /\ ViewsAreHistory' /\ BaseIsHistory'
  BY DEF StorageOK, LocksAreHeld, ViewsAreHistory, BaseIsHistory
<1> QED BY <1>2, <1>3, <1>4, <1>5, <1>6, <1>7, <1>8

LEMMA PeekStep ==
  ASSUME Inv, NEW c \in Callers, NEW k \in Keys, Peek(c, k)
  PROVE  Inv'
<1> USE DEF Inv
<1>1. /\ Idle(c) /\ k \in Optimistic /\ k \notin Guarded
      /\ held[c] = {} /\ base[c] = NotLoaded /\ Returned(c, k)
      /\ UNCHANGED <<history, storage, locked, call, want, todo, held, base>>
  BY KeyFacts DEF Peek
<1>2. /\ copy' = [d \in Callers |-> copy'[d]] /\ gone' \in [Callers -> SUBSET Keys]
      /\ CopiesOK' /\ StorageOK' /\ LocksAreHeld' /\ HeldCopyIsCurrent'
      /\ ViewsAreHistory' /\ BaseIsHistory' /\ VersionsGrow' /\ VersionNamesContent'
      /\ DOMAIN copy'[c] = DOMAIN copy[c] \cup {k}
      /\ \A d \in Callers : d # c => copy'[d] = copy[d]
  BY <1>1, ReturnedKeeps
<1>3. VarsOK' /\ CallsOK'
  BY <1>1, <1>2 DEF VarsOK, CallsOK
<1>4. ASSUME NEW d \in Callers PROVE HandsOK(d)'
  <2>1. HandsOK(d)
    OBVIOUS
  <2>2. CASE d = c
    <3>1. todo[c] = {} /\ want[c] = {} /\ call[c] = "none"
      BY <1>1 DEF CallsOK, Idle
    <3> QED BY <1>1, <1>2, <2>1, <2>2, <3>1 DEF HandsOK
  <2>3. CASE d # c
    BY <1>1, <1>2, <2>1, <2>3 DEF HandsOK, InHand
  <2> QED BY <2>2, <2>3
<1> QED BY <1>2, <1>3, <1>4

\* Fetch returns the model under its lock, or releases one that no longer matches.
LEMMA FetchStep ==
  ASSUME Inv, NEW c \in Callers, NEW k \in Keys, Fetch(c, k)
  PROVE  Inv'
<1> USE DEF Inv
<1>1. /\ call[c] \in {"get_model", "find_models"} /\ want[c] = {} /\ k \in todo[c]
      /\ todo' = [todo EXCEPT ![c] = todo[c] \ {k}]
      /\ call' = [call EXCEPT ![c] = IF todo[c] = {k} THEN "none" ELSE call[c]]
      /\ UNCHANGED <<history, storage, want, base>>
      /\ \/ /\ locked' = [locked EXCEPT ![k] = FALSE]
            /\ held' = [held EXCEPT ![c] = held[c] \ {k}]
            /\ UNCHANGED <<copy, gone>>
         \/ Returned(c, k) /\ UNCHANGED <<locked, held>>
  BY DEF Fetch
<1>2. /\ todo'[c] = todo[c] \ {k}
      /\ call'[c] = IF todo[c] = {k} THEN "none" ELSE call[c]
      /\ \A d \in Callers : d # c => todo'[d] = todo[d] /\ call'[d] = call[d]
      /\ todo' \in [Callers -> SUBSET Keys]
  BY <1>1 DEF VarsOK
<1>3. call' \in [Callers -> Operations]
  BY <1>1 DEF VarsOK, Operations
<1>4. CallsOK'
  BY <1>1, <1>2 DEF CallsOK
<1>5. /\ k \in held[c] /\ k \notin DOMAIN copy[c] /\ base[c] = NotLoaded
      /\ k \in Guarded /\ call'[c] # "commit"
  BY <1>1, <1>2 DEF HandsOK, VarsOK
<1>6. CASE /\ locked' = [locked EXCEPT ![k] = FALSE]
           /\ held' = [held EXCEPT ![c] = held[c] \ {k}]
           /\ UNCHANGED <<copy, gone>>
  <2>1. /\ locked'[k] = FALSE
        /\ \A j \in Keys : j # k => locked'[j] = locked[j]
        /\ held'[c] = held[c] \ {k}
        /\ \A d \in Callers : d # c => held'[d] = held[d]
        /\ locked' \in [Keys -> BOOLEAN] /\ held' \in [Callers -> SUBSET Guarded]
    BY <1>6 DEF VarsOK
  <2>2. VarsOK'
    BY <1>1, <1>2, <1>3, <1>6, <2>1 DEF VarsOK
  <2>3. LocksAreHeld'
    <3>1. \A d \in Callers : k \notin held'[d]
      BY <1>5, <2>1 DEF LocksAreHeld
    <3>2. \A j \in Keys, d \in Callers : j # k => (j \in held'[d] <=> j \in held[d])
      BY <2>1
    <3> QED BY <2>1, <3>1, <3>2 DEF LocksAreHeld
  <2>4. ASSUME NEW d \in Callers PROVE HandsOK(d)'
    <3>1. HandsOK(d)
      OBVIOUS
    <3>2. CASE d = c
      BY <1>1, <1>2, <1>5, <1>6, <2>1, <3>1, <3>2 DEF HandsOK
    <3>3. CASE d # c
      BY <1>1, <1>2, <1>6, <2>1, <3>1, <3>3 DEF HandsOK, InHand
    <3> QED BY <3>2, <3>3
  <2>5. HeldCopyIsCurrent' /\ BaseIsHistory'
    BY <1>1, <1>6, <2>1 DEF HeldCopyIsCurrent, BaseIsHistory
  <2>6. /\ CopiesOK' /\ StorageOK' /\ ViewsAreHistory' /\ VersionsGrow' /\ VersionNamesContent'
    BY <1>1, <1>6 DEF CopiesOK, StorageOK, ViewsAreHistory, VersionsGrow, VersionNamesContent
  <2> QED BY <1>4, <2>2, <2>3, <2>4, <2>5, <2>6
<1>7. CASE Returned(c, k) /\ UNCHANGED <<locked, held>>
  <2>1. /\ copy' = [d \in Callers |-> copy'[d]] /\ gone' \in [Callers -> SUBSET Keys]
        /\ CopiesOK' /\ StorageOK' /\ LocksAreHeld' /\ HeldCopyIsCurrent'
        /\ ViewsAreHistory' /\ BaseIsHistory' /\ VersionsGrow' /\ VersionNamesContent'
        /\ DOMAIN copy'[c] = DOMAIN copy[c] \cup {k}
        /\ \A d \in Callers : d # c => copy'[d] = copy[d]
    BY <1>1, <1>5, <1>7, ReturnedKeeps
  <2>2. VarsOK'
    BY <1>1, <1>2, <1>3, <1>7, <2>1 DEF VarsOK
  <2>3. ASSUME NEW d \in Callers PROVE HandsOK(d)'
    <3>1. HandsOK(d)
      OBVIOUS
    <3>2. CASE d = c
      BY <1>1, <1>2, <1>5, <1>7, <2>1, <3>1, <3>2 DEF HandsOK
    <3>3. CASE d # c
      BY <1>1, <1>2, <1>7, <2>1, <3>1, <3>3 DEF HandsOK, InHand
    <3> QED BY <3>2, <3>3
  <2> QED BY <1>4, <2>1, <2>2, <2>3
<1> QED BY <1>1, <1>6, <1>7

\* The aggregate is loaded once the locks are taken: it is ahead of every view.
LEMMA LoadAggregateStep ==
  ASSUME Inv, NEW c \in Callers, LoadAggregate(c)
  PROVE  Inv'
<1> USE DEF Inv
<1>1. /\ Idle(c) /\ InHand(c) # {}
      /\ base' = [base EXCEPT ![c] = history]
      /\ UNCHANGED <<history, storage, locked, call, want, todo, held, copy, gone>>
  BY DEF LoadAggregate
<1>2. history \in Histories
  BY DEF VarsOK
<1>3. /\ base' \in [Callers -> Histories \cup {NotLoaded}] /\ base'[c] = history
      /\ \A d \in Callers : d # c => base'[d] = base[d]
  BY <1>1, <1>2 DEF VarsOK
<1>4. VarsOK' /\ CallsOK'
  BY <1>1, <1>3 DEF VarsOK, CallsOK
<1>5. ASSUME NEW d \in Callers PROVE HandsOK(d)'
  <2>1. HandsOK(d)
    OBVIOUS
  <2>2. CASE d = c
    BY <1>1, <2>1, <2>2 DEF HandsOK, InHand, Idle
  <2>3. CASE d # c
    BY <1>1, <1>3, <2>1, <2>3 DEF HandsOK, InHand
  <2> QED BY <2>2, <2>3
<1>6. BaseIsHistory'
  <2>1. Precedes(history, history)
    BY <1>2, PrecedesFacts
  <2>2. \A k \in held[c] : Precedes(storage[k].data, history)
    BY KeyFacts DEF ViewsAreHistory, VarsOK
  <2> QED BY <1>1, <1>3, <2>1, <2>2 DEF BaseIsHistory
<1>7. /\ CopiesOK' /\ StorageOK' /\ LocksAreHeld' /\ HeldCopyIsCurrent'
      /\ ViewsAreHistory' /\ VersionsGrow' /\ VersionNamesContent'
  BY <1>1 DEF CopiesOK, StorageOK, LocksAreHeld, HeldCopyIsCurrent, ViewsAreHistory,
              VersionsGrow, VersionNamesContent
<1> QED BY <1>4, <1>5, <1>6, <1>7
-----------------------------------------------------------------------------
(***************************************************************************)
(* Writing.  Upsert, Insert, Update, Delete, Unlock and UpsertRaw end what *)
(* a caller has to do with one key: they share one proof.                  *)
(***************************************************************************)

\* What happens to the stored model: nothing, a new version, or its deletion.
Untouched(c, k) == storage' = storage /\ gone' = [gone EXCEPT ![c] = @ \ {k}]

Rewritten(c, k) ==
  /\ base[c] # NotLoaded
  /\ storage' = [storage EXCEPT ![k] = [version |-> storage[k].version + 1, data |-> base[c]]]
  /\ gone' = [gone EXCEPT ![c] = @ \ {k}]

Deleted(c, k) ==
  /\ storage' = [storage EXCEPT ![k] = Absent]
  /\ gone' = [d \in Callers |-> IF d = c THEN gone[d] \ {k}
                                ELSE IF k \in DOMAIN copy[d] THEN gone[d] \cup {k}
                                ELSE gone[d]]

Finish(c, k) ==
  /\ k \in InHand(c)
  /\ Release(c, k)
  /\ UNCHANGED <<history, want>>
  /\ \/ Idle(c) /\ UNCHANGED <<call, todo>>
     \/ /\ call[c] = "commit" /\ k \in todo[c]
        /\ todo' = [todo EXCEPT ![c] = @ \ {k}]
        /\ call' = [call EXCEPT ![c] = IF todo[c] = {k} THEN "none" ELSE @]
  /\ Untouched(c, k) \/ Rewritten(c, k) \/ Deleted(c, k)

LEMMA WritesFinish ==
  ASSUME Inv, NEW c \in Callers, NEW k \in Keys,
         \/ Upsert(c, k) \/ Insert(c, k) \/ Update(c, k) \/ Delete(c, k)
         \/ Unlock(c, k) \/ UpsertRaw(c, k)
  PROVE  Finish(c, k)
<1>1. CASE Upsert(c, k) \/ Insert(c, k) \/ Update(c, k)
  BY <1>1 DEF Upsert, Insert, Update, MayWrite, Write, Saved, Finish, Rewritten
<1>2. CASE Delete(c, k)
  BY <1>2 DEF Delete, Finish, Deleted
<1>3. CASE Unlock(c, k)
  BY <1>3 DEF Unlock, Finish, Untouched
<1>4. CASE UpsertRaw(c, k)
  <2>1. base[c] # NotLoaded /\ todo[c] = InHand(c)
    BY <1>4 DEF UpsertRaw, Inv, HandsOK
  <2> QED BY <1>4, <2>1 DEF UpsertRaw, Saved, Finish, Rewritten
<1> QED BY <1>1, <1>2, <1>3, <1>4

\* The effect of such a step on the hands of its caller, and of the others.
LEMMA FinishHands ==
  ASSUME Inv, NEW c \in Callers, NEW k \in Keys, Finish(c, k)
  PROVE  /\ VarsOK' /\ CopiesOK' /\ CallsOK' /\ StorageOK'
         /\ held'[c] = held[c] \ {k}
         /\ DOMAIN copy'[c] = DOMAIN copy[c] \ {k}
         /\ \A j \in DOMAIN copy'[c] : copy'[c][j] = copy[c][j]
         /\ InHand(c)' = InHand(c) \ {k}
         /\ base'[c] = IF InHand(c) = {k} THEN NotLoaded ELSE base[c]
         /\ \A d \in Callers : d # c =>
              /\ held'[d] = held[d] /\ copy'[d] = copy[d] /\ base'[d] = base[d]
              /\ call'[d] = call[d] /\ todo'[d] = todo[d]
         /\ \A j \in Keys : j # k => storage'[j] = storage[j] /\ locked'[j] = locked[j]
         /\ locked'[k] = FALSE
<1> USE DEF Inv
<1>1. /\ k \in InHand(c)
      /\ locked' = [locked EXCEPT ![k] = FALSE]
      /\ held' = [held EXCEPT ![c] = held[c] \ {k}]
      /\ copy' = [copy EXCEPT ![c] = Without(copy[c], k)]
      /\ base' = [base EXCEPT ![c] = IF InHand(c) = {k} THEN NotLoaded ELSE base[c]]
      /\ UNCHANGED <<history, want>>
  BY DEF Finish, Release
<1>2. /\ \/ Idle(c) /\ UNCHANGED <<call, todo>>
         \/ /\ call[c] = "commit" /\ k \in todo[c]
            /\ todo' = [todo EXCEPT ![c] = todo[c] \ {k}]
            /\ call' = [call EXCEPT ![c] = IF todo[c] = {k} THEN "none" ELSE call[c]]
      /\ Untouched(c, k) \/ Rewritten(c, k) \/ Deleted(c, k)
  BY DEF Finish
<1>3. /\ held'[c] = held[c] \ {k} /\ held' \in [Callers -> SUBSET Guarded]
      /\ locked'[k] = FALSE /\ locked' \in [Keys -> BOOLEAN]
      /\ \A j \in Keys : j # k => locked'[j] = locked[j]
      /\ copy'[c] = Without(copy[c], k) /\ copy' = [d \in Callers |-> copy'[d]]
      /\ base'[c] = IF InHand(c) = {k} THEN NotLoaded ELSE base[c]
      /\ \A d \in Callers : d # c =>
           held'[d] = held[d] /\ copy'[d] = copy[d] /\ base'[d] = base[d]
  BY <1>1 DEF VarsOK
<1>4. base' \in [Callers -> Histories \cup {NotLoaded}]
  BY <1>1 DEF VarsOK
<1>5. /\ todo' \in [Callers -> SUBSET Keys] /\ call' \in [Callers -> Operations]
      /\ \A d \in Callers : d # c => call'[d] = call[d] /\ todo'[d] = todo[d]
  <2>1. CASE Idle(c) /\ UNCHANGED <<call, todo>>
    BY <2>1 DEF VarsOK
  <2>2. CASE /\ todo' = [todo EXCEPT ![c] = todo[c] \ {k}]
             /\ call' = [call EXCEPT ![c] = IF todo[c] = {k} THEN "none" ELSE call[c]]
    BY <2>2 DEF VarsOK, Operations
  <2> QED BY <1>2, <2>1, <2>2
<1>6. CallsOK'
  <2>1. CASE Idle(c) /\ UNCHANGED <<call, todo>>
    BY <1>1, <2>1 DEF CallsOK
  <2>2. CASE /\ call[c] = "commit" /\ k \in todo[c]
             /\ todo' = [todo EXCEPT ![c] = todo[c] \ {k}]
             /\ call' = [call EXCEPT ![c] = IF todo[c] = {k} THEN "none" ELSE call[c]]
    <3>1. /\ todo'[c] = todo[c] \ {k}
          /\ call'[c] = IF todo[c] = {k} THEN "none" ELSE call[c]
          /\ want'[c] = {}
      BY <1>1, <2>2 DEF VarsOK, HandsOK
    <3> QED BY <1>1, <1>5, <2>2, <3>1 DEF CallsOK
  <2> QED BY <1>2, <2>1, <2>2
<1>7. /\ storage' \in [Keys -> Models] /\ gone' \in [Callers -> SUBSET Keys]
      /\ \A j \in Keys : j # k => storage'[j] = storage[j]
      /\ storage'[k].version = 0 => storage'[k] = Absent
  <2>1. CASE Untouched(c, k)
    BY <2>1 DEF Untouched, VarsOK, StorageOK
  <2>2. CASE Rewritten(c, k)
    <3> DEFINE new == [version |-> storage[k].version + 1, data |-> base[c]]
    <3>1. base[c] \in Histories /\ storage[k].version \in Nat
      BY <2>2 DEF Rewritten, VarsOK, Models
    <3>2. new \in Models /\ new.version # 0
      BY <3>1 DEF Models
    <3>3. storage' = [storage EXCEPT ![k] = new]
      BY <2>2 DEF Rewritten
    <3> HIDE DEF new
    <3> QED BY <2>2, <3>2, <3>3 DEF Rewritten, VarsOK
  <2>3. CASE Deleted(c, k)
    BY <2>3, AbsentIsModel DEF Deleted, VarsOK
  <2> QED BY <1>2, <2>1, <2>2, <2>3
<1>8. VarsOK'
  BY <1>1, <1>3, <1>4, <1>5, <1>7 DEF VarsOK
<1>9. StorageOK'
  BY <1>7 DEF StorageOK
<1>10. /\ DOMAIN copy'[c] = DOMAIN copy[c] \ {k}
       /\ \A j \in DOMAIN copy'[c] : copy'[c][j] = copy[c][j]
       /\ copy'[c] = [j \in DOMAIN copy'[c] |-> copy'[c][j]]
  BY <1>3 DEF Without
<1>11. CopiesOK'
  <2>1. DOMAIN copy'[c] \subseteq Keys /\ \A j \in DOMAIN copy'[c] : copy'[c][j] \in Models
    BY <1>10 DEF CopiesOK
  <2>2. copy'[c] \in [DOMAIN copy'[c] -> Models]
    BY <1>10, <2>1
  <2> QED BY <1>3, <2>1, <2>2 DEF CopiesOK
<1>12. InHand(c)' = InHand(c) \ {k}
  BY <1>3, <1>10 DEF InHand
<1> QED BY <1>3, <1>5, <1>6, <1>7, <1>8, <1>9, <1>10, <1>11, <1>12

LEMMA FinishStep ==
  ASSUME Inv, NEW c \in Callers, NEW k \in Keys, Finish(c, k)
  PROVE  Inv'
<1> USE DEF Inv
<1>0. /\ k \in InHand(c) /\ UNCHANGED <<history, want>>
      /\ \/ Idle(c) /\ UNCHANGED <<call, todo>>
         \/ /\ call[c] = "commit" /\ k \in todo[c]
            /\ todo' = [todo EXCEPT ![c] = todo[c] \ {k}]
            /\ call' = [call EXCEPT ![c] = IF todo[c] = {k} THEN "none" ELSE call[c]]
      /\ Untouched(c, k) \/ Rewritten(c, k) \/ Deleted(c, k)
  BY DEF Finish
<1>1. VarsOK' /\ CopiesOK' /\ CallsOK' /\ StorageOK'
  BY FinishHands
<1>2. /\ held'[c] = held[c] \ {k}
      /\ DOMAIN copy'[c] = DOMAIN copy[c] \ {k}
      /\ \A j \in DOMAIN copy'[c] : copy'[c][j] = copy[c][j]
      /\ InHand(c)' = InHand(c) \ {k}
      /\ base'[c] = IF InHand(c) = {k} THEN NotLoaded ELSE base[c]
  BY FinishHands
<1>3. \A d \in Callers : d # c =>
        /\ held'[d] = held[d] /\ copy'[d] = copy[d] /\ base'[d] = base[d]
        /\ call'[d] = call[d] /\ todo'[d] = todo[d]
  BY FinishHands
<1>4. /\ \A j \in Keys : j # k => storage'[j] = storage[j] /\ locked'[j] = locked[j]
      /\ locked'[k] = FALSE
  BY FinishHands
<1>5. \A d \in Callers : k \notin held'[d]
  BY <1>0, <1>2, <1>3, NobodyElseHolds
<1>6. \A d \in Callers : \A j \in held'[d] : j \in held[d] /\ j \in Keys /\ j # k
  BY <1>2, <1>3, <1>5, KeyFacts DEF VarsOK
<1>7. LocksAreHeld'
  <2>1. \A j \in Keys, d \in Callers : j # k => (j \in held'[d] <=> j \in held[d])
    BY <1>2, <1>3
  <2> QED BY <1>4, <1>5, <2>1 DEF LocksAreHeld
<1>8. ASSUME NEW d \in Callers PROVE HandsOK(d)'
  <2>1. HandsOK(d)
    OBVIOUS
  <2>2. CASE d # c
    BY <1>0, <1>3, <2>1, <2>2 DEF HandsOK, InHand
  <2>3. CASE d = c
    <3>1. /\ DOMAIN copy'[c] \cap Guarded \subseteq held'[c]
          /\ \A i \in want'[c], j \in held'[c] : j < i
      BY <1>0, <1>2, <2>1, <2>3 DEF HandsOK
    <3>2. base'[c] # NotLoaded => InHand(c)' # {} /\ base[c] # NotLoaded
      BY <1>0, <1>2
    <3>3. CASE Idle(c) /\ UNCHANGED <<call, todo>>
      <4>1. call'[c] = "none" /\ todo'[c] = {}
        BY <3>3 DEF CallsOK, Idle
      <4> QED BY <2>3, <3>1, <3>2, <4>1 DEF HandsOK
    <3>4. CASE /\ call[c] = "commit" /\ k \in todo[c]
               /\ todo' = [todo EXCEPT ![c] = todo[c] \ {k}]
               /\ call' = [call EXCEPT ![c] = IF todo[c] = {k} THEN "none" ELSE call[c]]
      <4>1. /\ todo'[c] = todo[c] \ {k}
            /\ call'[c] = IF todo[c] = {k} THEN "none" ELSE "commit"
        BY <3>4 DEF VarsOK
      <4>2. base[c] # NotLoaded /\ todo[c] = InHand(c) /\ want[c] = {}
        BY <2>1, <2>3, <3>4 DEF HandsOK
      <4>3. CASE todo[c] = {k}
        <5>1. call'[c] = "none" /\ todo'[c] = {} /\ base'[c] = NotLoaded
          BY <1>2, <4>1, <4>2, <4>3
        <5> QED BY <2>3, <3>1, <5>1 DEF HandsOK
      <4>4. CASE todo[c] # {k}
        <5>1. /\ call'[c] = "commit" /\ base'[c] = base[c]
              /\ todo'[c] = InHand(c)' /\ want'[c] = {}
          BY <1>0, <1>2, <4>1, <4>2, <4>4
        <5> QED BY <2>3, <3>1, <3>2, <4>2, <5>1 DEF HandsOK
      <4> QED BY <4>3, <4>4
    <3> QED BY <1>0, <3>3, <3>4
  <2> QED BY <2>2, <2>3
<1>9. HeldCopyIsCurrent'
  BY <1>2, <1>3, <1>4, <1>6 DEF HeldCopyIsCurrent
<1>10. ViewsAreHistory'
  <2>1. Precedes(storage'[k].data, history)
    <3>1. CASE Untouched(c, k)
      BY <3>1 DEF Untouched, ViewsAreHistory
    <3>2. CASE Rewritten(c, k)
      <4>1. storage'[k].data = base[c] /\ base[c] # NotLoaded
        BY <3>2 DEF Rewritten, VarsOK
      <4> QED BY <4>1 DEF BaseIsHistory
    <3>3. CASE Deleted(c, k)
      <4>1. storage'[k].data = << >>
        BY <3>3 DEF Deleted, VarsOK, Absent
      <4> QED BY <4>1, PrecedesFacts DEF VarsOK
    <3> QED BY <1>0, <3>1, <3>2, <3>3
  <2> QED BY <1>0, <1>4, <2>1 DEF ViewsAreHistory
<1>11. BaseIsHistory'
  <2> SUFFICES ASSUME NEW d \in Callers, base'[d] # NotLoaded
               PROVE  /\ Precedes(base'[d], history)
                      /\ \A j \in held'[d] : Precedes(storage'[j].data, base'[d])
    BY <1>0 DEF BaseIsHistory
  <2>1. base'[d] = base[d]
    BY <1>2, <1>3
  <2> QED BY <1>4, <1>6, <2>1 DEF BaseIsHistory
<1>12. ASSUME NEW d \in Callers, NEW j \in DOMAIN copy'[d], j \notin gone'[d]
       PROVE  /\ copy'[d][j].version <= storage'[j].version
              /\ copy'[d][j].version = storage'[j].version => copy'[d][j] = storage'[j]
  <2>1. j \in DOMAIN copy[d] /\ copy'[d][j] = copy[d][j] /\ j \in Keys
    BY <1>1, <1>2, <1>3, <1>12 DEF CopiesOK
  <2>2. d = c => j # k
    BY <1>2, <1>12
  <2>3. j \notin gone[d]
    <3>1. gone' = [gone EXCEPT ![c] = gone[c] \ {k}] \/ Deleted(c, k)
      BY <1>0 DEF Untouched, Rewritten
    <3> QED BY <1>12, <2>2, <3>1 DEF Deleted, VarsOK
  <2>4. CASE j # k
    BY <1>4, <2>1, <2>3, <2>4 DEF VersionsGrow, VersionNamesContent
  <2>5. CASE j = k
    <3>1. CASE Untouched(c, k)
      BY <2>1, <2>3, <3>1 DEF Untouched, VersionsGrow, VersionNamesContent
    <3>2. CASE Rewritten(c, k)
      <4>1. storage'[k].version = storage[k].version + 1
        BY <3>2 DEF Rewritten, VarsOK
      <4>2. copy[d][k].version <= storage[k].version
        BY <2>1, <2>3, <2>5 DEF VersionsGrow
      <4>3. copy[d][k].version \in Nat /\ storage[k].version \in Nat
        BY <2>1, <2>5 DEF CopiesOK, VarsOK, Models
      <4> QED BY <2>1, <2>5, <4>1, <4>2, <4>3
    <3>3. CASE Deleted(c, k)
      BY <1>12, <2>1, <2>2, <2>5, <3>3 DEF Deleted
    <3> QED BY <1>0, <3>1, <3>2, <3>3
  <2> QED BY <2>4, <2>5
<1>13. VersionsGrow' /\ VersionNamesContent'
  BY <1>12 DEF VersionsGrow, VersionNamesContent
<1> QED BY <1>1, <1>7, <1>8, <1>9, <1>10, <1>11, <1>13
-----------------------------------------------------------------------------
(***************************************************************************)
(* CommitBuilder                                                           *)
(***************************************************************************)

\* The commit of the aggregate: the base stays ahead of the views in hand.
LEMMA BuilderCommitStep ==
  ASSUME Inv, NEW c \in Callers, BuilderCommit(c)
  PROVE  Inv'
<1> USE DEF Inv
<1>1. /\ Idle(c) /\ base[c] # NotLoaded /\ base[c] = history
      /\ history' = Append(history, c)
      /\ base' = [base EXCEPT ![c] = history']
      /\ call' = [call EXCEPT ![c] = "commit"]
      /\ todo' = [todo EXCEPT ![c] = InHand(c)]
      /\ UNCHANGED <<storage, locked, want, held, copy, gone>>
  BY DEF BuilderCommit, Building
<1>2. /\ history \in Histories /\ history' \in Histories
      /\ Precedes(history, history') /\ Precedes(history', history')
      /\ history' # NotLoaded
  BY <1>1, PrecedesFacts, NotLoadedIsNoHistory DEF VarsOK
<1>3. InHand(c) \in SUBSET Keys
  BY KeyFacts DEF InHand, VarsOK, CopiesOK
<1>4. VarsOK'
  <2>1. base' \in [Callers -> Histories \cup {NotLoaded}]
    BY <1>1, <1>2 DEF VarsOK
  <2>2. call' \in [Callers -> Operations] /\ todo' \in [Callers -> SUBSET Keys]
    BY <1>1, <1>3 DEF VarsOK, Operations
  <2> QED BY <1>1, <1>2, <2>1, <2>2 DEF VarsOK
<1>5. /\ base'[c] = history' /\ call'[c] = "commit" /\ todo'[c] = InHand(c)
      /\ \A d \in Callers : d # c =>
           base'[d] = base[d] /\ call'[d] = call[d] /\ todo'[d] = todo[d]
  BY <1>1 DEF VarsOK
<1>6. InHand(c) # {} /\ want[c] = {} /\ InHand(c)' = InHand(c)
  BY <1>1 DEF HandsOK, CallsOK, Idle, InHand
<1>7. CallsOK'
  BY <1>1, <1>5, <1>6 DEF CallsOK
<1>8. ASSUME NEW d \in Callers PROVE HandsOK(d)'
  <2>1. HandsOK(d)
    OBVIOUS
  <2>2. CASE d = c
    BY <1>1, <1>2, <1>5, <1>6, <2>1, <2>2 DEF HandsOK
  <2>3. CASE d # c
    BY <1>1, <1>5, <2>1, <2>3 DEF HandsOK, InHand
  <2> QED BY <2>2, <2>3
<1>9. ViewsAreHistory'
  <2> SUFFICES ASSUME NEW k \in Keys PROVE Precedes(storage[k].data, history')
    BY <1>1 DEF ViewsAreHistory
  <2>1. storage[k].data \in Histories /\ Precedes(storage[k].data, history)
    BY DEF ViewsAreHistory, VarsOK, Models
  <2> QED BY <1>2, <2>1, PrecedesFacts
<1>10. BaseIsHistory'
  <2> SUFFICES ASSUME NEW d \in Callers, base'[d] # NotLoaded
               PROVE  /\ Precedes(base'[d], history')
                      /\ \A k \in held[d] : Precedes(storage[k].data, base'[d])
    BY <1>1 DEF BaseIsHistory
  <2>1. CASE d = c
    <3>1. \A k \in held[c] : Precedes(storage[k].data, history')
      BY <1>1, <1>9, KeyFacts DEF ViewsAreHistory, VarsOK
    <3> QED BY <1>2, <1>5, <2>1, <3>1
  <2>2. CASE d # c
    <3>1. base[d] \in Histories /\ Precedes(base[d], history)
      BY <1>5, <2>2 DEF BaseIsHistory, VarsOK
    <3>2. Precedes(base[d], history')
      BY <1>2, <3>1, PrecedesFacts
    <3> QED BY <1>5, <2>2, <3>2 DEF BaseIsHistory
  <2> QED BY <2>1, <2>2
<1>11. /\ CopiesOK' /\ StorageOK' /\ LocksAreHeld' /\ HeldCopyIsCurrent'
       /\ VersionsGrow' /\ VersionNamesContent'
  BY <1>1 DEF CopiesOK, StorageOK, LocksAreHeld, HeldCopyIsCurrent, VersionsGrow,
              VersionNamesContent
<1> QED BY <1>4, <1>7, <1>8, <1>9, <1>10, <1>11

LEMMA BuilderConflictStep ==
  ASSUME Inv, NEW c \in Callers, BuilderConflict(c)
  PROVE  Inv'
<1> USE DEF Inv
<1>1. /\ Idle(c)
      /\ base' = [base EXCEPT ![c] = NotLoaded]
      /\ UNCHANGED <<history, storage, locked, call, want, todo, held, copy, gone>>
  BY DEF BuilderConflict, Building
<1>2. /\ base' \in [Callers -> Histories \cup {NotLoaded}] /\ base'[c] = NotLoaded
      /\ \A d \in Callers : d # c => base'[d] = base[d]
  BY <1>1 DEF VarsOK
<1>3. VarsOK' /\ CallsOK'
  BY <1>1, <1>2 DEF VarsOK, CallsOK
<1>4. ASSUME NEW d \in Callers PROVE HandsOK(d)'
  <2>1. HandsOK(d)
    OBVIOUS
  <2>2. CASE d = c
    BY <1>1, <1>2, <2>1, <2>2 DEF HandsOK, Idle
  <2>3. CASE d # c
    BY <1>1, <1>2, <2>1, <2>3 DEF HandsOK, InHand
  <2> QED BY <2>2, <2>3
<1>5. BaseIsHistory'
  BY <1>1, <1>2 DEF BaseIsHistory
<1>6. /\ CopiesOK' /\ StorageOK' /\ LocksAreHeld' /\ HeldCopyIsCurrent'
      /\ ViewsAreHistory' /\ VersionsGrow' /\ VersionNamesContent'
  BY <1>1 DEF CopiesOK, StorageOK, LocksAreHeld, HeldCopyIsCurrent, ViewsAreHistory,
              VersionsGrow, VersionNamesContent
<1> QED BY <1>3, <1>4, <1>5, <1>6

LEMMA BuilderCommitAllStep ==
  ASSUME Inv, NEW c \in Callers, BuilderCommitAll(c)
  PROVE  Inv'
<1> USE DEF Inv
<1>1. /\ Idle(c) /\ base[c] # NotLoaded
      /\ call' = [call EXCEPT ![c] = "commit"]
      /\ todo' = [todo EXCEPT ![c] = InHand(c)]
      /\ UNCHANGED <<history, storage, locked, want, held, copy, base, gone>>
  BY DEF BuilderCommitAll, Building
<1>2. InHand(c) \in SUBSET Keys
  BY KeyFacts DEF InHand, VarsOK, CopiesOK
<1>3. VarsOK'
  BY <1>1, <1>2 DEF VarsOK, Operations
<1>4. /\ call'[c] = "commit" /\ todo'[c] = InHand(c)
      /\ \A d \in Callers : d # c => call'[d] = call[d] /\ todo'[d] = todo[d]
  BY <1>1 DEF VarsOK
<1>5. InHand(c) # {} /\ want[c] = {} /\ InHand(c)' = InHand(c)
  BY <1>1 DEF HandsOK, CallsOK, Idle, InHand
<1>6. CallsOK'
  BY <1>1, <1>4, <1>5 DEF CallsOK
<1>7. ASSUME NEW d \in Callers PROVE HandsOK(d)'
  <2>1. HandsOK(d)
    OBVIOUS
  <2>2. CASE d = c
    BY <1>1, <1>4, <1>5, <2>1, <2>2 DEF HandsOK
  <2>3. CASE d # c
    BY <1>1, <1>4, <2>1, <2>3 DEF HandsOK, InHand
  <2> QED BY <2>2, <2>3
<1>8. /\ CopiesOK' /\ StorageOK' /\ LocksAreHeld' /\ HeldCopyIsCurrent'
      /\ ViewsAreHistory' /\ BaseIsHistory' /\ VersionsGrow' /\ VersionNamesContent'
  BY <1>1 DEF CopiesOK, StorageOK, LocksAreHeld, HeldCopyIsCurrent, ViewsAreHistory,
              BaseIsHistory, VersionsGrow, VersionNamesContent
<1> QED BY <1>3, <1>6, <1>7, <1>8
-----------------------------------------------------------------------------
(***************************************************************************)
(* The theorems                                                            *)
(***************************************************************************)

LEMMA InvStep ==
  ASSUME Inv, [Next]_vars
  PROVE  Inv'
<1>1. CASE Next
  <2>1. PICK c \in Callers :
          \/ FindModels(c) \/ FindOneModel(c) \/ Acquire(c) \/ LoadAggregate(c)
          \/ BuilderCommit(c) \/ BuilderConflict(c) \/ BuilderCommitAll(c)
          \/ \E k \in Keys :
               \/ Lock(c, k) \/ GetModel(c, k) \/ Fetch(c, k) \/ Peek(c, k)
               \/ Upsert(c, k) \/ Insert(c, k) \/ Update(c, k) \/ Delete(c, k)
               \/ Unlock(c, k) \/ UpsertRaw(c, k)
    BY <1>1 DEF Next
  <2>2. CASE FindModels(c) \/ FindOneModel(c)
    BY <2>2, ReadsStart
  <2>3. CASE Acquire(c) \/ LoadAggregate(c)
    BY <2>3, AcquireStep, LoadAggregateStep
  <2>4. CASE BuilderCommit(c) \/ BuilderConflict(c) \/ BuilderCommitAll(c)
    BY <2>4, BuilderCommitStep, BuilderConflictStep, BuilderCommitAllStep
  <2>5. ASSUME NEW k \in Keys, Lock(c, k) \/ GetModel(c, k)
        PROVE  Inv'
    BY <2>5, ReadsStart
  <2>6. ASSUME NEW k \in Keys, Fetch(c, k) \/ Peek(c, k)
        PROVE  Inv'
    BY <2>6, FetchStep, PeekStep
  <2>7. ASSUME NEW k \in Keys,
               \/ Upsert(c, k) \/ Insert(c, k) \/ Update(c, k) \/ Delete(c, k)
               \/ Unlock(c, k) \/ UpsertRaw(c, k)
        PROVE  Inv'
    BY <2>7, WritesFinish, FinishStep
  <2> QED BY <2>1, <2>2, <2>3, <2>4, <2>5, <2>6, <2>7
<1>2. CASE UNCHANGED vars
  <2>1. UNCHANGED <<history, storage, locked, call, want, todo, held, copy, base, gone>>
    BY <1>2 DEF vars
  <2>2. \A c \in Callers : HandsOK(c)'
    BY <2>1 DEF Inv, HandsOK, InHand
  <2>3. VarsOK' /\ CopiesOK' /\ CallsOK' /\ StorageOK' /\ LocksAreHeld'
    BY <2>1 DEF Inv, VarsOK, CopiesOK, CallsOK, StorageOK, LocksAreHeld
  <2>4. /\ HeldCopyIsCurrent' /\ ViewsAreHistory' /\ BaseIsHistory' /\ VersionsGrow'
        /\ VersionNamesContent'
    BY <2>1 DEF Inv, HeldCopyIsCurrent, ViewsAreHistory, BaseIsHistory, VersionsGrow,
                VersionNamesContent
  <2> QED BY <2>2, <2>3, <2>4 DEF Inv
<1> QED BY <1>1, <1>2

\* The inductive invariant holds throughout.
THEOREM ReadModelsInvariant == Spec => []ReadModelsInv
<1>1. Init => ReadModelsInv
  BY InvInit, InvIsReadModelsInv
<1>2. ReadModelsInv /\ [Next]_vars => ReadModelsInv'
  BY InvStep, InvIsReadModelsInv
<1> QED BY <1>1, <1>2, PTL DEF Spec

\* The variables keep their types: an operation of a caller is over exactly when
\* it has gone through its keys, and only an absent model has version 0.
THEOREM TypeCorrect == Spec => []TypeOK
<1>1. ReadModelsInv => TypeOK
  BY DEF ReadModelsInv
<1> QED BY <1>1, ReadModelsInvariant, PTL

\* Read model locks exclude one another and none is left behind: neither by a
\* search whose matches are gone, nor by a write, nor by a builder that fails.
THEOREM NoLockLost == Spec => []LocksAreHeld
<1>1. ReadModelsInv => LocksAreHeld
  BY DEF ReadModelsInv
<1> QED BY <1>1, ReadModelsInvariant, PTL

\* What a caller read under a lock stays current while it holds the lock.
THEOREM LockedReadsStayCurrent == Spec => []HeldCopyIsCurrent
<1>1. ReadModelsInv => HeldCopyIsCurrent
  BY DEF ReadModelsInv
<1> QED BY <1>1, ReadModelsInvariant, PTL

\* No view ever shows an event that is not committed, although CommitBuilder
\* writes views and aggregate apart.
THEOREM ViewsShowHistory == Spec => []ViewsAreHistory
<1>1. ReadModelsInv => ViewsAreHistory
  BY DEF ReadModelsInv
<1> QED BY <1>1, ReadModelsInvariant, PTL

\* Until a model is deleted, its version names its content.
THEOREM VersionsNameContent == Spec => []VersionNamesContent
<1>1. ReadModelsInv => VersionNamesContent
  BY DEF ReadModelsInv
<1> QED BY <1>1, ReadModelsInvariant, PTL

\* No update is lost: what a successful update replaces is what its caller read.
THEOREM NoLostUpdate == Spec => UpdateRestsOnRead
<1>1. ReadModelsInv /\ [Next]_vars =>
        [\A c \in Callers, k \in Keys :
           Update(c, k) /\ k \notin gone[c] => copy[c][k] = storage[k]]_vars
  <2> SUFFICES ASSUME ReadModelsInv, NEW c \in Callers, NEW k \in Keys,
                      Update(c, k), k \notin gone[c]
               PROVE  copy[c][k] = storage[k]
    OBVIOUS
  <2>1. k \in DOMAIN copy[c] /\ storage[k].version = copy[c][k].version
    BY DEF Update, Accepts
  <2> QED BY <2>1 DEF ReadModelsInv, VersionNamesContent
<1> QED BY <1>1, ReadModelsInvariant, PTL DEF Spec, UpdateRestsOnRead

\* A view that callers lock never goes back to an earlier stage of the history.
THEOREM LockedViewsAdvance == Spec => GuardedViewsAdvance
<1>1. ReadModelsInv /\ [Next]_vars =>
        [\A k \in Guarded :
           Present(k) /\ Present(k)' => Precedes(storage[k].data, storage'[k].data)]_vars
  <2> SUFFICES ASSUME ReadModelsInv, Next, NEW k \in Guarded, Present(k)'
               PROVE  Precedes(storage[k].data, storage'[k].data)
    OBVIOUS
  <2>1. Inv /\ k \in Keys
    BY InvIsReadModelsInv, KeyFacts
  <2>2. CASE storage'[k] = storage[k]
    <3>1. storage[k].data \in Histories
      BY <2>1 DEF Inv, VarsOK, Models
    <3> QED BY <2>2, <3>1, PrecedesFacts
  <2>3. ASSUME NEW c \in Callers, NEW j \in Keys, Finish(c, j)
        PROVE  Precedes(storage[k].data, storage'[k].data) \/ storage'[k] = storage[k]
    <3>1. CASE j # k
      BY <2>1, <2>3, <3>1, FinishHands
    <3>2. CASE j = k /\ Untouched(c, k)
      BY <3>2 DEF Untouched
    <3>3. CASE j = k /\ Deleted(c, k)
      <4>1. storage'[k] = Absent
        BY <2>1, <3>3 DEF Deleted, Inv, VarsOK
      <4> QED BY <4>1 DEF Present, Absent
    <3>4. CASE j = k /\ Rewritten(c, k)
      <4>1. base[c] # NotLoaded /\ storage'[k].data = base[c]
        BY <2>1, <3>4 DEF Rewritten, Inv, VarsOK
      <4>2. k \in held[c]
        BY <2>1, <2>3, <3>4 DEF Finish, InHand, Inv, HandsOK
      <4> QED BY <2>1, <4>1, <4>2 DEF Inv, BaseIsHistory
    <3> QED BY <2>3, <3>1, <3>2, <3>3, <3>4 DEF Finish
  <2>4. PICK c \in Callers :
          \/ FindModels(c) \/ FindOneModel(c) \/ Acquire(c) \/ LoadAggregate(c)
          \/ BuilderCommit(c) \/ BuilderConflict(c) \/ BuilderCommitAll(c)
          \/ \E j \in Keys :
               \/ Lock(c, j) \/ GetModel(c, j) \/ Fetch(c, j) \/ Peek(c, j)
               \/ Upsert(c, j) \/ Insert(c, j) \/ Update(c, j) \/ Delete(c, j)
               \/ Unlock(c, j) \/ UpsertRaw(c, j)
    BY DEF Next
  <2>5. CASE \/ FindModels(c) \/ FindOneModel(c) \/ Acquire(c) \/ LoadAggregate(c)
             \/ BuilderCommit(c) \/ BuilderConflict(c) \/ BuilderCommitAll(c)
    BY <2>2, <2>5 DEF FindModels, FindOneModel, Start, Acquire, LoadAggregate, BuilderCommit,
                      BuilderConflict, BuilderCommitAll
  <2>6. CASE \E j \in Keys : Lock(c, j) \/ GetModel(c, j) \/ Fetch(c, j) \/ Peek(c, j)
    BY <2>2, <2>6 DEF Lock, GetModel, Start, Fetch, Peek
  <2>7. CASE \E j \in Keys :
               \/ Upsert(c, j) \/ Insert(c, j) \/ Update(c, j) \/ Delete(c, j)
               \/ Unlock(c, j) \/ UpsertRaw(c, j)
    BY <2>1, <2>2, <2>3, <2>7, WritesFinish
  <2> QED BY <2>4, <2>5, <2>6, <2>7
<1> QED BY <1>1, ReadModelsInvariant, PTL DEF Spec, GuardedViewsAdvance

\* Taking locks in key order excludes deadlock: with finitely many keys, the
\* caller of a group that waits for the largest key waits for nobody in it, since
\* the one that holds this key would wait for a larger one.
THEOREM LocksNeverDeadlock ==
  ASSUME NEW m \in Nat, \A k \in Keys : k <= m
  PROVE  Spec => []NoCircularWait
<1>1. ReadModelsInv => NoCircularWait
  <2> SUFFICES ASSUME Inv, NEW S \in SUBSET Callers, S # {},
                      \A c \in S : \E d \in S : WaitsFor(c, d)
               PROVE  FALSE
    BY InvIsReadModelsInv DEF NoCircularWait
  <2> DEFINE First(c, k) == k \in want[c] /\ \A j \in want[c] : k <= j
             T == {i \in Nat : \E c \in S : \E k \in Keys : First(c, k) /\ i = m - k}
  <2>1. \A c \in Callers : \A k \in want[c] : k \in Keys /\ k \in Nat /\ m - k \in Nat
    BY KeyFacts DEF Inv, VarsOK
  <2>2. \A c \in S : \E k \in Keys : First(c, k)
    BY <2>1 DEF WaitsFor
  <2>3. T # {}
    BY <2>1, <2>2
  <2>4. PICK i \in T : \A y \in T : ~ (<<y, i>> \in OpToRel(<, Nat))
    <3>1. T \subseteq Nat
      OBVIOUS
    <3> HIDE DEF T
    <3> QED BY <2>3, <3>1, NatLessThanWellFounded, WFMin, Zenon
  <2>5. PICK c \in S, k \in Keys : First(c, k) /\ i = m - k
    OBVIOUS
  <2>6. PICK d \in S : WaitsFor(c, d)
    OBVIOUS
  <2>7. k \in held[d]
    <3>1. PICK j \in want[c] : (\A l \in want[c] : j <= l) /\ j \in held[d]
      BY <2>6 DEF WaitsFor
    <3>2. j = k
      BY <2>1, <2>5, <3>1
    <3> QED BY <3>1, <3>2
  <2>8. PICK l \in Keys : First(d, l)
    BY <2>2
  <2>9. k < l
    BY <2>7, <2>8 DEF Inv, HandsOK
  <2>10. k \in Nat /\ l \in Nat /\ m - l \in Nat
    BY <2>1, <2>5, <2>8
  <2>11. m - l \in T /\ m - l < i
    BY <2>5, <2>8, <2>9, <2>10
  <2> QED BY <2>4, <2>11 DEF OpToRel
<1> QED BY <1>1, ReadModelsInvariant, PTL
=============================================================================
