------------------------------ MODULE EventLog ------------------------------
(***************************************************************************)
(* What an event store promises: one append-only log per entity id, and a  *)
(* commit that appends to several logs in one indivisible step, allowed    *)
(* only to a writer whose copies are exactly the current contents of every *)
(* log it appends to.  seen[o] is the part of its log that the in-memory   *)
(* copy o is based on.  How the store finds out that a copy is current is  *)
(* left open: here the contents are compared, the implementation compares  *)
(* lengths.                                                                *)
(***************************************************************************)
EXTENDS Naturals, Sequences

CONSTANTS Ids,      \* entity ids
          Objects,  \* in-memory copies of entities
          IdOf      \* the id of each copy

VARIABLES log,      \* log[id]: the persisted events of id
          seen      \* seen[o]: the persisted events that copy o starts from

vars == <<log, seen>>

\* Sequence t continues sequence s.
Extends(t, s) == Len(s) <= Len(t) /\ \A i \in 1 .. Len(s) : t[i] = s[i]

Init == /\ log = [id \in Ids |-> << >>]
        /\ seen = [o \in Objects |-> << >>]

\* The copies in S are replaced by one consistent cut of the store.
Read(S) ==
  /\ seen' = [o \in Objects |-> IF o \in S THEN log[IdOf[o]] ELSE seen[o]]
  /\ UNCHANGED log

\* Copy o is replaced by a new entity, based on nothing.
Forget(o) ==
  /\ seen' = [seen EXCEPT ![o] = << >>]
  /\ UNCHANGED log

\* The copies in S, of distinct ids and all current, are committed together:
\* every event a log gains is written by the copy of that log, at its place.
CommitBatch(S) ==
  /\ \A o, p \in S : IdOf[o] = IdOf[p] => o = p
  /\ \A o \in S : /\ seen[o] = log[IdOf[o]]
                  /\ Extends(log'[IdOf[o]], log[IdOf[o]])
                  /\ \A i \in Len(log[IdOf[o]]) + 1 .. Len(log'[IdOf[o]]) :
                        log'[IdOf[o]][i] = [sequence |-> i, tag |-> o]
  /\ \A id \in Ids : (\A o \in S : IdOf[o] # id) => log'[id] = log[id]
  /\ seen' = [o \in Objects |-> IF o \in S THEN log'[IdOf[o]] ELSE seen[o]]

Next == \/ \E S \in SUBSET Objects : Read(S) \/ CommitBatch(S)
        \/ \E o \in Objects : Forget(o)

Spec == Init /\ [][Next]_vars
=============================================================================
