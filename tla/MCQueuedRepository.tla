------------------------- MODULE MCQueuedRepository -------------------------
(***************************************************************************)
(* Finite instances of QueuedRepository.                                   *)
(***************************************************************************)
EXTENDS QueuedRepository, TLC

CONSTANTS t1, t2, t3

MCThreads == {t1, t2, t3}
MCTwoThreads == {t1, t2}

\* Calls that return entities under their locks, from every thread.
LockingCalls ==
  [t \in MCTwoThreads |->
     {"get", "find", "find_one", "agg_find", "agg_find_one", "agg_exists"}]
\* Callers that dispose of every lock they get, next to one that takes locks
\* with lock() and one that commits entities it never locked.
OpenCalls == (t1 :> {"get", "find_one"}) @@ (t2 :> {"get", "lock"})
             @@ (t3 :> {"get", "peek", "new"})
\* Queries and gets only.
QueryCalls == [t \in MCTwoThreads |-> {"get", "agg_exists"}]
\* Creation and gets only.
CreateCalls == [t \in MCThreads |-> {"get", "new"}]

TwoSymmetry == Permutations(MCTwoThreads)
=============================================================================
