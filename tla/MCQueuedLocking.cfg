CONSTANTS
  t1 = t1
  t2 = t2
  t3 = t3
  Threads <- MCTwoThreads
  Ids = {1, 2}
  Matching = {1}
  Calls <- LockingCalls
  MaxCalls = 3
  MaxVersion = 3
SPECIFICATION Spec
SYMMETRY TwoSymmetry
INVARIANT TypeOK
INVARIANT MutualExclusion
INVARIANT SerializedWorkflows
CHECK_DEADLOCK FALSE
