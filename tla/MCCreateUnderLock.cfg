CONSTANTS
  t1 = t1
  t2 = t2
  t3 = t3
  Threads <- MCThreads
  Ids = {1}
  Matching = {1}
  Calls <- CreateCalls
  MaxCalls = 1
  MaxVersion = 2
SPECIFICATION Spec
INVARIANT MutualExclusion
