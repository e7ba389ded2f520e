CONSTANTS
  t1 = t1
  t2 = t2
  t3 = t3
  Threads <- MCTwoThreads
  Ids = {1, 2}
  Matching = {1}
  Calls <- QueryCalls
  MaxCalls = 1
  MaxVersion = 2
SPECIFICATION Spec
INVARIANT ReadChecksTakeNoLock
