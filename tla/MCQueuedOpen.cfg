CONSTANTS
  t1 = t1
  t2 = t2
  t3 = t3
  Threads <- MCThreads
  Ids = {1, 2}
  Matching = {1}
  Calls <- OpenCalls
  MaxCalls = 1
  MaxVersion = 2
SPECIFICATION FairSpec
INVARIANT FlagHasReleaser
INVARIANT NoLockLeft
PROPERTY WaitersServed
