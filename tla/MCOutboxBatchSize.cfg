CONSTANTS
  m1 = m1
  m2 = m2
  m3 = m3
  t1 = t1
  t2 = t2
  d1 = d1
  Workers = {d1}
  Messages <- Two
  Threads = {}
  Drivers = {d1}
  Loaders = {}
  Stoppable = {}
  Manual = {}
  Claim = 2
  BatchSize = 1
  MaxAttempts = 2
  MaxFaults = 0
  MaxCrashes = 0
SPECIFICATION FairSpec
PROPERTY AtLeastOnce
