CONSTANTS
  m1 = m1
  m2 = m2
  m3 = m3
  t1 = t1
  t2 = t2
  d1 = d1
  Workers = {t1, t2, d1}
  Messages <- Two
  Threads = {t1, t2}
  Drivers = {d1}
  Loaders = {d1}
  Stoppable = {t1}
  Manual = {"release", "fail"}
  Claim = 2
  BatchSize = 1
  MaxAttempts = 2
  MaxFaults = 2
  MaxCrashes = 1
SPECIFICATION Spec
INVARIANT TypeOK
INVARIANT PublishedWasDelivered
PROPERTY SettledIsFinal
