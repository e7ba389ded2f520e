CONSTANTS
  m1 = m1
  m2 = m2
  m3 = m3
  t1 = t1
  t2 = t2
  d1 = d1
  Workers = {t1, t2, d1}
  Messages <- Three
  Threads = {t1, t2}
  Drivers = {d1}
  Loaders = {}
  Stoppable = {t1}
  Manual = {}
  Claim = 2
  BatchSize = 2
  MaxAttempts = 2
  MaxFaults = 2
  MaxCrashes = 0
SPECIFICATION FairSpec
INVARIANT SingleClaimant
INVARIANT InFlightIsHeld
INVARIANT DeliveriesAreAttempts
INVARIANT FailedIsExhausted
PROPERTY AtLeastOnce
