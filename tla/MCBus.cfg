CONSTANTS
  known = known
  unknown = unknown
  q1 = q1
  h1 = h1
  h2 = h2
  l1 = l1
  l2 = l2
  s1 = s1
  s2 = s2
  r1 = r1
  Types = {known, unknown}
  Commands = {known}
  Queues = {q1}
  Handles = {h1, h2}
  Listeners = {l1, l2}
  Subscribers = {s1, s2}
  Receivers = {r1}
  SourceOf <- MCSourceOf
  Wanted <- MCWanted
  Mortal = {l1, s1}
  Batches <- MCBatches
  MaxEvents = 2
SPECIFICATION FairSpec
INVARIANT TypeOK
INVARIANT ExactlyOneConsumer
INVARIANT EffectsOnce
INVARIANT ReceivesWhatItWants
PROPERTY EveryMessageServed
