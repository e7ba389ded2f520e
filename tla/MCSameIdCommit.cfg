CONSTANTS
  a = a
  b = b
  a1 = a1
  a2 = a2
  b1 = b1
  b2 = b2
  Ids <- MCIds
  Objects <- MCObjects
  IdOf <- MCIdOf
  Batches <- MCSameIdBatches
  MaxEvents = 2
SPECIFICATION Spec
INVARIANT ConcurrentWritesDetected
