CONSTANTS
  a = a
  b = b
  a1 = a1
  a2 = a2
  b1 = b1
  b2 = b2
  Ids <- MCIds
  Objects <- MCObjects
  IdOf <- MCIdOf
  Batches <- MCBatches
  MaxEvents = 2
SPECIFICATION Spec
INVARIANT TypeOK
INVARIANT SequenceIsPosition
INVARIANT CommittedIsPersisted
PROPERTY AppendOnly
PROPERTY ConflictMeansStale
PROPERTY ImplementsEventLog
