CONSTANTS
  i1 = i1
  i2 = i2
  old = old
  new1 = new1
  new2 = new2
  Ids = {i1, i2}
  Clients = {old, new1, new2}
  Snapshotters = {new1, new2}
  Searchers = {new1, new2}
  Schema <- MCSchema
  Upcasters <- MCUpcasters
  Frequency = 1
  Methods <- MCMethods
  MaxEvents <- MCMaxEvents
SPECIFICATION Spec
INVARIANT TypeOK
INVARIANT StateIsHistory
INVARIANT SnapshotIsHistory
INVARIANT GuardHoldsInHistory
INVARIANT EmittedIsCommitted
INVARIANT NewestCanLoad
