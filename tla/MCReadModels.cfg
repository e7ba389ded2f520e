CONSTANTS
  w1 = w1
  w2 = w2
  Callers = {w1, w2}
  Guarded = {1, 2}
  Optimistic = {3}
  Matching = {1}
  MaxHistory = 2
  MaxVersion <- MCMaxVersion
SYMMETRY Symmetry
SPECIFICATION Spec
INVARIANT TypeOK
INVARIANT LocksAreHeld
INVARIANT HeldCopyIsCurrent
INVARIANT ViewsAreHistory
INVARIANT VersionNamesContent
INVARIANT NoCircularWait
PROPERTY GuardedViewsAdvance
PROPERTY UpdateRestsOnRead
