SPECIFICATION Spec
CONSTANTS
  Thread = {t1, t2}
  NumFrames = 4
  MaxOrder = 3
  PageblockOrder = 1
  Movable = {0}
  MaxClaims = 5
SYMMETRY Symmetry
INVARIANTS EveryFrameOnce ListsSound BuddiesMerged FreePagesDrift IsolationEnds StrandedWhole
PROPERTY ImplementsLedger
