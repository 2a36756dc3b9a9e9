SPECIFICATION FairSpec
CONSTANTS
  Thread = {t1, t2}
  Client = t1
  Process = {m1}
  Nobody = Nobody
  Requests = {0, 1, 2}
  StatusSize = 2
  ReadSize = 3
  Offsets = {0}
  MaxPos = 4
  MaxVmas = 1
  MaxRefs = 1
CHECK_DEADLOCK FALSE
INVARIANTS Registered InArray WholeConfiguration SessionHasModule
PROPERTY CallsReturn
