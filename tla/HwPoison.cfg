SPECIFICATION FairSpec
CONSTANTS
  Frame = {f0, f1}
  Claimer = {c1, c2}
  Difficult = {f0}
  MaxBad = 1
INVARIANTS RefsCounted BadPagesCounted
PROPERTIES FailureRemembered ClaimEnds
CHECK_DEADLOCK FALSE
