SPECIFICATION Spec
CONSTANTS
  Frame = {f0, f1}
  Claimer = {c1, c2}
  Difficult = {f0}
  MaxBad = 1
INVARIANT ClaimOwns
CHECK_DEADLOCK FALSE
