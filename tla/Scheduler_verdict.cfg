SPECIFICATION Spec
CONSTANTS
  NumFrames = 3
  Strategies = {"blockwise", "frame-by-frame"}
  MaxBlock = 2
  MaxNonMatching = 2
  MaxAge = 1
  PageSize = 4096
  BadFrames = {1}
  MaxKills = 1
INVARIANTS BadFramesRecorded
