SPECIFICATION FairSpec
CONSTANTS
  NumFrames = 4
  Strategies = {"blockwise", "frame-by-frame"}
  MaxBlock = 3
  MaxNonMatching = 2
  MaxAge = 1
  PageSize = 4096
  BadFrames = {1}
  MaxKills = 1
INVARIANTS TypeOK PassCovers GapBounded MappingFits NotTooOften
PROPERTIES TestsOwnFrame EveryFrameAsked
