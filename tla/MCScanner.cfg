SPECIFICATION FairSpec
CONSTANTS
  PageSize = 4
  Frames = 2
  CellBits = 2
  Ones = 3
  Faults <- MCFaults
CHECK_DEADLOCK FALSE
INVARIANTS NoFalseAlarm FaultsFound
PROPERTIES Confined ScanEnds
