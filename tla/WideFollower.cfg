SPECIFICATION FairWideSpec
CONSTANTS
  Stations = {s1, s2}
  MaxTime = 4
  StartingPoint = 1
  ChunkDuration = 2
  PerRequest = 1
  MaxFaults = 2
CHECK_DEADLOCK FALSE
INVARIANTS LossIsExplained ElaboratedOnce
PROPERTIES AllElaborated
