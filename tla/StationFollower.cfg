SPECIFICATION FairStationSpec
CONSTANTS
  Types = {"t", "u"}
  Stations = {"s1", "s2", "s3", "s4"}
  TypeOf <- MCTypeOf
  StartingPoint = 2
  MaxTime = 4
  BucketMax = 4
  MaxCodes = 1
  WorkerPool = 2
CHECK_DEADLOCK FALSE
INVARIANTS EachFlushedOnce
PROPERTIES Returns
