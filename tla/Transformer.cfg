SPECIFICATION FairSpec
CONSTANTS
  Ids = {i1, i2}
  Vals = {v1, v2}
  NoVal = NoVal
  Fetches = TRUE
  MaxQueue = 2
INVARIANTS CacheNeverAhead AckedIsWritten
PROPERTIES CatchesUp
