SPECIFICATION LoadSpec
CONSTANTS
  Ids <- MCIds
  PageSize = 2
  MaxEdits = 3
CHECK_DEADLOCK FALSE
INVARIANTS LoadedIsComplete StableIsNotRefused
