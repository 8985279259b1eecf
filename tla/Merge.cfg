SPECIFICATION MergeSpec
CONSTANTS
  Targets <- MCTargets
  Records <- MCRecords
  Tables <- MCTables
CHECK_DEADLOCK FALSE
INVARIANTS OverlayIsPure FailureIsExplained FailureKeepsTheRest OnlySharedRecordsChange
