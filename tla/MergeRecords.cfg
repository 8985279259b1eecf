SPECIFICATION MergeSpec
CONSTANTS
  Targets <- FewTargets
  Records <- FewRecords
  Tables <- FewTables
CHECK_DEADLOCK FALSE
INVARIANTS RecordsAreOnlyRead
