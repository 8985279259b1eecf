SPECIFICATION Spec
CONSTANTS
  Workers = {w1, w2}
  Lifetime = 4
  Margin = 2
  Latency = 1
  MaxTime = 6
  MaxFaults = 2
SYMMETRY Symmetric
CHECK_DEADLOCK FALSE
INVARIANTS UnstampedOnlyAfterFailure
PROPERTIES TokensAreRenewed
