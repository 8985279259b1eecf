SPECIFICATION FairSpec
CONSTANTS
  Tables = {t1, t2}
  Starters = {s1, s2}
  Closers = {c1, c2}
  MaxStarts = 2
  Free = Free
CHECK_DEADLOCK FALSE
INVARIANTS AllOrNothing OneRefresherEach CloseLeavesNone
PROPERTIES CloseReturns
