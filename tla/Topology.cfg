SPECIFICATION FairSpec
CONSTANTS
  notifier = notifier  collector = collector  transformer = transformer  rest = rest
  raw = raw  other = other  qt = qt  qd = qd  m1 = m1  m2 = m2
  Services = {notifier, collector, transformer, rest}
  Options <- MCOptions
  Exchanges = {raw, other}
  Queues = {qt, qd}
  Messages = {m1, m2}
  From <- MCFrom
  Dest <- MCDest
  None = None
  Telemetry = TRUE
  MaxFaults = 2
INVARIANTS DeclarationsStand
PROPERTIES AllComeUp PublishedIsSettled
CHECK_DEADLOCK FALSE
