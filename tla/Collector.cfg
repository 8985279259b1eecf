SPECIFICATION FairSpec
CONSTANTS
  s1 = s1  s2 = s2
  Senders = {s1, s2}
  Traced = {s2}
  MaxSends = 2
  MaxLives = 2
  NoInput = NoInput
INVARIANTS CollectedInOrder SpansAreClosed
PROPERTIES SendersAreReleased
CHECK_DEADLOCK FALSE
