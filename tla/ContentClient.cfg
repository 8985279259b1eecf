SPECIFICATION FairSpec
CONSTANTS
  Syncers = {s1, s2}
  NTags = 2
  Pushers = {s1}
  Vals = {v1, v2}
  NoVal = NoVal
  NoCall = NoCall
  RetryMax = 1
  MaxLate = 1
INVARIANTS TagsExistInOrder OneCreator CacheNeverAhead
PROPERTIES FirstDefinitionStays TagsGetCreated
