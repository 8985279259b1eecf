SPECIFICATION FairSpec
CONSTANTS
  Keys <- MCKeys
  Values <- MCValues
  Revisions <- MCRevisions
  NoValue = NoValue
  NoRev = NoRev
  PageLimit = 1
  MaxWalkPages = 2
  StaleAfter = 0
INVARIANTS SwapIsRegular StampBelongsToValue OnChangeIsExact StaleIsCounted
PROPERTIES QueueNeverRegresses ViewSpec Converges WalkEnds StaleEventuallyCounted
