SPECIFICATION FairNumberSpec
CONSTANTS
  Workers = {w1, w2}
  Width = 2
  Lots = 1
  MaxDocs = 11
  Drafts <- MCDrafts
INVARIANTS
  NextIsFree
PROPERTY
  EveryoneIsServed
CHECK_DEADLOCK FALSE
