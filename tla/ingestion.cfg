SPECIFICATION FairSpec
CONSTANTS
  Docs = {a, b}
  MaxConcurrent = 1
  MaxTries = 2
  MaxFaults = 1
  MaxReviews = 2
  Reviewers = {r1, r2}
  None = None
CHECK_DEADLOCK FALSE
INVARIANTS PostedOnce
PROPERTIES EveryCardSettles
