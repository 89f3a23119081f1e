SPECIFICATION FairSpec
CONSTANTS
  left = left
  right = right
  Tabs = {left, right}
  MaxRequests = 2
  MaxCalls = 2
  NoTab = NoTab
  MaxTurns = 4
INVARIANTS
  OneSession
  Backed
PROPERTIES
  RequestsSettle
CHECK_DEADLOCK FALSE
