SPECIFICATION Spec
CONSTANTS
  brick = brick
  cement = cement
  yard = yard
  site = site
  po = po
  None = None
  Items = {brick, cement}
  Locations = {yard, site}
  Tracked = {cement}
  Lots = {1, 2}
  Default = yard
  Moves <- MCMoves
  Orders = {po}
  OrderLines <- MCOrderLines
  Workers = {w1, w2}
  Counts = {1}
  MaxLevel = 3
  MaxTakes = 1
  MaxRequests = 6
SYMMETRY Alike
CHECK_DEADLOCK FALSE
INVARIANTS ShelvesReconcile ReconcilesUnlessOvertaken CostWithinPrices OrdersLandOnce VariancesPostedOnce
