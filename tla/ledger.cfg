SPECIFICATION Spec
CONSTANTS
  works = works
  stores = stores
  payable = payable
  bank = bank
  petty = petty
  supplier = supplier
  cement = cement
  late = late
  scanned = scanned
  delivery = delivery
  None = None
  Accounts = {works, stores, payable, bank, petty}
  System = {works, stores, payable, bank}
  Payable = payable
  Bank = bank
  Parties = {supplier}
  Entries = {cement, late, scanned, delivery}
  Costs = {cement, late, scanned}
  Imported = {scanned}
  Moved <- MCMoved
  Month <- MCMonth
  Manual <- MCManual
  Pay <- MCPay
  Order = 2
  Today = 6
  Closed = {5}
  Workers = {w1, w2}
  MaxRequests = 5
SYMMETRY Alike
CHECK_DEADLOCK FALSE
INVARIANTS BalancesTold BookIsTheJournals NeverOverpaid CostsPostedOnce ReversalUndoes
