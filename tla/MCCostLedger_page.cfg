CONSTANTS
  Jobs = {j1, j2}
  Projects = {pa, pb}
  Days = {0, 2, 3}
  sonnet = sonnet
  haiku = haiku
  Models = {sonnet, haiku}
  PricePoints <- MCPricePoints
  Tokens = {0, 1}
  Unlisted = {4}
  MaxBills = 2
SYMMETRY MCSymmetry
SPECIFICATION Spec
INVARIANTS
  LedgerTypeOK
  RowsCarryTheirBill
  PageAccountsForBills
