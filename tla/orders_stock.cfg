\* Two customers check out at once.
SPECIFICATION Spec
CONSTANTS
  bolt = bolt
  nut = nut
  Workers = {w1, w2}
  Products = {bolt, nut}
  Carts <- OneOfEach
  InitialPrice = 5
  InitialStock = 2
  Prices = {7}
  Stocks = {3}
  Reports = {"success", "processing"}
  Misreports = {0, 2}
  MaxCheckouts = 2
  MaxCallbacks = 0
  MaxEdits = 0
  MaxFaults = 0
  MaxCrashes = 0
INVARIANTS
  StockNeverNegative
\* The bounds end every behaviour.
CHECK_DEADLOCK FALSE
