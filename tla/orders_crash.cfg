\* One worker, one checkout, one report and one crash.
SPECIFICATION Spec
CONSTANTS
  bolt = bolt
  nut = nut
  Workers = {w1}
  Products = {bolt, nut}
  Carts <- OneOfEach
  InitialPrice = 5
  InitialStock = 2
  Prices = {7}
  Stocks = {3}
  Reports = {"success"}
  Misreports = {0}
  MaxCheckouts = 1
  MaxCallbacks = 1
  MaxEdits = 0
  MaxFaults = 0
  MaxCrashes = 1
INVARIANTS
  OrderFollowsPayment
\* The bounds end every behaviour.
CHECK_DEADLOCK FALSE
