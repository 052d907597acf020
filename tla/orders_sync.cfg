\* Two reports of one payment are handled at once; nothing fails.
SPECIFICATION Spec
CONSTANTS
  bolt = bolt
  nut = nut
  Workers = {w1, w2}
  Products = {bolt, nut}
  Carts <- OneOfEach
  InitialPrice = 5
  InitialStock = 2
  Prices = {7}
  Stocks = {3}
  Reports = {"success", "processing"}
  Misreports = {0}
  MaxCheckouts = 1
  MaxCallbacks = 2
  MaxEdits = 0
  MaxFaults = 0
  MaxCrashes = 0
INVARIANTS
  OrderFollowsPayment
\* The bounds end every behaviour.
CHECK_DEADLOCK FALSE
