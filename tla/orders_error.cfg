\* One checkout at a time, and one statement fails.
SPECIFICATION Spec
CONSTANTS
  bolt = bolt
  nut = nut
  Workers = {w1}
  Products = {bolt, nut}
  Carts <- SomeCarts
  InitialPrice = 5
  InitialStock = 2
  Prices = {7}
  Stocks = {3}
  Reports = {"success", "processing"}
  Misreports = {0, 2}
  MaxCheckouts = 2
  MaxCallbacks = 0
  MaxEdits = 0
  MaxFaults = 1
  MaxCrashes = 0
INVARIANTS
  ErrorLeavesNoOrder
\* The bounds end every behaviour.
CHECK_DEADLOCK FALSE
