\* Two workers, two checkouts and two reports, an edit, a fault and a crash.
SPECIFICATION Spec
CONSTANTS
  bolt = bolt
  nut = nut
  Workers = {w1, w2}
  Products = {bolt, nut}
  Carts <- SomeCarts
  InitialPrice = 5
  InitialStock = 2
  Prices = {7}
  Stocks = {3}
  Reports = {"success", "processing"}
  Misreports = {0, 2}
  MaxCheckouts = 2
  MaxCallbacks = 2
  MaxEdits = 1
  MaxFaults = 1
  MaxCrashes = 1
INVARIANTS
  TypeOK
  AmountIsTheOrders
  StockAccounted
  PaidWasPaid
  OrderStatusExplained
  StatusesInStep
  ReportSurvivesItsForm
PROPERTIES
  SettledStays
  Refines
SYMMETRY AnyWorker
\* The bounds end every behaviour.
CHECK_DEADLOCK FALSE
