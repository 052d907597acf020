\* Two workers: two registrations, two logins and two product requests, an
\* order line, a fault and a crash.
SPECIFICATION Spec
CONSTANTS
  Workers = {w1, w2}
  None = None
  Forms <- AllForms
  InitialForms <- TwoAccounts
  Bound <- Bounds
  Methods <- AllMethods
  Paths <- SomePaths
  Numerals <- OneAndTwo
  Forged = {forged}
INVARIANTS
  ShopTypeOK
  AnswersTellTheTable
  TokenOpensItsAccount
  GuardedByItsToken
  AnswersTellTheCatalogue
  RouterFindsTheRoute
SYMMETRY AnyWorker
\* The bounds end every behaviour.
CHECK_DEADLOCK FALSE
