\* Four request handlers share two connections; a thread may call again and
\* again, so no bound on the number of calls is needed.
SPECIFICATION FairSpec
CONSTANTS
  Threads = {t1, t2, t3, t4}
  PoolSize = 2
  NoConnection = NoConnection
INVARIANTS
  TypeOK
  Exclusive
  Conserved
  NoLostWakeup
  BlockingSawTheQueue
PROPERTIES
  PoolKeepsServing
  Refines
CHECK_DEADLOCK TRUE
