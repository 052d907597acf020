\* The pool as Source.cpp uses it: one thread submits and then destroys it.
SPECIFICATION FairSpec
CONSTANTS
  Tasks = {1, 2, 3, 4}
  Priority <- ProgramPriority
  Spawners = {}
  Endless = {}
  Clients = {main}
  Main = main
  PoolSize = 2
  MaxTasks = 2
  QueueCap = 1
  NoTask = NoTask
INVARIANTS
  TypeOK
  CounterAccurate
  OnePlace
  NoSleepOnWork
PROPERTIES
  AcceptedIsRun
  Refines
\* The system may stop: after shutdown, and where a wakeup of cv2 is lost.
CHECK_DEADLOCK FALSE
