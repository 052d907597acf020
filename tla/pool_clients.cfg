\* Two clients race, and a task submits from inside a worker.  Five tasks let
\* two submitters sleep on one queue: one task queued there and two to come.
SPECIFICATION Spec
CONSTANTS
  Tasks = {1, 2, 3, 4, 5}
  Priority <- MixedPriority
  Spawners = {1}
  Endless = {}
  Clients = {main, other}
  Main = main
  PoolSize = 2
  MaxTasks = 3
  QueueCap = 1
  NoTask = NoTask
INVARIANTS
  NoSleepOnRoom
PROPERTIES
  Refines
\* The system may stop: after shutdown, and where a wakeup of cv2 is lost.
CHECK_DEADLOCK FALSE
