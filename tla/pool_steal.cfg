\* One task never ends; the other worker stays free.
SPECIFICATION FairSpec
CONSTANTS
  Tasks = {1, 2, 3}
  Priority <- ProgramPriority
  Spawners = {}
  Endless = {1}
  Clients = {main}
  Main = main
  PoolSize = 2
  MaxTasks = 3
  QueueCap = 1
  NoTask = NoTask
PROPERTIES
  QueuedIsTaken
CHECK_DEADLOCK FALSE
