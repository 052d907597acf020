\* One task, one client that submits it and shuts down.
SPECIFICATION FairSpec
CONSTANTS
  Tasks = {1}
  Priority <- ProgramPriority
  Spawners = {}
  Endless = {}
  Clients = {main}
  Main = main
  PoolSize = 2
  MaxTasks = 2
  QueueCap = 1
  NoTask = NoTask
PROPERTIES
  ShutdownReturns
CHECK_DEADLOCK FALSE
