CONSTANTS
  Producers = {p1}
  Tasks = {t1}
  Fds = {f1}
  EvFd = EvFd
  MaxTasks = 1
  PoolSize = 2
  MaxOthers = 0
  InitPollSize = 2
  MinPollSize = 2
  MaxPollSize = 4
SPECIFICATION PSpec
PROPERTY
  TasksRun
CHECK_DEADLOCK FALSE
