CONSTANTS
  Producers = {p1, p2}
  Tasks = {t1, t2}
  Fds = {f1}
  EvFd = EvFd
  MaxTasks = 1
  PoolSize = 2
  MaxOthers = 2
  InitPollSize = 2
  MinPollSize = 2
  MaxPollSize = 4
SPECIFICATION PSpec
INVARIANTS
  PTypeOK
  TasksAlone
  WakeupHandedOver
  NoStaleStop
  NoStrandedTask
PROPERTIES
  TasksRunUnlessForgotten
  ShutdownEndsLoop
CHECK_DEADLOCK FALSE
