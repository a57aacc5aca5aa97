SPECIFICATION MCStartedSpec
CONSTANTS
  main = main
  idle = idle
  t1 = t1
  t2 = t2
  t3 = t3
  NULL = NULL
  pool = pool
  pid_lock = pid_lock
  Threads <- MCThreads4
  Mutexes <- MCMutexes
  Priority <- MCPriority
  OldValues = {"INTR_OFF"}
  MaxRecursion = 1
  PidLimit = 4
INVARIANT
  InterruptsRestored
PROPERTIES
  ReadyThreadRuns
  WaiterIsWoken
CHECK_DEADLOCK FALSE
