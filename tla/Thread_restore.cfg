\* One task besides main and idle; old may hold any value.
SPECIFICATION Spec
CONSTANTS
  main = main
  idle = idle
  t1 = t1
  t2 = t2
  t3 = t3
  NULL = NULL
  pool = pool
  pid_lock = pid_lock
  Threads <- MCThreads3
  Mutexes <- MCMutexes
  Priority <- MCPriority
  OldValues = {"INTR_ON", "INTR_OFF"}
  MaxRecursion = 1
  PidLimit = 3
INVARIANT
  InterruptsRestored
CHECK_DEADLOCK FALSE
