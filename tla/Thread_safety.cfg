\* Three tasks can be created, and two of them at once; the third pid is the
\* one allocate_pid refuses.
SPECIFICATION Spec
CONSTANTS
  main = main
  idle = idle
  t1 = t1
  t2 = t2
  t3 = t3
  NULL = NULL
  pool = pool
  pid_lock = pid_lock
  Threads <- MCThreads
  Mutexes <- MCMutexes
  Priority <- MCPriority
  OldValues = {"INTR_ON", "INTR_OFF"}
  MaxRecursion = 2
  PidLimit = 4
INVARIANTS
  TypeOK
  NoAssertFails
  MutualExclusion
  PidsUnique
  TagInOneList
  NoThreadLost
  NoLostWakeup
  SyscallUninterrupted
SYMMETRY
  MCSymmetry
PROPERTY
  ImplementsMutex
CHECK_DEADLOCK FALSE
