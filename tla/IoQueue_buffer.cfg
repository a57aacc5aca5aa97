\* Two readers and a buffer of two characters; the keys are more than fit.
CONSTANTS
  main = main
  idle = idle
  r1 = r1
  r2 = r2
  Threads <- MCThreads
  Readers <- MCReaders
  Mutexes <- MCSems
  slots = slots
  items = items
  mutex = mutex
  Priority <- MCPriority
  OldValues = {"INTR_ON", "INTR_OFF"}
  MaxRecursion = 1
  BUF_SIZE = 2
  Chars = {a, b}
  MaxKeys = 5
  NULL = NULL
SPECIFICATION Spec
CHECK_DEADLOCK FALSE
INVARIANTS BufferHoldsUnread SemaphoresCount NoLostWakeup
           AssertFailsInIdleOnly
