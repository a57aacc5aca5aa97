\* One write, by one thread.
CONSTANTS
  main = t1
  Looks = 2
  Threads = {t1}
  Drives = {sda}
  MaxSectors = 2
  LastLba = 4
  MaxLba = 1
  MaxCnt = 3
  MaxRequests = 1
  NULL = NULL
SPECIFICATION Spec
CHECK_DEADLOCK FALSE
INVARIANT WritesTheSectors
