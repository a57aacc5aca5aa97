\* Two threads, commands of at most two sectors, requests of up to three.
CONSTANTS
  main = t1
  Looks = 2
  Threads = {t1, t2}
  Drives = {sda, sdb}
  MaxSectors = 2
  LastLba = 2
  MaxLba = 1
  MaxCnt = 3
  MaxRequests = 2
  NULL = NULL
SPECIFICATION Spec
CHECK_DEADLOCK FALSE
INVARIANTS ReadsTheSectors ChannelClean GivesUpAfterAllLooks
PROPERTY RequestsEnd
