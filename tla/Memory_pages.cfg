\* main boots; then either two kernel threads allocate and free pages under
\* the mutex of their pool, or two processes start, and do by system calls.
\* There are fewer pages than they can ask for.
CONSTANTS
  ByteBits = 2
  main = main
  KThreads = {main, k1, k2}
  Procs = {p1, p2}
  Loads = {{k1, k2}, {p1, p2}}
  KLen = 2
  ULen = 2
  VLen = 2
  TablePages = 2
  StackPage = 3
  MaxCount = 2
  MaxOwned <- MCMaxOwned
  NULL = NULL
SPECIFICATION Spec
SYMMETRY MCSymmetry
CHECK_DEADLOCK FALSE
INVARIANTS PteIsAbsent FramesUsedOnce RangesAreOwned ScanIsFirstFit
