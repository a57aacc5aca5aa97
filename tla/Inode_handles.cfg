\* One thread, three inodes and up to four handles besides the root.
CONSTANTS
  Threads = {t1}
  Nos = {0, 1, 2}
  RootNo = 0
  Nodes = {c1, c2, c3}
  head = head
  tail = tail
  Dirs = {d1, d2, d3, d4}
  Root = root
  NULL = NULL
SPECIFICATION Spec
INVARIANTS CountsTheUsers InodesAccounted LinkedBothWays
