\* Three blocks of 4 bytes or one of 8 in a page of 16 with an arena of 3;
\* a size of 9 takes a page, one of 14 two.
CONSTANTS
  PageSize = 16
  ArenaSize = 3
  MinBlock = 4
  DescCnt = 2
  PageCnt = 3
  Sizes = {0, 4, 5, 9, 14}
  NULL = NULL
SPECIFICATION Spec
CHECK_DEADLOCK FALSE
INVARIANTS BlocksAccounted PagesReturned InsideItsPages
PROPERTY ImplementsAllocator
