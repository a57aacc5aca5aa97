\* Every arrangement of tables for the scan, and disks where any of up to three
\* partitions is formatted; the power goes off up to twice.
CONSTANTS
  Entries = 4
  PrimLimit = 3
  LogicLimit = 2
  BITS_PER_SECTOR = 16
  MAX_FILES_PER_PART = 16
  INODE_SIZE = 2
  MaxSectors = 4
  DiskSize = 122
  Layouts <- MCLayouts
  PowerCuts = 2
SPECIFICATION Spec
CHECK_DEADLOCK FALSE
INVARIANTS FindsThePartitions TablesScannedOnce OneLostPerCut MountMatchesDisk
PROPERTY WholeStaysWhole
