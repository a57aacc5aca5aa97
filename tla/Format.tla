------------------------------- MODULE Format -------------------------------
(***************************************************************************)
(* A boot: the scan of the disk (Partition), then fs_init of fs/fs.c,      *)
(* which gives every partition without a file system one, mounts a primary *)
(* partition with the default name and opens its root directory.           *)
(*                                                                         *)
(* One action of fs_init is one of its ide_write calls, or the read that   *)
(* decides about a partition, or the mount; the power may go off between   *)
(* any two steps of a boot, and the next boot scans the disk again.  As    *)
(* disk.c has it (see Disk), ide_write of at most MaxSectors sectors       *)
(* transfers MaxSectors: the sectors after the ones it was asked to write  *)
(* get what follows the buffer in memory.                                  *)
(***************************************************************************)
EXTENDS Partition

CONSTANTS
  BITS_PER_SECTOR,     \* 4096
  MAX_FILES_PER_PART,  \* 4096
  INODE_SIZE,          \* sizeof(inode_t)
  MaxSectors,          \* the sectors of the longest transfer, 256
  PowerCuts            \* bound: how often the power goes off

VARIABLES
  i,          \* the partition the loops of fs_init are at
  step,       \* what fs_init does next for it
  curr_part,  \* the mounted partition, 0 for none
  mounted,    \* the bitmaps mount_part read: block_bm and inode_bm
  root,       \* what open_root read as the inode of the root directory
  cuts        \* how often the power went off

fsState == <<i, step, curr_part, mounted, root>>
vars    == <<scanVars, fsState, cuts>>

\* The elements of prim_parts and logic_parts in the order of the two loops.
parts == prim_parts \o logic_parts

-----------------------------------------------------------------------------
(* The superblock.                                                         *)

DIV_ROUND_UP(x, n) == (x + n - 1) \div n

inode_bmap_secs  == DIV_ROUND_UP(MAX_FILES_PER_PART, BITS_PER_SECTOR)
inode_array_secs == DIV_ROUND_UP(INODE_SIZE * MAX_FILES_PER_PART,
                                 BITS_PER_SECTOR)

\* The block bitmap is sized for the sectors that are left beside it.
fb_bmap_secs(count) ==
  LET fb_secs == count - 2 - inode_bmap_secs - inode_array_secs
  IN  DIV_ROUND_UP(fb_secs - DIV_ROUND_UP(fb_secs, BITS_PER_SECTOR),
                   BITS_PER_SECTOR)

init_super_block(part) ==
  LET fb_bmap_addr  == part.start + 2
      in_bmap_addr  == fb_bmap_addr + fb_bmap_secs(part.count)
      in_array_addr == in_bmap_addr + inode_bmap_secs
  IN  [fb_bmap_addr  |-> fb_bmap_addr,
       fb_bmap_size  |-> fb_bmap_secs(part.count),
       in_bmap_addr  |-> in_bmap_addr,  in_bmap_size  |-> inode_bmap_secs,
       in_array_addr |-> in_array_addr, in_array_size |-> inode_array_secs,
       data_start    |-> in_array_addr + in_array_addr]

SB(p) == init_super_block(parts[p])

-----------------------------------------------------------------------------
(* The disk.                                                               *)

Junk == Tag("junk", 0, 0)

\* ide_write(d, lba, buf, cnt), where buf holds an area of partition p.
ide_write(d, lba, area, p, cnt) ==
  [s \in Sectors |->
     IF s \in lba .. lba + MaxSectors - 1
     THEN IF s < lba + cnt THEN Tag(area, p, s - lba) ELSE Junk
     ELSE d[s]]

-----------------------------------------------------------------------------
(* The file systems of the partitions that the tables describe.            *)

Described(x) == PrimariesOf(x) \o LogicalsOf(x)

\* What a boot needs to find of the file system of partition p: the sectors,
\* and what they hold.
FileSystem(x, p) ==
  LET sb == init_super_block(Described(x)[p])
      Span(area, lba, cnt) ==
        {<<lba + k, Tag(area, p, k)>> : k \in 0 .. cnt - 1}
  IN  Span("super_block", Described(x)[p].start + 1, 1)
      \cup Span("block_bitmap", sb.fb_bmap_addr, sb.fb_bmap_size)
      \cup Span("inode_bitmap", sb.in_bmap_addr, sb.in_bmap_size)
      \cup Span("inode_array", sb.in_array_addr, sb.in_array_size)
      \cup Span("root_dir", sb.data_start, 1)

Complete(d, p) == \A w \in FileSystem(layout, p) : d[w[1]] = w[2]

\* The partitions that can have one: fs_init passes over the others.
Formattable(x) == {p \in DOMAIN Described(x) : Described(x)[p].count # 0}

\* The partitions do not overlap, and each has room for its file system and
\* what is written behind it, the root directory last.
ASSUME FormatAssumption ==
  /\ {BITS_PER_SECTOR, MAX_FILES_PER_PART, INODE_SIZE, MaxSectors}
       \subseteq Nat \ {0}
  /\ inode_array_secs \in 1 .. MaxSectors /\ PowerCuts \in Nat
  /\ \A x \in Layouts : \A p \in Formattable(x) :
       LET here == Described(x)[p].start ..
                     Described(x)[p].start + Described(x)[p].count - 1
           sb   == init_super_block(Described(x)[p])
       IN  /\ here \subseteq Sectors \ ({0} \cup ToSet(x.tables))
           /\ sb.fb_bmap_size \in 1 .. MaxSectors
           /\ sb.data_start >= sb.in_array_addr + sb.in_array_size
           /\ sb.data_start + MaxSectors - 1 \in here
           /\ \A q \in Formattable(x) \ {p} : Described(x)[q].start \notin here

\* The disk has its tables, and some partitions were formatted by earlier
\* boots.
Init ==
  /\ layout \in Layouts
  /\ \E old \in SUBSET Formattable(layout) :
       LET written == UNION {FileSystem(layout, p) : p \in old}
       IN  disk = [s \in Sectors |->
                     IF s \in TableSectors THEN Table
                     ELSE IF \E w \in written : w[1] = s
                     THEN (CHOOSE w \in written : w[1] = s)[2] ELSE Blank]
  /\ ScanInit
  /\ i = 1 /\ step = "read"
  /\ curr_part = 0 /\ mounted = [block_bm |-> <<>>, inode_bm |-> <<>>]
  /\ root = Blank /\ cuts = 0

-----------------------------------------------------------------------------
(* fs_init.                                                                *)

\* The scan is over, and fs_init is at a step of partition i.
At(s) == /\ stack = <<>> /\ ~panic
         /\ i \in DOMAIN parts /\ step = s

\* Mutant: a partition is formatted whatever its superblock says.
fs_init_read_Always ==
  /\ At("read") /\ parts[i].count # 0
  /\ step' = "super_block"
  /\ UNCHANGED <<scanVars, i, curr_part, mounted, root, cuts>>

\* An element that is not in use, or a partition without sectors.
fs_init_skip ==
  /\ At("read") /\ parts[i].count = 0
  /\ i' = i + 1
  /\ UNCHANGED <<scanVars, step, curr_part, mounted, root, cuts>>

\* ide_read of the superblock; with its magic number there, there is no
\* need to build a file system.
fs_init_read ==
  /\ At("read") /\ parts[i].count # 0
  /\ step' = IF disk[parts[i].start + 1].area = "super_block"
             THEN "mount" ELSE "super_block"
  /\ UNCHANGED <<scanVars, i, curr_part, mounted, root, cuts>>

Write(area, lba, cnt, next) ==
  /\ At(area)
  /\ disk' = ide_write(disk, lba, area, i, cnt)
  /\ step' = next
  /\ UNCHANGED <<layout, scanState, i, curr_part, mounted, root, cuts>>

build_fs_super ==
  Write("super_block", parts[i].start + 1, 1, "block_bitmap")

set_free_block_bitmap ==
  Write("block_bitmap", SB(i).fb_bmap_addr, SB(i).fb_bmap_size,
        "inode_bitmap")

\* Mutant: the inode array is written before the bitmap in front of it.
set_inode_bitmap_After ==
  /\ At("inode_bitmap")
  /\ LET array == ide_write(disk, SB(i).in_array_addr, "inode_array", i,
                            SB(i).in_array_size)
     IN  disk' = ide_write(array, SB(i).in_bmap_addr, "inode_bitmap", i,
                           SB(i).in_array_size)
  /\ step' = "root_dir"
  /\ UNCHANGED <<layout, scanState, i, curr_part, mounted, root, cuts>>

\* in_array_size sectors are written, where the bitmap has in_bmap_size.
set_inode_bitmap ==
  Write("inode_bitmap", SB(i).in_bmap_addr, SB(i).in_array_size,
        "inode_array")

set_inode_array ==
  Write("inode_array", SB(i).in_array_addr, SB(i).in_array_size,
        "root_dir")

set_root_dir == Write("root_dir", SB(i).data_start, 1, "mount")

build_fs == \/ build_fs_super \/ set_free_block_bitmap \/ set_inode_bitmap
            \/ set_inode_array \/ set_root_dir

\* strcmp of a partition's name and default_part_name, two arrays: its loop
\* compares the pointers and not the characters, and stops at the first.
default_part_name == <<"s", "d", "b", 1>>
strcmp_equal(a, b) == Head(a) = Head(b)

Area(lba, cnt) == [k \in 1 .. cnt |-> disk[lba + k - 1]]

\* Mutant: both bitmaps are read from the place of the first.
mount_part_SameAddr ==
  /\ curr_part' = i
  /\ LET sb == SB(disk[parts[i].start + 1].part)
     IN  mounted' = [block_bm |-> Area(sb.fb_bmap_addr, sb.fb_bmap_size),
                     inode_bm |-> Area(sb.fb_bmap_addr, sb.in_bmap_size)]

\* The superblock is read again, then both bitmaps from where it says.
mount_part ==
  /\ curr_part' = i
  /\ LET sb == SB(disk[parts[i].start + 1].part)
     IN  mounted' = [block_bm |-> Area(sb.fb_bmap_addr, sb.fb_bmap_size),
                     inode_bm |-> Area(sb.in_bmap_addr, sb.in_bmap_size)]

fs_init_mount ==
  /\ At("mount")
  /\ \/ /\ parts[i].primary
        /\ strcmp_equal(parts[i].name, default_part_name)
        /\ mount_part
     \/ /\ ~parts[i].primary
        /\ UNCHANGED <<curr_part, mounted>>
  /\ i' = i + 1 /\ step' = "read"
  /\ UNCHANGED <<scanVars, root, cuts>>

\* The end of fs_init: open_root reads the inode of the root directory, the
\* first of the array.  With nothing mounted it would read through the null
\* pointer; the model stops there.
fs_init_root ==
  /\ stack = <<>> /\ ~panic /\ i = Len(parts) + 1 /\ step = "read"
  /\ curr_part # 0
  /\ root' = disk[SB(disk[parts[curr_part].start + 1].part).in_array_addr]
  /\ step' = "done"
  /\ UNCHANGED <<scanVars, i, curr_part, mounted, cuts>>

fs_init == fs_init_skip \/ fs_init_read \/ build_fs \/ fs_init_mount
           \/ fs_init_root

\* The power goes off and comes back; what was written stays written.
reboot ==
  /\ cuts < PowerCuts
  /\ cuts' = cuts + 1
  /\ ScanAgain
  /\ i' = 1 /\ step' = "read"
  /\ curr_part' = 0 /\ mounted' = [block_bm |-> <<>>, inode_bm |-> <<>>]
  /\ root' = Blank
  /\ UNCHANGED <<layout, disk>>

\* The steps of a boot.
Boot == \/ scan_partition /\ UNCHANGED <<fsState, cuts>>
        \/ fs_init

Next == Boot \/ reboot

Spec == Init /\ [][Next]_vars

-----------------------------------------------------------------------------
(* Properties.                                                             *)

\* Every partition was looked at.
Done == stack = <<>> /\ ~panic /\ i > Len(parts)

(***************************************************************************)
(* When fs_init is done, every partition has a whole file system but for   *)
(* at most one for each power failure, the one it cut short.  Each write   *)
(* is longer than its area and runs into the next ones, so it is the order *)
(* of the writes, of the areas and of the partitions, that leaves every    *)
(* area as it was written.                                                 *)
(***************************************************************************)
OneLostPerCut ==
  Done => Cardinality({p \in Formattable(layout) : ~Complete(disk, p)}) <= cuts

(***************************************************************************)
(* The bitmaps and the root directory in memory are the ones of the        *)
(* mounted file system, if it is whole, at the end of fs_init too, after   *)
(* the partitions behind it were formatted.                                *)
(***************************************************************************)
MountMatchesDisk ==
  Done /\ curr_part # 0 =>
    LET sb == SB(curr_part)
    IN  /\ Area(sb.fb_bmap_addr, sb.fb_bmap_size) = mounted.block_bm
        /\ Area(sb.in_bmap_addr, sb.in_bmap_size) = mounted.inode_bm
        /\ Complete(disk, curr_part) =>
             /\ mounted.block_bm = [k \in 1 .. sb.fb_bmap_size |->
                                      Tag("block_bitmap", curr_part, k - 1)]
             /\ mounted.inode_bm = [k \in 1 .. sb.in_bmap_size |->
                                      Tag("inode_bitmap", curr_part, k - 1)]
             /\ step = "done" => root = Tag("inode_array", curr_part, 0)

(***************************************************************************)
(* Whatever is cut short by a power failure and whatever is formatted next *)
(* to it, a whole file system stays whole: it is not formatted again, and  *)
(* no write for another partition reaches it, since every area, the root   *)
(* directory too, is in its own partition.                                 *)
(***************************************************************************)
WholeStaysWhole ==
  [][\A p \in Formattable(layout) :
       Complete(disk, p) => Complete(disk', p)]_vars
=============================================================================
