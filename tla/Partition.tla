----------------------------- MODULE Partition -----------------------------
(***************************************************************************)
(* scan_partition of device/disk.c: the partitions of the slave disk, from *)
(* the table in its sector 0 and the chain of the tables of its extended   *)
(* partition.  Format goes on with the partitions it finds.                *)
(*                                                                         *)
(* scan_partition calls itself for every extended entry; its frames are in *)
(* stack, each with the sector it reads and the entry it is at.  One       *)
(* action is one pass of its loop.  A sector of the disk holds the name of *)
(* what was written to it; what the tables say is in layout.               *)
(***************************************************************************)
EXTENDS Integers, Sequences, FiniteSets, SequencesExt

CONSTANTS
  Entries,      \* the entries of a table, 4 (DEFAULT_DISK_NUM)
  PrimLimit,    \* the primary partitions scan_partition accepts, 3
  LogicLimit,   \* LOGIC_PARTS_CNT, 8
  DiskSize,     \* the sectors of the disk
  Layouts       \* what the tables of the disk may say

VARIABLES
  layout,        \* prim: the entries of sector 0; tables: the sectors of the
                 \* tables of the extended partition; logic: the first entry
                 \* of each
  disk,          \* what each sector holds
  stack,         \* the frames of scan_partition, the running one first
  ext_lba_base, master_no, logical_no,
  prim_parts, logic_parts,  \* the partitions found
  leaked,        \* how many frames returned without sys_free(boot)
  panic          \* ASSERT(master_no < 3) failed

scanState == <<stack, ext_lba_base, master_no, logical_no, prim_parts,
               logic_parts, leaked, panic>>
scanVars  == <<layout, disk, scanState>>

UNUSED   == 0
DATA     == 131   \* any fs_type but the other two
EXTENDED == 5

PTEntry == [fs_type : {UNUSED, DATA, EXTENDED}, start_lba : Nat,
            sec_cnt : Nat]

\* The tables are as partitioning tools write them: one entry of sector 0 at
\* most leads to the first table of the extended partition, and each table
\* there is a sector of its own and has one partition at most.
ASSUME PartitionAssumption ==
  /\ Entries \in Nat /\ Entries > 1
  /\ {PrimLimit, LogicLimit, DiskSize} \subseteq Nat \ {0}
  /\ \A x \in Layouts :
       /\ x.prim \in Seq(PTEntry) /\ Len(x.prim) = Entries
       /\ x.logic \in Seq(PTEntry) /\ Len(x.logic) = Len(x.tables)
       /\ \A k \in DOMAIN x.logic : x.logic[k].fs_type # EXTENDED
       /\ x.tables \in Seq(1 .. DiskSize - 1) /\ IsInjective(x.tables)
       /\ \A e \in 1 .. Entries : x.prim[e].fs_type = EXTENDED =>
            /\ x.tables # <<>> /\ x.prim[e].start_lba = x.tables[1]
            /\ \A k \in 1 .. Entries : x.prim[k].fs_type = EXTENDED => k = e

-----------------------------------------------------------------------------
(* The disk: the extended entry of sector 0, if there is one, leads to the *)
(* first table; the second entry of a table leads to the next one, counted *)
(* from the start of the extended partition.                               *)

Sectors == 0 .. DiskSize - 1

Tag(area, p, k) == [area |-> area, part |-> p, k |-> k]
Blank == Tag("blank", 0, 0)
Table == Tag("table", 0, 0)

TableSectors == {0} \cup ToSet(layout.tables)

Entry(type, lba, cnt) == [fs_type |-> type, start_lba |-> lba, sec_cnt |-> cnt]

\* The i-th entry of the table in sector lba; a sector that was overwritten
\* has none.
entry(lba, i) ==
  LET tables == layout.tables
      k == CHOOSE j \in DOMAIN tables : tables[j] = lba
  IN  IF disk[lba] # Table THEN Entry(UNUSED, 0, 0)
      ELSE IF lba = 0 THEN layout.prim[i]
      ELSE IF i = 1 THEN layout.logic[k]
      ELSE IF i = 2 /\ k < Len(tables)
           THEN Entry(EXTENDED, tables[k + 1] - tables[1], 0)
      ELSE Entry(UNUSED, 0, 0)

Frame(lba) == [lba |-> lba, i |-> 1]

\* A boot begins, as ide_channel_init calls scan_partition.
ScanInit ==
  /\ stack = <<Frame(0)>>
  /\ ext_lba_base = 0 /\ master_no = 0 /\ logical_no = 0
  /\ prim_parts = <<>> /\ logic_parts = <<>>
  /\ leaked = 0 /\ panic = FALSE

\* The same after another boot.
ScanAgain ==
  /\ stack' = <<Frame(0)>>
  /\ ext_lba_base' = 0 /\ master_no' = 0 /\ logical_no' = 0
  /\ prim_parts' = <<>> /\ logic_parts' = <<>>
  /\ leaked' = 0 /\ panic' = FALSE

-----------------------------------------------------------------------------
Running == stack # <<>> /\ ~panic
AtEntry == Running /\ Head(stack).i <= Entries
pt      == entry(Head(stack).lba, Head(stack).i)

\* ++pt of the running frame.
Advanced == <<[Head(stack) EXCEPT !.i = @ + 1]>> \o Tail(stack)

\* The partition that the entry describes, with sprintf's name for it.
Found(no, primary) ==
  [start |-> Head(stack).lba + pt.start_lba, count |-> pt.sec_cnt,
   primary |-> primary, name |-> <<"s", "d", "b", no>>]

\* Mutant: a nested table is looked for at the sector the entry says.
scan_extended_NoBase ==
  /\ AtEntry /\ pt.fs_type = EXTENDED
  /\ ext_lba_base' = IF ext_lba_base = 0 THEN pt.start_lba ELSE ext_lba_base
  /\ stack' = <<Frame(pt.start_lba)>> \o Advanced
  /\ UNCHANGED <<layout, disk, master_no, logical_no, prim_parts, logic_parts,
                 leaked, panic>>

\* An extended entry: scan_partition of the table it leads to.
scan_extended ==
  /\ AtEntry /\ pt.fs_type = EXTENDED
  /\ ext_lba_base' = IF ext_lba_base = 0 THEN pt.start_lba ELSE ext_lba_base
  /\ stack' = <<Frame(pt.start_lba + ext_lba_base)>> \o Advanced
  /\ UNCHANGED <<layout, disk, master_no, logical_no, prim_parts, logic_parts,
                 leaked, panic>>

\* A primary partition; the number is looked at after it was used.
scan_primary ==
  /\ AtEntry /\ pt.fs_type = DATA /\ Head(stack).lba = 0
  /\ prim_parts' = Append(prim_parts, Found(master_no + 1, TRUE))
  /\ panic' = (master_no >= PrimLimit)
  /\ master_no' = master_no + 1
  /\ stack' = Advanced
  /\ UNCHANGED <<layout, disk, ext_lba_base, logical_no, logic_parts, leaked>>

\* A logical partition; after the last one there is room for, the frame
\* returns and keeps its buffer.
scan_logical ==
  /\ AtEntry /\ pt.fs_type = DATA /\ Head(stack).lba # 0
  /\ logic_parts' = Append(logic_parts, Found(logical_no + 5, FALSE))
  /\ logical_no' = logical_no + 1
  /\ \/ /\ logical_no + 1 >= LogicLimit
        /\ stack' = Tail(stack) /\ leaked' = leaked + 1
     \/ /\ logical_no + 1 < LogicLimit
        /\ stack' = Advanced /\ UNCHANGED leaked
  /\ UNCHANGED <<layout, disk, ext_lba_base, master_no, prim_parts, panic>>

\* An unused entry is passed over.
scan_unused ==
  /\ AtEntry /\ pt.fs_type = UNUSED
  /\ stack' = Advanced
  /\ UNCHANGED <<layout, disk, ext_lba_base, master_no, logical_no,
                 prim_parts, logic_parts, leaked, panic>>

\* The end of the loop: sys_free(boot) and return.
scan_return ==
  /\ Running /\ Head(stack).i > Entries
  /\ stack' = Tail(stack)
  /\ UNCHANGED <<layout, disk, ext_lba_base, master_no, logical_no,
                 prim_parts, logic_parts, leaked, panic>>

scan_partition == \/ scan_extended \/ scan_primary \/ scan_logical
                  \/ scan_unused \/ scan_return

-----------------------------------------------------------------------------
(* Properties.                                                             *)

\* The reference: where the partitions are that the tables of x describe.
Place(base, e) == [start |-> base + e.start_lba, count |-> e.sec_cnt]

\* Those of the first n entries; the k-th is in the table in sector base[k].
PlacesUpTo(entries, base) ==
  LET upto[n \in 0 .. Len(entries)] ==
        IF n = 0 THEN <<>>
        ELSE IF entries[n].fs_type # DATA THEN upto[n - 1]
        ELSE Append(upto[n - 1], Place(base[n], entries[n]))
  IN  upto

PrimariesOf(x) == PlacesUpTo(x.prim, [k \in 1 .. Entries |-> 0])[Entries]

LogicalsOf(x) ==
  LET all == PlacesUpTo(x.logic, x.tables)[Len(x.logic)]
  IN  IF \E k \in 1 .. Entries : x.prim[k].fs_type = EXTENDED
      THEN SubSeq(all, 1, Min({Len(all), LogicLimit})) ELSE <<>>

Places(found) ==
  [k \in DOMAIN found |-> [start |-> found[k].start,
                            count |-> found[k].count]]

(***************************************************************************)
(* The scan of every boot, also of one after a boot that lost its power    *)
(* while it formatted, finds the partitions of a well-formed disk, at      *)
(* their sectors and in order, whichever entry is the extended one: the    *)
(* tables of the chain are counted from the first, the partitions from     *)
(* their table, the entries after the extended one are still looked at,    *)
(* and no write of build_fs has reached a table.  Of more than fit it      *)
(* finds the first, and never leaves the arrays: logic_parts, and          *)
(* prim_parts, whose index is used before it is checked.                   *)
(***************************************************************************)
FindsThePartitions ==
  /\ Len(logic_parts) <= LogicLimit /\ Len(prim_parts) <= PrimLimit + 1
  /\ stack = <<>> => /\ Places(prim_parts) = PrimariesOf(layout)
                     /\ Places(logic_parts) = LogicalsOf(layout)

(***************************************************************************)
(* On a well-formed disk no table is scanned while it is being scanned     *)
(* already, so the recursion of scan_partition, which has a frame on the   *)
(* kernel stack and a buffer from the heap at every level, is no deeper    *)
(* than there are tables; and a boot loses one buffer at most: of all      *)
(* frames that are open when there is no room for more logical partitions, *)
(* only one returns early.                                                 *)
(***************************************************************************)
TablesScannedOnce ==
  /\ \A j, k \in DOMAIN stack : stack[j].lba = stack[k].lba => j = k
  /\ leaked <= 1
=============================================================================
