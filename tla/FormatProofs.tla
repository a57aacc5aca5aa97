---------------------------- MODULE FormatProofs ----------------------------
(***************************************************************************)
(* Proofs about a boot: the scan of the partition tables (device/disk.c)   *)
(* and the file systems that fs_init (fs/fs.c) makes and mounts, for any   *)
(* disk with well-formed tables and any number of power failures.          *)
(***************************************************************************)
EXTENDS Format, Facts, FiniteSetTheorems, TLAPS

-----------------------------------------------------------------------------
(* The invariant of the scan, for the layout x of the disk.                *)

\* The entry of sector 0 that is extended, 0 for none.
Ext(x) ==
  IF \E e \in 1 .. Entries : x.prim[e].fs_type = EXTENDED
  THEN CHOOSE e \in 1 .. Entries : x.prim[e].fs_type = EXTENDED ELSE 0

\* The sector of the k-th table of the chain; sector 0 comes before it.
Lba(x, k) == IF k = 0 THEN 0 ELSE x.tables[k]

\* The frames under the one that is at the k-th table: each has passed the
\* entry that led to the next table.
Below(x, k) ==
  [j \in 1 .. k |-> [lba |-> Lba(x, k - j),
                     i   |-> IF j = k THEN Ext(x) + 1 ELSE 3]]

\* scan_partition is at the m-th entry of the k-th table.
StackAt(x, k, m) == <<[lba |-> Lba(x, k), i |-> m]>> \o Below(x, k)

\* No other table will be looked at.
Explored(x, k, m) == IF k = 0 THEN m > Ext(x) ELSE m >= 3

PrimsTo(x)  == PlacesUpTo(x.prim, [k \in 1 .. Entries |-> 0])
LogicsTo(x) == PlacesUpTo(x.logic, x.tables)

ScanAt(x, k, m) ==
  /\ stack = StackAt(x, k, m)
  /\ k > 0 => Ext(x) # 0
  /\ ext_lba_base = IF k > 0 \/ (Ext(x) # 0 /\ m > Ext(x))
                    THEN x.tables[1] ELSE 0
  /\ Places(prim_parts) = PrimsTo(x)[IF k = 0 THEN m - 1 ELSE Ext(x)]
  /\ IF Explored(x, k, m) THEN Places(logic_parts) = LogicalsOf(x)
     ELSE /\ Places(logic_parts) = LogicsTo(x)[IF k > 0 /\ m = 1 THEN k - 1
                                               ELSE k]
          /\ Len(logic_parts) < LogicLimit

Scanned(x) == /\ stack = <<>> /\ ~panic
              /\ Places(prim_parts) = PrimariesOf(x)
              /\ Places(logic_parts) = LogicalsOf(x)

Spots      == [start : Nat, count : Nat]
Partitions == [start : Nat, count : Nat, primary : BOOLEAN,
               name : {<<"s", "d", "b", n>> : n \in Nat}]

ScanInv(x) ==
  /\ prim_parts \in Seq(Partitions) /\ master_no = Len(prim_parts)
  /\ logic_parts \in Seq(Partitions) /\ logical_no = Len(logic_parts)
  /\ Len(prim_parts) <= IF panic THEN PrimLimit + 1 ELSE PrimLimit
  /\ Len(logic_parts) <= LogicLimit
  /\ \/ Scanned(x)
     \/ \E k \in 0 .. Len(x.tables), m \in 1 .. Entries + 1 : ScanAt(x, k, m)

-----------------------------------------------------------------------------
(* The invariant of fs_init.                                               *)

Start(x, p) == Described(x)[p].start
Block(x, p) == init_super_block(Described(x)[p])
Here(x, p)  == Start(x, p) .. Start(x, p) + Described(x)[p].count - 1

\* Partition p has a superblock.
Marked(x, p) == disk[Start(x, p) + 1].area = "super_block"

\* build_fs has written the superblock of p, and goes on.
Writing == {"block_bitmap", "inode_bitmap", "inode_array", "root_dir"}
Building(p) == i = p /\ step \in Writing

\* An area of the file system of p is on the disk d, ...
Holds(d, area, p, lba, cnt) == \A k \in 0 .. cnt - 1 : d[lba + k] = Tag(area, p, k)

\* ... and all of it.
Whole(x, d, p) ==
  LET b == Block(x, p)
  IN  /\ d[Start(x, p) + 1] = Tag("super_block", p, 0)
      /\ Holds(d, "block_bitmap", p, b.fb_bmap_addr, b.fb_bmap_size)
      /\ Holds(d, "inode_bitmap", p, b.in_bmap_addr, b.in_bmap_size)
      /\ Holds(d, "inode_array", p, b.in_array_addr, b.in_array_size)
      /\ d[b.data_start] = Tag("root_dir", p, 0)

\* The root directory is written last.
NoRoot(x, p) == disk[Block(x, p).data_start] # Tag("root_dir", p, 0)

DiskInv(x) ==
  /\ disk = [s \in Sectors |-> disk[s]]
  /\ \A s \in {0} \cup ToSet(x.tables) : disk[s] = Table
  /\ \A p \in Formattable(x) :
       /\ Marked(x, p) => disk[Start(x, p) + 1] = Tag("super_block", p, 0)
       /\ ~Marked(x, p) \/ Building(p) => NoRoot(x, p)

StepInv(x) ==
  /\ stack # <<>> => i = 1 /\ step = "read" /\ curr_part = 0
  /\ i \in 1 .. Len(Described(x)) + 1
  /\ step \in {"read", "super_block", "mount", "done"} \cup Writing
  /\ step \notin {"read", "done"} => i \in Formattable(x)
  /\ step = "done" => i = Len(Described(x)) + 1
  /\ step = "super_block" => ~Marked(x, i)
  /\ step \in {"mount"} \cup Writing => Marked(x, i)
  /\ \A p \in Formattable(x) : p < i => Marked(x, p)

\* What build_fs has written so far.
BuildInv(x) ==
  LET b == Block(x, i)
  IN  /\ step \in {"inode_bitmap", "inode_array", "root_dir"} =>
           Holds(disk, "block_bitmap", i, b.fb_bmap_addr, b.fb_bmap_size)
      /\ step \in {"inode_array", "root_dir"} =>
           Holds(disk, "inode_bitmap", i, b.in_bmap_addr, b.in_bmap_size)
      /\ step = "root_dir" =>
           Holds(disk, "inode_array", i, b.in_array_addr, b.in_array_size)

\* The partitions whose file system a power failure has cut short.
Lost(x) == {p \in Formattable(x) :
              Marked(x, p) /\ ~Building(p) /\ ~Whole(x, disk, p)}

LostInv(x) == cuts \in Nat /\ Cardinality(Lost(x)) <= cuts

MountInv(x) ==
  curr_part # 0 =>
    LET b == Block(x, curr_part)
    IN  /\ curr_part \in Formattable(x) /\ curr_part < i
        /\ mounted.block_bm = Area(b.fb_bmap_addr, b.fb_bmap_size)
        /\ mounted.inode_bm = Area(b.in_bmap_addr, b.in_bmap_size)
        /\ step = "done" => root = disk[b.in_array_addr]

FsInv(x) == /\ DiskInv(x) /\ StepInv(x) /\ BuildInv(x) /\ LostInv(x)
            /\ MountInv(x)

Inv == layout \in Layouts /\ ScanInv(layout) /\ FsInv(layout)

-----------------------------------------------------------------------------
(* The reference of the scan.                                              *)

\* What PlacesUpTo collects, entry by entry.
LEMMA UpToFacts ==
  ASSUME NEW entries \in Seq(PTEntry), NEW base \in [1 .. Len(entries) -> Nat],
         NEW U, U = PlacesUpTo(entries, base)
  PROVE  /\ U \in [0 .. Len(entries) -> Seq(Spots)] /\ U[0] = <<>>
         /\ \A n \in 1 .. Len(entries) :
              U[n] = IF entries[n].fs_type # DATA THEN U[n - 1]
                     ELSE Append(U[n - 1], Place(base[n], entries[n]))
<1> DEFINE N == Len(entries)
           Loop(g) == [n \in 0 .. N |->
                         IF n = 0 THEN <<>>
                         ELSE IF entries[n].fs_type # DATA THEN g[n - 1]
                         ELSE Append(g[n - 1], Place(base[n], entries[n]))]
           X == Seq(Spots)
           pass == [n \in Nat |-> [s \in X |->
                      IF n \in 1 .. N
                      THEN IF entries[n].fs_type # DATA THEN s
                           ELSE Append(s, Place(base[n], entries[n]))
                      ELSE s]]
<1>1. N \in Nat
  OBVIOUS
<1>2. ASSUME NEW n \in 1 .. N PROVE Place(base[n], entries[n]) \in Spots
  <2>1. entries[n] \in PTEntry /\ base[n] \in Nat
    OBVIOUS
  <2> QED
    BY <2>1 DEF PTEntry, Spots, Place
<1>3. pass \in [Nat -> [X -> X]]
  <2>1. ASSUME NEW n \in Nat, NEW s \in X PROVE pass[n][s] \in X
    <3>1. CASE n \in 1 .. N
      BY <1>2, <3>1
    <3>2. CASE n \notin 1 .. N
      BY <3>2
    <3> QED
      BY <3>1, <3>2
  <2> QED
    BY <2>1
<1>4. <<>> \in X
  OBVIOUS
<1>5. PICK f : Iterated(f, N, X, <<>>, pass)
  <2> HIDE DEF pass, X, N
  <2> QED
    BY <1>1, <1>3, <1>4, Iterates
<1>6. f \in [0 .. N -> X] /\ f[0] = <<>> /\ \A n \in 1 .. N : f[n] = pass[n][f[n - 1]]
  BY <1>5 DEF Iterated
<1>7. ASSUME NEW n \in 1 .. N
      PROVE  f[n] = IF entries[n].fs_type # DATA THEN f[n - 1]
                    ELSE Append(f[n - 1], Place(base[n], entries[n]))
  <2>1. n - 1 \in 0 .. N /\ n \in Nat
    BY <1>1
  <2>2. f[n - 1] \in X
    BY <1>6, <2>1
  <2> QED
    BY <1>6, <2>1, <2>2
<1>8. f = Loop(f)
  <2>1. \A n \in 0 .. N : n = 0 \/ n \in 1 .. N
    BY <1>1
  <2>2. \A n \in 0 .. N : f[n] = Loop(f)[n]
    BY <1>1, <1>6, <1>7, <2>1
  <2> HIDE DEF X
  <2> QED
    BY <1>6, <2>2
<1>9. U = CHOOSE g : g = Loop(g)
  BY DEF PlacesUpTo
<1> HIDE DEF Loop
<1>10. U = Loop(U)
  BY <1>8, <1>9
<1>11. /\ U = [n \in 0 .. N |-> U[n]] /\ U[0] = <<>>
       /\ \A n \in 1 .. N :
              U[n] = IF entries[n].fs_type # DATA THEN U[n - 1]
                     ELSE Append(U[n - 1], Place(base[n], entries[n]))
  <2>1. U = [n \in 0 .. N |-> Loop(U)[n]] /\ \A n \in 0 .. N : U[n] = Loop(U)[n]
    <3>1. Loop(U) = [n \in 0 .. N |-> Loop(U)[n]]
      BY DEF Loop
    <3> QED
      BY <1>10, <3>1
  <2>2. Loop(U)[0] = <<>>
    BY <1>1 DEF Loop
  <2>3. ASSUME NEW n \in 1 .. N
        PROVE  Loop(U)[n] = IF entries[n].fs_type # DATA THEN U[n - 1]
                            ELSE Append(U[n - 1], Place(base[n], entries[n]))
    BY <1>1 DEF Loop
  <2> HIDE DEF N
  <2> QED
    BY <1>1, <2>1, <2>2, <2>3, SMTT(40)
<1>12. ASSUME NEW n \in 0 .. N PROVE U[n] \in X
  <2> DEFINE T == {m \in 0 .. N : U[m] \notin X}
  <2>1. ASSUME T # {} PROVE FALSE
    <3>1. T \in SUBSET Nat
      BY <1>1
    <3>2. PICK m \in T : \A j \in T : m <= j
      BY <2>1, <3>1, LeastNumber
    <3>3. m \in 1 .. N
      BY <1>1, <1>4, <1>11, <3>2
    <3>4. m - 1 \in 0 .. N /\ m - 1 \notin T
      BY <1>1, <3>2, <3>3
    <3>5. U[m - 1] \in X
      BY <3>4
    <3>6. \A s \in X, y \in Spots : Append(s, y) \in X
      OBVIOUS
    <3>7. U[m] \in X
      <4> HIDE DEF X, N
      <4> QED
        BY <1>2, <1>11, <3>3, <3>5, <3>6
    <3> QED
      BY <3>2, <3>7
  <2> QED
    BY <2>1
<1>13. U \in [0 .. N -> X]
  BY <1>11, <1>12
<1> QED
  BY <1>11, <1>13

\* What is found first stays in front.
LEMMA FrontStays ==
  ASSUME NEW entries \in Seq(PTEntry), NEW base \in [1 .. Len(entries) -> Nat],
         NEW U, U = PlacesUpTo(entries, base), NEW n \in 0 .. Len(entries)
  PROVE  /\ Len(U[n]) <= Len(U[Len(entries)])
         /\ SubSeq(U[Len(entries)], 1, Len(U[n])) = U[n]
<1> DEFINE N == Len(entries)
           OK(m) == Len(U[n]) <= Len(U[m]) /\ SubSeq(U[m], 1, Len(U[n])) = U[n]
           Bad == {m \in 0 .. N : n <= m /\ ~OK(m)}
<1>1. N \in Nat /\ n \in Nat
  OBVIOUS
<1>2. /\ U \in [0 .. N -> Seq(Spots)]
      /\ \A m \in 1 .. N : U[m] = IF entries[m].fs_type # DATA THEN U[m - 1]
                                  ELSE Append(U[m - 1], Place(base[m], entries[m]))
  BY UpToFacts
<1>3. ASSUME Bad # {} PROVE FALSE
  <2>1. Bad \in SUBSET Nat
    BY <1>1
  <2>2. PICK m \in Bad : \A j \in Bad : m <= j
    BY <1>3, <2>1, LeastNumber
  <2>3. CASE m = n
    <3>1. U[n] \in Seq(Spots)
      BY <1>2
    <3>2. SubSeq(U[n], 1, Len(U[n])) = U[n]
      BY <3>1
    <3> QED
      BY <2>2, <2>3, <3>1, <3>2
  <2>4. CASE m # n
    <3>1. m \in 1 .. N /\ m - 1 \in 0 .. N /\ n <= m - 1
      BY <1>1, <2>2, <2>4
    <3>2. m - 1 \notin Bad
      BY <1>1, <2>2, <3>1
    <3>3. Len(U[n]) <= Len(U[m - 1]) /\ SubSeq(U[m - 1], 1, Len(U[n])) = U[n]
      BY <3>1, <3>2
    <3>4. PICK s \in Seq(Spots), r \in Seq(Spots) : s = U[m - 1] /\ r = U[n]
      BY <1>2, <3>1
    <3>5. U[m] = s \/ \E y : U[m] = Append(s, y)
      BY <1>2, <3>1, <3>4
    <3>6. ASSUME NEW y
          PROVE  Len(r) <= Len(Append(s, y)) /\ SubSeq(Append(s, y), 1, Len(r)) = r
      <4>1. Len(r) <= Len(s) /\ SubSeq(s, 1, Len(r)) = r /\ Len(r) \in Nat /\ Len(s) \in Nat
        BY <3>3, <3>4
      <4>2. \A j \in 1 .. Len(r) : Append(s, y)[j] = s[j]
        BY <4>1
      <4> QED
        BY <4>1, <4>2
    <3> QED
      BY <2>2, <3>3, <3>4, <3>5, <3>6
  <2> QED
    BY <2>3, <2>4
<1>4. N \in 0 .. N /\ n <= N
  BY <1>1
<1> QED
  BY <1>3, <1>4

\* The tables of a layout.
LEMMA LayoutFacts ==
  ASSUME NEW x \in Layouts
  PROVE  /\ x.prim \in Seq(PTEntry) /\ Len(x.prim) = Entries
         /\ Entries \in Nat /\ Entries > 1
         /\ x.logic \in Seq(PTEntry) /\ Len(x.logic) = Len(x.tables)
         /\ \A k \in 1 .. Len(x.tables) : x.logic[k].fs_type # EXTENDED
         /\ x.tables \in Seq(1 .. DiskSize - 1) /\ Len(x.tables) \in Nat
         /\ \A j, k \in 1 .. Len(x.tables) : x.tables[j] = x.tables[k] => j = k
         /\ \A k \in 1 .. Len(x.tables) :
              x.tables[k] \in Nat \ {0} /\ x.tables[k] \in ToSet(x.tables)
         /\ PrimLimit \in Nat \ {0} /\ LogicLimit \in Nat \ {0}
         /\ DiskSize \in Nat \ {0}
<1>1. /\ x.prim \in Seq(PTEntry) /\ Len(x.prim) = Entries
      /\ Entries \in Nat /\ Entries > 1
      /\ x.logic \in Seq(PTEntry) /\ Len(x.logic) = Len(x.tables)
      /\ \A k \in DOMAIN x.logic : x.logic[k].fs_type # EXTENDED
      /\ x.tables \in Seq(1 .. DiskSize - 1) /\ IsInjective(x.tables)
      /\ {PrimLimit, LogicLimit, DiskSize} \subseteq Nat \ {0}
  BY PartitionAssumption
<1>2. PrimLimit \in Nat \ {0} /\ LogicLimit \in Nat \ {0} /\ DiskSize \in Nat \ {0}
  BY <1>1
<1>3. Len(x.tables) \in Nat
  BY <1>1
<1>4. \A k \in 1 .. Len(x.tables) : x.logic[k].fs_type # EXTENDED
  BY <1>1
<1>5. \A j, k \in 1 .. Len(x.tables) : x.tables[j] = x.tables[k] => j = k
  BY <1>1 DEF IsInjective
<1>6. ASSUME NEW k \in 1 .. Len(x.tables)
      PROVE  x.tables[k] \in Nat \ {0} /\ x.tables[k] \in ToSet(x.tables)
  <2>1. x.tables[k] \in 1 .. DiskSize - 1
    BY <1>1
  <2>2. x.tables[k] \in ToSet(x.tables)
    BY <1>1, ToSetIff
  <2> QED
    BY <1>2, <2>1, <2>2
<1> QED
  BY <1>1, <1>2, <1>3, <1>4, <1>5, <1>6

\* The entry that leads to the chain.
LEMMA ExtFacts ==
  ASSUME NEW x \in Layouts
  PROVE  /\ Ext(x) \in 0 .. Entries
         /\ \A e \in 1 .. Entries : x.prim[e].fs_type = EXTENDED <=> e = Ext(x)
         /\ Ext(x) # 0 => /\ Len(x.tables) >= 1
                          /\ x.prim[Ext(x)].start_lba = x.tables[1]
<1>1. CASE \E e \in 1 .. Entries : x.prim[e].fs_type = EXTENDED
  <2>1. Ext(x) \in 1 .. Entries /\ x.prim[Ext(x)].fs_type = EXTENDED
    BY <1>1 DEF Ext
  <2>2. /\ x.tables # <<>> /\ x.prim[Ext(x)].start_lba = x.tables[1]
        /\ \A k \in 1 .. Entries : x.prim[k].fs_type = EXTENDED => k = Ext(x)
    BY <2>1, PartitionAssumption
  <2>3. Len(x.tables) >= 1
    BY <2>2, LayoutFacts
  <2> QED
    BY <2>1, <2>2, <2>3, LayoutFacts
<1>2. CASE ~ \E e \in 1 .. Entries : x.prim[e].fs_type = EXTENDED
  BY <1>2, LayoutFacts DEF Ext
<1> QED
  BY <1>1, <1>2

\* The places of the primary partitions, ...
LEMMA PrimsFacts ==
  ASSUME NEW x \in Layouts
  PROVE  /\ PrimsTo(x) \in [0 .. Entries -> Seq(Spots)] /\ PrimsTo(x)[0] = <<>>
         /\ \A n \in 1 .. Entries :
              PrimsTo(x)[n] = IF x.prim[n].fs_type # DATA THEN PrimsTo(x)[n - 1]
                              ELSE Append(PrimsTo(x)[n - 1], Place(0, x.prim[n]))
         /\ PrimariesOf(x) = PrimsTo(x)[Entries]
<1> DEFINE base == [k \in 1 .. Entries |-> 0]
<1>1. x.prim \in Seq(PTEntry) /\ Len(x.prim) = Entries
  BY LayoutFacts
<1>2. base \in [1 .. Entries -> Nat] /\ \A n \in 1 .. Entries : base[n] = 0
  OBVIOUS
<1>3. PrimsTo(x) = PlacesUpTo(x.prim, base) /\ PrimariesOf(x) = PrimsTo(x)[Entries]
  BY DEF PrimsTo, PrimariesOf
<1> HIDE DEF base
<1> QED
  BY <1>1, <1>2, <1>3, UpToFacts, SMTT(40)

\* ... and of the logical ones.
LEMMA LogicsFacts ==
  ASSUME NEW x \in Layouts
  PROVE  /\ LogicsTo(x) \in [0 .. Len(x.tables) -> Seq(Spots)]
         /\ LogicsTo(x)[0] = <<>>
         /\ \A n \in 1 .. Len(x.tables) :
              LogicsTo(x)[n] =
                IF x.logic[n].fs_type # DATA THEN LogicsTo(x)[n - 1]
                ELSE Append(LogicsTo(x)[n - 1], Place(x.tables[n], x.logic[n]))
         /\ LogicalsOf(x) \in Seq(Spots) /\ Len(LogicalsOf(x)) <= LogicLimit
         /\ Ext(x) = 0 => LogicalsOf(x) = <<>>
         /\ Ext(x) # 0 =>
              /\ Len(LogicsTo(x)[Len(x.tables)]) < LogicLimit =>
                   LogicalsOf(x) = LogicsTo(x)[Len(x.tables)]
              /\ \A k \in 0 .. Len(x.tables) :
                   Len(LogicsTo(x)[k]) = LogicLimit => LogicalsOf(x) = LogicsTo(x)[k]
<1> DEFINE N == Len(x.tables)
           U == LogicsTo(x)
           all == U[N]
<1>1. /\ x.logic \in Seq(PTEntry) /\ Len(x.logic) = N /\ N \in Nat
      /\ LogicLimit \in Nat
  BY LayoutFacts
<1>2. x.tables \in [1 .. Len(x.logic) -> Nat]
  <2>1. x.tables \in Seq(1 .. DiskSize - 1) /\ \A k \in 1 .. N : x.tables[k] \in Nat
    BY LayoutFacts
  <2> QED
    BY <1>1, <2>1
<1>3. U = PlacesUpTo(x.logic, x.tables)
  BY DEF LogicsTo
<1>4. /\ U \in [0 .. N -> Seq(Spots)] /\ U[0] = <<>>
      /\ \A n \in 1 .. N :
           U[n] = IF x.logic[n].fs_type # DATA THEN U[n - 1]
                  ELSE Append(U[n - 1], Place(x.tables[n], x.logic[n]))
  BY <1>1, <1>2, <1>3, UpToFacts
<1>5. \A k \in 0 .. N : Len(U[k]) <= Len(all) /\ SubSeq(all, 1, Len(U[k])) = U[k]
  <2>1. \A k \in 0 .. Len(x.logic) :
          /\ Len(U[k]) <= Len(U[Len(x.logic)])
          /\ SubSeq(U[Len(x.logic)], 1, Len(U[k])) = U[k]
    <3> HIDE DEF U
    <3> QED
      BY <1>1, <1>2, <1>3, FrontStays
  <2> QED
    BY <1>1, <2>1
<1>6. LogicalsOf(x) = IF Ext(x) # 0 THEN SubSeq(all, 1, Min({Len(all), LogicLimit}))
                      ELSE <<>>
  <2>1. (\E k \in 1 .. Entries : x.prim[k].fs_type = EXTENDED) <=> Ext(x) # 0
    BY ExtFacts, LayoutFacts
  <2> QED
    BY <1>1, <1>3, <2>1 DEF LogicalsOf
<1>7. all \in Seq(Spots) /\ Len(all) \in Nat
  BY <1>1, <1>4
<1> HIDE DEF all
<1>8. PICK a \in Nat : a = Min({Len(all), LogicLimit}) /\ a \in {Len(all), LogicLimit}
                       /\ a <= Len(all) /\ a <= LogicLimit
  <2>1. {Len(all), LogicLimit} \in SUBSET Nat
    BY <1>1, <1>7
  <2> QED
    BY <2>1, MinFacts
<1>9. SubSeq(all, 1, a) \in Seq(Spots) /\ Len(SubSeq(all, 1, a)) = a
  <2>1. SubSeq(all, 1, a) = [j \in 1 .. a |-> all[j]]
    BY <1>7, <1>8
  <2>2. \A j \in 1 .. a : all[j] \in Spots
    BY <1>7, <1>8
  <2> QED
    BY <2>1, <2>2
<1>10. LogicalsOf(x) \in Seq(Spots) /\ Len(LogicalsOf(x)) <= LogicLimit
  <2>1. <<>> \in Seq(Spots) /\ Len(<<>>) = 0
    OBVIOUS
  <2>2. CASE Ext(x) = 0
    <3>1. LogicalsOf(x) = <<>>
      BY <1>6, <2>2
    <3> QED
      BY <1>1, <2>1, <3>1
  <2>3. CASE Ext(x) # 0
    <3>1. LogicalsOf(x) = SubSeq(all, 1, a)
      BY <1>6, <1>8, <2>3
    <3> QED
      BY <1>8, <1>9, <3>1
  <2> QED
    BY <2>2, <2>3
<1>11. ASSUME Ext(x) # 0, Len(all) < LogicLimit PROVE LogicalsOf(x) = all
  <2>1. a = Len(all)
    BY <1>1, <1>7, <1>8, <1>11
  <2>2. SubSeq(all, 1, Len(all)) = all
    BY <1>7
  <2> QED
    BY <1>6, <1>8, <1>11, <2>1, <2>2
<1>12. ASSUME Ext(x) # 0, NEW k \in 0 .. N, Len(U[k]) = LogicLimit
       PROVE  LogicalsOf(x) = U[k]
  <2>1. LogicLimit <= Len(all) /\ SubSeq(all, 1, LogicLimit) = U[k]
    BY <1>5, <1>12
  <2>2. a = LogicLimit
    BY <1>1, <1>7, <1>8, <2>1
  <2> QED
    BY <1>6, <1>8, <1>12, <2>1, <2>2
<1> QED
  BY <1>4, <1>6, <1>10, <1>11, <1>12 DEF all

-----------------------------------------------------------------------------
(* The frames and what they look at.                                       *)

Frames == [lba : Nat, i : Nat]

\* The frames below are those of the call before.
LEMMA StackFacts ==
  ASSUME NEW x \in Layouts, NEW k \in 0 .. Len(x.tables), NEW m \in Nat
  PROVE  /\ StackAt(x, k, m) \in Seq(Frames) /\ StackAt(x, k, m) # <<>>
         /\ Head(StackAt(x, k, m)) = [lba |-> Lba(x, k), i |-> m]
         /\ Tail(StackAt(x, k, m)) = Below(x, k)
         /\ k = 0 => Below(x, k) = <<>>
         /\ k # 0 => Below(x, k) =
                       StackAt(x, k - 1, IF k = 1 THEN Ext(x) + 1 ELSE 3)
<1>1. Len(x.tables) \in Nat /\ k \in Nat /\ Ext(x) \in Nat
  BY LayoutFacts, ExtFacts
<1>2. \A j \in 0 .. Len(x.tables) : Lba(x, j) \in Nat
  BY LayoutFacts DEF Lba
<1> DEFINE B(j) == Below(x, j)
           R(a, b) == [lba |-> a, i |-> b]
<1>3. ASSUME NEW j \in 0 .. Len(x.tables)
      PROVE  /\ B(j) \in Seq(Frames) /\ Len(B(j)) = j
             /\ \A n \in 1 .. j : B(j)[n] = R(Lba(x, j - n),
                                              IF n = j THEN Ext(x) + 1 ELSE 3)
  <2>1. \A n \in 1 .. j : j - n \in 0 .. Len(x.tables)
    BY <1>1
  <2>2. \A n \in 1 .. j : R(Lba(x, j - n), IF n = j THEN Ext(x) + 1 ELSE 3) \in Frames
    BY <1>1, <1>2, <2>1 DEF Frames
  <2>3. B(j) = [n \in 1 .. j |-> R(Lba(x, j - n), IF n = j THEN Ext(x) + 1 ELSE 3)]
    BY DEF Below
  <2>4. j \in Nat
    BY <1>1
  <2> HIDE DEF R, B
  <2> QED
    BY <2>2, <2>3, <2>4
<1>4. R(Lba(x, k), m) \in Frames
  BY <1>2 DEF Frames
<1>5. StackAt(x, k, m) = <<R(Lba(x, k), m)>> \o B(k)
  BY DEF StackAt
<1>6. B(k) \in Seq(Frames) /\ Len(B(k)) = k
  BY <1>3
<1>7. /\ StackAt(x, k, m) \in Seq(Frames) /\ StackAt(x, k, m) # <<>>
      /\ Head(StackAt(x, k, m)) = R(Lba(x, k), m)
      /\ Tail(StackAt(x, k, m)) = B(k)
  <2> HIDE DEF B, R
  <2> QED
    BY <1>4, <1>5, <1>6
<1>8. k = 0 => B(k) = <<>>
  <2> HIDE DEF B, R
  <2> QED
    BY <1>6
<1>9. ASSUME k # 0
      PROVE  B(k) = StackAt(x, k - 1, IF k = 1 THEN Ext(x) + 1 ELSE 3)
  <2> DEFINE e == IF k = 1 THEN Ext(x) + 1 ELSE 3
             top == R(Lba(x, k - 1), e)
             r == <<top>> \o B(k - 1)
  <2>1. k - 1 \in 0 .. Len(x.tables) /\ k - 1 \in Nat /\ e \in Nat
    BY <1>1, <1>9
  <2>2. B(k - 1) \in Seq(Frames) /\ Len(B(k - 1)) = k - 1
    BY <1>3, <2>1
  <2>3. top \in Frames
    BY <1>2, <2>1 DEF Frames
  <2>4. r \in Seq(Frames) /\ Len(r) = k
    <3> HIDE DEF top, B
    <3> QED
      BY <1>1, <2>1, <2>2, <2>3
  <2>5. ASSUME NEW n \in 1 .. k PROVE r[n] = B(k)[n]
    <3>1. CASE n = 1
      <4>1. r[n] = top
        <5> HIDE DEF top, B
        <5> QED
          BY <2>1, <2>2, <2>3, <3>1
      <4>2. B(k)[n] = R(Lba(x, k - 1), IF k = 1 THEN Ext(x) + 1 ELSE 3)
        BY <1>1, <1>3, <3>1
      <4> QED
        BY <4>1, <4>2
    <3>2. CASE n # 1
      <4>1. n - 1 \in 1 .. k - 1 /\ (k - 1) - (n - 1) = k - n /\ (n - 1 = k - 1 <=> n = k)
        BY <1>1, <3>2
      <4>2. r[n] = B(k - 1)[n - 1]
        <5> HIDE DEF top, B
        <5> QED
          BY <2>1, <2>2, <2>3, <3>2, <4>1
      <4>3. B(k - 1)[n - 1] = R(Lba(x, k - n), IF n = k THEN Ext(x) + 1 ELSE 3)
        <5>1. B(k - 1)[n - 1] = R(Lba(x, (k - 1) - (n - 1)),
                                  IF n - 1 = k - 1 THEN Ext(x) + 1 ELSE 3)
          BY <1>3, <2>1, <4>1
        <5> QED
          BY <4>1, <5>1
      <4>4. B(k)[n] = R(Lba(x, k - n), IF n = k THEN Ext(x) + 1 ELSE 3)
        BY <1>3
      <4> QED
        BY <4>2, <4>3, <4>4
    <3> QED
      BY <3>1, <3>2
  <2>6. r = B(k)
    <3> HIDE DEF r, B
    <3> QED
      BY <1>6, <2>4, <2>5
  <2> QED
    BY <2>6 DEF StackAt
<1> QED
  BY <1>7, <1>8, <1>9

\* What an entry of the k-th table says, as long as the tables are whole.
LEMMA EntryFacts ==
  ASSUME NEW x \in Layouts, layout = x, DiskInv(x),
         NEW k \in 0 .. Len(x.tables), NEW m
  PROVE  entry(Lba(x, k), m) =
           IF k = 0 THEN x.prim[m]
           ELSE IF m = 1 THEN x.logic[k]
           ELSE IF m = 2 /\ k < Len(x.tables)
                THEN Entry(EXTENDED, x.tables[k + 1] - x.tables[1], 0)
           ELSE Entry(UNUSED, 0, 0)
<1> DEFINE tables == x.tables
           lba == Lba(x, k)
           n == CHOOSE j \in DOMAIN layout.tables : layout.tables[j] = lba
<1>1. Len(tables) \in Nat /\ DOMAIN tables = 1 .. Len(tables)
  BY LayoutFacts
<1>2. disk[lba] = Table
  BY <1>1, LayoutFacts DEF Lba, DiskInv
<1>3. CASE k = 0
  <2>1. lba = 0
    BY <1>3 DEF Lba
  <2> QED
    BY <1>2, <1>3, <2>1 DEF entry
<1>4. CASE k # 0
  <2>1. lba = tables[k] /\ k \in 1 .. Len(tables) /\ lba # 0
    BY <1>1, <1>4, LayoutFacts DEF Lba
  <2>2. n = k
    BY <1>1, <2>1, LayoutFacts
  <2>3. entry(lba, m) = IF m = 1 THEN layout.logic[n]
                        ELSE IF m = 2 /\ n < Len(layout.tables)
                        THEN Entry(EXTENDED, layout.tables[n + 1] - layout.tables[1], 0)
                        ELSE Entry(UNUSED, 0, 0)
    <3> HIDE DEF lba
    <3> QED
      BY <1>2, <2>1 DEF entry
  <2> HIDE DEF n
  <2> QED
    BY <1>4, <2>2, <2>3
<1> QED
  BY <1>3, <1>4

\* The places of the partitions found.
LEMMA PlacesFacts ==
  ASSUME NEW found \in Seq(Partitions)
  PROVE  /\ Places(found) \in Seq(Spots) /\ Len(Places(found)) = Len(found)
         /\ \A k \in 1 .. Len(found) : /\ found[k] \in Partitions
                                       /\ Places(found)[k].start = found[k].start
                                       /\ Places(found)[k].count = found[k].count
         /\ \A r \in Partitions :
              /\ Append(found, r) \in Seq(Partitions)
              /\ Places(Append(found, r)) =
                   Append(Places(found), [start |-> r.start, count |-> r.count])
<1> DEFINE S(r) == [start |-> r.start, count |-> r.count]
<1>1. \A f \in Seq(Partitions) : Places(f) = [k \in 1 .. Len(f) |-> S(f[k])]
  BY DEF Places
<1>2. \A r \in Partitions : S(r) \in Spots
  BY DEF Partitions, Spots
<1>3. \A r : S(r).start = r.start /\ S(r).count = r.count
  OBVIOUS
<1> HIDE DEF S
<1>4. ASSUME NEW f \in Seq(Partitions)
      PROVE  /\ Places(f) \in Seq(Spots) /\ Len(Places(f)) = Len(f)
             /\ \A k \in 1 .. Len(f) : f[k] \in Partitions /\ Places(f)[k] = S(f[k])
  <2>1. \A k \in 1 .. Len(f) : f[k] \in Partitions /\ S(f[k]) \in Spots
    BY <1>2
  <2> QED
    BY <1>1, <2>1
<1>5. ASSUME NEW r \in Partitions
      PROVE  /\ Append(found, r) \in Seq(Partitions)
             /\ Places(Append(found, r)) = Append(Places(found), S(r))
  <2>1. Append(found, r) \in Seq(Partitions) /\ Len(Append(found, r)) = Len(found) + 1
    OBVIOUS
  <2>2. /\ Places(Append(found, r)) \in Seq(Spots)
        /\ Len(Places(Append(found, r))) = Len(found) + 1
        /\ \A k \in 1 .. Len(found) + 1 :
             Places(Append(found, r))[k] = S(Append(found, r)[k])
    BY <1>4, <2>1
  <2>3. Places(found) \in Seq(Spots) /\ Len(Places(found)) = Len(found) /\ Len(found) \in Nat
    BY <1>4
  <2>4. S(r) \in Spots
    BY <1>2
  <2> DEFINE q == Append(Places(found), S(r))
  <2>5. q \in Seq(Spots) /\ Len(q) = Len(found) + 1
    BY <2>3, <2>4
  <2>6. ASSUME NEW k \in 1 .. Len(found) + 1
        PROVE  Places(Append(found, r))[k] = q[k]
    <3>1. CASE k = Len(found) + 1
      BY <2>2, <2>3, <3>1
    <3>2. CASE k # Len(found) + 1
      <4>1. k \in 1 .. Len(found)
        BY <2>3, <3>2
      <4> QED
        BY <1>4, <2>2, <2>3, <4>1
    <3> QED
      BY <3>1, <3>2
  <2>7. Places(Append(found, r)) = q
    <3> HIDE DEF q
    <3> QED
      BY <2>2, <2>5, <2>6
  <2> QED
    BY <2>1, <2>7
<1>6. \A k \in 1 .. Len(found) : /\ found[k] \in Partitions
                                 /\ Places(found)[k].start = found[k].start
                                 /\ Places(found)[k].count = found[k].count
  BY <1>3, <1>4
<1> QED
  BY <1>4, <1>5, <1>6 DEF S

-----------------------------------------------------------------------------
(* The steps of the scan.                                                  *)

\* What scan_partition looks at.
LEMMA AtFacts ==
  ASSUME NEW x \in Layouts, layout = x, DiskInv(x),
         NEW k \in 0 .. Len(x.tables), NEW m \in 1 .. Entries + 1,
         stack = StackAt(x, k, m)
  PROVE  /\ stack # <<>> /\ Head(stack).lba = Lba(x, k) /\ Head(stack).i = m
         /\ Tail(stack) = Below(x, k) /\ (Lba(x, k) = 0 <=> k = 0)
         /\ Advanced = StackAt(x, k, m + 1)
         /\ pt = IF k = 0 THEN x.prim[m]
                 ELSE IF m = 1 THEN x.logic[k]
                 ELSE IF m = 2 /\ k < Len(x.tables)
                      THEN Entry(EXTENDED, x.tables[k + 1] - x.tables[1], 0)
                 ELSE Entry(UNUSED, 0, 0)
         /\ m \in Nat /\ k \in Nat /\ Entries \in Nat /\ Len(x.tables) \in Nat
<1>1. m \in Nat /\ k \in Nat /\ Entries \in Nat /\ Len(x.tables) \in Nat
  BY LayoutFacts
<1>2. /\ stack # <<>> /\ Head(stack) = [lba |-> Lba(x, k), i |-> m]
      /\ Tail(stack) = Below(x, k)
  BY <1>1, StackFacts
<1>3. Lba(x, k) = 0 <=> k = 0
  BY <1>1, LayoutFacts DEF Lba
<1>4. Advanced = StackAt(x, k, m + 1)
  <2>1. [Head(stack) EXCEPT !.i = @ + 1] = [lba |-> Lba(x, k), i |-> m + 1]
    BY <1>2
  <2> QED
    BY <1>2, <2>1 DEF Advanced, StackAt
<1>5. pt = entry(Lba(x, k), m)
  BY <1>2 DEF pt
<1> QED
  BY <1>1, <1>2, <1>3, <1>4, <1>5, EntryFacts

\* The return to the frame before, when the tables behind are done with.
LEMMA ReturnAt ==
  ASSUME NEW x \in Layouts, NEW k \in 1 .. Len(x.tables), Ext(x) # 0,
         stack' = Below(x, k), ext_lba_base' = x.tables[1],
         Places(prim_parts') = PrimsTo(x)[Ext(x)],
         Places(logic_parts') = LogicalsOf(x)
  PROVE  \E n \in 0 .. Len(x.tables), m \in 1 .. Entries + 1 : ScanAt(x, n, m)'
<1> DEFINE e == IF k = 1 THEN Ext(x) + 1 ELSE 3
<1>1. Len(x.tables) \in Nat /\ Entries \in Nat /\ Entries > 1 /\ Ext(x) \in 0 .. Entries
  BY LayoutFacts, ExtFacts
<1>2. /\ k \in 0 .. Len(x.tables) /\ k # 0 /\ k - 1 \in 0 .. Len(x.tables)
      /\ e \in 1 .. Entries + 1 /\ (k - 1 = 0 <=> k = 1)
  BY <1>1
<1>3. stack' = StackAt(x, k - 1, e)
  BY <1>2, StackFacts
<1>4. Explored(x, k - 1, e)
  BY <1>1, <1>2 DEF Explored
<1>5. k - 1 > 0 \/ (Ext(x) # 0 /\ e > Ext(x))
  BY <1>1, <1>2
<1>6. (IF k - 1 = 0 THEN e - 1 ELSE Ext(x)) = Ext(x)
  BY <1>1, <1>2
<1> HIDE DEF e
<1>7. ScanAt(x, k - 1, e)'
  BY <1>3, <1>4, <1>5, <1>6 DEF ScanAt
<1> QED
  BY <1>2, <1>7

\* An entry of the table in sector 0 that is passed over, or used.
LEMMA NextPrimary ==
  ASSUME NEW x \in Layouts, NEW m \in 1 .. Entries, m # Ext(x),
         ScanAt(x, 0, m), stack' = StackAt(x, 0, m + 1),
         UNCHANGED <<ext_lba_base, logic_parts>>,
         Places(prim_parts') = PrimsTo(x)[m]
  PROVE  m + 1 \in 1 .. Entries + 1 /\ ScanAt(x, 0, m + 1)'
<1>1. Entries \in Nat /\ Ext(x) \in 0 .. Entries /\ m \in Nat
  BY LayoutFacts, ExtFacts
<1>2. m + 1 \in 1 .. Entries + 1 /\ (m + 1 > Ext(x) <=> m > Ext(x)) /\ (m + 1) - 1 = m
  BY <1>1
<1>3. Explored(x, 0, m + 1) <=> Explored(x, 0, m)
  BY <1>2 DEF Explored
<1> QED
  BY <1>2, <1>3 DEF ScanAt

LEMMA UnusedInv ==
  ASSUME NEW x \in Layouts, layout = x, DiskInv(x), ScanInv(x), scan_unused
  PROVE  ScanInv(x)'
<1>1. /\ AtEntry /\ pt.fs_type = UNUSED /\ stack' = Advanced
      /\ UNCHANGED <<ext_lba_base, master_no, logical_no, prim_parts,
                     logic_parts, leaked, panic>>
  BY DEF scan_unused
<1>2. stack # <<>>
  BY <1>1 DEF AtEntry, Running
<1>3. PICK k \in 0 .. Len(x.tables), m \in 1 .. Entries + 1 : ScanAt(x, k, m)
  BY <1>2 DEF ScanInv, Scanned
<1>4. stack = StackAt(x, k, m)
  BY <1>3 DEF ScanAt
<1>5. /\ Head(stack).i = m /\ Advanced = StackAt(x, k, m + 1)
      /\ m \in Nat /\ k \in Nat /\ Entries \in Nat /\ Len(x.tables) \in Nat
  BY <1>4, AtFacts
<1>6. m \in 1 .. Entries /\ m + 1 \in 1 .. Entries + 1
  BY <1>1, <1>5 DEF AtEntry
<1>7. \E n \in 0 .. Len(x.tables), e \in 1 .. Entries + 1 : ScanAt(x, n, e)'
  <2>1. CASE k = 0
    <3>1. x.prim[m].fs_type = UNUSED
      BY <1>1, <1>4, <2>1, AtFacts
    <3>2. m # Ext(x)
      BY <1>6, <3>1, ExtFacts DEF UNUSED, EXTENDED
    <3>3. Places(prim_parts) = PrimsTo(x)[m]
      <4>1. Places(prim_parts) = PrimsTo(x)[m - 1]
        BY <1>3, <2>1 DEF ScanAt
      <4> QED
        BY <1>6, <3>1, <4>1, PrimsFacts DEF UNUSED, DATA
    <3>4. ScanAt(x, 0, m + 1)'
      BY <1>1, <1>3, <1>5, <1>6, <2>1, <3>2, <3>3, NextPrimary
    <3> QED
      BY <1>6, <2>1, <3>4
  <2>2. CASE k # 0
    <3>1. /\ Ext(x) # 0 /\ ext_lba_base = x.tables[1]
          /\ Places(prim_parts) = PrimsTo(x)[Ext(x)]
      BY <1>3, <1>5, <2>2 DEF ScanAt
    <3>2. m # 2 \/ k = Len(x.tables)
      <4>1. ASSUME m = 2, k < Len(x.tables) PROVE FALSE
        <5>1. pt = Entry(EXTENDED, x.tables[k + 1] - x.tables[1], 0)
          BY <1>4, <2>2, <4>1, AtFacts
        <5> QED
          BY <1>1, <5>1 DEF Entry, UNUSED, EXTENDED
      <4> QED
        BY <1>5, <4>1
    <3>3. IF Explored(x, k, m + 1) THEN Places(logic_parts) = LogicalsOf(x)
          ELSE /\ Places(logic_parts) = LogicsTo(x)[k]
               /\ Len(logic_parts) < LogicLimit
      <4>1. CASE m = 1
        <5>1. x.logic[k].fs_type = UNUSED
          BY <1>1, <1>4, <2>2, <4>1, AtFacts
        <5>2. k \in 1 .. Len(x.tables)
          BY <1>5, <2>2
        <5>3. LogicsTo(x)[k] = LogicsTo(x)[k - 1]
          <6>1. x.logic[k].fs_type # DATA
            BY <5>1 DEF UNUSED, DATA
          <6> QED
            BY <5>2, <6>1, LogicsFacts
        <5> QED
          BY <1>3, <1>5, <2>2, <4>1, <5>3 DEF ScanAt, Explored
      <4>2. CASE m = 2
        <5>1. Places(logic_parts) = LogicsTo(x)[Len(x.tables)] /\ Len(logic_parts) < LogicLimit
          BY <1>3, <1>5, <2>2, <3>2, <4>2 DEF ScanAt, Explored
        <5>2. Len(Places(logic_parts)) = Len(logic_parts)
          BY PlacesFacts DEF ScanInv
        <5>3. Places(logic_parts) = LogicalsOf(x)
          BY <3>1, <5>1, <5>2, LogicsFacts
        <5> QED
          BY <2>2, <4>2, <5>3 DEF Explored
      <4>3. CASE m # 1 /\ m # 2
        <5>1. Explored(x, k, m) /\ Explored(x, k, m + 1)
          BY <1>5, <1>6, <2>2, <4>3 DEF Explored
        <5> QED
          BY <1>3, <5>1 DEF ScanAt
      <4> QED
        BY <4>1, <4>2, <4>3
    <3>4. k > 0 /\ m + 1 # 1
      BY <1>5, <1>6, <2>2
    <3>5. ScanAt(x, k, m + 1)'
      BY <1>1, <1>5, <2>2, <3>1, <3>3, <3>4 DEF ScanAt
    <3> QED
      BY <1>6, <3>5
  <2> QED
    BY <2>1, <2>2
<1> QED
  BY <1>1, <1>7 DEF ScanInv

LEMMA ExtendedInv ==
  ASSUME NEW x \in Layouts, layout = x, DiskInv(x), ScanInv(x), scan_extended
  PROVE  ScanInv(x)'
<1>1. /\ AtEntry /\ pt.fs_type = EXTENDED
      /\ ext_lba_base' = IF ext_lba_base = 0 THEN pt.start_lba ELSE ext_lba_base
      /\ stack' = <<Frame(pt.start_lba + ext_lba_base)>> \o Advanced
      /\ UNCHANGED <<master_no, logical_no, prim_parts, logic_parts, leaked, panic>>
  BY DEF scan_extended
<1>2. stack # <<>>
  BY <1>1 DEF AtEntry, Running
<1>3. PICK k \in 0 .. Len(x.tables), m \in 1 .. Entries + 1 : ScanAt(x, k, m)
  BY <1>2 DEF ScanInv, Scanned
<1>4. stack = StackAt(x, k, m)
  BY <1>3 DEF ScanAt
<1>5. /\ Head(stack).i = m /\ Advanced = StackAt(x, k, m + 1)
      /\ m \in Nat /\ k \in Nat /\ Entries \in Nat /\ Len(x.tables) \in Nat
  BY <1>4, AtFacts
<1>6. m \in 1 .. Entries
  BY <1>1, <1>5 DEF AtEntry
\* The table that comes next.
<1>7. /\ Ext(x) # 0 /\ k + 1 \in 1 .. Len(x.tables)
      /\ m + 1 = (IF k = 0 THEN Ext(x) + 1 ELSE 3)
      /\ pt.start_lba + ext_lba_base = x.tables[k + 1]
      /\ ext_lba_base' = x.tables[1]
      /\ Places(prim_parts) = PrimsTo(x)[Ext(x)]
      /\ Places(logic_parts) = LogicsTo(x)[k] /\ Len(logic_parts) < LogicLimit
  <2>1. CASE k = 0
    <3>1. pt = x.prim[m]
      BY <1>4, <2>1, AtFacts
    <3>2. m = Ext(x) /\ Len(x.tables) >= 1 /\ pt.start_lba = x.tables[1]
      BY <1>1, <1>6, <3>1, ExtFacts
    <3>3. ext_lba_base = 0 /\ Places(prim_parts) = PrimsTo(x)[m - 1]
      BY <1>3, <1>5, <2>1, <3>2 DEF ScanAt
    <3>4. PrimsTo(x)[m] = PrimsTo(x)[m - 1]
      <4>1. x.prim[m].fs_type # DATA
        BY <1>1, <3>1 DEF EXTENDED, DATA
      <4> QED
        BY <1>6, <4>1, PrimsFacts
    <3>5. Places(logic_parts) = LogicsTo(x)[0] /\ Len(logic_parts) < LogicLimit
      BY <1>3, <1>5, <2>1, <3>2 DEF ScanAt, Explored
    <3>6. x.tables[1] \in Nat /\ m # 0
      BY <1>5, <1>6, <3>2, LayoutFacts
    <3> QED
      BY <1>1, <1>5, <2>1, <3>2, <3>3, <3>4, <3>5, <3>6
  <2>2. CASE k # 0
    <3>1. m # 1
      <4>1. ASSUME m = 1 PROVE FALSE
        <5>1. pt = x.logic[k]
          BY <1>4, <2>2, <4>1, AtFacts
        <5> QED
          BY <1>1, <1>5, <2>2, <5>1, LayoutFacts, SMTT(40)
      <4> QED
        BY <4>1
    <3>2. m = 2 /\ k < Len(x.tables)
      <4>1. ASSUME ~(m = 2 /\ k < Len(x.tables)) PROVE FALSE
        <5>1. pt = Entry(UNUSED, 0, 0)
          BY <1>4, <2>2, <3>1, <4>1, AtFacts
        <5> QED
          BY <1>1, <5>1 DEF Entry, UNUSED, EXTENDED
      <4> QED
        BY <4>1
    <3>3. pt.start_lba = x.tables[k + 1] - x.tables[1]
      <4>1. pt = Entry(EXTENDED, x.tables[k + 1] - x.tables[1], 0)
        BY <1>4, <2>2, <3>2, AtFacts
      <4> QED
        BY <4>1 DEF Entry
    <3>4. /\ Ext(x) # 0 /\ ext_lba_base = x.tables[1]
          /\ Places(prim_parts) = PrimsTo(x)[Ext(x)]
      BY <1>3, <1>5, <2>2 DEF ScanAt
    <3>5. Places(logic_parts) = LogicsTo(x)[k] /\ Len(logic_parts) < LogicLimit
      BY <1>3, <1>5, <2>2, <3>2 DEF ScanAt, Explored
    <3>6. x.tables[1] \in Nat \ {0} /\ x.tables[k + 1] \in Nat
      <4>1. 1 \in 1 .. Len(x.tables) /\ k + 1 \in 1 .. Len(x.tables)
        BY <1>5, <3>2
      <4> QED
        BY <4>1, LayoutFacts
    <3> QED
      BY <1>1, <1>5, <2>2, <3>2, <3>3, <3>4, <3>5, <3>6
  <2> QED
    BY <2>1, <2>2
<1>8. stack' = StackAt(x, k + 1, 1)
  <2>1. Below(x, k + 1) = StackAt(x, k, m + 1)
    <3>1. k + 1 \in 0 .. Len(x.tables) /\ k + 1 # 0 /\ (k + 1) - 1 = k /\ (k + 1 = 1 <=> k = 0)
      BY <1>5, <1>7
    <3>2. Below(x, k + 1) = StackAt(x, (k + 1) - 1, IF k + 1 = 1 THEN Ext(x) + 1 ELSE 3)
      BY <3>1, StackFacts
    <3> QED
      BY <1>7, <3>1, <3>2
  <2>2. Frame(x.tables[k + 1]) = [lba |-> Lba(x, k + 1), i |-> 1]
    BY <1>5 DEF Frame, Lba
  <2>3. StackAt(x, k + 1, 1) = <<Frame(x.tables[k + 1])>> \o StackAt(x, k, m + 1)
    BY <2>1, <2>2 DEF StackAt
  <2> QED
    BY <1>1, <1>5, <1>7, <2>3
<1>9. ScanAt(x, k + 1, 1)'
  <2>1. k + 1 > 0 /\ k + 1 # 0 /\ (k + 1) - 1 = k /\ ~Explored(x, k + 1, 1)
    BY <1>5 DEF Explored
  <2> QED
    BY <1>1, <1>7, <1>8, <2>1 DEF ScanAt
<1>10. k + 1 \in 0 .. Len(x.tables) /\ 1 \in 1 .. Entries + 1
  BY <1>5, <1>7
<1> QED
  BY <1>1, <1>9, <1>10 DEF ScanInv

LEMMA PrimaryInv ==
  ASSUME NEW x \in Layouts, layout = x, DiskInv(x), ScanInv(x), scan_primary
  PROVE  ScanInv(x)'
<1>1. /\ AtEntry /\ pt.fs_type = DATA /\ Head(stack).lba = 0
      /\ prim_parts' = Append(prim_parts, Found(master_no + 1, TRUE))
      /\ master_no' = master_no + 1 /\ stack' = Advanced
      /\ UNCHANGED <<ext_lba_base, logical_no, logic_parts>>
  BY DEF scan_primary
<1>2. stack # <<>> /\ ~panic
  BY <1>1 DEF AtEntry, Running
<1>3. PICK k \in 0 .. Len(x.tables), m \in 1 .. Entries + 1 : ScanAt(x, k, m)
  BY <1>2 DEF ScanInv, Scanned
<1>4. stack = StackAt(x, k, m)
  BY <1>3 DEF ScanAt
<1>5. /\ Head(stack).i = m /\ Advanced = StackAt(x, k, m + 1) /\ k = 0
      /\ m \in Nat /\ Entries \in Nat /\ Len(x.tables) \in Nat
  BY <1>1, <1>4, AtFacts
<1>6. m \in 1 .. Entries
  BY <1>1, <1>5 DEF AtEntry
<1>7. pt = x.prim[m] /\ pt \in PTEntry /\ m # Ext(x)
  <2>1. pt = x.prim[m]
    BY <1>4, <1>5, AtFacts
  <2>2. x.prim[m] \in PTEntry
    BY <1>6, LayoutFacts
  <2> QED
    BY <1>1, <1>6, <2>1, <2>2, ExtFacts DEF DATA, EXTENDED
<1>8. PICK r : r = Found(master_no + 1, TRUE) /\ prim_parts' = Append(prim_parts, r)
  BY <1>1
<1>9. /\ prim_parts \in Seq(Partitions) /\ master_no = Len(prim_parts)
      /\ master_no \in Nat /\ master_no <= PrimLimit /\ PrimLimit \in Nat
  BY <1>2, LayoutFacts DEF ScanInv
<1>10. r \in Partitions /\ [start |-> r.start, count |-> r.count] = Place(0, x.prim[m])
  <2>1. pt.start_lba \in Nat /\ pt.sec_cnt \in Nat
    BY <1>7 DEF PTEntry
  <2>2. r = [start |-> pt.start_lba, count |-> pt.sec_cnt,
             primary |-> TRUE, name |-> <<"s", "d", "b", master_no + 1>>]
    <3>1. Head(stack).lba + pt.start_lba = pt.start_lba
      BY <1>1, <2>1
    <3> QED
      BY <1>8, <3>1 DEF Found
  <2>3. <<"s", "d", "b", master_no + 1>> \in {<<"s", "d", "b", n>> : n \in Nat}
    BY <1>9
  <2>4. r \in Partitions
    BY <2>1, <2>2, <2>3 DEF Partitions
  <2> QED
    BY <1>7, <2>1, <2>2, <2>4 DEF Place
<1>11. prim_parts' \in Seq(Partitions) /\ Len(prim_parts') = Len(prim_parts) + 1
  <2>1. r \in Partitions
    BY <1>10
  <2>2. /\ Append(prim_parts, r) \in Seq(Partitions)
        /\ Len(Append(prim_parts, r)) = Len(prim_parts) + 1
    BY <1>9, <2>1
  <2> QED
    BY <1>8, <2>2
<1>12. Places(prim_parts') = PrimsTo(x)[m]
  <2>1. Places(prim_parts) = PrimsTo(x)[m - 1]
    BY <1>3, <1>5 DEF ScanAt
  <2>2. Places(prim_parts') = Append(Places(prim_parts), Place(0, x.prim[m]))
    <3>1. Places(Append(prim_parts, r)) =
            Append(Places(prim_parts), [start |-> r.start, count |-> r.count])
      BY <1>9, <1>10, PlacesFacts
    <3> QED
      BY <1>8, <1>10, <3>1
  <2> QED
    BY <1>1, <1>6, <1>7, <2>1, <2>2, PrimsFacts
<1>13. m + 1 \in 1 .. Entries + 1 /\ ScanAt(x, 0, m + 1)'
  BY <1>1, <1>3, <1>5, <1>6, <1>7, <1>12, NextPrimary
<1>14. Len(prim_parts') <= IF panic' THEN PrimLimit + 1 ELSE PrimLimit
  <2>1. panic' <=> master_no >= PrimLimit
    BY Zenon DEF scan_primary
  <2>2. CASE panic'
    BY <1>9, <1>11, <2>2
  <2>3. CASE ~panic'
    <3>1. ~(master_no >= PrimLimit)
      BY <2>1, <2>3
    <3>2. Len(prim_parts') <= PrimLimit
      BY <1>9, <1>11, <3>1
    <3> QED
      BY <2>3, <3>2
  <2> QED
    BY <2>2, <2>3
<1>15. 0 \in 0 .. Len(x.tables)
  BY <1>5
<1> QED
  BY <1>1, <1>9, <1>11, <1>13, <1>14, <1>15 DEF ScanInv

LEMMA LogicalInv ==
  ASSUME NEW x \in Layouts, layout = x, DiskInv(x), ScanInv(x), scan_logical
  PROVE  ScanInv(x)'
<1>1. /\ AtEntry /\ pt.fs_type = DATA /\ Head(stack).lba # 0
      /\ logic_parts' = Append(logic_parts, Found(logical_no + 5, FALSE))
      /\ logical_no' = logical_no + 1
      /\ \/ logical_no + 1 >= LogicLimit /\ stack' = Tail(stack)
         \/ logical_no + 1 < LogicLimit /\ stack' = Advanced
      /\ UNCHANGED <<ext_lba_base, master_no, prim_parts, panic>>
  BY DEF scan_logical
<1>2. stack # <<>> /\ ~panic
  BY <1>1 DEF AtEntry, Running
<1>3. PICK k \in 0 .. Len(x.tables), m \in 1 .. Entries + 1 : ScanAt(x, k, m)
  BY <1>2 DEF ScanInv, Scanned
<1>4. stack = StackAt(x, k, m)
  BY <1>3 DEF ScanAt
<1>5. /\ Head(stack).lba = Lba(x, k) /\ Advanced = StackAt(x, k, m + 1) /\ k # 0
      /\ Tail(stack) = Below(x, k)
      /\ m \in Nat /\ k \in Nat /\ Entries \in Nat /\ Len(x.tables) \in Nat
  BY <1>1, <1>4, AtFacts
<1>6. m = 1
  <2>1. ASSUME m # 1 PROVE FALSE
    <3>1. pt = Entry(UNUSED, 0, 0) \/ \E n : pt = Entry(EXTENDED, n, 0)
      BY <1>4, <1>5, <2>1, AtFacts
    <3> QED
      BY <1>1, <3>1 DEF Entry, UNUSED, EXTENDED, DATA
  <2> QED
    BY <2>1
<1>7. k \in 1 .. Len(x.tables)
  BY <1>5
<1>8. pt = x.logic[k] /\ pt \in PTEntry /\ x.tables[k] \in Nat
  <2>1. pt = x.logic[k]
    BY <1>4, <1>5, <1>6, AtFacts
  <2>2. x.logic[k] \in PTEntry /\ x.tables[k] \in Nat
    BY <1>7, LayoutFacts, SMTT(40)
  <2> QED
    BY <2>1, <2>2
<1>9. PICK r : r = Found(logical_no + 5, FALSE) /\ logic_parts' = Append(logic_parts, r)
  BY <1>1
<1>10. /\ logic_parts \in Seq(Partitions) /\ logical_no = Len(logic_parts)
       /\ logical_no \in Nat /\ logical_no < LogicLimit /\ LogicLimit \in Nat
  BY <1>3, <1>5, <1>6, LayoutFacts DEF ScanInv, ScanAt, Explored
<1>11. /\ r \in Partitions
       /\ [start |-> r.start, count |-> r.count] = Place(x.tables[k], x.logic[k])
  <2>1. pt.start_lba \in Nat /\ pt.sec_cnt \in Nat
    BY <1>8 DEF PTEntry
  <2>2. r = [start |-> x.tables[k] + pt.start_lba, count |-> pt.sec_cnt,
             primary |-> FALSE, name |-> <<"s", "d", "b", logical_no + 5>>]
    BY <1>5, <1>9 DEF Found, Lba
  <2>3. <<"s", "d", "b", logical_no + 5>> \in {<<"s", "d", "b", n>> : n \in Nat}
    BY <1>10
  <2>4. r \in Partitions
    BY <1>8, <2>1, <2>2, <2>3 DEF Partitions
  <2> QED
    BY <1>8, <2>2, <2>4 DEF Place
<1>12. logic_parts' \in Seq(Partitions) /\ Len(logic_parts') = Len(logic_parts) + 1
  <2>1. r \in Partitions
    BY <1>11
  <2>2. /\ Append(logic_parts, r) \in Seq(Partitions)
        /\ Len(Append(logic_parts, r)) = Len(logic_parts) + 1
    BY <1>10, <2>1
  <2> QED
    BY <1>9, <2>2
<1>13. Places(logic_parts') = LogicsTo(x)[k]
  <2>1. Places(logic_parts) = LogicsTo(x)[k - 1]
    BY <1>3, <1>5, <1>6 DEF ScanAt, Explored
  <2>2. Places(logic_parts') = Append(Places(logic_parts), Place(x.tables[k], x.logic[k]))
    <3>1. Places(Append(logic_parts, r)) =
            Append(Places(logic_parts), [start |-> r.start, count |-> r.count])
      BY <1>10, <1>11, PlacesFacts
    <3> QED
      BY <1>9, <1>11, <3>1
  <2> QED
    BY <1>1, <1>7, <1>8, <2>1, <2>2, LogicsFacts
<1>14. /\ Ext(x) # 0 /\ ext_lba_base' = x.tables[1]
       /\ Places(prim_parts') = PrimsTo(x)[Ext(x)]
  BY <1>1, <1>3, <1>5 DEF ScanAt
<1>15. \E n \in 0 .. Len(x.tables), e \in 1 .. Entries + 1 : ScanAt(x, n, e)'
  <2>1. CASE logical_no + 1 >= LogicLimit
    <3>1. stack' = Below(x, k) /\ Len(logic_parts') = LogicLimit
      <4>1. stack' = Below(x, k)
        <5>1. ~(logical_no + 1 < LogicLimit)
          BY <1>10, <2>1
        <5> QED
          BY <1>1, <1>5, <5>1
      <4> QED
        BY <1>10, <1>12, <2>1, <4>1
    <3>2. Len(LogicsTo(x)[k]) = LogicLimit
      BY <1>12, <1>13, <3>1, PlacesFacts
    <3>3. Places(logic_parts') = LogicalsOf(x)
      BY <1>7, <1>13, <1>14, <3>2, LogicsFacts
    <3> QED
      BY <1>7, <1>14, <3>1, <3>3, ReturnAt
  <2>2. CASE ~(logical_no + 1 >= LogicLimit)
    <3>1. stack' = StackAt(x, k, 2) /\ Len(logic_parts') < LogicLimit
      BY <1>1, <1>5, <1>6, <1>10, <1>12, <2>2
    <3>2. k > 0 /\ ~Explored(x, k, 2)
      BY <1>5 DEF Explored
    <3>3. ScanAt(x, k, 2)'
      BY <1>5, <1>13, <1>14, <3>1, <3>2 DEF ScanAt
    <3>4. 2 \in 1 .. Entries + 1
      BY LayoutFacts
    <3> QED
      BY <3>3, <3>4
  <2> QED
    BY <2>1, <2>2
<1>16. Len(logic_parts') <= LogicLimit
  BY <1>10, <1>12
<1> QED
  BY <1>1, <1>10, <1>12, <1>15, <1>16 DEF ScanInv

LEMMA ReturnInv ==
  ASSUME NEW x \in Layouts, layout = x, DiskInv(x), ScanInv(x), scan_return
  PROVE  ScanInv(x)'
<1>1. /\ Running /\ Head(stack).i > Entries /\ stack' = Tail(stack)
      /\ UNCHANGED <<ext_lba_base, master_no, logical_no, prim_parts,
                     logic_parts, leaked, panic>>
  BY DEF scan_return
<1>2. stack # <<>> /\ ~panic
  BY <1>1 DEF Running
<1>3. PICK k \in 0 .. Len(x.tables), m \in 1 .. Entries + 1 : ScanAt(x, k, m)
  BY <1>2 DEF ScanInv, Scanned
<1>4. stack = StackAt(x, k, m)
  BY <1>3 DEF ScanAt
<1>5. /\ Head(stack).i = m /\ Tail(stack) = Below(x, k)
      /\ m \in Nat /\ k \in Nat /\ Entries \in Nat /\ Len(x.tables) \in Nat
  BY <1>4, AtFacts
<1>6. m = Entries + 1 /\ m - 1 = Entries /\ m >= 3 /\ Ext(x) \in 0 .. Entries
  <2>1. Entries > 1 /\ Ext(x) \in 0 .. Entries
    BY LayoutFacts, ExtFacts
  <2>2. m > Entries /\ m <= Entries + 1
    BY <1>1, <1>5
  <2> QED
    BY <1>5, <2>1, <2>2
<1>7. Explored(x, k, m)
  BY <1>5, <1>6 DEF Explored
<1>8. Places(logic_parts) = LogicalsOf(x)
  BY <1>3, <1>7 DEF ScanAt
<1>9. CASE k = 0
  <2>1. stack' = <<>>
    BY <1>1, <1>5, <1>9, StackFacts
  <2>2. Places(prim_parts) = PrimariesOf(x)
    BY <1>3, <1>6, <1>9, PrimsFacts DEF ScanAt
  <2>3. Scanned(x)'
    BY <1>1, <1>2, <1>8, <2>1, <2>2 DEF Scanned
  <2> QED
    BY <1>1, <2>3 DEF ScanInv
<1>10. CASE k # 0
  <2>1. k \in 1 .. Len(x.tables)
    BY <1>5, <1>10
  <2>2. /\ Ext(x) # 0 /\ ext_lba_base' = x.tables[1]
        /\ Places(prim_parts') = PrimsTo(x)[Ext(x)]
        /\ Places(logic_parts') = LogicalsOf(x) /\ stack' = Below(x, k)
    BY <1>1, <1>3, <1>5, <1>8, <1>10 DEF ScanAt
  <2>3. \E n \in 0 .. Len(x.tables), e \in 1 .. Entries + 1 : ScanAt(x, n, e)'
    BY <2>1, <2>2, ReturnAt
  <2> QED
    BY <1>1, <2>3 DEF ScanInv
<1> QED
  BY <1>9, <1>10

-----------------------------------------------------------------------------
(* The partitions on the disk.                                             *)

\* Rounding up is monotone, and a part of a sector is a sector.
LEMMA RoundUp ==
  ASSUME NEW n \in Nat, NEW m \in Nat, NEW d \in Nat \ {0}, n >= 1, n <= m
  PROVE  /\ DIV_ROUND_UP(n, d) \in Nat /\ DIV_ROUND_UP(n, d) >= 1
         /\ DIV_ROUND_UP(n, d) <= DIV_ROUND_UP(m, d)
<1>1. PICK a \in Nat, c \in Nat : a = n + d - 1 /\ c = m + d - 1
  OBVIOUS
<1>2. PICK q \in Nat, r \in Nat : q = a \div d /\ r = c \div d
  BY Division
<1>3. q * d <= a /\ a < q * d + d /\ c < r * d + d
  BY <1>2, Division
<1>4. q # 0
  <2>1. ASSUME q = 0 PROVE FALSE
    <3>1. q * d = 0
      BY <2>1
    <3> QED
      BY <1>1, <1>3, <3>1
  <2> QED
    BY <2>1
<1>5. q <= r
  <2>1. ASSUME q > r PROVE FALSE
    <3>1. PICK k \in Nat : q = r + 1 + k
      <4>1. q - r - 1 \in Nat /\ q = r + 1 + (q - r - 1)
        BY <2>1
      <4> QED
        BY <4>1
    <3>2. q * d = r * d + d + k * d /\ k * d \in Nat /\ r * d \in Nat
      BY <3>1
    <3> QED
      BY <1>1, <1>3, <3>2
  <2> QED
    BY <2>1
<1> QED
  BY <1>1, <1>2, <1>4, <1>5 DEF DIV_ROUND_UP

\* The partitions of a layout.
LEMMA DescribedFacts ==
  ASSUME NEW x \in Layouts
  PROVE  /\ Described(x) \in Seq(Spots) /\ Len(Described(x)) \in Nat
         /\ Len(Described(x)) = Len(PrimariesOf(x)) + Len(LogicalsOf(x))
         /\ \A p : p \in Formattable(x) <=>
                     /\ p \in 1 .. Len(Described(x))
                     /\ Described(x)[p].count # 0
         /\ IsFiniteSet(Formattable(x))
<1>1. PrimariesOf(x) \in Seq(Spots) /\ LogicalsOf(x) \in Seq(Spots)
  <2>1. PrimsTo(x)[Entries] \in Seq(Spots)
    BY PrimsFacts, LayoutFacts
  <2> QED
    BY <2>1, PrimsFacts, LogicsFacts
<1>2. /\ Described(x) \in Seq(Spots) /\ Len(Described(x)) \in Nat
      /\ Len(Described(x)) = Len(PrimariesOf(x)) + Len(LogicalsOf(x))
  BY <1>1 DEF Described
<1>3. \A p : p \in Formattable(x) <=>
               p \in 1 .. Len(Described(x)) /\ Described(x)[p].count # 0
  BY <1>2 DEF Formattable
<1>4. IsFiniteSet(Formattable(x))
  <2>1. IsFiniteSet(1 .. Len(Described(x)))
    BY <1>2, FS_Interval
  <2>2. Formattable(x) \subseteq 1 .. Len(Described(x))
    BY <1>3
  <2> QED
    BY <2>1, <2>2, FS_Subset
<1> QED
  BY <1>2, <1>3, <1>4

\* Where the areas of a file system are.
LEMMA Geometry ==
  ASSUME NEW x \in Layouts, NEW p \in Formattable(x),
         NEW s, s = Start(x, p), NEW b, b = Block(x, p)
  PROVE  /\ p \in 1 .. Len(Described(x)) /\ s \in Nat /\ MaxSectors \in Nat \ {0}
         /\ b.fb_bmap_addr = s + 2 /\ b.fb_bmap_size \in 1 .. MaxSectors
         /\ b.in_bmap_addr = b.fb_bmap_addr + b.fb_bmap_size
         /\ b.in_array_size \in 1 .. MaxSectors
         /\ b.in_bmap_size \in 1 .. b.in_array_size
         /\ b.in_array_addr = b.in_bmap_addr + b.in_bmap_size
         /\ b.data_start \in Nat
         /\ b.data_start >= b.in_array_addr + b.in_array_size
         /\ \A n \in Nat : s <= n /\ n <= b.data_start + MaxSectors - 1 => n \in Here(x, p)
         /\ Here(x, p) \subseteq Sectors \ ({0} \cup ToSet(x.tables))
<1> DEFINE d == Described(x)[p]
<1>1. p \in 1 .. Len(Described(x)) /\ d \in Spots
  BY DescribedFacts
<1>2. s \in Nat /\ d.start = s /\ d.count \in Nat
  BY <1>1 DEF Start, Spots
<1>3. {BITS_PER_SECTOR, MAX_FILES_PER_PART, INODE_SIZE, MaxSectors} \subseteq Nat \ {0}
  BY FormatAssumption
<1>4. /\ BITS_PER_SECTOR \in Nat \ {0} /\ MAX_FILES_PER_PART \in Nat \ {0}
      /\ INODE_SIZE \in Nat \ {0} /\ MaxSectors \in Nat \ {0}
  BY <1>3
<1>5. inode_array_secs \in 1 .. MaxSectors
  BY FormatAssumption
<1>6. /\ Here(x, p) \subseteq Sectors \ ({0} \cup ToSet(x.tables))
      /\ b.fb_bmap_size \in 1 .. MaxSectors
      /\ b.data_start >= b.in_array_addr + b.in_array_size
      /\ b.data_start + MaxSectors - 1 \in Here(x, p)
  BY FormatAssumption DEF Here, Start, Block
<1>7. inode_bmap_secs \in 1 .. inode_array_secs
  <2>1. PICK n \in Nat : n = INODE_SIZE * MAX_FILES_PER_PART /\ MAX_FILES_PER_PART <= n
    <3>1. PICK k \in Nat : INODE_SIZE = k + 1
      <4>1. INODE_SIZE - 1 \in Nat /\ INODE_SIZE = (INODE_SIZE - 1) + 1
        BY <1>4
      <4> QED
        BY <4>1
    <3>2. /\ INODE_SIZE * MAX_FILES_PER_PART = k * MAX_FILES_PER_PART + MAX_FILES_PER_PART
          /\ k * MAX_FILES_PER_PART \in Nat
      BY <1>4, <3>1
    <3> QED
      BY <1>4, <3>2
  <2>2. /\ DIV_ROUND_UP(MAX_FILES_PER_PART, BITS_PER_SECTOR) \in Nat
        /\ DIV_ROUND_UP(MAX_FILES_PER_PART, BITS_PER_SECTOR) >= 1
        /\ DIV_ROUND_UP(MAX_FILES_PER_PART, BITS_PER_SECTOR)
             <= DIV_ROUND_UP(n, BITS_PER_SECTOR)
    BY <1>4, <2>1, RoundUp
  <2> QED
    BY <1>5, <2>1, <2>2 DEF inode_bmap_secs, inode_array_secs
<1>8. /\ b.fb_bmap_addr = s + 2
      /\ b.in_bmap_addr = b.fb_bmap_addr + b.fb_bmap_size
      /\ b.in_bmap_size = inode_bmap_secs /\ b.in_array_size = inode_array_secs
      /\ b.in_array_addr = b.in_bmap_addr + b.in_bmap_size
      /\ b.data_start = b.in_array_addr + b.in_array_addr
  BY <1>2 DEF Block, init_super_block
<1>9. b.data_start \in Nat
  <2>1. inode_bmap_secs \in Nat /\ b.fb_bmap_size \in Nat
    BY <1>4, <1>5, <1>6, <1>7
  <2> QED
    BY <1>2, <1>8, <2>1
<1>10. ASSUME NEW n \in Nat, s <= n, n <= b.data_start + MaxSectors - 1
       PROVE  n \in Here(x, p)
  <2>1. Here(x, p) = s .. s + d.count - 1
    BY DEF Here, Start
  <2>2. b.data_start + MaxSectors - 1 <= s + d.count - 1
    BY <1>2, <1>4, <1>6, <1>9, <2>1
  <2> HIDE DEF d
  <2> QED
    BY <1>2, <1>4, <1>9, <1>10, <2>1, <2>2
<1> QED
  BY <1>1, <1>2, <1>4, <1>5, <1>6, <1>7, <1>8, <1>9, <1>10

\* Two partitions have no sector in common.
LEMMA Apart ==
  ASSUME NEW x \in Layouts, NEW p \in Formattable(x), NEW q \in Formattable(x),
         p # q, NEW n \in Here(x, p)
  PROVE  n \notin Here(x, q)
<1>1. \A r \in Formattable(x) : /\ Described(x)[r].start \in Nat
                                /\ Described(x)[r].count \in Nat
  <2>1. \A r \in Formattable(x) : Described(x)[r] \in Spots
    BY DescribedFacts
  <2> QED
    BY <2>1 DEF Spots
<1>2. Start(x, q) \notin Here(x, p) /\ Start(x, p) \notin Here(x, q)
  BY FormatAssumption DEF Here, Start
<1> QED
  BY <1>1, <1>2 DEF Here, Start

-----------------------------------------------------------------------------
(* The file systems.                                                       *)

\* What a boot needs to find is what build_fs writes.
LEMMA WholeFacts ==
  ASSUME NEW x \in Layouts, NEW p \in Formattable(x), NEW d
  PROVE  (\A w \in FileSystem(x, p) : d[w[1]] = w[2]) <=> Whole(x, d, p)
<1> DEFINE b == Block(x, p)
           s == Start(x, p)
           Span(area, lba, cnt) ==
             {<<lba + k, Tag(area, p, k)>> : k \in 0 .. cnt - 1}
           On(S) == \A w \in S : d[w[1]] = w[2]
<1>1. FileSystem(x, p) =
        Span("super_block", s + 1, 1)
          \cup Span("block_bitmap", b.fb_bmap_addr, b.fb_bmap_size)
          \cup Span("inode_bitmap", b.in_bmap_addr, b.in_bmap_size)
          \cup Span("inode_array", b.in_array_addr, b.in_array_size)
          \cup Span("root_dir", b.data_start, 1)
  BY DEF FileSystem, Block, Start
<1>2. ASSUME NEW area, NEW lba, NEW cnt
      PROVE  On(Span(area, lba, cnt)) <=> Holds(d, area, p, lba, cnt)
  <2> DEFINE r(k) == <<lba + k, Tag(area, p, k)>>
  <2>1. \A k : r(k)[1] = lba + k /\ r(k)[2] = Tag(area, p, k)
    OBVIOUS
  <2>2. \A w \in Span(area, lba, cnt) : \E k \in 0 .. cnt - 1 : w = r(k)
    OBVIOUS
  <2>3. \A k \in 0 .. cnt - 1 : r(k) \in Span(area, lba, cnt)
    OBVIOUS
  <2> HIDE DEF r, Span
  <2> QED
    BY <2>1, <2>2, <2>3 DEF Holds
<1>3. ASSUME NEW area, NEW lba \in Nat
      PROVE  Holds(d, area, p, lba, 1) <=> d[lba] = Tag(area, p, 0)
  <2>1. 0 .. 1 - 1 = {0} /\ lba + 0 = lba
    OBVIOUS
  <2> QED
    BY <2>1 DEF Holds
<1>4. s + 1 \in Nat /\ b.data_start \in Nat
  BY Geometry
<1>5. Whole(x, d, p) <=>
        /\ Holds(d, "super_block", p, s + 1, 1)
        /\ Holds(d, "block_bitmap", p, b.fb_bmap_addr, b.fb_bmap_size)
        /\ Holds(d, "inode_bitmap", p, b.in_bmap_addr, b.in_bmap_size)
        /\ Holds(d, "inode_array", p, b.in_array_addr, b.in_array_size)
        /\ Holds(d, "root_dir", p, b.data_start, 1)
  <2> HIDE DEF Span
  <2> QED
    BY <1>3, <1>4 DEF Whole
<1> HIDE DEF Span
<1>6. On(FileSystem(x, p)) <=>
        /\ On(Span("super_block", s + 1, 1))
        /\ On(Span("block_bitmap", b.fb_bmap_addr, b.fb_bmap_size))
        /\ On(Span("inode_bitmap", b.in_bmap_addr, b.in_bmap_size))
        /\ On(Span("inode_array", b.in_array_addr, b.in_array_size))
        /\ On(Span("root_dir", b.data_start, 1))
  BY <1>1
<1> HIDE DEF On
<1>7. On(FileSystem(x, p)) <=> Whole(x, d, p)
  BY <1>2, <1>5, <1>6
<1> QED
  BY <1>7 DEF On

\* A file system is in its partition, and no two of its sectors are the same.
LEMMA FileSystemFacts ==
  ASSUME NEW x \in Layouts, NEW p \in Formattable(x)
  PROVE  /\ \A w \in FileSystem(x, p) : w[1] \in Here(x, p)
         /\ \A v, w \in FileSystem(x, p) : v[1] = w[1] => v[2] = w[2]
<1> DEFINE B == MaxSectors
<1>1. PICK s, b : s = Start(x, p) /\ b = Block(x, p)
  OBVIOUS
<1>2. /\ s \in Nat /\ B \in Nat \ {0}
      /\ b.fb_bmap_addr = s + 2 /\ b.fb_bmap_size \in 1 .. B
      /\ b.in_bmap_addr = b.fb_bmap_addr + b.fb_bmap_size
      /\ b.in_array_size \in 1 .. B /\ b.in_bmap_size \in 1 .. b.in_array_size
      /\ b.in_array_addr = b.in_bmap_addr + b.in_bmap_size
      /\ b.data_start \in Nat
      /\ b.data_start >= b.in_array_addr + b.in_array_size
      /\ \A n \in Nat : s <= n /\ n <= b.data_start + B - 1 => n \in Here(x, p)
  BY <1>1, Geometry, ZenonT(40)
<1> DEFINE
     In(w) ==
       \/ w[1] = s + 1 /\ w[2] = Tag("super_block", p, 0)
       \/ /\ w[1] \in b.fb_bmap_addr .. b.in_bmap_addr - 1
          /\ w[2] = Tag("block_bitmap", p, w[1] - b.fb_bmap_addr)
       \/ /\ w[1] \in b.in_bmap_addr .. b.in_array_addr - 1
          /\ w[2] = Tag("inode_bitmap", p, w[1] - b.in_bmap_addr)
       \/ /\ w[1] \in b.in_array_addr .. b.in_array_addr + b.in_array_size - 1
          /\ w[2] = Tag("inode_array", p, w[1] - b.in_array_addr)
       \/ w[1] = b.data_start /\ w[2] = Tag("root_dir", p, 0)
     Span(area, lba, cnt) == {<<lba + k, Tag(area, p, k)>> : k \in 0 .. cnt - 1}
<1>3. FileSystem(x, p) =
        Span("super_block", s + 1, 1)
          \cup Span("block_bitmap", b.fb_bmap_addr, b.fb_bmap_size)
          \cup Span("inode_bitmap", b.in_bmap_addr, b.in_bmap_size)
          \cup Span("inode_array", b.in_array_addr, b.in_array_size)
          \cup Span("root_dir", b.data_start, 1)
  BY <1>1 DEF FileSystem, Block, Start
<1>4. ASSUME NEW area, NEW lba \in Nat, NEW cnt \in Nat, NEW w \in Span(area, lba, cnt)
      PROVE  w[1] \in lba .. lba + cnt - 1 /\ w[2] = Tag(area, p, w[1] - lba)
  <2>1. PICK k \in 0 .. cnt - 1 : w = <<lba + k, Tag(area, p, k)>>
    OBVIOUS
  <2>2. w[1] = lba + k /\ w[2] = Tag(area, p, k)
    BY <2>1
  <2>3. k \in Nat /\ w[1] - lba = k
    BY <2>2
  <2> QED
    BY <2>2, <2>3
<1> HIDE DEF Span
<1>5. ASSUME NEW w \in FileSystem(x, p) PROVE In(w)
  <2>1. /\ s + 1 \in Nat /\ b.fb_bmap_addr \in Nat /\ b.in_bmap_addr \in Nat
        /\ b.in_array_addr \in Nat /\ b.data_start \in Nat
        /\ b.fb_bmap_size \in Nat /\ b.in_bmap_size \in Nat /\ b.in_array_size \in Nat
    BY <1>2
  <2>2. CASE w \in Span("super_block", s + 1, 1)
    <3>1. w[1] \in (s + 1) .. (s + 1) + 1 - 1 /\ w[2] = Tag("super_block", p, w[1] - (s + 1))
      BY <1>4, <2>1, <2>2
    <3>2. w[1] = s + 1 /\ w[1] - (s + 1) = 0
      BY <2>1, <3>1
    <3> QED
      BY <3>1, <3>2
  <2>3. CASE w \in Span("block_bitmap", b.fb_bmap_addr, b.fb_bmap_size)
    <3>1. /\ w[1] \in b.fb_bmap_addr .. b.fb_bmap_addr + b.fb_bmap_size - 1
          /\ w[2] = Tag("block_bitmap", p, w[1] - b.fb_bmap_addr)
      BY <1>4, <2>1, <2>3
    <3> QED
      BY <1>2, <3>1
  <2>4. CASE w \in Span("inode_bitmap", b.in_bmap_addr, b.in_bmap_size)
    <3>1. /\ w[1] \in b.in_bmap_addr .. b.in_bmap_addr + b.in_bmap_size - 1
          /\ w[2] = Tag("inode_bitmap", p, w[1] - b.in_bmap_addr)
      BY <1>4, <2>1, <2>4
    <3> QED
      BY <1>2, <3>1
  <2>5. CASE w \in Span("inode_array", b.in_array_addr, b.in_array_size)
    BY <1>4, <2>1, <2>5
  <2>6. CASE w \in Span("root_dir", b.data_start, 1)
    <3>1. /\ w[1] \in b.data_start .. b.data_start + 1 - 1
          /\ w[2] = Tag("root_dir", p, w[1] - b.data_start)
      BY <1>4, <2>1, <2>6
    <3>2. w[1] = b.data_start /\ w[1] - b.data_start = 0
      BY <2>1, <3>1
    <3> QED
      BY <3>1, <3>2
  <2> QED
    BY <1>3, <2>2, <2>3, <2>4, <2>5, <2>6
<1>6. ASSUME NEW w \in FileSystem(x, p) PROVE w[1] \in Here(x, p)
  <2>1. In(w)
    BY <1>5
  <2>2. w[1] \in Nat /\ s <= w[1] /\ w[1] <= b.data_start + B - 1
    BY <1>2, <2>1
  <2> QED
    BY <1>2, <2>2
<1>7. ASSUME NEW v \in FileSystem(x, p), NEW w \in FileSystem(x, p), v[1] = w[1]
      PROVE  v[2] = w[2]
  <2>1. In(v) /\ In(w)
    BY <1>5
  <2>2. PICK n \in Nat : v[1] = n /\ w[1] = n
    <3>1. v[1] \in Nat
      BY <1>2, <2>1
    <3> QED
      BY <1>7, <3>1
  <2>3. /\ b.fb_bmap_addr \in Nat /\ b.in_bmap_addr \in Nat /\ b.in_array_addr \in Nat
        /\ s + 1 < b.fb_bmap_addr /\ b.fb_bmap_addr < b.in_bmap_addr
        /\ b.in_bmap_addr < b.in_array_addr /\ b.in_array_size \in Nat
        /\ b.in_array_addr + b.in_array_size <= b.data_start
    BY <1>2
  <2>4. CASE n < b.fb_bmap_addr
    BY <1>2, <2>1, <2>2, <2>3, <2>4
  <2>5. CASE n >= b.fb_bmap_addr /\ n < b.in_bmap_addr
    BY <1>2, <2>1, <2>2, <2>3, <2>5
  <2>6. CASE n >= b.in_bmap_addr /\ n < b.in_array_addr
    BY <1>2, <2>1, <2>2, <2>3, <2>6
  <2>7. CASE n >= b.in_array_addr /\ n < b.in_array_addr + b.in_array_size
    BY <1>2, <2>1, <2>2, <2>3, <2>7
  <2>8. CASE n >= b.in_array_addr + b.in_array_size
    BY <1>2, <2>1, <2>2, <2>3, <2>8
  <2> QED
    BY <2>2, <2>3, <2>4, <2>5, <2>6, <2>7, <2>8
<1> QED
  BY <1>6, <1>7

\* The scan has found the partitions of the tables.
LEMMA ScanOver ==
  ASSUME NEW x \in Layouts, ScanInv(x), stack = <<>>
  PROVE  Places(prim_parts) = PrimariesOf(x) /\ Places(logic_parts) = LogicalsOf(x)
<1>1. ASSUME NEW k \in 0 .. Len(x.tables), NEW m \in 1 .. Entries + 1, ScanAt(x, k, m)
      PROVE  FALSE
  <2>1. m \in Nat
    BY LayoutFacts
  <2>2. StackAt(x, k, m) # <<>>
    BY <2>1, StackFacts
  <2> QED
    BY <1>1, <2>2 DEF ScanAt
<1> QED
  BY <1>1 DEF ScanInv, Scanned

\* The scan is over: parts are the partitions that the tables describe.
LEMMA PartsFound ==
  ASSUME NEW x \in Layouts, ScanInv(x), stack = <<>>
  PROVE  /\ DOMAIN parts = 1 .. Len(Described(x)) /\ Len(parts) = Len(Described(x))
         /\ \A p \in 1 .. Len(Described(x)) :
              /\ parts[p].start = Start(x, p)
              /\ parts[p].count = Described(x)[p].count
              /\ SB(p) = Block(x, p)
<1>1. Places(prim_parts) = PrimariesOf(x) /\ Places(logic_parts) = LogicalsOf(x)
  BY ScanOver
<1>2. prim_parts \in Seq(Partitions) /\ logic_parts \in Seq(Partitions)
  BY DEF ScanInv
<1>3. /\ Places(prim_parts) \in Seq(Spots) /\ Len(Places(prim_parts)) = Len(prim_parts)
      /\ Places(logic_parts) \in Seq(Spots) /\ Len(Places(logic_parts)) = Len(logic_parts)
  BY <1>2, PlacesFacts
<1>4. /\ parts \in Seq(Partitions) /\ Len(parts) = Len(prim_parts) + Len(logic_parts)
      /\ Len(prim_parts) \in Nat /\ Len(logic_parts) \in Nat
      /\ \A p \in 1 .. Len(parts) :
           parts[p] = IF p <= Len(prim_parts) THEN prim_parts[p]
                      ELSE logic_parts[p - Len(prim_parts)]
  BY <1>2 DEF parts
<1>5. /\ Len(Described(x)) = Len(parts)
      /\ \A p \in 1 .. Len(parts) :
           Described(x)[p] = IF p <= Len(prim_parts) THEN Places(prim_parts)[p]
                             ELSE Places(logic_parts)[p - Len(prim_parts)]
  <2>1. PICK a \in Seq(Spots), c \in Seq(Spots) :
          a = Places(prim_parts) /\ c = Places(logic_parts)
    BY <1>3
  <2>2. Len(a) = Len(prim_parts) /\ Len(c) = Len(logic_parts) /\ Described(x) = a \o c
    BY <1>1, <1>3, <2>1 DEF Described
  <2>3. /\ Len(a \o c) = Len(a) + Len(c)
        /\ \A p \in 1 .. Len(a) + Len(c) :
             (a \o c)[p] = IF p <= Len(a) THEN a[p] ELSE c[p - Len(a)]
    OBVIOUS
  <2> QED
    BY <1>4, <2>1, <2>2, <2>3
<1>6. ASSUME NEW p \in 1 .. Len(parts)
      PROVE  /\ parts[p].start = Described(x)[p].start
             /\ parts[p].count = Described(x)[p].count
  <2>1. CASE p <= Len(prim_parts)
    <3>1. p \in 1 .. Len(prim_parts)
      BY <1>4, <2>1
    <3> QED
      BY <1>2, <1>4, <1>5, <2>1, <3>1, PlacesFacts
  <2>2. CASE ~(p <= Len(prim_parts))
    <3>1. p - Len(prim_parts) \in 1 .. Len(logic_parts)
      BY <1>4, <2>2
    <3>2. \A k \in 1 .. Len(logic_parts) :
            /\ Places(logic_parts)[k].start = logic_parts[k].start
            /\ Places(logic_parts)[k].count = logic_parts[k].count
      BY <1>2, PlacesFacts
    <3> QED
      BY <1>4, <1>5, <2>2, <3>1, <3>2
  <2> QED
    BY <2>1, <2>2
<1>7. ASSUME NEW p \in 1 .. Len(parts) PROVE SB(p) = Block(x, p)
  <2>1. /\ parts[p].start = Described(x)[p].start
        /\ parts[p].count = Described(x)[p].count
    BY <1>6
  <2> QED
    BY <2>1 DEF SB, Block, init_super_block
<1> QED
  BY <1>4, <1>5, <1>6, <1>7 DEF Start

-----------------------------------------------------------------------------
(* The writes of build_fs.                                                 *)

\* A write in partition p, with what it spills, changes p only.
LEMMA WriteFacts ==
  ASSUME NEW x \in Layouts, NEW p \in Formattable(x), DiskInv(x),
         NEW lba \in Nat, NEW cnt, NEW area,
         Start(x, p) <= lba, lba <= Block(x, p).data_start,
         disk' = ide_write(disk, lba, area, p, cnt)
  PROVE  /\ disk' = [s \in Sectors |-> disk'[s]]
         /\ \A s \in {0} \cup ToSet(x.tables) : disk'[s] = disk[s]
         /\ \A q \in Formattable(x) \ {p} : \A n \in Here(x, q) : disk'[n] = disk[n]
         /\ \A n \in Here(x, p) :
              disk'[n] = IF lba <= n /\ n <= lba + MaxSectors - 1
                         THEN IF n < lba + cnt THEN Tag(area, p, n - lba) ELSE Junk
                         ELSE disk[n]
<1> DEFINE W == lba .. lba + MaxSectors - 1
           b == Block(x, p)
<1>1. /\ MaxSectors \in Nat \ {0} /\ b.data_start \in Nat /\ Start(x, p) \in Nat
      /\ \A n \in Nat : Start(x, p) <= n /\ n <= b.data_start + MaxSectors - 1
                         => n \in Here(x, p)
      /\ Here(x, p) \subseteq Sectors \ ({0} \cup ToSet(x.tables))
  <2>1. \A n \in Nat : Start(x, p) <= n /\ n <= b.data_start + MaxSectors - 1
                         => n \in Here(x, p)
    BY Geometry
  <2>2. MaxSectors \in Nat \ {0} /\ b.data_start \in Nat /\ Start(x, p) \in Nat
    BY Geometry
  <2>3. Here(x, p) \subseteq Sectors \ ({0} \cup ToSet(x.tables))
    BY Geometry
  <2> QED
    BY <2>1, <2>2, <2>3
<1>2. W \subseteq Here(x, p)
  <2>1. ASSUME NEW n \in W PROVE n \in Here(x, p)
    <3>1. n \in Nat /\ Start(x, p) <= n /\ n <= b.data_start + MaxSectors - 1
      BY <1>1
    <3> QED
      BY <1>1, <3>1
  <2> QED
    BY <2>1
<1>3. disk' = [s \in Sectors |->
                 IF s \in W THEN IF s < lba + cnt THEN Tag(area, p, s - lba) ELSE Junk
                 ELSE disk[s]]
  BY DEF ide_write
<1>4. disk' = [s \in Sectors |-> disk'[s]]
  BY <1>3
<1>5. ASSUME NEW s \in {0} \cup ToSet(x.tables) PROVE disk'[s] = disk[s]
  <2>1. s \in Sectors
    <3>1. DiskSize \in Nat \ {0} /\ x.tables \in Seq(1 .. DiskSize - 1)
      BY LayoutFacts
    <3>2. CASE s = 0
      BY <3>1, <3>2 DEF Sectors
    <3>3. CASE s \in ToSet(x.tables)
      <4>1. PICK k \in 1 .. Len(x.tables) : x.tables[k] = s
        BY <3>1, <3>3, ToSetIff
      <4> QED
        BY <3>1, <4>1 DEF Sectors
    <3> QED
      BY <3>2, <3>3
  <2>2. s \notin W
    BY <1>1, <1>2
  <2> HIDE DEF W
  <2> QED
    BY <1>3, <2>1, <2>2
<1>6. ASSUME NEW q \in Formattable(x) \ {p}, NEW n \in Here(x, q) PROVE disk'[n] = disk[n]
  <2>1. n \in Sectors
    BY Geometry
  <2>2. n \notin W
    BY <1>2, Apart
  <2> HIDE DEF W
  <2> QED
    BY <1>3, <2>1, <2>2
<1>7. ASSUME NEW n \in Here(x, p)
      PROVE  disk'[n] = IF lba <= n /\ n <= lba + MaxSectors - 1
                        THEN IF n < lba + cnt THEN Tag(area, p, n - lba) ELSE Junk
                        ELSE disk[n]
  <2>1. n \in Sectors /\ n \in Nat
    BY <1>1 DEF Sectors
  <2>2. n \in W <=> lba <= n /\ n <= lba + MaxSectors - 1
    BY <1>1, <2>1
  <2> HIDE DEF W
  <2> QED
    BY <1>3, <2>1, <2>2
<1> QED
  BY <1>4, <1>5, <1>6, <1>7

\* The sectors that are part of a file system are in its partition.
LEMMA InPlace ==
  ASSUME NEW x \in Layouts, NEW p \in Formattable(x), NEW b, b = Block(x, p)
  PROVE  /\ Start(x, p) + 1 \in Here(x, p) /\ b.data_start \in Here(x, p)
         /\ b.in_array_addr \in Here(x, p)
         /\ \A k \in 0 .. b.fb_bmap_size - 1 : b.fb_bmap_addr + k \in Here(x, p)
         /\ \A k \in 0 .. b.in_bmap_size - 1 : b.in_bmap_addr + k \in Here(x, p)
         /\ \A k \in 0 .. b.in_array_size - 1 : b.in_array_addr + k \in Here(x, p)
<1>1. PICK s : s = Start(x, p)
  OBVIOUS
<1>2. /\ s \in Nat /\ MaxSectors \in Nat \ {0}
      /\ b.fb_bmap_addr = s + 2 /\ b.fb_bmap_size \in 1 .. MaxSectors
      /\ b.in_bmap_addr = b.fb_bmap_addr + b.fb_bmap_size
      /\ b.in_array_size \in 1 .. MaxSectors /\ b.in_bmap_size \in 1 .. b.in_array_size
      /\ b.in_array_addr = b.in_bmap_addr + b.in_bmap_size
      /\ b.data_start \in Nat
      /\ b.data_start >= b.in_array_addr + b.in_array_size
  BY <1>1, Geometry, SMTT(40)
<1>3. \A n \in Nat : s <= n /\ n <= b.data_start + MaxSectors - 1 => n \in Here(x, p)
  BY <1>1, Geometry
<1>4. \A n \in Nat : s <= n /\ n <= b.data_start => n \in Here(x, p)
  BY <1>2, <1>3
<1>5. /\ b.fb_bmap_size \in Nat /\ b.in_bmap_size \in Nat /\ b.in_array_size \in Nat
      /\ b.fb_bmap_addr \in Nat /\ b.in_bmap_addr \in Nat /\ b.in_array_addr \in Nat
      /\ s <= b.fb_bmap_addr /\ s <= b.in_bmap_addr /\ s <= b.in_array_addr
      /\ s + 1 <= b.data_start
      /\ b.fb_bmap_addr + b.fb_bmap_size <= b.data_start
      /\ b.in_bmap_addr + b.in_bmap_size <= b.data_start
      /\ b.in_array_addr + b.in_array_size <= b.data_start
  BY <1>2
<1>6. ASSUME NEW a \in Nat, NEW n \in Nat, s <= a, a + n <= b.data_start
      PROVE  \A k \in 0 .. n - 1 : a + k \in Here(x, p)
  <2>1. ASSUME NEW k \in 0 .. n - 1
        PROVE  a + k \in Nat /\ s <= a + k /\ a + k <= b.data_start
    BY <1>2, <1>6
  <2> QED
    BY <1>4, <2>1
<1>7. s + 1 \in Here(x, p) /\ b.data_start \in Here(x, p) /\ b.in_array_addr \in Here(x, p)
  BY <1>2, <1>4, <1>5
<1> QED
  BY <1>1, <1>5, <1>6, <1>7

\* What the invariant says of a partition is the same while its sectors are.
LEMMA Untouched ==
  ASSUME NEW x \in Layouts, NEW p \in Formattable(x),
         \A n \in Here(x, p) : disk'[n] = disk[n]
  PROVE  LET b == Block(x, p)
         IN  /\ disk'[Start(x, p) + 1] = disk[Start(x, p) + 1]
             /\ Marked(x, p)' <=> Marked(x, p)
             /\ NoRoot(x, p)' <=> NoRoot(x, p)
             /\ Whole(x, disk', p) <=> Whole(x, disk, p)
             /\ Area(b.fb_bmap_addr, b.fb_bmap_size)' = Area(b.fb_bmap_addr, b.fb_bmap_size)
             /\ Area(b.in_bmap_addr, b.in_bmap_size)' = Area(b.in_bmap_addr, b.in_bmap_size)
             /\ disk'[b.in_array_addr] = disk[b.in_array_addr]
<1> DEFINE b == Block(x, p)
<1>1. /\ disk'[Start(x, p) + 1] = disk[Start(x, p) + 1]
      /\ disk'[b.data_start] = disk[b.data_start]
      /\ disk'[b.in_array_addr] = disk[b.in_array_addr]
  BY InPlace
<1>2. /\ \A k \in 0 .. b.fb_bmap_size - 1 : disk'[b.fb_bmap_addr + k] = disk[b.fb_bmap_addr + k]
      /\ \A k \in 0 .. b.in_bmap_size - 1 : disk'[b.in_bmap_addr + k] = disk[b.in_bmap_addr + k]
      /\ \A k \in 0 .. b.in_array_size - 1 :
           disk'[b.in_array_addr + k] = disk[b.in_array_addr + k]
  BY InPlace
<1>3. ASSUME NEW a \in Nat, NEW n \in Nat, \A k \in 0 .. n - 1 : disk'[a + k] = disk[a + k]
      PROVE  Area(a, n)' = Area(a, n)
  <2>1. \A k \in 1 .. n : k - 1 \in 0 .. n - 1 /\ a + k - 1 = a + (k - 1)
    OBVIOUS
  <2>2. \A k \in 1 .. n : disk'[a + k - 1] = disk[a + k - 1]
    BY <1>3, <2>1
  <2> QED
    BY <2>2 DEF Area
<1>4. /\ b.fb_bmap_addr \in Nat /\ b.fb_bmap_size \in Nat
      /\ b.in_bmap_addr \in Nat /\ b.in_bmap_size \in Nat
  <2>1. PICK s : s = Start(x, p)
    OBVIOUS
  <2>2. /\ s \in Nat /\ MaxSectors \in Nat /\ b.fb_bmap_addr = s + 2
        /\ b.fb_bmap_size \in 1 .. MaxSectors
        /\ b.in_bmap_addr = b.fb_bmap_addr + b.fb_bmap_size
        /\ b.in_array_size \in 1 .. MaxSectors /\ b.in_bmap_size \in 1 .. b.in_array_size
    BY <2>1, Geometry
  <2> HIDE DEF b
  <2> QED
    BY <2>2
<1>5. Whole(x, disk', p) <=> Whole(x, disk, p)
  BY <1>1, <1>2 DEF Whole, Holds
<1> QED
  BY <1>1, <1>2, <1>3, <1>4, <1>5 DEF Marked, NoRoot

\* A write of build_fs, if it does its part for partition i.
LEMMA WriteStep ==
  ASSUME NEW x \in Layouts, FsInv(x), stack = <<>>, i \in Formattable(x),
         step \in {"super_block"} \cup Writing, step' \in {"mount"} \cup Writing,
         NEW lba \in Nat, NEW cnt, NEW area,
         Start(x, i) <= lba, lba <= Block(x, i).data_start,
         disk' = ide_write(disk, lba, area, i, cnt),
         UNCHANGED <<stack, i, curr_part, mounted, root, cuts>>,
         disk'[Start(x, i) + 1] = Tag("super_block", i, 0),
         step' \in Writing => NoRoot(x, i)',
         step' = "mount" => Whole(x, disk', i),
         BuildInv(x)'
  PROVE  FsInv(x)'
<1>1. DiskInv(x) /\ StepInv(x) /\ LostInv(x) /\ MountInv(x)
  BY DEF FsInv
<1>2. /\ disk' = [s \in Sectors |-> disk'[s]]
      /\ \A s \in {0} \cup ToSet(x.tables) : disk'[s] = disk[s]
      /\ \A q \in Formattable(x) \ {i} : \A n \in Here(x, q) : disk'[n] = disk[n]
  BY <1>1, WriteFacts
<1>3. \A q \in Formattable(x) \ {i} :
        LET b == Block(x, q)
        IN  /\ disk'[Start(x, q) + 1] = disk[Start(x, q) + 1]
            /\ Marked(x, q)' <=> Marked(x, q)
            /\ NoRoot(x, q)' <=> NoRoot(x, q)
            /\ Whole(x, disk', q) <=> Whole(x, disk, q)
            /\ Area(b.fb_bmap_addr, b.fb_bmap_size)' = Area(b.fb_bmap_addr, b.fb_bmap_size)
            /\ Area(b.in_bmap_addr, b.in_bmap_size)' = Area(b.in_bmap_addr, b.in_bmap_size)
            /\ disk'[b.in_array_addr] = disk[b.in_array_addr]
  BY <1>2, Untouched
<1>4. Marked(x, i)'
  BY DEF Marked, Tag
<1>5. \A q \in Formattable(x) \ {i} : ~Building(q) /\ ~Building(q)'
  BY DEF Building
<1>6. DiskInv(x)'
  <2>1. \A s \in {0} \cup ToSet(x.tables) : disk'[s] = Table
    BY <1>1, <1>2 DEF DiskInv
  <2>2. ASSUME NEW q \in Formattable(x)
        PROVE  /\ Marked(x, q)' => disk'[Start(x, q) + 1] = Tag("super_block", q, 0)
               /\ ~Marked(x, q)' \/ Building(q)' => NoRoot(x, q)'
    <3>1. CASE q = i
      BY <1>4, <3>1 DEF Building
    <3>2. CASE q # i
      <4>1. q \in Formattable(x) \ {i}
        BY <3>2
      <4> QED
        BY <1>1, <1>3, <1>5, <4>1 DEF DiskInv
    <3> QED
      BY <3>1, <3>2
  <2> QED
    BY <1>2, <2>1, <2>2 DEF DiskInv
<1>7. StepInv(x)'
  <2>1. \A q \in Formattable(x) : q < i => Marked(x, q)'
    BY <1>1, <1>3, <1>4 DEF StepInv
  <2> QED
    BY <1>1, <1>4, <2>1 DEF StepInv, Writing
<1>8. LostInv(x)'
  <2>1. ASSUME NEW q \in Lost(x)' PROVE q \in Lost(x)
    <3>1. q \in Formattable(x) /\ Marked(x, q)' /\ ~Building(q)' /\ ~Whole(x, disk', q)
      BY DEF Lost
    <3>2. q # i
      BY <3>1 DEF Building
    <3> QED
      BY <1>3, <1>5, <3>1, <3>2 DEF Lost
  <2>2. Lost(x)' \subseteq Lost(x)
    BY <2>1
  <2>3. IsFiniteSet(Lost(x))
    <3>1. Lost(x) \subseteq Formattable(x)
      BY DEF Lost
    <3> QED
      BY <3>1, DescribedFacts, FS_Subset
  <2>4. Cardinality(Lost(x)') <= Cardinality(Lost(x)) /\ Cardinality(Lost(x)') \in Nat
        /\ Cardinality(Lost(x)) \in Nat
    BY <2>2, <2>3, FS_Subset, FS_CardinalityType
  <2> QED
    BY <1>1, <2>4 DEF LostInv
<1>9. MountInv(x)'
  <2>1. SUFFICES ASSUME curr_part # 0 PROVE MountInv(x)'
    BY DEF MountInv
  <2>2. curr_part \in Formattable(x) \ {i}
    <3>1. curr_part \in Formattable(x) /\ curr_part < i
      BY <1>1, <2>1 DEF MountInv
    <3>2. i \in Int /\ curr_part \in Int
      BY <3>1, DescribedFacts
    <3> QED
      BY <3>1, <3>2
  <2>3. step' # "done"
    BY DEF Writing
  <2> QED
    BY <1>1, <1>3, <2>1, <2>2, <2>3 DEF MountInv
<1> QED
  BY <1>6, <1>7, <1>8, <1>9 DEF FsInv

\* In its own partition a write leaves what is before it, and its area.
LEMMA OwnWrite ==
  ASSUME NEW x \in Layouts, NEW p \in Formattable(x), DiskInv(x),
         NEW lba \in Nat, NEW cnt \in 1 .. MaxSectors, NEW area,
         Start(x, p) <= lba, lba <= Block(x, p).data_start,
         disk' = ide_write(disk, lba, area, p, cnt)
  PROVE  /\ \A n \in Nat : Start(x, p) <= n /\ n < lba => disk'[n] = disk[n]
         /\ \A a : \A l \in Nat, c \in Nat :
              Start(x, p) <= l /\ l + c <= lba /\ Holds(disk, a, p, l, c) =>
                Holds(disk', a, p, l, c)
         /\ \A c \in Nat : c <= cnt => Holds(disk', area, p, lba, c)
         /\ area # "root_dir" /\ NoRoot(x, p) => NoRoot(x, p)'
<1>1. PICK s, b, M : s = Start(x, p) /\ b = Block(x, p) /\ M = MaxSectors
  OBVIOUS
<1>2. /\ M \in Nat \ {0} /\ b.data_start \in Nat /\ s \in Nat
      /\ \A n \in Nat : s <= n /\ n <= b.data_start + M - 1 => n \in Here(x, p)
  BY <1>1, Geometry
<1>3. \A n \in Here(x, p) :
        disk'[n] = IF lba <= n /\ n <= lba + M - 1
                   THEN IF n < lba + cnt THEN Tag(area, p, n - lba) ELSE Junk
                   ELSE disk[n]
  BY <1>1, WriteFacts
<1>4. lba <= b.data_start /\ s <= lba /\ cnt \in Nat /\ cnt <= M
  BY <1>1, <1>2
<1>5. ASSUME NEW n \in Nat, s <= n, n < lba PROVE disk'[n] = disk[n]
  <2>1. n \in Here(x, p) /\ ~(lba <= n)
    BY <1>2, <1>4, <1>5
  <2> QED
    BY <1>3, <2>1
<1>6. ASSUME NEW a, NEW l \in Nat, NEW c \in Nat, s <= l, l + c <= lba,
             Holds(disk, a, p, l, c)
      PROVE  Holds(disk', a, p, l, c)
  <2>1. ASSUME NEW k \in 0 .. c - 1 PROVE disk'[l + k] = disk[l + k]
    <3>1. l + k \in Nat /\ s <= l + k /\ l + k < lba
      BY <1>2, <1>6
    <3> QED
      BY <1>5, <3>1
  <2> QED
    BY <1>6, <2>1 DEF Holds
<1>7. ASSUME NEW c \in Nat, c <= cnt PROVE Holds(disk', area, p, lba, c)
  <2>1. ASSUME NEW k \in 0 .. c - 1 PROVE disk'[lba + k] = Tag(area, p, k)
    <3>1. /\ lba + k \in Nat /\ s <= lba + k /\ lba + k <= b.data_start + M - 1
          /\ lba <= lba + k /\ lba + k <= lba + M - 1 /\ lba + k < lba + cnt
          /\ (lba + k) - lba = k
      BY <1>2, <1>4, <1>7
    <3>2. lba + k \in Here(x, p)
      BY <1>2, <3>1
    <3> QED
      BY <1>3, <3>1, <3>2
  <2> QED
    BY <2>1 DEF Holds
<1>8. ASSUME area # "root_dir", NoRoot(x, p) PROVE NoRoot(x, p)'
  <2>1. b.data_start \in Here(x, p)
    BY <1>1, InPlace
  <2>2. \A k : Tag(area, p, k) # Tag("root_dir", p, 0) /\ Junk # Tag("root_dir", p, 0)
    BY <1>8 DEF Tag, Junk
  <2>3. disk'[b.data_start] # Tag("root_dir", p, 0)
    BY <1>1, <1>3, <1>8, <2>1, <2>2 DEF NoRoot
  <2> QED
    BY <1>1, <2>3 DEF NoRoot
<1> QED
  BY <1>1, <1>5, <1>6, <1>7, <1>8

\* fs_init is at a step of build_fs.
LEMMA WriteAt ==
  ASSUME NEW x \in Layouts, ScanInv(x), FsInv(x), NEW area, NEW lba, NEW cnt, NEW next,
         Write(area, lba, cnt, next), area \in {"super_block"} \cup Writing
  PROVE  /\ stack = <<>> /\ i \in Formattable(x) /\ step = area
         /\ parts[i].start = Start(x, i) /\ SB(i) = Block(x, i)
         /\ disk' = ide_write(disk, lba, area, i, cnt) /\ step' = next
         /\ UNCHANGED <<stack, i, curr_part, mounted, root, cuts>>
<1>1. stack = <<>> /\ step = area
  BY DEF Write, At
<1>2. i \in Formattable(x)
  BY <1>1 DEF FsInv, StepInv, Writing
<1>3. i \in 1 .. Len(Described(x))
  BY <1>2, DescribedFacts
<1>4. parts[i].start = Start(x, i) /\ SB(i) = Block(x, i)
  BY <1>1, <1>3, PartsFound
<1> QED
  BY <1>1, <1>2, <1>4 DEF Write, scanState

LEMMA SuperInv ==
  ASSUME NEW x \in Layouts, ScanInv(x), FsInv(x), build_fs_super
  PROVE  FsInv(x)'
<1>1. PICK s, b : s = Start(x, i) /\ b = Block(x, i)
  OBVIOUS
<1>2. Write("super_block", parts[i].start + 1, 1, "block_bitmap")
  BY DEF build_fs_super
<1>3. /\ stack = <<>> /\ i \in Formattable(x) /\ step = "super_block"
      /\ parts[i].start = s /\ SB(i) = b
      /\ disk' = ide_write(disk, s + 1, "super_block", i, 1)
      /\ step' = "block_bitmap"
      /\ UNCHANGED <<stack, i, curr_part, mounted, root, cuts>>
  <2>1. /\ stack = <<>> /\ i \in Formattable(x) /\ step = "super_block"
        /\ parts[i].start = s /\ SB(i) = b
        /\ disk' = ide_write(disk, parts[i].start + 1, "super_block", i, 1)
        /\ step' = "block_bitmap"
        /\ UNCHANGED <<stack, i, curr_part, mounted, root, cuts>>
    BY <1>1, <1>2, WriteAt
  <2> QED
    BY <2>1
<1>4. /\ s \in Nat /\ MaxSectors \in Nat \ {0} /\ b.fb_bmap_addr = s + 2
      /\ b.fb_bmap_size \in 1 .. MaxSectors
      /\ b.in_bmap_addr = b.fb_bmap_addr + b.fb_bmap_size
      /\ b.in_array_size \in 1 .. MaxSectors /\ b.in_bmap_size \in 1 .. b.in_array_size
      /\ b.in_array_addr = b.in_bmap_addr + b.in_bmap_size
      /\ b.data_start \in Nat /\ b.data_start >= b.in_array_addr + b.in_array_size
  BY <1>1, <1>3, Geometry, SMTT(40)
<1>5. s + 1 \in Nat /\ s <= s + 1 /\ s + 1 <= b.data_start /\ 1 \in 1 .. MaxSectors
  BY <1>4
<1>6. DiskInv(x) /\ StepInv(x)
  BY DEF FsInv
<1>7. Holds(disk', "super_block", i, s + 1, 1) /\ (NoRoot(x, i) => NoRoot(x, i)')
  BY <1>1, <1>3, <1>5, <1>6, OwnWrite
<1>8. disk'[s + 1] = Tag("super_block", i, 0)
  <2>1. 0 \in 0 .. 1 - 1 /\ (s + 1) + 0 = s + 1
    BY <1>4
  <2> QED
    BY <1>7, <2>1 DEF Holds
<1>9. NoRoot(x, i)'
  BY <1>3, <1>6, <1>7 DEF DiskInv, StepInv
<1>10. BuildInv(x)'
  BY <1>3 DEF BuildInv
<1>11. step' \in Writing
  BY <1>3 DEF Writing
<1> QED
  BY <1>1, <1>3, <1>5, <1>8, <1>9, <1>10, <1>11, WriteStep

\* A write of build_fs after the superblock leaves it.
LEMMA LaterWrite ==
  ASSUME NEW x \in Layouts, ScanInv(x), FsInv(x), NEW area \in Writing,
         NEW lba \in Nat, NEW cnt \in 1 .. MaxSectors, NEW next,
         Write(area, lba, cnt, next), Start(x, i) + 2 <= lba,
         lba <= Block(x, i).data_start,
         next \in {"mount"} \cup Writing, area = "root_dir" <=> next = "mount",
         next = "mount" => Whole(x, disk', i), BuildInv(x)'
  PROVE  FsInv(x)'
<1>1. /\ stack = <<>> /\ i \in Formattable(x) /\ step = area
      /\ disk' = ide_write(disk, lba, area, i, cnt) /\ step' = next
      /\ UNCHANGED <<stack, i, curr_part, mounted, root, cuts>>
  BY WriteAt
<1>2. DiskInv(x) /\ StepInv(x)
  BY DEF FsInv
<1>3. /\ Start(x, i) \in Nat /\ Start(x, i) <= lba /\ Start(x, i) + 1 \in Nat
      /\ Start(x, i) <= Start(x, i) + 1 /\ Start(x, i) + 1 < lba
  <2>1. Start(x, i) \in Nat
    BY <1>1, Geometry
  <2> QED
    BY <2>1
<1>4. /\ disk'[Start(x, i) + 1] = disk[Start(x, i) + 1]
      /\ area # "root_dir" /\ NoRoot(x, i) => NoRoot(x, i)'
  BY <1>1, <1>2, <1>3, OwnWrite
<1>5. Marked(x, i) /\ Building(i)
  BY <1>1, <1>2 DEF StepInv, Building
<1>6. disk'[Start(x, i) + 1] = Tag("super_block", i, 0) /\ NoRoot(x, i)
  BY <1>1, <1>2, <1>4, <1>5 DEF DiskInv
<1>7. "mount" \notin Writing
  BY DEF Writing
<1> QED
  BY <1>1, <1>3, <1>4, <1>6, <1>7, WriteStep

\* The areas are in order, and each write is long enough.
LEMMA AreasInOrder ==
  ASSUME NEW x \in Layouts, NEW p \in Formattable(x), NEW b, b = Block(x, p)
  PROVE  /\ Start(x, p) \in Nat /\ b.fb_bmap_addr \in Nat /\ b.in_bmap_addr \in Nat
         /\ b.in_array_addr \in Nat /\ b.data_start \in Nat
         /\ b.fb_bmap_size \in Nat /\ b.in_bmap_size \in Nat /\ b.in_array_size \in Nat
         /\ Start(x, p) + 2 <= b.fb_bmap_addr /\ Start(x, p) + 2 <= b.in_bmap_addr
         /\ Start(x, p) + 2 <= b.in_array_addr /\ Start(x, p) + 2 <= b.data_start
         /\ b.fb_bmap_addr + b.fb_bmap_size <= b.in_bmap_addr
         /\ b.in_bmap_addr + b.in_bmap_size <= b.in_array_addr
         /\ b.in_array_addr + b.in_array_size <= b.data_start
         /\ b.fb_bmap_addr <= b.data_start /\ b.in_bmap_addr <= b.data_start
         /\ b.in_array_addr <= b.data_start
         /\ b.fb_bmap_size \in 1 .. MaxSectors /\ b.in_array_size \in 1 .. MaxSectors
         /\ b.in_bmap_size <= b.in_array_size /\ 1 \in 1 .. MaxSectors
         /\ Start(x, p) <= b.fb_bmap_addr /\ Start(x, p) <= b.in_bmap_addr
         /\ Start(x, p) <= b.in_array_addr /\ Start(x, p) <= b.data_start
         /\ b.in_array_size >= 1 /\ b.fb_bmap_addr + b.fb_bmap_size <= b.in_array_addr
         /\ b.fb_bmap_addr + b.fb_bmap_size <= b.data_start
         /\ b.in_bmap_addr + b.in_bmap_size <= b.data_start
<1>1. PICK s : s = Start(x, p)
  OBVIOUS
<1>2. /\ s \in Nat /\ MaxSectors \in Nat \ {0} /\ b.fb_bmap_addr = s + 2
      /\ b.fb_bmap_size \in 1 .. MaxSectors
      /\ b.in_bmap_addr = b.fb_bmap_addr + b.fb_bmap_size
      /\ b.in_array_size \in 1 .. MaxSectors /\ b.in_bmap_size \in 1 .. b.in_array_size
      /\ b.in_array_addr = b.in_bmap_addr + b.in_bmap_size
      /\ b.data_start \in Nat /\ b.data_start >= b.in_array_addr + b.in_array_size
  BY <1>1, Geometry, SMTT(40)
<1>3. PICK f \in Nat, m \in Nat, a \in Nat, d \in Nat, M \in Nat :
        /\ f = b.fb_bmap_size /\ m = b.in_bmap_size /\ a = b.in_array_size
        /\ d = b.data_start /\ M = MaxSectors
        /\ 1 <= f /\ f <= M /\ 1 <= m /\ m <= a /\ 1 <= a /\ a <= M
  BY <1>2
<1>4. /\ b.fb_bmap_addr = s + 2 /\ b.in_bmap_addr = s + 2 + f
      /\ b.in_array_addr = s + 2 + f + m /\ s + 2 + f + m + a <= d
  BY <1>2, <1>3
<1> QED
  BY <1>1, <1>2, <1>3, <1>4

LEMMA BlockBitmapInv ==
  ASSUME NEW x \in Layouts, ScanInv(x), FsInv(x), set_free_block_bitmap
  PROVE  FsInv(x)'
<1>1. PICK b : b = Block(x, i)
  OBVIOUS
<1>2. Write("block_bitmap", SB(i).fb_bmap_addr, SB(i).fb_bmap_size, "inode_bitmap")
  BY DEF set_free_block_bitmap
<1>3. "block_bitmap" \in Writing /\ "inode_bitmap" \in {"mount"} \cup Writing
  BY DEF Writing
<1>4. /\ i \in Formattable(x) /\ step = "block_bitmap" /\ SB(i) = b /\ i' = i
      /\ step' = "inode_bitmap"
      /\ disk' = ide_write(disk, SB(i).fb_bmap_addr, "block_bitmap", i, SB(i).fb_bmap_size)
  BY <1>1, <1>2, <1>3, WriteAt
<1>5. /\ Write("block_bitmap", b.fb_bmap_addr, b.fb_bmap_size, "inode_bitmap")
      /\ disk' = ide_write(disk, b.fb_bmap_addr, "block_bitmap", i, b.fb_bmap_size)
  BY <1>2, <1>4
<1>6. /\ Start(x, i) \in Nat /\ b.fb_bmap_addr \in Nat /\ b.fb_bmap_size \in 1 .. MaxSectors
      /\ Start(x, i) + 2 <= b.fb_bmap_addr /\ Start(x, i) <= b.fb_bmap_addr
      /\ b.fb_bmap_addr <= b.data_start /\ b.fb_bmap_size \in Nat /\ b.fb_bmap_size <= b.fb_bmap_size
  BY <1>1, <1>4, AreasInOrder
<1>7. DiskInv(x) /\ BuildInv(x)
  BY DEF FsInv
<1>8. Holds(disk', "block_bitmap", i, b.fb_bmap_addr, b.fb_bmap_size)
  BY <1>1, <1>4, <1>5, <1>6, <1>7, OwnWrite
<1>9. BuildInv(x)'
  BY <1>1, <1>4, <1>8 DEF BuildInv
<1> QED
  BY <1>1, <1>3, <1>5, <1>6, <1>9, LaterWrite

LEMMA InodeBitmapInv ==
  ASSUME NEW x \in Layouts, ScanInv(x), FsInv(x), set_inode_bitmap
  PROVE  FsInv(x)'
<1>1. PICK b : b = Block(x, i)
  OBVIOUS
<1>2. Write("inode_bitmap", SB(i).in_bmap_addr, SB(i).in_array_size, "inode_array")
  BY DEF set_inode_bitmap
<1>3. "inode_bitmap" \in Writing /\ "inode_array" \in {"mount"} \cup Writing
  BY DEF Writing
<1>4. /\ i \in Formattable(x) /\ step = "inode_bitmap" /\ SB(i) = b /\ i' = i
      /\ step' = "inode_array"
      /\ disk' = ide_write(disk, SB(i).in_bmap_addr, "inode_bitmap", i, SB(i).in_array_size)
  BY <1>1, <1>2, <1>3, WriteAt
<1>5. /\ Write("inode_bitmap", b.in_bmap_addr, b.in_array_size, "inode_array")
      /\ disk' = ide_write(disk, b.in_bmap_addr, "inode_bitmap", i, b.in_array_size)
  BY <1>2, <1>4
<1>6. /\ Start(x, i) \in Nat /\ b.in_bmap_addr \in Nat /\ b.in_array_size \in 1 .. MaxSectors
      /\ Start(x, i) + 2 <= b.in_bmap_addr /\ Start(x, i) <= b.in_bmap_addr
      /\ b.in_bmap_addr <= b.data_start /\ b.in_bmap_size \in Nat /\ b.in_bmap_size <= b.in_array_size
  BY <1>1, <1>4, AreasInOrder
<1>7. DiskInv(x) /\ BuildInv(x)
  BY DEF FsInv
<1>8. Holds(disk', "inode_bitmap", i, b.in_bmap_addr, b.in_bmap_size)
  BY <1>1, <1>4, <1>5, <1>6, <1>7, OwnWrite
<1>9. Holds(disk', "block_bitmap", i, b.fb_bmap_addr, b.fb_bmap_size)
  <2>1. Holds(disk, "block_bitmap", i, b.fb_bmap_addr, b.fb_bmap_size)
    BY <1>1, <1>4, <1>7 DEF BuildInv
  <2>2. /\ b.fb_bmap_addr \in Nat /\ b.fb_bmap_size \in Nat /\ Start(x, i) <= b.fb_bmap_addr
        /\ b.fb_bmap_addr + b.fb_bmap_size <= b.in_bmap_addr
    BY <1>1, <1>4, AreasInOrder
  <2> QED
    BY <1>1, <1>4, <1>5, <1>6, <1>7, <2>1, <2>2, OwnWrite
<1>10. BuildInv(x)'
  BY <1>1, <1>4, <1>8, <1>9 DEF BuildInv
<1> QED
  BY <1>1, <1>3, <1>5, <1>6, <1>10, LaterWrite

LEMMA InodeArrayInv ==
  ASSUME NEW x \in Layouts, ScanInv(x), FsInv(x), set_inode_array
  PROVE  FsInv(x)'
<1>1. PICK b : b = Block(x, i)
  OBVIOUS
<1>2. Write("inode_array", SB(i).in_array_addr, SB(i).in_array_size, "root_dir")
  BY DEF set_inode_array
<1>3. "inode_array" \in Writing /\ "root_dir" \in {"mount"} \cup Writing
  BY DEF Writing
<1>4. /\ i \in Formattable(x) /\ step = "inode_array" /\ SB(i) = b /\ i' = i
      /\ step' = "root_dir"
      /\ disk' = ide_write(disk, SB(i).in_array_addr, "inode_array", i, SB(i).in_array_size)
  BY <1>1, <1>2, <1>3, WriteAt
<1>5. /\ Write("inode_array", b.in_array_addr, b.in_array_size, "root_dir")
      /\ disk' = ide_write(disk, b.in_array_addr, "inode_array", i, b.in_array_size)
  BY <1>2, <1>4
<1>6. /\ Start(x, i) \in Nat /\ b.in_array_addr \in Nat /\ b.in_array_size \in 1 .. MaxSectors
      /\ Start(x, i) + 2 <= b.in_array_addr /\ Start(x, i) <= b.in_array_addr
      /\ b.in_array_addr <= b.data_start /\ b.in_array_size \in Nat /\ b.in_array_size <= b.in_array_size
  BY <1>1, <1>4, AreasInOrder
<1>7. DiskInv(x) /\ BuildInv(x)
  BY DEF FsInv
<1>8. Holds(disk', "inode_array", i, b.in_array_addr, b.in_array_size)
  BY <1>1, <1>4, <1>5, <1>6, <1>7, OwnWrite
<1>9. Holds(disk', "block_bitmap", i, b.fb_bmap_addr, b.fb_bmap_size)
  <2>1. Holds(disk, "block_bitmap", i, b.fb_bmap_addr, b.fb_bmap_size)
    BY <1>1, <1>4, <1>7 DEF BuildInv
  <2>2. /\ b.fb_bmap_addr \in Nat /\ b.fb_bmap_size \in Nat /\ Start(x, i) <= b.fb_bmap_addr
        /\ b.fb_bmap_addr + b.fb_bmap_size <= b.in_array_addr
    BY <1>1, <1>4, AreasInOrder
  <2> QED
    BY <1>1, <1>4, <1>5, <1>6, <1>7, <2>1, <2>2, OwnWrite
<1>10. Holds(disk', "inode_bitmap", i, b.in_bmap_addr, b.in_bmap_size)
  <2>1. Holds(disk, "inode_bitmap", i, b.in_bmap_addr, b.in_bmap_size)
    BY <1>1, <1>4, <1>7 DEF BuildInv
  <2>2. /\ b.in_bmap_addr \in Nat /\ b.in_bmap_size \in Nat /\ Start(x, i) <= b.in_bmap_addr
        /\ b.in_bmap_addr + b.in_bmap_size <= b.in_array_addr
    BY <1>1, <1>4, AreasInOrder
  <2> QED
    BY <1>1, <1>4, <1>5, <1>6, <1>7, <2>1, <2>2, OwnWrite
<1>11. BuildInv(x)'
  BY <1>1, <1>4, <1>8, <1>9, <1>10 DEF BuildInv
<1> QED
  BY <1>1, <1>3, <1>5, <1>6, <1>11, LaterWrite

LEMMA RootDirInv ==
  ASSUME NEW x \in Layouts, ScanInv(x), FsInv(x), set_root_dir
  PROVE  FsInv(x)'
<1>1. PICK b : b = Block(x, i)
  OBVIOUS
<1>2. Write("root_dir", SB(i).data_start, 1, "mount")
  BY DEF set_root_dir
<1>3. "root_dir" \in Writing /\ "mount" \in {"mount"} \cup Writing
  BY DEF Writing
<1>4. /\ i \in Formattable(x) /\ step = "root_dir" /\ SB(i) = b /\ i' = i
      /\ step' = "mount"
      /\ disk' = ide_write(disk, SB(i).data_start, "root_dir", i, 1)
  BY <1>1, <1>2, <1>3, WriteAt
<1>5. /\ Write("root_dir", b.data_start, 1, "mount")
      /\ disk' = ide_write(disk, b.data_start, "root_dir", i, 1)
  BY <1>2, <1>4
<1>6. /\ Start(x, i) \in Nat /\ b.data_start \in Nat /\ 1 \in 1 .. MaxSectors
      /\ Start(x, i) + 2 <= b.data_start /\ Start(x, i) <= b.data_start
      /\ b.data_start <= b.data_start /\ 1 \in Nat /\ 1 <= 1
  BY <1>1, <1>4, AreasInOrder
<1>7. DiskInv(x) /\ BuildInv(x)
  BY DEF FsInv
<1>8. Holds(disk', "root_dir", i, b.data_start, 1)
  BY <1>1, <1>4, <1>5, <1>6, <1>7, OwnWrite
<1>9. Holds(disk', "block_bitmap", i, b.fb_bmap_addr, b.fb_bmap_size)
  <2>1. Holds(disk, "block_bitmap", i, b.fb_bmap_addr, b.fb_bmap_size)
    BY <1>1, <1>4, <1>7 DEF BuildInv
  <2>2. /\ b.fb_bmap_addr \in Nat /\ b.fb_bmap_size \in Nat /\ Start(x, i) <= b.fb_bmap_addr
        /\ b.fb_bmap_addr + b.fb_bmap_size <= b.data_start
    BY <1>1, <1>4, AreasInOrder
  <2> QED
    BY <1>1, <1>4, <1>5, <1>6, <1>7, <2>1, <2>2, OwnWrite
<1>10. Holds(disk', "inode_bitmap", i, b.in_bmap_addr, b.in_bmap_size)
  <2>1. Holds(disk, "inode_bitmap", i, b.in_bmap_addr, b.in_bmap_size)
    BY <1>1, <1>4, <1>7 DEF BuildInv
  <2>2. /\ b.in_bmap_addr \in Nat /\ b.in_bmap_size \in Nat /\ Start(x, i) <= b.in_bmap_addr
        /\ b.in_bmap_addr + b.in_bmap_size <= b.data_start
    BY <1>1, <1>4, AreasInOrder
  <2> QED
    BY <1>1, <1>4, <1>5, <1>6, <1>7, <2>1, <2>2, OwnWrite
<1>11. Holds(disk', "inode_array", i, b.in_array_addr, b.in_array_size)
  <2>1. Holds(disk, "inode_array", i, b.in_array_addr, b.in_array_size)
    BY <1>1, <1>4, <1>7 DEF BuildInv
  <2>2. /\ b.in_array_addr \in Nat /\ b.in_array_size \in Nat /\ Start(x, i) <= b.in_array_addr
        /\ b.in_array_addr + b.in_array_size <= b.data_start
    BY <1>1, <1>4, AreasInOrder
  <2> QED
    BY <1>1, <1>4, <1>5, <1>6, <1>7, <2>1, <2>2, OwnWrite
<1>12. BuildInv(x)'
  BY <1>1, <1>4, <1>8, <1>9, <1>10, <1>11 DEF BuildInv
<1>13. disk'[Start(x, i) + 1] = Tag("super_block", i, 0)
  <2>1. Marked(x, i)
    BY <1>4 DEF FsInv, StepInv, Writing
  <2>2. disk[Start(x, i) + 1] = Tag("super_block", i, 0)
    BY <1>4, <1>7, <2>1 DEF DiskInv
  <2>3. /\ Start(x, i) + 1 \in Nat /\ Start(x, i) <= Start(x, i) + 1
        /\ Start(x, i) + 1 < b.data_start
    BY <1>6
  <2>4. disk'[Start(x, i) + 1] = disk[Start(x, i) + 1]
    BY <1>1, <1>4, <1>5, <1>6, <1>7, <2>3, OwnWrite
  <2> QED
    BY <2>2, <2>4
<1>14. disk'[b.data_start] = Tag("root_dir", i, 0)
  <2>1. 0 \in 0 .. 1 - 1 /\ b.data_start + 0 = b.data_start
    BY <1>6
  <2> QED
    BY <1>8, <2>1 DEF Holds
<1>15. Whole(x, disk', i)
  BY <1>1, <1>9, <1>10, <1>11, <1>13, <1>14 DEF Whole
<1> QED
  BY <1>1, <1>3, <1>5, <1>6, <1>12, <1>15, LaterWrite

\* A boot begins with the first entry of sector 0.
LEMMA StartScan ==
  ASSUME NEW x \in Layouts
  PROVE  /\ <<Frame(0)>> = StackAt(x, 0, 1) /\ 0 \in 0 .. Len(x.tables)
         /\ 1 \in 1 .. Entries + 1 /\ Places(<<>>) = PrimsTo(x)[0]
         /\ Places(<<>>) = LogicsTo(x)[0] /\ <<>> \in Seq(Partitions)
         /\ Explored(x, 0, 1) => LogicalsOf(x) = <<>>
         /\ ~(Ext(x) # 0 /\ 1 > Ext(x)) /\ Places(<<>>) = <<>>
<1>1. <<>> \in Seq(Partitions)
  OBVIOUS
<1>2. Places(<<>>) = <<>>
  <2>1. Places(<<>>) \in Seq(Spots) /\ Len(Places(<<>>)) = 0
    BY <1>1, PlacesFacts
  <2> QED
    BY <2>1
<1>3. Entries \in Nat /\ Len(x.tables) \in Nat /\ Ext(x) \in 0 .. Entries
  BY LayoutFacts, ExtFacts
<1>4. <<Frame(0)>> = StackAt(x, 0, 1)
  <2>1. Below(x, 0) = <<>>
    BY <1>3, StackFacts
  <2> QED
    BY <2>1 DEF StackAt, Frame, Lba
<1>5. Explored(x, 0, 1) => LogicalsOf(x) = <<>>
  <2>1. Explored(x, 0, 1) => Ext(x) = 0
    BY <1>3 DEF Explored
  <2> QED
    BY <2>1, LogicsFacts
<1> QED
  BY <1>1, <1>2, <1>3, <1>4, <1>5, PrimsFacts, LogicsFacts

LEMMA StartInv ==
  ASSUME NEW x \in Layouts, ScanAgain
  PROVE  ScanInv(x)'
<1>1. /\ stack' = <<Frame(0)>> /\ ext_lba_base' = 0 /\ master_no' = 0 /\ logical_no' = 0
      /\ prim_parts' = <<>> /\ logic_parts' = <<>> /\ ~panic'
  BY Zenon DEF ScanAgain
<1>2. PrimLimit \in Nat /\ LogicLimit \in Nat \ {0}
  BY LayoutFacts
<1>3. ScanAt(x, 0, 1)'
  BY <1>1, <1>2, StartScan DEF ScanAt
<1> QED
  BY <1>1, <1>2, <1>3, StartScan DEF ScanInv

LEMMA InitScanInv ==
  ASSUME NEW x \in Layouts, ScanInit
  PROVE  ScanInv(x)
<1>1. /\ stack = <<Frame(0)>> /\ ext_lba_base = 0 /\ master_no = 0 /\ logical_no = 0
      /\ prim_parts = <<>> /\ logic_parts = <<>> /\ ~panic
  BY Zenon DEF ScanInit
<1>2. PrimLimit \in Nat /\ LogicLimit \in Nat \ {0}
  BY LayoutFacts
<1>3. ScanAt(x, 0, 1)
  BY <1>1, <1>2, StartScan DEF ScanAt
<1> QED
  BY <1>1, <1>2, <1>3, StartScan DEF ScanInv

-----------------------------------------------------------------------------
(* The steps that write nothing.                                           *)

LEMMA QuietStep ==
  ASSUME NEW x \in Layouts, FsInv(x), UNCHANGED <<disk, cuts>>,
         step \notin Writing, step' \notin Writing
  PROVE  DiskInv(x)' /\ BuildInv(x)' /\ LostInv(x)'
<1>1. DiskInv(x) /\ LostInv(x)
  BY DEF FsInv
<1>2. \A p : /\ ~Building(p) /\ ~Building(p)'
             /\ (Marked(x, p)' <=> Marked(x, p)) /\ (NoRoot(x, p)' <=> NoRoot(x, p))
             /\ (Whole(x, disk', p) <=> Whole(x, disk, p))
  BY DEF Building, Marked, NoRoot
<1>3. DiskInv(x)'
  <2>1. disk' = [s \in Sectors |-> disk'[s]]
    BY <1>1 DEF DiskInv
  <2>2. \A s \in {0} \cup ToSet(x.tables) : disk'[s] = Table
    BY <1>1 DEF DiskInv
  <2>3. \A p \in Formattable(x) :
          /\ Marked(x, p)' => disk'[Start(x, p) + 1] = Tag("super_block", p, 0)
          /\ ~Marked(x, p)' \/ Building(p)' => NoRoot(x, p)'
    BY <1>1, <1>2 DEF DiskInv
  <2> QED
    BY <2>1, <2>2, <2>3 DEF DiskInv
<1>4. BuildInv(x)'
  BY DEF BuildInv, Writing
<1>5. Lost(x)' = Lost(x)
  BY <1>2 DEF Lost
<1>6. LostInv(x)'
  BY <1>1, <1>5 DEF LostInv
<1> QED
  BY <1>3, <1>4, <1>6

LEMMA ScanFsInv ==
  ASSUME NEW x \in Layouts, FsInv(x), scan_partition, UNCHANGED <<fsState, cuts>>
  PROVE  FsInv(x)'
<1>1. stack # <<>> /\ UNCHANGED <<disk, i, step, curr_part, mounted, root, cuts>>
  BY DEF scan_partition, scan_extended, scan_primary, scan_logical, scan_unused,
         scan_return, AtEntry, Running, fsState
<1>2. i = 1 /\ step = "read" /\ curr_part = 0 /\ StepInv(x)
  BY <1>1 DEF FsInv, StepInv
<1>3. DiskInv(x)' /\ BuildInv(x)' /\ LostInv(x)'
  BY <1>1, <1>2, QuietStep DEF Writing
<1>4. \A p \in Formattable(x) : p < i' => Marked(x, p)'
  BY <1>1, <1>2 DEF StepInv, Marked
<1>5. StepInv(x)'
  BY <1>1, <1>2, <1>4 DEF StepInv, Writing
<1>6. MountInv(x)'
  BY <1>1, <1>2 DEF MountInv
<1> QED
  BY <1>3, <1>5, <1>6 DEF FsInv

LEMMA SkipInv ==
  ASSUME NEW x \in Layouts, ScanInv(x), FsInv(x), fs_init_skip
  PROVE  FsInv(x)'
<1>1. /\ stack = <<>> /\ i \in DOMAIN parts /\ step = "read" /\ parts[i].count = 0
      /\ i' = i + 1
      /\ UNCHANGED <<stack, disk, step, curr_part, mounted, root, cuts>>
  BY DEF fs_init_skip, At, scanVars, scanState
<1>2. i \in 1 .. Len(Described(x)) /\ i \notin Formattable(x) /\ Len(Described(x)) \in Nat
  <2>1. i \in 1 .. Len(Described(x)) /\ parts[i].count = Described(x)[i].count
    BY <1>1, PartsFound
  <2> QED
    BY <1>1, <2>1, DescribedFacts
<1>3. DiskInv(x)' /\ BuildInv(x)' /\ LostInv(x)'
  BY <1>1, QuietStep DEF Writing
<1>4. StepInv(x) /\ MountInv(x)
  BY DEF FsInv
<1>5. ASSUME NEW p \in Formattable(x), p < i' PROVE Marked(x, p)'
  <2>1. p \in Int /\ p # i
    BY <1>2, DescribedFacts
  <2>2. p < i
    BY <1>1, <1>2, <1>5, <2>1
  <2> QED
    BY <1>1, <1>4, <2>2 DEF StepInv, Marked
<1>6. i' \in 1 .. Len(Described(x)) + 1
  BY <1>1, <1>2
<1>7. StepInv(x)'
  BY <1>1, <1>5, <1>6 DEF StepInv, Writing
<1>8. MountInv(x)'
  <2>1. curr_part # 0 => curr_part \in Formattable(x) /\ curr_part < i'
    <3>1. curr_part # 0 => curr_part \in Int
      BY <1>4, DescribedFacts DEF MountInv
    <3> QED
      BY <1>1, <1>2, <1>4, <3>1 DEF MountInv
  <2> QED
    BY <1>1, <1>4, <2>1 DEF MountInv, Area
<1> QED
  BY <1>3, <1>7, <1>8 DEF FsInv

LEMMA ReadInv ==
  ASSUME NEW x \in Layouts, ScanInv(x), FsInv(x), fs_init_read
  PROVE  FsInv(x)'
<1>1. /\ stack = <<>> /\ i \in DOMAIN parts /\ step = "read" /\ parts[i].count # 0
      /\ step' = IF disk[parts[i].start + 1].area = "super_block"
                 THEN "mount" ELSE "super_block"
      /\ UNCHANGED <<stack, disk, i, curr_part, mounted, root, cuts>>
  BY DEF fs_init_read, At, scanVars, scanState
<1>2. i \in Formattable(x) /\ parts[i].start = Start(x, i)
  <2>1. /\ i \in 1 .. Len(Described(x)) /\ parts[i].count = Described(x)[i].count
        /\ parts[i].start = Start(x, i)
    BY <1>1, PartsFound
  <2> QED
    BY <1>1, <2>1, DescribedFacts
<1>3. step' = IF Marked(x, i) THEN "mount" ELSE "super_block"
  BY <1>1, <1>2 DEF Marked
<1>4. DiskInv(x)' /\ BuildInv(x)' /\ LostInv(x)'
  BY <1>1, QuietStep DEF Writing
<1>5. StepInv(x) /\ MountInv(x)
  BY DEF FsInv
<1>6. \A p : Marked(x, p)' <=> Marked(x, p)
  BY <1>1 DEF Marked
<1>7. StepInv(x)'
  BY <1>1, <1>2, <1>3, <1>5, <1>6 DEF StepInv, Writing
<1>8. MountInv(x)'
  BY <1>1, <1>5 DEF MountInv, Area
<1> QED
  BY <1>4, <1>7, <1>8 DEF FsInv

\* The superblock of a marked partition says where its areas are.
LEMMA MarkedBlock ==
  ASSUME NEW x \in Layouts, ScanInv(x), FsInv(x), stack = <<>>,
         NEW p \in Formattable(x), Marked(x, p)
  PROVE  SB(disk[parts[p].start + 1].part) = Block(x, p)
<1>1. p \in 1 .. Len(Described(x))
  BY DescribedFacts
<1>2. parts[p].start = Start(x, p) /\ SB(p) = Block(x, p)
  BY <1>1, PartsFound
<1>3. disk[Start(x, p) + 1] = Tag("super_block", p, 0)
  BY DEF FsInv, DiskInv
<1>4. disk[parts[p].start + 1].part = p
  BY <1>2, <1>3 DEF Tag
<1> QED
  BY <1>2, <1>4

LEMMA MountStepInv ==
  ASSUME NEW x \in Layouts, ScanInv(x), FsInv(x), fs_init_mount
  PROVE  FsInv(x)'
<1>1. /\ stack = <<>> /\ step = "mount" /\ i' = i + 1 /\ step' = "read"
      /\ UNCHANGED <<stack, disk, root, cuts>>
      /\ mount_part \/ UNCHANGED <<curr_part, mounted>>
  BY DEF fs_init_mount, At, scanVars, scanState
<1>2. DiskInv(x) /\ StepInv(x) /\ MountInv(x)
  BY DEF FsInv
<1>3. i \in Formattable(x) /\ Marked(x, i)
  BY <1>1, <1>2 DEF StepInv
<1>4. i \in 1 .. Len(Described(x)) /\ Len(Described(x)) \in Nat
  BY <1>3, DescribedFacts
<1>5. DiskInv(x)' /\ BuildInv(x)' /\ LostInv(x)'
  BY <1>1, QuietStep DEF Writing
<1>6. ASSUME NEW p \in Formattable(x), p < i' PROVE Marked(x, p)'
  <2>1. p \in Int /\ i \in Int
    BY <1>4, DescribedFacts
  <2>2. p < i \/ p = i
    BY <1>1, <1>6, <2>1
  <2> QED
    BY <1>1, <1>2, <1>3, <2>2 DEF StepInv, Marked
<1>7. i' \in 1 .. Len(Described(x)) + 1
  BY <1>1, <1>4
<1>8. StepInv(x)'
  BY <1>1, <1>6, <1>7 DEF StepInv, Writing
<1>9. MountInv(x)'
  <2>1. CASE mount_part
    <3>1. SB(disk[parts[i].start + 1].part) = Block(x, i)
      BY <1>1, <1>3, MarkedBlock
    <3>2. /\ curr_part' = i /\ i < i'
          /\ mounted' = [block_bm |-> Area(Block(x, i).fb_bmap_addr, Block(x, i).fb_bmap_size),
                         inode_bm |-> Area(Block(x, i).in_bmap_addr, Block(x, i).in_bmap_size)]
      BY <1>1, <1>4, <2>1, <3>1 DEF mount_part
    <3>3. \A a, n : Area(a, n)' = Area(a, n)
      BY <1>1 DEF Area
    <3> QED
      BY <1>1, <1>3, <3>2, <3>3 DEF MountInv
  <2>2. CASE UNCHANGED <<curr_part, mounted>>
    <3>1. curr_part # 0 => curr_part \in Formattable(x) /\ curr_part < i'
      <4>1. curr_part # 0 => curr_part \in Int
        BY <1>2, DescribedFacts DEF MountInv
      <4> QED
        BY <1>1, <1>2, <1>4, <4>1 DEF MountInv
    <3> QED
      BY <1>1, <1>2, <2>2, <3>1 DEF MountInv, Area
  <2> QED
    BY <1>1, <2>1, <2>2
<1> QED
  BY <1>5, <1>8, <1>9 DEF FsInv

LEMMA RootInv ==
  ASSUME NEW x \in Layouts, ScanInv(x), FsInv(x), fs_init_root
  PROVE  FsInv(x)'
<1>1. /\ stack = <<>> /\ i = Len(parts) + 1 /\ step = "read" /\ curr_part # 0
      /\ root' = disk[SB(disk[parts[curr_part].start + 1].part).in_array_addr]
      /\ step' = "done"
      /\ UNCHANGED <<stack, disk, i, curr_part, mounted, cuts>>
  BY DEF fs_init_root, scanVars, scanState
<1>2. StepInv(x) /\ MountInv(x)
  BY DEF FsInv
<1>3. i = Len(Described(x)) + 1
  BY <1>1, PartsFound
<1>4. curr_part \in Formattable(x) /\ Marked(x, curr_part)
  BY <1>1, <1>2 DEF MountInv, StepInv
<1>5. root' = disk[Block(x, curr_part).in_array_addr]
  BY <1>1, <1>4, MarkedBlock
<1>6. DiskInv(x)' /\ BuildInv(x)' /\ LostInv(x)'
  BY <1>1, QuietStep DEF Writing
<1>7. \A p : Marked(x, p)' <=> Marked(x, p)
  BY <1>1 DEF Marked
<1>8. StepInv(x)'
  BY <1>1, <1>2, <1>3, <1>7 DEF StepInv, Writing
<1>9. MountInv(x)'
  BY <1>1, <1>2, <1>5 DEF MountInv, Area
<1> QED
  BY <1>6, <1>8, <1>9 DEF FsInv

\* A power failure costs the file system that is being built, no other.
LEMMA RebootInv ==
  ASSUME NEW x \in Layouts, layout = x, FsInv(x), reboot
  PROVE  ScanInv(x)' /\ FsInv(x)'
<1>1. /\ stack' = <<Frame(0)>> /\ i' = 1 /\ step' = "read" /\ curr_part' = 0
      /\ cuts' = cuts + 1 /\ disk' = disk
  BY DEF reboot, ScanAgain
<1>2. DiskInv(x) /\ LostInv(x)
  BY DEF FsInv
<1>3. \A p : /\ ~Building(p)' /\ (Marked(x, p)' <=> Marked(x, p))
             /\ (NoRoot(x, p)' <=> NoRoot(x, p))
             /\ (Whole(x, disk', p) <=> Whole(x, disk, p))
  BY <1>1 DEF Building, Marked, NoRoot, Writing
<1>4. DiskInv(x)'
  <2>1. \A p \in Formattable(x) :
          /\ Marked(x, p)' => disk'[Start(x, p) + 1] = Tag("super_block", p, 0)
          /\ ~Marked(x, p)' \/ Building(p)' => NoRoot(x, p)'
    BY <1>1, <1>2, <1>3 DEF DiskInv
  <2> QED
    BY <1>1, <1>2, <2>1 DEF DiskInv
<1>5. StepInv(x)'
  <2>1. \A p \in Formattable(x) : ~(p < 1)
    BY DescribedFacts
  <2>2. 1 \in 1 .. Len(Described(x)) + 1
    BY DescribedFacts
  <2> QED
    BY <1>1, <2>1, <2>2 DEF StepInv, Writing
<1>6. LostInv(x)'
  <2>1. IsFiniteSet(Lost(x))
    <3>1. Lost(x) \subseteq Formattable(x)
      BY DEF Lost
    <3> QED
      BY <3>1, DescribedFacts, FS_Subset
  <2>2. Lost(x)' \subseteq Lost(x) \cup {i}
    BY <1>1, <1>3 DEF Lost, Building
  <2>3. /\ IsFiniteSet(Lost(x) \cup {i})
        /\ Cardinality(Lost(x) \cup {i}) <= Cardinality(Lost(x)) + 1
        /\ Cardinality(Lost(x)) \in Nat
    <3>1. /\ IsFiniteSet(Lost(x) \cup {i})
          /\ \/ Cardinality(Lost(x) \cup {i}) = Cardinality(Lost(x))
             \/ Cardinality(Lost(x) \cup {i}) = Cardinality(Lost(x)) + 1
      BY <2>1, FS_AddElement
    <3>2. Cardinality(Lost(x)) \in Nat
      BY <2>1, FS_CardinalityType
    <3> QED
      BY <3>1, <3>2
  <2>4. /\ Cardinality(Lost(x)') <= Cardinality(Lost(x) \cup {i})
        /\ Cardinality(Lost(x)') \in Nat /\ Cardinality(Lost(x) \cup {i}) \in Nat
    BY <2>2, <2>3, FS_Subset, FS_CardinalityType
  <2> QED
    BY <1>1, <1>2, <2>3, <2>4 DEF LostInv
<1>7. BuildInv(x)' /\ MountInv(x)'
  BY <1>1 DEF BuildInv, MountInv
<1>8. ScanInv(x)'
  BY StartInv DEF reboot
<1> QED
  BY <1>4, <1>5, <1>6, <1>7, <1>8 DEF FsInv

-----------------------------------------------------------------------------
(* The invariant.                                                          *)

LEMMA InitInv == Init => Inv
<1> SUFFICES ASSUME Init PROVE Inv
  OBVIOUS
<1>1. PICK x \in Layouts : x = layout
  BY DEF Init
<1> DEFINE Written(old) == UNION {FileSystem(x, p) : p \in old}
           Tables == {0} \cup ToSet(x.tables)
<1>2. PICK old \in SUBSET Formattable(x) :
        disk = [s \in Sectors |->
                  IF s \in Tables THEN Table
                  ELSE IF \E w \in Written(old) : w[1] = s
                  THEN (CHOOSE w \in Written(old) : w[1] = s)[2] ELSE Blank]
  BY <1>1 DEF Init, TableSectors
<1>3. PICK ws : ws = Written(old)
  OBVIOUS
<1>4. \A w : w \in ws <=> \E p \in old : w \in FileSystem(x, p)
  BY <1>3
<1> HIDE DEF Written
<1>5. /\ disk = [s \in Sectors |-> disk[s]]
      /\ \A s \in Sectors :
           disk[s] = IF s \in Tables THEN Table
                     ELSE IF \E w \in ws : w[1] = s
                     THEN (CHOOSE w \in ws : w[1] = s)[2] ELSE Blank
  BY <1>2, <1>3
<1>6. ASSUME NEW p \in Formattable(x), NEW n \in Here(x, p)
      PROVE  n \in Sectors /\ n \notin Tables
  BY Geometry
<1>7. ASSUME NEW v \in ws, NEW w \in ws, v[1] = w[1] PROVE v[2] = w[2]
  <2>1. PICK p \in old, q \in old : v \in FileSystem(x, p) /\ w \in FileSystem(x, q)
    BY <1>4
  <2>2. p \in Formattable(x) /\ q \in Formattable(x)
    OBVIOUS
  <2>3. v[1] \in Here(x, p) /\ w[1] \in Here(x, q)
    BY <2>1, <2>2, FileSystemFacts
  <2>4. p = q
    BY <1>7, <2>2, <2>3, Apart
  <2> QED
    BY <1>7, <2>1, <2>2, <2>4, FileSystemFacts
<1>8. ASSUME NEW p \in old PROVE Whole(x, disk, p)
  <2>1. ASSUME NEW w \in FileSystem(x, p) PROVE disk[w[1]] = w[2]
    <3>1. w[1] \in Here(x, p)
      BY FileSystemFacts
    <3>2. w[1] \in Sectors /\ w[1] \notin Tables
      BY <1>6, <3>1
    <3>3. w \in ws
      BY <1>4
    <3>4. PICK v \in ws : v = (CHOOSE u \in ws : u[1] = w[1]) /\ v[1] = w[1]
      BY <3>3
    <3>5. disk[w[1]] = v[2]
      BY <1>5, <3>2, <3>3, <3>4
    <3> QED
      BY <1>7, <3>3, <3>4, <3>5
  <2>2. p \in Formattable(x)
    OBVIOUS
  <2> QED
    BY <2>1, <2>2, WholeFacts
<1>9. ASSUME NEW p \in Formattable(x), p \notin old, NEW n \in Here(x, p)
      PROVE  disk[n] = Blank
  <2>1. ASSUME NEW w \in ws, w[1] = n PROVE FALSE
    <3>1. PICK q \in old : w \in FileSystem(x, q)
      BY <1>4
    <3>2. q \in Formattable(x) /\ q # p
      BY <1>9
    <3>3. n \in Here(x, q)
      BY <2>1, <3>1, <3>2, FileSystemFacts
    <3> QED
      BY <3>2, <3>3, Apart
  <2> QED
    BY <1>5, <1>6, <2>1
<1>10. \A s \in Tables : disk[s] = Table
  <2>1. \A s \in Tables : s \in Sectors
    <3>1. DiskSize \in Nat \ {0} /\ x.tables \in Seq(1 .. DiskSize - 1)
      BY LayoutFacts
    <3>2. \A s \in ToSet(x.tables) : s \in 1 .. DiskSize - 1
      BY <3>1, ToSetIff
    <3> QED
      BY <3>1, <3>2 DEF Sectors
  <2> HIDE DEF Tables
  <2> QED
    BY <1>5, <2>1
<1>11. ASSUME NEW p \in Formattable(x)
       PROVE  /\ Marked(x, p) <=> p \in old
              /\ Marked(x, p) => disk[Start(x, p) + 1] = Tag("super_block", p, 0)
              /\ ~Marked(x, p) => NoRoot(x, p)
  <2>1. CASE p \in old
    <3>1. disk[Start(x, p) + 1] = Tag("super_block", p, 0)
      BY <1>8, <2>1 DEF Whole
    <3>2. Marked(x, p)
      BY <3>1 DEF Marked, Tag
    <3> QED
      BY <2>1, <3>1, <3>2
  <2>2. CASE p \notin old
    <3>1. Start(x, p) + 1 \in Here(x, p) /\ Block(x, p).data_start \in Here(x, p)
      BY InPlace
    <3>2. disk[Start(x, p) + 1] = Blank /\ disk[Block(x, p).data_start] = Blank
      BY <1>9, <2>2, <3>1
    <3>3. ~Marked(x, p)
      BY <3>2 DEF Marked, Blank, Tag
    <3>4. NoRoot(x, p)
      BY <3>2 DEF NoRoot, Blank, Tag
    <3> QED
      BY <2>2, <3>3, <3>4
  <2> QED
    BY <2>1, <2>2
<1>12. i = 1 /\ step = "read" /\ curr_part = 0 /\ cuts = 0 /\ ScanInit
  BY DEF Init
<1>13. \A p : ~Building(p)
  BY <1>12 DEF Building, Writing
<1>14. DiskInv(x)
  BY <1>5, <1>10, <1>11, <1>13 DEF DiskInv
<1>15. StepInv(x)
  <2>1. \A p \in Formattable(x) : ~(p < 1)
    BY DescribedFacts
  <2>2. 1 \in 1 .. Len(Described(x)) + 1
    BY DescribedFacts
  <2> QED
    BY <1>12, <2>1, <2>2 DEF StepInv, Writing
<1>16. LostInv(x)
  <2>1. Lost(x) = {}
    BY <1>8, <1>11 DEF Lost
  <2>2. Cardinality(Lost(x)) = 0
    BY <2>1, FS_EmptySet
  <2> QED
    BY <1>12, <2>2 DEF LostInv
<1>17. BuildInv(x) /\ MountInv(x)
  BY <1>12 DEF BuildInv, MountInv
<1>18. ScanInv(x)
  BY <1>12, InitScanInv
<1> QED
  BY <1>1, <1>14, <1>15, <1>16, <1>17, <1>18 DEF Inv, FsInv

LEMMA NextInv == Inv /\ [Next]_vars => Inv'
<1> SUFFICES ASSUME Inv, [Next]_vars PROVE Inv'
  OBVIOUS
<1>1. PICK x \in Layouts : x = layout /\ ScanInv(x) /\ FsInv(x) /\ DiskInv(x)
  BY DEF Inv, FsInv
<1>2. layout' = layout
  BY DEF Next, Boot, scan_partition, scan_extended, scan_primary, scan_logical,
         scan_unused, scan_return, fs_init, fs_init_skip, fs_init_read, build_fs,
         build_fs_super, set_free_block_bitmap, set_inode_bitmap, set_inode_array,
         set_root_dir, Write, fs_init_mount, fs_init_root, reboot, vars, scanVars
<1>3. SUFFICES ScanInv(x)' /\ FsInv(x)'
  BY <1>1, <1>2 DEF Inv
<1>4. CASE scan_partition /\ UNCHANGED <<fsState, cuts>>
  <2>1. ScanInv(x)'
    BY <1>1, <1>4, UnusedInv, ExtendedInv, PrimaryInv, LogicalInv, ReturnInv
       DEF scan_partition
  <2> QED
    BY <1>1, <1>4, <2>1, ScanFsInv
<1>5. CASE fs_init
  <2>1. UNCHANGED scanState
    BY <1>5 DEF fs_init, fs_init_skip, fs_init_read, build_fs,
         build_fs_super, set_free_block_bitmap, set_inode_bitmap, set_inode_array,
         set_root_dir, Write, fs_init_mount, fs_init_root, scanVars
  <2>2. ScanInv(x)'
    BY <1>1, <2>1 DEF ScanInv, scanState, Scanned, ScanAt
  <2>3. FsInv(x)'
    BY <1>1, <1>5, SkipInv, ReadInv, SuperInv, BlockBitmapInv, InodeBitmapInv,
       InodeArrayInv, RootDirInv, MountStepInv, RootInv DEF fs_init, build_fs
  <2> QED
    BY <2>2, <2>3
<1>6. CASE reboot
  BY <1>1, <1>6, RebootInv
<1>7. CASE UNCHANGED vars
  <2>1. UNCHANGED <<layout, disk, stack, ext_lba_base, master_no, logical_no,
                    prim_parts, logic_parts, panic, i, step, curr_part,
                    mounted, root, cuts>>
    BY <1>7 DEF vars, scanVars, scanState, fsState
  <2>2. ScanInv(x)'
    BY <1>1, <2>1 DEF ScanInv, Scanned, ScanAt
  <2>3. DiskInv(x)' /\ StepInv(x)' /\ BuildInv(x)' /\ LostInv(x)' /\ MountInv(x)'
    BY <1>1, <2>1 DEF FsInv, DiskInv, StepInv, BuildInv, LostInv, MountInv, Lost,
       Marked, Building, NoRoot, Area
  <2> QED
    BY <2>2, <2>3 DEF FsInv
<1> QED
  BY <1>4, <1>5, <1>6, <1>7 DEF Next, Boot

LEMMA InvHolds == Spec => []Inv
  BY InitInv, NextInv, PTL DEF Spec

\* Every write of build_fs is in its partition.
Placed(x, lba) ==
  lba \in Nat /\ Start(x, i) <= lba /\ lba <= Block(x, i).data_start

LEMMA BuildWrites ==
  ASSUME NEW x \in Layouts, ScanInv(x), FsInv(x), build_fs
  PROVE  /\ i \in Formattable(x) /\ step \in {"super_block"} \cup Writing
         /\ \E area, lba, cnt : /\ Placed(x, lba)
                               /\ disk' = ide_write(disk, lba, area, i, cnt)
<1>1. ASSUME i \in Formattable(x)
      PROVE  /\ Placed(x, Start(x, i) + 1) /\ Placed(x, Block(x, i).fb_bmap_addr)
             /\ Placed(x, Block(x, i).in_bmap_addr) /\ Placed(x, Block(x, i).in_array_addr)
             /\ Placed(x, Block(x, i).data_start)
  <2>1. PICK b : b = Block(x, i)
    OBVIOUS
  <2>2. /\ Start(x, i) \in Nat /\ b.fb_bmap_addr \in Nat /\ b.in_bmap_addr \in Nat
        /\ b.in_array_addr \in Nat /\ b.data_start \in Nat
        /\ Start(x, i) + 2 <= b.data_start
        /\ Start(x, i) <= b.fb_bmap_addr /\ Start(x, i) <= b.in_bmap_addr
        /\ Start(x, i) <= b.in_array_addr /\ Start(x, i) <= b.data_start
        /\ b.fb_bmap_addr <= b.data_start /\ b.in_bmap_addr <= b.data_start
        /\ b.in_array_addr <= b.data_start
    BY <1>1, <2>1, AreasInOrder
  <2> QED
    BY <2>1, <2>2 DEF Placed
<1>2. CASE build_fs_super
  <2>1. "super_block" \in {"super_block"} \cup Writing
    BY DEF Writing
  <2>2. Write("super_block", parts[i].start + 1, 1, "block_bitmap")
    BY <1>2 DEF build_fs_super
  <2>3. /\ i \in Formattable(x) /\ parts[i].start = Start(x, i) /\ SB(i) = Block(x, i)
        /\ step = "super_block"
        /\ disk' = ide_write(disk, parts[i].start + 1, "super_block", i, 1)
    BY <2>1, <2>2, WriteAt
  <2>4. Placed(x, parts[i].start + 1)
    BY <1>1, <2>3
  <2> QED
    BY <2>1, <2>3, <2>4
<1>3. CASE set_free_block_bitmap
  <2>1. "block_bitmap" \in {"super_block"} \cup Writing
    BY DEF Writing
  <2>2. Write("block_bitmap", SB(i).fb_bmap_addr, SB(i).fb_bmap_size, "inode_bitmap")
    BY <1>3 DEF set_free_block_bitmap
  <2>3. /\ i \in Formattable(x) /\ parts[i].start = Start(x, i) /\ SB(i) = Block(x, i)
        /\ step = "block_bitmap"
        /\ disk' = ide_write(disk, SB(i).fb_bmap_addr, "block_bitmap", i, SB(i).fb_bmap_size)
    BY <2>1, <2>2, WriteAt
  <2>4. Placed(x, SB(i).fb_bmap_addr)
    BY <1>1, <2>3
  <2> QED
    BY <2>1, <2>3, <2>4
<1>4. CASE set_inode_bitmap
  <2>1. "inode_bitmap" \in {"super_block"} \cup Writing
    BY DEF Writing
  <2>2. Write("inode_bitmap", SB(i).in_bmap_addr, SB(i).in_array_size, "inode_array")
    BY <1>4 DEF set_inode_bitmap
  <2>3. /\ i \in Formattable(x) /\ parts[i].start = Start(x, i) /\ SB(i) = Block(x, i)
        /\ step = "inode_bitmap"
        /\ disk' = ide_write(disk, SB(i).in_bmap_addr, "inode_bitmap", i, SB(i).in_array_size)
    BY <2>1, <2>2, WriteAt
  <2>4. Placed(x, SB(i).in_bmap_addr)
    BY <1>1, <2>3
  <2> QED
    BY <2>1, <2>3, <2>4
<1>5. CASE set_inode_array
  <2>1. "inode_array" \in {"super_block"} \cup Writing
    BY DEF Writing
  <2>2. Write("inode_array", SB(i).in_array_addr, SB(i).in_array_size, "root_dir")
    BY <1>5 DEF set_inode_array
  <2>3. /\ i \in Formattable(x) /\ parts[i].start = Start(x, i) /\ SB(i) = Block(x, i)
        /\ step = "inode_array"
        /\ disk' = ide_write(disk, SB(i).in_array_addr, "inode_array", i, SB(i).in_array_size)
    BY <2>1, <2>2, WriteAt
  <2>4. Placed(x, SB(i).in_array_addr)
    BY <1>1, <2>3
  <2> QED
    BY <2>1, <2>3, <2>4
<1>6. CASE set_root_dir
  <2>1. "root_dir" \in {"super_block"} \cup Writing
    BY DEF Writing
  <2>2. Write("root_dir", SB(i).data_start, 1, "mount")
    BY <1>6 DEF set_root_dir
  <2>3. /\ i \in Formattable(x) /\ parts[i].start = Start(x, i) /\ SB(i) = Block(x, i)
        /\ step = "root_dir"
        /\ disk' = ide_write(disk, SB(i).data_start, "root_dir", i, 1)
    BY <2>1, <2>2, WriteAt
  <2>4. Placed(x, SB(i).data_start)
    BY <1>1, <2>3
  <2> QED
    BY <2>1, <2>3, <2>4
<1> QED
  BY <1>2, <1>3, <1>4, <1>5, <1>6 DEF build_fs

-----------------------------------------------------------------------------
(* The theorems.                                                           *)

\* scan_partition, called for every extended entry it meets, finds the
\* partitions that well-formed tables describe, in order and inside its
\* arrays, at every boot: no write of build_fs has reached a table.
THEOREM FindsThePartitionsHolds == Spec => []FindsThePartitions
<1>1. Inv => FindsThePartitions
  <2> SUFFICES ASSUME Inv PROVE FindsThePartitions
    OBVIOUS
  <2>1. PICK x \in Layouts : x = layout /\ ScanInv(x)
    BY DEF Inv
  <2>2. Len(logic_parts) <= LogicLimit /\ Len(prim_parts) <= PrimLimit + 1
    <3>1. PrimLimit \in Nat /\ Len(prim_parts) \in Nat
      BY <2>1, LayoutFacts DEF ScanInv
    <3>2. CASE panic
      BY <2>1, <3>2 DEF ScanInv
    <3>3. CASE ~panic
      BY <2>1, <3>1, <3>3 DEF ScanInv
    <3> QED
      BY <3>2, <3>3
  <2>3. ASSUME stack = <<>>
        PROVE  Places(prim_parts) = PrimariesOf(x) /\ Places(logic_parts) = LogicalsOf(x)
    BY <2>1, <2>3, ScanOver
  <2> QED
    BY <2>1, <2>2, <2>3 DEF FindsThePartitions
<1> QED
  BY <1>1, InvHolds, PTL

\* scan_partition loses its buffer when it has found the last logical
\* partition there is room for, and not before.
LeakInv == leaked \in {0, 1} /\ (leaked = 1 => logical_no >= LogicLimit)

\* The scan of a boot loses nothing but in scan_logical, for the last one.
LEMMA LeakStep == Inv /\ Inv' /\ LeakInv /\ [Next]_vars => LeakInv'
<1> SUFFICES ASSUME Inv, Inv', LeakInv, [Next]_vars PROVE LeakInv'
  OBVIOUS
<1>1. CASE leaked' = leaked /\ logical_no' = logical_no
  BY <1>1 DEF LeakInv
<1>2. CASE scan_logical
  <2>1. PICK n \in Nat : n = logical_no
    BY DEF Inv, ScanInv
  <2>2. PICK c \in Nat : c = LogicLimit
    BY PartitionAssumption
  <2>3. logical_no' = n + 1 /\ logical_no' <= c
    BY <1>2, <2>1, <2>2 DEF scan_logical, Inv, ScanInv
  <2>4. leaked = 0
    BY <2>1, <2>2, <2>3 DEF LeakInv
  <2>5. leaked' = 0 \/ (leaked' = 1 /\ n + 1 >= c)
    BY <1>2, <2>1, <2>2, <2>4 DEF scan_logical
  <2> QED
    BY <2>2, <2>3, <2>5 DEF LeakInv
<1>3. CASE reboot
  BY <1>3 DEF reboot, ScanAgain, LeakInv
<1>4. CASE UNCHANGED vars
  BY <1>1, <1>4 DEF vars, scanVars, scanState
<1>5. CASE scan_partition /\ ~scan_logical
  BY <1>1, <1>5 DEF scan_partition, scan_extended, scan_primary, scan_unused,
                    scan_return
<1>6. CASE fs_init
  <2>1. UNCHANGED scanState
    BY <1>6 DEF fs_init, fs_init_skip, fs_init_read, build_fs,
       build_fs_super, set_free_block_bitmap, set_inode_bitmap, set_inode_array,
       set_root_dir, Write, fs_init_mount, fs_init_root, scanVars
  <2> QED
    BY <1>1, <2>1 DEF scanState
<1> QED
  BY <1>2, <1>3, <1>4, <1>5, <1>6 DEF Next, Boot

\* The frames of the scan are at the tables of the chain, each at its own.
LEMMA FramesApart ==
  ASSUME NEW x \in Layouts, ScanInv(x), NEW j \in DOMAIN stack,
         NEW n \in DOMAIN stack, stack[j].lba = stack[n].lba
  PROVE  j = n
<1>1. PICK k \in 0 .. Len(x.tables), m \in 1 .. Entries + 1 :
        stack = StackAt(x, k, m)
  <2>1. stack # <<>>
    OBVIOUS
  <2> QED
    BY <2>1 DEF ScanInv, Scanned, ScanAt
<1>2. k \in Nat /\ Len(x.tables) \in Nat
  BY LayoutFacts
<1>3. ASSUME NEW q \in DOMAIN stack
      PROVE  /\ q \in 1 .. k + 1 /\ k + 1 - q \in 0 .. Len(x.tables)
             /\ stack[q].lba = Lba(x, k + 1 - q)
  <2> DEFINE B == Below(x, k)
             top == [lba |-> Lba(x, k), i |-> m]
  <2>1. /\ Len(B) = k /\ B \in Seq(Frames)
        /\ \A h \in 1 .. k : B[h].lba = Lba(x, k - h)
    <3>1. m \in Nat
      BY LayoutFacts
    <3>2. B \in Seq(Frames)
      <4>1. PICK s \in Seq(Frames) : s # <<>> /\ s = StackAt(x, k, m)
        BY <3>1, StackFacts
      <4>2. Tail(s) = B
        BY <3>1, <4>1, StackFacts
      <4>3. Tail(s) \in Seq(Frames)
        BY <4>1
      <4> QED
        BY <4>2, <4>3
    <3>3. DOMAIN B = 1 .. k /\ \A h \in 1 .. k : B[h].lba = Lba(x, k - h)
      BY DEF Below
    <3> HIDE DEF B
    <3> QED
      BY <1>2, <3>2, <3>3
  <2>2. stack = <<top>> \o B
    BY <1>1 DEF StackAt
  <2>3. top.lba = Lba(x, k)
    OBVIOUS
  <2> HIDE DEF B, top
  <2>4. /\ q \in 1 .. k + 1
        /\ stack[q] = IF q = 1 THEN top ELSE B[q - 1]
    BY <1>2, <2>1, <2>2
  <2>5. CASE q = 1
    BY <1>2, <2>3, <2>4, <2>5
  <2>6. CASE q # 1
    <3>1. q - 1 \in 1 .. k /\ k - (q - 1) = k + 1 - q
      BY <1>2, <2>4, <2>6
    <3>2. k + 1 - q \in 0 .. Len(x.tables)
      BY <1>2, <2>4, <2>6
    <3> QED
      BY <2>1, <2>4, <2>6, <3>1, <3>2
  <2> QED
    BY <2>5, <2>6
<1>4. PICK a \in 0 .. Len(x.tables), b \in 0 .. Len(x.tables) :
        a = k + 1 - j /\ b = k + 1 - n /\ Lba(x, a) = Lba(x, b)
  BY <1>3
<1>5. a = b
  <2>1. \A h \in 1 .. Len(x.tables) : x.tables[h] # 0
    BY LayoutFacts
  <2>2. \A h, g \in 1 .. Len(x.tables) : x.tables[h] = x.tables[g] => h = g
    BY LayoutFacts
  <2>3. a # 0 => a \in 1 .. Len(x.tables)
    BY <1>2
  <2>4. b # 0 => b \in 1 .. Len(x.tables)
    BY <1>2
  <2> QED
    BY <1>4, <2>1, <2>2, <2>3, <2>4 DEF Lba
<1>6. j \in Nat /\ n \in Nat /\ k + 1 - j = k + 1 - n
  BY <1>2, <1>3, <1>4, <1>5
<1> QED
  BY <1>2, <1>6

(***************************************************************************)
(* scan_partition is never deeper in the chain than it has tables, and a   *)
(* boot never loses more than one of its buffers, on any well-formed disk  *)
(* and after any number of power failures.                                 *)
(***************************************************************************)
THEOREM TablesScannedOnceHolds == Spec => []TablesScannedOnce
<1>1. Init => LeakInv
  BY DEF Init, ScanInit, LeakInv
<1>2. Inv /\ LeakInv => TablesScannedOnce
  BY FramesApart DEF Inv, LeakInv, TablesScannedOnce
<1> QED
  BY <1>1, <1>2, LeakStep, InvHolds, PTL DEF Spec

\* A power failure costs one file system at most, the one that build_fs was
\* writing: the superblock is first, so that no later boot formats the
\* partition again, and the root directory last.
THEOREM OneLostPerCutHolds == Spec => []OneLostPerCut
<1>1. Inv => OneLostPerCut
  <2> SUFFICES ASSUME Inv, Done
               PROVE  Cardinality({p \in Formattable(layout) : ~Complete(disk, p)}) <= cuts
    BY DEF OneLostPerCut
  <2>1. PICK x \in Layouts : x = layout /\ ScanInv(x) /\ StepInv(x) /\ LostInv(x)
    BY DEF Inv, FsInv
  <2>2. i > Len(Described(x)) /\ i \in Int /\ Len(Described(x)) \in Nat
    <3>1. stack = <<>> /\ i > Len(parts)
      BY DEF Done
    <3> QED
      BY <2>1, <3>1, PartsFound, DescribedFacts DEF StepInv
  <2>3. ASSUME NEW p \in Formattable(x)
        PROVE  Marked(x, p) /\ ~Building(p) /\ (Complete(disk, p) <=> Whole(x, disk, p))
    <3>1. p \in 1 .. Len(Described(x))
      BY DescribedFacts
    <3>2. p < i /\ p # i
      BY <2>2, <3>1
    <3>3. Complete(disk, p) <=> Whole(x, disk, p)
      BY <2>1, WholeFacts DEF Complete
    <3> QED
      BY <2>1, <3>2, <3>3 DEF StepInv, Building
  <2>4. {p \in Formattable(x) : ~Complete(disk, p)} = Lost(x)
    BY <2>3 DEF Lost
  <2> QED
    BY <2>1, <2>4 DEF LostInv
<1> QED
  BY <1>1, InvHolds, PTL

\* The bitmaps that mount_part read, and the root inode that open_root read,
\* are those on the disk when fs_init is done: no partition that build_fs
\* formats later reaches into the mounted one.
THEOREM MountMatchesDiskHolds == Spec => []MountMatchesDisk
<1>1. Inv => MountMatchesDisk
  <2> SUFFICES ASSUME Inv, Done, curr_part # 0
               PROVE  LET sb == SB(curr_part)
                      IN  /\ Area(sb.fb_bmap_addr, sb.fb_bmap_size) = mounted.block_bm
                          /\ Area(sb.in_bmap_addr, sb.in_bmap_size) = mounted.inode_bm
                          /\ Complete(disk, curr_part) =>
                               /\ mounted.block_bm =
                                    [k \in 1 .. sb.fb_bmap_size |->
                                       Tag("block_bitmap", curr_part, k - 1)]
                               /\ mounted.inode_bm =
                                    [k \in 1 .. sb.in_bmap_size |->
                                       Tag("inode_bitmap", curr_part, k - 1)]
                               /\ step = "done" => root = Tag("inode_array", curr_part, 0)
    BY DEF MountMatchesDisk
  <2>1. PICK x \in Layouts : x = layout /\ ScanInv(x) /\ MountInv(x)
    BY DEF Inv, FsInv
  <2>2. PICK p, b : p \in Formattable(x) /\ p = curr_part /\ b = Block(x, p)
    BY <2>1 DEF MountInv
  <2>3. SB(curr_part) = b
    <3>1. stack = <<>> /\ p \in 1 .. Len(Described(x))
      BY <2>2, DescribedFacts DEF Done
    <3> QED
      BY <2>1, <2>2, <3>1, PartsFound
  <2>4. /\ mounted.block_bm = Area(b.fb_bmap_addr, b.fb_bmap_size)
        /\ mounted.inode_bm = Area(b.in_bmap_addr, b.in_bmap_size)
        /\ step = "done" => root = disk[b.in_array_addr]
    BY <2>1, <2>2 DEF MountInv
  <2>5. ASSUME NEW area, NEW a \in Nat, NEW n \in Nat, Holds(disk, area, p, a, n)
        PROVE  \A k \in 1 .. n : disk[a + k - 1] = Tag(area, p, k - 1)
    <3>1. \A k \in 1 .. n : k - 1 \in 0 .. n - 1 /\ a + k - 1 = a + (k - 1)
      OBVIOUS
    <3> QED
      BY <2>5, <3>1 DEF Holds
  <2>6. /\ b.fb_bmap_addr \in Nat /\ b.fb_bmap_size \in Nat
        /\ b.in_bmap_addr \in Nat /\ b.in_bmap_size \in Nat
        /\ b.in_array_addr \in Nat /\ b.in_array_size \in Nat /\ b.in_array_size >= 1
    BY <2>2, AreasInOrder
  <2>7. ASSUME Complete(disk, p)
        PROVE  /\ Holds(disk, "block_bitmap", p, b.fb_bmap_addr, b.fb_bmap_size)
               /\ Holds(disk, "inode_bitmap", p, b.in_bmap_addr, b.in_bmap_size)
               /\ disk[b.in_array_addr] = Tag("inode_array", p, 0)
    <3>1. Whole(x, disk, p)
      BY <2>1, <2>2, <2>7, WholeFacts DEF Complete
    <3>2. 0 \in 0 .. b.in_array_size - 1 /\ b.in_array_addr + 0 = b.in_array_addr
      BY <2>6
    <3>3. Holds(disk, "inode_array", p, b.in_array_addr, b.in_array_size)
      BY <2>2, <3>1 DEF Whole
    <3>4. disk[b.in_array_addr] = Tag("inode_array", p, 0)
      BY <3>2, <3>3 DEF Holds
    <3> QED
      BY <2>2, <3>1, <3>4 DEF Whole
  <2>8. Complete(disk, p) =>
          /\ mounted.block_bm = [k \in 1 .. b.fb_bmap_size |-> Tag("block_bitmap", p, k - 1)]
          /\ mounted.inode_bm = [k \in 1 .. b.in_bmap_size |-> Tag("inode_bitmap", p, k - 1)]
          /\ step = "done" => root = Tag("inode_array", p, 0)
    <3> SUFFICES ASSUME Complete(disk, p)
                 PROVE  /\ Area(b.fb_bmap_addr, b.fb_bmap_size) =
                             [k \in 1 .. b.fb_bmap_size |-> Tag("block_bitmap", p, k - 1)]
                        /\ Area(b.in_bmap_addr, b.in_bmap_size) =
                             [k \in 1 .. b.in_bmap_size |-> Tag("inode_bitmap", p, k - 1)]
                        /\ disk[b.in_array_addr] = Tag("inode_array", p, 0)
      BY <2>4
    <3>1. /\ Holds(disk, "block_bitmap", p, b.fb_bmap_addr, b.fb_bmap_size)
          /\ Holds(disk, "inode_bitmap", p, b.in_bmap_addr, b.in_bmap_size)
          /\ disk[b.in_array_addr] = Tag("inode_array", p, 0)
      BY <2>7
    <3>2. Area(b.fb_bmap_addr, b.fb_bmap_size) =
            [k \in 1 .. b.fb_bmap_size |-> Tag("block_bitmap", p, k - 1)]
      <4>1. \A k \in 1 .. b.fb_bmap_size :
              disk[b.fb_bmap_addr + k - 1] = Tag("block_bitmap", p, k - 1)
        BY <2>5, <2>6, <3>1
      <4> QED
        BY <4>1 DEF Area
    <3>3. Area(b.in_bmap_addr, b.in_bmap_size) =
            [k \in 1 .. b.in_bmap_size |-> Tag("inode_bitmap", p, k - 1)]
      <4>1. \A k \in 1 .. b.in_bmap_size :
              disk[b.in_bmap_addr + k - 1] = Tag("inode_bitmap", p, k - 1)
        BY <2>5, <2>6, <3>1
      <4> QED
        BY <4>1 DEF Area
    <3> QED
      BY <3>1, <3>2, <3>3
  <2> QED
    BY <2>2, <2>3, <2>4, <2>8
<1> QED
  BY <1>1, InvHolds, PTL

\* fs_init does not format a whole file system again, and no write of
\* build_fs for another partition, with all its MaxSectors sectors, reaches
\* it.
THEOREM WholeStaysWholeHolds == Spec => WholeStaysWhole
<1>1. Inv /\ [Next]_vars =>
        [\A p \in Formattable(layout) : Complete(disk, p) => Complete(disk', p)]_vars
  <2> SUFFICES ASSUME Inv, Next, NEW p \in Formattable(layout), Complete(disk, p)
               PROVE  Complete(disk', p)
    OBVIOUS
  <2>1. PICK x \in Layouts : x = layout /\ ScanInv(x) /\ FsInv(x) /\ DiskInv(x) /\ StepInv(x)
    BY DEF Inv, FsInv
  <2>2. p \in Formattable(x) /\ Whole(x, disk, p)
    BY <2>1, WholeFacts DEF Complete
  <2>3. SUFFICES Whole(x, disk', p)
    BY <2>1, <2>2, WholeFacts DEF Complete
  <2>4. CASE disk' = disk
    BY <2>2, <2>4
  <2>5. CASE build_fs
    <3>1. i \in Formattable(x) /\ step \in {"super_block"} \cup Writing
      BY <2>1, <2>5, BuildWrites
    <3>2. PICK area, lba, cnt : /\ Placed(x, lba)
                                /\ disk' = ide_write(disk, lba, area, i, cnt)
      BY <2>1, <2>5, BuildWrites
    <3>3. NoRoot(x, i)
      BY <2>1, <3>1 DEF StepInv, DiskInv, Building
    <3>4. p # i
      BY <2>2, <3>3 DEF NoRoot, Whole
    <3>5. \A n \in Here(x, p) : disk'[n] = disk[n]
      BY <2>1, <2>2, <3>1, <3>2, <3>4, WriteFacts DEF Placed
    <3> QED
      BY <2>2, <3>5, Untouched
  <2>6. disk' = disk \/ build_fs
    BY DEF Next, Boot, scan_partition, scan_extended, scan_primary, scan_logical,
       scan_unused, scan_return, fs_init, fs_init_skip, fs_init_read, fs_init_mount,
       fs_init_root, reboot, scanVars
  <2> QED
    BY <2>4, <2>5, <2>6
<1> QED
  BY <1>1, InvHolds, PTL DEF Spec, WholeStaysWhole
=============================================================================
