-------------------------------- MODULE Heap --------------------------------
(***************************************************************************)
(* The heap of kernel/memory.c: sys_malloc and sys_free, over the pages of *)
(* malloc_page and free_page.                                              *)
(*                                                                         *)
(* A call of either runs with the mutex of its pool locked from its first  *)
(* access to the heap to its last, so it is one action (Thread shows that  *)
(* the mutex excludes, Memory that the pages of a range are its own).      *)
(* There is one heap for all kernel threads and one for each process; this *)
(* is one of them.  Addresses are those of the bytes: page p starts at     *)
(* p * PageSize.                                                           *)
(* A call that finds no range for its pages, or asks for more than the     *)
(* pool has, returns NULL and changes nothing: a stuttering step.  When    *)
(* the frames for a range run out, NULL is returned too, but the range     *)
(* stays taken.                                                            *)
(***************************************************************************)
EXTENDS Integers, Sequences, FiniteSets, SequencesExt

CONSTANTS
  PageSize,    \* PAGE_SIZE, 4096
  ArenaSize,   \* sizeof(arena), 12
  MinBlock,    \* the smallest block_size, 16
  DescCnt,     \* MEM_BLOCK_DESC_CNT, 7
  PageCnt,     \* the pages malloc_page can give this heap
  Sizes,       \* the sizes callers ask for
  NULL

\* descs[i].block_size and descs[i].blocks_cnt, set by mem_block_init.
block_size[i \in 0 .. DescCnt - 1] ==
  IF i = 0 THEN MinBlock ELSE 2 * block_size[i - 1]

blocks_cnt(i) == (PageSize - ArenaSize) \div block_size[i]

Descs == 0 .. DescCnt - 1

\* arena; cnt is the free blocks of a small one, the pages of a large one.
Arenas == [desc : Descs \cup {NULL}, cnt : Nat, large : BOOLEAN]

ASSUME HeapAssumption ==
  /\ {PageSize, ArenaSize, MinBlock, DescCnt, PageCnt} \subseteq Nat \ {0}
  /\ ArenaSize + block_size[DescCnt - 1] <= PageSize
  /\ Sizes \subseteq Nat
  /\ NULL \notin Nat \cup Arenas

Pages == 0 .. PageCnt - 1

VARIABLES
  arena,       \* the arena at the start of a page, or NULL
  mapped,      \* the pages vaddr_get has taken
  lost,        \* those of them malloc_page had no frames for (history)
  block_list,  \* descs[i].block_list, as the addresses of its blocks
  live         \* the allocations <<address, size>> callers have

vars == <<arena, mapped, lost, block_list, live>>

Init ==
  /\ arena = [p \in Pages |-> NULL]
  /\ mapped = {} /\ lost = {}
  /\ block_list = [i \in Descs |-> <<>>]
  /\ live = {}

-----------------------------------------------------------------------------
Run(p, n) == p .. p + n - 1

\* vaddr_get: some run of n free pages.
FreeRuns(n) == {p \in Pages : Run(p, n) \subseteq Pages \ mapped}

arena_to_block(p, i, idx) == p * PageSize + ArenaSize + idx * block_size[i]

block_to_arena(ptr) == ptr \div PageSize

Blocks(p, i) == {arena_to_block(p, i, idx) : idx \in 0 .. blocks_cnt(i) - 1}

\* The block_list of a new arena, in the order the blocks are pushed.
NewBlocks(p, i) == [k \in 1 .. blocks_cnt(i) |-> arena_to_block(p, i, k - 1)]

\* The first desc whose blocks are large enough.
Fits(size) == {i \in Descs : size <= block_size[i]}
DescFor(size) == CHOOSE i \in Fits(size) : \A j \in Fits(size) : i <= j

DIV_ROUND_UP(x, step) == (x + step - 1) \div step

\* Mutant: the pages for the arena are forgotten.
malloc_large_NoHeader(size) ==
  LET page_cnt == DIV_ROUND_UP(size, PageSize)
  IN  /\ Fits(size) = {}
      /\ \E p \in FreeRuns(page_cnt) :
           /\ mapped' = mapped \cup Run(p, page_cnt)
           /\ arena' = [arena EXCEPT ![p] =
                          [desc |-> NULL, cnt |-> page_cnt, large |-> TRUE]]
           /\ live' = live \cup {<<p * PageSize + ArenaSize, size>>}
      /\ UNCHANGED <<lost, block_list>>

\* More than the largest block: pages of its own, with an arena in front.
malloc_large(size) ==
  LET page_cnt == DIV_ROUND_UP(size + ArenaSize, PageSize)
  IN  /\ Fits(size) = {}
      /\ \E p \in FreeRuns(page_cnt) :
           /\ mapped' = mapped \cup Run(p, page_cnt)
           /\ arena' = [arena EXCEPT ![p] =
                          [desc |-> NULL, cnt |-> page_cnt, large |-> TRUE]]
           /\ live' = live \cup {<<p * PageSize + ArenaSize, size>>}
      /\ UNCHANGED <<lost, block_list>>

\* The block_list is empty: a new arena, whose first block is the result.
malloc_arena(size) ==
  LET i == DescFor(size)
  IN  /\ Fits(size) # {} /\ block_list[i] = <<>>
      /\ \E p \in FreeRuns(1) :
           /\ mapped' = mapped \cup {p}
           /\ arena' = [arena EXCEPT ![p] =
                [desc |-> i, cnt |-> blocks_cnt(i) - 1, large |-> FALSE]]
           /\ block_list' = [block_list EXCEPT ![i] = Tail(NewBlocks(p, i))]
           /\ live' = live \cup {<<Head(NewBlocks(p, i)), size>>}
      /\ UNCHANGED lost

\* Mutant: the block stays in the block_list.
malloc_block_NoPop(size) ==
  LET i   == DescFor(size)
      ptr == Head(block_list[i])
  IN  /\ Fits(size) # {} /\ block_list[i] # <<>>
      /\ arena' = [arena EXCEPT ![block_to_arena(ptr)].cnt = @ - 1]
      /\ live' = live \cup {<<ptr, size>>}
      /\ UNCHANGED <<mapped, lost, block_list>>

\* The first block of the block_list.
malloc_block(size) ==
  LET i   == DescFor(size)
      ptr == Head(block_list[i])
  IN  /\ Fits(size) # {} /\ block_list[i] # <<>>
      /\ block_list' = [block_list EXCEPT ![i] = Tail(@)]
      /\ arena' = [arena EXCEPT ![block_to_arena(ptr)].cnt = @ - 1]
      /\ live' = live \cup {<<ptr, size>>}
      /\ UNCHANGED <<mapped, lost>>

(***************************************************************************)
(* palloc has no frame for one of the pages: malloc_page returns NULL and  *)
(* gives nothing back, neither the range nor the frames mapped before.     *)
(***************************************************************************)
malloc_fail(size) ==
  LET large    == Fits(size) = {}
      page_cnt == IF large THEN DIV_ROUND_UP(size + ArenaSize, PageSize) ELSE 1
  IN  /\ ~large => block_list[DescFor(size)] = <<>>
      /\ \E p \in FreeRuns(page_cnt) :
           /\ mapped' = mapped \cup Run(p, page_cnt)
           /\ lost' = lost \cup Run(p, page_cnt)
      /\ UNCHANGED <<arena, block_list, live>>

sys_malloc(size) == \/ malloc_large(size) \/ malloc_arena(size)
                    \/ malloc_block(size) \/ malloc_fail(size)

-----------------------------------------------------------------------------
\* Mutant: only the first page is freed.
free_large_One(a) ==
  LET p == block_to_arena(a[1])
  IN  /\ arena[p].large
      /\ mapped' = mapped \ {p}
      /\ arena' = [arena EXCEPT ![p] = NULL]
      /\ live' = live \ {a}
      /\ UNCHANGED <<lost, block_list>>

free_large(a) ==
  LET p == block_to_arena(a[1])
  IN  /\ arena[p].large
      /\ mapped' = mapped \ Run(p, arena[p].cnt)
      /\ arena' = [arena EXCEPT ![p] = NULL]
      /\ live' = live \ {a}
      /\ UNCHANGED <<lost, block_list>>

\* The block goes to the end of its list, ...
free_block(a) ==
  LET p == block_to_arena(a[1])
      i == arena[p].desc
  IN  /\ ~arena[p].large /\ arena[p].cnt + 1 # blocks_cnt(i)
      /\ block_list' = [block_list EXCEPT ![i] = Append(@, a[1])]
      /\ arena' = [arena EXCEPT ![p].cnt = @ + 1]
      /\ live' = live \ {a}
      /\ UNCHANGED <<mapped, lost>>

\* Mutant: the blocks of the freed page stay in the list.
free_arena_Dangling(a) ==
  LET p == block_to_arena(a[1])
      i == arena[p].desc
  IN  /\ ~arena[p].large /\ arena[p].cnt + 1 = blocks_cnt(i)
      /\ block_list' = [block_list EXCEPT ![i] = Append(@, a[1])]
      /\ mapped' = mapped \ {p}
      /\ arena' = [arena EXCEPT ![p] = NULL]
      /\ live' = live \ {a}
      /\ UNCHANGED lost

\* The list without these blocks, the others in their order.
Without(list, blocks) ==
  LET kept[k \in 0 .. Len(list)] ==
        IF k = 0 THEN <<>>
        ELSE IF list[k] \in blocks THEN kept[k - 1]
        ELSE Append(kept[k - 1], list[k])
  IN  kept[Len(list)]

\* ... and when it was the last of its arena, all of them leave the list and
\* the page is freed.
free_arena(a) ==
  LET p == block_to_arena(a[1])
      i == arena[p].desc
  IN  /\ ~arena[p].large /\ arena[p].cnt + 1 = blocks_cnt(i)
      /\ block_list' = [block_list EXCEPT ![i] =
                         Without(Append(@, a[1]), Blocks(p, i))]
      /\ mapped' = mapped \ {p}
      /\ arena' = [arena EXCEPT ![p] = NULL]
      /\ live' = live \ {a}
      /\ UNCHANGED lost

sys_free(a) == free_large(a) \/ free_block(a) \/ free_arena(a)

Next == \/ \E size \in Sizes : sys_malloc(size)
        \/ \E a \in live : sys_free(a)

Spec == Init /\ [][Next]_vars

-----------------------------------------------------------------------------
(* Properties.                                                             *)

SmallArenas(i) == {p \in Pages : arena[p] # NULL /\ arena[p].desc = i}
Given == {a[1] : a \in live}

(***************************************************************************)
(* A block of an arena is with a caller or in the block_list of its desc,  *)
(* once, and never both; a block_list has no block of a page that was      *)
(* freed; and the cnt of an arena, which decides when sys_free gives its   *)
(* page back, is the number of its blocks in the list.                     *)
(***************************************************************************)
BlocksAccounted ==
  \A i \in Descs :
    /\ IsInjective(block_list[i])
    /\ ToSet(block_list[i]) =
         (UNION {Blocks(p, i) : p \in SmallArenas(i)}) \ Given
    /\ \A p \in SmallArenas(i) :
         arena[p].cnt = Cardinality(Blocks(p, i) \cap ToSet(block_list[i]))

\* The pages an allocation keeps mapped.
PagesFor(a) == LET p == block_to_arena(a[1])
               IN  IF arena[p].large THEN Run(p, arena[p].cnt) ELSE {p}

(***************************************************************************)
(* Every page that is taken is one of a live allocation or was lost by a   *)
(* malloc_page that failed, and never both: sys_free gives back the page   *)
(* of an arena with its last block, and all pages of a large allocation,   *)
(* none too early; and a range that was lost is never given out again.     *)
(***************************************************************************)
PagesReturned == LET own == UNION {PagesFor(a) : a \in live}
                 IN  mapped = own \cup lost /\ own \cap lost = {}

\* An allocation lies in its pages and after the arena.
InsideItsPages ==
  \A a \in live : LET p == block_to_arena(a[1])
                      n == Cardinality(PagesFor(a))
                  IN  /\ arena[p] # NULL
                      /\ a[1] >= p * PageSize + ArenaSize
                      /\ a[1] + a[2] <= (p + n) * PageSize

-----------------------------------------------------------------------------
\* live is a history variable: what the calls have returned and taken back.
A == INSTANCE Allocator WITH live <- live

\* For its callers, the heap is the abstract allocator: no two allocations
\* overlap, whatever was allocated and freed before.
ImplementsAllocator == A!Spec
=============================================================================
