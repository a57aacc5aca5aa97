----------------------------- MODULE HeapProofs -----------------------------
(***************************************************************************)
(* Proofs about the heap, for any sizes of pages, arenas, blocks and       *)
(* requests, and any number of pages.                                      *)
(***************************************************************************)
EXTENDS Heap, Facts, FiniteSetTheorems, TLAPS

-----------------------------------------------------------------------------
(* The inductive invariant.                                                *)

TypeInv ==
  /\ arena \in [Pages -> Arenas \cup {NULL}]
  /\ mapped \subseteq Pages
  /\ block_list \in [Descs -> Seq(Nat)]
  /\ live \subseteq Nat \X Sizes

\* What is known of a page: the allocations and the free blocks in it.
Mine(p) == {a \in live : block_to_arena(a[1]) = p}
FreeIn(p, i) == {x \in ToSet(block_list[i]) : block_to_arena(x) = p}

\* A large allocation is alone and fits the pages of its arena.
LargeOK(p) ==
  /\ arena[p].desc = NULL /\ arena[p].cnt >= 1
  /\ \E size \in Sizes : /\ Mine(p) = {<<p * PageSize + ArenaSize, size>>}
                         /\ ArenaSize + size <= arena[p].cnt * PageSize

\* The blocks of an arena are given or free, and one of them is given.
SmallOK(p, i) ==
  /\ i \in Descs
  /\ Mine(p) # {}
  /\ \A a \in Mine(p) : a[1] \in Blocks(p, i) /\ a[2] <= block_size[i]
  /\ \A a, b \in Mine(p) : a[1] = b[1] => a = b
  /\ FreeIn(p, i) = Blocks(p, i) \ {a[1] : a \in Mine(p)}
  /\ arena[p].cnt = Cardinality(FreeIn(p, i))

PageOK(p) ==
  IF arena[p] = NULL
  THEN Mine(p) = {} /\ \A i \in Descs : FreeIn(p, i) = {}
  ELSE /\ IF arena[p].large THEN LargeOK(p) ELSE SmallOK(p, arena[p].desc)
       /\ \A i \in Descs : i # arena[p].desc => FreeIn(p, i) = {}

PageInv == \A p \in Pages : PageOK(p)

\* All that is given or free is in a page of the heap, in one place.
InPages ==
  /\ \A a \in live : block_to_arena(a[1]) \in Pages
  /\ \A i \in Descs : /\ IsInjective(block_list[i])
                      /\ \A x \in ToSet(block_list[i]) : block_to_arena(x) \in Pages

\* The pages of an arena.
Used == {p \in Pages : arena[p] # NULL}
Extent(p) == IF arena[p].large THEN Run(p, arena[p].cnt) ELSE {p}

\* The pages that are taken are those of the arenas, which are apart, and the
\* lost ones.
ExtentInv ==
  /\ \A p \in Used : p \in Extent(p) /\ Extent(p) \cap lost = {}
  /\ mapped = lost \cup UNION {Extent(p) : p \in Used}
  /\ \A p, q \in Used : p # q => Extent(p) \cap Extent(q) = {}

Inv == TypeInv /\ PageInv /\ InPages /\ ExtentInv

-----------------------------------------------------------------------------
(* The sizes of the blocks.                                                *)

\* The assumptions, as the proofs use them.
LEMMA Sizing == /\ PageSize \in Nat \ {0} /\ ArenaSize \in Nat \ {0}
                /\ MinBlock \in Nat \ {0} /\ DescCnt \in Nat \ {0}
                /\ PageCnt \in Nat \ {0} /\ DescCnt - 1 \in Nat
                /\ Pages \subseteq Nat /\ Descs \subseteq Nat
  BY HeapAssumption DEF Pages, Descs

\* mem_block_init: every block_size is twice the one before.
LEMMA BlockSizes ==
  /\ block_size \in [Descs -> Nat \ {0}]
  /\ \A i \in Descs : i # 0 => block_size[i] = 2 * block_size[i - 1]
<1> DEFINE X == Nat \ {0}
           step == [k \in Nat |-> [x \in X |-> 2 * x]]
           Loop(f) == [i \in 0 .. DescCnt - 1 |->
                         IF i = 0 THEN MinBlock ELSE 2 * f[i - 1]]
<1>1. PICK f \in [0 .. DescCnt - 1 -> X] :
        f[0] = MinBlock /\ \A k \in 1 .. DescCnt - 1 : f[k] = step[k][f[k - 1]]
  <2>1. step \in [Nat -> [X -> X]]
    OBVIOUS
  <2>2. PICK n \in Nat : n = DescCnt - 1
    BY Sizing
  <2>3. MinBlock \in X
    BY Sizing
  <2> HIDE DEF step, X
  <2>4. PICK f : Iterated(f, n, X, MinBlock, step)
    BY <2>1, <2>3, Iterates
  <2> QED
    BY <2>2, <2>4 DEF Iterated
<1>2. f = Loop(f)
  <2>1. ASSUME NEW i \in 0 .. DescCnt - 1, i # 0 PROVE f[i] = 2 * f[i - 1]
    <3>1. i \in 1 .. DescCnt - 1 /\ i - 1 \in 0 .. DescCnt - 1 /\ i \in Nat
      BY <2>1, Sizing
    <3> QED
      BY <1>1, <3>1
  <2> QED
    BY <1>1, <2>1
<1>3. block_size = CHOOSE g : g = Loop(g)
  BY DEF block_size
<1>4. block_size = Loop(block_size)
  <2> HIDE DEF Loop
  <2> QED
    BY <1>2, <1>3
<1>5. ASSUME NEW i \in Descs, block_size[i] \notin X PROVE FALSE
  <2> DEFINE T == {k \in Descs : block_size[k] \notin X}
  <2>1. T \in SUBSET Nat /\ T # {}
    BY <1>5, Sizing
  <2>2. PICK k \in T : \A j \in T : k <= j
    BY <2>1, LeastNumber
  <2>3. k # 0
    BY <1>4, <2>2, Sizing DEF Descs
  <2>4. k - 1 \in Descs /\ k - 1 \notin T
    <3>1. k \in Nat /\ k \in Descs
      BY <2>1, <2>2
    <3>2. k - 1 \in Descs
      BY <2>3, <3>1, Sizing DEF Descs
    <3> HIDE DEF T
    <3> QED
      BY <2>1, <2>2, <3>1, <3>2
  <2>5. block_size[k - 1] \in X /\ block_size[k] = 2 * block_size[k - 1]
    BY <1>4, <2>2, <2>3, <2>4 DEF Descs
  <2> QED
    BY <2>2, <2>5
<1>6. block_size \in [Descs -> X]
  BY <1>4, <1>5 DEF Descs
<1> QED
  BY <1>4, <1>6 DEF Descs

\* A block of every size fits a page, with its arena.
LEMMA BlockFits ==
  ASSUME NEW i \in Descs
  PROVE  ArenaSize + block_size[i] <= PageSize
<1> DEFINE T == {k \in Nat : \E j \in Descs :
                               /\ k = DescCnt - 1 - j
                               /\ ArenaSize + block_size[j] > PageSize}
<1>1. SUFFICES ASSUME ArenaSize + block_size[i] > PageSize PROVE FALSE
  BY BlockSizes, Sizing
<1>2. T \in SUBSET Nat /\ DescCnt - 1 - i \in T
  BY <1>1, Sizing DEF Descs
<1>3. PICK k \in T : \A j \in T : k <= j
  BY <1>2, LeastNumber
<1>4. PICK j \in Descs : k = DescCnt - 1 - j /\ ArenaSize + block_size[j] > PageSize
  BY <1>3
<1>5. CASE j = DescCnt - 1
  BY <1>4, <1>5, HeapAssumption, BlockSizes, Sizing
<1>6. CASE j # DescCnt - 1
  <2>1. j + 1 \in Descs /\ j + 1 # 0 /\ j + 1 - 1 = j
    BY <1>6, Sizing DEF Descs
  <2>2. block_size[j + 1] = 2 * block_size[j]
    <3>1. PICK m \in Descs : m = j + 1
      BY <2>1
    <3>2. m # 0 /\ m - 1 = j
      BY <2>1, <3>1
    <3>3. block_size[m] = 2 * block_size[m - 1]
      BY <3>2, BlockSizes
    <3> QED
      BY <3>1, <3>2, <3>3
  <2>3. block_size[j] \in Nat /\ block_size[j + 1] \in Nat
    BY <2>1, BlockSizes
  <2>4. ArenaSize + block_size[j + 1] > PageSize
    BY <1>4, <2>2, <2>3, Sizing
  <2>5. DescCnt - 1 - (j + 1) \in T
    BY <2>1, <2>4, Sizing DEF Descs
  <2> HIDE DEF T
  <2>6. k \in Nat /\ k <= DescCnt - 1 - (j + 1)
    BY <1>2, <1>3, <2>5
  <2>7. j \in Nat /\ DescCnt \in Nat
    BY Sizing
  <2>8. DescCnt - 1 - j <= DescCnt - 1 - (j + 1)
    BY <1>4, <2>6
  <2> QED
    BY <2>7, <2>8
<1> QED
  BY <1>5, <1>6

\* The number of blocks of an arena.
LEMMA BlockCounts ==
  ASSUME NEW i \in Descs
  PROVE  /\ blocks_cnt(i) \in Nat \ {0}
         /\ blocks_cnt(i) * block_size[i] <= PageSize - ArenaSize
<1>1. PICK s \in Nat \ {0} : s = block_size[i]
  BY BlockSizes
<1>2. PICK n \in Nat : n = PageSize - ArenaSize
  BY BlockFits, <1>1, Sizing, PageSize - ArenaSize \in Nat
<1>3. s <= n
  BY BlockFits, <1>1, <1>2, Sizing
<1>4. PICK q \in Nat : q = n \div s
  BY Division
<1>5. q * s <= n /\ n < q * s + s
  BY <1>4, Division
<1>6. q # 0
  BY <1>3, <1>5
<1>7. blocks_cnt(i) = q
  BY <1>1, <1>2, <1>4 DEF blocks_cnt
<1> QED
  BY <1>1, <1>2, <1>5, <1>6, <1>7

\* A block lies in the page of its arena, after the arena.
LEMMA BlockPlace ==
  ASSUME NEW p \in Nat, NEW i \in Descs, NEW idx \in 0 .. blocks_cnt(i) - 1,
         NEW x, x = arena_to_block(p, i, idx)
  PROVE  /\ x \in Nat /\ block_to_arena(x) = p
         /\ p * PageSize + ArenaSize <= x
         /\ x + block_size[i] <= p * PageSize + PageSize
<1>1. PICK s \in Nat \ {0} : s = block_size[i]
  BY BlockSizes
<1>2. PICK n \in Nat \ {0} : n = blocks_cnt(i)
  BY BlockCounts
<1>3. n * s <= PageSize - ArenaSize
  BY <1>1, <1>2, BlockCounts
<1>4. PICK k \in Nat : k = n - 1 - idx
  BY <1>2, n - 1 - idx \in Nat
<1>5. idx \in Nat /\ idx * s \in Nat /\ k * s \in Nat
  BY <1>2
<1>6. idx * s + s + k * s = n * s
  BY <1>4, <1>5
<1>7. idx * s + s <= PageSize - ArenaSize
  BY <1>3, <1>5, <1>6, Sizing
<1>8. PICK b \in Nat : b = p * PageSize
  BY Sizing
<1>9. PICK d \in Nat : d = idx * s
  BY <1>5
<1>10. x = b + ArenaSize + d
  BY <1>1, <1>8, <1>9 DEF arena_to_block
<1>11. d + s <= PageSize - ArenaSize
  BY <1>7, <1>9
<1>12. /\ x \in Nat /\ b <= x /\ x < b + PageSize
       /\ b + ArenaSize <= x /\ x + s <= b + PageSize
  BY <1>10, <1>11, Sizing
<1>13. x \div PageSize = p
  BY <1>8, <1>12, Sizing, Quotient
<1> QED
  BY <1>1, <1>8, <1>12, <1>13 DEF block_to_arena

\* Two blocks of an arena do not overlap.
LEMMA BlocksApart ==
  ASSUME NEW p \in Nat, NEW i \in Descs, NEW k \in Nat, NEW j \in Nat, k < j
  PROVE  arena_to_block(p, i, k) + block_size[i] <= arena_to_block(p, i, j)
<1>1. PICK s \in Nat \ {0} : s = block_size[i]
  BY BlockSizes
<1>2. PICK d \in Nat : j = k + 1 + d
  BY j - (k + 1) \in Nat
<1>3. k * s \in Nat /\ d * s \in Nat /\ j * s = k * s + s + d * s
  BY <1>2
<1>4. PICK b \in Nat : b = p * PageSize
  BY Sizing
<1>5. b + ArenaSize + k * s + s <= b + ArenaSize + j * s
  BY <1>3, Sizing
<1> QED
  BY <1>1, <1>4, <1>5 DEF arena_to_block

\* What a block is, without its index.
LEMMA BlockFacts ==
  ASSUME NEW p \in Nat, NEW i \in Descs
  PROVE  /\ \A x \in Blocks(p, i) :
              /\ x \in Nat /\ block_to_arena(x) = p
              /\ p * PageSize + ArenaSize <= x
              /\ x + block_size[i] <= p * PageSize + PageSize
         /\ \A x, y \in Blocks(p, i) :
              x # y => \/ x + block_size[i] <= y
                       \/ y + block_size[i] <= x
<1>1. ASSUME NEW x \in Blocks(p, i)
      PROVE  /\ x \in Nat /\ block_to_arena(x) = p
             /\ p * PageSize + ArenaSize <= x
             /\ x + block_size[i] <= p * PageSize + PageSize
  BY BlockPlace DEF Blocks
<1>2. ASSUME NEW x \in Blocks(p, i), NEW y \in Blocks(p, i), x # y
      PROVE  \/ x + block_size[i] <= y
             \/ y + block_size[i] <= x
  <2>1. PICK k \in 0 .. blocks_cnt(i) - 1 : x = arena_to_block(p, i, k)
    BY DEF Blocks
  <2>2. PICK j \in 0 .. blocks_cnt(i) - 1 : y = arena_to_block(p, i, j)
    BY DEF Blocks
  <2>3. k \in Nat /\ j \in Nat /\ k # j
    BY <1>2, <2>1, <2>2, BlockCounts
  <2>4. CASE k < j
    BY <2>1, <2>2, <2>3, <2>4, BlocksApart
  <2>5. CASE j < k
    BY <2>1, <2>2, <2>3, <2>5, BlocksApart
  <2> QED
    BY <2>3, <2>4, <2>5
<1> QED
  BY <1>1, <1>2

\* The blocks of a new arena, as a list and as a set.
LEMMA NewBlockFacts ==
  ASSUME NEW p \in Nat, NEW i \in Descs
  PROVE  /\ NewBlocks(p, i) \in Seq(Nat) /\ NewBlocks(p, i) # <<>>
         /\ IsInjective(NewBlocks(p, i))
         /\ ToSet(NewBlocks(p, i)) = Blocks(p, i)
         /\ IsFiniteSet(Blocks(p, i))
         /\ Cardinality(Blocks(p, i)) = blocks_cnt(i)
<1> DEFINE q == NewBlocks(p, i)
           n == blocks_cnt(i)
<1>1. n \in Nat \ {0}
  BY BlockCounts
<1>2. ASSUME NEW k \in 1 .. n
      PROVE  k - 1 \in 0 .. n - 1 /\ arena_to_block(p, i, k - 1) \in Nat
  <2>1. k - 1 \in 0 .. n - 1
    BY <1>1
  <2> QED
    BY <2>1, BlockPlace
<1>3. q \in [1 .. n -> Nat]
  BY <1>2 DEF NewBlocks
<1>4. q \in Seq(Nat) /\ Len(q) = n /\ q # <<>>
  BY <1>1, <1>3
<1>5. ToSet(q) = Blocks(p, i)
  <2>1. ASSUME NEW x PROVE x \in ToSet(q) <=> \E k \in 1 .. n : q[k] = x
    BY <1>4, ToSetIff
  <2>2. ASSUME NEW x \in Blocks(p, i) PROVE \E k \in 1 .. n : q[k] = x
    <3>1. PICK j \in 0 .. n - 1 : x = arena_to_block(p, i, j)
      BY DEF Blocks
    <3>2. j + 1 \in 1 .. n /\ (j + 1) - 1 = j
      BY <1>1
    <3>3. q[j + 1] = arena_to_block(p, i, (j + 1) - 1)
      BY <3>2 DEF NewBlocks
    <3> QED
      BY <3>1, <3>2, <3>3
  <2>3. ASSUME NEW k \in 1 .. n PROVE q[k] \in Blocks(p, i)
    BY <1>2 DEF NewBlocks, Blocks
  <2> QED
    BY <2>1, <2>2, <2>3
<1>6. ASSUME NEW k \in 1 .. n, NEW j \in 1 .. n, q[k] = q[j] PROVE k = j
  <2>1. ASSUME NEW a \in 1 .. n, NEW b \in 1 .. n, a < b PROVE q[a] # q[b]
    <3>1. a - 1 \in Nat /\ b - 1 \in Nat /\ a - 1 < b - 1
      BY <1>1, <2>1
    <3>2. arena_to_block(p, i, a - 1) + block_size[i] <= arena_to_block(p, i, b - 1)
      BY <3>1, BlocksApart
    <3>3. /\ q[a] = arena_to_block(p, i, a - 1)
          /\ q[b] = arena_to_block(p, i, b - 1)
      BY DEF NewBlocks
    <3>4. PICK s \in Nat \ {0} : s = block_size[i]
      BY BlockSizes
    <3>5. PICK u \in Nat : u = arena_to_block(p, i, a - 1)
      BY <1>2
    <3> QED
      BY <3>2, <3>3, <3>4, <3>5
  <2> QED
    BY <1>1, <1>6, <2>1
<1>7. IsInjective(q)
  BY <1>3, <1>6 DEF IsInjective
<1>8. q \in Bijection(1 .. n, Blocks(p, i))
  <2>1. \A x \in Blocks(p, i) : \E k \in 1 .. n : q[k] = x
    BY <1>4, <1>5, ToSetIff
  <2>2. \A k \in 1 .. n : q[k] \in Blocks(p, i)
    BY <1>4, <1>5, ToSetIff
  <2> QED
    BY <1>3, <1>7, <2>1, <2>2 DEF Bijection, Injection, Surjection
<1>9. IsFiniteSet(1 .. n) /\ Cardinality(1 .. n) = n
  <2> HIDE DEF n
  <2>0. 1 \in Int /\ n \in Int
    BY <1>1
  <2>1. /\ IsFiniteSet(1 .. n)
        /\ Cardinality(1 .. n) = IF 1 > n THEN 0 ELSE n - 1 + 1
    BY <2>0, FS_Interval
  <2> QED
    BY <1>1, <2>1
<1>10. IsFiniteSet(Blocks(p, i)) /\ Cardinality(Blocks(p, i)) = n
  <2>1. ExistsBijection(1 .. n, Blocks(p, i))
    BY <1>8 DEF ExistsBijection
  <2> HIDE DEF n
  <2> QED
    BY <1>9, <2>1, FS_Bijection
<1> QED
  BY <1>4, <1>5, <1>7, <1>10

-----------------------------------------------------------------------------
(* The lists.                                                              *)

\* The loop that takes the blocks of an arena out of a list takes these out,
\* and nothing else.
LEMMA WithoutFacts ==
  ASSUME NEW s \in Seq(Nat), NEW S, IsInjective(s)
  PROVE  /\ Without(s, S) \in Seq(Nat) /\ IsInjective(Without(s, S))
         /\ ToSet(Without(s, S)) = ToSet(s) \ S
<1> DEFINE n == Len(s)
           X == Seq(Nat)
           Loop(f) == [k \in 0 .. n |-> IF k = 0 THEN <<>>
                                        ELSE IF s[k] \in S THEN f[k - 1]
                                        ELSE Append(f[k - 1], s[k])]
           step == [k \in Nat |-> [r \in X |->
                      IF k \notin 1 .. n \/ s[k] \in S THEN r
                      ELSE Append(r, s[k])]]
           c == CHOOSE f : f = Loop(f)
<1>1. n \in Nat /\ \A k \in 1 .. n : s[k] \in Nat
  OBVIOUS
<1>2. Without(s, S) = c[n]
  BY DEF Without
<1>3. c = Loop(c)
  <2>1. step \in [Nat -> [X -> X]]
    <3>1. ASSUME NEW k \in Nat, NEW r \in X
          PROVE  (IF k \notin 1 .. n \/ s[k] \in S THEN r ELSE Append(r, s[k])) \in X
      <4>1. CASE k \notin 1 .. n \/ s[k] \in S
        BY <4>1
      <4>2. CASE ~(k \notin 1 .. n \/ s[k] \in S)
        BY <1>1, <4>2
      <4> QED
        BY <4>1, <4>2
    <3> QED
      BY <3>1
  <2>2. <<>> \in X
    OBVIOUS
  <2>3. PICK f : Iterated(f, n, X, <<>>, step)
    <3> HIDE DEF X, step, n
    <3> QED
      BY <1>1, <2>1, <2>2, Iterates
  <2>4. f = Loop(f)
    <3>1. f \in [0 .. n -> X] /\ f[0] = <<>>
      BY <2>3 DEF Iterated
    <3>2. ASSUME NEW k \in 0 .. n, k # 0
          PROVE  f[k] = IF s[k] \in S THEN f[k - 1] ELSE Append(f[k - 1], s[k])
      <4>1. k \in 1 .. n /\ k \in Nat /\ k - 1 \in 0 .. n
        BY <1>1, <3>2
      <4>2. f[k] = step[k][f[k - 1]]
        <5> HIDE DEF step, X, n
        <5> QED
          BY <2>3, <4>1 DEF Iterated
      <4> QED
        BY <3>1, <4>1, <4>2
    <3> QED
      BY <3>1, <3>2
  <2> HIDE DEF Loop
  <2> QED
    BY <2>4
<1> HIDE DEF c
<1> DEFINE Holds(k) == /\ c[k] \in Seq(Nat) /\ IsInjective(c[k])
                       /\ \A x : x \in ToSet(c[k]) <=>
                            x \notin S /\ \E j \in 1 .. k : s[j] = x
<1>4. Holds(0)
  <2>1. c[0] = <<>>
    BY <1>1, <1>3
  <2>2. ToSet(<<>>) = {} /\ IsInjective(<<>>)
    BY DEF ToSet, IsInjective
  <2> QED
    BY <2>1, <2>2
<1>5. ASSUME NEW k \in 1 .. n, Holds(k - 1) PROVE Holds(k)
  <2>1. k \in Nat /\ k # 0 /\ k \in 0 .. n /\ s[k] \in Nat
    BY <1>1
  <2>2. \A x : (\E j \in 1 .. k : s[j] = x)
                 <=> s[k] = x \/ \E j \in 1 .. k - 1 : s[j] = x
    <3>1. \A j : j \in 1 .. k <=> j = k \/ j \in 1 .. k - 1
      BY <2>1
    <3> QED
      BY <3>1
  <2>3. CASE s[k] \in S
    <3>1. c[k] = c[k - 1]
      BY <1>3, <2>1, <2>3
    <3> QED
      BY <1>5, <2>2, <2>3, <3>1
  <2>4. CASE s[k] \notin S
    <3>1. c[k] = Append(c[k - 1], s[k])
      BY <1>3, <2>1, <2>4
    <3>2. s[k] \notin ToSet(c[k - 1])
      <4>1. \A i, j \in 1 .. n : s[i] = s[j] => i = j
        BY DEF IsInjective
      <4>2. ASSUME NEW j \in 1 .. k - 1 PROVE s[j] # s[k]
        BY <2>1, <4>1, j \in 1 .. n /\ j # k
      <4> QED
        BY <1>5, <4>2
    <3>3. /\ Append(c[k - 1], s[k]) \in Seq(Nat)
          /\ IsInjective(Append(c[k - 1], s[k]))
          /\ ToSet(Append(c[k - 1], s[k])) = ToSet(c[k - 1]) \cup {s[k]}
      BY <1>5, <2>1, <3>2, AppendFacts
    <3>4. \A x : x \in ToSet(c[k]) <=> x \in ToSet(c[k - 1]) \/ x = s[k]
      BY <3>1, <3>3
    <3>5. \A x : x \in ToSet(c[k]) <=> x \notin S /\ \E j \in 1 .. k : s[j] = x
      BY <1>5, <2>2, <2>4, <3>4
    <3> QED
      BY <3>1, <3>3, <3>5
  <2> QED
    BY <2>3, <2>4
<1>6. Holds(n)
  <2> DEFINE T == {k \in 0 .. n : ~Holds(k)}
  <2> HIDE DEF Holds
  <2>1. SUFFICES ASSUME T # {} PROVE FALSE
    BY <1>1
  <2>2. T \in SUBSET Nat
    OBVIOUS
  <2>3. PICK k \in T : \A j \in T : k <= j
    BY <2>1, <2>2, LeastNumber
  <2>4. k \in 0 .. n /\ ~Holds(k) /\ k # 0
    BY <1>4, <2>3
  <2>5. k - 1 \in 0 .. n /\ k \in 1 .. n /\ ~(k <= k - 1)
    BY <1>1, <2>4
  <2>6. k - 1 \notin T
    <3> HIDE DEF T
    <3> QED
      BY <2>3, <2>5
  <2>7. Holds(k - 1)
    BY <2>5, <2>6
  <2> QED
    BY <1>5, <2>4, <2>5, <2>7
<1>7. \A x : x \in ToSet(s) <=> \E j \in 1 .. n : s[j] = x
  BY ToSetIff
<1>8. ToSet(c[n]) = ToSet(s) \ S
  BY <1>6, <1>7
<1> QED
  BY <1>2, <1>6, <1>8

-----------------------------------------------------------------------------
(* The parts of the invariant over a step that changes one page.           *)

\* Pages the step leaves alone.
LEMMA PageStep ==
  ASSUME PageInv, NEW p \in Pages, PageOK(p)',
         \A q \in Pages \ {p} : /\ arena'[q] = arena[q] /\ Mine(q)' = Mine(q)
                                /\ \A i \in Descs : FreeIn(q, i)' = FreeIn(q, i)
  PROVE  PageInv'
<1>1. ASSUME NEW q \in Pages \ {p} PROVE PageOK(q)'
  <2>1. PageOK(q) /\ arena'[q] = arena[q] /\ Mine(q)' = Mine(q)
    BY <1>1 DEF PageInv
  <2>2. \A i \in Descs : FreeIn(q, i)' = FreeIn(q, i)
    BY <1>1
  <2>3. LargeOK(q) => LargeOK(q)'
    BY <2>1 DEF LargeOK
  <2>4. ASSUME NEW i, SmallOK(q, i) PROVE SmallOK(q, i)'
    <3>1. i \in Descs /\ FreeIn(q, i)' = FreeIn(q, i) /\ Blocks(q, i)' = Blocks(q, i)
      BY <2>2, <2>4 DEF SmallOK, Blocks, arena_to_block, blocks_cnt
    <3> QED
      BY <2>1, <2>4, <3>1 DEF SmallOK
  <2> QED
    BY <2>1, <2>2, <2>3, <2>4 DEF PageOK
<1> QED
  BY <1>1 DEF PageInv

\* An allocation that is added to or taken from page p.
LEMMA MineStep ==
  ASSUME NEW p, NEW a, block_to_arena(a[1]) = p
  PROVE  /\ live' = live \cup {a} =>
              /\ Mine(p)' = Mine(p) \cup {a}
              /\ \A q : q # p => Mine(q)' = Mine(q)
         /\ live' = live \ {a} =>
              /\ Mine(p)' = Mine(p) \ {a}
              /\ \A q : q # p => Mine(q)' = Mine(q)
  BY DEF Mine, block_to_arena

\* New pages, apart from those of the heap.
LEMMA ExtentAdded ==
  ASSUME ExtentInv, NEW p \in Pages, NEW n \in Nat \ {0},
         Run(p, n) \subseteq Pages \ mapped, mapped \subseteq Pages,
         mapped' = mapped \cup Run(p, n), lost' = lost, arena'[p] # NULL,
         Extent(p)' = Run(p, n),
         \A q \in Pages \ {p} : arena'[q] = arena[q]
  PROVE  ExtentInv' /\ arena[p] = NULL /\ mapped' \subseteq Pages
<1>1. p \in Run(p, n)
  BY Sizing DEF Run
<1>2. p \notin Used
  BY <1>1 DEF ExtentInv
<1>3. \A q \in Pages \ {p} : Extent(q)' = Extent(q)
  BY DEF Extent
<1>4. Used' = Used \cup {p}
  BY <1>2 DEF Used
<1>5. \A q \in Used : q \in Pages \ {p} /\ Extent(q) \subseteq mapped
  BY <1>2 DEF ExtentInv, Used
<1>6. \A q \in Used : Extent(q)' = Extent(q) /\ Extent(q) \cap Run(p, n) = {}
  BY <1>3, <1>5
<1>7. mapped' = lost' \cup UNION {Extent(q)' : q \in Used'}
  BY <1>4, <1>6 DEF ExtentInv
<1>8. \A q \in Used' : q \in Extent(q)' /\ Extent(q)' \cap lost' = {}
  <2>1. Run(p, n) \cap lost = {}
    BY DEF ExtentInv
  <2> QED
    BY <1>1, <1>4, <1>6, <2>1 DEF ExtentInv
<1>9. ASSUME NEW q \in Used', NEW r \in Used', q # r
      PROVE  Extent(q)' \cap Extent(r)' = {}
  BY <1>4, <1>6, <1>9 DEF ExtentInv
<1> QED
  BY <1>2, <1>7, <1>8, <1>9 DEF ExtentInv, Used

\* Pages that are given back.
LEMMA ExtentDropped ==
  ASSUME ExtentInv, NEW p \in Pages, arena[p] # NULL,
         mapped' = mapped \ Extent(p), lost' = lost, arena'[p] = NULL,
         \A q \in Pages \ {p} : arena'[q] = arena[q]
  PROVE  ExtentInv'
<1>1. Used' = Used \ {p} /\ p \in Used
  BY DEF Used
<1>2. \A q \in Used' : Extent(q)' = Extent(q) /\ q \in Used /\ q # p
  BY <1>1 DEF Extent, Used
<1>3. \A q \in Used' : Extent(q) \cap Extent(p) = {}
  BY <1>1, <1>2 DEF ExtentInv
<1>4. mapped' = lost' \cup UNION {Extent(q)' : q \in Used'}
  <2>1. mapped = lost \cup UNION {Extent(q) : q \in Used}
    BY DEF ExtentInv
  <2>2. \A x \in mapped' : x \in lost \/ \E q \in Used' : x \in Extent(q)'
    BY <1>1, <1>2, <2>1
  <2>3. \A q \in Used' : \A x \in Extent(q)' : x \in mapped'
    BY <1>1, <1>2, <1>3, <2>1
  <2>4. \A x \in lost : x \in mapped'
    BY <1>1, <2>1 DEF ExtentInv
  <2> QED
    BY <2>2, <2>3, <2>4
<1>5. \A q \in Used' : q \in Extent(q)' /\ Extent(q)' \cap lost' = {}
  BY <1>2 DEF ExtentInv
<1>6. ASSUME NEW q \in Used', NEW r \in Used', q # r
      PROVE  Extent(q)' \cap Extent(r)' = {}
  BY <1>2, <1>6 DEF ExtentInv
<1> QED
  BY <1>4, <1>5, <1>6 DEF ExtentInv

\* A step that only changes a number of free blocks.
LEMMA ExtentSame ==
  ASSUME ExtentInv, mapped' = mapped, lost' = lost,
         \A q \in Pages : /\ arena'[q] = NULL <=> arena[q] = NULL
                          /\ Extent(q)' = Extent(q)
  PROVE  ExtentInv'
<1>1. Used' = Used /\ Used \subseteq Pages
  BY DEF Used
<1>2. \A q \in Used : Extent(q)' = Extent(q)
  BY <1>1
<1> QED
  BY <1>1, <1>2 DEF ExtentInv

\* A range that is lost.
LEMMA ExtentLost ==
  ASSUME ExtentInv, NEW R, R \subseteq Pages \ mapped,
         mapped' = mapped \cup R, lost' = lost \cup R, arena' = arena
  PROVE  ExtentInv'
<1>1. Used' = Used /\ \A q : Extent(q)' = Extent(q)
  BY DEF Used, Extent
<1>2. \A q \in Used : Extent(q) \subseteq mapped
  BY DEF ExtentInv
<1>3. \A q \in Used : Extent(q) \cap (lost \cup R) = {}
  BY <1>2 DEF ExtentInv
<1>4. mapped' = lost' \cup UNION {Extent(q) : q \in Used}
  BY DEF ExtentInv
<1> QED
  BY <1>1, <1>3, <1>4 DEF ExtentInv

-----------------------------------------------------------------------------
(* The steps.                                                              *)

\* mem_init.
LEMMA InitInv == Init => Inv
<1> SUFFICES ASSUME Init PROVE Inv
  OBVIOUS
<1>1. \A p \in Pages : arena[p] = NULL
  BY DEF Init
<1>2. ToSet(<<>>) = {} /\ IsInjective(<<>>)
  BY DEF ToSet, IsInjective
<1>3. TypeInv
  BY DEF Init, TypeInv
<1>4. PageInv
  BY <1>1, <1>2 DEF PageInv, PageOK, Mine, FreeIn, Init
<1>5. InPages
  BY <1>2 DEF InPages, Init
<1>6. ExtentInv
  <2>1. Used = {}
    BY <1>1 DEF Used
  <2> QED
    BY <2>1 DEF ExtentInv, Init
<1> QED
  BY <1>3, <1>4, <1>5, <1>6 DEF Inv

\* A call of sys_malloc that returns memory.
Gives(size) == \E ptr \in Nat : /\ <<ptr, size>> \notin live
                                /\ live' = live \cup {<<ptr, size>>}

\* The number of pages for a large allocation is enough.
LEMMA RoundUp ==
  ASSUME NEW size \in Nat, NEW n, n = DIV_ROUND_UP(size + ArenaSize, PageSize)
  PROVE  n \in Nat \ {0} /\ ArenaSize + size <= n * PageSize
<1>1. PICK m \in Nat : m = size + ArenaSize + PageSize - 1
  BY Sizing, size + ArenaSize + PageSize - 1 \in Nat
<1>2. n = m \div PageSize
  BY <1>1 DEF DIV_ROUND_UP
<1>3. n \in Nat /\ n * PageSize <= m /\ m < n * PageSize + PageSize
  BY <1>2, Sizing, Division
<1>4. PICK k \in Nat : k = n * PageSize
  BY <1>3, Sizing
<1>5. ArenaSize + size <= k
  BY <1>1, <1>3, <1>4, Sizing
<1>6. n # 0
  BY <1>4, <1>5, Sizing
<1> QED
  BY <1>3, <1>4, <1>5, <1>6

\* The lists are as they were.
LEMMA SameLists ==
  ASSUME InPages, NEW a \in Nat \X Sizes, block_to_arena(a[1]) \in Pages,
         live' = live \cup {a} \/ live' = live \ {a}, UNCHANGED block_list
  PROVE  /\ InPages' /\ \A q, i : FreeIn(q, i)' = FreeIn(q, i)
  BY DEF InPages, FreeIn, block_to_arena

\* An allocation with pages of its own.
LEMMA LargeInv ==
  ASSUME Inv, NEW size \in Sizes, malloc_large(size)
  PROVE  Inv' /\ Gives(size)
<1> DEFINE n == DIV_ROUND_UP(size + ArenaSize, PageSize)
<1>0. lost' = lost
  BY DEF malloc_large
<1>1. /\ TypeInv /\ PageInv /\ InPages /\ ExtentInv /\ size \in Nat
  BY HeapAssumption DEF Inv
<1>2. n \in Nat \ {0} /\ ArenaSize + size <= n * PageSize
  BY <1>1, RoundUp
<1> HIDE DEF n
<1>3. PICK p \in FreeRuns(n) :
        /\ mapped' = mapped \cup Run(p, n)
        /\ arena' = [arena EXCEPT ![p] =
                       [desc |-> NULL, cnt |-> n, large |-> TRUE]]
        /\ live' = live \cup {<<p * PageSize + ArenaSize, size>>}
        /\ UNCHANGED block_list
  BY DEF malloc_large, n
<1> DEFINE r == [desc |-> NULL, cnt |-> n, large |-> TRUE]
           ptr == p * PageSize + ArenaSize
           a == <<ptr, size>>
<1>4. p \in Pages /\ Run(p, n) \subseteq Pages \ mapped /\ p \in Nat
  BY Sizing DEF FreeRuns
<1>5. /\ r \in Arenas /\ r # NULL /\ r.large /\ r.cnt = n /\ r.desc = NULL
  <2>1. r \in Arenas
    BY <1>2 DEF Arenas
  <2>2. r # NULL
    <3> HIDE DEF r
    <3> QED
      BY <2>1, HeapAssumption
  <2>3. r.large /\ r.cnt = n /\ r.desc = NULL
    OBVIOUS
  <2> HIDE DEF r
  <2> QED
    BY <2>1, <2>2, <2>3
<1>6. /\ arena'[p] = r /\ \A q \in Pages \ {p} : arena'[q] = arena[q]
      /\ arena' \in [Pages -> Arenas \cup {NULL}]
  BY <1>1, <1>3, <1>4, <1>5 DEF TypeInv
<1> HIDE DEF r
<1>7. Extent(p)' = Run(p, n)
  BY <1>5, <1>6 DEF Extent, Run
<1>8. ExtentInv' /\ arena[p] = NULL /\ mapped' \subseteq Pages
  BY <1>0, <1>1, <1>2, <1>3, <1>4, <1>5, <1>6, <1>7, ExtentAdded DEF TypeInv
<1>9. ptr \in Nat /\ block_to_arena(ptr) = p
  <2>1. PICK b \in Nat : b = p * PageSize
    BY <1>4, Sizing
  <2>2. ArenaSize < PageSize
    <3>1. 0 \in Descs
      BY Sizing DEF Descs
    <3>2. PICK s \in Nat \ {0} : s = block_size[0]
      BY <3>1, BlockSizes
    <3>3. ArenaSize + s <= PageSize
      BY <3>1, <3>2, BlockFits
    <3> QED
      BY <3>3, Sizing
  <2>3. ptr \in Nat /\ b <= ptr /\ ptr < b + PageSize
    BY <2>1, <2>2, Sizing
  <2> QED
    BY <1>4, <2>1, <2>3, Sizing, Quotient DEF block_to_arena
<1>10. a \in Nat \X Sizes /\ a[1] = ptr /\ block_to_arena(a[1]) = p
  BY <1>9
<1> HIDE DEF a
<1>11. /\ Mine(p)' = Mine(p) \cup {a} /\ \A q : q # p => Mine(q)' = Mine(q)
  BY <1>3, <1>10, MineStep DEF a
<1>12. InPages' /\ \A q, i : FreeIn(q, i)' = FreeIn(q, i)
  BY <1>1, <1>3, <1>4, <1>10, SameLists DEF a
<1>13. Mine(p) = {} /\ \A i \in Descs : FreeIn(p, i) = {}
  BY <1>1, <1>4, <1>8 DEF PageInv, PageOK
<1>14. PageOK(p)'
  <2>1. LargeOK(p)'
    BY <1>2, <1>5, <1>6, <1>11, <1>13 DEF LargeOK, a
  <2> QED
    BY <1>5, <1>6, <1>12, <1>13, <2>1 DEF PageOK
<1>15. PageInv'
  BY <1>1, <1>4, <1>6, <1>11, <1>12, <1>14, PageStep
<1>16. TypeInv'
  BY <1>1, <1>3, <1>6, <1>8, <1>10 DEF TypeInv, a
<1>17. a \notin live
  BY <1>10, <1>13 DEF Mine
<1> QED
  BY <1>3, <1>8, <1>9, <1>12, <1>15, <1>16, <1>17 DEF Inv, Gives, a

\* The desc that sys_malloc chooses.
LEMMA DescFits ==
  ASSUME NEW size \in Sizes, Fits(size) # {}
  PROVE  DescFor(size) \in Descs /\ size <= block_size[DescFor(size)]
<1>1. Fits(size) \in SUBSET Nat
  BY Sizing DEF Fits
<1>2. PICK i \in Fits(size) : \A j \in Fits(size) : i <= j
  BY <1>1, LeastNumber
<1>3. DescFor(size) \in Fits(size)
  BY <1>2 DEF DescFor
<1> QED
  BY <1>3 DEF Fits

\* Lists of which one changes.
LEMMA ListStep ==
  ASSUME TypeInv, InPages, NEW i \in Descs, NEW s \in Seq(Nat), IsInjective(s),
         block_list' = [block_list EXCEPT ![i] = s],
         \A x \in ToSet(s) : block_to_arena(x) \in Pages,
         \A b \in live' : block_to_arena(b[1]) \in Pages
  PROVE  /\ InPages' /\ block_list' \in [Descs -> Seq(Nat)]
         /\ block_list'[i] = s
         /\ \A q : \A j \in Descs : j # i => FreeIn(q, j)' = FreeIn(q, j)
<1>1. /\ block_list'[i] = s /\ block_list' \in [Descs -> Seq(Nat)]
      /\ \A j \in Descs : j # i => block_list'[j] = block_list[j]
  BY DEF TypeInv
<1>2. ASSUME NEW j \in Descs
      PROVE  /\ IsInjective(block_list'[j])
             /\ \A x \in ToSet(block_list'[j]) : block_to_arena(x) \in Pages
  BY <1>1 DEF InPages
<1>3. InPages'
  BY <1>2 DEF InPages, block_to_arena
<1> QED
  BY <1>1, <1>3 DEF FreeIn, block_to_arena

\* The first block of a new arena.
LEMMA ArenaInv ==
  ASSUME Inv, NEW size \in Sizes, malloc_arena(size)
  PROVE  Inv' /\ Gives(size)
<1>0. lost' = lost
  BY DEF malloc_arena
<1>1. /\ TypeInv /\ PageInv /\ InPages /\ ExtentInv /\ size \in Nat
  BY HeapAssumption DEF Inv
<1>2. PICK i \in Descs : i = DescFor(size) /\ size <= block_size[i]
  BY DescFits DEF malloc_arena
<1>3. PICK m \in Nat : m = blocks_cnt(i) - 1
  BY BlockCounts, blocks_cnt(i) - 1 \in Nat
<1>4. PICK p \in FreeRuns(1) :
        /\ mapped' = mapped \cup {p}
        /\ arena' = [arena EXCEPT ![p] =
                       [desc |-> i, cnt |-> m, large |-> FALSE]]
        /\ block_list' = [block_list EXCEPT ![i] = Tail(NewBlocks(p, i))]
        /\ live' = live \cup {<<Head(NewBlocks(p, i)), size>>}
  BY <1>2, <1>3 DEF malloc_arena
<1>5. block_list[i] = <<>>
  BY <1>2 DEF malloc_arena
<1> DEFINE r == [desc |-> i, cnt |-> m, large |-> FALSE]
           new == NewBlocks(p, i)
           ptr == Head(new)
           a == <<ptr, size>>
<1>6. p \in Pages /\ Run(p, 1) \subseteq Pages \ mapped /\ p \in Nat
  BY Sizing DEF FreeRuns
<1>7. Run(p, 1) = {p}
  BY <1>6 DEF Run
<1>8. /\ r \in Arenas /\ r # NULL /\ ~r.large /\ r.cnt = m /\ r.desc = i
  <2>1. r \in Arenas
    BY DEF Arenas
  <2>2. r # NULL
    <3> HIDE DEF r
    <3> QED
      BY <2>1, HeapAssumption
  <2>3. ~r.large /\ r.cnt = m /\ r.desc = i
    OBVIOUS
  <2> HIDE DEF r
  <2> QED
    BY <2>1, <2>2, <2>3
<1>9. /\ arena'[p] = r /\ \A q \in Pages \ {p} : arena'[q] = arena[q]
      /\ arena' \in [Pages -> Arenas \cup {NULL}]
  BY <1>1, <1>4, <1>6, <1>8 DEF TypeInv
<1> HIDE DEF r
<1>10. Extent(p)' = Run(p, 1)
  BY <1>7, <1>8, <1>9 DEF Extent, Run
<1>11. ExtentInv' /\ arena[p] = NULL /\ mapped' \subseteq Pages
  <2>1. 1 \in Nat \ {0}
    OBVIOUS
  <2>2. mapped' = mapped \cup Run(p, 1)
    BY <1>4, <1>7
  <2>3. arena'[p] # NULL
    BY <1>8, <1>9
  <2> QED
    BY <1>0, <1>1, <1>6, <1>9, <1>10, <2>1, <2>2, <2>3, ExtentAdded DEF TypeInv
<1>12. /\ new \in Seq(Nat) /\ new # <<>> /\ IsInjective(new)
       /\ ToSet(new) = Blocks(p, i) /\ IsFiniteSet(Blocks(p, i))
       /\ Cardinality(Blocks(p, i)) = blocks_cnt(i)
  BY <1>6, NewBlockFacts
<1> HIDE DEF new
<1>13. /\ ptr \in Nat /\ Tail(new) \in Seq(Nat) /\ IsInjective(Tail(new))
       /\ ToSet(new) = ToSet(Tail(new)) \cup {ptr} /\ ptr \notin ToSet(Tail(new))
  BY <1>12, TailFacts
<1> HIDE DEF ptr
<1>14. /\ ptr \in Blocks(p, i) /\ ToSet(Tail(new)) = Blocks(p, i) \ {ptr}
  BY <1>12, <1>13
<1>15. \A x \in Blocks(p, i) : block_to_arena(x) = p
  BY <1>6, BlockFacts
<1>16. a \in Nat \X Sizes /\ a[1] = ptr /\ a[2] = size /\ block_to_arena(a[1]) = p
  BY <1>13, <1>14, <1>15
<1>17. live' = live \cup {a} /\ block_list' = [block_list EXCEPT ![i] = Tail(new)]
  BY <1>4 DEF ptr, new
<1> HIDE DEF a
<1>18. /\ Mine(p)' = Mine(p) \cup {a} /\ \A q : q # p => Mine(q)' = Mine(q)
  BY <1>16, <1>17, MineStep
<1>19. Mine(p) = {} /\ \A j \in Descs : FreeIn(p, j) = {}
  BY <1>1, <1>6, <1>11 DEF PageInv, PageOK
<1>20. /\ InPages' /\ block_list' \in [Descs -> Seq(Nat)]
       /\ block_list'[i] = Tail(new)
       /\ \A q : \A j \in Descs : j # i => FreeIn(q, j)' = FreeIn(q, j)
  <2>1. \A x \in ToSet(Tail(new)) : block_to_arena(x) \in Pages
    BY <1>6, <1>14, <1>15
  <2>2. \A b \in live' : block_to_arena(b[1]) \in Pages
    BY <1>1, <1>6, <1>16, <1>17 DEF InPages
  <2> QED
    BY <1>1, <1>13, <1>17, <2>1, <2>2, ListStep
<1>21. FreeIn(p, i)' = Blocks(p, i) \ {ptr}
  BY <1>14, <1>15, <1>20 DEF FreeIn, block_to_arena
<1>22. \A q \in Pages \ {p} : \A j \in Descs : FreeIn(q, j)' = FreeIn(q, j)
  <2>1. ToSet(<<>>) = {}
    BY DEF ToSet
  <2>2. ASSUME NEW q \in Pages \ {p} PROVE FreeIn(q, i)' = FreeIn(q, i)
    <3>1. FreeIn(q, i) = {}
      BY <1>5, <2>1 DEF FreeIn
    <3>2. FreeIn(q, i)' = {}
      BY <1>14, <1>15, <1>20 DEF FreeIn, block_to_arena
    <3> QED
      BY <3>1, <3>2
  <2> QED
    BY <1>20, <2>2
<1>23. Cardinality(Blocks(p, i) \ {ptr}) = m
  BY <1>3, <1>12, <1>14, FS_RemoveElement, ZenonT(40)
<1>24. SmallOK(p, i)'
  <2>1. Blocks(p, i)' = Blocks(p, i)
    BY DEF Blocks, arena_to_block, blocks_cnt
  <2>2. Mine(p)' = {a} /\ {b[1] : b \in Mine(p)'} = {ptr}
    BY <1>16, <1>18, <1>19
  <2>3. arena'[p].cnt = Cardinality(FreeIn(p, i)')
    BY <1>8, <1>9, <1>21, <1>23
  <2> QED
    BY <1>2, <1>14, <1>16, <1>21, <2>1, <2>2, <2>3 DEF SmallOK
<1>25. PageOK(p)'
  BY <1>8, <1>9, <1>19, <1>20, <1>24 DEF PageOK
<1>26. PageInv'
  BY <1>1, <1>6, <1>9, <1>18, <1>22, <1>25, PageStep
<1>27. TypeInv'
  BY <1>1, <1>9, <1>11, <1>16, <1>17, <1>20 DEF TypeInv
<1>28. a \notin live
  BY <1>16, <1>19 DEF Mine
<1> QED
  BY <1>11, <1>13, <1>17, <1>20, <1>26, <1>27, <1>28 DEF Inv, Gives, a

\* The number of free blocks in an arena changes.
LEMMA CntStep ==
  ASSUME TypeInv, ExtentInv, NEW p \in Pages, arena[p] # NULL, ~arena[p].large,
         NEW c \in Nat, arena' = [arena EXCEPT ![p].cnt = c], mapped' = mapped,
         lost' = lost
  PROVE  /\ ExtentInv' /\ arena' \in [Pages -> Arenas \cup {NULL}]
         /\ arena'[p] # NULL /\ ~arena'[p].large
         /\ arena'[p].cnt = c /\ arena'[p].desc = arena[p].desc
         /\ \A q \in Pages \ {p} : arena'[q] = arena[q]
<1>1. PICK r \in Arenas : r = arena[p]
  BY DEF TypeInv
<1> DEFINE s == [r EXCEPT !.cnt = c]
<1>2. s \in Arenas
  BY DEF Arenas
<1>3. s.cnt = c /\ s.desc = r.desc /\ ~s.large
  BY <1>1 DEF Arenas
<1>4. arena' = [arena EXCEPT ![p] = s]
  BY <1>1
<1> HIDE DEF s
<1>5. s # NULL
  BY <1>2, HeapAssumption
<1>6. /\ arena'[p] = s /\ \A q \in Pages \ {p} : arena'[q] = arena[q]
      /\ arena' \in [Pages -> Arenas \cup {NULL}]
  BY <1>2, <1>4 DEF TypeInv
<1>7. ExtentInv'
  <2>1. Extent(p)' = {p} /\ Extent(p) = {p}
    BY <1>3, <1>6 DEF Extent
  <2>2. \A q \in Pages \ {p} : Extent(q)' = Extent(q)
    BY <1>6 DEF Extent
  <2> QED
    BY <1>5, <1>6, <2>1, <2>2, ExtentSame
<1> QED
  BY <1>1, <1>3, <1>5, <1>6, <1>7

\* The arena of a free block.
LEMMA FreeArena ==
  ASSUME Inv, NEW p \in Pages, NEW i \in Descs, FreeIn(p, i) # {}
  PROVE  /\ arena[p] # NULL /\ ~arena[p].large /\ arena[p].desc = i
         /\ SmallOK(p, i)
<1>1. PageOK(p)
  BY DEF Inv, PageInv
<1>2. arena[p] # NULL /\ arena[p].desc = i
  BY <1>1 DEF PageOK
<1>3. i # NULL
  BY HeapAssumption, Sizing
<1> QED
  BY <1>1, <1>2, <1>3 DEF PageOK, LargeOK

\* The number of the free blocks in an arena is finite.
LEMMA FreeFinite ==
  ASSUME NEW p \in Pages, NEW i \in Descs, SmallOK(p, i)
  PROVE  IsFiniteSet(FreeIn(p, i)) /\ Cardinality(FreeIn(p, i)) \in Nat
<1>1. p \in Nat /\ FreeIn(p, i) \in SUBSET Blocks(p, i)
  BY Sizing DEF SmallOK
<1>2. IsFiniteSet(Blocks(p, i))
  BY <1>1, NewBlockFacts
<1>3. IsFiniteSet(FreeIn(p, i))
  BY <1>1, <1>2, FS_Subset
<1> QED
  BY <1>3, FS_CardinalityType

\* The first block of a list.
LEMMA BlockInv ==
  ASSUME Inv, NEW size \in Sizes, malloc_block(size)
  PROVE  Inv' /\ Gives(size)
<1>0. lost' = lost
  BY DEF malloc_block
<1>1. /\ TypeInv /\ PageInv /\ InPages /\ ExtentInv /\ size \in Nat
  BY HeapAssumption DEF Inv
<1>2. PICK i \in Descs : i = DescFor(size) /\ size <= block_size[i]
  BY DescFits DEF malloc_block
<1>3. PICK s \in Seq(Nat) : s = block_list[i]
  BY <1>1 DEF TypeInv
<1>4. s # <<>> /\ IsInjective(s)
  BY <1>1, <1>2, <1>3 DEF malloc_block, InPages
<1>5. /\ Head(s) \in Nat /\ Tail(s) \in Seq(Nat) /\ IsInjective(Tail(s))
      /\ ToSet(s) = ToSet(Tail(s)) \cup {Head(s)} /\ Head(s) \notin ToSet(Tail(s))
  BY <1>4, TailFacts
<1>6. PICK ptr \in Nat : ptr = Head(s)
  BY <1>5
<1>7. PICK p \in Pages : p = block_to_arena(ptr)
  BY <1>1, <1>3, <1>5, <1>6 DEF InPages
<1>8. ptr \in FreeIn(p, i)
  BY <1>3, <1>5, <1>6, <1>7 DEF FreeIn
<1>9. /\ arena[p] # NULL /\ ~arena[p].large /\ arena[p].desc = i /\ SmallOK(p, i)
  BY <1>8, FreeArena
<1>10. PICK F : F = FreeIn(p, i)
  OBVIOUS
<1>11. /\ IsFiniteSet(F) /\ Cardinality(F) \in Nat
       /\ Cardinality(F \ {ptr}) = Cardinality(F) - 1 /\ Cardinality(F) - 1 \in Nat
  <2>1. IsFiniteSet(F) /\ Cardinality(F) \in Nat
    BY <1>9, <1>10, FreeFinite
  <2>2. IsFiniteSet(F \ {ptr}) /\ Cardinality(F \ {ptr}) = Cardinality(F) - 1
    BY <1>8, <1>10, <2>1, FS_RemoveElement
  <2>3. Cardinality(F \ {ptr}) \in Nat
    BY <2>2, FS_CardinalityType
  <2> QED
    BY <2>1, <2>2, <2>3
<1> DEFINE a == <<ptr, size>>
<1>12. /\ block_list' = [block_list EXCEPT ![i] = Tail(s)]
       /\ arena' = [arena EXCEPT ![p].cnt = arena[p].cnt - 1]
       /\ live' = live \cup {a} /\ mapped' = mapped
  BY <1>2, <1>3, <1>6, <1>7 DEF malloc_block
<1>13. arena[p].cnt = Cardinality(F)
  BY <1>9, <1>10 DEF SmallOK
<1>14. /\ ExtentInv' /\ arena' \in [Pages -> Arenas \cup {NULL}]
       /\ arena'[p] # NULL /\ ~arena'[p].large
       /\ arena'[p].cnt = Cardinality(F) - 1 /\ arena'[p].desc = i
       /\ \A q \in Pages \ {p} : arena'[q] = arena[q]
  BY <1>0, <1>1, <1>9, <1>11, <1>12, <1>13, CntStep
<1>15. a \in Nat \X Sizes /\ a[1] = ptr /\ a[2] = size /\ block_to_arena(a[1]) = p
  BY <1>7
<1> HIDE DEF a
<1>16. /\ Mine(p)' = Mine(p) \cup {a} /\ \A q : q # p => Mine(q)' = Mine(q)
  BY <1>12, <1>15, MineStep
<1>17. /\ InPages' /\ block_list' \in [Descs -> Seq(Nat)]
       /\ block_list'[i] = Tail(s)
       /\ \A q : \A j \in Descs : j # i => FreeIn(q, j)' = FreeIn(q, j)
  <2>1. \A x \in ToSet(Tail(s)) : block_to_arena(x) \in Pages
    BY <1>1, <1>3, <1>5 DEF InPages
  <2>2. \A b \in live' : block_to_arena(b[1]) \in Pages
    BY <1>1, <1>7, <1>12, <1>15 DEF InPages
  <2> QED
    BY <1>1, <1>5, <1>12, <2>1, <2>2, ListStep
<1>18. /\ FreeIn(p, i)' = F \ {ptr}
       /\ \A q \in Pages \ {p} : FreeIn(q, i)' = FreeIn(q, i)
  BY <1>3, <1>5, <1>6, <1>7, <1>10, <1>17 DEF FreeIn, block_to_arena
<1>19. SmallOK(p, i)'
  <2>1. Blocks(p, i)' = Blocks(p, i)
    BY DEF Blocks, arena_to_block, blocks_cnt
  <2>2. /\ F = Blocks(p, i) \ {b[1] : b \in Mine(p)}
        /\ \A b \in Mine(p) : b[1] \in Blocks(p, i) /\ b[2] <= block_size[i]
        /\ \A b, c \in Mine(p) : b[1] = c[1] => b = c
    BY <1>9, <1>10 DEF SmallOK
  <2>3. ptr \in Blocks(p, i) /\ \A b \in Mine(p) : b[1] # ptr
    BY <1>8, <1>10, <2>2
  <2>4. {b[1] : b \in Mine(p)'} = {b[1] : b \in Mine(p)} \cup {ptr}
    BY <1>15, <1>16
  <2>5. F \ {ptr} = Blocks(p, i) \ {b[1] : b \in Mine(p)'}
    BY <2>2, <2>4
  <2>6. \A b \in Mine(p)' : b[1] \in Blocks(p, i) /\ b[2] <= block_size[i]
    BY <1>2, <1>15, <1>16, <2>2, <2>3
  <2>7. \A b, c \in Mine(p)' : b[1] = c[1] => b = c
    BY <1>15, <1>16, <2>2, <2>3
  <2>8. arena'[p].cnt = Cardinality(FreeIn(p, i)') /\ Mine(p)' # {}
    BY <1>11, <1>14, <1>16, <1>18
  <2> QED
    BY <1>18, <2>1, <2>5, <2>6, <2>7, <2>8 DEF SmallOK
<1>20. PageOK(p)'
  <2>1. \A j \in Descs : j # i => FreeIn(p, j)' = {}
    <3>1. \A j \in Descs : j # i => FreeIn(p, j) = {}
      BY <1>1, <1>9 DEF PageInv, PageOK
    <3> QED
      BY <1>17, <3>1
  <2> QED
    BY <1>14, <1>19, <2>1 DEF PageOK
<1>21. PageInv'
  <2>1. \A q \in Pages \ {p} : \A j \in Descs : FreeIn(q, j)' = FreeIn(q, j)
    BY <1>17, <1>18
  <2> QED
    BY <1>1, <1>14, <1>16, <1>20, <2>1, PageStep
<1>22. TypeInv'
  BY <1>1, <1>12, <1>14, <1>15, <1>17 DEF TypeInv
<1>23. a \notin live
  <2>1. a \in live => a \in Mine(p)
    BY <1>15 DEF Mine
  <2> QED
    BY <1>8, <1>9, <1>15, <2>1 DEF SmallOK
<1> QED
  BY <1>12, <1>14, <1>17, <1>21, <1>22, <1>23 DEF Inv, Gives, a

\* The arena of an allocation.
LEMMA LiveArena ==
  ASSUME Inv, NEW a \in live
  PROVE  /\ a \in Nat \X Sizes /\ block_to_arena(a[1]) \in Pages
         /\ a \in Mine(block_to_arena(a[1]))
         /\ arena[block_to_arena(a[1])] # NULL
<1>1. /\ a \in Nat \X Sizes /\ block_to_arena(a[1]) \in Pages
      /\ a \in Mine(block_to_arena(a[1]))
  BY DEF Inv, TypeInv, InPages, Mine
<1> QED
  BY <1>1 DEF Inv, PageInv, PageOK

\* The pages of a large allocation are given back.
LEMMA FreeLargeInv ==
  ASSUME Inv, NEW a \in live, free_large(a)
  PROVE  Inv'
<1>0. lost' = lost
  BY DEF free_large
<1>1. /\ TypeInv /\ PageInv /\ InPages /\ ExtentInv
  BY DEF Inv
<1>2. PICK p \in Pages : p = block_to_arena(a[1])
  BY LiveArena
<1>3. a \in Nat \X Sizes /\ a \in Mine(p) /\ arena[p] # NULL
  BY <1>2, LiveArena
<1>4. /\ arena[p].large /\ mapped' = mapped \ Run(p, arena[p].cnt)
      /\ arena' = [arena EXCEPT ![p] = NULL] /\ live' = live \ {a}
      /\ UNCHANGED block_list
  BY <1>2 DEF free_large
<1>5. /\ arena'[p] = NULL /\ \A q \in Pages \ {p} : arena'[q] = arena[q]
      /\ arena' \in [Pages -> Arenas \cup {NULL}]
  BY <1>1, <1>4 DEF TypeInv
<1>6. LargeOK(p) /\ \A i \in Descs : i # arena[p].desc => FreeIn(p, i) = {}
  BY <1>1, <1>3, <1>4 DEF PageInv, PageOK
<1>7. Mine(p) = {a} /\ arena[p].desc = NULL
  BY <1>3, <1>6 DEF LargeOK
<1>8. \A i \in Descs : FreeIn(p, i) = {}
  <2>1. NULL \notin Descs
    BY HeapAssumption, Sizing
  <2> QED
    BY <1>6, <1>7, <2>1
<1>9. /\ Mine(p)' = Mine(p) \ {a} /\ \A q : q # p => Mine(q)' = Mine(q)
  BY <1>2, <1>4, MineStep
<1>10. InPages' /\ \A q, i : FreeIn(q, i)' = FreeIn(q, i)
  BY <1>1, <1>2, <1>3, <1>4, SameLists
<1>11. PageOK(p)'
  BY <1>5, <1>7, <1>8, <1>9, <1>10 DEF PageOK
<1>12. PageInv'
  BY <1>1, <1>5, <1>9, <1>10, <1>11, PageStep
<1>13. ExtentInv'
  <2>1. mapped' = mapped \ Extent(p)
    BY <1>4 DEF Extent
  <2> QED
    BY <1>0, <1>1, <1>3, <1>5, <2>1, ExtentDropped
<1>14. TypeInv'
  BY <1>1, <1>4, <1>5 DEF TypeInv
<1> QED
  BY <1>10, <1>12, <1>13, <1>14 DEF Inv

\* What sys_free knows of a block, of desc i in page p.
IsBlock(a, p, i) ==
  /\ p \in Pages /\ i \in Descs /\ a \in Nat \X Sizes
  /\ arena[p] # NULL /\ SmallOK(p, i)
  /\ a \in Mine(p) /\ a[1] \in Blocks(p, i)
  /\ a[1] \notin ToSet(block_list[i])
  /\ arena[p].cnt = Cardinality(FreeIn(p, i))
  /\ Cardinality(FreeIn(p, i)) \in Nat
  /\ Cardinality(FreeIn(p, i) \cup {a[1]}) = Cardinality(FreeIn(p, i)) + 1
  /\ \A j \in Descs : j # i => FreeIn(p, j) = {}

\* An allocation that is not large is a block.
LEMMA BlockGiven ==
  ASSUME Inv, NEW a \in live, ~arena[block_to_arena(a[1])].large
  PROVE  IsBlock(a, block_to_arena(a[1]), arena[block_to_arena(a[1])].desc)
<1> DEFINE p == block_to_arena(a[1])
           i == arena[p].desc
<1>1. p \in Pages /\ a \in Nat \X Sizes /\ a \in Mine(p) /\ arena[p] # NULL
  BY LiveArena
<1>2. SmallOK(p, i) /\ \A j \in Descs : j # i => FreeIn(p, j) = {}
  BY <1>1 DEF Inv, PageInv, PageOK
<1>3. i \in Descs /\ a[1] \in Blocks(p, i) /\ a[1] \notin FreeIn(p, i)
  BY <1>1, <1>2 DEF SmallOK
<1>4. a[1] \notin ToSet(block_list[i])
  BY <1>3 DEF FreeIn
<1>5. IsFiniteSet(FreeIn(p, i)) /\ Cardinality(FreeIn(p, i)) \in Nat
  BY <1>1, <1>2, <1>3, FreeFinite
<1>6. Cardinality(FreeIn(p, i) \cup {a[1]}) = Cardinality(FreeIn(p, i)) + 1
  BY <1>3, <1>5, FS_AddElement
<1>7. arena[p].cnt = Cardinality(FreeIn(p, i))
  BY <1>2 DEF SmallOK
<1> QED
  BY <1>1, <1>2, <1>3, <1>4, <1>5, <1>6, <1>7 DEF IsBlock

\* A block goes back to its list.
LEMMA FreeBlockInv ==
  ASSUME Inv, NEW a \in live, free_block(a)
  PROVE  Inv'
<1>0. lost' = lost
  BY DEF free_block
<1>1. /\ TypeInv /\ PageInv /\ InPages /\ ExtentInv
  BY DEF Inv
<1>2. PICK p : p = block_to_arena(a[1])
  OBVIOUS
<1>3. PICK i : i = arena[p].desc
  OBVIOUS
<1>4. /\ ~arena[p].large /\ arena[p].cnt + 1 # blocks_cnt(i)
      /\ block_list' = [block_list EXCEPT ![i] = Append(block_list[i], a[1])]
      /\ arena' = [arena EXCEPT ![p].cnt = arena[p].cnt + 1]
      /\ live' = live \ {a} /\ mapped' = mapped
  BY <1>2, <1>3 DEF free_block
<1>5. PICK F : F = FreeIn(p, i)
  OBVIOUS
<1>6. /\ p \in Pages /\ i \in Descs /\ a \in Nat \X Sizes
      /\ arena[p] # NULL /\ SmallOK(p, i)
      /\ a \in Mine(p) /\ a[1] \in Blocks(p, i)
      /\ a[1] \notin ToSet(block_list[i])
      /\ arena[p].cnt = Cardinality(F) /\ Cardinality(F) \in Nat
      /\ Cardinality(F \cup {a[1]}) = Cardinality(F) + 1
      /\ \A j \in Descs : j # i => FreeIn(p, j) = {}
  <2>1. ~arena[p].large
    BY <1>4
  <2>2. IsBlock(a, p, i)
    BY <1>2, <1>3, <2>1, BlockGiven
  <2> QED
    BY <1>5, <2>2 DEF IsBlock
<1>7. PICK s \in Seq(Nat) : s = block_list[i]
  BY <1>1, <1>6 DEF TypeInv
<1>8. PICK ptr \in Nat : ptr = a[1]
  BY <1>6
<1>9. /\ Append(s, ptr) \in Seq(Nat) /\ IsInjective(Append(s, ptr))
      /\ ToSet(Append(s, ptr)) = ToSet(s) \cup {ptr}
  <2>1. IsInjective(s) /\ ptr \notin ToSet(s)
    BY <1>1, <1>6, <1>7, <1>8 DEF InPages
  <2> QED
    BY <2>1, AppendFacts
<1>10. Cardinality(F) + 1 \in Nat
  BY <1>6
<1>11. /\ ExtentInv' /\ arena' \in [Pages -> Arenas \cup {NULL}]
       /\ arena'[p] # NULL /\ ~arena'[p].large
       /\ arena'[p].cnt = Cardinality(F) + 1 /\ arena'[p].desc = i
       /\ \A q \in Pages \ {p} : arena'[q] = arena[q]
  BY <1>0, <1>1, <1>3, <1>4, <1>6, <1>10, CntStep
<1>12. /\ Mine(p)' = Mine(p) \ {a} /\ \A q : q # p => Mine(q)' = Mine(q)
  BY <1>2, <1>4, MineStep
<1>13. /\ InPages' /\ block_list' \in [Descs -> Seq(Nat)]
       /\ block_list'[i] = Append(s, ptr)
       /\ \A q : \A j \in Descs : j # i => FreeIn(q, j)' = FreeIn(q, j)
  <2>1. \A x \in ToSet(Append(s, ptr)) : block_to_arena(x) \in Pages
    BY <1>1, <1>2, <1>6, <1>7, <1>8, <1>9 DEF InPages
  <2>2. \A b \in live' : block_to_arena(b[1]) \in Pages
    BY <1>1, <1>4 DEF InPages
  <2>3. block_list' = [block_list EXCEPT ![i] = Append(s, ptr)]
    BY <1>4, <1>7, <1>8
  <2> QED
    BY <1>1, <1>6, <1>9, <2>1, <2>2, <2>3, ListStep
<1>14. /\ FreeIn(p, i)' = F \cup {ptr}
       /\ \A q \in Pages \ {p} : FreeIn(q, i)' = FreeIn(q, i)
  BY <1>2, <1>5, <1>7, <1>8, <1>9, <1>13 DEF FreeIn, block_to_arena
<1>15. SmallOK(p, i)'
  <2>1. Blocks(p, i)' = Blocks(p, i)
    BY DEF Blocks, arena_to_block, blocks_cnt
  <2>2. /\ F = Blocks(p, i) \ {b[1] : b \in Mine(p)}
        /\ \A b \in Mine(p) : b[1] \in Blocks(p, i) /\ b[2] <= block_size[i]
        /\ \A b, c \in Mine(p) : b[1] = c[1] => b = c
    BY <1>5, <1>6 DEF SmallOK
  <2>3. {b[1] : b \in Mine(p)'} = {b[1] : b \in Mine(p)} \ {ptr}
    BY <1>6, <1>8, <1>12, <2>2
  <2>4. F \cup {ptr} = Blocks(p, i) \ {b[1] : b \in Mine(p)'}
    BY <1>6, <1>8, <2>2, <2>3
  <2>5. Mine(p)' # {}
    <3>1. SUFFICES ASSUME Mine(p)' = {} PROVE FALSE
      OBVIOUS
    <3>2. F \cup {ptr} = Blocks(p, i)
      BY <2>4, <3>1
    <3>3. Cardinality(Blocks(p, i)) = blocks_cnt(i)
      BY <1>6, Sizing, NewBlockFacts
    <3> QED
      BY <1>4, <1>6, <1>8, <3>2, <3>3
  <2>6. \A b \in Mine(p)' : b[1] \in Blocks(p, i) /\ b[2] <= block_size[i]
    BY <1>12, <2>2
  <2>7. \A b, c \in Mine(p)' : b[1] = c[1] => b = c
    BY <1>12, <2>2
  <2>8. arena'[p].cnt = Cardinality(FreeIn(p, i)')
    BY <1>6, <1>8, <1>11, <1>14
  <2> QED
    BY <1>6, <1>14, <2>1, <2>4, <2>5, <2>6, <2>7, <2>8 DEF SmallOK
<1>16. PageOK(p)'
  <2>1. \A j \in Descs : j # i => FreeIn(p, j)' = {}
    BY <1>6, <1>13
  <2> QED
    BY <1>11, <1>15, <2>1 DEF PageOK
<1>17. PageInv'
  <2>1. \A q \in Pages \ {p} : \A j \in Descs : FreeIn(q, j)' = FreeIn(q, j)
    BY <1>13, <1>14
  <2> QED
    BY <1>1, <1>6, <1>11, <1>12, <1>16, <2>1, PageStep
<1>18. TypeInv'
  BY <1>1, <1>4, <1>11, <1>13 DEF TypeInv
<1> QED
  BY <1>11, <1>13, <1>17, <1>18 DEF Inv

\* The last block of an arena: the page goes back, and its blocks with it.
LEMMA FreeArenaInv ==
  ASSUME Inv, NEW a \in live, free_arena(a)
  PROVE  Inv'
<1>0. lost' = lost
  BY DEF free_arena
<1>1. /\ TypeInv /\ PageInv /\ InPages /\ ExtentInv
  BY DEF Inv
<1>2. PICK p : p = block_to_arena(a[1])
  OBVIOUS
<1>3. PICK i : i = arena[p].desc
  OBVIOUS
<1>4. /\ ~arena[p].large /\ arena[p].cnt + 1 = blocks_cnt(i)
      /\ block_list' = [block_list EXCEPT ![i] =
                          Without(Append(block_list[i], a[1]), Blocks(p, i))]
      /\ arena' = [arena EXCEPT ![p] = NULL]
      /\ live' = live \ {a} /\ mapped' = mapped \ {p}
  BY <1>2, <1>3 DEF free_arena
<1>5. PICK F : F = FreeIn(p, i)
  OBVIOUS
<1>6. /\ p \in Pages /\ i \in Descs /\ a \in Nat \X Sizes
      /\ arena[p] # NULL /\ SmallOK(p, i)
      /\ a \in Mine(p) /\ a[1] \in Blocks(p, i)
      /\ a[1] \notin ToSet(block_list[i])
      /\ arena[p].cnt = Cardinality(F) /\ Cardinality(F) \in Nat
      /\ Cardinality(F \cup {a[1]}) = Cardinality(F) + 1
      /\ \A j \in Descs : j # i => FreeIn(p, j) = {}
  <2>1. ~arena[p].large
    BY <1>4
  <2>2. IsBlock(a, p, i)
    BY <1>2, <1>3, <2>1, BlockGiven
  <2> QED
    BY <1>5, <2>2 DEF IsBlock
<1>7. PICK s \in Seq(Nat) : s = block_list[i]
  BY <1>1, <1>6 DEF TypeInv
<1>8. PICK ptr \in Nat : ptr = a[1]
  BY <1>6
<1>9. PICK B : B = Blocks(p, i)
  OBVIOUS
<1>10. /\ \A x \in B : block_to_arena(x) = p
       /\ IsFiniteSet(B) /\ Cardinality(B) = blocks_cnt(i)
  BY <1>6, <1>9, Sizing, BlockFacts, NewBlockFacts
<1>11. /\ Append(s, ptr) \in Seq(Nat) /\ IsInjective(Append(s, ptr))
       /\ ToSet(Append(s, ptr)) = ToSet(s) \cup {ptr}
  <2>1. IsInjective(s) /\ ptr \notin ToSet(s)
    BY <1>1, <1>6, <1>7, <1>8 DEF InPages
  <2> QED
    BY <2>1, AppendFacts
<1>12. PICK w : w = Without(Append(s, ptr), B)
  OBVIOUS
<1>13. /\ w \in Seq(Nat) /\ IsInjective(w)
       /\ ToSet(w) = (ToSet(s) \cup {ptr}) \ B
  BY <1>11, <1>12, WithoutFacts
<1>14. /\ F = B \ {b[1] : b \in Mine(p)}
       /\ \A b \in Mine(p) : b[1] \in B
       /\ \A b, c \in Mine(p) : b[1] = c[1] => b = c
  BY <1>5, <1>6, <1>9 DEF SmallOK
<1>15. Mine(p) = {a}
  <2>1. F \cup {ptr} \in SUBSET B
    BY <1>6, <1>8, <1>9, <1>14
  <2>2. Cardinality(F \cup {ptr}) = Cardinality(B)
    BY <1>4, <1>6, <1>8, <1>10
  <2>3. F \cup {ptr} = B
    BY <1>10, <2>1, <2>2, FS_Subset
  <2>4. ASSUME NEW b \in Mine(p) PROVE b = a
    <3>1. b[1] \in B /\ b[1] \notin F
      BY <1>14
    <3>2. b[1] = a[1]
      BY <1>8, <2>3, <3>1
    <3> QED
      BY <1>6, <1>14, <3>2
  <2> QED
    BY <1>6, <2>4
<1>16. /\ arena'[p] = NULL /\ \A q \in Pages \ {p} : arena'[q] = arena[q]
       /\ arena' \in [Pages -> Arenas \cup {NULL}]
  BY <1>1, <1>4, <1>6 DEF TypeInv
<1>17. /\ Mine(p)' = Mine(p) \ {a} /\ \A q : q # p => Mine(q)' = Mine(q)
  BY <1>2, <1>4, MineStep
<1>18. /\ InPages' /\ block_list' \in [Descs -> Seq(Nat)]
       /\ block_list'[i] = w
       /\ \A q : \A j \in Descs : j # i => FreeIn(q, j)' = FreeIn(q, j)
  <2>1. \A x \in ToSet(w) : block_to_arena(x) \in Pages
    BY <1>1, <1>2, <1>6, <1>7, <1>8, <1>13 DEF InPages
  <2>2. \A b \in live' : block_to_arena(b[1]) \in Pages
    BY <1>1, <1>4 DEF InPages
  <2>3. block_list' = [block_list EXCEPT ![i] = w]
    BY <1>4, <1>7, <1>8, <1>9, <1>12
  <2> QED
    BY <1>1, <1>6, <1>13, <2>1, <2>2, <2>3, ListStep
<1>19. /\ FreeIn(p, i)' = {}
       /\ \A q \in Pages \ {p} : FreeIn(q, i)' = FreeIn(q, i)
  <2>1. \A x \in ToSet(s) : block_to_arena(x) = p => x \in B
    BY <1>5, <1>7, <1>14 DEF FreeIn
  <2>2. ptr \in B
    BY <1>6, <1>8, <1>9
  <2>3. \A x : x \in ToSet(w) <=> x \in ToSet(s) /\ block_to_arena(x) # p
    BY <1>10, <1>13, <2>1, <2>2
  <2> QED
    BY <1>7, <1>18, <2>3 DEF FreeIn, block_to_arena
<1>20. PageOK(p)'
  <2>1. \A j \in Descs : FreeIn(p, j)' = {}
    BY <1>6, <1>18, <1>19
  <2> QED
    BY <1>15, <1>16, <1>17, <2>1 DEF PageOK
<1>21. PageInv'
  <2>1. \A q \in Pages \ {p} : \A j \in Descs : FreeIn(q, j)' = FreeIn(q, j)
    BY <1>18, <1>19
  <2> QED
    BY <1>1, <1>6, <1>16, <1>17, <1>20, <2>1, PageStep
<1>22. ExtentInv'
  <2>1. mapped' = mapped \ Extent(p)
    BY <1>4 DEF Extent
  <2> QED
    BY <1>0, <1>1, <1>6, <1>16, <2>1, ExtentDropped
<1>23. TypeInv'
  BY <1>1, <1>4, <1>16, <1>18 DEF TypeInv
<1> QED
  BY <1>18, <1>21, <1>22, <1>23 DEF Inv

\* A step that leaves the arenas, the lists and the allocations alone keeps
\* what is said of them.
LEMMA ContentsKept ==
  ASSUME PageInv, InPages, UNCHANGED <<arena, block_list, live>>
  PROVE  PageInv' /\ InPages'
<1>1. \A p : Mine(p)' = Mine(p)
  BY DEF Mine
<1>2. \A p, i : FreeIn(p, i)' = FreeIn(p, i)
  BY DEF FreeIn
<1>3. \A p \in Pages : PageOK(p)' <=> PageOK(p)
  BY <1>1, <1>2 DEF PageOK, LargeOK, SmallOK
<1>4. PageInv'
  BY <1>3 DEF PageInv
<1>5. InPages'
  BY DEF InPages
<1> QED
  BY <1>4, <1>5

\* A call that returns NULL with its range lost.
LEMMA FailInv ==
  ASSUME Inv, NEW size \in Sizes, malloc_fail(size)
  PROVE  Inv' /\ live' = live
<1>1. UNCHANGED <<arena, block_list, live>>
  BY DEF malloc_fail
<1>2. PICK R : /\ R \subseteq Pages \ mapped
               /\ mapped' = mapped \cup R /\ lost' = lost \cup R
  BY DEF malloc_fail, FreeRuns
<1>3. TypeInv'
  BY <1>1, <1>2 DEF Inv, TypeInv
<1>4. ExtentInv'
  BY <1>1, <1>2, ExtentLost DEF Inv
<1> QED
  BY <1>1, <1>3, <1>4, ContentsKept DEF Inv

\* The caller's side of a step: memory is given, or taken back, or NULL is
\* returned.
LEMMA CallStep ==
  ASSUME Inv, Next
  PROVE  /\ Inv'
         /\ \/ \E size \in Sizes : Gives(size)
            \/ \E a \in live : live' = live \ {a}
            \/ live' = live
<1>1. ASSUME NEW size \in Sizes, sys_malloc(size)
      PROVE  Inv' /\ (Gives(size) \/ live' = live)
  BY <1>1, LargeInv, ArenaInv, BlockInv, FailInv DEF sys_malloc
<1>2. ASSUME NEW a \in live, sys_free(a) PROVE Inv'
  BY <1>2, FreeLargeInv, FreeBlockInv, FreeArenaInv DEF sys_free
<1>3. ASSUME NEW a \in live, sys_free(a) PROVE live' = live \ {a}
  BY <1>3 DEF sys_free, free_large, free_block, free_arena
<1> QED
  BY <1>1, <1>2, <1>3 DEF Next

\* A call that returns NULL and changes nothing.
LEMMA StutterInv ==
  ASSUME Inv, UNCHANGED vars
  PROVE  Inv'
<1>1. UNCHANGED <<arena, block_list, live>> /\ mapped' = mapped /\ lost' = lost
  BY DEF vars
<1>2. TypeInv'
  BY <1>1 DEF Inv, TypeInv
<1>3. ExtentInv'
  BY <1>1, ExtentSame DEF Inv, Extent
<1> QED
  BY <1>1, <1>2, <1>3, ContentsKept DEF Inv

\* The invariant holds in all states.
LEMMA Invariance == Spec => []Inv
<1>1. Inv /\ [Next]_vars => Inv'
  BY CallStep, StutterInv
<1> QED
  BY <1>1, InitInv, PTL DEF Spec

-----------------------------------------------------------------------------
(* What follows from the invariant.                                        *)

\* A block of desc i is in an arena that is not large.
LEMMA SmallArena ==
  ASSUME Inv, NEW i \in Descs, NEW p \in SmallArenas(i)
  PROVE  /\ p \in Pages /\ p \in Nat /\ SmallOK(p, i)
         /\ FreeIn(p, i) = Blocks(p, i) \ {a[1] : a \in Mine(p)}
         /\ arena[p].cnt = Cardinality(FreeIn(p, i))
<1>1. p \in Pages /\ arena[p] # NULL /\ arena[p].desc = i
  BY DEF SmallArenas
<1>2. NULL \notin Descs
  BY HeapAssumption, Sizing
<1>3. ~arena[p].large /\ SmallOK(p, i)
  BY <1>1, <1>2 DEF Inv, PageInv, PageOK, LargeOK
<1> QED
  BY <1>1, <1>3, Sizing DEF SmallOK

\* The blocks of a page that are free, and the ones that are given.
LEMMA GivenInPage ==
  ASSUME Inv, NEW i \in Descs, NEW p \in SmallArenas(i), NEW x
  PROVE  /\ x \in Blocks(p, i) => (x \in Given <=> x \notin ToSet(block_list[i]))
         /\ x \in FreeIn(p, i) => x \in Blocks(p, i)
<1>1. p \in Nat /\ FreeIn(p, i) = Blocks(p, i) \ {a[1] : a \in Mine(p)}
  BY SmallArena
<1>2. x \in Blocks(p, i) => block_to_arena(x) = p
  BY <1>1, BlockFacts
<1>3. block_to_arena(x) = p => (x \in Given <=> x \in {a[1] : a \in Mine(p)})
  BY DEF Given, Mine
<1>4. block_to_arena(x) = p => (x \in ToSet(block_list[i]) <=> x \in FreeIn(p, i))
  BY DEF FreeIn
<1> QED
  BY <1>1, <1>2, <1>3, <1>4

\* The blocks of the lists.
LEMMA Accounted == Inv => BlocksAccounted
<1> SUFFICES ASSUME Inv, NEW i \in Descs
             PROVE  /\ IsInjective(block_list[i])
                    /\ ToSet(block_list[i]) =
                         (UNION {Blocks(p, i) : p \in SmallArenas(i)}) \ Given
                    /\ \A p \in SmallArenas(i) :
                         arena[p].cnt =
                           Cardinality(Blocks(p, i) \cap ToSet(block_list[i]))
  BY DEF BlocksAccounted
<1>1. IsInjective(block_list[i])
  BY DEF Inv, InPages
<1>2. ASSUME NEW x \in ToSet(block_list[i])
      PROVE  \E p \in SmallArenas(i) : x \in Blocks(p, i) /\ x \notin Given
  <2>1. PICK p \in Pages : p = block_to_arena(x)
    BY DEF Inv, InPages
  <2>2. x \in FreeIn(p, i)
    BY <2>1 DEF FreeIn
  <2>3. arena[p] # NULL /\ arena[p].desc = i
    BY <2>2, FreeArena
  <2>4. p \in SmallArenas(i)
    BY <2>3 DEF SmallArenas
  <2> QED
    BY <2>2, <2>4, GivenInPage
<1>3. ASSUME NEW p \in SmallArenas(i), NEW x \in Blocks(p, i), x \notin Given
      PROVE  x \in ToSet(block_list[i])
  BY <1>3, GivenInPage
<1>4. ASSUME NEW p \in SmallArenas(i)
      PROVE  arena[p].cnt = Cardinality(Blocks(p, i) \cap ToSet(block_list[i]))
  <2>1. p \in Nat /\ arena[p].cnt = Cardinality(FreeIn(p, i))
    BY SmallArena
  <2>2. \A x \in Blocks(p, i) : block_to_arena(x) = p
    BY <2>1, BlockFacts
  <2>3. FreeIn(p, i) = Blocks(p, i) \cap ToSet(block_list[i])
    BY <2>2, GivenInPage DEF FreeIn
  <2> QED
    BY <2>1, <2>3
<1>5. ToSet(block_list[i]) = (UNION {Blocks(p, i) : p \in SmallArenas(i)}) \ Given
  <2> DEFINE L == ToSet(block_list[i])
             U == UNION {Blocks(p, i) : p \in SmallArenas(i)}
  <2>1. \A x : x \in U <=> \E p \in SmallArenas(i) : x \in Blocks(p, i)
    OBVIOUS
  <2>2. \A x : x \in L => x \in U /\ x \notin Given
    BY <1>2, <2>1
  <2>3. \A x : x \in U /\ x \notin Given => x \in L
    BY <1>3, <2>1
  <2> HIDE DEF L, U
  <2>4. L \subseteq U \ Given /\ U \ Given \subseteq L
    BY <2>2, <2>3
  <2>5. L = U \ Given
    BY <2>4, Zenon
  <2> QED
    BY <2>5 DEF L, U
<1> QED
  BY <1>1, <1>4, <1>5

\* The pages of the arenas are the pages of the allocations.
LEMMA Returned == Inv => PagesReturned
<1> DEFINE own == UNION {PagesFor(a) : a \in live}
<1> SUFFICES ASSUME Inv PROVE mapped = own \cup lost /\ own \cap lost = {}
  BY DEF PagesReturned
<1>1. /\ mapped = lost \cup UNION {Extent(p) : p \in Used}
      /\ lost \cap UNION {Extent(p) : p \in Used} = {}
  BY DEF Inv, ExtentInv
<1>2. ASSUME NEW a \in live
      PROVE  \E p \in Used : PagesFor(a) = Extent(p)
  BY LiveArena DEF Used, PagesFor, Extent
<1>3. ASSUME NEW p \in Used
      PROVE  \E a \in live : PagesFor(a) = Extent(p)
  <2>1. p \in Pages /\ arena[p] # NULL
    BY DEF Used
  <2>2. Mine(p) # {}
    BY <2>1 DEF Inv, PageInv, PageOK, LargeOK, SmallOK
  <2>3. PICK a \in live : block_to_arena(a[1]) = p
    BY <2>2 DEF Mine
  <2> QED
    BY <2>3 DEF PagesFor, Extent
<1>4. own = UNION {Extent(p) : p \in Used}
  BY <1>2, <1>3
<1> HIDE DEF own
<1> QED
  BY <1>1, <1>4

\* An allocation lies in its pages, after the arena.
LEMMA Placed ==
  ASSUME Inv, NEW a \in live, NEW p, p = block_to_arena(a[1])
  PROVE  \E n \in Nat \ {0} : /\ Extent(p) = Run(p, n)
                              /\ p * PageSize + ArenaSize <= a[1]
                              /\ a[1] + a[2] <= (p + n) * PageSize
<1>1. /\ p \in Pages /\ p \in Nat /\ a \in Nat \X Sizes
      /\ a \in Mine(p) /\ arena[p] # NULL
  BY LiveArena, Sizing
<1>2. a[1] \in Nat /\ a[2] \in Nat
  BY <1>1, HeapAssumption
<1>3. CASE arena[p].large
  <2>1. PICK n \in Nat \ {0}, size \in Sizes :
          /\ n = arena[p].cnt /\ Mine(p) = {<<p * PageSize + ArenaSize, size>>}
          /\ ArenaSize + size <= n * PageSize
    <3>1. LargeOK(p)
      BY <1>1, <1>3 DEF Inv, PageInv, PageOK
    <3>2. arena[p].cnt \in Nat
      BY <1>1 DEF Inv, TypeInv, Arenas
    <3> QED
      BY <3>1, <3>2 DEF LargeOK
  <2>2. Extent(p) = Run(p, n)
    BY <1>3, <2>1 DEF Extent
  <2>3. a[1] = p * PageSize + ArenaSize /\ a[2] = size
    BY <1>1, <2>1
  <2>4. (p + n) * PageSize = p * PageSize + n * PageSize
    BY <1>1, Sizing
  <2>5. PICK u \in Nat, v \in Nat : u = p * PageSize /\ v = n * PageSize
    BY <1>1, Sizing
  <2>6. a[1] + a[2] <= (p + n) * PageSize
    BY <1>2, <2>1, <2>3, <2>4, <2>5, Sizing
  <2> QED
    BY <1>2, <2>2, <2>3, <2>6
<1>4. CASE ~arena[p].large
  <2>1. PICK i \in Descs : a[1] \in Blocks(p, i) /\ a[2] <= block_size[i]
    BY <1>1, <1>4 DEF Inv, PageInv, PageOK, SmallOK
  <2>2. /\ p * PageSize + ArenaSize <= a[1]
        /\ a[1] + block_size[i] <= p * PageSize + PageSize
    BY <1>1, <2>1, BlockFacts
  <2>3. (p + 1) * PageSize = p * PageSize + PageSize
    BY <1>1, Sizing
  <2>4. PICK u \in Nat, b \in Nat : u = p * PageSize /\ b = block_size[i]
    BY <1>1, Sizing, BlockSizes
  <2>5. a[1] + a[2] <= (p + 1) * PageSize
    BY <1>2, <2>1, <2>2, <2>3, <2>4, Sizing
  <2>6. Extent(p) = Run(p, 1)
    BY <1>1, <1>4 DEF Extent, Run
  <2> QED
    BY <2>2, <2>5, <2>6
<1> QED
  BY <1>3, <1>4

\* The number of the pages is the n of Placed.
LEMMA Inside == Inv => InsideItsPages
<1> SUFFICES ASSUME Inv, NEW a \in live, NEW p, p = block_to_arena(a[1])
             PROVE  /\ arena[p] # NULL
                    /\ a[1] >= p * PageSize + ArenaSize
                    /\ a[1] + a[2] <= (p + Cardinality(PagesFor(a))) * PageSize
  BY DEF InsideItsPages
<1>1. /\ p \in Nat /\ arena[p] # NULL /\ a[1] \in Nat
  BY LiveArena, Sizing
<1>2. PICK n \in Nat \ {0} : /\ Extent(p) = Run(p, n)
                             /\ p * PageSize + ArenaSize <= a[1]
                             /\ a[1] + a[2] <= (p + n) * PageSize
  BY Placed
<1>3. PagesFor(a) = Run(p, n)
  BY <1>2 DEF PagesFor, Extent
<1>4. Cardinality(Run(p, n)) = n
  <2>1. p + n - 1 \in Int /\ ~(p > p + n - 1) /\ (p + n - 1) - p + 1 = n
    BY <1>1, <1>2
  <2> QED
    BY <1>1, <2>1, FS_Interval DEF Run
<1>5. p * PageSize + ArenaSize \in Nat
  BY <1>1, Sizing
<1> QED
  BY <1>1, <1>2, <1>3, <1>4, <1>5

\* No two allocations overlap.
Apart == \A a, b \in live :
           a # b => a[1] # b[1] /\ A!Bytes(a) \cap A!Bytes(b) = {}

\* Of two allocations in different arenas, the one that comes first ends
\* before the other starts.
LEMMA ArenasApart ==
  ASSUME Inv, NEW a \in live, NEW b \in live,
         block_to_arena(a[1]) < block_to_arena(b[1])
  PROVE  a[1] < b[1] /\ a[1] + a[2] <= b[1]
<1>1. PICK p \in Pages, q \in Pages :
        p = block_to_arena(a[1]) /\ q = block_to_arena(b[1])
  BY LiveArena
<1>2. /\ p \in Nat /\ q \in Nat /\ p < q /\ p \in Used /\ q \in Used
      /\ a[1] \in Nat /\ a[2] \in Nat /\ b[1] \in Nat
  BY <1>1, LiveArena, Sizing, HeapAssumption DEF Used
<1>3. PICK n \in Nat \ {0} : /\ Extent(p) = Run(p, n)
                             /\ p * PageSize + ArenaSize <= a[1]
                             /\ a[1] + a[2] <= (p + n) * PageSize
  BY <1>1, Placed
<1>4. q * PageSize + ArenaSize <= b[1]
  BY <1>1, Placed
<1>5. q \notin Run(p, n)
  BY <1>2, <1>3 DEF Inv, ExtentInv
<1>6. PICK d \in Nat : q = p + n + d
  <2>1. q >= p + n
    BY <1>2, <1>5 DEF Run
  <2>2. q - (p + n) \in Nat /\ q = p + n + (q - (p + n))
    BY <1>2, <2>1
  <2> QED
    BY <2>2
<1>7. q * PageSize = (p + n) * PageSize + d * PageSize
  BY <1>2, <1>6, Sizing
<1>8. PICK u \in Nat, v \in Nat, w \in Nat :
        u = (p + n) * PageSize /\ v = d * PageSize /\ w = q * PageSize
  BY <1>2, Sizing
<1>9. a[1] + a[2] <= w /\ w + ArenaSize <= b[1]
  BY <1>2, <1>3, <1>4, <1>7, <1>8
<1> QED
  BY <1>2, <1>9, Sizing

\* Two allocations in the same arena are two of its blocks.
LEMMA SameArena ==
  ASSUME Inv, NEW a \in live, NEW b \in live, a # b,
         block_to_arena(a[1]) = block_to_arena(b[1])
  PROVE  a[1] # b[1] /\ (a[1] + a[2] <= b[1] \/ b[1] + b[2] <= a[1])
<1>1. PICK p \in Pages : p = block_to_arena(a[1]) /\ p = block_to_arena(b[1])
  BY LiveArena
<1>2. /\ a \in Mine(p) /\ b \in Mine(p) /\ arena[p] # NULL
      /\ a[1] \in Nat /\ a[2] \in Nat /\ b[1] \in Nat /\ b[2] \in Nat /\ p \in Nat
  BY <1>1, LiveArena, Sizing, HeapAssumption
<1>3. PICK i \in Descs : SmallOK(p, i)
  BY <1>2 DEF Inv, PageInv, PageOK, LargeOK, SmallOK
<1>4. /\ a[1] \in Blocks(p, i) /\ b[1] \in Blocks(p, i) /\ a[1] # b[1]
      /\ a[2] <= block_size[i] /\ b[2] <= block_size[i]
  BY <1>2, <1>3 DEF SmallOK
<1>5. \/ a[1] + block_size[i] <= b[1]
      \/ b[1] + block_size[i] <= a[1]
  BY <1>2, <1>4, BlockFacts
<1>6. PICK z \in Nat : z = block_size[i]
  BY BlockSizes
<1> QED
  BY <1>2, <1>4, <1>5, <1>6

\* The bytes of the allocations.
LEMMA NoOverlap == Inv => Apart
<1> SUFFICES ASSUME Inv, NEW a \in live, NEW b \in live, a # b
             PROVE  a[1] # b[1] /\ A!Bytes(a) \cap A!Bytes(b) = {}
  BY DEF Apart
<1>1. a[1] \in Nat /\ a[2] \in Nat /\ b[1] \in Nat /\ b[2] \in Nat
  BY LiveArena, HeapAssumption
<1>2. PICK p \in Nat, q \in Nat :
        p = block_to_arena(a[1]) /\ q = block_to_arena(b[1])
  BY LiveArena, Sizing
<1>3. a[1] # b[1] /\ (a[1] + a[2] <= b[1] \/ b[1] + b[2] <= a[1])
  <2>1. CASE p < q
    BY <1>1, <1>2, <2>1, ArenasApart
  <2>2. CASE q < p
    BY <1>1, <1>2, <2>2, ArenasApart
  <2>3. CASE p = q
    BY <1>2, <2>3, SameArena
  <2> QED
    BY <1>2, <2>1, <2>2, <2>3
<1> QED
  BY <1>1, <1>3 DEF A!Bytes

-----------------------------------------------------------------------------
(* The theorems.                                                           *)

(***************************************************************************)
(* sys_malloc and sys_free never lose a block and never give one twice,    *)
(* and no block_list keeps a block of a page that was freed; the cnt of an *)
(* arena, on which sys_free decides, is the number of its free blocks.     *)
(***************************************************************************)
THEOREM BlocksCounted == Spec => []BlocksAccounted
  BY Invariance, Accounted, PTL

(***************************************************************************)
(* The pages that are taken are those of the live allocations and, apart   *)
(* from them, the ranges malloc_page lost when it had no frames: sys_free  *)
(* gives every page of an allocation back, and none while a caller has a   *)
(* block of it.                                                            *)
(***************************************************************************)
THEOREM PagesGoBack == Spec => []PagesReturned
  BY Invariance, Returned, PTL

(***************************************************************************)
(* What sys_malloc returns has room for the size that was asked for, after *)
(* the arena and in its pages.                                             *)
(***************************************************************************)
THEOREM RoomForAll == Spec => []InsideItsPages
  BY Invariance, Inside, PTL

(***************************************************************************)
(* The heap implements the abstract allocator: sys_malloc returns memory   *)
(* that overlaps no live allocation, whatever was allocated and freed      *)
(* before.                                                                 *)
(***************************************************************************)
THEOREM Implements == Spec => ImplementsAllocator
<1>1. Init => A!Init
  BY DEF Init, A!Init
<1>2. Inv /\ Apart' /\ [Next]_vars => [A!Next]_live
  <2> SUFFICES ASSUME Inv, Apart', Next, live' # live PROVE A!Next
    BY DEF vars
  <2>1. ASSUME NEW size \in Sizes, Gives(size) PROVE A!Next
    <3>1. PICK ptr \in Nat : /\ <<ptr, size>> \notin live
                             /\ live' = live \cup {<<ptr, size>>}
      BY <2>1 DEF Gives
    <3> DEFINE n == <<ptr, size>>
    <3>2. n \in live' /\ n[1] = ptr /\ n[2] = size
      BY <3>1
    <3>3. ASSUME NEW a \in live
          PROVE  a[1] # ptr /\ A!Bytes(a) \cap A!Bytes(<<ptr, size>>) = {}
      <4>1. a \in live' /\ a # n
        BY <3>1
      <4> QED
        BY <3>2, <4>1 DEF Apart, A!Bytes
    <3>4. A!Malloc(n[1], n[2])
      BY <3>1, <3>2, <3>3 DEF A!Malloc
    <3> QED
      BY <3>2, <3>4 DEF A!Next
  <2>2. ASSUME NEW a \in live, live' = live \ {a} PROVE A!Next
    BY <2>2 DEF A!Next, A!Free
  <2> QED
    BY <2>1, <2>2, CallStep
<1> QED
  BY <1>1, <1>2, Invariance, NoOverlap, PTL DEF Spec, ImplementsAllocator, A!Spec
=============================================================================
