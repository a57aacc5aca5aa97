---------------------------- MODULE MemoryProofs ----------------------------
(***************************************************************************)
(* Proofs about Memory and Bitmap, for bitmaps and requests of any size    *)
(* and any number of threads.                                              *)
(***************************************************************************)
EXTENDS Memory, Facts, TLAPS

-----------------------------------------------------------------------------
(* The bitmaps.                                                            *)

IsBitmap(bm) == bm \in [length : Nat \ {0}, ones : SUBSET Int]

Bits(bm) == 0 .. Size(bm) - 1
Free(bm) == {p \in Bits(bm) : p \notin bm.ones}

\* The bit that bitmap_scan starts at.
Start(bm) == Min({p \in Min(NotFull(bm)) * ByteBits
                          .. Min(NotFull(bm)) * ByteBits + ByteBits - 1 :
                    p \notin bm.ones})

\* A bitmap has a positive number of bits.
LEMMA SizeType ==
  ASSUME NEW bm, IsBitmap(bm)
  PROVE  Size(bm) \in Nat \ {0}
<1>1. bm.length \in Nat \ {0} /\ ByteBits \in Nat \ {0}
  BY BitmapAssumption DEF IsBitmap
<1>2. bm.length * ByteBits \in Nat /\ bm.length * ByteBits # 0
  BY <1>1
<1> QED
  BY <1>2 DEF Size

\* Looking for the first byte that is not 0xff, and for the first 0 in it,
\* finds the first bit that is 0.
LEMMA StartIsFirst ==
  ASSUME NEW bm, IsBitmap(bm)
  PROVE  /\ NotFull(bm) = {} <=> Free(bm) = {}
         /\ NotFull(bm) # {} => /\ Start(bm) \in Free(bm)
                                /\ \A q \in Free(bm) : Start(bm) <= q
<1> DEFINE B == ByteBits
           L == bm.length
           Byte(i) == i * B .. i * B + B - 1
<1>1. L \in Nat \ {0} /\ B \in Nat \ {0} /\ Size(bm) = L * B
  BY BitmapAssumption DEF IsBitmap, Size
<1>2. Size(bm) \in Nat \ {0}
  BY SizeType
<1> HIDE DEF B, L
<1>3. NotFull(bm) = {i \in 0 .. L - 1 : \E p \in Byte(i) : p \notin bm.ones}
  BY DEF NotFull, B, L
<1>4. ASSUME NEW i \in 0 .. L - 1, NEW p \in Byte(i)
      PROVE  p \in Bits(bm)
  <2>1. i * B \in Nat /\ i + 1 <= L /\ (i + 1) * B = i * B + B
    BY <1>1
  <2>2. (i + 1) * B <= L * B
    BY <1>1, <2>1
  <2> QED
    BY <1>1, <2>1, <2>2 DEF Bits
<1>5. ASSUME NEW q \in Free(bm)
      PROVE  q \div B \in NotFull(bm) /\ q \in Byte(q \div B)
  <2>1. q \in Nat /\ q < L * B /\ q \notin bm.ones
    BY <1>1, <1>2 DEF Free, Bits
  <2>2. /\ q \div B \in Nat /\ (q \div B) * B <= q
        /\ q < (q \div B) * B + B
    BY <1>1, <2>1, Division
  <2>3. q \div B < L
    <3>1. SUFFICES ASSUME q \div B >= L PROVE FALSE
      BY <1>1, <2>2
    <3>2. (q \div B) * B >= L * B
      BY <1>1, <2>2, <3>1
    <3>3. (q \div B) * B \in Nat /\ L * B \in Nat
      BY <1>1, <2>2
    <3> QED
      BY <2>1, <2>2, <3>2, <3>3
  <2>4. q \in Byte(q \div B)
    <3>1. (q \div B) * B \in Nat
      BY <1>1, <2>2
    <3> QED
      BY <1>1, <2>1, <2>2, <3>1
  <2> QED
    BY <1>1, <1>3, <2>1, <2>2, <2>3, <2>4
<1>6. NotFull(bm) = {} <=> Free(bm) = {}
  <2>1. ASSUME NEW i \in NotFull(bm) PROVE Free(bm) # {}
    <3>1. PICK p \in Byte(i) : p \notin bm.ones
      BY <1>3
    <3>2. p \in Bits(bm)
      BY <1>3, <1>4
    <3> QED
      BY <3>1, <3>2 DEF Free
  <2> QED
    BY <1>5, <2>1
<1>7. ASSUME NotFull(bm) # {}
      PROVE  Start(bm) \in Free(bm) /\ \A q \in Free(bm) : Start(bm) <= q
  <2> DEFINE i == Min(NotFull(bm))
             Z == {p \in Byte(i) : p \notin bm.ones}
  <2>1. NotFull(bm) \in SUBSET Nat
    BY <1>1, <1>3
  <2>2. i \in NotFull(bm) /\ \A j \in NotFull(bm) : i <= j
    BY <1>7, <2>1, MinFacts
  <2>3. i \in 0 .. L - 1 /\ i \in Nat
    BY <1>1, <1>3, <2>2
  <2>4. i * B \in Nat
    BY <1>1, <2>3
  <2>5. Z # {}
    BY <1>3, <2>2
  <2>6. Z \in SUBSET Nat
    BY <1>1, <2>4
  <2>7. Start(bm) = Min(Z)
    BY DEF Start, B
  <2>8. Start(bm) \in Z /\ \A p \in Z : Start(bm) <= p
    <3> HIDE DEF Z
    <3> QED
      BY <2>5, <2>6, <2>7, MinFacts
  <2>9. Start(bm) \in Free(bm)
    BY <1>4, <2>3, <2>8 DEF Free
  <2>10. ASSUME NEW q \in Free(bm) PROVE Start(bm) <= q
    <3>1. q \div B \in NotFull(bm) /\ q \in Byte(q \div B)
      BY <1>5
    <3>2. q \div B \in Nat /\ i <= q \div B
      BY <2>1, <2>2, <3>1
    <3>3. CASE i = q \div B
      BY <2>8, <3>1, <3>3 DEF Free
    <3>4. CASE i < q \div B
      <4>1. (i + 1) * B <= (q \div B) * B
        BY <1>1, <2>3, <3>2, <3>4
      <4>2. (i + 1) * B = i * B + B
        BY <1>1, <2>3
      <4>3. (q \div B) * B \in Nat
        BY <1>1, <3>2
      <4> QED
        BY <1>1, <2>4, <2>8, <3>1, <4>1, <4>2, <4>3
    <3> QED
      BY <2>3, <3>2, <3>3, <3>4
  <2> QED
    BY <2>9, <2>10
<1> QED
  BY <1>6, <1>7

(***************************************************************************)
(* The loop of bitmap_scan, without the recursion: at bit n the count is   *)
(* the distance to the last bit that is 1, or to the bit before the first. *)
(***************************************************************************)
Gaps(bm, first, n) ==
  {k \in 0 .. n - first + 1 : k = n - first + 1 \/ n - k \in bm.ones}

\* The least gap follows the assignments of the loop to `count`, ...
LEMMA GapFacts ==
  ASSUME NEW bm, IsBitmap(bm), NEW first \in Free(bm),
         NEW n \in first .. Size(bm) - 1
  PROVE  /\ Gaps(bm, first, n) \in SUBSET Nat /\ Gaps(bm, first, n) # {}
         /\ Min(Gaps(bm, first, n)) =
              IF n = first THEN 1
              ELSE IF n \in bm.ones THEN 0
              ELSE Min(Gaps(bm, first, n - 1)) + 1
<1> DEFINE K(m) == Gaps(bm, first, m)
<1>1. first \in Nat /\ n \in Nat /\ first <= n /\ first \notin bm.ones
  BY SizeType DEF Free, Bits
<1>2. ASSUME NEW m \in Nat, first <= m
      PROVE  K(m) \in SUBSET Nat /\ K(m) # {}
  <2>1. m - first + 1 \in K(m)
    BY <1>1, <1>2 DEF Gaps
  <2> QED
    BY <2>1 DEF Gaps
<1>3. ASSUME NEW m \in Nat, first <= m
      PROVE  Min(K(m)) \in K(m) /\ \A k \in K(m) : Min(K(m)) <= k
  <2>1. K(m) \in SUBSET Nat /\ K(m) # {}
    BY <1>2, <1>3
  <2> HIDE DEF K
  <2> QED
    BY <2>1, MinFacts
<1>4. Min(K(n)) \in K(n) /\ \A k \in K(n) : Min(K(n)) <= k
  BY <1>1, <1>3
<1>5. K(n) \in SUBSET Nat /\ K(n) # {}
  BY <1>1, <1>2
<1>6. CASE n = first
  <2>1. n - first + 1 = 1
    BY <1>1, <1>6
  <2>2. K(n) = {k \in 0 .. 1 : k = 1 \/ n - k \in bm.ones}
    BY <2>1 DEF Gaps
  <2>3. 0 \notin K(n)
    <3>1. n - 0 \notin bm.ones
      BY <1>1, <1>6
    <3> QED
      BY <2>2, <3>1
  <2>4. \A k \in K(n) : k = 1
    BY <2>2, <2>3
  <2> QED
    BY <1>4, <1>5, <1>6, <2>4
<1>7. CASE n # first /\ n \in bm.ones
  <2>1. 0 \in K(n) /\ K(n) \in SUBSET Nat
    BY <1>1, <1>7 DEF Gaps
  <2>2. Min(K(n)) = 0
    <3> HIDE DEF K
    <3> QED
      BY <1>4, <2>1
  <2> QED
    BY <1>5, <1>7, <2>2
<1>8. CASE n # first /\ n \notin bm.ones
  <2>1. n - 1 \in Nat /\ first <= n - 1
    BY <1>1, <1>8
  <2>2. /\ Min(K(n - 1)) \in K(n - 1)
        /\ \A k \in K(n - 1) : Min(K(n - 1)) <= k
    BY <1>3, <2>1
  <2>3. ASSUME NEW k \in K(n - 1)
        PROVE  k \in Nat /\ k + 1 \in K(n)
    <3>1. /\ k \in 0 .. (n - 1) - first + 1
          /\ k = (n - 1) - first + 1 \/ (n - 1) - k \in bm.ones
      BY DEF Gaps
    <3>2. k + 1 \in 0 .. n - first + 1
      BY <1>1, <2>1, <3>1
    <3>3. k + 1 = n - first + 1 \/ n - (k + 1) \in bm.ones
      <4>1. n - (k + 1) = (n - 1) - k
        BY <1>1, <3>1
      <4> QED
        BY <1>1, <3>1, <4>1
    <3> QED
      BY <3>1, <3>2, <3>3 DEF Gaps
  <2>4. ASSUME NEW k \in K(n)
        PROVE  k \in Nat /\ k - 1 \in K(n - 1)
    <3>1. /\ k \in 0 .. n - first + 1 /\ k \in Nat
          /\ k = n - first + 1 \/ n - k \in bm.ones
      BY DEF Gaps
    <3>2. k # 0
      <4>1. n - 0 \notin bm.ones
        BY <1>1, <1>8
      <4> QED
        BY <1>1, <3>1, <4>1
    <3>3. k - 1 \in 0 .. (n - 1) - first + 1
      BY <1>1, <2>1, <3>1, <3>2
    <3>4. k - 1 = (n - 1) - first + 1 \/ (n - 1) - (k - 1) \in bm.ones
      <4>1. (n - 1) - (k - 1) = n - k
        BY <1>1, <3>1
      <4> QED
        BY <1>1, <3>1, <4>1
    <3> QED
      BY <3>1, <3>3, <3>4 DEF Gaps
  <2>5. Min(K(n)) = Min(K(n - 1)) + 1
    <3> HIDE DEF K
    <3>1. Min(K(n)) <= Min(K(n - 1)) + 1
      BY <1>4, <2>2, <2>3
    <3>2. Min(K(n - 1)) <= Min(K(n)) - 1
      BY <1>4, <2>2, <2>4
    <3>3. Min(K(n)) \in Nat /\ Min(K(n - 1)) \in Nat
      BY <1>4, <2>2, <2>3, <2>4
    <3> QED
      BY <3>1, <3>2, <3>3
  <2> QED
    BY <1>5, <1>8, <2>5
<1> QED
  BY <1>6, <1>7, <1>8

\* ... so that it is the count.
LEMMA CountIsGap ==
  ASSUME NEW bm, IsBitmap(bm), NEW first \in Free(bm),
         NEW n \in first .. Size(bm) - 1
  PROVE  CountAt(bm, first)[n] = Min(Gaps(bm, first, n))
<1> DEFINE S == first .. Size(bm) - 1
           g == [m \in S |-> Min(Gaps(bm, first, m))]
           Loop(f) == [m \in S |-> IF m = first THEN 1
                                  ELSE IF m \in bm.ones THEN 0
                                  ELSE f[m - 1] + 1]
           c == CountAt(bm, first)
<1>1. first \in Nat /\ Size(bm) \in Nat /\ first \in S
  BY SizeType DEF Free, Bits
<1>2. \A m \in S : m # first => m - 1 \in S
  BY <1>1
<1>3. g = Loop(g)
  <2>1. ASSUME NEW m \in S PROVE g[m] = Loop(g)[m]
    BY <1>2, GapFacts
  <2> QED
    BY <2>1
<1>4. c = CHOOSE f : f = Loop(f)
  BY DEF CountAt
<1>5. c = Loop(c)
  <2> HIDE DEF c, g, Loop
  <2> QED
    BY <1>3, <1>4
<1>6. ASSUME NEW m \in S, c[m] # g[m] PROVE FALSE
  <2> DEFINE T == {k \in S : c[k] # g[k]}
  <2> HIDE DEF c, g
  <2>1. T \in SUBSET Nat /\ T # {}
    BY <1>1, <1>6
  <2>2. PICK k \in T : \A j \in T : k <= j
    BY <2>1, LeastNumber
  <2>3. k \in S /\ k \in Nat
    BY <1>1, <2>2
  <2>4. CASE k = first
    BY <1>3, <1>5, <2>2, <2>3, <2>4
  <2>5. CASE k # first
    <3>1. k - 1 \in S /\ k - 1 \notin T
      BY <1>2, <2>2, <2>3, <2>5
    <3>2. c[k - 1] = g[k - 1]
      BY <3>1
    <3>3. c[k] = Loop(c)[k] /\ g[k] = Loop(g)[k]
      BY <1>3, <1>5
    <3> QED
      BY <2>2, <2>3, <2>5, <3>2, <3>3
  <2> QED
    BY <2>4, <2>5
<1>7. c[n] = g[n]
  BY <1>6
<1> QED
  BY <1>7

-----------------------------------------------------------------------------
(* What bitmap_scan returns.                                               *)

\* The places where the loop finds cnt bits.
Found(bm, cnt) == {n \in Start(bm) + 1 .. Size(bm) - 1 :
                     Min(Gaps(bm, Start(bm), n)) = cnt}

\* bitmap_scan, without the loop.
LEMMA ScanResult ==
  ASSUME NEW bm, IsBitmap(bm), NEW cnt \in Nat \ {0}
  PROVE  bitmap_scan(bm, cnt) =
           IF NotFull(bm) = {} THEN -1
           ELSE IF cnt = 1 THEN Start(bm)
           ELSE IF Found(bm, cnt) # {} THEN Min(Found(bm, cnt)) - cnt + 1
           ELSE PANIC
<1> DEFINE first == Start(bm)
           left == Size(bm) - (-1)
           found == {n \in first + 1 .. Min({first + left, Size(bm) - 1}) :
                       CountAt(bm, first)[n] = cnt}
<1>1. CASE NotFull(bm) = {}
  BY <1>1 DEF bitmap_scan
<1>2. CASE NotFull(bm) # {}
  <2>1. first \in Free(bm) /\ first \in Nat /\ Size(bm) \in Nat \ {0}
    BY <1>2, StartIsFirst, SizeType DEF Free, Bits
  <2>2. Min({first + left, Size(bm) - 1}) = Size(bm) - 1
    <3> DEFINE T == {first + left, Size(bm) - 1}
    <3> HIDE DEF first
    <3>1. T \in SUBSET Nat /\ T # {}
      BY <2>1
    <3>2. Min(T) \in T /\ \A m \in T : Min(T) <= m
      <4> HIDE DEF T
      <4> QED
        BY <3>1, MinFacts
    <3>3. Min(T) <= Size(bm) - 1
      BY <3>2
    <3>4. Min(T) # first + left
      BY <2>1, <3>3
    <3> QED
      BY <3>2, <3>4
  <2>3. \A n \in first + 1 .. Size(bm) - 1 :
          CountAt(bm, first)[n] = Min(Gaps(bm, first, n))
    <3>1. \A n \in first + 1 .. Size(bm) - 1 : n \in first .. Size(bm) - 1
      BY <2>1
    <3> QED
      BY <2>1, <3>1, CountIsGap
  <2>4. found = Found(bm, cnt)
    BY <2>2, <2>3 DEF Found
  <2>5. first + left >= Size(bm)
    BY <2>1
  <2>6. bitmap_scan(bm, cnt) =
          IF cnt = 1 THEN first
          ELSE IF found # {} THEN Min(found) - cnt + 1
          ELSE IF first + left >= Size(bm) THEN PANIC ELSE -1
    BY <1>2 DEF bitmap_scan, Start
  <2> QED
    BY <1>2, <2>4, <2>5, <2>6
<1> QED
  BY <1>1, <1>2

\* A place where the loop finds cnt bits is the end of cnt bits that are 0.
LEMMA FoundFits ==
  ASSUME NEW bm, IsBitmap(bm), NotFull(bm) # {}, NEW cnt \in Nat \ {0},
         NEW n \in Found(bm, cnt)
  PROVE  n \in Nat /\ n - cnt + 1 \in Fits(bm, cnt)
<1> DEFINE first == Start(bm)
           K == Gaps(bm, first, n)
<1>1. first \in Free(bm) /\ first \in Nat /\ Size(bm) \in Nat \ {0}
  BY StartIsFirst, SizeType DEF Free, Bits
<1>2. n \in first + 1 .. Size(bm) - 1 /\ Min(K) = cnt
  BY DEF Found
<1>3. n \in first .. Size(bm) - 1 /\ n \in Nat
  BY <1>1, <1>2
<1>4. K \in SUBSET Nat /\ K # {}
  BY <1>1, <1>3, GapFacts
<1>5. cnt \in K /\ \A k \in K : cnt <= k
  <2> HIDE DEF K
  <2> QED
    BY <1>2, <1>4, MinFacts
<1>6. cnt <= n - first + 1
  BY <1>1, <1>3, <1>5 DEF Gaps
<1>7. ASSUME NEW p \in n - cnt + 1 .. n, p \in bm.ones PROVE FALSE
  <2>1. n - p \in 0 .. n - first + 1 /\ n - (n - p) = p /\ n - p < cnt
    BY <1>1, <1>3, <1>6
  <2>2. n - p \in K
    BY <1>7, <2>1 DEF Gaps
  <2> QED
    BY <1>5, <2>1, <2>2
<1>8. /\ n - cnt + 1 \in 0 .. Size(bm) - cnt
      /\ (n - cnt + 1) + cnt - 1 = n
  BY <1>1, <1>3, <1>2, <1>6
<1>9. (n - cnt + 1 .. (n - cnt + 1) + cnt - 1) \cap bm.ones = {}
  BY <1>7, <1>8
<1> QED
  BY <1>3, <1>8, <1>9 DEF Fits

\* Whatever bitmap_scan returns, if it is a position, is the start of cnt
\* bits of the bitmap that are 0.
LEMMA ScanFits ==
  ASSUME NEW bm, IsBitmap(bm), NEW cnt \in Nat \ {0},
         bitmap_scan(bm, cnt) \notin {-1, PANIC}
  PROVE  bitmap_scan(bm, cnt) \in Fits(bm, cnt)
<1>1. NotFull(bm) # {}
  BY ScanResult
<1>2. CASE cnt = 1
  <2>1. bitmap_scan(bm, cnt) = Start(bm)
    BY <1>1, <1>2, ScanResult
  <2>2. Start(bm) \in Free(bm) /\ Size(bm) \in Nat \ {0}
    BY <1>1, StartIsFirst, SizeType
  <2>3. Start(bm) \in 0 .. Size(bm) - 1 /\ Start(bm) \notin bm.ones
    BY <2>2 DEF Free, Bits
  <2>4. (Start(bm) .. Start(bm) + 1 - 1) = {Start(bm)}
    BY <2>3
  <2> QED
    BY <1>2, <2>1, <2>3, <2>4 DEF Fits
<1>3. CASE cnt # 1
  <2>1. Found(bm, cnt) # {} /\ bitmap_scan(bm, cnt) = Min(Found(bm, cnt)) - cnt + 1
    BY <1>1, <1>3, ScanResult
  <2>2. Found(bm, cnt) \in SUBSET Nat
    BY <1>1, FoundFits
  <2>3. Min(Found(bm, cnt)) \in Found(bm, cnt)
    BY <2>1, <2>2, MinFacts
  <2> QED
    BY <1>1, <2>1, <2>3, FoundFits
<1> QED
  BY <1>2, <1>3

\* bitmap_scan finds the first run of cnt bits that are 0, if there is one.
LEMMA ScanFindsFirst ==
  ASSUME NEW bm, IsBitmap(bm), NEW cnt \in Nat \ {0}, Fits(bm, cnt) # {}
  PROVE  bitmap_scan(bm, cnt) = Min(Fits(bm, cnt))
<1> DEFINE p == Min(Fits(bm, cnt))
           first == Start(bm)
<1>0. Size(bm) \in Nat \ {0}
  BY SizeType
<1>1. Fits(bm, cnt) \in SUBSET Nat
  BY <1>0 DEF Fits
<1>2. p \in Fits(bm, cnt) /\ \A q \in Fits(bm, cnt) : p <= q
  BY <1>1, MinFacts
<1> HIDE DEF p
<1>3. /\ p \in Nat /\ p <= Size(bm) - cnt
      /\ (p .. p + cnt - 1) \cap bm.ones = {}
  <2>1. p \in 0 .. Size(bm) - cnt /\ (p .. p + cnt - 1) \cap bm.ones = {}
    BY <1>2 DEF Fits
  <2> QED
    BY <1>0, <2>1
<1>4. p \in Free(bm)
  BY <1>0, <1>3 DEF Free, Bits
<1>5. NotFull(bm) # {} /\ first \in Free(bm) /\ \A q \in Free(bm) : first <= q
  BY <1>4, StartIsFirst
<1>6. first \in Nat /\ first <= p /\ first < Size(bm) /\ first \notin bm.ones
  BY <1>0, <1>4, <1>5 DEF Free, Bits
<1> HIDE DEF first
<1>7. CASE cnt = 1
  <2>1. first \in Fits(bm, cnt)
    <3>1. (first .. first + 1 - 1) = {first}
      BY <1>6
    <3> QED
      BY <1>0, <1>6, <1>7, <3>1 DEF Fits
  <2>2. p = first
    BY <1>2, <1>3, <1>6, <2>1
  <2> QED
    BY <1>5, <1>7, <2>2, ScanResult DEF p, first
<1>8. CASE cnt # 1
  <2> DEFINE n == p + cnt - 1
             K == Gaps(bm, first, n)
  <2>1. n \in Nat /\ n \in first + 1 .. Size(bm) - 1 /\ n \in first .. Size(bm) - 1
    BY <1>0, <1>3, <1>6, <1>8
  <2>2. K \in SUBSET Nat /\ K # {}
    BY <1>5, <2>1, GapFacts
  <2>3. cnt \in K
    <3>1. cnt \in 0 .. n - first + 1
      BY <1>3, <1>6
    <3>2. CASE p = first
      <4>1. cnt = n - first + 1
        BY <1>3, <3>2
      <4> QED
        BY <3>1, <4>1 DEF Gaps
    <3>3. CASE p # first
      <4>1. p - 1 \in 0 .. Size(bm) - cnt /\ ~(p <= p - 1)
        BY <1>0, <1>3, <1>6, <3>3
      <4>2. p - 1 \notin Fits(bm, cnt)
        BY <1>2, <4>1
      <4>3. PICK q \in p - 1 .. (p - 1) + cnt - 1 : q \in bm.ones
        BY <4>1, <4>2 DEF Fits
      <4>4. q = p - 1
        <5>1. q \notin p .. p + cnt - 1
          BY <1>3, <4>3
        <5> QED
          BY <1>3, <4>3, <5>1
      <4>5. n - cnt = p - 1
        BY <1>3
      <4> QED
        BY <3>1, <4>3, <4>4, <4>5 DEF Gaps
    <3> QED
      BY <3>2, <3>3
  <2>4. ASSUME NEW k \in K PROVE cnt <= k
    <3>1. /\ k \in 0 .. n - first + 1
          /\ k = n - first + 1 \/ n - k \in bm.ones
      BY DEF Gaps
    <3>2. SUFFICES ASSUME k < cnt PROVE FALSE
      BY <1>3, <1>6, <3>1
    <3>3. n - k \in p .. p + cnt - 1
      BY <1>3, <1>6, <3>1, <3>2
    <3>4. k # n - first + 1
      BY <1>3, <1>6, <3>1, <3>2
    <3> QED
      BY <1>3, <3>1, <3>3, <3>4
  <2>5. Min(K) = cnt
    <3> HIDE DEF K, n
    <3>1. Min(K) \in K /\ Min(K) <= cnt
      BY <2>2, <2>3, MinFacts
    <3>2. cnt <= Min(K) /\ Min(K) \in Nat
      BY <2>2, <2>4, <3>1
    <3> QED
      BY <3>1, <3>2
  <2>6. n \in Found(bm, cnt)
    BY <2>1, <2>5 DEF Found, first
  <2>7. ASSUME NEW m \in Found(bm, cnt) PROVE m \in Nat /\ n <= m
    <3>1. m \in Nat /\ m - cnt + 1 \in Fits(bm, cnt)
      BY <1>5, FoundFits
    <3>2. p <= m - cnt + 1
      BY <1>2, <3>1
    <3> QED
      BY <1>3, <3>1, <3>2
  <2>8. Min(Found(bm, cnt)) = n
    <3> HIDE DEF n
    <3>1. Found(bm, cnt) \in SUBSET Nat
      BY <2>7
    <3>2. Min(Found(bm, cnt)) \in Found(bm, cnt) /\ Min(Found(bm, cnt)) <= n
      BY <2>6, <3>1, MinFacts
    <3>3. n <= Min(Found(bm, cnt)) /\ Min(Found(bm, cnt)) \in Nat
      BY <2>7, <3>2
    <3> QED
      BY <2>1, <3>2, <3>3
  <2>9. bitmap_scan(bm, cnt) = n - cnt + 1
    BY <1>5, <1>8, <2>6, <2>8, ScanResult
  <2> QED
    BY <1>3, <2>9 DEF p
<1> QED
  BY <1>7, <1>8

-----------------------------------------------------------------------------
(* The inductive invariant of the allocator.                               *)

PagesIn(s) == IF s = "kernel" THEN KPages ELSE VPages

AllocPcs == {"vaddr_scan", "vaddr_set", "stack_set", "palloc_scan",
             "palloc_set", "page_table_add", "table_set", "table_add",
             "no_stack"}
FreePcs  == {"vaddr_remove", "pfree", "page_table_remove"}

Allocs == {"malloc", "get_page", "get_kern_pages"}

Frames == Nat \cup {NULL}

TypeInv ==
  /\ load \in Loads /\ booting \in BOOLEAN /\ started \subseteq Procs
  /\ pc \in [Threads -> {"out", "lock"} \cup AllocPcs \cup FreePcs]
  /\ call \in [Threads -> [kind : {"none", "free"} \cup Allocs, first : Nat,
                           count : Nat]]
  /\ idx \in [Threads -> Nat]
  /\ own \in [Threads -> SUBSET (Nat \X Nat)]
  /\ bit = [t \in Threads |-> bit[t]] /\ tbit = [t \in Threads |-> tbit[t]]
  /\ mutex = [p \in Pools |-> mutex[p]]
  /\ pte = [s \in Spaces |-> pte[s]]
  /\ \A s \in Spaces : pte[s] \in [PagesIn(s) -> Frames]
  /\ pde \in [Procs -> [Regions -> Frames]]

BitmapInv ==
  /\ pool = [p \in Pools |-> pool[p]] /\ vaddr = [s \in Spaces |-> vaddr[s]]
  /\ \A p \in Pools : IsBitmap(pool[p])
  /\ \A s \in Spaces : /\ IsBitmap(vaddr[s])
                       /\ vaddr[s].length = IF s = "kernel" THEN KLen ELSE VLen

\* t has the mutex of its pool, or is main during boot.
Inside(t) == pc[t] \notin {"out", "lock"}

\* What the place a thread is at says of its call.
PhaseOK(t) ==
  /\ booting => t = main \/ pc[t] = "out"
  /\ Inside(t) => mutex[Pool(t)] = t \/ booting
  /\ pc[t] # "out" => call[t].count > 0 /\ idx[t] < call[t].count
  /\ pc[t] \notin {"palloc_scan", "palloc_set", "page_table_add", "table_set",
                    "table_add", "pfree", "page_table_remove"} => idx[t] = 0
  /\ pc[t] \in AllocPcs => call[t].kind \in Allocs
  /\ pc[t] \in FreePcs => call[t].kind = "free"
  /\ pc[t] = "lock" => call[t].kind \in {"malloc", "free", "get_page"}
  /\ pc[t] \in {"stack_set", "no_stack"} => call[t].kind = "get_page"
  /\ pc[t] \in {"vaddr_scan", "vaddr_set"} => call[t].kind # "get_page"
  /\ pc[t] # "out" /\ call[t].kind = "get_page" =>
       t \in Procs /\ call[t].first = StackPage /\ call[t].count = 1
  /\ pc[t] \in {"palloc_set", "page_table_add", "table_set", "table_add"}
       => bit[t] \in Nat
  /\ pc[t] \in {"table_set", "table_add"} =>
       t \in Procs /\ tbit[t] \in Nat /\ ~HasTable(t)

\* The pages a call is about: those of a free, and those of an allocation
\* once they are chosen.
HasRange(t) == /\ pc[t] # "out"
               /\ \/ call[t].kind \in {"free", "get_page"}
                  \/ pc[t] \notin {"lock", "vaddr_scan"}
RangeOf(t)  == call[t].first .. call[t].first + call[t].count - 1

\* Their bits are set, ...
Marked(t) == \/ call[t].kind = "free" /\ pc[t] \in {"lock", "vaddr_remove"}
             \/ call[t].kind # "free" /\ pc[t] \notin {"lock", "vaddr_set",
                                                        "stack_set"}
\* ... and those that are mapped are the ones done, or still to do.
IsMapped(t, v) == IF call[t].kind = "free" THEN v >= Page(t) ELSE v < Page(t)

RangeOK(t) ==
  HasRange(t) =>
    /\ RangeOf(t) \subseteq PagesIn(Space(t))
    /\ \A v \in RangeOf(t) : /\ v \in vaddr[Space(t)].ones <=> Marked(t)
                             /\ pte[Space(t)][v] # NULL <=> IsMapped(t, v)

\* A range that was given to t is marked and mapped.
OwnedOK(t, r) ==
  /\ r[2] > 0 /\ PagesOf(r) \subseteq PagesIn(Space(t))
  /\ \A v \in PagesOf(r) : v \in vaddr[Space(t)].ones
                           /\ pte[Space(t)][v] # NULL

OwnOK(t) == \A r \in own[t] : OwnedOK(t, r)

\* All these ranges of one space are apart.
ApartInv ==
  \A t, u \in Threads : Space(t) = Space(u) =>
    /\ \A r \in own[t], q \in own[u] :
         PagesOf(r) \cap PagesOf(q) # {} => t = u /\ r = q
    /\ HasRange(t) => \A q \in own[u] : RangeOf(t) \cap PagesOf(q) = {}
    /\ HasRange(t) /\ HasRange(u) /\ t # u => RangeOf(t) \cap RangeOf(u) = {}

\* A page that is not marked is not mapped, or is about to be unmapped.
UnmarkedInv ==
  \A s \in Spaces, v \in Nat :
    v \in PagesIn(s) /\ v \notin vaddr[s].ones /\ pte[s][v] # NULL =>
      \E t \in Threads : /\ Space(t) = s /\ v \in RangeOf(t)
                         /\ pc[t] \in {"pfree", "page_table_remove"}

ProcInv ==
  /\ \A t \in Procs \ started :
       /\ pc[t] = "out" /\ own[t] = {} /\ vaddr[t].ones = {}
       /\ \A v \in VPages : pte[t][v] = NULL
  /\ \A t \in Procs, v \in VPages :
       pde[t][v \div TablePages] = NULL => pte[t][v] = NULL

Inv == /\ BitmapInv /\ PteIsAbsent
       /\ panic = "none" =>
            /\ TypeInv /\ ApartInv /\ UnmarkedInv /\ ProcInv
            /\ \A t \in Threads : PhaseOK(t) /\ RangeOK(t) /\ OwnOK(t)

-----------------------------------------------------------------------------
(* One thread at a time in a pool.                                         *)

\* Spaces and pools of threads.
LEMMA SpaceFacts ==
  ASSUME NEW t \in Threads, NEW u \in Threads
  PROVE  /\ Space(t) \in Spaces /\ Pool(t) \in Pools
         /\ Space(t) = Space(u) => Pool(t) = Pool(u)
         /\ Space(t) = Space(u) /\ t \in Procs => t = u
         /\ t \in Procs => Space(t) = t /\ PagesIn(Space(t)) = VPages
  BY MemoryAssumption DEF Space, Spaces, Pool, Pools, Threads, PagesIn

\* Two threads are never both past the mutex of one pool, nor in one space.
LEMMA OneInside ==
  ASSUME \A t \in Threads : PhaseOK(t), NEW t \in Threads, NEW u \in Threads,
         Inside(t), Inside(u), Pool(t) = Pool(u) \/ Space(t) = Space(u)
  PROVE  t = u
<1>1. Pool(t) = Pool(u)
  BY SpaceFacts
<1>2. pc[t] # "out" /\ pc[u] # "out"
  BY DEF Inside
<1>3. CASE booting
  BY <1>2, <1>3 DEF PhaseOK
<1>4. CASE ~booting
  BY <1>1, <1>4 DEF PhaseOK
<1> QED
  BY <1>3, <1>4

\* What a step leaves alone of a thread.
Same(u) == /\ pc'[u] = pc[u] /\ call'[u] = call[u] /\ idx'[u] = idx[u]
           /\ bit'[u] = bit[u] /\ tbit'[u] = tbit[u] /\ own'[u] = own[u]

\* A thread that is left alone has the range and the place it had.
LEMMA SameFacts ==
  ASSUME NEW u, Same(u)
  PROVE  /\ HasRange(u)' = HasRange(u) /\ RangeOf(u)' = RangeOf(u)
         /\ Marked(u)' = Marked(u) /\ Inside(u)' = Inside(u)
         /\ Page(u)' = Page(u)
         /\ \A v : IsMapped(u, v)' = IsMapped(u, v)
  BY DEF Same, HasRange, RangeOf, Marked, Inside, Page, IsMapped

(***************************************************************************)
(* A step of t touches the variables of no other thread, no mutex another  *)
(* has, and in the bitmaps and page tables only the pages of its range.    *)
(***************************************************************************)
Touches(t, s, v) == s = Space(t) /\ HasRange(t) /\ v \in RangeOf(t)

OwnStep(t) ==
  /\ \A u \in Threads \ {t} : Same(u)
  /\ UNCHANGED <<load, booting>>
  /\ t \in Procs => t \in started'
  /\ started \subseteq started'
  /\ \A p \in Pools : mutex'[p] = mutex[p] \/ mutex[p] \in {NULL, t}
  /\ \A u \in Procs \ {t} : pde'[u] = pde[u] /\ vaddr'[u] = vaddr[u]
                             /\ pte'[u] = pte[u]
  /\ \A s \in Spaces : \A v \in PagesIn(s) :
       \/ Touches(t, s, v)
       \/ /\ v \in vaddr'[s].ones <=> v \in vaddr[s].ones
          /\ pte'[s][v] = pte[s][v]

\* What is left to show of the pages it touches, and of its page tables.
OwnUnmarked(t) ==
  HasRange(t) => \A v \in RangeOf(t) :
    v \notin vaddr'[Space(t)].ones /\ pte'[Space(t)][v] # NULL
      => pc'[t] \in {"pfree", "page_table_remove"} /\ v \in RangeOf(t)'

OwnTables(t) ==
  t \in Procs => \A v \in VPages : pde'[t][v \div TablePages] = NULL
                                  => pte'[t][v] = NULL

\* With that the invariant is kept: for the other threads it follows.
LEMMA StepInv ==
  ASSUME Inv, panic = "none", panic' = "none", NEW t \in Threads, OwnStep(t),
         BitmapInv', TypeInv', PhaseOK(t)', RangeOK(t)', ApartInv',
         \A r \in own'[t] \ own[t] : OwnedOK(t, r)',
         OwnUnmarked(t), OwnTables(t)
  PROVE  Inv'
<1>1. /\ TypeInv /\ ApartInv /\ UnmarkedInv /\ ProcInv
      /\ \A u \in Threads : PhaseOK(u) /\ RangeOK(u) /\ OwnOK(u)
  BY DEF Inv
<1>2. ASSUME NEW u \in Threads \ {t} PROVE PhaseOK(u)'
  <2>1. Same(u) /\ booting' = booting
    BY DEF OwnStep
  <2>2. Pool(u) \in Pools /\ u # NULL
    BY SpaceFacts, MemoryAssumption
  <2>3. mutex[Pool(u)] = u => mutex'[Pool(u)] = u
    BY <2>2 DEF OwnStep
  <2>4. HasTable(u)' = HasTable(u)
    BY <2>1 DEF OwnStep, Same, HasTable, TableOf, Page
  <2> QED
    BY <1>1, <2>1, <2>3, <2>4 DEF PhaseOK, Same, Inside
<1>3. ASSUME NEW u \in Threads \ {t}, HasRange(u), NEW v \in RangeOf(u)
      PROVE  /\ v \in PagesIn(Space(u))
             /\ v \in vaddr'[Space(u)].ones <=> v \in vaddr[Space(u)].ones
             /\ pte'[Space(u)][v] = pte[Space(u)][v]
  <2>1. v \in PagesIn(Space(u)) /\ Space(u) \in Spaces
    BY <1>1, <1>3, SpaceFacts DEF RangeOK
  <2>2. ~Touches(t, Space(u), v)
    BY <1>1, <1>3 DEF Touches, ApartInv
  <2> QED
    BY <2>1, <2>2 DEF OwnStep
<1>4. ASSUME NEW u \in Threads \ {t} PROVE RangeOK(u)'
  <2>1. Same(u)
    BY DEF OwnStep
  <2>2. SUFFICES ASSUME HasRange(u) PROVE RangeOK(u)'
    BY <2>1, SameFacts DEF RangeOK
  <2>3. RangeOf(u) \subseteq PagesIn(Space(u))
    BY <1>1, <2>2 DEF RangeOK
  <2>4. ASSUME NEW v \in RangeOf(u)
        PROVE  /\ v \in vaddr'[Space(u)].ones <=> Marked(u)'
               /\ pte'[Space(u)][v] # NULL <=> IsMapped(u, v)'
    <3>1. /\ v \in vaddr[Space(u)].ones <=> Marked(u)
          /\ pte[Space(u)][v] # NULL <=> IsMapped(u, v)
      BY <1>1, <2>2 DEF RangeOK
    <3>2. Marked(u)' = Marked(u) /\ IsMapped(u, v)' = IsMapped(u, v)
      BY <2>1, SameFacts
    <3> QED
      BY <1>3, <2>2, <3>1, <3>2
  <2>5. RangeOf(u)' = RangeOf(u)
    BY <2>1, SameFacts
  <2> QED
    BY <2>3, <2>4, <2>5 DEF RangeOK
<1>5. ASSUME NEW u \in Threads, NEW r \in own'[u] PROVE OwnedOK(u, r)'
  <2>1. CASE r \in own[u]
    <3>1. OwnedOK(u, r) /\ Space(u) \in Spaces
      BY <1>1, <2>1, SpaceFacts DEF OwnOK
    <3>2. ASSUME NEW v \in PagesOf(r)
          PROVE  v \in vaddr'[Space(u)].ones /\ pte'[Space(u)][v] # NULL
      <4>1. v \in PagesIn(Space(u)) /\ v \in vaddr[Space(u)].ones
            /\ pte[Space(u)][v] # NULL
        BY <3>1 DEF OwnedOK
      <4>2. ~Touches(t, Space(u), v)
        BY <1>1, <2>1 DEF Touches, ApartInv
      <4> QED
        BY <3>1, <4>1, <4>2 DEF OwnStep
    <3> QED
      BY <3>1, <3>2 DEF OwnedOK
  <2>2. CASE r \notin own[u]
    <3>1. u = t
      BY <2>2 DEF OwnStep, Same
    <3> QED
      BY <2>2, <3>1
  <2> QED
    BY <2>1, <2>2
<1>6. UnmarkedInv'
  <2>1. SUFFICES ASSUME NEW s \in Spaces, NEW v \in Nat, v \in PagesIn(s),
                        v \notin vaddr'[s].ones, pte'[s][v] # NULL
                 PROVE  \E u \in Threads :
                          /\ Space(u) = s /\ v \in RangeOf(u)'
                          /\ pc'[u] \in {"pfree", "page_table_remove"}
    BY DEF UnmarkedInv
  <2>2. CASE Touches(t, s, v)
    BY <2>1, <2>2 DEF Touches, OwnUnmarked
  <2>3. CASE ~Touches(t, s, v)
    <3>1. v \notin vaddr[s].ones /\ pte[s][v] # NULL
      BY <2>1, <2>3 DEF OwnStep
    <3>2. PICK u \in Threads : /\ Space(u) = s /\ v \in RangeOf(u)
                              /\ pc[u] \in {"pfree", "page_table_remove"}
      BY <1>1, <2>1, <3>1 DEF UnmarkedInv
    <3>3. HasRange(u)
      <4>1. call[u].kind = "free"
        BY <1>1, <3>2 DEF PhaseOK, FreePcs
      <4> QED
        BY <3>2, <4>1 DEF HasRange
    <3>4. u # t
      BY <2>3, <3>2, <3>3 DEF Touches
    <3>5. Same(u)
      BY <3>4 DEF OwnStep
    <3> QED
      BY <3>2, <3>5, SameFacts DEF Same
  <2> QED
    BY <2>2, <2>3
<1>7. ProcInv'
  <2>1. ASSUME NEW u \in Procs \ started'
        PROVE  /\ pc'[u] = "out" /\ own'[u] = {} /\ vaddr'[u].ones = {}
               /\ \A v \in VPages : pte'[u][v] = NULL
    <3>1. u # t /\ u \notin started /\ u \in Threads
      BY DEF OwnStep, Threads
    <3>2. /\ pc'[u] = pc[u] /\ own'[u] = own[u] /\ vaddr'[u] = vaddr[u]
          /\ pte'[u] = pte[u]
      BY <3>1 DEF OwnStep, Same
    <3> QED
      BY <1>1, <3>1, <3>2 DEF ProcInv
  <2>2. ASSUME NEW u \in Procs, NEW v \in VPages,
               pde'[u][v \div TablePages] = NULL
        PROVE  pte'[u][v] = NULL
    <3>1. CASE u = t
      BY <2>2, <3>1 DEF OwnTables
    <3>2. CASE u # t
      BY <1>1, <2>2, <3>2 DEF OwnStep, ProcInv
    <3> QED
      BY <3>1, <3>2
  <2> QED
    BY <2>1, <2>2 DEF ProcInv
<1>8. \A u \in Threads : PhaseOK(u)' /\ RangeOK(u)' /\ OwnOK(u)'
  BY <1>2, <1>4, <1>5 DEF OwnOK
<1> QED
  BY <1>6, <1>7, <1>8 DEF Inv, PteIsAbsent

\* A step that gives t no new range keeps the ranges apart.
LEMMA ApartKept ==
  ASSUME ApartInv, NEW t \in Threads, \A u \in Threads \ {t} : Same(u),
         own'[t] = own[t],
         HasRange(t)' => HasRange(t) /\ RangeOf(t)' = RangeOf(t)
  PROVE  ApartInv'
<1>1. \A u \in Threads : /\ own'[u] = own[u]
                         /\ HasRange(u)' => /\ HasRange(u)
                                            /\ RangeOf(u)' = RangeOf(u)
  BY SameFacts DEF Same
<1>2. ASSUME NEW a \in Threads, NEW b \in Threads, Space(a) = Space(b)
      PROVE  /\ \A r \in own'[a], q \in own'[b] :
                  PagesOf(r) \cap PagesOf(q) # {} => a = b /\ r = q
             /\ HasRange(a)' => \A q \in own'[b] :
                  RangeOf(a)' \cap PagesOf(q) = {}
             /\ HasRange(a)' /\ HasRange(b)' /\ a # b =>
                  RangeOf(a)' \cap RangeOf(b)' = {}
  <2>1. /\ \A r \in own[a], q \in own[b] :
             PagesOf(r) \cap PagesOf(q) # {} => a = b /\ r = q
        /\ HasRange(a) => \A q \in own[b] : RangeOf(a) \cap PagesOf(q) = {}
        /\ HasRange(a) /\ HasRange(b) /\ a # b =>
             RangeOf(a) \cap RangeOf(b) = {}
    BY <1>2 DEF ApartInv
  <2> QED
    BY <1>1, <2>1
<1> QED
  BY <1>2 DEF ApartInv

\* The pages of a space are the bits of its bitmap.
LEMMA PagesAreBits ==
  ASSUME BitmapInv, NEW s \in Spaces
  PROVE  /\ PagesIn(s) = 0 .. Size(vaddr[s]) - 1 /\ PagesIn(s) \subseteq Nat
         /\ IsBitmap(vaddr[s])
<1>1. PagesIn(s) = 0 .. Size(vaddr[s]) - 1
  BY DEF BitmapInv, PagesIn, KPages, VPages, Size
<1>2. Size(vaddr[s]) \in Nat /\ IsBitmap(vaddr[s])
  BY SizeType DEF BitmapInv
<1> QED
  BY <1>1, <1>2

\* A step that changes no bitmap of pages, no pte and no range.
LEMMA QuietStep ==
  ASSUME Inv, panic = "none", panic' = "none", NEW t \in Threads,
         \A u \in Threads \ {t} : Same(u), own'[t] = own[t],
         UNCHANGED <<load, booting, started, vaddr, pte>>,
         \/ UNCHANGED pde
         \/ OwnTables(t) /\ \A u \in Procs \ {t} : pde'[u] = pde[u],
         t \in Procs => t \in started,
         \A p \in Pools : mutex'[p] = mutex[p] \/ mutex[p] \in {NULL, t},
         BitmapInv', TypeInv', PhaseOK(t)',
         HasRange(t)' => /\ HasRange(t) /\ RangeOf(t)' = RangeOf(t)
                         /\ Marked(t)' = Marked(t)
                         /\ \A v \in RangeOf(t) :
                              IsMapped(t, v)' = IsMapped(t, v),
         pc[t] \in {"pfree", "page_table_remove"} =>
           pc'[t] \in {"pfree", "page_table_remove"} /\ HasRange(t)'
  PROVE  Inv'
<1>1. /\ TypeInv /\ ApartInv /\ UnmarkedInv /\ ProcInv /\ BitmapInv
      /\ \A u \in Threads : PhaseOK(u) /\ RangeOK(u)
  BY DEF Inv
<1>2. OwnStep(t)
  BY DEF OwnStep
<1>3. RangeOK(t)'
  <2>1. SUFFICES ASSUME HasRange(t)' PROVE RangeOK(t)'
    BY DEF RangeOK
  <2>2. /\ RangeOf(t)' \subseteq PagesIn(Space(t))
        /\ \A v \in RangeOf(t)' : /\ v \in vaddr[Space(t)].ones <=> Marked(t)
                                  /\ pte[Space(t)][v] # NULL <=> IsMapped(t, v)
    BY <1>1, <2>1 DEF RangeOK
  <2>3. \A v \in RangeOf(t)' : IsMapped(t, v)' = IsMapped(t, v)
    BY <2>1
  <2> QED
    BY <2>1, <2>2, <2>3 DEF RangeOK
<1>4. ApartInv'
  BY <1>1, ApartKept
<1>5. OwnUnmarked(t)
  <2>1. SUFFICES ASSUME HasRange(t), NEW v \in RangeOf(t),
                        v \notin vaddr[Space(t)].ones, pte[Space(t)][v] # NULL
                 PROVE  pc'[t] \in {"pfree", "page_table_remove"}
                        /\ v \in RangeOf(t)'
    BY DEF OwnUnmarked
  <2>2. Space(t) \in Spaces /\ v \in PagesIn(Space(t)) /\ v \in Nat
    BY <1>1, <2>1, SpaceFacts, PagesAreBits DEF RangeOK
  <2>3. PICK u \in Threads : /\ Space(u) = Space(t) /\ v \in RangeOf(u)
                            /\ pc[u] \in {"pfree", "page_table_remove"}
    BY <1>1, <2>1, <2>2 DEF UnmarkedInv
  <2>4. HasRange(u)
    BY <1>1, <2>3 DEF PhaseOK, FreePcs, HasRange
  <2>5. u = t
    BY <1>1, <2>1, <2>3, <2>4 DEF ApartInv
  <2> QED
    BY <2>1, <2>3, <2>5
<1>6. OwnTables(t)
  BY <1>1 DEF OwnTables, ProcInv
<1> QED
  BY <1>2, <1>3, <1>4, <1>5, <1>6, StepInv

-----------------------------------------------------------------------------
(* The steps that change no page.                                          *)

\* What every step of a thread starts from.
LEMMA Before ==
  ASSUME Inv, panic = "none", NEW t \in Threads
  PROVE  /\ TypeInv /\ BitmapInv /\ PhaseOK(t)
         /\ t \in DOMAIN pc /\ t \in DOMAIN call /\ t \in DOMAIN idx
         /\ t \in DOMAIN bit /\ t \in DOMAIN tbit /\ t \in DOMAIN own
         /\ t \in Procs /\ (pc[t] # "out" \/ own[t] # {}) => t \in started
         /\ call[t].count \in Nat /\ call[t].first \in Nat /\ idx[t] \in Nat
<1>1. TypeInv /\ BitmapInv /\ PhaseOK(t) /\ ProcInv
  BY DEF Inv
<1> QED
  BY <1>1 DEF TypeInv, ProcInv

\* A call that asks for pages.
LEMMA CallInv ==
  ASSUME Inv, NEW t \in Threads, NEW n \in 1 .. MaxCount,
         get_kern_pages(t, n) \/ sys_malloc(t, n), UNCHANGED <<load, booting>>
  PROVE  Inv'
<1> USE DEF At, Goto, Call
<1>1. panic = "none" /\ panic' = "none" /\ pc[t] = "out"
  BY DEF get_kern_pages, sys_malloc
<1>2. /\ TypeInv /\ BitmapInv /\ PhaseOK(t)
      /\ t \in DOMAIN pc /\ t \in DOMAIN call /\ t \in DOMAIN idx
  BY <1>1, Before
<1>3. t \in Procs => t \in started
  BY MemoryAssumption DEF get_kern_pages, sys_malloc
<1>4. n \in Nat /\ n > 0
  BY MemoryAssumption
<1>5. /\ pc'[t] \in {"vaddr_scan", "lock"} /\ call'[t].kind \in {"malloc", "get_kern_pages"}
      /\ call'[t].count = n /\ idx'[t] = 0
      /\ pc'[t] = "lock" => call'[t].kind = "malloc"
      /\ pc'[t] = "vaddr_scan" => booting
  BY <1>1, <1>2 DEF get_kern_pages, sys_malloc, PhaseOK
<1>6. TypeInv'
  <2>1. call' \in [Threads -> [kind : {"none", "free"} \cup Allocs, first : Nat,
                              count : Nat]]
    <3>1. PICK k \in Allocs :
            call' = [call EXCEPT ![t] = [kind |-> k, first |-> 0, count |-> n]]
      BY DEF get_kern_pages, sys_malloc, Allocs
    <3> QED
      BY <1>2, <1>4, <3>1 DEF TypeInv
  <2> QED
    BY <1>2, <2>1 DEF get_kern_pages, sys_malloc, TypeInv, AllocPcs
<1>7. BitmapInv'
  BY <1>2 DEF BitmapInv, get_kern_pages, sys_malloc
<1>8. PhaseOK(t)'
  <2>1. booting => t = main
    BY DEF get_kern_pages, sys_malloc
  <2> QED
    BY <1>4, <1>5, <2>1 DEF PhaseOK, Inside, Allocs, AllocPcs, FreePcs
<1>9. ~HasRange(t)'
  BY <1>5 DEF HasRange
<1>10. \A u \in Threads \ {t} : Same(u)
  BY <1>2 DEF get_kern_pages, sys_malloc, Same, TypeInv
<1>11. UNCHANGED <<started, vaddr, pte, pde, own, mutex>>
  BY DEF get_kern_pages, sys_malloc
<1> QED
  BY <1>1, <1>3, <1>6, <1>7, <1>8, <1>9, <1>10, <1>11, QuietStep

\* mutex_lock, when the mutex is free.
LEMMA LockInv ==
  ASSUME Inv, NEW t \in Threads, mutex_lock(t), UNCHANGED <<load, booting>>
  PROVE  Inv'
<1> USE DEF At, Goto
<1>1. panic = "none" /\ panic' = "none" /\ pc[t] = "lock"
  BY DEF mutex_lock
<1>2. /\ TypeInv /\ BitmapInv /\ PhaseOK(t) /\ Pool(t) \in Pools
      /\ t \in DOMAIN pc /\ t \in DOMAIN call
      /\ t \in Procs => t \in started
  BY <1>1, Before, SpaceFacts
<1>3. /\ call[t].kind = "malloc" => pc'[t] = "vaddr_scan"
      /\ call[t].kind = "free" => pc'[t] = "vaddr_remove"
      /\ call[t].kind = "get_page" => pc'[t] = "stack_set"
  BY <1>2 DEF mutex_lock
<1>4. call[t].kind \in {"malloc", "free", "get_page"}
  BY <1>1, <1>2 DEF PhaseOK
<1>5. TypeInv'
  <2>1. pc' \in [Threads -> {"out", "lock"} \cup AllocPcs \cup FreePcs]
    <3>1. pc'[t] \in AllocPcs \cup FreePcs
      BY <1>3, <1>4 DEF AllocPcs, FreePcs
    <3> QED
      BY <1>2, <3>1 DEF mutex_lock, TypeInv
  <2> QED
    BY <1>2, <2>1 DEF mutex_lock, TypeInv
<1>6. BitmapInv'
  BY <1>2 DEF BitmapInv, mutex_lock
<1>7. mutex'[Pool(t)] = t
  BY <1>2 DEF mutex_lock, TypeInv
<1>8. PhaseOK(t)'
  BY <1>1, <1>2, <1>3, <1>4, <1>7
  DEF mutex_lock, PhaseOK, Inside, Allocs, AllocPcs, FreePcs
<1>9. HasRange(t)' => /\ HasRange(t) /\ RangeOf(t)' = RangeOf(t)
                      /\ Marked(t)' = Marked(t)
                      /\ \A v \in RangeOf(t) :
                           IsMapped(t, v)' = IsMapped(t, v)
  BY <1>1, <1>3, <1>4
  DEF mutex_lock, HasRange, RangeOf, Marked, IsMapped, Page
<1>10. \A u \in Threads \ {t} : Same(u)
  BY <1>2 DEF mutex_lock, Same, TypeInv
<1>11. /\ UNCHANGED <<started, vaddr, pte, pde, own>>
       /\ \A p \in Pools : mutex'[p] = mutex[p] \/ mutex[p] \in {NULL, t}
  BY <1>2 DEF mutex_lock, TypeInv
<1> QED
  BY <1>1, <1>2, <1>5, <1>6, <1>8, <1>9, <1>10, <1>11, QuietStep

\* mutex_lock, when it is not.
LEMMA BlockInv ==
  ASSUME Inv, NEW t \in Threads, block(t), UNCHANGED <<load, booting>>
  PROVE  Inv'
<1>1. panic = "none" /\ panic' = "none" /\ pc[t] = "lock"
  BY DEF block, At
<1>2. /\ TypeInv /\ BitmapInv /\ PhaseOK(t)
      /\ t \in Procs => t \in started
  BY <1>1, Before
<1>3. UNCHANGED <<pool, vaddr, pte, pde, mutex, pc, call, idx, bit, tbit, own,
                  started>>
  BY DEF block
<1>4. TypeInv' /\ BitmapInv'
  BY <1>2, <1>3 DEF TypeInv, BitmapInv
<1>5. PhaseOK(t)'
  BY <1>2, <1>3 DEF PhaseOK, Inside, HasTable, TableOf, Page
<1>6. \A u \in Threads : Same(u)
  BY <1>3 DEF Same
<1> QED
  BY <1>1, <1>2, <1>3, <1>4, <1>5, <1>6, SameFacts, QuietStep

\* What the return of a call leaves, but for the pages it has given out.
LEMMA ReturnFacts ==
  ASSUME TypeInv, NEW t \in Threads, NEW got, Return(t, got), tbit' = tbit
  PROVE  /\ \A u \in Threads \ {t} : Same(u)
         /\ \A p \in Pools : mutex'[p] = mutex[p] \/ mutex[p] \in {NULL, t}
         /\ pc'[t] = "out" /\ idx'[t] = 0 /\ own'[t] = own[t] \cup got
         /\ pc' \in [Threads -> {"out", "lock"} \cup AllocPcs \cup FreePcs]
         /\ call' \in [Threads -> [kind : {"none", "free"} \cup Allocs,
                                   first : Nat, count : Nat]]
         /\ idx' \in [Threads -> Nat] /\ bit' = [u \in Threads |-> bit'[u]]
         /\ mutex' = [p \in Pools |-> mutex'[p]]
         /\ got \in SUBSET (Nat \X Nat) => own' \in [Threads -> SUBSET (Nat \X Nat)]
         /\ ~HasRange(t)'
         /\ booting' = booting /\ (booting => t = main) => PhaseOK(t)'
<1>1. Pool(t) \in Pools
  BY SpaceFacts
<1>2. /\ pc'[t] = "out" /\ idx'[t] = 0 /\ own'[t] = own[t] \cup got
      /\ call'[t] = NoCall
  BY DEF Return, Goto, TypeInv
<1>3. \A u \in Threads \ {t} : Same(u)
  BY DEF Return, Goto, TypeInv, Same
<1>4. \A p \in Pools : mutex'[p] = mutex[p] \/ mutex[p] \in {NULL, t}
  BY <1>1 DEF Return, TypeInv
<1>5. /\ pc' \in [Threads -> {"out", "lock"} \cup AllocPcs \cup FreePcs]
      /\ call' \in [Threads -> [kind : {"none", "free"} \cup Allocs,
                                first : Nat, count : Nat]]
      /\ idx' \in [Threads -> Nat]
  BY DEF Return, Goto, NoCall, TypeInv
<1>6. /\ bit' = [u \in Threads |-> bit'[u]]
      /\ mutex' = [p \in Pools |-> mutex'[p]]
  BY DEF Return, TypeInv
<1>7. got \in SUBSET (Nat \X Nat) => own' \in [Threads -> SUBSET (Nat \X Nat)]
  BY DEF Return, TypeInv
<1>8. ~HasRange(t)'
  BY <1>2 DEF HasRange
<1>9. booting' = booting /\ (booting => t = main) => PhaseOK(t)'
  BY <1>2 DEF PhaseOK, Inside, AllocPcs, FreePcs
<1> QED
  BY <1>2, <1>3, <1>4, <1>5, <1>6, <1>7, <1>8, <1>9

\* A call that ends without the pages it was for: what it has marked stays
\* marked, what it has mapped stays mapped, and neither is given out.
LEMMA FailedInv ==
  ASSUME Inv, NEW t \in Threads, panic = "none", panic' = "none",
         booting => t = main, UNCHANGED <<load, booting>>,
         Return(t, {}), pc[t] \in AllocPcs,
         UNCHANGED <<pool, vaddr, pte, pde, tbit, started>>
  PROVE  Inv'
<1>1. /\ TypeInv /\ BitmapInv /\ PhaseOK(t)
      /\ t \in Procs => t \in started
  BY Before DEF AllocPcs
<1>2. TypeInv'
  <2>1. {} \in SUBSET (Nat \X Nat)
    OBVIOUS
  <2> QED
    BY <1>1, <2>1, ReturnFacts DEF TypeInv
<1>3. BitmapInv'
  BY <1>1 DEF BitmapInv
<1>4. pc[t] \notin {"pfree", "page_table_remove"}
  BY DEF AllocPcs
<1>5. own'[t] = own[t] /\ ~HasRange(t)' /\ PhaseOK(t)'
  <2>1. own'[t] = own[t] \cup {} /\ ~HasRange(t)'
    BY <1>1, ReturnFacts
  <2>2. booting' = booting /\ (booting => t = main) => PhaseOK(t)'
    BY <1>1, ReturnFacts
  <2> QED
    BY <2>1, <2>2
<1>6. /\ \A u \in Threads \ {t} : Same(u)
      /\ \A p \in Pools : mutex'[p] = mutex[p] \/ mutex[p] \in {NULL, t}
  BY <1>1, ReturnFacts
<1> QED
  BY <1>1, <1>2, <1>3, <1>4, <1>5, <1>6, QuietStep

\* bitmap_scan for one bit: a number, of a bit that is 0.
LEMMA ScanOne ==
  ASSUME NEW bm, IsBitmap(bm), bitmap_scan(bm, 1) # -1
  PROVE  bitmap_scan(bm, 1) \in Nat /\ bitmap_scan(bm, 1) \notin bm.ones
<1>1. NotFull(bm) # {} /\ bitmap_scan(bm, 1) = Start(bm)
  BY ScanResult
<1>2. Start(bm) \in Free(bm) /\ Size(bm) \in Nat
  BY <1>1, StartIsFirst, SizeType
<1> QED
  BY <1>1, <1>2 DEF Free, Bits

\* palloc looks for a frame.
LEMMA PallocScanInv ==
  ASSUME Inv, NEW t \in Threads, palloc_scan(t), UNCHANGED <<load, booting>>
  PROVE  Inv'
<1> USE DEF At, Goto
<1>1. /\ panic = "none" /\ panic' = "none" /\ pc[t] = "palloc_scan"
      /\ booting => t = main
      /\ UNCHANGED <<pool, vaddr, pte, pde, tbit, started>>
  BY DEF palloc_scan
<1>2. /\ TypeInv /\ BitmapInv /\ PhaseOK(t) /\ Pool(t) \in Pools
      /\ t \in Procs => t \in started
  BY <1>1, Before, SpaceFacts
<1>3. CASE Return(t, {})
  BY <1>1, <1>3, FailedInv DEF AllocPcs
<1>4. CASE UNCHANGED <<mutex, call, own, idx>>
           /\ pc'[t] \in {"no_stack", "palloc_set"}
  <2>1. /\ pc' = [pc EXCEPT ![t] = pc'[t]]
        /\ \A u \in Threads \ {t} : bit'[u] = bit[u]
        /\ bit' = [u \in Threads |-> bit'[u]]
        /\ pc'[t] = "palloc_set" => bit'[t] \in Nat
        /\ pc'[t] = "no_stack" => call[t].kind = "get_page"
    <3>1. CASE Goto(t, "no_stack") /\ UNCHANGED bit /\ call[t].kind = "get_page"
      BY <1>2, <3>1 DEF TypeInv
    <3>2. CASE /\ Goto(t, "palloc_set") /\ bitmap_scan(pool[Pool(t)], 1) # -1
               /\ bit' = [bit EXCEPT ![t] = bitmap_scan(pool[Pool(t)], 1)]
      <4>1. bitmap_scan(pool[Pool(t)], 1) \in Nat
        BY <1>2, <3>2, ScanOne DEF BitmapInv
      <4> QED
        BY <1>2, <3>2, <4>1 DEF TypeInv
    <3>3. ~Return(t, {})
      BY <1>2, <1>4 DEF Return, TypeInv
    <3> QED
      BY <3>1, <3>2, <3>3 DEF palloc_scan
  <2>2. TypeInv'
    BY <1>1, <1>2, <1>4, <2>1, ZenonT(40) DEF TypeInv, AllocPcs
  <2>3. BitmapInv'
    BY <1>1, <1>2 DEF BitmapInv
  <2>4. PhaseOK(t)'
    <3>1. idx[t] = 0 \/ pc'[t] = "palloc_set"
      <4>1. call[t].kind = "get_page" => call[t].count = 1
        BY <1>1, <1>2 DEF PhaseOK
      <4> QED
        BY <1>1, <1>2, <1>4, <2>1, <4>1 DEF PhaseOK, TypeInv
    <3>2. Inside(t) /\ call[t].kind \in Allocs
      BY <1>1, <1>2 DEF Inside, PhaseOK, AllocPcs
    <3> QED
      BY <1>1, <1>2, <1>4, <2>1, <3>1, <3>2
      DEF PhaseOK, Inside, AllocPcs, FreePcs
  <2>5. /\ HasRange(t) /\ RangeOf(t)' = RangeOf(t) /\ Marked(t)' = Marked(t)
        /\ \A v \in RangeOf(t) : IsMapped(t, v)' = IsMapped(t, v)
    <3>1. call[t].kind # "free"
      BY <1>1, <1>2 DEF PhaseOK, AllocPcs, Allocs
    <3> QED
      BY <1>1, <1>4, <3>1 DEF HasRange, RangeOf, Marked, IsMapped, Page
  <2>6. \A u \in Threads \ {t} : Same(u)
    BY <1>1, <1>2, <1>4, <2>1 DEF Same, TypeInv
  <2> QED
    BY <1>1, <1>2, <1>4, <2>2, <2>3, <2>4, <2>5, <2>6, QuietStep
<1> QED
  BY <1>2, <1>3, <1>4 DEF palloc_scan, TypeInv

\* The places of the loops of malloc_page and free_page.
Filling  == {"palloc_scan", "palloc_set", "page_table_add", "table_set",
             "table_add"}
Emptying == {"pfree", "page_table_remove"}

\* A step inside a loop that changes bits of the pools only.
LEMMA LoopStep ==
  ASSUME Inv, panic = "none", panic' = "none", NEW t \in Threads, NEW to,
         Goto(t, to), UNCHANGED <<load, booting, started, vaddr, pte, pde, mutex,
                                  call, idx, own>>,
         \A u \in Threads \ {t} : bit'[u] = bit[u] /\ tbit'[u] = tbit[u],
         bit' = [u \in Threads |-> bit'[u]], tbit' = [u \in Threads |-> tbit'[u]],
         BitmapInv',
         \/ pc[t] \in Filling /\ to \in Filling
         \/ pc[t] \in Emptying /\ to \in Emptying,
         to \in {"palloc_set", "page_table_add", "table_set", "table_add"}
           => bit'[t] \in Nat,
         to \in {"table_set", "table_add"}
           => t \in Procs /\ tbit'[t] \in Nat /\ ~HasTable(t)
  PROVE  Inv'
<1>1. /\ TypeInv /\ BitmapInv /\ PhaseOK(t)
      /\ t \in Procs => t \in started
  BY Before DEF Filling, Emptying
<1>2. pc'[t] = to /\ \A u \in Threads \ {t} : Same(u)
  BY <1>1 DEF Goto, TypeInv, Same
<1>3. TypeInv'
  <2>1. to \in AllocPcs \cup FreePcs
    BY DEF Filling, Emptying, AllocPcs, FreePcs
  <2> QED
    BY <1>1, <2>1 DEF TypeInv, Goto
<1>4. PhaseOK(t)'
  <2>1. /\ Inside(t) /\ Inside(t)' /\ pc[t] # "out" /\ pc'[t] # "out"
        /\ pc'[t] \in Filling \cup Emptying
        /\ pc'[t] \in AllocPcs => pc[t] \in AllocPcs
        /\ pc'[t] \in FreePcs => pc[t] \in FreePcs
    BY <1>2 DEF Inside, Filling, Emptying, AllocPcs, FreePcs
  <2>2. HasTable(t)' = HasTable(t)
    BY DEF HasTable, TableOf, Page
  <2>3. call[t].count > 0 /\ idx[t] < call[t].count
    BY <1>1, <2>1 DEF PhaseOK
  <2> QED
    BY <1>1, <1>2, <2>1, <2>2, <2>3 DEF PhaseOK, Filling, Emptying
<1>5. /\ HasRange(t) /\ RangeOf(t)' = RangeOf(t) /\ Marked(t)' = Marked(t)
      /\ \A v \in RangeOf(t) : IsMapped(t, v)' = IsMapped(t, v)
      /\ HasRange(t)'
  BY <1>2 DEF HasRange, RangeOf, Marked, IsMapped, Page, Filling, Emptying
<1>6. pc[t] \in {"pfree", "page_table_remove"} =>
        pc'[t] \in {"pfree", "page_table_remove"}
  BY <1>2 DEF Filling, Emptying
<1>7. own'[t] = own[t] /\ \A p \in Pools : mutex'[p] = mutex[p]
  OBVIOUS
<1> QED
  BY <1>1, <1>2, <1>3, <1>4, <1>5, <1>6, <1>7, QuietStep

\* Setting or clearing a bit of a pool keeps the bitmaps.
LEMMA PoolBit ==
  ASSUME BitmapInv, NEW p \in Pools, NEW n \in Nat, vaddr' = vaddr,
         \/ pool' = [pool EXCEPT ![p] = bitmap_set(@, n)]
         \/ pool' = [pool EXCEPT ![p] = bitmap_clear(@, n)]
  PROVE  BitmapInv'
<1>1. IsBitmap(pool[p])
  BY DEF BitmapInv
<1>2. IsBitmap(bitmap_set(pool[p], n)) /\ IsBitmap(bitmap_clear(pool[p], n))
  BY <1>1 DEF IsBitmap, bitmap_set, bitmap_clear
<1>3. pool' = [q \in Pools |-> pool'[q]] /\ \A q \in Pools : IsBitmap(pool'[q])
  BY <1>2 DEF BitmapInv
<1> QED
  BY <1>3 DEF BitmapInv

\* palloc marks the frame it has found.
LEMMA PallocSetInv ==
  ASSUME Inv, NEW t \in Threads, palloc_set(t), UNCHANGED <<load, booting>>
  PROVE  Inv'
<1>1. /\ panic = "none" /\ panic' = "none" /\ pc[t] = "palloc_set"
      /\ Goto(t, "page_table_add")
      /\ UNCHANGED <<vaddr, pte, pde, mutex, call, idx, bit, tbit, own, started>>
  BY DEF palloc_set, At
<1>2. TypeInv /\ BitmapInv /\ PhaseOK(t) /\ Pool(t) \in Pools
  BY <1>1, Before, SpaceFacts
<1>3. bit[t] \in Nat
  BY <1>1, <1>2 DEF PhaseOK
<1>4. BitmapInv'
  BY <1>1, <1>2, <1>3, PoolBit DEF palloc_set
<1>5. bit' = [u \in Threads |-> bit'[u]] /\ tbit' = [u \in Threads |-> tbit'[u]]
  BY <1>1, <1>2 DEF TypeInv
<1>6. pc[t] \in Filling /\ "page_table_add" \in Filling
  BY <1>1 DEF Filling
<1> QED
  BY <1>1, <1>3, <1>4, <1>5, <1>6, LoopStep

\* page_table_add finds a frame for a page table, ...
LEMMA TableScanInv ==
  ASSUME Inv, NEW t \in Threads, table_scan(t), UNCHANGED <<load, booting>>
  PROVE  Inv'
<1> DEFINE found == bitmap_scan(pool["kern_pool"], 1)
<1>1. /\ panic = "none" /\ pc[t] = "page_table_add" /\ ~HasTable(t)
      /\ Goto(t, "table_set") /\ tbit' = [tbit EXCEPT ![t] = found]
      /\ panic' = IF found = -1 THEN "frame 0" ELSE "none"
      /\ UNCHANGED <<pool, vaddr, pte, pde, mutex, call, idx, bit, own, started>>
  BY DEF table_scan, At
<1>2. TypeInv /\ BitmapInv /\ PhaseOK(t)
  BY <1>1, Before
<1>3. BitmapInv'
  BY <1>1, <1>2 DEF BitmapInv
<1>4. CASE found = -1
  <2>1. panic' = "frame 0"
    BY <1>1, <1>4
  <2> QED
    BY <1>3, <2>1 DEF Inv, PteIsAbsent
<1>5. CASE found # -1
  <2>1. IsBitmap(pool["kern_pool"])
    BY <1>2 DEF BitmapInv, Pools
  <2>2. found \in Nat
    BY <1>5, <2>1, ScanOne
  <2>3. panic' = "none"
    BY <1>1, <1>5
  <2> HIDE DEF found
  <2>4. /\ bit' = [u \in Threads |-> bit'[u]] /\ tbit' = [u \in Threads |-> tbit'[u]]
        /\ \A u \in Threads \ {t} : tbit'[u] = tbit[u]
        /\ tbit'[t] \in Nat
    BY <1>1, <1>2, <2>2 DEF TypeInv
  <2>5. pc[t] \in Filling /\ "table_set" \in Filling
    BY <1>1 DEF Filling
  <2>6. t \in Procs /\ bit'[t] \in Nat
    BY <1>1, <1>2 DEF HasTable, PhaseOK
  <2> QED
    BY <1>1, <1>3, <2>3, <2>4, <2>5, <2>6, LoopStep
<1> QED
  BY <1>4, <1>5

\* ... and marks it.
LEMMA TableSetInv ==
  ASSUME Inv, NEW t \in Threads, table_set(t), UNCHANGED <<load, booting>>
  PROVE  Inv'
<1>1. /\ panic = "none" /\ panic' = "none" /\ pc[t] = "table_set"
      /\ Goto(t, "table_add")
      /\ UNCHANGED <<vaddr, pte, pde, mutex, call, idx, bit, tbit, own, started>>
  BY DEF table_set, At
<1>2. TypeInv /\ BitmapInv /\ PhaseOK(t) /\ "kern_pool" \in Pools
  BY <1>1, Before DEF Pools
<1>3. bit[t] \in Nat /\ t \in Procs /\ tbit[t] \in Nat /\ ~HasTable(t)
  BY <1>1, <1>2 DEF PhaseOK
<1>4. BitmapInv'
  BY <1>1, <1>2, <1>3, PoolBit DEF table_set
<1>5. bit' = [u \in Threads |-> bit'[u]] /\ tbit' = [u \in Threads |-> tbit'[u]]
  BY <1>1, <1>2 DEF TypeInv
<1>6. pc[t] \in Filling /\ "table_add" \in Filling
  BY <1>1 DEF Filling
<1> QED
  BY <1>1, <1>3, <1>4, <1>5, <1>6, LoopStep

\* The page of the loop is a page of the range.
LEMMA PageInRange ==
  ASSUME Inv, panic = "none", NEW t \in Threads, pc[t] \in Filling \cup Emptying
  PROVE  /\ Page(t) \in RangeOf(t) /\ HasRange(t) /\ Page(t) \in Nat
         /\ Page(t) \in PagesIn(Space(t)) /\ Space(t) \in Spaces
         /\ pc[t] \in Filling => /\ call[t].kind \in Allocs
                                 /\ pte[Space(t)][Page(t)] = NULL
         /\ pc[t] \in Emptying => /\ call[t].kind = "free"
                                  /\ pte[Space(t)][Page(t)] \in Nat
<1>1. /\ TypeInv /\ PhaseOK(t) /\ RangeOK(t)
      /\ call[t].count \in Nat /\ call[t].first \in Nat /\ idx[t] \in Nat
  BY Before DEF Inv
<1>2. idx[t] < call[t].count /\ HasRange(t)
  BY <1>1 DEF PhaseOK, Filling, Emptying, HasRange
<1>3. Page(t) \in RangeOf(t) /\ Page(t) \in Nat
  BY <1>1, <1>2 DEF Page, RangeOf
<1>4. /\ Page(t) \in PagesIn(Space(t)) /\ Space(t) \in Spaces
      /\ pte[Space(t)][Page(t)] # NULL <=> IsMapped(t, Page(t))
  BY <1>1, <1>2, <1>3, SpaceFacts DEF RangeOK
<1>5. pc[t] \in Filling => call[t].kind \in Allocs
  BY <1>1 DEF PhaseOK, Filling, AllocPcs
<1>6. pc[t] \in Emptying => call[t].kind = "free"
  BY <1>1 DEF PhaseOK, Emptying, FreePcs
<1>7. pte[Space(t)][Page(t)] \in Nat \cup {NULL}
  BY <1>1, <1>4 DEF TypeInv, Frames
<1> QED
  BY <1>2, <1>3, <1>4, <1>5, <1>6, <1>7 DEF IsMapped, Allocs

\* pfree clears the bit of the frame of the page.
LEMMA PfreeInv ==
  ASSUME Inv, NEW t \in Threads, pfree(t), UNCHANGED <<load, booting>>
  PROVE  Inv'
<1>1. /\ panic = "none" /\ panic' = "none" /\ pc[t] = "pfree"
      /\ Goto(t, "page_table_remove")
      /\ UNCHANGED <<vaddr, pte, pde, mutex, call, idx, bit, tbit, own, started>>
  BY DEF pfree, At
<1>2. TypeInv /\ BitmapInv /\ PhaseOK(t) /\ Pool(t) \in Pools
  BY <1>1, Before, SpaceFacts
<1>3. pc[t] \in Emptying /\ "page_table_remove" \in Emptying
  BY <1>1 DEF Emptying
<1>4. pte[Space(t)][Page(t)] \in Nat
  BY <1>1, <1>3, PageInRange
<1>5. BitmapInv'
  BY <1>1, <1>2, <1>4, PoolBit DEF pfree
<1>6. bit' = [u \in Threads |-> bit'[u]] /\ tbit' = [u \in Threads |-> tbit'[u]]
  BY <1>1, <1>2 DEF TypeInv
<1> QED
  BY <1>1, <1>3, <1>5, <1>6, LoopStep

\* A page table is added: the pages it maps were not mapped before either.
LEMMA NewTable ==
  ASSUME Inv, NEW t \in Threads, table_add(t)
  PROVE  /\ pte' = pte /\ TableOf(t) \in Regions /\ pde[t][TableOf(t)] = NULL
         /\ t \in Procs
<1> DEFINE r == TableOf(t)
<1>1. /\ panic = "none" /\ pc[t] = "table_add"
      /\ pte' = [pte EXCEPT ![t] = [v \in VPages |->
                   IF v \div TablePages = r THEN NULL ELSE @[v]]]
  BY DEF table_add, At
<1>2. TypeInv /\ PhaseOK(t) /\ ProcInv
  BY <1>1, Before DEF Inv
<1>3. t \in Procs /\ ~HasTable(t)
  BY <1>1, <1>2 DEF PhaseOK
<1>4. /\ pc[t] \in Filling /\ Space(t) = t /\ t \in Spaces
      /\ PagesIn(t) = VPages
  BY <1>1, <1>3, SpaceFacts DEF Filling
<1>5. Page(t) \in VPages /\ r \in Regions
  <2>1. Page(t) \in VPages
    BY <1>1, <1>4, PageInRange
  <2> QED
    BY <2>1 DEF Regions, TableOf
<1>6. pde[t][r] = NULL
  BY <1>3 DEF HasTable
<1>7. pte' = pte
  <2>1. pte[t] \in [VPages -> Frames] /\ pte = [s \in Spaces |-> pte[s]]
    BY <1>2, <1>4 DEF TypeInv
  <2>2. \A v \in VPages : v \div TablePages = r => pte[t][v] = NULL
    BY <1>2, <1>3, <1>6 DEF ProcInv
  <2>3. [v \in VPages |-> IF v \div TablePages = r THEN NULL ELSE pte[t][v]]
          = pte[t]
    BY <2>1, <2>2
  <2> QED
    BY <1>1, <1>4, <2>1, <2>3
<1> QED
  BY <1>3, <1>5, <1>6, <1>7

\* So only the pde changes.
LEMMA TableAddInv ==
  ASSUME Inv, NEW t \in Threads, table_add(t), UNCHANGED <<load, booting>>
  PROVE  Inv'
<1> DEFINE r == TableOf(t)
<1>1. /\ panic = "none" /\ panic' = "none" /\ pc[t] = "table_add"
      /\ Goto(t, "page_table_add") /\ pde' = [pde EXCEPT ![t][r] = tbit[t]]
      /\ tbit' = [tbit EXCEPT ![t] = NULL]
      /\ UNCHANGED <<pool, vaddr, mutex, call, idx, bit, own, started>>
  BY DEF table_add, At
<1>2. /\ TypeInv /\ BitmapInv /\ PhaseOK(t) /\ ProcInv
      /\ t \in Procs => t \in started
  BY <1>1, Before DEF Inv
<1>3. bit[t] \in Nat /\ t \in Procs /\ tbit[t] \in Nat /\ ~HasTable(t)
  BY <1>1, <1>2 DEF PhaseOK
<1>4. pte' = pte /\ r \in Regions
  BY NewTable
<1>5. /\ pde' \in [Procs -> [Regions -> Frames]]
      /\ \A u \in Procs \ {t} : pde'[u] = pde[u]
      /\ \A q \in Regions : q # r => pde'[t][q] = pde[t][q]
      /\ pde'[t][r] \in Nat
  <2> HIDE DEF r
  <2> QED
    BY <1>1, <1>2, <1>3, <1>4 DEF TypeInv, Frames
<1>6. TypeInv'
  <2>1. /\ pc' \in [Threads -> {"out", "lock"} \cup AllocPcs \cup FreePcs]
        /\ tbit' = [u \in Threads |-> tbit'[u]]
    BY <1>1, <1>2 DEF TypeInv, Goto, AllocPcs
  <2> QED
    BY <1>1, <1>2, <1>4, <1>5, <2>1 DEF TypeInv
<1>7. BitmapInv'
  BY <1>1, <1>2 DEF BitmapInv
<1>8. pc'[t] = "page_table_add" /\ \A u \in Threads \ {t} : Same(u)
  BY <1>1, <1>2 DEF TypeInv, Goto, Same
<1>9. PhaseOK(t)'
  <2>1. Inside(t) /\ call[t].kind \in Allocs
    BY <1>1, <1>2 DEF Inside, PhaseOK, AllocPcs
  <2> QED
    BY <1>1, <1>2, <1>8, <2>1 DEF PhaseOK, Inside, AllocPcs, FreePcs
<1>10. /\ HasRange(t) /\ RangeOf(t)' = RangeOf(t) /\ Marked(t)' = Marked(t)
       /\ \A v \in RangeOf(t) : IsMapped(t, v)' = IsMapped(t, v)
  BY <1>1, <1>8 DEF HasRange, RangeOf, Marked, IsMapped, Page
<1>11. OwnTables(t)
  <2>1. ASSUME NEW v \in VPages, pde'[t][v \div TablePages] = NULL
        PROVE  pte'[t][v] = NULL
    <3>1. v \div TablePages \in Regions /\ NULL \notin Nat
      BY MemoryAssumption DEF Regions
    <3>2. pde[t][v \div TablePages] = NULL
      BY <1>5, <2>1, <3>1
    <3> QED
      BY <1>2, <1>3, <1>4, <3>2 DEF ProcInv
  <2> QED
    BY <2>1 DEF OwnTables
<1>12. own'[t] = own[t] /\ (\A p \in Pools : mutex'[p] = mutex[p])
       /\ pc[t] \notin {"pfree", "page_table_remove"}
  BY <1>1
<1> QED
  BY <1>1, <1>2, <1>4, <1>5, <1>6, <1>7, <1>8, <1>9, <1>10, <1>11, <1>12,
     QuietStep

-----------------------------------------------------------------------------
(* The steps that choose a range.                                          *)

\* A new range of t that meets no other keeps the ranges apart.
LEMMA ApartNew ==
  ASSUME ApartInv, NEW t \in Threads, \A u \in Threads \ {t} : Same(u),
         own'[t] \subseteq own[t],
         \A u \in Threads : Space(u) = Space(t) =>
           /\ \A q \in own'[u] : RangeOf(t)' \cap PagesOf(q) = {}
           /\ u # t /\ HasRange(u) => RangeOf(t)' \cap RangeOf(u) = {}
  PROVE  ApartInv'
<1>1. \A u \in Threads :
        /\ own'[u] \subseteq own[u]
        /\ u # t => HasRange(u)' = HasRange(u) /\ RangeOf(u)' = RangeOf(u)
  BY SameFacts DEF Same
<1>2. ASSUME NEW a \in Threads, NEW b \in Threads, Space(a) = Space(b)
      PROVE  /\ \A r \in own'[a], q \in own'[b] :
                  PagesOf(r) \cap PagesOf(q) # {} => a = b /\ r = q
             /\ HasRange(a)' => \A q \in own'[b] :
                  RangeOf(a)' \cap PagesOf(q) = {}
             /\ HasRange(a)' /\ HasRange(b)' /\ a # b =>
                  RangeOf(a)' \cap RangeOf(b)' = {}
  <2>1. /\ \A r \in own[a], q \in own[b] :
             PagesOf(r) \cap PagesOf(q) # {} => a = b /\ r = q
        /\ HasRange(a) => \A q \in own[b] : RangeOf(a) \cap PagesOf(q) = {}
        /\ HasRange(a) /\ HasRange(b) /\ a # b =>
             RangeOf(a) \cap RangeOf(b) = {}
    BY <1>2 DEF ApartInv
  <2>2. HasRange(a)' => \A q \in own'[b] : RangeOf(a)' \cap PagesOf(q) = {}
    <3>1. CASE a = t
      BY <1>2, <3>1
    <3>2. CASE a # t
      BY <1>1, <2>1, <3>2
    <3> QED
      BY <3>1, <3>2
  <2>3. HasRange(a)' /\ HasRange(b)' /\ a # b =>
          RangeOf(a)' \cap RangeOf(b)' = {}
    <3>1. CASE a = t
      BY <1>1, <1>2, <3>1
    <3>2. CASE b = t
      BY <1>1, <1>2, <3>2
    <3>3. CASE a # t /\ b # t
      BY <1>1, <2>1, <3>3
    <3> QED
      BY <3>1, <3>2, <3>3
  <2>4. \A r \in own'[a], q \in own'[b] :
          PagesOf(r) \cap PagesOf(q) # {} => a = b /\ r = q
    BY <1>1, <2>1
  <2> QED
    BY <2>2, <2>3, <2>4
<1> QED
  BY <1>2 DEF ApartInv

\* A step that only chooses the range of t.
LEMMA NewRange ==
  ASSUME Inv, panic = "none", panic' = "none", NEW t \in Threads,
         \A u \in Threads \ {t} : Same(u), own'[t] \subseteq own[t],
         UNCHANGED <<load, booting, pool, vaddr, pte, pde, mutex>>,
         started \subseteq started', t \in Procs => t \in started',
         ~HasRange(t), TypeInv', PhaseOK(t)', RangeOK(t)',
         \A u \in Threads : Space(u) = Space(t) =>
           /\ \A q \in own'[u] : RangeOf(t)' \cap PagesOf(q) = {}
           /\ u # t /\ HasRange(u) => RangeOf(t)' \cap RangeOf(u) = {}
  PROVE  Inv'
<1>1. ApartInv /\ BitmapInv /\ ProcInv
  BY DEF Inv
<1>2. ApartInv'
  BY <1>1, ApartNew
<1>3. BitmapInv'
  BY <1>1 DEF BitmapInv
<1>4. OwnStep(t)
  BY DEF OwnStep
<1>5. OwnUnmarked(t) /\ OwnTables(t)
  BY <1>1 DEF OwnUnmarked, OwnTables, ProcInv
<1>6. \A r \in own'[t] \ own[t] : OwnedOK(t, r)'
  OBVIOUS
<1> QED
  BY <1>2, <1>3, <1>4, <1>5, <1>6, StepInv

\* sys_free takes back a range that t was given.
LEMMA FreeInv ==
  ASSUME Inv, NEW t \in Threads, NEW r \in own[t], sys_free(t, r),
         UNCHANGED <<load, booting>>
  PROVE  Inv'
<1>1. /\ panic = "none" /\ panic' = "none" /\ pc[t] = "out"
      /\ Goto(t, "lock") /\ own' = [own EXCEPT ![t] = own[t] \ {r}]
      /\ call' = [call EXCEPT ![t] =
                    [kind |-> "free", first |-> r[1], count |-> r[2]]]
      /\ UNCHANGED <<pool, vaddr, pte, pde, mutex, idx, bit, tbit, started>>
      /\ booting => t = main
  BY DEF sys_free, At
<1>2. /\ TypeInv /\ BitmapInv /\ PhaseOK(t) /\ ApartInv /\ OwnedOK(t, r)
      /\ t \in Procs => t \in started
  BY <1>1, Before DEF Inv, OwnOK
<1>3. r[1] \in Nat /\ r[2] \in Nat /\ r[2] > 0
  BY <1>2 DEF TypeInv, OwnedOK
<1>4. /\ pc'[t] = "lock" /\ call'[t].kind = "free" /\ call'[t].first = r[1]
      /\ call'[t].count = r[2] /\ idx'[t] = 0 /\ own'[t] = own[t] \ {r}
      /\ \A u \in Threads \ {t} : Same(u)
  BY <1>1, <1>2 DEF TypeInv, Goto, Same, PhaseOK
<1>5. RangeOf(t)' = PagesOf(r) /\ Page(t)' = r[1] /\ ~HasRange(t)
  BY <1>1, <1>3, <1>4 DEF RangeOf, PagesOf, Page, HasRange
<1>6. TypeInv'
  <2>1. /\ pc' \in [Threads -> {"out", "lock"} \cup AllocPcs \cup FreePcs]
        /\ own' \in [Threads -> SUBSET (Nat \X Nat)]
    BY <1>1, <1>2 DEF TypeInv, Goto
  <2>2. call' \in [Threads -> [kind : {"none", "free"} \cup Allocs, first : Nat,
                               count : Nat]]
    BY <1>1, <1>2, <1>3 DEF TypeInv
  <2> QED
    BY <1>1, <1>2, <2>1, <2>2 DEF TypeInv
<1>7. PhaseOK(t)'
  BY <1>1, <1>3, <1>4 DEF PhaseOK, Inside, AllocPcs, FreePcs
<1>8. RangeOK(t)'
  <2>1. \A v \in PagesOf(r) : v >= r[1]
    BY <1>3 DEF PagesOf
  <2>2. Marked(t)' /\ \A v \in PagesOf(r) : IsMapped(t, v)'
    BY <1>4, <1>5, <2>1 DEF Marked, IsMapped
  <2> QED
    BY <1>1, <1>2, <1>5, <2>2 DEF RangeOK, OwnedOK
<1>9. ASSUME NEW u \in Threads, Space(u) = Space(t)
      PROVE  /\ \A q \in own'[u] : PagesOf(r) \cap PagesOf(q) = {}
             /\ u # t /\ HasRange(u) => PagesOf(r) \cap RangeOf(u) = {}
  <2>1. \A q \in own'[u] : q \in own[u] /\ ~(u = t /\ q = r)
    BY <1>4 DEF Same
  <2> QED
    BY <1>2, <1>9, <2>1 DEF ApartInv
<1> QED
  BY <1>1, <1>2, <1>4, <1>5, <1>6, <1>7, <1>8, <1>9, NewRange

\* start_process asks for the page of its stack, the first of its space.
LEMMA StartInv ==
  ASSUME Inv, NEW t \in Threads, start_process(t), UNCHANGED <<load, booting>>
  PROVE  Inv'
<1>1. /\ panic = "none" /\ panic' = "none" /\ pc[t] = "out" /\ t \in Procs
      /\ t \notin started /\ Goto(t, "lock")
      /\ call' = [call EXCEPT ![t] =
                    [kind |-> "get_page", first |-> StackPage, count |-> 1]]
      /\ UNCHANGED <<pool, vaddr, pte, pde, mutex, idx, bit, tbit, own>>
      /\ started' = started \cup {t}
      /\ booting => t = main
  BY DEF start_process, At, Call
<1>2. TypeInv /\ BitmapInv /\ PhaseOK(t) /\ ProcInv
  BY <1>1, Before DEF Inv
<1>3. StackPage \in Nat /\ StackPage \in VPages
  <2>1. VLen \in Nat \ {0} /\ ByteBits \in Nat \ {0}
    BY MemoryAssumption, BitmapAssumption
  <2>2. VLen * ByteBits \in Nat
    BY <2>1
  <2> QED
    BY <2>2, MemoryAssumption DEF VPages
<1>4. /\ pc'[t] = "lock" /\ call'[t].kind = "get_page" /\ call'[t].count = 1
      /\ call'[t].first = StackPage /\ idx'[t] = 0 /\ own'[t] = own[t]
      /\ \A u \in Threads \ {t} : Same(u)
  BY <1>1, <1>2 DEF TypeInv, Goto, Same, PhaseOK
<1>5. RangeOf(t)' = {StackPage} /\ Page(t)' = StackPage /\ ~HasRange(t)
  BY <1>1, <1>3, <1>4 DEF RangeOf, Page, HasRange
<1>6. TypeInv'
  <2>1. /\ pc' \in [Threads -> {"out", "lock"} \cup AllocPcs \cup FreePcs]
        /\ started' \subseteq Procs
    BY <1>1, <1>2 DEF TypeInv, Goto
  <2>2. call' \in [Threads -> [kind : {"none", "free"} \cup Allocs, first : Nat,
                               count : Nat]]
    BY <1>1, <1>2, <1>3 DEF TypeInv, Allocs
  <2> QED
    BY <1>1, <1>2, <2>1, <2>2 DEF TypeInv
<1>7. PhaseOK(t)'
  BY <1>1, <1>4 DEF PhaseOK, Inside, AllocPcs, FreePcs
<1>8. /\ Space(t) = t /\ PagesIn(Space(t)) = VPages
      /\ vaddr[t].ones = {} /\ own[t] = {} /\ pte[t][StackPage] = NULL
  BY <1>1, <1>2, <1>3, SpaceFacts DEF ProcInv
<1>9. RangeOK(t)'
  <2>1. ~Marked(t)' /\ ~IsMapped(t, StackPage)'
    BY <1>3, <1>4, <1>5 DEF Marked, IsMapped
  <2> QED
    BY <1>1, <1>3, <1>5, <1>8, <2>1 DEF RangeOK
<1>10. \A u \in Threads : Space(u) = Space(t) => u = t
  BY <1>1, SpaceFacts
<1> QED
  BY <1>1, <1>2, <1>4, <1>5, <1>6, <1>7, <1>8, <1>9, <1>10, NewRange

\* vaddr_get chooses a range none of whose bits is set: it is not mapped, and
\* meets no range that is.
LEMMA VaddrScanInv ==
  ASSUME Inv, NEW t \in Threads, vaddr_scan(t), UNCHANGED <<load, booting>>
  PROVE  Inv'
<1> DEFINE bm == vaddr[Space(t)]
           n  == call[t].count
           first == bitmap_scan(bm, n)
<1>1. /\ panic = "none" /\ pc[t] = "vaddr_scan"
      /\ booting => t = main
      /\ UNCHANGED <<pool, vaddr, pte, pde, tbit, started>>
  BY DEF vaddr_scan, At
<1>2. /\ TypeInv /\ BitmapInv /\ PhaseOK(t) /\ ApartInv /\ UnmarkedInv
      /\ t \in Procs => t \in started
      /\ \A u \in Threads : PhaseOK(u) /\ RangeOK(u) /\ OwnOK(u)
  BY <1>1, Before DEF Inv
<1>3. CASE Return(t, {}) /\ UNCHANGED panic
  BY <1>1, <1>3, FailedInv DEF AllocPcs
<1>4. CASE first # -1 /\ panic' # "none" /\ ASSERT(first # PANIC, "bitmap")
  <2>1. BitmapInv'
    BY <1>1, <1>2 DEF BitmapInv
  <2>2. panic' = "bitmap"
    BY <1>4 DEF ASSERT
  <2> QED
    BY <2>1, <2>2 DEF Inv, PteIsAbsent
<1>5. CASE /\ first # -1 /\ first # PANIC /\ panic' = "none"
           /\ call' = [call EXCEPT ![t].first = first]
           /\ Goto(t, "vaddr_set") /\ UNCHANGED <<mutex, off, idx, bit, own>>
  <2>1. /\ n \in Nat \ {0} /\ IsBitmap(bm) /\ Space(t) \in Spaces
        /\ PagesIn(Space(t)) = 0 .. Size(bm) - 1 /\ Size(bm) \in Nat
    <3>1. n \in Nat /\ n > 0
      BY <1>1, <1>2, Before DEF PhaseOK
    <3> QED
      BY <1>2, <3>1, SpaceFacts, PagesAreBits, SizeType
  <2>2. first \in Fits(bm, n)
    BY <1>5, <2>1, ScanFits
  <2> HIDE DEF first, bm
  <2>3. /\ first \in Nat /\ first <= Size(bm) - n
        /\ (first .. first + n - 1) \cap bm.ones = {}
    BY <2>1, <2>2 DEF Fits
  <2>4. /\ pc'[t] = "vaddr_set" /\ call'[t].kind = call[t].kind
        /\ call'[t].count = n /\ call'[t].first = first
        /\ \A u \in Threads \ {t} : Same(u)
    BY <1>1, <1>2, <1>5 DEF TypeInv, Goto, Same
  <2>5. /\ idx[t] = 0 /\ call[t].kind \in Allocs /\ call[t].kind # "get_page"
        /\ Inside(t)
    BY <1>1, <1>2 DEF PhaseOK, AllocPcs, Inside
  <2> HIDE DEF n
  <2>6. /\ RangeOf(t)' = first .. first + n - 1 /\ Page(t)' = first
        /\ ~HasRange(t)
    <3>1. ~HasRange(t)
      BY <1>1, <2>5 DEF HasRange, Allocs
    <3>2. idx' = idx
      BY <1>5
    <3> QED
      BY <2>3, <2>4, <2>5, <3>1, <3>2 DEF RangeOf, Page
  <2>7. TypeInv'
    <3>1. pc' \in [Threads -> {"out", "lock"} \cup AllocPcs \cup FreePcs]
      BY <1>2, <1>5 DEF TypeInv, Goto, AllocPcs
    <3>2. call' \in [Threads -> [kind : {"none", "free"} \cup Allocs, first : Nat,
                                 count : Nat]]
      BY <1>2, <1>5, <2>3 DEF TypeInv
    <3> QED
      BY <1>1, <1>2, <1>5, <3>1, <3>2 DEF TypeInv
  <2>8. PhaseOK(t)'
    <3>1. idx'[t] = 0 /\ n > 0 /\ call'[t].count > 0
      BY <1>5, <2>1, <2>4, <2>5
    <3>2. mutex'[Pool(t)] = t \/ booting
      BY <1>2, <1>5, <2>5 DEF PhaseOK
    <3> QED
      BY <1>1, <2>4, <2>5, <3>1, <3>2 DEF PhaseOK, AllocPcs, FreePcs
  <2>9. ASSUME NEW v \in first .. first + n - 1
        PROVE  /\ v \in PagesIn(Space(t)) /\ v \notin bm.ones
               /\ pte[Space(t)][v] = NULL
    <3>1. v \in PagesIn(Space(t)) /\ v \notin bm.ones /\ v \in Nat
      BY <2>1, <2>3
    <3>2. SUFFICES ASSUME pte[Space(t)][v] # NULL PROVE FALSE
      BY <3>1
    <3>3. PICK u \in Threads : /\ Space(u) = Space(t)
                              /\ pc[u] \in {"pfree", "page_table_remove"}
      BY <1>2, <2>1, <3>1, <3>2 DEF UnmarkedInv, bm
    <3>4. Inside(u)
      BY <3>3 DEF Inside
    <3>5. u = t
      BY <1>2, <2>5, <3>3, <3>4, OneInside
    <3> QED
      BY <1>1, <3>3, <3>5
  <2>10. RangeOK(t)'
    <3>1. ~Marked(t)' /\ \A v \in first .. first + n - 1 : ~IsMapped(t, v)'
      BY <2>3, <2>4, <2>5, <2>6 DEF Marked, IsMapped, Allocs
    <3> QED
      BY <1>1, <2>6, <2>9, <3>1 DEF RangeOK, bm
  <2>11. ASSUME NEW u \in Threads, Space(u) = Space(t)
         PROVE  /\ \A q \in own'[u] :
                     (first .. first + n - 1) \cap PagesOf(q) = {}
                /\ u # t /\ HasRange(u) =>
                     (first .. first + n - 1) \cap RangeOf(u) = {}
    <3>1. \A q \in own[u] : PagesOf(q) \subseteq bm.ones
      BY <1>2, <2>11 DEF OwnOK, OwnedOK, bm
    <3>2. ASSUME u # t, HasRange(u) PROVE RangeOf(u) \subseteq bm.ones
      <4>1. ~Inside(u)
        BY <1>2, <2>5, <2>11, <3>2, OneInside
      <4>2. pc[u] = "lock"
        BY <3>2, <4>1 DEF Inside, HasRange
      <4>3. u \notin Procs
        BY <2>11, <3>2, SpaceFacts
      <4>4. call[u].kind = "free"
        BY <1>2, <3>2, <4>2, <4>3 DEF HasRange, PhaseOK
      <4>5. Marked(u)
        BY <4>2, <4>4 DEF Marked
      <4> QED
        BY <1>2, <2>11, <3>2, <4>5 DEF RangeOK, bm
    <3>3. own' = own
      BY <1>5
    <3> QED
      BY <2>3, <3>1, <3>2, <3>3
  <2>12. own'[t] = own[t]
    BY <1>5
  <2> QED
    BY <1>1, <1>2, <1>5, <2>4, <2>6, <2>7, <2>8, <2>10, <2>11, <2>12, NewRange
<1> QED
  <2>1. CASE first = -1
    BY <1>3, <2>1 DEF vaddr_scan
  <2>2. CASE first # -1
    BY <1>4, <1>5, <2>2 DEF vaddr_scan, ASSERT
  <2> QED
    BY <2>1, <2>2

-----------------------------------------------------------------------------
(* The steps that mark, map and unmap the pages of a range.                *)

\* A step that changes the bits of the pages of the range of t, and no other.
LEMMA MarkStep ==
  ASSUME Inv, panic = "none", panic' = "none", NEW t \in Threads, NEW to,
         Goto(t, to), to \in {"palloc_scan", "pfree"},
         UNCHANGED <<load, booting, started, pool, pte, pde, mutex, call, idx,
                     bit, tbit, own>>,
         HasRange(t), t \in Procs => t \in started,
         NEW S \in SUBSET Int, vaddr' = [vaddr EXCEPT ![Space(t)].ones = S],
         \A v \in Int : v \notin RangeOf(t) =>
           (v \in S <=> v \in vaddr[Space(t)].ones),
         PhaseOK(t)', \A v \in RangeOf(t) : v \in S <=> Marked(t)',
         Marked(t)' \/ to = "pfree"
  PROVE  Inv'
<1>1. /\ TypeInv /\ BitmapInv /\ ApartInv /\ ProcInv /\ RangeOK(t)
      /\ Space(t) \in Spaces
  BY SpaceFacts DEF Inv
<1>2. pc'[t] = to /\ \A u \in Threads \ {t} : Same(u)
  BY <1>1 DEF TypeInv, Goto, Same
<1>3. /\ vaddr' = [s \in Spaces |-> vaddr'[s]]
      /\ vaddr'[Space(t)].ones = S /\ IsBitmap(vaddr'[Space(t)])
      /\ vaddr'[Space(t)].length = vaddr[Space(t)].length
      /\ \A s \in Spaces \ {Space(t)} : vaddr'[s] = vaddr[s]
  BY <1>1 DEF BitmapInv, IsBitmap
<1>4. BitmapInv'
  BY <1>1, <1>3 DEF BitmapInv
<1>5. TypeInv'
  BY <1>1 DEF TypeInv, Goto, AllocPcs, FreePcs
<1>6. /\ RangeOf(t)' = RangeOf(t) /\ HasRange(t)'
      /\ \A v \in RangeOf(t) : IsMapped(t, v)' = IsMapped(t, v)
  BY <1>2 DEF RangeOf, HasRange, IsMapped, Page
<1>7. RangeOK(t)'
  <2>1. /\ RangeOf(t) \subseteq PagesIn(Space(t))
        /\ \A v \in RangeOf(t) : pte[Space(t)][v] # NULL <=> IsMapped(t, v)
    BY <1>1 DEF RangeOK
  <2>2. \A v \in RangeOf(t)' : /\ v \in vaddr'[Space(t)].ones <=> Marked(t)'
                               /\ pte'[Space(t)][v] # NULL <=> IsMapped(t, v)'
    BY <1>3, <1>6, <2>1
  <2> QED
    BY <1>6, <2>1, <2>2 DEF RangeOK
<1>8. ApartInv'
  BY <1>1, <1>2, <1>6, ApartKept
<1>9. OwnStep(t)
  <2>1. ASSUME NEW s \in Spaces, NEW v \in PagesIn(s)
        PROVE  \/ Touches(t, s, v)
               \/ v \in vaddr'[s].ones <=> v \in vaddr[s].ones
    <3>1. v \in Int
      BY <1>1, PagesAreBits
    <3> QED
      BY <1>3, <3>1 DEF Touches
  <2>2. ASSUME NEW u \in Procs \ {t} PROVE vaddr'[u] = vaddr[u]
    <3>1. u \in Spaces \ {Space(t)}
      BY MemoryAssumption DEF Spaces, Space
    <3> QED
      BY <1>3, <3>1
  <2>3. \A u \in Threads \ {t} : Same(u)
    BY <1>2
  <2> QED
    BY <2>1, <2>2, <2>3 DEF OwnStep
<1>10. OwnUnmarked(t)
  BY <1>2, <1>3, <1>6 DEF OwnUnmarked
<1>11. OwnTables(t)
  BY <1>1 DEF OwnTables, ProcInv
<1>12. own'[t] \ own[t] = {}
  OBVIOUS
<1> QED
  BY <1>4, <1>5, <1>7, <1>8, <1>9, <1>10, <1>11, <1>12, StepInv

\* A thread that has chosen its range and is about to mark it.
LEMMA VaddrSetInv ==
  ASSUME Inv, NEW t \in Threads, vaddr_set(t) \/ stack_set(t),
         UNCHANGED <<load, booting>>
  PROVE  Inv'
<1> DEFINE bm == vaddr[Space(t)]
           S  == bm.ones \cup RangeOf(t)
<1>1. /\ panic = "none" /\ pc[t] \in {"vaddr_set", "stack_set"}
      /\ Goto(t, "palloc_scan")
      /\ UNCHANGED <<pool, pte, pde, mutex, call, idx, bit, tbit, own, started>>
  BY DEF vaddr_set, stack_set, At
<1>2. /\ TypeInv /\ BitmapInv /\ PhaseOK(t) /\ Space(t) \in Spaces
      /\ t \in Procs => t \in started
      /\ call[t].count \in Nat /\ call[t].first \in Nat
  BY <1>1, Before, SpaceFacts
<1>3. /\ Inside(t) /\ call[t].kind \in Allocs /\ idx[t] = 0
      /\ pc[t] = "stack_set" => call[t].first = StackPage /\ call[t].count = 1
  BY <1>1, <1>2 DEF Inside, PhaseOK, AllocPcs
<1>4. panic' = "none"
  <2>1. StackPage \in Int /\ StackPage >= 1
    BY MemoryAssumption
  <2>2. stack_set(t) => call[t].first > 0
    BY <1>3, <2>1 DEF stack_set, At
  <2> QED
    BY <1>1, <2>2 DEF vaddr_set, stack_set, ASSERT
<1>5. vaddr' = [vaddr EXCEPT ![Space(t)].ones = S]
  <2>1. CASE vaddr_set(t)
    BY <2>1 DEF vaddr_set, RangeOf
  <2>2. CASE stack_set(t)
    <3>1. call[t].count = 1
      BY <1>3, <2>2 DEF stack_set, At
    <3>2. RangeOf(t) = {call[t].first}
      BY <1>2, <3>1 DEF RangeOf
    <3>3. bitmap_set(bm, call[t].first) = [bm EXCEPT !.ones = S]
      BY <3>2 DEF bitmap_set
    <3> QED
      BY <2>2, <3>3 DEF stack_set
  <2> QED
    BY <2>1, <2>2
<1>6. S \in SUBSET Int
  BY <1>2 DEF BitmapInv, IsBitmap, RangeOf
<1>7. HasRange(t)
  BY <1>1 DEF HasRange
<1>8. pc'[t] = "palloc_scan"
  BY <1>1, <1>2 DEF TypeInv, Goto
<1>9. PhaseOK(t)'
  BY <1>1, <1>2, <1>3, <1>8 DEF PhaseOK, Inside, AllocPcs, FreePcs
<1>10. Marked(t)'
  BY <1>1, <1>3, <1>8 DEF Marked, Allocs
<1>11. /\ \A v \in RangeOf(t) : v \in S
       /\ \A v \in Int : v \notin RangeOf(t) => (v \in S <=> v \in bm.ones)
  OBVIOUS
<1> HIDE DEF S
<1> QED
  BY <1>1, <1>2, <1>4, <1>5, <1>6, <1>7, <1>9, <1>10, <1>11, MarkStep

\* free_page clears the bits of its range first.
LEMMA VaddrRemoveInv ==
  ASSUME Inv, NEW t \in Threads, vaddr_remove(t), UNCHANGED <<load, booting>>
  PROVE  Inv'
<1> DEFINE bm == vaddr[Space(t)]
           S  == bm.ones \ RangeOf(t)
<1>1. /\ panic = "none" /\ panic' = "none" /\ pc[t] = "vaddr_remove"
      /\ Goto(t, "pfree") /\ vaddr' = [vaddr EXCEPT ![Space(t)].ones = S]
      /\ UNCHANGED <<pool, pte, pde, mutex, call, idx, bit, tbit, own, started>>
  BY DEF vaddr_remove, At, RangeOf
<1>2. /\ TypeInv /\ BitmapInv /\ PhaseOK(t) /\ Space(t) \in Spaces
      /\ t \in Procs => t \in started
  BY <1>1, Before, SpaceFacts
<1>3. Inside(t) /\ call[t].kind = "free" /\ idx[t] = 0
  BY <1>1, <1>2 DEF Inside, PhaseOK, FreePcs
<1>4. S \in SUBSET Int
  BY <1>2 DEF BitmapInv, IsBitmap
<1>5. HasRange(t)
  BY <1>1, <1>3 DEF HasRange
<1>6. pc'[t] = "pfree"
  BY <1>1, <1>2 DEF TypeInv, Goto
<1>7. PhaseOK(t)'
  BY <1>1, <1>2, <1>3, <1>6 DEF PhaseOK, Inside, AllocPcs, FreePcs
<1>8. ~Marked(t)'
  BY <1>1, <1>3, <1>6 DEF Marked
<1>9. /\ \A v \in RangeOf(t) : v \notin S
      /\ \A v \in Int : v \notin RangeOf(t) => (v \in S <=> v \in bm.ones)
  OBVIOUS
<1> HIDE DEF S
<1> QED
  BY <1>1, <1>2, <1>4, <1>5, <1>7, <1>8, <1>9, MarkStep

(***************************************************************************)
(* A step of a loop that sets the pte of its page to x and goes on with    *)
(* the next page, or returns after the last one.                           *)
(***************************************************************************)
Loops(t, x, to, got) ==
  /\ pte' = [pte EXCEPT ![Space(t)][Page(t)] = x]
  /\ \/ /\ idx[t] + 1 < call[t].count
        /\ idx' = [idx EXCEPT ![t] = @ + 1]
        /\ Goto(t, to)
        /\ bit' = [u \in Threads |-> bit'[u]]
        /\ \A u \in Threads \ {t} : bit'[u] = bit[u]
        /\ UNCHANGED <<mutex, call, own>>
     \/ /\ idx[t] + 1 = call[t].count
        /\ Return(t, got)

\* What it leaves of the page tables.
LEMMA LoopTables ==
  ASSUME Inv, panic = "none", NEW t \in Threads, pc[t] \in Filling \cup Emptying,
         NEW x \in Frames, pte' = [pte EXCEPT ![Space(t)][Page(t)] = x]
  PROVE  /\ pte' = [s \in Spaces |-> pte'[s]]
         /\ \A s \in Spaces : pte'[s] \in [PagesIn(s) -> Frames]
         /\ \A s \in Spaces : s # Space(t) => pte'[s] = pte[s]
         /\ pte'[Space(t)][Page(t)] = x
         /\ \A v \in PagesIn(Space(t)) : v # Page(t) =>
              pte'[Space(t)][v] = pte[Space(t)][v]
<1>1. /\ pte = [s \in Spaces |-> pte[s]]
      /\ \A s \in Spaces : pte[s] \in [PagesIn(s) -> Frames]
  BY Before DEF TypeInv
<1>2. Space(t) \in Spaces /\ Page(t) \in PagesIn(Space(t))
  BY PageInRange
<1>3. pte[Space(t)] \in [PagesIn(Space(t)) -> Frames]
  BY <1>1, <1>2
<1> DEFINE s0 == Space(t)
           p0 == Page(t)
           P  == PagesIn(s0)
           f  == [pte[s0] EXCEPT ![p0] = x]
<1>4. /\ f \in [P -> Frames] /\ f[p0] = x
      /\ \A v \in P : v # p0 => f[v] = pte[s0][v]
  <2> HIDE DEF s0, p0, P
  <2>1. pte[s0] \in [P -> Frames] /\ p0 \in P
    BY <1>2, <1>3 DEF s0, p0, P
  <2> QED
    BY <2>1
<1>5. pte' = [pte EXCEPT ![s0] = f]
  OBVIOUS
<1>6. pte'[s0] = f
  BY <1>1, <1>2, <1>5
<1> QED
  BY <1>1, <1>2, <1>4, <1>5, <1>6

\* OwnStep and the types of such a step.
LEMMA LoopStays ==
  ASSUME Inv, panic = "none", NEW t \in Threads, pc[t] \in Filling \cup Emptying,
         NEW x \in Frames, NEW to \in AllocPcs \cup FreePcs,
         NEW got \in SUBSET (Nat \X Nat), Loops(t, x, to, got),
         UNCHANGED <<load, booting, started, pool, vaddr, pde, tbit>>
  PROVE  OwnStep(t) /\ TypeInv' /\ BitmapInv'
<1>1. /\ TypeInv /\ BitmapInv
      /\ t \in Procs => t \in started
  BY Before DEF Filling, Emptying
<1>2. /\ pte' = [s \in Spaces |-> pte'[s]]
      /\ \A s \in Spaces : pte'[s] \in [PagesIn(s) -> Frames]
      /\ \A s \in Spaces : s # Space(t) => pte'[s] = pte[s]
      /\ \A v \in PagesIn(Space(t)) : v # Page(t) =>
           pte'[Space(t)][v] = pte[Space(t)][v]
  BY LoopTables DEF Loops
<1>3. Page(t) \in RangeOf(t) /\ HasRange(t)
  BY PageInRange
<1>4. BitmapInv'
  BY <1>1 DEF BitmapInv
<1>5. /\ TypeInv' /\ \A u \in Threads \ {t} : Same(u)
      /\ \A p \in Pools : mutex'[p] = mutex[p] \/ mutex[p] \in {NULL, t}
  <2>1. CASE Return(t, got)
    <3>1. /\ \A u \in Threads \ {t} : Same(u)
          /\ \A p \in Pools : mutex'[p] = mutex[p] \/ mutex[p] \in {NULL, t}
          /\ pc' \in [Threads -> {"out", "lock"} \cup AllocPcs \cup FreePcs]
          /\ call' \in [Threads -> [kind : {"none", "free"} \cup Allocs,
                                    first : Nat, count : Nat]]
          /\ idx' \in [Threads -> Nat] /\ bit' = [u \in Threads |-> bit'[u]]
          /\ mutex' = [p \in Pools |-> mutex'[p]]
          /\ own' \in [Threads -> SUBSET (Nat \X Nat)]
      BY <1>1, <2>1, ReturnFacts
    <3> QED
      BY <1>1, <1>2, <3>1 DEF TypeInv
  <2>2. CASE ~Return(t, got)
    <3>1. /\ idx' = [idx EXCEPT ![t] = @ + 1] /\ Goto(t, to)
          /\ bit' = [u \in Threads |-> bit'[u]]
          /\ \A u \in Threads \ {t} : bit'[u] = bit[u]
          /\ UNCHANGED <<mutex, call, own>>
      BY <2>2 DEF Loops
    <3>2. /\ idx' \in [Threads -> Nat]
          /\ pc' \in [Threads -> {"out", "lock"} \cup AllocPcs \cup FreePcs]
      BY <1>1, <3>1 DEF TypeInv, Goto
    <3>3. \A u \in Threads \ {t} : Same(u)
      BY <1>1, <3>1 DEF TypeInv, Goto, Same
    <3> QED
      BY <1>1, <1>2, <3>1, <3>2, <3>3 DEF TypeInv
  <2> QED
    BY <2>1, <2>2
<1>6. OwnStep(t)
  <2>1. \A u \in Procs \ {t} : pte'[u] = pte[u]
    <3>1. ASSUME NEW u \in Procs \ {t} PROVE u \in Spaces /\ u # Space(t)
      BY MemoryAssumption DEF Spaces, Space
    <3> QED
      BY <1>2, <3>1
  <2>2. \A s \in Spaces : \A v \in PagesIn(s) :
          Touches(t, s, v) \/ pte'[s][v] = pte[s][v]
    BY <1>2, <1>3 DEF Touches
  <2> QED
    BY <1>1, <1>5, <2>1, <2>2 DEF OwnStep
<1> QED
  BY <1>4, <1>5, <1>6

\* page_table_add maps the next page of the range; after the last one the
\* range is given to the caller.
LEMMA PageTableAddInv ==
  ASSUME Inv, NEW t \in Threads, page_table_add(t), UNCHANGED <<load, booting>>
  PROVE  Inv'
<1> DEFINE got == IF call[t].kind = "get_page" THEN {}
                  ELSE {<<call[t].first, call[t].count>>}
<1>1. /\ panic = "none" /\ pc[t] = "page_table_add" /\ HasTable(t)
      /\ ASSERT(pte[Space(t)][Page(t)] = NULL, "pte")
      /\ UNCHANGED <<pool, vaddr, pde, tbit, started>>
      /\ booting => t = main
  BY DEF page_table_add, At
<1>2. /\ TypeInv /\ BitmapInv /\ PhaseOK(t) /\ ProcInv /\ RangeOK(t) /\ ApartInv
      /\ call[t].count \in Nat /\ call[t].first \in Nat /\ idx[t] \in Nat
  BY <1>1, Before DEF Inv
<1>3. pc[t] \in Filling
  BY <1>1 DEF Filling
<1>4. /\ Page(t) \in RangeOf(t) /\ HasRange(t) /\ Page(t) \in PagesIn(Space(t))
      /\ call[t].kind \in Allocs /\ pte[Space(t)][Page(t)] = NULL
      /\ Page(t) \in Nat
  BY <1>1, <1>3, PageInRange
<1>5. panic' = "none" /\ bit[t] \in Frames /\ bit[t] # NULL
  <2>1. bit[t] \in Nat /\ NULL \notin Nat
    BY <1>1, <1>2, MemoryAssumption DEF PhaseOK
  <2> QED
    BY <1>1, <1>4, <2>1 DEF ASSERT, Frames
<1>6. Loops(t, bit[t], "palloc_scan", got)
  <2>1. bit = [u \in Threads |-> bit[u]]
    BY <1>2 DEF TypeInv
  <2>2. \/ /\ idx[t] + 1 < call[t].count
           /\ idx' = [idx EXCEPT ![t] = @ + 1]
           /\ bit' = [bit EXCEPT ![t] = NULL]
           /\ Goto(t, "palloc_scan")
           /\ UNCHANGED <<mutex, off, call, own>>
        \/ /\ idx[t] + 1 = call[t].count
           /\ Return(t, got)
    BY DEF page_table_add
  <2>3. bit' = [bit EXCEPT ![t] = NULL] =>
          /\ bit' = [u \in Threads |-> bit'[u]]
          /\ \A u \in Threads \ {t} : bit'[u] = bit[u]
    BY <2>1
  <2>4. pte' = [pte EXCEPT ![Space(t)][Page(t)] = bit[t]]
    BY DEF page_table_add
  <2> QED
    BY <2>2, <2>3, <2>4 DEF Loops
<1>7. got \in SUBSET (Nat \X Nat) /\ "palloc_scan" \in AllocPcs \cup FreePcs
  BY <1>2 DEF AllocPcs
<1>8. OwnStep(t) /\ TypeInv' /\ BitmapInv'
  BY <1>1, <1>3, <1>5, <1>6, <1>7, LoopStays
<1>9. /\ pte'[Space(t)][Page(t)] # NULL
      /\ \A v \in PagesIn(Space(t)) : v # Page(t) =>
           pte'[Space(t)][v] = pte[Space(t)][v]
  BY <1>1, <1>3, <1>5, <1>6, LoopTables DEF Loops
<1>10. ASSUME NEW v \in RangeOf(t)
       PROVE  /\ v \in Int /\ v \in PagesIn(Space(t))
              /\ v \in vaddr'[Space(t)].ones
              /\ pte'[Space(t)][v] # NULL <=> v < Page(t) + 1
  <2>1. v \in Int /\ v \in PagesIn(Space(t))
    BY <1>2, <1>4 DEF RangeOf, RangeOK
  <2>2. Marked(t)
    BY <1>1, <1>4 DEF Marked, Allocs
  <2>3. v \in vaddr'[Space(t)].ones
    BY <1>1, <1>2, <1>4, <2>2 DEF RangeOK
  <2>4. pte[Space(t)][v] # NULL <=> v < Page(t)
    BY <1>2, <1>4 DEF RangeOK, IsMapped, Allocs
  <2>5. CASE v = Page(t)
    BY <1>4, <1>9, <2>1, <2>3, <2>5
  <2>6. CASE v # Page(t)
    <3>1. v < Page(t) + 1 <=> v < Page(t)
      BY <1>4, <2>1, <2>6
    <3> QED
      BY <1>9, <2>1, <2>3, <2>4, <2>6, <3>1
  <2> QED
    BY <2>5, <2>6
<1>11. OwnUnmarked(t)
  BY <1>10 DEF OwnUnmarked
<1>12. OwnTables(t)
  <2>1. ASSUME t \in Procs, NEW v \in VPages, pde'[t][v \div TablePages] = NULL
        PROVE  pte'[t][v] = NULL
    <3>1. /\ Space(t) = t /\ PagesIn(Space(t)) = VPages
          /\ pde[t][v \div TablePages] = NULL /\ pte[t][v] = NULL
      BY <1>1, <1>2, <2>1, SpaceFacts DEF ProcInv
    <3>2. v # Page(t)
      BY <1>1, <2>1, <3>1 DEF HasTable, TableOf
    <3> QED
      BY <1>9, <2>1, <3>1, <3>2
  <2> QED
    BY <2>1 DEF OwnTables
<1>13. Inside(t) /\ call[t].count > 0
  BY <1>1, <1>2 DEF Inside, PhaseOK
<1>14. CASE Return(t, got) /\ idx[t] + 1 = call[t].count
  <2>1. /\ ~HasRange(t)' /\ own'[t] = own[t] \cup got
        /\ \A u \in Threads \ {t} : Same(u)
    BY <1>1, <1>2, <1>14, ReturnFacts
  <2>2. PhaseOK(t)'
    BY <1>1, <1>2, <1>14, ReturnFacts
  <2>3. RangeOK(t)'
    BY <2>1 DEF RangeOK
  <2>4. ASSUME NEW r \in got
        PROVE  r[2] > 0 /\ PagesOf(r) = RangeOf(t)
    BY <1>2, <1>13 DEF PagesOf, RangeOf
  <2>5. \A v \in RangeOf(t) : v < Page(t) + 1
    BY <1>2, <1>14 DEF RangeOf, Page
  <2>6. \A r \in own'[t] \ own[t] : OwnedOK(t, r)'
    <3>1. ASSUME NEW r \in got PROVE OwnedOK(t, r)'
      BY <1>10, <2>4, <2>5 DEF OwnedOK
    <3> QED
      BY <2>1, <3>1
  <2>7. ApartInv'
    <3>1. \A u \in Threads : u # t =>
            own'[u] = own[u] /\ HasRange(u)' = HasRange(u)
            /\ RangeOf(u)' = RangeOf(u)
      BY <2>1, SameFacts DEF Same
    <3>2. ASSUME NEW a \in Threads, NEW b \in Threads, Space(a) = Space(b)
          PROVE  /\ \A r \in own'[a], q \in own'[b] :
                      PagesOf(r) \cap PagesOf(q) # {} => a = b /\ r = q
                 /\ HasRange(a)' => \A q \in own'[b] :
                      RangeOf(a)' \cap PagesOf(q) = {}
                 /\ HasRange(a)' /\ HasRange(b)' /\ a # b =>
                      RangeOf(a)' \cap RangeOf(b)' = {}
      <4>1. /\ \A r \in own[a], q \in own[b] :
                 PagesOf(r) \cap PagesOf(q) # {} => a = b /\ r = q
            /\ HasRange(a) => \A q \in own[b] : RangeOf(a) \cap PagesOf(q) = {}
            /\ HasRange(b) => \A q \in own[a] : RangeOf(b) \cap PagesOf(q) = {}
            /\ HasRange(a) /\ HasRange(b) /\ a # b =>
                 RangeOf(a) \cap RangeOf(b) = {}
        BY <1>2, <3>2 DEF ApartInv
      <4>2. ASSUME NEW r \in own'[a], NEW q \in own'[b],
                   PagesOf(r) \cap PagesOf(q) # {}
            PROVE  a = b /\ r = q
        <5>1. r \in own[a] \/ (a = t /\ r \in got)
          BY <2>1, <3>1
        <5>2. q \in own[b] \/ (b = t /\ q \in got)
          BY <2>1, <3>1
        <5>3. CASE r \in own[a] /\ q \in own[b]
          BY <4>1, <4>2, <5>3
        <5>4. CASE a = t /\ r \in got /\ q \in own[b]
          BY <1>4, <2>4, <4>1, <4>2, <5>4
        <5>5. CASE b = t /\ q \in got /\ r \in own[a]
          BY <1>4, <2>4, <4>1, <4>2, <5>5
        <5>6. CASE a = t /\ r \in got /\ b = t /\ q \in got
          BY <5>6
        <5> QED
          BY <5>1, <5>2, <5>3, <5>4, <5>5, <5>6
      <4>3. ASSUME HasRange(a)', NEW q \in own'[b]
            PROVE  RangeOf(a)' \cap PagesOf(q) = {}
        <5>1. a # t /\ HasRange(a) /\ RangeOf(a)' = RangeOf(a)
          BY <2>1, <3>1, <4>3
        <5>2. CASE q \in own[b]
          BY <4>1, <5>1, <5>2
        <5>3. CASE q \notin own[b]
          <6>1. b = t /\ q \in got
            BY <2>1, <3>1, <5>3
          <6> QED
            BY <1>4, <2>4, <4>1, <5>1, <6>1
        <5> QED
          BY <5>2, <5>3
      <4>4. HasRange(a)' /\ HasRange(b)' /\ a # b =>
              RangeOf(a)' \cap RangeOf(b)' = {}
        BY <2>1, <3>1, <4>1
      <4> QED
        BY <4>2, <4>3, <4>4
    <3> QED
      BY <3>2 DEF ApartInv
  <2> HIDE DEF got
  <2> QED
    BY <1>1, <1>5, <1>8, <1>11, <1>12, <2>2, <2>3, <2>6, <2>7, StepInv
<1>15. CASE /\ idx[t] + 1 < call[t].count
            /\ idx' = [idx EXCEPT ![t] = @ + 1]
            /\ Goto(t, "palloc_scan")
            /\ UNCHANGED <<mutex, call, own>>
  <2>1. pc'[t] = "palloc_scan" /\ idx'[t] = idx[t] + 1
    BY <1>2, <1>15 DEF TypeInv, Goto
  <2>2. PhaseOK(t)'
    BY <1>1, <1>2, <1>4, <1>13, <1>15, <2>1
    DEF PhaseOK, Inside, AllocPcs, FreePcs
  <2>3. /\ RangeOf(t)' = RangeOf(t) /\ Page(t)' = Page(t) + 1 /\ Marked(t)'
        /\ \A v : IsMapped(t, v)' <=> v < Page(t) + 1
    <3>1. Page(t)' = Page(t) + 1
      BY <1>2, <1>15, <2>1 DEF Page
    <3> QED
      BY <1>4, <1>15, <2>1, <3>1 DEF RangeOf, Marked, IsMapped, Allocs
  <2>4. RangeOK(t)'
    BY <1>10, <2>3 DEF RangeOK
  <2>5. ApartInv'
    <3>1. \A u \in Threads \ {t} : Same(u)
      BY <1>8 DEF OwnStep
    <3> QED
      BY <1>2, <1>4, <1>15, <2>3, <3>1, ApartKept
  <2>6. own'[t] \ own[t] = {}
    BY <1>15
  <2> QED
    BY <1>1, <1>5, <1>8, <1>11, <1>12, <2>2, <2>4, <2>5, <2>6, StepInv
<1> HIDE DEF got
<1> QED
  BY <1>6, <1>14, <1>15 DEF Loops

\* page_table_remove unmaps the next page of the range.
LEMMA PageTableRemoveInv ==
  ASSUME Inv, NEW t \in Threads, page_table_remove(t),
         UNCHANGED <<load, booting>>
  PROVE  Inv'
<1>1. /\ panic = "none" /\ pc[t] = "page_table_remove"
      /\ ASSERT(HasTable(t), "pde")
      /\ UNCHANGED <<pool, vaddr, pde, tbit, started>>
      /\ booting => t = main
  BY DEF page_table_remove, At
<1>2. /\ TypeInv /\ BitmapInv /\ PhaseOK(t) /\ ProcInv /\ RangeOK(t) /\ ApartInv
      /\ call[t].count \in Nat /\ call[t].first \in Nat /\ idx[t] \in Nat
  BY <1>1, Before DEF Inv
<1>3. pc[t] \in Emptying /\ pc[t] \in Filling \cup Emptying
  BY <1>1 DEF Emptying
<1>4. /\ Page(t) \in RangeOf(t) /\ HasRange(t) /\ Page(t) \in PagesIn(Space(t))
      /\ call[t].kind = "free" /\ pte[Space(t)][Page(t)] \in Nat
      /\ Page(t) \in Nat
  BY <1>1, <1>3, PageInRange
<1>5. panic' = "none"
  <2>1. ASSUME t \in Procs PROVE pde[t][TableOf(t)] # NULL
    <3>1. Space(t) = t /\ Page(t) \in VPages /\ NULL \notin Nat
      BY <1>4, <2>1, SpaceFacts, MemoryAssumption
    <3> QED
      BY <1>2, <1>4, <2>1, <3>1 DEF ProcInv, TableOf
  <2> QED
    BY <1>1, <2>1 DEF ASSERT, HasTable
<1>6. Loops(t, NULL, "pfree", {})
  <2>1. bit = [u \in Threads |-> bit[u]]
    BY <1>2 DEF TypeInv
  <2>2. pte' = [pte EXCEPT ![Space(t)][Page(t)] = NULL]
    BY DEF page_table_remove
  <2> QED
    BY <2>1, <2>2 DEF page_table_remove, Loops
<1>7. {} \in SUBSET (Nat \X Nat) /\ "pfree" \in AllocPcs \cup FreePcs
      /\ NULL \in Frames
  BY DEF FreePcs, Frames
<1>8. OwnStep(t) /\ TypeInv' /\ BitmapInv'
  BY <1>1, <1>3, <1>6, <1>7, LoopStays
<1>9. /\ pte'[Space(t)][Page(t)] = NULL
      /\ \A v \in PagesIn(Space(t)) : v # Page(t) =>
           pte'[Space(t)][v] = pte[Space(t)][v]
  BY <1>1, <1>3, <1>6, <1>7, LoopTables DEF Loops
<1>10. ASSUME NEW v \in RangeOf(t)
       PROVE  /\ v \in Int /\ v \in PagesIn(Space(t))
              /\ v \notin vaddr'[Space(t)].ones
              /\ pte'[Space(t)][v] # NULL <=> v >= Page(t) + 1
  <2>1. v \in Int /\ v \in PagesIn(Space(t))
    BY <1>2, <1>4 DEF RangeOf, RangeOK
  <2>2. ~Marked(t)
    BY <1>1, <1>4 DEF Marked
  <2>3. v \notin vaddr'[Space(t)].ones
    BY <1>1, <1>2, <1>4, <2>2 DEF RangeOK
  <2>4. pte[Space(t)][v] # NULL <=> v >= Page(t)
    BY <1>2, <1>4 DEF RangeOK, IsMapped
  <2>5. CASE v = Page(t)
    <3>1. ~(v >= Page(t) + 1)
      BY <1>4, <2>5
    <3> QED
      BY <1>9, <2>1, <2>3, <2>5, <3>1
  <2>6. CASE v # Page(t)
    <3>1. v >= Page(t) + 1 <=> v >= Page(t)
      BY <1>4, <2>1, <2>6
    <3> QED
      BY <1>9, <2>1, <2>3, <2>4, <2>6, <3>1
  <2> QED
    BY <2>5, <2>6
<1>11. OwnTables(t)
  <2>1. ASSUME t \in Procs, NEW v \in VPages, pde'[t][v \div TablePages] = NULL
        PROVE  pte'[t][v] = NULL
    <3>1. /\ Space(t) = t /\ PagesIn(Space(t)) = VPages
          /\ pde[t][v \div TablePages] = NULL /\ pte[t][v] = NULL
      BY <1>1, <1>2, <2>1, SpaceFacts DEF ProcInv
    <3> QED
      BY <1>9, <2>1, <3>1
  <2> QED
    BY <2>1 DEF OwnTables
<1>12. CASE Return(t, {}) /\ idx[t] + 1 = call[t].count
  <2>1. /\ ~HasRange(t)' /\ own'[t] = own[t] \cup {}
        /\ \A u \in Threads \ {t} : Same(u)
    BY <1>1, <1>2, <1>12, ReturnFacts
  <2>2. PhaseOK(t)'
    BY <1>1, <1>2, <1>12, ReturnFacts
  <2>3. RangeOK(t)'
    BY <2>1 DEF RangeOK
  <2>4. \A v \in RangeOf(t) : ~(v >= Page(t) + 1)
    BY <1>2, <1>12 DEF RangeOf, Page
  <2>5. OwnUnmarked(t)
    BY <1>10, <2>4 DEF OwnUnmarked
  <2>6. own'[t] = own[t]
    BY <2>1
  <2>7. ApartInv'
    BY <1>2, <2>1, <2>6, ApartKept
  <2> QED
    BY <1>1, <1>5, <1>8, <1>11, <2>2, <2>3, <2>5, <2>6, <2>7, StepInv
<1>13. CASE /\ idx[t] + 1 < call[t].count
            /\ idx' = [idx EXCEPT ![t] = @ + 1]
            /\ Goto(t, "pfree")
            /\ UNCHANGED <<mutex, call, own>>
  <2>1. pc'[t] = "pfree" /\ idx'[t] = idx[t] + 1
    BY <1>2, <1>13 DEF TypeInv, Goto
  <2>2. Inside(t) /\ call[t].count > 0
    BY <1>1, <1>2 DEF Inside, PhaseOK
  <2>3. PhaseOK(t)'
    BY <1>1, <1>2, <1>4, <1>13, <2>1, <2>2
    DEF PhaseOK, Inside, AllocPcs, FreePcs
  <2>4. /\ RangeOf(t)' = RangeOf(t) /\ Page(t)' = Page(t) + 1 /\ ~Marked(t)'
        /\ \A v : IsMapped(t, v)' <=> v >= Page(t) + 1
    <3>1. Page(t)' = Page(t) + 1
      BY <1>2, <1>13, <2>1 DEF Page
    <3> QED
      BY <1>4, <1>13, <2>1, <3>1 DEF RangeOf, Marked, IsMapped
  <2>5. RangeOK(t)'
    BY <1>10, <2>4 DEF RangeOK
  <2>6. ApartInv'
    <3>1. \A u \in Threads \ {t} : Same(u)
      BY <1>8 DEF OwnStep
    <3> QED
      BY <1>2, <1>4, <1>13, <2>4, <3>1, ApartKept
  <2>7. OwnUnmarked(t)
    BY <2>1, <2>4 DEF OwnUnmarked
  <2>8. own'[t] \ own[t] = {}
    BY <1>13
  <2> QED
    BY <1>1, <1>5, <1>8, <1>11, <2>3, <2>5, <2>6, <2>7, <2>8, StepInv
<1> QED
  BY <1>6, <1>12, <1>13 DEF Loops

-----------------------------------------------------------------------------
(* The theorems about the pages.                                           *)

\* main has not enabled interrupts and no thread is in the allocator.
LEMMA BootInv ==
  ASSUME Inv, intr_enable
  PROVE  Inv'
<1>1. /\ panic = "none" /\ booting /\ pc[main] = "out" /\ booting' = FALSE
      /\ UNCHANGED <<load, pool, vaddr, pte, pde, mutex, off, pc, call, idx, bit,
                     tbit, own, started, panic>>
  BY DEF intr_enable, At
<1>2. /\ TypeInv /\ ApartInv /\ UnmarkedInv /\ ProcInv /\ BitmapInv
      /\ \A u \in Threads : PhaseOK(u) /\ RangeOK(u) /\ OwnOK(u)
  BY <1>1 DEF Inv
<1>3. \A u \in Threads : Same(u)
  BY <1>1 DEF Same
<1>4. TypeInv' /\ BitmapInv'
  BY <1>1, <1>2 DEF TypeInv, BitmapInv
<1>5. UnmarkedInv' /\ ProcInv'
  BY <1>1, <1>2 DEF UnmarkedInv, ProcInv, RangeOf
<1>6. ApartInv'
  <2>1. main \in Threads
    BY MemoryAssumption DEF Threads
  <2>2. own' = own
    BY <1>1
  <2> QED
    BY <1>2, <1>3, <2>1, <2>2, SameFacts, ApartKept
<1>7. ASSUME NEW u \in Threads PROVE PhaseOK(u)' /\ RangeOK(u)' /\ OwnOK(u)'
  <2>1. /\ pc[u] = "out" /\ idx[u] = 0
    BY <1>1, <1>2 DEF PhaseOK
  <2>2. PhaseOK(u)'
    BY <1>1, <2>1 DEF PhaseOK, Inside, AllocPcs, FreePcs
  <2>3. RangeOK(u)'
    BY <1>1, <2>1 DEF RangeOK, HasRange
  <2>4. OwnOK(u)'
    BY <1>1, <1>2 DEF OwnOK, OwnedOK
  <2> QED
    BY <2>2, <2>3, <2>4
<1> QED
  BY <1>1, <1>4, <1>5, <1>6, <1>7 DEF Inv, PteIsAbsent

\* Nothing is allocated when mem_pool_init is done.
LEMMA InitInv ==
  ASSUME Init
  PROVE  Inv
<1>1. /\ panic = "none" /\ pc = [t \in Threads |-> "out"]
      /\ own = [t \in Threads |-> {}] /\ idx = [t \in Threads |-> 0]
      /\ call = [t \in Threads |-> NoCall] /\ started = {}
  BY DEF Init
<1>2. BitmapInv
  <2>1. KLen \in Nat \ {0} /\ ULen \in Nat \ {0} /\ VLen \in Nat \ {0}
    BY MemoryAssumption
  <2>2. \A n \in Nat \ {0} : IsBitmap(bitmap_init(n)) /\ bitmap_init(n).length = n
    BY DEF IsBitmap, bitmap_init
  <2>3. \A p \in Pools : IsBitmap(pool[p])
    BY <2>1, <2>2 DEF Init
  <2>4. \A s \in Spaces : /\ IsBitmap(vaddr[s])
                          /\ vaddr[s].length = IF s = "kernel" THEN KLen ELSE VLen
    BY <2>1, <2>2 DEF Init
  <2>5. pool = [p \in Pools |-> pool[p]] /\ vaddr = [s \in Spaces |-> vaddr[s]]
    BY DEF Init
  <2> QED
    BY <2>3, <2>4, <2>5 DEF BitmapInv
<1>3. \A s \in Spaces : vaddr[s].ones = {}
  BY DEF Init, bitmap_init
<1>4. \A s \in Spaces : pte[s] = [v \in PagesIn(s) |-> NULL]
  BY DEF Init, PagesIn
<1>5. \A s \in Spaces : \A v \in PagesIn(s) : pte[s][v] = NULL
  BY <1>4
<1>6. TypeInv
  <2>1. call \in [Threads -> [kind : {"none", "free"} \cup Allocs, first : Nat,
                              count : Nat]]
    BY <1>1 DEF NoCall
  <2>2. pte = [s \in Spaces |-> pte[s]]
    BY DEF Init
  <2>3. \A s \in Spaces : pte[s] \in [PagesIn(s) -> Frames]
    BY <1>4 DEF Frames
  <2>4. pde \in [Procs -> [Regions -> Frames]]
    BY DEF Init, Frames
  <2>5. /\ load \in Loads /\ booting \in BOOLEAN /\ started \subseteq Procs
        /\ mutex = [p \in Pools |-> mutex[p]]
        /\ bit = [t \in Threads |-> bit[t]] /\ tbit = [t \in Threads |-> tbit[t]]
    BY DEF Init
  <2> QED
    BY <1>1, <2>1, <2>2, <2>3, <2>4, <2>5 DEF TypeInv
<1>7. \A t \in Threads : pc[t] = "out" /\ own[t] = {} /\ idx[t] = 0
  BY <1>1
<1>8. ApartInv
  BY <1>7 DEF ApartInv, HasRange
<1>9. UnmarkedInv
  BY <1>5 DEF UnmarkedInv
<1>10. ProcInv
  <2>1. \A t \in Procs : t \in Spaces /\ PagesIn(t) = VPages /\ t \in Threads
    BY MemoryAssumption DEF Spaces, PagesIn, Threads
  <2> QED
    BY <1>3, <1>5, <1>7, <2>1 DEF ProcInv
<1>11. \A t \in Threads : PhaseOK(t) /\ RangeOK(t) /\ OwnOK(t)
  BY <1>7 DEF PhaseOK, RangeOK, OwnOK, Inside, HasRange, AllocPcs, FreePcs
<1> QED
  BY <1>1, <1>2, <1>6, <1>8, <1>9, <1>10, <1>11 DEF Inv, PteIsAbsent

\* Every step keeps the invariant.
LEMMA NextInv ==
  ASSUME Inv, [Next]_vars
  PROVE  Inv'
<1>1. CASE UNCHANGED vars
  <2>1. UNCHANGED <<load, pool, vaddr, pte, pde, mutex, off, pc, call, idx, bit,
                    tbit, own, started, booting, panic>>
    BY <1>1 DEF vars
  <2>2. BitmapInv' = BitmapInv /\ PteIsAbsent' = PteIsAbsent /\ TypeInv' = TypeInv
    BY <2>1 DEF BitmapInv, PteIsAbsent, TypeInv
  <2>3. ApartInv' = ApartInv /\ UnmarkedInv' = UnmarkedInv /\ ProcInv' = ProcInv
    BY <2>1 DEF ApartInv, HasRange, RangeOf, UnmarkedInv, ProcInv
  <2>4. ASSUME NEW u \in Threads
        PROVE  PhaseOK(u)' = PhaseOK(u) /\ RangeOK(u)' = RangeOK(u)
               /\ OwnOK(u)' = OwnOK(u)
    BY <2>1 DEF PhaseOK, RangeOK, OwnOK, OwnedOK, Inside, HasRange, RangeOf,
                Marked, IsMapped, Page, HasTable, TableOf
  <2> QED
    BY <2>1, <2>2, <2>3, <2>4 DEF Inv
<1>2. CASE intr_enable
  BY <1>2, BootInv
<1>3. ASSUME NEW t \in Threads, Step(t), UNCHANGED <<load, booting>>
      PROVE  Inv'
  <2>1. ASSUME NEW n \in 1 .. MaxCount, get_kern_pages(t, n) \/ sys_malloc(t, n)
        PROVE  Inv'
    BY <1>3, <2>1, CallInv
  <2>2. ASSUME NEW r \in own[t], sys_free(t, r) PROVE Inv'
    BY <1>3, <2>2, FreeInv
  <2>3. CASE start_process(t)
    BY <1>3, <2>3, StartInv
  <2>4. CASE mutex_lock(t)
    BY <1>3, <2>4, LockInv
  <2>5. CASE block(t)
    BY <1>3, <2>5, BlockInv
  <2>6. CASE vaddr_scan(t)
    BY <1>3, <2>6, VaddrScanInv
  <2>7. CASE vaddr_set(t) \/ stack_set(t)
    BY <1>3, <2>7, VaddrSetInv
  <2>8. CASE palloc_scan(t)
    BY <1>3, <2>8, PallocScanInv
  <2>9. CASE palloc_set(t)
    BY <1>3, <2>9, PallocSetInv
  <2>10. CASE page_table_add(t)
    BY <1>3, <2>10, PageTableAddInv
  <2>11. CASE table_scan(t)
    BY <1>3, <2>11, TableScanInv
  <2>12. CASE table_set(t)
    BY <1>3, <2>12, TableSetInv
  <2>13. CASE table_add(t)
    BY <1>3, <2>13, TableAddInv
  <2>14. CASE vaddr_remove(t)
    BY <1>3, <2>14, VaddrRemoveInv
  <2>15. CASE pfree(t)
    BY <1>3, <2>15, PfreeInv
  <2>16. CASE page_table_remove(t)
    BY <1>3, <2>16, PageTableRemoveInv
  <2> QED
    BY <1>3, <2>1, <2>2, <2>3, <2>4, <2>5, <2>6, <2>7, <2>8, <2>9, <2>10, <2>11,
       <2>12, <2>13, <2>14, <2>15, <2>16 DEF Step
<1> QED
  BY <1>1, <1>2, <1>3 DEF Next

\* The invariant holds of every state.
LEMMA InvAlways == Spec => []Inv
<1>1. Init => Inv
  BY InitInv
<1>2. Inv /\ [Next]_vars => Inv'
  BY NextInv
<1> QED
  BY <1>1, <1>2, PTL DEF Spec

(***************************************************************************)
(* PteIsAbsent, whatever the threads and requests: the pte that            *)
(* page_table_add is to set is never present, so its PANIC is never hit.   *)
(* A bit of a virtual bitmap may be cleared before the page is unmapped    *)
(* (free_page), but only by the thread that has the mutex.                 *)
(***************************************************************************)
THEOREM PteIsFree == Spec => []PteIsAbsent
<1>1. Inv => PteIsAbsent
  BY DEF Inv
<1> QED
  BY <1>1, InvAlways, PTL

(***************************************************************************)
(* RangesAreOwned: the pages that malloc_page gives a thread are marked    *)
(* and mapped, and in no other range of the same space, until free_page    *)
(* gets them back.  It holds for every load, the mix of kernel threads and *)
(* processes included that breaks the bookkeeping of the page frames.      *)
(***************************************************************************)
THEOREM PagesAreOwned == Spec => []RangesAreOwned
<1>1. Inv => RangesAreOwned
  BY DEF Inv, RangesAreOwned, OwnOK, OwnedOK, ApartInv
<1> QED
  BY <1>1, InvAlways, PTL

(***************************************************************************)
(* ScanIsFirstFit: bitmap_scan finds the first fit in every bitmap of the  *)
(* allocator, of any length and at any time, and says -1 to a request for  *)
(* one bit exactly when the bitmap is full.                                *)
(***************************************************************************)
THEOREM ScanIsRight == Spec => []ScanIsFirstFit
<1>1. ASSUME NEW bm, IsBitmap(bm), NEW cnt \in 1 .. Size(bm),
             Fits(bm, cnt) # {} \/ cnt = 1
      PROVE  bitmap_scan(bm, cnt) = FirstFit(bm, cnt)
  <2>1. Size(bm) \in Nat \ {0} /\ cnt \in Nat \ {0}
    BY <1>1, SizeType
  <2>2. CASE Fits(bm, cnt) # {}
    BY <1>1, <2>1, <2>2, ScanFindsFirst DEF FirstFit
  <2>3. CASE Fits(bm, cnt) = {}
    <3>1. cnt = 1
      BY <1>1, <2>3
    <3>2. Free(bm) = {}
      <4>1. SUFFICES ASSUME NEW p \in Free(bm) PROVE FALSE
        OBVIOUS
      <4>2. p \in 0 .. Size(bm) - 1 /\ p \notin bm.ones
        BY <4>1 DEF Free, Bits
      <4>3. p \in 0 .. Size(bm) - 1 /\ (p .. p + 1 - 1) = {p}
        BY <2>1, <4>2
      <4>4. p \in Fits(bm, 1)
        BY <4>2, <4>3 DEF Fits
      <4> QED
        BY <2>3, <3>1, <4>4
    <3>3. NotFull(bm) = {}
      BY <1>1, <3>2, StartIsFirst
    <3> QED
      BY <1>1, <2>1, <2>3, <3>3, ScanResult DEF FirstFit
  <2> QED
    BY <2>2, <2>3
<1>2. Inv => ScanIsFirstFit
  BY <1>1 DEF Inv, BitmapInv, ScanIsFirstFit
<1> QED
  BY <1>2, InvAlways, PTL

-----------------------------------------------------------------------------
(* The page frames.                                                        *)

\* u has taken frame f of pool p and not yet put it in a table.
Flies(u, p, f) ==
  \/ /\ Pool(u) = p /\ pc[u] \in {"page_table_add", "table_set", "table_add"}
     /\ f = bit[u]
  \/ p = "kern_pool" /\ pc[u] = "table_add" /\ f = tbit[u]

\* The places that use a frame of p, each with its frame.
Graph(p) == {<<u, FrameOf(p, u)>> : u \in Uses(p)}

\* The frames O that are marked are the frames of the places G and the ones
\* in flight, I; no frame is both, and none is in two places.
Sound(O, G, I) ==
  /\ \A x, y \in G : x[2] = y[2] => x = y
  /\ \A x \in G : x[2] \notin I
  /\ O = {x[2] : x \in G} \cup I

\* A frame that was found free is free until it is marked.
Ready(t) == /\ pc[t] = "palloc_set" => bit[t] \notin pool[Pool(t)].ones
            /\ pc[t] = "table_set"  => tbit[t] \notin pool["kern_pool"].ones

\* Who allocates: main while it boots, then the load.
LoadOK(t) ==
  /\ t \in Procs /\ pc[t] # "out" => t \in load
  /\ t \in KThreads /\ pc[t] # "out" /\ call[t].kind \in Allocs
       => booting \/ t \in load

FrameInv ==
  /\ \A p \in Pools : Sound(pool[p].ones, Graph(p), InFlight(p))
  /\ started \subseteq load
  /\ \A t \in Threads : Ready(t) /\ LoadOK(t)

\* Kernel threads and processes do not allocate side by side.
SeparateLoads == \A l \in Loads : l \subseteq KThreads \/ l \subseteq Procs

\* A free frame is taken, a frame in flight is put in a place, and a frame is
\* given back.
LEMMA SoundFacts ==
  ASSUME NEW O, NEW G, NEW I, Sound(O, G, I), NEW w, NEW f
  PROVE  /\ f \notin O => Sound(O \cup {f}, G, I \cup {f})
         /\ I = {f} => Sound(O, G \cup {<<w, f>>}, {})
         /\ <<w, f>> \in G => Sound(O \ {f}, G \ {<<w, f>>}, I)
<1>1. /\ \A x, y \in G : x[2] = y[2] => x = y
      /\ \A x \in G : x[2] \notin I
      /\ O = {x[2] : x \in G} \cup I
  BY DEF Sound
<1>2. f \notin O => Sound(O \cup {f}, G, I \cup {f})
  BY <1>1 DEF Sound
<1>3. ASSUME I = {f} PROVE Sound(O, G \cup {<<w, f>>}, {})
  <2>1. O = {x[2] : x \in G \cup {<<w, f>>}} \cup {}
    <3>1. <<w, f>>[2] = f
      OBVIOUS
    <3>2. ASSUME NEW g PROVE g \in O =>
                               g \in {x[2] : x \in G \cup {<<w, f>>}} \cup {}
      BY <1>1, <1>3, <3>1
    <3>3. ASSUME NEW g PROVE g \in {x[2] : x \in G \cup {<<w, f>>}} \cup {} =>
                               g \in O
      BY <1>1, <1>3, <3>1
    <3> QED
      BY <3>2, <3>3
  <2>2. \A x \in G : x[2] # f
    BY <1>1, <1>3
  <2>3. \A x, y \in G \cup {<<w, f>>} : x[2] = y[2] => x = y
    BY <1>1, <2>2
  <2> QED
    BY <2>1, <2>3 DEF Sound
<1>4. ASSUME <<w, f>> \in G PROVE Sound(O \ {f}, G \ {<<w, f>>}, I)
  <2>1. f \notin I /\ \A x \in G \ {<<w, f>>} : x[2] # f
    BY <1>1, <1>4
  <2>2. O \ {f} = {x[2] : x \in G \ {<<w, f>>}} \cup I
    <3>1. ASSUME NEW g PROVE g \in O \ {f} =>
                               g \in {x[2] : x \in G \ {<<w, f>>}} \cup I
      BY <1>1
    <3>2. ASSUME NEW g PROVE g \in {x[2] : x \in G \ {<<w, f>>}} \cup I =>
                               g \in O \ {f}
      BY <1>1, <2>1
    <3> QED
      BY <3>1, <3>2
  <2> QED
    BY <1>1, <2>2 DEF Sound
<1> QED
  BY <1>2, <1>3, <1>4

\* The frames in flight, thread by thread.
LEMMA FlightIff ==
  ASSUME NEW p \in Pools, NEW f
  PROVE  /\ f \in InFlight(p) <=> \E u \in Threads : Flies(u, p, f)
         /\ f \in InFlight(p)' <=> \E u \in Threads : Flies(u, p, f)'
  BY DEF InFlight, Mapping, Flies

\* They change with what the thread that steps has in flight.
LEMMA FlightSame ==
  ASSUME NEW t \in Threads, \A u \in Threads \ {t} : Same(u), NEW p \in Pools,
         \A f : Flies(t, p, f)' <=> Flies(t, p, f)
  PROVE  InFlight(p)' = InFlight(p)
<1>1. ASSUME NEW u \in Threads \ {t}, NEW f
      PROVE  Flies(u, p, f)' <=> Flies(u, p, f)
  BY DEF Same, Flies
<1>2. ASSUME NEW f PROVE f \in InFlight(p)' <=> f \in InFlight(p)
  BY <1>1, FlightIff
<1> QED
  BY <1>2

\* The places that use frames change with the tables, and with the pages
\* that are about to be unmapped.
LEMMA GraphSame ==
  ASSUME NEW t \in Threads, \A u \in Threads \ {t} : Same(u),
         pc[t] # "page_table_remove", pc'[t] # "page_table_remove",
         UNCHANGED <<pte, pde>>, NEW p
  PROVE  Graph(p)' = Graph(p)
<1>1. ASSUME NEW s PROVE Leaving(s)' = Leaving(s)
  <2>1. \A u \in Threads : pc'[u] = "page_table_remove" <=>
                           pc[u] = "page_table_remove"
    BY DEF Same
  <2>2. \A u \in Threads : pc[u] = "page_table_remove" => Page(u)' = Page(u)
    BY SameFacts
  <2> QED
    BY <2>1, <2>2 DEF Leaving
<1>2. \A u : Maps(u)' = Maps(u) /\ FrameOf(p, u)' = FrameOf(p, u)
  BY <1>1 DEF Maps, FrameOf
<1>3. Uses(p)' = Uses(p)
  BY <1>2 DEF Uses
<1> QED
  BY <1>2, <1>3 DEF Graph

\* A thread that is not the one that steps.
LEMMA OthersReady ==
  ASSUME FrameInv, NEW t \in Threads, \A u \in Threads \ {t} : Same(u),
         UNCHANGED <<load, booting>>, NEW u \in Threads \ {t},
         \/ UNCHANGED pool
         \/ /\ pc[u] # "palloc_set" \/ pool'[Pool(u)].ones \subseteq pool[Pool(u)].ones
            /\ pc[u] # "table_set"
               \/ pool'["kern_pool"].ones \subseteq pool["kern_pool"].ones
  PROVE  Ready(u)' /\ LoadOK(u)'
<1>1. Same(u) /\ Ready(u) /\ LoadOK(u)
  BY DEF FrameInv
<1>2. Ready(u)'
  BY <1>1 DEF Ready, Same
<1>3. LoadOK(u)'
  BY <1>1 DEF LoadOK, Same
<1> QED
  BY <1>2, <1>3

\* A step that takes no frame, and maps and unmaps none.
LEMMA FrameQuiet ==
  ASSUME FrameInv, NEW t \in Threads, \A u \in Threads \ {t} : Same(u),
         UNCHANGED <<load, booting, pool, pte, pde>>,
         pc[t] # "page_table_remove", pc'[t] # "page_table_remove",
         \A p \in Pools : \A f : Flies(t, p, f)' <=> Flies(t, p, f),
         Ready(t)', LoadOK(t)', started' \subseteq load
  PROVE  FrameInv'
<1>1. \A p \in Pools : InFlight(p)' = InFlight(p)
  BY FlightSame
<1>2. \A p \in Pools : Graph(p)' = Graph(p)
  BY GraphSame
<1>3. \A u \in Threads : Ready(u)' /\ LoadOK(u)'
  BY OthersReady
<1>4. ASSUME NEW p \in Pools PROVE Sound(pool[p].ones, Graph(p), InFlight(p))'
  <2>1. Sound(pool[p].ones, Graph(p), InFlight(p))
    BY DEF FrameInv
  <2> QED
    BY <1>1, <1>2, <2>1 DEF Sound
<1> QED
  BY <1>3, <1>4 DEF FrameInv

\* A thread on its way through a call stays one that may be there.
LEMMA LoadKept ==
  ASSUME FrameInv, NEW t \in Threads, UNCHANGED <<load, booting, started>>,
         \/ pc'[t] = "out"
         \/ pc[t] # "out" /\ call'[t].kind = call[t].kind
  PROVE  LoadOK(t)' /\ started' \subseteq load
  BY DEF FrameInv, LoadOK

\* The places where a thread has a frame in flight or at hand.
HasFrame == {"palloc_set", "page_table_add", "table_set", "table_add",
             "page_table_remove"}

\* A step between places without a frame.
LEMMA FrameAway ==
  ASSUME FrameInv, NEW t \in Threads, \A u \in Threads \ {t} : Same(u),
         UNCHANGED <<load, booting, pool, pte, pde>>,
         pc[t] \notin HasFrame, pc'[t] \notin HasFrame,
         LoadOK(t)', started' \subseteq load
  PROVE  FrameInv'
<1>1. \A p \in Pools : \A f : Flies(t, p, f)' <=> Flies(t, p, f)
  BY DEF Flies, HasFrame
<1>2. Ready(t)'
  BY DEF Ready, HasFrame
<1> QED
  BY <1>1, <1>2, FrameQuiet DEF HasFrame

\* A kernel thread that allocates and a process in a call are not both there.
LEMMA Separate ==
  ASSUME SeparateLoads, Inv, panic = "none", FrameInv, NEW k \in KThreads,
         pc[k] \in AllocPcs, NEW q \in Procs, pc[q] # "out"
  PROVE  FALSE
<1>1. k \in Threads /\ q \in Threads /\ q # main /\ q \notin KThreads
  BY MemoryAssumption DEF Threads
<1>2. PhaseOK(k) /\ PhaseOK(q) /\ LoadOK(k) /\ LoadOK(q) /\ load \in Loads
  BY <1>1 DEF Inv, FrameInv, TypeInv
<1>3. ~booting /\ q \in load
  BY <1>1, <1>2 DEF PhaseOK, LoadOK
<1>4. k \in load
  <2>1. pc[k] # "out" /\ call[k].kind \in Allocs
    BY <1>2 DEF PhaseOK, AllocPcs
  <2> QED
    BY <1>2, <1>3, <2>1 DEF LoadOK
<1>5. k \notin Procs
  BY MemoryAssumption
<1> QED
  BY <1>1, <1>2, <1>3, <1>4, <1>5 DEF SeparateLoads

(***************************************************************************)
(* The thread that allocates from a pool, for its pages or for its page    *)
(* tables, is alone: no other has a frame of the pool in flight or found.  *)
(***************************************************************************)
LEMMA Alone ==
  ASSUME SeparateLoads, Inv, panic = "none", FrameInv, NEW t \in Threads,
         pc[t] \in Filling, NEW p \in Pools,
         p = Pool(t) \/ (p = "kern_pool" /\ t \in Procs),
         NEW u \in Threads \ {t}
  PROVE  /\ \A f : ~Flies(u, p, f)
         /\ Pool(u) = p => pc[u] # "palloc_set"
         /\ p = "kern_pool" => pc[u] # "table_set"
<1>1. /\ \A a \in Threads : PhaseOK(a)
      /\ pc[t] \in AllocPcs /\ Inside(t) /\ pc[t] # "out"
  BY DEF Inv, Filling, AllocPcs, Inside
<1>2. Inside(u) => Pool(u) # Pool(t)
  BY <1>1, OneInside
<1>3. pc[u] \in {"table_set", "table_add"} => u \in Procs
  BY <1>1 DEF PhaseOK
<1>4. CASE p = Pool(t) /\ t \in KThreads
  <2>1. pc[u] \notin {"table_set", "table_add"}
    <3>1. SUFFICES ASSUME pc[u] \in {"table_set", "table_add"} PROVE FALSE
      OBVIOUS
    <3>2. u \in Procs /\ pc[u] # "out"
      BY <1>3, <3>1
    <3> QED
      BY <1>1, <1>4, <3>2, Separate
  <2> QED
    BY <1>2, <1>4, <2>1 DEF Flies, Inside
<1>5. CASE p = Pool(t) /\ t \notin KThreads
  <2>1. p # "kern_pool"
    BY <1>5 DEF Pool
  <2> QED
    BY <1>2, <1>5, <2>1 DEF Flies, Inside
<1>6. CASE p = "kern_pool" /\ t \in Procs
  <2>1. Pool(t) = "user_pool" /\ \A q \in Procs : Pool(q) = "user_pool"
    BY <1>6, MemoryAssumption DEF Pool
  <2>2. pc[u] \notin {"table_set", "table_add"}
    BY <1>2, <1>3, <2>1 DEF Inside
  <2>3. u \in KThreads => pc[u] \notin AllocPcs
    BY <1>1, <1>6, Separate
  <2>4. Pool(u) = p => u \in KThreads
    BY <1>6 DEF Pool
  <2> QED
    BY <1>6, <2>2, <2>3, <2>4 DEF Flies, AllocPcs
<1> QED
  BY <1>4, <1>5, <1>6

\* What it has in flight is then all there is.
LEMMA AloneInFlight ==
  ASSUME SeparateLoads, Inv, panic = "none", FrameInv, NEW t \in Threads,
         pc[t] \in Filling, NEW p \in Pools,
         p = Pool(t) \/ (p = "kern_pool" /\ t \in Procs),
         \A u \in Threads \ {t} : Same(u)
  PROVE  \A f : /\ f \in InFlight(p) <=> Flies(t, p, f)
                /\ f \in InFlight(p)' <=> Flies(t, p, f)'
<1>1. \A u \in Threads \ {t} : \A f : ~Flies(u, p, f)
  BY Alone
<1>2. ASSUME NEW u \in Threads \ {t}, NEW f PROVE ~Flies(u, p, f)'
  <2>1. Flies(u, p, f)' <=> Flies(u, p, f)
    BY DEF Same, Flies
  <2> QED
    BY <1>1, <2>1
<1> QED
  BY <1>1, <1>2, FlightIff

\* A step of one of the pools: the other is as it was.
LEMMA OnePool ==
  ASSUME FrameInv, NEW t \in Threads, \A u \in Threads \ {t} : Same(u),
         UNCHANGED <<load, booting, started>>, NEW p \in Pools,
         \A q \in Pools \ {p} : /\ pool'[q] = pool[q] /\ Graph(q)' = Graph(q)
                                /\ \A f : Flies(t, q, f)' <=> Flies(t, q, f),
         Sound(pool[p].ones, Graph(p), InFlight(p))',
         Ready(t)', LoadOK(t)',
         \A u \in Threads \ {t} : Ready(u)' /\ LoadOK(u)'
  PROVE  FrameInv'
<1>1. ASSUME NEW q \in Pools \ {p} PROVE Sound(pool[q].ones, Graph(q), InFlight(q))'
  <2>1. Sound(pool[q].ones, Graph(q), InFlight(q))
    BY DEF FrameInv
  <2>2. InFlight(q)' = InFlight(q)
    BY FlightSame
  <2> QED
    BY <2>1, <2>2 DEF Sound
<1> QED
  BY <1>1 DEF FrameInv

\* palloc_set and table_set mark a frame that was found free.
LEMMA TakeFrame ==
  ASSUME SeparateLoads, Inv, panic = "none", FrameInv, NEW t \in Threads,
         UNCHANGED <<load, booting>>,
         palloc_set(t) \/ table_set(t)
  PROVE  FrameInv'
<1>1. PICK p, b, to :
        /\ pc[t] \in {"palloc_set", "table_set"} /\ Goto(t, to)
        /\ pc[t] = "palloc_set" => p = Pool(t) /\ b = bit[t] /\ to = "page_table_add"
        /\ pc[t] = "table_set" => p = "kern_pool" /\ b = tbit[t] /\ to = "table_add"
        /\ pool' = [pool EXCEPT ![p] = bitmap_set(@, b)]
  <2>1. CASE palloc_set(t)
    BY <2>1 DEF palloc_set, At
  <2>2. CASE table_set(t)
    BY <2>2 DEF table_set, At
  <2> QED
    BY <2>1, <2>2
<1>2. UNCHANGED <<vaddr, pte, pde, mutex, call, idx, bit, tbit, own, started>>
  BY DEF palloc_set, table_set
<1>3. TypeInv /\ BitmapInv /\ PhaseOK(t) /\ Ready(t)
  BY Before DEF FrameInv
<1>4. p \in Pools /\ (p = Pool(t) \/ (p = "kern_pool" /\ t \in Procs))
  BY <1>1, <1>2, <1>3, SpaceFacts DEF PhaseOK, Pools
<1>5. pc'[t] = to /\ \A u \in Threads \ {t} : Same(u)
  BY <1>1, <1>2, <1>3 DEF TypeInv, Goto, Same
<1>6. b \notin pool[p].ones
  BY <1>1, <1>2, <1>3 DEF Ready
<1>7. /\ pool'[p].ones = pool[p].ones \cup {b}
      /\ \A q \in Pools \ {p} : pool'[q] = pool[q]
  <2>1. pool = [q \in Pools |-> pool[q]] /\ IsBitmap(pool[p])
    BY <1>3, <1>4 DEF BitmapInv
  <2>2. bitmap_set(pool[p], b).ones = pool[p].ones \cup {b}
    BY <2>1 DEF bitmap_set, IsBitmap
  <2> QED
    BY <1>1, <1>2, <1>4, <2>1, <2>2
<1>8. pc[t] \in Filling /\ pc[t] # "page_table_remove"
      /\ pc'[t] # "page_table_remove"
  BY <1>1, <1>2, <1>5 DEF Filling
<1>9. \A q : Graph(q)' = Graph(q)
  BY <1>1, <1>2, <1>5, <1>8, GraphSame
<1>10. InFlight(p)' = InFlight(p) \cup {b}
  <2>1. \A f : /\ f \in InFlight(p) <=> Flies(t, p, f)
               /\ f \in InFlight(p)' <=> Flies(t, p, f)'
    BY <1>4, <1>5, <1>8, AloneInFlight
  <2>2. \A f : Flies(t, p, f)' <=> Flies(t, p, f) \/ f = b
    <3>1. CASE pc[t] = "palloc_set"
      BY <1>1, <1>2, <1>5, <3>1 DEF Flies
    <3>2. CASE pc[t] = "table_set"
      <4>1. t \in Procs /\ Pool(t) = "user_pool"
        BY <1>3, <3>2, MemoryAssumption DEF PhaseOK, Pool
      <4> QED
        BY <1>1, <1>2, <1>5, <3>2, <4>1 DEF Flies
    <3> QED
      BY <1>1, <1>2, <3>1, <3>2
  <2> QED
    BY <2>1, <2>2
<1>11. Sound(pool[p].ones, Graph(p), InFlight(p))
  BY <1>4 DEF FrameInv
<1>12. Sound(pool[p].ones \cup {b}, Graph(p), InFlight(p) \cup {b})
  BY <1>6, <1>11, SoundFacts
<1>13. Sound(pool[p].ones, Graph(p), InFlight(p))'
  <2>1. Graph(p)' = Graph(p)
    BY <1>9
  <2> QED
    BY <1>7, <1>10, <1>12, <2>1 DEF Sound
<1>14. \A q \in Pools \ {p} : \A f : Flies(t, q, f)' <=> Flies(t, q, f)
  BY <1>1, <1>2, <1>5 DEF Flies
<1>15. Ready(t)'
  BY <1>1, <1>2, <1>5 DEF Ready
<1>16. LoadOK(t)' /\ started' \subseteq load
  BY <1>1, <1>2, LoadKept
<1>17. ASSUME NEW u \in Threads \ {t} PROVE Ready(u)' /\ LoadOK(u)'
  <2>1. /\ Pool(u) = p => pc[u] # "palloc_set"
        /\ p = "kern_pool" => pc[u] # "table_set"
    BY <1>4, <1>8, Alone
  <2>2. Pool(u) \in Pools /\ "kern_pool" \in Pools
    BY SpaceFacts DEF Pools
  <2>3. /\ pc[u] # "palloc_set" \/ pool'[Pool(u)].ones \subseteq pool[Pool(u)].ones
        /\ pc[u] # "table_set"
           \/ pool'["kern_pool"].ones \subseteq pool["kern_pool"].ones
    BY <1>7, <2>1, <2>2
  <2> QED
    BY <1>5, <2>3, OthersReady
<1> QED
  BY <1>1, <1>2, <1>4, <1>5, <1>7, <1>9, <1>13, <1>14, <1>15, <1>16, <1>17, OnePool

\* Where a page of a pool is mapped, and where its page tables are.
MapPlaces(p) == IF p = "kern_pool" THEN {"kernel"} \X KPages ELSE Procs \X VPages
TabPlaces(p) == IF p = "kern_pool" THEN Procs \X Regions ELSE {}

\* The places that use a frame, and the frame of each.
LEMMA UsesIff ==
  ASSUME NEW p \in Pools, NEW u
  PROVE  /\ u \in Uses(p) <=> \/ u \in MapPlaces(p) /\ Maps(u)
                              \/ u \in TabPlaces(p) /\ pde[u[1]][u[2]] # NULL
         /\ u \in Uses(p)' <=> \/ u \in MapPlaces(p) /\ Maps(u)'
                               \/ u \in TabPlaces(p) /\ pde'[u[1]][u[2]] # NULL
         /\ u \in MapPlaces(p) => /\ FrameOf(p, u) = pte[u[1]][u[2]]
                                  /\ FrameOf(p, u)' = pte'[u[1]][u[2]]
         /\ u \in TabPlaces(p) => /\ FrameOf(p, u) = pde[u[1]][u[2]]
                                  /\ FrameOf(p, u)' = pde'[u[1]][u[2]]
         /\ ~(u \in MapPlaces(p) /\ u \in TabPlaces(p))
<1>1. u \in {"kernel"} \X KPages => u[1] = "kernel"
  OBVIOUS
<1>2. u \in Procs \X Regions => u[1] # "kernel"
  BY MemoryAssumption
<1> QED
  BY <1>1, <1>2 DEF Uses, MapPlaces, TabPlaces, FrameOf

\* One place w changes: the places of the pool and their frames afterwards.
LEMMA GraphStep ==
  ASSUME NEW p \in Pools, NEW w,
         \A u \in MapPlaces(p) : u # w =>
           (Maps(u)' <=> Maps(u)) /\ pte'[u[1]][u[2]] = pte[u[1]][u[2]],
         \A u \in TabPlaces(p) : u # w => pde'[u[1]][u[2]] = pde[u[1]][u[2]]
  PROVE  /\ w \notin Uses(p) /\ w \notin Uses(p)' => Graph(p)' = Graph(p)
         /\ w \notin Uses(p) /\ w \in Uses(p)' =>
              Graph(p)' = Graph(p) \cup {<<w, FrameOf(p, w)'>>}
         /\ w \in Uses(p) /\ w \notin Uses(p)' =>
              /\ Graph(p)' = Graph(p) \ {<<w, FrameOf(p, w)>>}
              /\ <<w, FrameOf(p, w)>> \in Graph(p)
<1>1. ASSUME NEW u, u # w
      PROVE  /\ u \in Uses(p)' <=> u \in Uses(p)
             /\ u \in Uses(p) => FrameOf(p, u)' = FrameOf(p, u)
  BY <1>1, UsesIff
<1>2. \A x : /\ x \in Graph(p) <=> \E u \in Uses(p) : x = <<u, FrameOf(p, u)>>
             /\ x \in Graph(p)' <=> \E u \in Uses(p)' : x = <<u, FrameOf(p, u)'>>
  BY DEF Graph
<1>3. ASSUME w \notin Uses(p), w \notin Uses(p)' PROVE Graph(p)' = Graph(p)
  <2>1. \A x : x \in Graph(p)' <=> x \in Graph(p)
    BY <1>1, <1>2, <1>3
  <2> QED
    BY <2>1
<1>4. ASSUME w \notin Uses(p), w \in Uses(p)'
      PROVE  Graph(p)' = Graph(p) \cup {<<w, FrameOf(p, w)'>>}
  <2>1. \A x : x \in Graph(p)' <=> x \in Graph(p) \/ x = <<w, FrameOf(p, w)'>>
    BY <1>1, <1>2, <1>4
  <2> QED
    BY <2>1
<1>5. ASSUME w \in Uses(p), w \notin Uses(p)'
      PROVE  /\ Graph(p)' = Graph(p) \ {<<w, FrameOf(p, w)>>}
             /\ <<w, FrameOf(p, w)>> \in Graph(p)
  <2>1. \A x : x \in Graph(p)' <=> x \in Graph(p) /\ x # <<w, FrameOf(p, w)>>
    BY <1>1, <1>2, <1>5
  <2>2. <<w, FrameOf(p, w)>> \in Graph(p)
    BY <1>2, <1>5
  <2> QED
    BY <2>1, <2>2
<1> QED
  BY <1>3, <1>4, <1>5

\* A pool none of whose places changes.
LEMMA GraphKept ==
  ASSUME NEW p \in Pools,
         \A u \in MapPlaces(p) :
           (Maps(u)' <=> Maps(u)) /\ pte'[u[1]][u[2]] = pte[u[1]][u[2]],
         \A u \in TabPlaces(p) : pde'[u[1]][u[2]] = pde[u[1]][u[2]]
  PROVE  Graph(p)' = Graph(p)
<1>1. ASSUME NEW u
      PROVE  /\ u \in Uses(p)' <=> u \in Uses(p)
             /\ u \in Uses(p) => FrameOf(p, u)' = FrameOf(p, u)
  BY UsesIff
<1>2. \A x : /\ x \in Graph(p) <=> \E u \in Uses(p) : x = <<u, FrameOf(p, u)>>
             /\ x \in Graph(p)' <=> \E u \in Uses(p)' : x = <<u, FrameOf(p, u)'>>
  BY DEF Graph
<1>3. \A x : x \in Graph(p)' <=> x \in Graph(p)
  BY <1>1, <1>2
<1> QED
  BY <1>3

\* The thread inside is the only one of its space that unmaps a page.
LEMMA LeavingFacts ==
  ASSUME Inv, panic = "none", NEW t \in Threads, Inside(t),
         \A u \in Threads \ {t} : Same(u)
  PROVE  /\ \A s : s # Space(t) => Leaving(s)' = Leaving(s)
         /\ \A v : v \in Leaving(Space(t)) <=>
                     pc[t] = "page_table_remove" /\ v = Page(t)
         /\ \A v : v \in Leaving(Space(t))' <=>
                     pc'[t] = "page_table_remove" /\ v = Page(t)'
<1>1. \A u \in Threads \ {t} : /\ pc'[u] = pc[u] /\ Page(u)' = Page(u)
                               /\ Space(u) = Space(t) => pc[u] # "page_table_remove"
  <2>1. \A u \in Threads : PhaseOK(u)
    BY DEF Inv
  <2>2. ASSUME NEW u \in Threads \ {t}, Space(u) = Space(t),
               pc[u] = "page_table_remove"
        PROVE  FALSE
    <3>1. Inside(u)
      BY <2>2 DEF Inside
    <3> QED
      BY <2>1, <2>2, <3>1, OneInside
  <2> QED
    BY <2>2, SameFacts DEF Same
<1>2. \A s : s # Space(t) => Leaving(s)' = Leaving(s)
  BY <1>1 DEF Leaving
<1>3. \A v : v \in Leaving(Space(t)) <=>
               pc[t] = "page_table_remove" /\ v = Page(t)
  BY <1>1 DEF Leaving
<1>4. \A v : v \in Leaving(Space(t))' <=>
               pc'[t] = "page_table_remove" /\ v = Page(t)'
  BY <1>1 DEF Leaving
<1> QED
  BY <1>2, <1>3, <1>4

(***************************************************************************)
(* A step of a loop that changes at most the pte of its page, the place w, *)
(* or whether w is about to be unmapped.                                   *)
(***************************************************************************)
LEMMA PteStep ==
  ASSUME Inv, panic = "none", NEW t \in Threads, pc[t] \in Filling \cup Emptying,
         \A u \in Threads \ {t} : Same(u), pde' = pde,
         \/ pte' = pte
         \/ \E x \in Frames : pte' = [pte EXCEPT ![Space(t)][Page(t)] = x],
         pc'[t] = "page_table_remove" => Page(t)' = Page(t),
         NEW w, w = <<Space(t), Page(t)>>
  PROVE  /\ \A q \in Pools \ {Pool(t)} : Graph(q)' = Graph(q)
         /\ w \in MapPlaces(Pool(t)) /\ w \notin TabPlaces(Pool(t))
         /\ \A u \in MapPlaces(Pool(t)) : u # w =>
              (Maps(u)' <=> Maps(u)) /\ pte'[u[1]][u[2]] = pte[u[1]][u[2]]
<1>1. /\ Page(t) \in PagesIn(Space(t)) /\ Space(t) \in Spaces /\ Inside(t)
  BY PageInRange DEF Inside, Filling, Emptying
<1>2. ASSUME NEW s \in Spaces, NEW v \in PagesIn(s), <<s, v>> # w
      PROVE  pte'[s][v] = pte[s][v]
  <2>1. CASE pte' = pte
    BY <2>1
  <2>2. CASE \E x \in Frames : pte' = [pte EXCEPT ![Space(t)][Page(t)] = x]
    <3>1. PICK x \in Frames : pte' = [pte EXCEPT ![Space(t)][Page(t)] = x]
      BY <2>2
    <3>2. /\ s # Space(t) => pte'[s] = pte[s]
          /\ s = Space(t) /\ v # Page(t) => pte'[s][v] = pte[s][v]
      BY <3>1, LoopTables
    <3> QED
      BY <1>2, <3>2
  <2> QED
    BY <2>1, <2>2
<1>3. ASSUME NEW s \in Spaces, NEW v \in PagesIn(s), <<s, v>> # w
      PROVE  v \in Leaving(s)' <=> v \in Leaving(s)
  <2>1. CASE s # Space(t)
    BY <1>1, <2>1, LeavingFacts
  <2>2. CASE s = Space(t)
    <3>1. v # Page(t)
      BY <1>3, <2>2
    <3>2. v \notin Leaving(s) /\ v \notin Leaving(s)'
      BY <1>1, <2>2, <3>1, LeavingFacts
    <3> QED
      BY <3>2
  <2> QED
    BY <2>1, <2>2
<1>4. ASSUME NEW p \in Pools, NEW u \in MapPlaces(p), u # w
      PROVE  (Maps(u)' <=> Maps(u)) /\ pte'[u[1]][u[2]] = pte[u[1]][u[2]]
  <2>1. u[1] \in Spaces /\ u[2] \in PagesIn(u[1]) /\ u = <<u[1], u[2]>>
    BY MemoryAssumption DEF MapPlaces, Spaces, PagesIn
  <2> QED
    BY <1>2, <1>3, <1>4, <2>1 DEF Maps
<1>5. w \in MapPlaces(Pool(t)) /\ \A q \in Pools \ {Pool(t)} : w \notin MapPlaces(q)
  <2>1. CASE t \in KThreads
    BY <1>1, <2>1, MemoryAssumption DEF Space, Pool, Pools, MapPlaces, PagesIn
  <2>2. CASE t \notin KThreads
    <3>1. t \in Procs /\ t # "kernel"
      BY <2>2, MemoryAssumption DEF Threads
    <3> QED
      BY <1>1, <2>2, <3>1 DEF Space, Pool, Pools, MapPlaces, PagesIn
  <2> QED
    BY <2>1, <2>2
<1>6. ASSUME NEW q \in Pools \ {Pool(t)} PROVE Graph(q)' = Graph(q)
  BY <1>4, <1>5, GraphKept
<1>7. Pool(t) \in Pools
  BY SpaceFacts
<1>8. w \notin TabPlaces(Pool(t))
  BY <1>5, <1>7, UsesIff
<1> QED
  BY <1>4, <1>5, <1>6, <1>7, <1>8

\* page_table_add puts the frame that palloc took into the pte.
LEMMA MapFrame ==
  ASSUME SeparateLoads, Inv, panic = "none", FrameInv, NEW t \in Threads,
         UNCHANGED <<load, booting>>, page_table_add(t)
  PROVE  FrameInv'
<1> DEFINE p == Pool(t)
<1>1. /\ pc[t] = "page_table_add"
      /\ pte' = [pte EXCEPT ![Space(t)][Page(t)] = bit[t]]
      /\ UNCHANGED <<pool, vaddr, pde, tbit, started>>
  BY DEF page_table_add, At
<1>2. TypeInv /\ BitmapInv /\ PhaseOK(t) /\ p \in Pools
  BY Before, SpaceFacts
<1>3. bit[t] \in Nat /\ bit[t] \in Frames /\ bit[t] # NULL
  BY <1>1, <1>2, MemoryAssumption DEF PhaseOK, Frames
<1>4. /\ \A u \in Threads \ {t} : Same(u)
      /\ pc'[t] \in {"palloc_scan", "out"}
      /\ pc'[t] = "out" \/ call'[t].kind = call[t].kind
  <2>1. CASE \E got : Return(t, got)
    BY <1>1, <1>2, <2>1, ReturnFacts
  <2>2. CASE /\ idx' = [idx EXCEPT ![t] = @ + 1]
             /\ bit' = [bit EXCEPT ![t] = NULL] /\ Goto(t, "palloc_scan")
             /\ UNCHANGED <<mutex, off, call, own>>
    BY <1>1, <1>2, <2>2 DEF TypeInv, Goto, Same
  <2> QED
    BY <2>1, <2>2 DEF page_table_add
<1>5. PICK w, b : w = <<Space(t), Page(t)>> /\ b = bit[t]
  OBVIOUS
<1>6. pc[t] \in Filling /\ pc[t] \in Filling \cup Emptying /\ Inside(t)
  BY <1>1 DEF Filling, Inside
<1>7. /\ \A q \in Pools \ {p} : Graph(q)' = Graph(q)
      /\ w \in MapPlaces(p) /\ w \notin TabPlaces(p)
      /\ \A u \in MapPlaces(p) : u # w =>
           (Maps(u)' <=> Maps(u)) /\ pte'[u[1]][u[2]] = pte[u[1]][u[2]]
  <2>1. \E x \in Frames : pte' = [pte EXCEPT ![Space(t)][Page(t)] = x]
    BY <1>1, <1>3
  <2> QED
    <3>1. pde' = pde /\ pc'[t] # "page_table_remove"
      BY <1>1, <1>4
    <3> HIDE DEF p
    <3> QED
      BY <1>4, <1>5, <1>6, <2>1, <3>1, PteStep DEF p
<1>8. ~Maps(w) /\ Maps(w)' /\ pte'[w[1]][w[2]] = b
  <2>1. pte'[Space(t)][Page(t)] = bit[t]
    BY <1>1, <1>3, <1>6, LoopTables
  <2>2. pte[Space(t)][Page(t)] = NULL
    BY <1>6, PageInRange
  <2>3. Page(t) \notin Leaving(Space(t))'
    BY <1>4, <1>6, LeavingFacts
  <2>4. w[1] = Space(t) /\ w[2] = Page(t)
    BY <1>5
  <2> QED
    BY <1>3, <1>5, <2>1, <2>2, <2>3, <2>4 DEF Maps
<1>9. Graph(p)' = Graph(p) \cup {<<w, b>>}
  <2>1. w \notin Uses(p) /\ w \in Uses(p)' /\ FrameOf(p, w)' = b
    BY <1>2, <1>7, <1>8, UsesIff
  <2>2. \A u \in TabPlaces(p) : pde'[u[1]][u[2]] = pde[u[1]][u[2]]
    BY <1>1
  <2>3. Graph(p)' = Graph(p) \cup {<<w, FrameOf(p, w)'>>}
    BY <1>2, <1>7, <2>1, <2>2, GraphStep
  <2> QED
    BY <2>1, <2>3
<1>10. InFlight(p) = {b} /\ InFlight(p)' = {}
  <2>1. \A f : /\ f \in InFlight(p) <=> Flies(t, p, f)
               /\ f \in InFlight(p)' <=> Flies(t, p, f)'
    BY <1>2, <1>4, <1>6, AloneInFlight
  <2>2. \A f : (Flies(t, p, f) <=> f = b) /\ ~Flies(t, p, f)'
    BY <1>1, <1>4, <1>5 DEF Flies
  <2> QED
    BY <2>1, <2>2
<1>11. Sound(pool[p].ones, Graph(p), InFlight(p))'
  <2>1. Sound(pool[p].ones, Graph(p), InFlight(p))
    BY <1>2 DEF FrameInv
  <2>2. Sound(pool[p].ones, Graph(p) \cup {<<w, b>>}, {})
    BY <1>10, <2>1, SoundFacts
  <2> QED
    BY <1>1, <1>9, <1>10, <2>2 DEF Sound
<1>12. \A q \in Pools \ {p} : \A f : Flies(t, q, f)' <=> Flies(t, q, f)
  BY <1>1, <1>4 DEF Flies
<1>13. Ready(t)'
  BY <1>4 DEF Ready
<1>14. LoadOK(t)'
  BY <1>1, <1>4, LoadKept
<1>15. \A u \in Threads \ {t} : Ready(u)' /\ LoadOK(u)'
  BY <1>1, <1>4, OthersReady
<1>16. \A q \in Pools \ {p} : pool'[q] = pool[q]
  BY <1>1
<1> QED
  BY <1>1, <1>2, <1>4, <1>7, <1>11, <1>12, <1>13, <1>14, <1>15, <1>16, OnePool

\* table_add puts the frame it took into the pde.
LEMMA TableFrame ==
  ASSUME SeparateLoads, Inv, panic = "none", FrameInv, NEW t \in Threads,
         UNCHANGED <<load, booting>>, table_add(t)
  PROVE  FrameInv'
<1> DEFINE p == "kern_pool"
<1>1. /\ pc[t] = "table_add" /\ Goto(t, "page_table_add")
      /\ pde' = [pde EXCEPT ![t][TableOf(t)] = tbit[t]]
      /\ tbit' = [tbit EXCEPT ![t] = NULL]
      /\ UNCHANGED <<pool, vaddr, mutex, call, idx, bit, own, started>>
  BY DEF table_add, At
<1>2. TypeInv /\ BitmapInv /\ PhaseOK(t) /\ p \in Pools
  BY Before DEF Pools
<1>3. /\ pte' = pte /\ TableOf(t) \in Regions /\ pde[t][TableOf(t)] = NULL
      /\ t \in Procs /\ tbit[t] \in Nat /\ tbit[t] # NULL
  BY <1>1, <1>2, NewTable, MemoryAssumption DEF PhaseOK
<1>4. pc'[t] = "page_table_add" /\ \A u \in Threads \ {t} : Same(u)
  BY <1>1, <1>2 DEF TypeInv, Goto, Same
<1>5. PICK w, b : w = <<t, TableOf(t)>> /\ b = tbit[t]
  OBVIOUS
<1>6. pc[t] \in Filling /\ Pool(t) = "user_pool"
  BY <1>1, <1>3, MemoryAssumption DEF Filling, Pool
<1>7. \A u : Maps(u)' = Maps(u)
  <2>1. ASSUME NEW s PROVE Leaving(s)' = Leaving(s)
    <3>1. \A u \in Threads : pc'[u] = "page_table_remove" <=>
                             pc[u] = "page_table_remove"
      BY <1>1, <1>4 DEF Same
    <3>2. \A u \in Threads : Page(u)' = Page(u)
      BY <1>1 DEF Page
    <3> QED
      BY <3>1, <3>2 DEF Leaving
  <2> QED
    BY <1>3, <2>1 DEF Maps
<1>8. \A q \in Pools \ {p} : Graph(q)' = Graph(q)
  <2>1. ASSUME NEW q \in Pools \ {p} PROVE Graph(q)' = Graph(q)
    <3>1. TabPlaces(q) = {}
      BY DEF TabPlaces
    <3> QED
      BY <1>3, <1>7, <3>1, GraphKept
  <2> QED
    BY <2>1
<1>9. /\ w \in TabPlaces(p) /\ pde[w[1]][w[2]] = NULL /\ pde'[w[1]][w[2]] = b
      /\ b # NULL
      /\ \A u \in TabPlaces(p) : u # w => pde'[u[1]][u[2]] = pde[u[1]][u[2]]
  <2>1. w[1] = t /\ w[2] = TableOf(t)
    BY <1>5
  <2>2. PICK r \in Regions : r = TableOf(t)
    BY <1>3
  <2>3. pde' = [pde EXCEPT ![t][r] = tbit[t]] /\ pde \in [Procs -> [Regions -> Frames]]
    BY <1>1, <1>2, <2>2 DEF TypeInv
  <2>4. pde'[t][r] = tbit[t]
    BY <1>3, <2>2, <2>3
  <2>5. ASSUME NEW u \in Procs \X Regions, u # w
        PROVE  pde'[u[1]][u[2]] = pde[u[1]][u[2]]
    <3>1. u[1] \in Procs /\ u[2] \in Regions /\ u = <<u[1], u[2]>>
      OBVIOUS
    <3>2. u[1] # t \/ u[2] # r
      BY <1>5, <2>2, <2>5, <3>1
    <3> QED
      BY <1>3, <2>2, <2>3, <3>1, <3>2
  <2> QED
    BY <1>3, <1>5, <2>1, <2>2, <2>4, <2>5 DEF TabPlaces
<1>10. Graph(p)' = Graph(p) \cup {<<w, b>>}
  <2>1. w \notin Uses(p) /\ w \in Uses(p)' /\ FrameOf(p, w)' = b
    BY <1>2, <1>9, UsesIff
  <2>2. \A u \in MapPlaces(p) :
          (Maps(u)' <=> Maps(u)) /\ pte'[u[1]][u[2]] = pte[u[1]][u[2]]
    BY <1>3, <1>7
  <2>3. Graph(p)' = Graph(p) \cup {<<w, FrameOf(p, w)'>>}
    BY <1>2, <1>9, <2>1, <2>2, GraphStep
  <2> QED
    BY <2>1, <2>3
<1>11. InFlight(p) = {b} /\ InFlight(p)' = {}
  <2>1. \A f : /\ f \in InFlight(p) <=> Flies(t, p, f)
               /\ f \in InFlight(p)' <=> Flies(t, p, f)'
    BY <1>2, <1>3, <1>4, <1>6, AloneInFlight
  <2>2. \A f : (Flies(t, p, f) <=> f = b) /\ ~Flies(t, p, f)'
    BY <1>1, <1>4, <1>5, <1>6 DEF Flies
  <2> QED
    BY <2>1, <2>2
<1>12. Sound(pool[p].ones, Graph(p), InFlight(p))'
  <2>1. Sound(pool[p].ones, Graph(p), InFlight(p))
    BY <1>2 DEF FrameInv
  <2>2. Sound(pool[p].ones, Graph(p) \cup {<<w, b>>}, {})
    BY <1>11, <2>1, SoundFacts
  <2> QED
    BY <1>1, <1>10, <1>11, <2>2 DEF Sound
<1>13. \A q \in Pools \ {p} : \A f : Flies(t, q, f)' <=> Flies(t, q, f)
  BY <1>1, <1>4 DEF Flies
<1>14. Ready(t)'
  BY <1>4 DEF Ready
<1>15. LoadOK(t)'
  BY <1>1, <1>4, LoadKept
<1>16. \A u \in Threads \ {t} : Ready(u)' /\ LoadOK(u)'
  BY <1>1, <1>4, OthersReady
<1>17. \A q \in Pools \ {p} : pool'[q] = pool[q]
  BY <1>1
<1> QED
  BY <1>1, <1>2, <1>4, <1>8, <1>12, <1>13, <1>14, <1>15, <1>16, <1>17, OnePool

\* pfree gives back the frame of the page that is about to be unmapped.
LEMMA FreeFrame ==
  ASSUME Inv, panic = "none", FrameInv, NEW t \in Threads,
         UNCHANGED <<load, booting>>, pfree(t)
  PROVE  FrameInv'
<1> DEFINE p == Pool(t)
<1>1. /\ pc[t] = "pfree" /\ Goto(t, "page_table_remove")
      /\ pool' = [pool EXCEPT ![p] = bitmap_clear(@, pte[Space(t)][Page(t)])]
      /\ UNCHANGED <<vaddr, pte, pde, mutex, call, idx, bit, tbit, own, started>>
  BY DEF pfree, At
<1>2. TypeInv /\ BitmapInv /\ PhaseOK(t) /\ p \in Pools
  BY Before, SpaceFacts
<1>3. pc'[t] = "page_table_remove" /\ \A u \in Threads \ {t} : Same(u)
  BY <1>1, <1>2 DEF TypeInv, Goto, Same
<1>4. PICK w, f : w = <<Space(t), Page(t)>> /\ f = pte[Space(t)][Page(t)]
  OBVIOUS
<1>5. pc[t] \in Emptying /\ pc[t] \in Filling \cup Emptying /\ Inside(t)
  BY <1>1 DEF Emptying, Inside
<1>6. Page(t)' = Page(t) /\ f \in Nat /\ f # NULL
  BY <1>1, <1>4, <1>5, PageInRange, MemoryAssumption DEF Page
<1>7. /\ \A q \in Pools \ {p} : Graph(q)' = Graph(q)
      /\ w \in MapPlaces(p) /\ w \notin TabPlaces(p)
      /\ \A u \in MapPlaces(p) : u # w =>
           (Maps(u)' <=> Maps(u)) /\ pte'[u[1]][u[2]] = pte[u[1]][u[2]]
  BY <1>1, <1>3, <1>4, <1>5, <1>6, PteStep
<1>8. Maps(w) /\ ~Maps(w)' /\ pte[w[1]][w[2]] = f
  <2>1. Page(t) \notin Leaving(Space(t)) /\ Page(t) \in Leaving(Space(t))'
    BY <1>1, <1>3, <1>5, <1>6, LeavingFacts
  <2>2. w[1] = Space(t) /\ w[2] = Page(t)
    BY <1>4
  <2> QED
    BY <1>4, <1>6, <2>1, <2>2 DEF Maps
<1>9. Graph(p)' = Graph(p) \ {<<w, f>>} /\ <<w, f>> \in Graph(p)
  <2>1. w \in Uses(p) /\ w \notin Uses(p)' /\ FrameOf(p, w) = f
    BY <1>2, <1>7, <1>8, UsesIff
  <2>2. \A u \in TabPlaces(p) : pde'[u[1]][u[2]] = pde[u[1]][u[2]]
    BY <1>1
  <2>3. /\ Graph(p)' = Graph(p) \ {<<w, FrameOf(p, w)>>}
        /\ <<w, FrameOf(p, w)>> \in Graph(p)
    BY <1>2, <1>7, <2>1, <2>2, GraphStep
  <2> QED
    BY <2>1, <2>3
<1>10. \A q \in Pools : \A g : Flies(t, q, g)' <=> Flies(t, q, g)
  BY <1>1, <1>3 DEF Flies
<1>11. InFlight(p)' = InFlight(p)
  BY <1>2, <1>3, <1>10, FlightSame
<1>12. /\ pool'[p].ones = pool[p].ones \ {f}
       /\ \A q \in Pools \ {p} : pool'[q] = pool[q]
       /\ \A q \in Pools : pool'[q].ones \subseteq pool[q].ones
  <2>1. pool = [q \in Pools |-> pool[q]] /\ IsBitmap(pool[p])
    BY <1>2 DEF BitmapInv
  <2>2. bitmap_clear(pool[p], f).ones = pool[p].ones \ {f}
    BY <2>1 DEF bitmap_clear, IsBitmap
  <2>3. /\ pool'[p] = bitmap_clear(pool[p], f)
        /\ \A q \in Pools \ {p} : pool'[q] = pool[q]
    BY <1>1, <1>2, <1>4, <2>1
  <2> QED
    BY <2>2, <2>3
<1>13. Sound(pool[p].ones, Graph(p), InFlight(p))'
  <2>1. Sound(pool[p].ones, Graph(p), InFlight(p))
    BY <1>2 DEF FrameInv
  <2>2. Sound(pool[p].ones \ {f}, Graph(p) \ {<<w, f>>}, InFlight(p))
    BY <1>9, <2>1, SoundFacts
  <2> QED
    BY <1>9, <1>11, <1>12, <2>2 DEF Sound
<1>14. Ready(t)'
  BY <1>3 DEF Ready
<1>15. LoadOK(t)'
  BY <1>1, LoadKept
<1>16. ASSUME NEW u \in Threads \ {t} PROVE Ready(u)' /\ LoadOK(u)'
  <2>1. Pool(u) \in Pools /\ "kern_pool" \in Pools
    BY SpaceFacts DEF Pools
  <2> QED
    BY <1>3, <1>12, <2>1, OthersReady
<1> QED
  BY <1>1, <1>2, <1>3, <1>7, <1>10, <1>12, <1>13, <1>14, <1>15, <1>16, OnePool

\* page_table_remove unmaps a page whose frame was given back.
LEMMA UnmapFrame ==
  ASSUME Inv, panic = "none", FrameInv, NEW t \in Threads,
         UNCHANGED <<load, booting>>, page_table_remove(t)
  PROVE  FrameInv'
<1> DEFINE p == Pool(t)
<1>1. /\ pc[t] = "page_table_remove"
      /\ pte' = [pte EXCEPT ![Space(t)][Page(t)] = NULL]
      /\ UNCHANGED <<pool, vaddr, pde, tbit, started>>
  BY DEF page_table_remove, At
<1>2. TypeInv /\ BitmapInv /\ PhaseOK(t) /\ p \in Pools
  BY Before, SpaceFacts
<1>3. /\ \A u \in Threads \ {t} : Same(u)
      /\ pc'[t] \in {"pfree", "out"}
      /\ pc'[t] = "out" \/ call'[t].kind = call[t].kind
  <2>1. CASE Return(t, {})
    BY <1>1, <1>2, <2>1, ReturnFacts
  <2>2. CASE /\ idx' = [idx EXCEPT ![t] = @ + 1] /\ Goto(t, "pfree")
             /\ UNCHANGED <<mutex, off, call, bit, own>>
    BY <1>1, <1>2, <2>2 DEF TypeInv, Goto, Same
  <2> QED
    BY <2>1, <2>2 DEF page_table_remove
<1>4. PICK w : w = <<Space(t), Page(t)>>
  OBVIOUS
<1>5. pc[t] \in Filling \cup Emptying /\ Inside(t) /\ NULL \in Frames
  BY <1>1 DEF Emptying, Inside, Frames
<1>6. /\ \A q \in Pools \ {p} : Graph(q)' = Graph(q)
      /\ w \in MapPlaces(p) /\ w \notin TabPlaces(p)
      /\ \A u \in MapPlaces(p) : u # w =>
           (Maps(u)' <=> Maps(u)) /\ pte'[u[1]][u[2]] = pte[u[1]][u[2]]
  <2>1. \E x \in Frames : pte' = [pte EXCEPT ![Space(t)][Page(t)] = x]
    BY <1>1, <1>5
  <2> QED
    <3>1. pde' = pde /\ pc'[t] # "page_table_remove"
      BY <1>1, <1>3
    <3> HIDE DEF p
    <3> QED
      BY <1>3, <1>4, <1>5, <2>1, <3>1, PteStep DEF p
<1>7. ~Maps(w) /\ ~Maps(w)'
  <2>1. Page(t) \in Leaving(Space(t))
    BY <1>1, <1>3, <1>5, LeavingFacts
  <2>2. pte'[Space(t)][Page(t)] = NULL
    BY <1>1, <1>5, LoopTables
  <2>3. w[1] = Space(t) /\ w[2] = Page(t)
    BY <1>4
  <2>4. pte'[w[1]][w[2]] = NULL
    BY <2>2, <2>3
  <2> QED
    BY <2>1, <2>3, <2>4 DEF Maps
<1>8. \A q \in Pools : Graph(q)' = Graph(q)
  <2>1. w \notin Uses(p) /\ w \notin Uses(p)'
    BY <1>2, <1>6, <1>7, UsesIff
  <2>2. \A u \in TabPlaces(p) : pde'[u[1]][u[2]] = pde[u[1]][u[2]]
    BY <1>1
  <2>3. Graph(p)' = Graph(p)
    BY <1>2, <1>6, <2>1, <2>2, GraphStep
  <2> QED
    BY <1>6, <2>3
<1>9. \A q \in Pools : \A g : Flies(t, q, g)' <=> Flies(t, q, g)
  BY <1>1, <1>3 DEF Flies
<1>10. Ready(t)'
  BY <1>3 DEF Ready
<1>11. LoadOK(t)' /\ started' \subseteq load
  BY <1>1, <1>3, LoadKept
<1>12. \A u \in Threads \ {t} : Ready(u)' /\ LoadOK(u)'
  BY <1>1, <1>3, OthersReady
<1>13. ASSUME NEW q \in Pools PROVE Sound(pool[q].ones, Graph(q), InFlight(q))'
  <2>1. Sound(pool[q].ones, Graph(q), InFlight(q)) /\ Graph(q)' = Graph(q)
    BY <1>8 DEF FrameInv
  <2>2. InFlight(q)' = InFlight(q)
    BY <1>3, <1>9, FlightSame
  <2> QED
    BY <1>1, <2>1, <2>2 DEF Sound
<1> QED
  BY <1>1, <1>10, <1>11, <1>12, <1>13 DEF FrameInv

\* The calls.
LEMMA CallFrame ==
  ASSUME Inv, panic = "none", FrameInv, NEW t \in Threads,
         UNCHANGED <<load, booting>>,
         \/ \E n \in 1 .. MaxCount : get_kern_pages(t, n) \/ sys_malloc(t, n)
         \/ \E r \in own[t] : sys_free(t, r)
         \/ start_process(t)
  PROVE  FrameInv'
<1>1. /\ TypeInv /\ started \subseteq load /\ KThreads \cap Procs = {}
      /\ t \in Procs => t # main
      /\ t \in Procs /\ own[t] # {} => t \in started
  BY Before, MemoryAssumption DEF FrameInv
<1>2. /\ pc[t] = "out" /\ pc'[t] \in {"vaddr_scan", "lock"}
      /\ \A u \in Threads \ {t} : Same(u)
      /\ UNCHANGED <<pool, pte, pde>>
      /\ booting => t = main
      /\ started' \subseteq load
      /\ t \in Procs => t \in load
      /\ t \in KThreads /\ call'[t].kind \in Allocs => booting \/ t \in load
  <2>1. ASSUME NEW n \in 1 .. MaxCount, get_kern_pages(t, n) PROVE <1>2
    BY <1>1, <2>1 DEF get_kern_pages, Call, At, Goto, Same, TypeInv
  <2>2. ASSUME NEW n \in 1 .. MaxCount, sys_malloc(t, n) PROVE <1>2
    BY <1>1, <2>2 DEF sys_malloc, Call, At, Goto, Same, TypeInv
  <2>3. ASSUME NEW r \in own[t], sys_free(t, r) PROVE <1>2
    <3>1. /\ pc[t] = "out" /\ pc'[t] = "lock" /\ call'[t].kind = "free"
          /\ \A u \in Threads \ {t} : Same(u)
          /\ UNCHANGED <<pool, pte, pde, started>>
          /\ booting => t = main
      BY <1>1, <2>3 DEF sys_free, At, Goto, Same, TypeInv
    <3> QED
      BY <1>1, <3>1 DEF Allocs
  <2>4. CASE start_process(t)
    BY <1>1, <2>4 DEF start_process, Call, At, Goto, Same, TypeInv
  <2> QED
    BY <2>1, <2>2, <2>3, <2>4
<1>3. LoadOK(t)'
  BY <1>2 DEF LoadOK
<1>4. pc[t] \notin HasFrame /\ pc'[t] \notin HasFrame
  BY <1>2 DEF HasFrame
<1> QED
  BY <1>2, <1>3, <1>4, FrameAway

\* The steps of a call before a frame is looked for.
LEMMA AwayFrame ==
  ASSUME Inv, panic = "none", FrameInv, NEW t \in Threads,
         UNCHANGED <<load, booting>>,
         \/ mutex_lock(t) \/ block(t) \/ vaddr_scan(t) \/ vaddr_set(t)
         \/ stack_set(t) \/ vaddr_remove(t)
  PROVE  FrameInv'
<1>1. TypeInv /\ PhaseOK(t)
  BY Before
<1>2. /\ pc[t] # "out" /\ pc[t] \notin HasFrame /\ pc'[t] \notin HasFrame
      /\ \A u \in Threads \ {t} : Same(u)
      /\ UNCHANGED <<pool, pte, pde, started>>
      /\ pc'[t] = "out" \/ call'[t].kind = call[t].kind
  <2>1. CASE mutex_lock(t)
    <3>1. pc[t] = "lock" /\ call[t].kind \in {"malloc", "free", "get_page"}
      BY <1>1, <2>1 DEF mutex_lock, At, PhaseOK
    <3>2. pc'[t] \in {"vaddr_scan", "vaddr_remove", "stack_set"}
      BY <1>1, <2>1, <3>1 DEF mutex_lock, Goto, TypeInv
    <3> QED
      BY <1>1, <2>1, <3>1, <3>2 DEF mutex_lock, Goto, Same, TypeInv, HasFrame
  <2>2. CASE block(t)
    BY <2>2 DEF block, At, Same, HasFrame
  <2>3. CASE vaddr_scan(t)
    <3>1. CASE Return(t, {})
      BY <1>1, <2>3, <3>1, ReturnFacts DEF vaddr_scan, At, HasFrame
    <3>2. CASE ~Return(t, {})
      BY <1>1, <2>3, <3>2 DEF vaddr_scan, At, Goto, Same, TypeInv, HasFrame
    <3> QED
      BY <3>1, <3>2
  <2>4. CASE vaddr_set(t) \/ stack_set(t)
    BY <1>1, <2>4 DEF vaddr_set, stack_set, At, Goto, Same, TypeInv, HasFrame
  <2>5. CASE vaddr_remove(t)
    BY <1>1, <2>5 DEF vaddr_remove, At, Goto, Same, TypeInv, HasFrame
  <2> QED
    BY <2>1, <2>2, <2>3, <2>4, <2>5
<1>3. LoadOK(t)' /\ started' \subseteq load
  BY <1>2, LoadKept
<1> QED
  BY <1>2, <1>3, FrameAway

\* palloc and page_table_add find a frame that is free.
LEMMA FindFrame ==
  ASSUME Inv, panic = "none", panic' = "none", FrameInv, NEW t \in Threads,
         UNCHANGED <<load, booting>>, palloc_scan(t) \/ table_scan(t)
  PROVE  FrameInv'
<1>1. TypeInv /\ BitmapInv /\ Pool(t) \in Pools /\ "kern_pool" \in Pools
  BY Before, SpaceFacts DEF Pools
<1>2. ASSUME NEW p \in Pools, bitmap_scan(pool[p], 1) # -1
      PROVE  bitmap_scan(pool[p], 1) \notin pool[p].ones
  BY <1>1, <1>2, ScanOne DEF BitmapInv
<1>3. /\ pc[t] \in {"palloc_scan", "page_table_add"}
      /\ pc'[t] \in {"out", "no_stack", "palloc_set", "table_set"}
      /\ pc'[t] = "table_set" <=> pc[t] = "page_table_add"
      /\ \A u \in Threads \ {t} : Same(u)
      /\ UNCHANGED <<pool, pte, pde, started>>
      /\ pc'[t] = "out" \/ call'[t].kind = call[t].kind
      /\ pc'[t] = "palloc_set" => bit'[t] \notin pool[Pool(t)].ones
      /\ pc'[t] = "table_set" => /\ tbit'[t] \notin pool["kern_pool"].ones
                                 /\ bit'[t] = bit[t]
  <2>1. CASE table_scan(t)
    <3>1. bitmap_scan(pool["kern_pool"], 1) # -1
      BY <2>1 DEF table_scan
    <3>2. tbit'[t] = bitmap_scan(pool["kern_pool"], 1) /\ pc'[t] = "table_set"
      BY <1>1, <2>1 DEF table_scan, Goto, TypeInv
    <3>3. tbit'[t] \notin pool["kern_pool"].ones
      BY <1>1, <1>2, <3>1, <3>2
    <3> QED
      BY <1>1, <2>1, <3>2, <3>3 DEF table_scan, At, Goto, Same, TypeInv
  <2>2. CASE palloc_scan(t) /\ Return(t, {})
    <3>1. pc[t] = "palloc_scan" /\ UNCHANGED <<pool, pte, pde, started, tbit>>
      BY <2>2 DEF palloc_scan, At
    <3>2. pc'[t] = "out" /\ \A u \in Threads \ {t} : Same(u)
      BY <1>1, <2>2, <3>1, ReturnFacts
    <3> QED
      BY <3>1, <3>2
  <2>3. CASE palloc_scan(t) /\ ~Return(t, {})
    <3>1. pc[t] = "palloc_scan"
      BY <2>3 DEF palloc_scan, At
    <3>2. CASE Goto(t, "no_stack") /\ UNCHANGED bit
      BY <1>1, <2>3, <3>1, <3>2 DEF palloc_scan, Goto, Same, TypeInv
    <3>3. CASE /\ Goto(t, "palloc_set") /\ bitmap_scan(pool[Pool(t)], 1) # -1
               /\ bit' = [bit EXCEPT ![t] = bitmap_scan(pool[Pool(t)], 1)]
      <4>1. bit'[t] = bitmap_scan(pool[Pool(t)], 1) /\ pc'[t] = "palloc_set"
        BY <1>1, <3>3 DEF Goto, TypeInv
      <4>2. bit'[t] \notin pool[Pool(t)].ones
        BY <1>1, <1>2, <3>3, <4>1
      <4> QED
        BY <1>1, <2>3, <3>1, <3>3, <4>1, <4>2 DEF palloc_scan, Goto, Same, TypeInv
    <3> QED
      BY <2>3, <3>2, <3>3 DEF palloc_scan
  <2> QED
    BY <2>1, <2>2, <2>3
<1>4. \A p \in Pools : \A f : Flies(t, p, f)' <=> Flies(t, p, f)
  BY <1>3 DEF Flies
<1>5. Ready(t)'
  BY <1>3 DEF Ready
<1>6. LoadOK(t)' /\ started' \subseteq load
  BY <1>3, LoadKept
<1> QED
  BY <1>3, <1>4, <1>5, <1>6, FrameQuiet

\* The bookkeeping of the frames holds in every state without a panic.
LEMMA FramesAlways ==
  ASSUME SeparateLoads
  PROVE  Spec => [](panic = "none" => FrameInv)
<1>1. ASSUME Init PROVE FrameInv
  <2>1. /\ \A p \in Pools : pool[p].ones = {}
        /\ \A t \in Threads : pc[t] = "out"
    BY <1>1 DEF Init, bitmap_init
  <2>2. ASSUME NEW p \in Pools PROVE Graph(p) = {} /\ InFlight(p) = {}
    <3>1. Uses(p) = {}
      <4>1. ASSUME NEW u \in MapPlaces(p) PROVE ~Maps(u)
        <5>1. u[1] \in Spaces /\ u[2] \in PagesIn(u[1])
          BY MemoryAssumption DEF MapPlaces, Spaces, PagesIn
        <5>2. pte[u[1]][u[2]] = NULL
          BY <1>1, <5>1 DEF Init, PagesIn
        <5> QED
          BY <5>2 DEF Maps
      <4>2. ASSUME NEW u \in TabPlaces(p) PROVE pde[u[1]][u[2]] = NULL
        BY <1>1 DEF TabPlaces, Init
      <4> QED
        BY <4>1, <4>2, UsesIff
    <3>2. \A u \in Threads : \A f : ~Flies(u, p, f)
      BY <2>1 DEF Flies
    <3> QED
      BY <3>1, <3>2, FlightIff DEF Graph
  <2>3. \A p \in Pools : Sound(pool[p].ones, Graph(p), InFlight(p))
    BY <2>1, <2>2 DEF Sound
  <2>4. started = {}
    BY <1>1 DEF Init
  <2> QED
    BY <2>1, <2>3, <2>4 DEF FrameInv, Ready, LoadOK
<1>2. ASSUME Inv, panic = "none" => FrameInv, [Next]_vars, panic' = "none"
      PROVE  FrameInv'
  <2>1. CASE UNCHANGED vars
    <3>1. panic = "none" /\ FrameInv
      BY <1>2, <2>1 DEF vars
    <3>2. PICK t \in Threads : TRUE
      BY MemoryAssumption DEF Threads
    <3>3. \A u \in Threads : Same(u)
      BY <2>1 DEF vars, Same
    <3>4. ASSUME NEW p \in Pools PROVE Graph(p)' = Graph(p)
      <4>1. \A s : Leaving(s)' = Leaving(s)
        BY <2>1 DEF vars, Leaving, Page
      <4>2. \A u : Maps(u)' = Maps(u)
        BY <2>1, <4>1 DEF vars, Maps
      <4> QED
        BY <2>1, <4>2, GraphKept DEF vars
    <3>5. \A p \in Pools : \A f : Flies(t, p, f)' <=> Flies(t, p, f)
      BY <2>1 DEF vars, Flies
    <3>6. \A u \in Threads : Ready(u)' /\ LoadOK(u)'
      BY <2>1, <3>1 DEF vars, FrameInv, Ready, LoadOK
    <3>7. ASSUME NEW p \in Pools
          PROVE  Sound(pool[p].ones, Graph(p), InFlight(p))'
      <4>1. Sound(pool[p].ones, Graph(p), InFlight(p)) /\ Graph(p)' = Graph(p)
        BY <3>1, <3>4 DEF FrameInv
      <4>2. InFlight(p)' = InFlight(p)
        BY <3>3, <3>5, FlightSame
      <4>3. pool' = pool
        BY <2>1 DEF vars
      <4> QED
        BY <4>1, <4>2, <4>3 DEF Sound
    <3> QED
      BY <2>1, <3>1, <3>6, <3>7 DEF vars, FrameInv
  <2>2. CASE intr_enable
    <3>1. /\ panic = "none" /\ FrameInv /\ booting /\ pc[main] = "out"
          /\ UNCHANGED <<load, pool, vaddr, pte, pde, mutex, off, pc, call, idx,
                         bit, tbit, own, started, panic>>
      BY <1>2, <2>2 DEF intr_enable, At
    <3>2. main \in Threads
      BY MemoryAssumption DEF Threads
    <3>3. \A u \in Threads : pc[u] = "out" /\ Same(u)
      BY <1>2, <3>1, <3>2 DEF Inv, PhaseOK, Same
    <3>4. \A p \in Pools : Graph(p)' = Graph(p)
      BY <3>1, <3>2, <3>3, GraphSame
    <3>5. \A p \in Pools : \A f : Flies(main, p, f)' <=> Flies(main, p, f)
      BY <3>1 DEF Flies
    <3>6. \A u \in Threads : Ready(u)' /\ LoadOK(u)'
      BY <3>1, <3>3 DEF Ready, LoadOK
    <3>7. ASSUME NEW p \in Pools
          PROVE  Sound(pool[p].ones, Graph(p), InFlight(p))'
      <4>1. Sound(pool[p].ones, Graph(p), InFlight(p)) /\ Graph(p)' = Graph(p)
        BY <3>1, <3>4 DEF FrameInv
      <4>2. InFlight(p)' = InFlight(p)
        BY <3>2, <3>3, <3>5, FlightSame
      <4> QED
        BY <3>1, <4>1, <4>2 DEF Sound
    <3> QED
      BY <3>1, <3>6, <3>7 DEF FrameInv
  <2>3. ASSUME NEW t \in Threads, Step(t), UNCHANGED <<load, booting>>
        PROVE  FrameInv'
    <3>1. panic = "none"
      BY <2>3 DEF Step, get_kern_pages, sys_malloc, sys_free, start_process,
         mutex_lock, block, vaddr_scan, vaddr_set, stack_set, palloc_scan,
         palloc_set, page_table_add, table_scan, table_set, table_add,
         vaddr_remove, pfree, page_table_remove, At
    <3>2. FrameInv
      BY <1>2, <3>1
    <3>3. CASE \/ \E n \in 1 .. MaxCount : get_kern_pages(t, n) \/ sys_malloc(t, n)
               \/ \E r \in own[t] : sys_free(t, r)
               \/ start_process(t)
      BY <1>2, <2>3, <3>1, <3>2, <3>3, CallFrame
    <3>4. CASE \/ mutex_lock(t) \/ block(t) \/ vaddr_scan(t) \/ vaddr_set(t)
               \/ stack_set(t) \/ vaddr_remove(t)
      BY <1>2, <2>3, <3>1, <3>2, <3>4, AwayFrame
    <3>5. CASE palloc_scan(t) \/ table_scan(t)
      BY <1>2, <2>3, <3>1, <3>2, <3>5, FindFrame
    <3>6. CASE palloc_set(t) \/ table_set(t)
      BY <1>2, <2>3, <3>1, <3>2, <3>6, TakeFrame
    <3>7. CASE page_table_add(t)
      BY <1>2, <2>3, <3>1, <3>2, <3>7, MapFrame
    <3>8. CASE table_add(t)
      BY <1>2, <2>3, <3>1, <3>2, <3>8, TableFrame
    <3>9. CASE pfree(t)
      BY <1>2, <2>3, <3>1, <3>2, <3>9, FreeFrame
    <3>10. CASE page_table_remove(t)
      BY <1>2, <2>3, <3>1, <3>2, <3>10, UnmapFrame
    <3> QED
      BY <2>3, <3>3, <3>4, <3>5, <3>6, <3>7, <3>8, <3>9, <3>10 DEF Step
  <2> QED
    BY <1>2, <2>1, <2>2, <2>3 DEF Next
<1>3. Init => (panic = "none" => FrameInv)
  BY <1>1
<1>4. Inv /\ (panic = "none" => FrameInv) /\ [Next]_vars
        => (panic = "none" => FrameInv)'
  BY <1>2
<1> QED
  BY <1>3, <1>4, InvAlways, PTL DEF Spec

(***************************************************************************)
(* FramesUsedOnce, for any number of threads and pages: when boot leaves   *)
(* either kernel threads or processes to allocate, no page frame is used   *)
(* twice and none is lost, though bitmap_scan and bitmap_set are separate  *)
(* steps and page tables are taken from kern_pool without its mutex.  With *)
(* both at once it does not hold: that page_table_add takes them without   *)
(* the mutex is then a race.                                               *)
(***************************************************************************)
THEOREM FramesAreUsedOnce ==
  ASSUME SeparateLoads
  PROVE  Spec => []FramesUsedOnce
<1>1. ASSUME panic = "none" => FrameInv PROVE FramesUsedOnce
  <2>1. SUFFICES ASSUME panic = "none", NEW p \in Pools
                 PROVE  /\ \A u, w \in Uses(p) :
                             FrameOf(p, u) = FrameOf(p, w) => u = w
                        /\ pool[p].ones = {FrameOf(p, u) : u \in Uses(p)}
                                          \cup InFlight(p)
    BY DEF FramesUsedOnce
  <2>2. Sound(pool[p].ones, Graph(p), InFlight(p))
    BY <1>1, <2>1 DEF FrameInv
  <2>3. ASSUME NEW u \in Uses(p), NEW w \in Uses(p), FrameOf(p, u) = FrameOf(p, w)
        PROVE  u = w
    <3>1. <<u, FrameOf(p, u)>> \in Graph(p) /\ <<w, FrameOf(p, w)>> \in Graph(p)
      BY DEF Graph
    <3>2. <<u, FrameOf(p, u)>> = <<w, FrameOf(p, w)>>
      BY <2>2, <2>3, <3>1 DEF Sound
    <3> QED
      BY <3>2
  <2>4. {x[2] : x \in Graph(p)} = {FrameOf(p, u) : u \in Uses(p)}
    <3>1. ASSUME NEW f, f \in {x[2] : x \in Graph(p)}
          PROVE  f \in {FrameOf(p, u) : u \in Uses(p)}
      BY <3>1 DEF Graph
    <3>2. ASSUME NEW u \in Uses(p) PROVE FrameOf(p, u) \in {x[2] : x \in Graph(p)}
      <4>1. <<u, FrameOf(p, u)>> \in Graph(p)
        BY DEF Graph
      <4>2. <<u, FrameOf(p, u)>>[2] = FrameOf(p, u)
        OBVIOUS
      <4> QED
        BY <4>1, <4>2
    <3> QED
      BY <3>1, <3>2
  <2> QED
    BY <2>2, <2>3, <2>4 DEF Sound
<1> QED
  BY <1>1, FramesAlways, PTL

=============================================================================
