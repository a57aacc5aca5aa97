------------------------------- MODULE Bitmap -------------------------------
(***************************************************************************)
(* The bitmaps of lib/bitmap.c.  A bitmap is a record of its length in     *)
(* bytes and the set of the positions whose bit is 1.  PANIC is the result *)
(* of a call that fails an ASSERT.                                         *)
(***************************************************************************)
EXTENDS Integers, FiniteSets, FiniteSetsExt

CONSTANT ByteBits   \* the bits of a byte, 8

ASSUME BitmapAssumption == ByteBits \in Nat \ {0}

PANIC == -2

Size(bm) == bm.length * ByteBits

bitmap_init(len) == [length |-> len, ones |-> {}]

\* The ASSERT of bitmap_has, bitmap_set and bitmap_clear.
InRange(bm, position) == position \div ByteBits < bm.length

bitmap_set(bm, position) == [bm EXCEPT !.ones = @ \cup {position}]

bitmap_clear(bm, position) == [bm EXCEPT !.ones = @ \ {position}]

-----------------------------------------------------------------------------
\* The bytes that are not 0xff.
NotFull(bm) ==
  {idx \in 0 .. bm.length - 1 :
     \E p \in idx * ByteBits .. idx * ByteBits + ByteBits - 1 : p \notin bm.ones}

\* The value of `count` when the loop of bitmap_scan has looked at bit n.
CountAt(bm, first) ==
  LET count[n \in first .. Size(bm) - 1] ==
        IF n = first THEN 1 ELSE IF n \in bm.ones THEN 0 ELSE count[n - 1] + 1
  IN  count

\* Mutant: the free bits before a used one count too.
bitmap_scan_NoReset(bm, cnt) ==
  LET first == Min((0 .. Size(bm) - 1) \ bm.ones)
      free  == {n \in first .. Size(bm) - 1 :
                  Cardinality((first .. n) \ bm.ones) = cnt}
  IN  IF NotFull(bm) = {} THEN -1
      ELSE IF cnt = 1 THEN first
      ELSE IF free = {} THEN PANIC ELSE Min(free) - cnt + 1

(***************************************************************************)
(* bitmap_scan: the first bit that is 0; for cnt > 1, the first run of cnt *)
(* such bits after it.  The loop is to look at the bits that are left, but *)
(* `position` is -1 already when their number is computed from it.  It     *)
(* looks at Size + 1 bits, and bitmap_has fails its ASSERT at bit Size.    *)
(***************************************************************************)
bitmap_scan(bm, cnt) ==
  LET idx   == Min(NotFull(bm))
      first == Min({p \in idx * ByteBits .. idx * ByteBits + ByteBits - 1 :
                      p \notin bm.ones})
      left  == Size(bm) - (-1)
      found == {n \in first + 1 .. Min({first + left, Size(bm) - 1}) :
                  CountAt(bm, first)[n] = cnt}
  IN  IF NotFull(bm) = {} THEN -1
      ELSE IF cnt = 1 THEN first
      ELSE IF found # {} THEN Min(found) - cnt + 1
      ELSE IF first + left >= Size(bm) THEN PANIC
      ELSE -1

-----------------------------------------------------------------------------
(* The reference definition.                                               *)

\* Where a run of cnt bits is 0.
Fits(bm, cnt) ==
  {p \in 0 .. Size(bm) - cnt : (p .. p + cnt - 1) \cap bm.ones = {}}

FirstFit(bm, cnt) == IF Fits(bm, cnt) = {} THEN -1 ELSE Min(Fits(bm, cnt))
=============================================================================
