------------------------------- MODULE Facts --------------------------------
(***************************************************************************)
(* Facts that several proofs use: about least numbers, which stand for     *)
(* induction, about Min, and about the sequences that stand for the lists  *)
(* of lib/list.c, the set of their elements and that no element is in them *)
(* twice.                                                                  *)
(***************************************************************************)
EXTENDS Integers, Sequences, SequencesExt, WellFoundedInduction, TLAPS

\* A set of natural numbers that is not empty has a least element.  Where a
\* proof needs induction, it looks at the least counterexample.
LEMMA LeastNumber ==
  ASSUME NEW T \in SUBSET Nat, T # {}
  PROVE  \E n \in T : \A m \in T : n <= m
<1> DEFINE R == {x \in Nat \X Nat : x[1] < x[2]}
<1>1. IsWellFoundedOn(OpToRel(<, Nat), Nat)
  BY NatLessThanWellFounded
<1>2. R = OpToRel(<, Nat)
  BY DEF OpToRel
<1>3. IsWellFoundedOn(R, Nat)
  BY <1>1, <1>2
<1> HIDE DEF R
<1>4. PICK n \in T : \A m \in T : ~(<<m, n>> \in R)
  BY <1>3, WFMin
<1>5. \A m \in T : ~(m < n)
  BY <1>4 DEF R
<1> QED
  BY <1>5

\* Min of a set of natural numbers is its least element.
LEMMA MinFacts ==
  ASSUME NEW T \in SUBSET Nat, T # {}
  PROVE  Min(T) \in T /\ \A m \in T : Min(T) <= m
<1>1. \E n \in T : \A m \in T : n <= m
  BY LeastNumber
<1> QED
  BY <1>1 DEF Min

\* The quotient and the remainder of a division.
LEMMA Division ==
  ASSUME NEW n \in Nat, NEW d \in Nat \ {0}
  PROVE  /\ n \div d \in Nat
         /\ (n \div d) * d <= n /\ n < (n \div d) * d + d
<1>1. /\ n = d * (n \div d) + (n % d) /\ n % d \in 0 .. d - 1
      /\ n \div d \in Int
  OBVIOUS
<1>2. n \div d >= 0
  <2>1. SUFFICES ASSUME n \div d <= -1 PROVE FALSE
    BY <1>1
  <2>2. d * (n \div d) <= -d
    BY <1>1, <2>1
  <2> QED
    BY <1>1, <2>2
<1> QED
  BY <1>1, <1>2

\* The page of an address, as a quotient.
LEMMA Quotient ==
  ASSUME NEW p \in Nat, NEW d \in Nat \ {0}, NEW n \in Nat,
         p * d <= n, n < p * d + d
  PROVE  n \div d = p
<1>1. PICK q \in Nat : q = n \div d
  BY Division
<1>2. q * d <= n /\ n < q * d + d
  BY <1>1, Division
<1>3. ASSUME q > p PROVE FALSE
  <2>1. PICK k \in Nat : q = p + 1 + k
    BY <1>3, q - (p + 1) \in Nat
  <2>2. k * d \in Nat /\ q * d = p * d + d + k * d /\ p * d \in Nat
    BY <2>1
  <2> QED
    BY <1>2, <2>2
<1>4. ASSUME q < p PROVE FALSE
  <2>1. PICK k \in Nat : p = q + 1 + k
    BY <1>4, p - (q + 1) \in Nat
  <2>2. k * d \in Nat /\ p * d = q * d + d + k * d /\ q * d \in Nat
    BY <2>1
  <2> QED
    BY <1>2, <2>2
<1> QED
  BY <1>1, <1>3, <1>4

\* f starts with x, and its steps are those of step.
Iterated(f, n, X, x, step) ==
  /\ f \in [0 .. n -> X] /\ f[0] = x
  /\ \A k \in 1 .. n : f[k] = step[k][f[k - 1]]

\* What is defined step by step exists.
LEMMA Iterates ==
  ASSUME NEW n \in Nat, NEW X, NEW x \in X, NEW step \in [Nat -> [X -> X]]
  PROVE  \E f : Iterated(f, n, X, x, step)
<1> DEFINE Built(f, m) == /\ f \in [0 .. m -> X] /\ f[0] = x
                          /\ \A k \in 1 .. m : f[k] = step[k][f[k - 1]]
           T == {m \in Nat : ~ \E f : Built(f, m)}
<1>1. ASSUME T # {} PROVE FALSE
  <2>1. PICK m \in T : \A j \in T : m <= j
    BY <1>1, LeastNumber
  <2>2. CASE m = 0
    <3>1. Built([k \in 0 .. 0 |-> x], 0)
      OBVIOUS
    <3> QED
      BY <2>1, <2>2, <3>1
  <2>3. CASE m # 0
    <3>1. m - 1 \in Nat /\ m - 1 \notin T
      <4>1. m \in Nat /\ T \subseteq Nat
        BY <2>1
      <4> HIDE DEF T
      <4> QED
        BY <2>1, <2>3, <4>1
    <3>2. PICK f : Built(f, m - 1)
      BY <3>1
    <3> DEFINE g == [k \in 0 .. m |-> IF k = m THEN step[m][f[m - 1]] ELSE f[k]]
    <3>3. f[m - 1] \in X
      BY <3>1, <3>2
    <3>4. g \in [0 .. m -> X]
      <4>1. ASSUME NEW k \in 0 .. m PROVE g[k] \in X
        <5>1. CASE k = m
          BY <2>1, <3>3, <5>1
        <5>2. CASE k # m
          BY <3>1, <3>2, <5>2, k \in 0 .. m - 1
        <5> QED
          BY <5>1, <5>2
      <4> QED
        BY <4>1
    <3>5. g[0] = x
      BY <2>1, <2>3, <3>2
    <3>6. ASSUME NEW k \in 1 .. m PROVE g[k] = step[k][g[k - 1]]
      <4>1. k - 1 \in 0 .. m /\ k - 1 # m /\ g[k - 1] = f[k - 1]
        BY <2>1
      <4>2. CASE k = m
        BY <4>1, <4>2
      <4>3. CASE k # m
        BY <3>2, <4>1, <4>3, k \in 1 .. m - 1
      <4> QED
        BY <4>2, <4>3
    <3>7. Built(g, m)
      <4> HIDE DEF g
      <4> QED
        BY <3>4, <3>5, <3>6
    <3> QED
      BY <2>1, <3>7
  <2> QED
    BY <2>2, <2>3
<1>2. n \notin T
  BY <1>1
<1> QED
  BY <1>2 DEF Iterated

\* The elements of a sequence, by their places.
LEMMA ToSetIff ==
  ASSUME NEW S, NEW s \in Seq(S), NEW x
  PROVE  x \in ToSet(s) <=> \E i \in 1 .. Len(s) : s[i] = x
  BY DEF ToSet

\* Append, the list_push_back of the code.
LEMMA AppendFacts ==
  ASSUME NEW S, NEW s \in Seq(S), NEW x \in S
  PROVE  /\ Append(s, x) \in Seq(S) /\ Append(s, x) # <<>>
         /\ ToSet(Append(s, x)) = ToSet(s) \cup {x}
         /\ IsInjective(s) /\ x \notin ToSet(s) => IsInjective(Append(s, x))
<1> DEFINE r == Append(s, x)
<1>1. /\ r \in Seq(S) /\ r # <<>> /\ Len(r) = Len(s) + 1 /\ Len(s) \in Nat
      /\ \A i \in 1 .. Len(s) : r[i] = s[i]
      /\ r[Len(s) + 1] = x
  OBVIOUS
<1>2. ASSUME NEW y PROVE y \in ToSet(r) <=> y \in ToSet(s) \cup {x}
  <2>1. y \in ToSet(r) <=> \E i \in 1 .. Len(r) : r[i] = y
    BY <1>1, ToSetIff
  <2>2. y \in ToSet(s) <=> \E i \in 1 .. Len(s) : s[i] = y
    BY ToSetIff
  <2> QED
    BY <1>1, <2>1, <2>2
<1>3. ASSUME IsInjective(s), x \notin ToSet(s) PROVE IsInjective(r)
  <2>1. \A i \in 1 .. Len(s) : s[i] # x
    BY <1>3, ToSetIff
  <2>2. \A i, j \in 1 .. Len(s) : s[i] = s[j] => i = j
    BY <1>3 DEF IsInjective
  <2>3. DOMAIN r = 1 .. Len(s) + 1
    BY <1>1
  <2> QED
    BY <1>1, <2>1, <2>2, <2>3 DEF IsInjective
<1> QED
  BY <1>1, <1>2, <1>3

\* A list_push_front.
LEMMA ConsFacts ==
  ASSUME NEW S, NEW s \in Seq(S), NEW x \in S
  PROVE  /\ <<x>> \o s \in Seq(S) /\ <<x>> \o s # <<>>
         /\ ToSet(<<x>> \o s) = ToSet(s) \cup {x}
         /\ IsInjective(s) /\ x \notin ToSet(s) => IsInjective(<<x>> \o s)
<1> DEFINE r == <<x>> \o s
<1>1. /\ r \in Seq(S) /\ Len(r) = Len(s) + 1 /\ Len(s) \in Nat
      /\ \A i \in 1 .. Len(s) : r[i + 1] = s[i]
      /\ r[1] = x
  OBVIOUS
<1>2. ASSUME NEW y PROVE y \in ToSet(r) <=> y \in ToSet(s) \cup {x}
  <2>1. y \in ToSet(r) <=> \E i \in 1 .. Len(r) : r[i] = y
    BY <1>1, ToSetIff, ZenonT(40)
  <2>2. y \in ToSet(s) <=> \E i \in 1 .. Len(s) : s[i] = y
    BY ToSetIff
  <2>3. \A i \in 1 .. Len(r) : i # 1 => i - 1 \in 1 .. Len(s) /\ r[i] = s[i - 1]
    <3> TAKE i \in 1 .. Len(r)
    <3> HAVE i # 1
    <3>1. i - 1 \in 1 .. Len(s)
      BY <1>1
    <3> QED
      BY <1>1, <3>1
  <2>4. \A i \in 1 .. Len(s) : i + 1 \in 1 .. Len(r)
    BY <1>1
  <2>5. 1 \in 1 .. Len(r)
    BY <1>1
  <2> HIDE DEF r
  <2> QED
    BY <1>1, <2>1, <2>2, <2>3, <2>4, <2>5
<1>3. ASSUME IsInjective(s), x \notin ToSet(s) PROVE IsInjective(r)
  <2>1. \A i \in 1 .. Len(s) : s[i] # x
    BY <1>3, ToSetIff
  <2>2. \A i, j \in 1 .. Len(s) : s[i] = s[j] => i = j
    BY <1>3 DEF IsInjective
  <2>3. \A i \in 1 .. Len(r) : i # 1 => i - 1 \in 1 .. Len(s) /\ r[i] = s[i - 1]
    <3> TAKE i \in 1 .. Len(r)
    <3> HAVE i # 1
    <3>1. i - 1 \in 1 .. Len(s)
      BY <1>1
    <3> QED
      BY <1>1, <3>1
  <2>4. DOMAIN r = 1 .. Len(r)
    BY <1>1
  <2>5. ASSUME NEW i \in 1 .. Len(r), NEW j \in 1 .. Len(r), r[i] = r[j]
        PROVE  i = j
    BY <1>1, <2>1, <2>2, <2>3, <2>5
  <2> QED
    BY <2>4, <2>5 DEF IsInjective
<1> QED
  BY <1>1, <1>2, <1>3

\* A list_pop_front.
LEMMA TailFacts ==
  ASSUME NEW S, NEW s \in Seq(S), s # <<>>
  PROVE  /\ Head(s) \in S /\ Tail(s) \in Seq(S) /\ ToSet(s) \subseteq S
         /\ ToSet(s) = ToSet(Tail(s)) \cup {Head(s)}
         /\ IsInjective(s) =>
              IsInjective(Tail(s)) /\ Head(s) \notin ToSet(Tail(s))
<1> DEFINE r == Tail(s)
<1>1. /\ r \in Seq(S) /\ Len(s) = Len(r) + 1 /\ Len(r) \in Nat
      /\ \A i \in 1 .. Len(r) : r[i] = s[i + 1]
      /\ Head(s) = s[1] /\ Head(s) \in S
  OBVIOUS
<1>2. ASSUME NEW y PROVE y \in ToSet(s) <=> y \in ToSet(r) \cup {Head(s)}
  <2>1. y \in ToSet(r) <=> \E i \in 1 .. Len(r) : r[i] = y
    BY <1>1, ToSetIff, ZenonT(40)
  <2>2. y \in ToSet(s) <=> \E i \in 1 .. Len(s) : s[i] = y
    BY ToSetIff
  <2>3. \A i \in 1 .. Len(s) : i # 1 => i - 1 \in 1 .. Len(r) /\ s[i] = r[i - 1]
    <3> TAKE i \in 1 .. Len(s)
    <3> HAVE i # 1
    <3>1. i - 1 \in 1 .. Len(r)
      BY <1>1
    <3> QED
      BY <1>1, <3>1
  <2> QED
    BY <1>1, <2>1, <2>2, <2>3
<1>3. ToSet(s) \subseteq S
  BY ToSetIff
<1>4. ASSUME IsInjective(s)
      PROVE  IsInjective(r) /\ Head(s) \notin ToSet(r)
  <2>1. \A i, j \in 1 .. Len(s) : s[i] = s[j] => i = j
    BY <1>4 DEF IsInjective
  <2>2. Head(s) \notin ToSet(r)
    <3>1. Head(s) \in ToSet(r) <=> \E i \in 1 .. Len(r) : r[i] = Head(s)
      BY <1>1, ToSetIff, ZenonT(40)
    <3> QED
      BY <1>1, <2>1, <3>1
  <2>3. DOMAIN r = 1 .. Len(r)
    BY <1>1
  <2>4. ASSUME NEW i \in 1 .. Len(r), NEW j \in 1 .. Len(r), r[i] = r[j]
        PROVE  i = j
    <3>1. i + 1 \in 1 .. Len(s) /\ j + 1 \in 1 .. Len(s) /\ s[i + 1] = s[j + 1]
      BY <1>1, <2>4
    <3> QED
      BY <2>1, <3>1
  <2> QED
    BY <2>2, <2>3, <2>4 DEF IsInjective
<1> QED
  BY <1>1, <1>2, <1>3, <1>4
=============================================================================
