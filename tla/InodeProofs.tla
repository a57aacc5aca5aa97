---------------------------- MODULE InodeProofs ----------------------------
(***************************************************************************)
(* Proofs about the open inodes of fs/inode.c and the linked list they are *)
(* in, for any inodes, any memory for their copies and any handles.        *)
(***************************************************************************)
EXTENDS Inode, Facts, FiniteSetTheorems, TLAPS

-----------------------------------------------------------------------------
(* A list as a sequence of nodes.                                          *)

\* The i-th node on the way from one end of a list to the other.
Place(from, s, to, i) ==
  IF i = 0 THEN from ELSE IF i = Len(s) + 1 THEN to ELSE s[i]

\* The links lead from one end over the nodes of s to the other, ...
Path(link, from, s, to) ==
  \A i \in 0 .. Len(s) : link[Place(from, s, to, i)] = Place(from, s, to, i + 1)

\* ... and these lead back.
PathBack(link, from, s, to) ==
  \A i \in 0 .. Len(s) : link[Place(from, s, to, i + 1)] = Place(from, s, to, i)

\* The nodes of the list are those of s, in both directions.
IsList(nx, pv, s) ==
  /\ s \in Seq(Nodes) /\ IsInjective(s)
  /\ Path(nx, head, s, tail) /\ PathBack(pv, head, s, tail)

\* A loop along such a path passes the nodes of s.
LEMMA WalkIs ==
  ASSUME NEW link, NEW from, NEW to, NEW s \in Seq(Nodes),
         Cardinality(Links) \in Nat, Len(s) <= Cardinality(Links),
         to \notin Nodes, Path(link, from, s, to)
  PROVE  Walk(link, from, to) = s
<1> DEFINE N == Cardinality(Links)
           Loop(g) == [k \in 0 .. N |->
                         IF k = 0 THEN link[from]
                         ELSE IF g[k - 1] \in {to, NULL} THEN g[k - 1]
                         ELSE link[g[k - 1]]]
           f == [k \in 0 .. N |-> IF k < Len(s) THEN s[k + 1] ELSE to]
           node == CHOOSE g : g = Loop(g)
<1>1. Len(s) \in Nat /\ N \in Nat /\ Len(s) <= N
  OBVIOUS
<1>2. \A k \in 1 .. Len(s) : s[k] \in Nodes /\ s[k] # to /\ s[k] # NULL
  BY ListAssumption
<1>3. link[from] = IF 0 < Len(s) THEN s[1] ELSE to
  <2>1. 0 \in 0 .. Len(s)
    BY <1>1
  <2>2. link[Place(from, s, to, 0)] = Place(from, s, to, 0 + 1)
    BY <2>1 DEF Path
  <2> QED
    BY <1>1, <2>2 DEF Place
<1>4. ASSUME NEW k \in 1 .. Len(s)
      PROVE  link[s[k]] = IF k < Len(s) THEN s[k + 1] ELSE to
  <2>1. k \in 0 .. Len(s) /\ k # 0 /\ k # Len(s) + 1 /\ k + 1 # 0
    BY <1>1
  <2>2. link[Place(from, s, to, k)] = Place(from, s, to, k + 1)
    BY <2>1 DEF Path
  <2> QED
    BY <1>1, <2>1, <2>2 DEF Place
<1>5. ASSUME NEW k \in 1 .. N
      PROVE  f[k] = IF f[k - 1] \in {to, NULL} THEN f[k - 1] ELSE link[f[k - 1]]
  <2>1. k \in 0 .. N /\ k - 1 \in 0 .. N /\ k - 1 + 1 = k /\ k # 0 /\ k \in Nat
    BY <1>1
  <2>2. CASE k <= Len(s)
    <3>1. k \in 1 .. Len(s) /\ k - 1 < Len(s)
      BY <1>1, <2>1, <2>2
    <3>2. f[k - 1] = s[k]
      BY <2>1, <3>1
    <3>3. f[k] = IF k < Len(s) THEN s[k + 1] ELSE to
      BY <2>1
    <3> HIDE DEF f
    <3> QED
      BY <1>2, <1>4, <3>1, <3>2, <3>3
  <2>3. CASE k > Len(s)
    <3>1. ~(k - 1 < Len(s)) /\ ~(k < Len(s))
      BY <1>1, <2>1, <2>3
    <3> QED
      BY <2>1, <3>1
  <2> QED
    BY <1>1, <2>1, <2>2, <2>3
<1>6. f = Loop(f)
  <2>1. f[0] = link[from]
    BY <1>1, <1>3
  <2>2. ASSUME NEW k \in 0 .. N PROVE f[k] = Loop(f)[k]
    <3>1. CASE k = 0
      BY <2>1, <3>1
    <3>2. CASE k # 0
      <4>1. k \in 1 .. N
        BY <1>1, <3>2
      <4> HIDE DEF f
      <4> QED
        BY <1>5, <3>2, <4>1
    <3> QED
      BY <3>1, <3>2
  <2>3. DOMAIN f = 0 .. N /\ f = [k \in 0 .. N |-> f[k]]
    OBVIOUS
  <2>4. Loop(f) = [k \in 0 .. N |-> Loop(f)[k]]
    OBVIOUS
  <2> HIDE DEF f, Loop
  <2> QED
    BY <2>2, <2>3, <2>4
<1>7. node = Loop(node)
  <2> HIDE DEF Loop, f
  <2> QED
    BY <1>6
<1>8. ASSUME NEW k \in 0 .. N PROVE node[k] = f[k]
  <2> DEFINE T == {j \in 0 .. N : node[j] # f[j]}
  <2> HIDE DEF node, f
  <2>1. SUFFICES ASSUME T # {} PROVE FALSE
    OBVIOUS
  <2>2. T \in SUBSET Nat
    BY <1>1
  <2>3. PICK j \in T : \A i \in T : j <= i
    BY <2>1, <2>2, LeastNumber
  <2>4. j \in 0 .. N /\ node[j] # f[j] /\ j \in Nat
    BY <1>1, <2>3
  <2>5. CASE j = 0
    <3>1. node[0] = link[from] /\ f[0] = link[from]
      BY <1>1, <1>6, <1>7
    <3> QED
      BY <2>4, <2>5, <3>1
  <2>6. CASE j # 0
    <3>1. j \in 1 .. N /\ j - 1 \in 0 .. N /\ ~(j <= j - 1)
      BY <1>1, <2>4, <2>6
    <3>2. node[j - 1] = f[j - 1]
      BY <2>3, <3>1
    <3>3. node[j] = IF node[j - 1] \in {to, NULL} THEN node[j - 1]
                    ELSE link[node[j - 1]]
      BY <1>7, <2>4, <2>6
    <3> QED
      BY <1>5, <2>4, <3>1, <3>2, <3>3
  <2> QED
    BY <2>5, <2>6
<1> DEFINE end == {k \in 0 .. N : node[k] = to}
<1>9. \A k \in 0 .. N : node[k] = IF k < Len(s) THEN s[k + 1] ELSE to
  <2>1. \A k \in 0 .. N : f[k] = IF k < Len(s) THEN s[k + 1] ELSE to
    OBVIOUS
  <2> HIDE DEF node, f
  <2> QED
    BY <1>8, <2>1
<1> HIDE DEF node
<1>10. \A k \in 0 .. N : k \in end <=> ~(k < Len(s))
  <2>1. \A k \in 0 .. N : k < Len(s) => k + 1 \in 1 .. Len(s)
    BY <1>1
  <2> QED
    BY <1>2, <1>9, <2>1
<1>11. Len(s) \in end /\ \A k \in end : Len(s) <= k
  BY <1>1, <1>10
<1> DEFINE n == CHOOSE n \in end : \A m \in end : n <= m
<1>12. n = Len(s)
  <2> HIDE DEF end
  <2>1. n \in end /\ \A m \in end : n <= m
    BY <1>11
  <2>2. n \in Nat
    BY <1>1, <2>1 DEF end
  <2>3. n <= Len(s) /\ Len(s) <= n
    BY <1>11, <2>1
  <2> QED
    BY <1>1, <2>2, <2>3
<1>13. Walk(link, from, to) =
         IF end = {} THEN <<NULL>> ELSE [k \in 1 .. n |-> node[k - 1]]
  BY DEF Walk, node
<1>14. [k \in 1 .. Len(s) |-> node[k - 1]] = s
  <2>1. \A k \in 1 .. Len(s) : k - 1 \in 0 .. N /\ k - 1 < Len(s) /\ k - 1 + 1 = k
    BY <1>1
  <2>2. \A k \in 1 .. Len(s) : node[k - 1] = s[k]
    BY <1>9, <2>1
  <2>3. s = [k \in 1 .. Len(s) |-> s[k]]
    OBVIOUS
  <2> QED
    BY <2>2, <2>3
<1> HIDE DEF end, n
<1> QED
  BY <1>11, <1>12, <1>13, <1>14

\* A list has no more nodes than there are.
LEMMA ListLength ==
  ASSUME NEW s \in Seq(Nodes), IsInjective(s)
  PROVE  Cardinality(Links) \in Nat /\ Len(s) <= Cardinality(Links)
<1>1. IsFiniteSet(Links)
  <2>1. IsFiniteSet(Nodes \cup {head})
    BY ListAssumption, FS_AddElement
  <2>2. IsFiniteSet((Nodes \cup {head}) \cup {tail})
    BY <2>1, FS_AddElement
  <2>3. Links = (Nodes \cup {head}) \cup {tail}
    BY DEF Links
  <2> QED
    BY <2>2, <2>3
<1>2. Cardinality(Links) \in Nat
  BY <1>1, FS_CardinalityType
<1>3. s \in Injection(1 .. Len(s), Links)
  <2>1. s \in [1 .. Len(s) -> Links]
    BY DEF Links
  <2>2. \A a, b \in 1 .. Len(s) : s[a] = s[b] => a = b
    BY DEF IsInjective
  <2> QED
    BY <2>1, <2>2 DEF Injection
<1>4. Cardinality(1 .. Len(s)) <= Cardinality(Links)
  BY <1>1, <1>3, FS_Injection
<1>5. PICK n \in Nat : n = Len(s)
  OBVIOUS
<1>6. Cardinality(1 .. n) = n
  <2>1. Cardinality(1 .. n) = IF 1 > n THEN 0 ELSE n - 1 + 1
    BY FS_Interval
  <2> QED
    BY <2>1
<1> QED
  BY <1>2, <1>4, <1>5, <1>6

\* The places of a list are distinct, and links.
LEMMA PlaceFacts ==
  ASSUME NEW s \in Seq(Nodes), IsInjective(s)
  PROVE  /\ \A i \in 0 .. Len(s) + 1 : Place(head, s, tail, i) \in Links
         /\ \A i, j \in 0 .. Len(s) + 1 :
              Place(head, s, tail, i) = Place(head, s, tail, j) => i = j
         /\ Place(head, s, tail, 0) = head /\ Place(head, s, tail, Len(s) + 1) = tail
         /\ \A i \in 1 .. Len(s) : Place(head, s, tail, i) = s[i]
<1> DEFINE P(i) == Place(head, s, tail, i)
<1>1. Len(s) \in Nat
  OBVIOUS
<1>2. P(0) = head /\ P(Len(s) + 1) = tail
  BY <1>1 DEF Place
<1>3. \A i \in 1 .. Len(s) : P(i) = s[i] /\ s[i] \in Nodes
  BY <1>1 DEF Place
<1>4. \A i \in 0 .. Len(s) + 1 : i = 0 \/ i = Len(s) + 1 \/ i \in 1 .. Len(s)
  BY <1>1
<1>5. \A i, j \in 1 .. Len(s) : s[i] = s[j] => i = j
  BY DEF IsInjective
<1>6. head \notin Nodes /\ tail \notin Nodes /\ head # tail
  BY ListAssumption
<1> HIDE DEF P
<1>7. \A i \in 0 .. Len(s) + 1 : P(i) \in Links
  BY <1>2, <1>3, <1>4 DEF Links
<1>8. \A i, j \in 0 .. Len(s) + 1 : P(i) = P(j) => i = j
  BY <1>2, <1>3, <1>4, <1>5, <1>6
<1> QED
  BY <1>2, <1>3, <1>7, <1>8 DEF P

\* What the loops from head and from tail see.
LEMMA ListWalks ==
  ASSUME NEW nx, NEW pv, NEW s, IsList(nx, pv, s)
  PROVE  Walk(nx, head, tail) = s /\ Walk(pv, tail, head) = Reverse(s)
<1>1. /\ s \in Seq(Nodes) /\ IsInjective(s)
      /\ Path(nx, head, s, tail) /\ PathBack(pv, head, s, tail)
  BY DEF IsList
<1>2. Cardinality(Links) \in Nat /\ Len(s) <= Cardinality(Links) /\ Len(s) \in Nat
  BY <1>1, ListLength
<1>3. head \notin Nodes /\ tail \notin Nodes
  BY ListAssumption
<1> DEFINE r == Reverse(s)
           P(i) == Place(head, s, tail, i)
           Q(i) == Place(tail, r, head, i)
<1>4. /\ r = [i \in 1 .. Len(s) |-> s[(Len(s) - i) + 1]]
      /\ \A i \in 1 .. Len(s) : (Len(s) - i) + 1 \in 1 .. Len(s)
  BY <1>1, <1>2 DEF Reverse
<1>5. r \in Seq(Nodes) /\ Len(r) = Len(s)
  <2>1. \A i \in 1 .. Len(s) : s[(Len(s) - i) + 1] \in Nodes
    BY <1>1, <1>4
  <2> QED
    BY <1>2, <1>4, <2>1
<1>6. ASSUME NEW i \in 0 .. Len(s) + 1
      PROVE  Q(i) = P(Len(s) + 1 - i)
  <2>1. CASE i = 0
    BY <1>2, <1>5, <2>1 DEF Place
  <2>2. CASE i = Len(s) + 1
    BY <1>2, <1>5, <2>2 DEF Place
  <2>3. CASE i \in 1 .. Len(s)
    <3>1. /\ i # 0 /\ i # Len(s) + 1 /\ Len(s) + 1 - i # 0
          /\ Len(s) + 1 - i # Len(s) + 1 /\ Len(s) + 1 - i = (Len(s) - i) + 1
      BY <1>2, <2>3
    <3>2. Q(i) = r[i]
      BY <1>5, <3>1 DEF Place
    <3>3. P(Len(s) + 1 - i) = s[(Len(s) - i) + 1]
      BY <3>1 DEF Place
    <3> QED
      BY <1>4, <2>3, <3>2, <3>3
  <2> QED
    BY <1>2, <2>1, <2>2, <2>3
<1>7. ASSUME NEW i \in 0 .. Len(s)
      PROVE  pv[Q(i)] = Q(i + 1)
  <2>1. /\ i \in 0 .. Len(s) + 1 /\ i + 1 \in 0 .. Len(s) + 1
        /\ Len(s) - i \in 0 .. Len(s) /\ Len(s) + 1 - i = (Len(s) - i) + 1
        /\ Len(s) + 1 - (i + 1) = Len(s) - i
    BY <1>2
  <2>2. Q(i) = P((Len(s) - i) + 1) /\ Q(i + 1) = P(Len(s) - i)
    <3> HIDE DEF P, Q
    <3> QED
      BY <1>6, <2>1
  <2>3. pv[P((Len(s) - i) + 1)] = P(Len(s) - i)
    BY <1>1, <2>1 DEF PathBack
  <2> HIDE DEF P, Q
  <2> QED
    BY <2>2, <2>3
<1>8. Path(pv, tail, r, head)
  BY <1>5, <1>7 DEF Path
<1> HIDE DEF r
<1>9. Walk(pv, tail, head) = r
  BY <1>2, <1>3, <1>5, <1>8, WalkIs
<1>10. Walk(nx, head, tail) = s
  BY <1>1, <1>2, <1>3, WalkIs
<1> QED
  BY <1>9, <1>10 DEF r

\* A write to a link that is not on the way changes nothing.
LEMMA SpareLinks ==
  ASSUME NEW nx \in [Links -> Links \cup {NULL}],
         NEW pv \in [Links -> Links \cup {NULL}],
         NEW s, IsList(nx, pv, s), NEW c \in Nodes, c \notin ToSet(s)
  PROVE  IsList([nx EXCEPT ![c] = NULL], [pv EXCEPT ![c] = NULL], s)
<1>1. /\ s \in Seq(Nodes) /\ IsInjective(s)
      /\ Path(nx, head, s, tail) /\ PathBack(pv, head, s, tail)
  BY DEF IsList
<1> DEFINE P(i) == Place(head, s, tail, i)
<1>2. \A i \in 0 .. Len(s) + 1 : P(i) \in Links /\ P(i) # c
  <2>1. \A i \in 1 .. Len(s) : s[i] # c
    BY <1>1, ToSetIff
  <2>2. Len(s) \in Nat /\ head # c /\ tail # c
    BY <1>1, ListAssumption
  <2>3. \A i \in 0 .. Len(s) + 1 : i = 0 \/ i = Len(s) + 1 \/ i \in 1 .. Len(s)
    BY <2>2
  <2>4. /\ \A i \in 0 .. Len(s) + 1 : P(i) \in Links
        /\ P(0) = head /\ P(Len(s) + 1) = tail
        /\ \A i \in 1 .. Len(s) : P(i) = s[i]
    BY <1>1, PlaceFacts
  <2> HIDE DEF P
  <2> QED
    BY <2>1, <2>2, <2>3, <2>4
<1>3. \A i \in 0 .. Len(s) : i \in 0 .. Len(s) + 1 /\ i + 1 \in 0 .. Len(s) + 1
  BY <1>1
<1>4. \A i \in 0 .. Len(s) : nx[P(i)] = P(i + 1) /\ pv[P(i + 1)] = P(i)
  BY <1>1 DEF Path, PathBack
<1>5. \A i \in 0 .. Len(s) : /\ [nx EXCEPT ![c] = NULL][P(i)] = P(i + 1)
                             /\ [pv EXCEPT ![c] = NULL][P(i + 1)] = P(i)
  <2> HIDE DEF P
  <2> QED
    BY <1>2, <1>3, <1>4
<1> QED
  BY <1>1, <1>5 DEF IsList, Path, PathBack

\* list_push_front puts the node in front.
LEMMA PushFront ==
  ASSUME NEW nx \in [Links -> Links \cup {NULL}],
         NEW pv \in [Links -> Links \cup {NULL}],
         NEW s, IsList(nx, pv, s), NEW c \in Nodes, c \notin ToSet(s),
         NEW target, target = nx[head]
  PROVE  IsList([nx EXCEPT ![pv[target]] = c, ![c] = target],
                [pv EXCEPT ![c] = pv[target], ![target] = c], <<c>> \o s)
<1>1. /\ s \in Seq(Nodes) /\ IsInjective(s)
      /\ Path(nx, head, s, tail) /\ PathBack(pv, head, s, tail)
  BY DEF IsList
<1> DEFINE n == Len(s)
           r == <<c>> \o s
           P(i) == Place(head, s, tail, i)
           Q(i) == Place(head, r, tail, i)
           nx2 == [nx EXCEPT ![pv[target]] = c, ![c] = target]
           pv2 == [pv EXCEPT ![c] = pv[target], ![target] = c]
<1>2. n \in Nat
  BY <1>1
<1>3. r \in Seq(Nodes) /\ IsInjective(r)
  BY <1>1, ConsFacts
<1>4. Len(r) = n + 1 /\ r[1] = c /\ \A i \in 1 .. n : r[i + 1] = s[i]
  BY <1>1
<1>5. /\ \A i \in 0 .. n + 1 : P(i) \in Links
      /\ \A i, j \in 0 .. n + 1 : P(i) = P(j) => i = j
      /\ P(0) = head /\ P(n + 1) = tail
      /\ \A i \in 1 .. n : P(i) = s[i]
  BY <1>1, PlaceFacts
<1>6. /\ Q(0) = head /\ Q((n + 1) + 1) = tail
      /\ \A i \in 1 .. n + 1 : Q(i) = r[i]
  BY <1>3, <1>4, PlaceFacts
<1>7. \A i \in 0 .. n : nx[P(i)] = P(i + 1) /\ pv[P(i + 1)] = P(i)
  BY <1>1 DEF Path, PathBack
<1>8. c \in Links /\ c # head /\ c # tail /\ head \in Links
  BY ListAssumption DEF Links
<1> HIDE DEF P, Q, r, n
<1>9. Q(1) = c
  BY <1>2, <1>4, <1>6
<1>10. ASSUME NEW i \in 2 .. n + 2 PROVE Q(i) = P(i - 1) /\ i - 1 \in 1 .. n + 1
  <2>1. CASE i = n + 2
    <3>1. i = (n + 1) + 1 /\ i - 1 = n + 1
      BY <1>2, <2>1
    <3> QED
      BY <1>2, <1>5, <1>6, <3>1
  <2>2. CASE i # n + 2
    <3>1. i \in 1 .. n + 1 /\ i - 1 \in 1 .. n /\ (i - 1) + 1 = i
      BY <1>2, <2>2
    <3>2. r[i] = s[i - 1]
      BY <1>4, <3>1
    <3> QED
      BY <1>2, <1>5, <1>6, <3>1, <3>2
  <2> QED
    BY <2>1, <2>2
<1>11. \A i \in 0 .. n + 1 : P(i) # c
  <2>1. \A i \in 1 .. n : s[i] # c
    BY <1>1, ToSetIff DEF n
  <2>2. \A i \in 0 .. n + 1 : i = 0 \/ i = n + 1 \/ i \in 1 .. n
    BY <1>2
  <2> QED
    BY <1>5, <1>8, <2>1, <2>2
<1>12. 0 \in 0 .. n /\ 1 \in 0 .. n + 1 /\ 0 + 1 = 1
  BY <1>2
<1>13. target = P(1) /\ pv[target] = head /\ target \in Links /\ target # c
  BY <1>5, <1>7, <1>11, <1>12
<1>14. /\ nx2[head] = c /\ nx2[c] = target
       /\ \A x \in Links \ {head, c} : nx2[x] = nx[x]
  BY <1>8, <1>13
<1>15. /\ pv2[c] = head /\ pv2[target] = c
       /\ \A x \in Links \ {target, c} : pv2[x] = pv[x]
  BY <1>8, <1>13
<1> HIDE DEF nx2, pv2
<1>16. ASSUME NEW i \in 0 .. n + 1
       PROVE  nx2[Q(i)] = Q(i + 1) /\ pv2[Q(i + 1)] = Q(i)
  <2>1. CASE i = 0
    BY <1>6, <1>9, <1>14, <1>15, <2>1
  <2>2. CASE i = 1
    <3>1. i + 1 \in 2 .. n + 2 /\ (i + 1) - 1 = 1
      BY <1>2, <2>2
    <3>2. Q(i + 1) = P(1)
      BY <1>10, <3>1
    <3> QED
      BY <1>9, <1>13, <1>14, <1>15, <2>2, <3>2
  <2>3. CASE i \in 2 .. n + 1
    <3>1. /\ i \in 2 .. n + 2 /\ i + 1 \in 2 .. n + 2 /\ (i + 1) - 1 = i
          /\ i - 1 \in 0 .. n /\ (i - 1) + 1 = i
          /\ i - 1 \in 0 .. n + 1 /\ i \in 0 .. n + 1 /\ 0 \in 0 .. n + 1
          /\ 1 \in 0 .. n + 1 /\ i - 1 # 0 /\ i # 1
      BY <1>2, <2>3
    <3>2. Q(i) = P(i - 1) /\ Q(i + 1) = P(i)
      BY <1>10, <3>1
    <3>3. nx[P(i - 1)] = P(i) /\ pv[P(i)] = P(i - 1)
      BY <1>7, <3>1
    <3>4. P(i - 1) \in Links \ {head, c}
      BY <1>5, <1>11, <3>1
    <3>5. P(i) \in Links \ {target, c}
      BY <1>5, <1>11, <1>13, <3>1
    <3> QED
      BY <1>14, <1>15, <3>2, <3>3, <3>4, <3>5
  <2>4. i = 0 \/ i = 1 \/ i \in 2 .. n + 1
    BY <1>2
  <2> QED
    BY <2>1, <2>2, <2>3, <2>4
<1>17. Path(nx2, head, r, tail) /\ PathBack(pv2, head, r, tail)
  BY <1>4, <1>16 DEF Path, PathBack, Q
<1>18. IsList(nx2, pv2, r)
  BY <1>3, <1>17 DEF IsList
<1> QED
  BY <1>18 DEF nx2, pv2, r

\* A list without its k-th node.
Drop(s, k) == [i \in 1 .. Len(s) - 1 |-> IF i < k THEN s[i] ELSE s[i + 1]]

\* What Drop leaves.
LEMMA DropFacts ==
  ASSUME NEW s \in Seq(Nodes), IsInjective(s), NEW k \in 1 .. Len(s)
  PROVE  /\ Drop(s, k) \in Seq(Nodes) /\ Len(Drop(s, k)) = Len(s) - 1
         /\ IsInjective(Drop(s, k))
         /\ ToSet(Drop(s, k)) = ToSet(s) \ {s[k]}
<1> DEFINE n == Len(s)
           r == Drop(s, k)
<1>1. n \in Nat /\ n - 1 \in Nat /\ k \in 1 .. n /\ k \in Nat
  OBVIOUS
<1>2. \A i \in 1 .. n : s[i] \in Nodes
  OBVIOUS
<1>3. \A i, j \in 1 .. n : s[i] = s[j] => i = j
  BY DEF IsInjective
<1> HIDE DEF n
<1>4. r = [i \in 1 .. n - 1 |-> IF i < k THEN s[i] ELSE s[i + 1]]
  BY DEF Drop, n
<1>5. \A i \in 1 .. n - 1 : i \in 1 .. n /\ i + 1 \in 1 .. n /\ i \in Nat
  BY <1>1
<1>6. r \in Seq(Nodes) /\ Len(r) = n - 1
  <2>1. \A i \in 1 .. n - 1 : (IF i < k THEN s[i] ELSE s[i + 1]) \in Nodes
    BY <1>2, <1>5
  <2> QED
    BY <1>1, <1>4, <2>1
<1>7. \A i \in 1 .. n - 1 : r[i] = IF i < k THEN s[i] ELSE s[i + 1]
  BY <1>4
<1> HIDE DEF r
<1>8. ASSUME NEW i \in 1 .. n - 1, NEW j \in 1 .. n - 1, r[i] = r[j] PROVE i = j
  <2>1. /\ i \in 1 .. n /\ i + 1 \in 1 .. n /\ i \in Nat
        /\ j \in 1 .. n /\ j + 1 \in 1 .. n /\ j \in Nat
    BY <1>5
  <2>2. PICK a \in 1 .. n : a = (IF i < k THEN i ELSE i + 1) /\ r[i] = s[a]
    BY <1>7, <2>1
  <2>3. PICK b \in 1 .. n : b = (IF j < k THEN j ELSE j + 1) /\ r[j] = s[b]
    BY <1>7, <2>1
  <2>4. a = b
    BY <1>3, <1>8, <2>2, <2>3
  <2> QED
    BY <1>1, <2>1, <2>2, <2>3, <2>4
<1>9. IsInjective(r)
  BY <1>6, <1>8 DEF IsInjective
<1>10. ASSUME NEW x \in ToSet(r) PROVE x \in ToSet(s) /\ x # s[k]
  <2>1. PICK i \in 1 .. n - 1 : r[i] = x
    BY <1>6, ToSetIff
  <2>2. PICK a \in 1 .. n : a = (IF i < k THEN i ELSE i + 1) /\ x = s[a]
    BY <1>5, <1>7, <2>1
  <2>3. a # k
    BY <1>1, <1>5, <2>2
  <2>4. x # s[k]
    BY <1>1, <1>3, <2>2, <2>3
  <2> QED
    BY <2>2, <2>4, ToSetIff DEF n
<1>11. ASSUME NEW x \in ToSet(s), x # s[k] PROVE x \in ToSet(r)
  <2>1. PICK a \in 1 .. n : s[a] = x
    BY ToSetIff DEF n
  <2>2. a # k /\ a \in Nat
    BY <1>1, <1>11, <2>1
  <2>3. CASE a < k
    <3>1. a \in 1 .. n - 1
      BY <1>1, <2>2, <2>3
    <3>2. r[a] = x
      BY <1>7, <2>1, <2>3, <3>1
    <3> QED
      BY <1>6, <3>1, <3>2, ToSetIff
  <2>4. CASE k < a
    <3>1. a - 1 \in 1 .. n - 1 /\ ~(a - 1 < k) /\ (a - 1) + 1 = a
      BY <1>1, <2>2, <2>4
    <3>2. r[a - 1] = x
      BY <1>7, <2>1, <3>1
    <3> QED
      BY <1>6, <3>1, <3>2, ToSetIff
  <2> QED
    BY <1>1, <2>2, <2>3, <2>4
<1>12. ToSet(r) = ToSet(s) \ {s[k]}
  BY <1>10, <1>11
<1> QED
  BY <1>6, <1>9, <1>12 DEF r, n

\* list_remove takes the node out.
LEMMA TakeOut ==
  ASSUME NEW nx \in [Links -> Links \cup {NULL}],
         NEW pv \in [Links -> Links \cup {NULL}],
         NEW s, IsList(nx, pv, s), NEW k \in 1 .. Len(s), NEW c, c = s[k]
  PROVE  IsList([nx EXCEPT ![pv[c]] = nx[c]], [pv EXCEPT ![nx[c]] = pv[c]],
                Drop(s, k))
<1>1. /\ s \in Seq(Nodes) /\ IsInjective(s)
      /\ Path(nx, head, s, tail) /\ PathBack(pv, head, s, tail)
  BY DEF IsList
<1> DEFINE n == Len(s)
           r == Drop(s, k)
           P(i) == Place(head, s, tail, i)
           Q(i) == Place(head, r, tail, i)
           nx2 == [nx EXCEPT ![pv[c]] = nx[c]]
           pv2 == [pv EXCEPT ![nx[c]] = pv[c]]
<1>2. n \in Nat /\ k \in 1 .. n /\ k \in Nat
  BY <1>1
<1>3. r \in Seq(Nodes) /\ IsInjective(r) /\ Len(r) = n - 1
  BY <1>1, DropFacts
<1>4. \A i \in 1 .. n - 1 : r[i] = IF i < k THEN s[i] ELSE s[i + 1]
  BY DEF Drop
<1>5. /\ \A i \in 0 .. n + 1 : P(i) \in Links
      /\ \A i, j \in 0 .. n + 1 : P(i) = P(j) => i = j
      /\ P(0) = head /\ P(n + 1) = tail
      /\ \A i \in 1 .. n : P(i) = s[i]
  BY <1>1, PlaceFacts
<1>6. /\ Q(0) = head /\ Q((n - 1) + 1) = tail
      /\ \A i \in 1 .. n - 1 : Q(i) = r[i]
  BY <1>3, PlaceFacts
<1>7. \A i \in 0 .. n : nx[P(i)] = P(i + 1) /\ pv[P(i + 1)] = P(i)
  BY <1>1 DEF Path, PathBack
<1> HIDE DEF P, Q, r, n
<1>8. ASSUME NEW i \in 0 .. n
      PROVE  Q(i) = IF i < k THEN P(i) ELSE P(i + 1)
  <2>1. CASE i = 0
    BY <1>2, <1>5, <1>6, <2>1
  <2>2. CASE i = n
    <3>1. ~(i < k) /\ i = (n - 1) + 1
      BY <1>2, <2>2
    <3> QED
      BY <1>5, <1>6, <2>2, <3>1
  <2>3. CASE i \in 1 .. n - 1
    <3>1. i \in 1 .. n /\ i + 1 \in 1 .. n
      BY <1>2, <2>3
    <3> QED
      BY <1>4, <1>5, <1>6, <2>3, <3>1
  <2>4. i = 0 \/ i = n \/ i \in 1 .. n - 1
    BY <1>2
  <2> QED
    BY <2>1, <2>2, <2>3, <2>4
<1>9. /\ k - 1 \in 0 .. n /\ k \in 0 .. n /\ (k - 1) + 1 = k
      /\ k - 1 \in 0 .. n + 1 /\ k + 1 \in 0 .. n + 1
  BY <1>2
<1>10. c = P(k) /\ nx[c] = P(k + 1) /\ pv[c] = P(k - 1)
  <2>1. c = P(k)
    BY <1>2, <1>5
  <2>2. nx[P(k)] = P(k + 1)
    BY <1>7, <1>9
  <2>3. pv[P((k - 1) + 1)] = P(k - 1)
    BY <1>7, <1>9
  <2> QED
    BY <1>9, <2>1, <2>2, <2>3
<1>11. /\ nx2[P(k - 1)] = P(k + 1)
       /\ \A x \in Links \ {P(k - 1)} : nx2[x] = nx[x]
  BY <1>5, <1>9, <1>10
<1>12. /\ pv2[P(k + 1)] = P(k - 1)
       /\ \A x \in Links \ {P(k + 1)} : pv2[x] = pv[x]
  BY <1>5, <1>9, <1>10
<1> HIDE DEF nx2, pv2
<1>13. ASSUME NEW i \in 0 .. n - 1
       PROVE  nx2[Q(i)] = Q(i + 1) /\ pv2[Q(i + 1)] = Q(i)
  <2>0. /\ i \in 0 .. n /\ i + 1 \in 0 .. n /\ (i + 1) + 1 \in 0 .. n + 1
        /\ i \in 0 .. n + 1 /\ i + 1 \in 0 .. n + 1 /\ i \in Nat
    BY <1>2
  <2>1. CASE i = k - 1
    <3>1. i < k /\ ~(i + 1 < k) /\ (i + 1) + 1 = k + 1
      BY <1>2, <2>1
    <3>2. Q(i) = P(k - 1) /\ Q(i + 1) = P(k + 1)
      BY <1>8, <2>0, <2>1, <3>1
    <3> QED
      BY <1>11, <1>12, <3>2
  <2>2. CASE i < k - 1
    <3>1. i < k /\ i + 1 < k /\ i # k - 1 /\ i + 1 # k + 1
      BY <1>2, <2>0, <2>2
    <3>2. Q(i) = P(i) /\ Q(i + 1) = P(i + 1)
      BY <1>8, <2>0, <3>1
    <3>3. P(i) \in Links \ {P(k - 1)} /\ P(i + 1) \in Links \ {P(k + 1)}
      BY <1>5, <1>9, <2>0, <3>1
    <3> QED
      BY <1>7, <1>11, <1>12, <2>0, <3>2, <3>3
  <2>3. CASE i >= k
    <3>1. ~(i < k) /\ ~(i + 1 < k) /\ i + 1 # k - 1 /\ (i + 1) + 1 # k + 1
      BY <1>2, <2>0, <2>3
    <3>2. Q(i) = P(i + 1) /\ Q(i + 1) = P((i + 1) + 1)
      BY <1>8, <2>0, <3>1
    <3>3. P(i + 1) \in Links \ {P(k - 1)} /\ P((i + 1) + 1) \in Links \ {P(k + 1)}
      BY <1>5, <1>9, <2>0, <3>1
    <3> QED
      BY <1>7, <1>11, <1>12, <2>0, <3>2, <3>3
  <2> QED
    BY <1>2, <2>0, <2>1, <2>2, <2>3
<1>14. Path(nx2, head, r, tail) /\ PathBack(pv2, head, r, tail)
  BY <1>3, <1>13 DEF Path, PathBack, Q
<1>15. IsList(nx2, pv2, r)
  BY <1>3, <1>14 DEF IsList
<1> QED
  BY <1>15 DEF nx2, pv2, r

-----------------------------------------------------------------------------
(* The inductive invariant.                                                *)

\* At this commit only boot uses the file system.  With a second thread, both
\* would look in the list before either had read the inode.
OneThread == \A t, u \in Threads : t = u

\* The copies in the list.
Open == ToSet(open_inodes)

TypeInv ==
  /\ next \in [Links -> Links \cup {NULL}]
  /\ prev \in [Links -> Links \cup {NULL}]
  /\ no \in [Copies -> Nos] /\ open_cnt \in [Copies -> Int]
  /\ allocated \subseteq Copies
  /\ inode \in [Dirs \cup {Root} -> Copies \cup {NULL}]
  /\ pc \in [Threads -> {"idle", "hit", "read", "push", "count"}]
  /\ arg \in [Threads -> Nos]
  /\ res \in [Threads -> Copies \cup {NULL}]

ListInv == IsList(next, prev, open_inodes)

\* No copy in the list has the number n.
Fresh(n) == \A c \in Open : no[c] # n

\* One copy of an inode; handles are on copies in the list; and all memory
\* is in the list but what inode_open has yet to put there.
CopyInv ==
  /\ \A c, e \in Open : no[c] = no[e] => c = e
  /\ \A c : c \in allocated <=> \/ c \in Open
                                \/ \E t \in Threads : pc[t] = "push" /\ res[t] = c
  /\ \A d \in Dirs \cup {Root} : inode[d] # NULL => inode[d] \in Open

\* What inode_open knows at each of its points.
CallerInv ==
  \A t \in Threads :
    /\ pc[t] \in {"hit", "count"} => res[t] \in Open
    /\ pc[t] \in {"read", "push"} => Fresh(arg[t])
    /\ pc[t] = "push" => /\ res[t] \in Copies /\ res[t] \notin Open
                         /\ no[res[t]] = arg[t]
    /\ pc[t] = "count" => Users(res[t]) = {}

\* A copy is counted right unless its count is about to be set.
Counting(c) == \E t \in Threads : pc[t] = "count" /\ res[t] = c
CountOK(c) == /\ IsFiniteSet(Users(c)) /\ Users(c) # {}
              /\ open_cnt[c] = Cardinality(Users(c))
CountInv == \A c \in Open : ~Counting(c) => CountOK(c)

Inv == TypeInv /\ ListInv /\ CopyInv /\ CallerInv /\ CountInv

\* The list after a step.
LEMMA NewList ==
  ASSUME NEW s, IsList(next', prev', s)
  PROVE  ListInv' /\ Open' = ToSet(s)
<1>1. Walk(next', head, tail) = s
  BY ListWalks
<1>2. open_inodes' = s
  BY <1>1 DEF open_inodes, list_traversal
<1> QED
  BY <1>2 DEF ListInv, Open

\* The list after a step that does not touch it.
LEMMA SameList ==
  ASSUME Inv, UNCHANGED listVars
  PROVE  ListInv' /\ Open' = Open
<1>1. IsList(next', prev', open_inodes)
  BY DEF Inv, ListInv, listVars
<1> QED
  BY <1>1, NewList DEF Open

\* The nodes of the list are copies.
LEMMA OpenCopies ==
  ASSUME Inv
  PROVE  /\ open_inodes \in Seq(Nodes) /\ Open \subseteq Copies
         /\ Open \subseteq allocated /\ NULL \notin Copies
<1>1. open_inodes \in Seq(Nodes)
  BY DEF Inv, ListInv, IsList
<1>2. \A c \in Open : c \in Nodes
  BY <1>1, ToSetIff DEF Open
<1>3. Open \subseteq allocated
  BY DEF Inv, CopyInv
<1> QED
  BY <1>1, <1>2, <1>3, ListAssumption DEF Copies

\* The first state.
LEMMA InitInv == Init => Inv
<1> SUFFICES ASSUME Init PROVE Inv
  OBVIOUS
<1>1. /\ next = [x \in Links |-> IF x = head THEN tail ELSE NULL]
      /\ prev = [x \in Links |-> IF x = tail THEN head ELSE NULL]
      /\ no = [c \in Copies |-> RootNo] /\ open_cnt = [c \in Copies |-> 0]
      /\ allocated = {} /\ inode = [d \in Dirs \cup {Root} |-> NULL]
      /\ pc = [t \in Threads |-> "idle"] /\ arg = [t \in Threads |-> RootNo]
      /\ res = [t \in Threads |-> NULL]
  BY DEF Init, list_init
<1>2. TypeInv
  <2>1. next \in [Links -> Links \cup {NULL}] /\ prev \in [Links -> Links \cup {NULL}]
    BY <1>1 DEF Links
  <2> QED
    BY <1>1, <2>1, InodeAssumption DEF TypeInv
<1>3. IsList(next, prev, << >>)
  <2>1. << >> \in Seq(Nodes) /\ Len(<< >>) = 0
    OBVIOUS
  <2>2. IsInjective(<< >>)
    BY DEF IsInjective
  <2>3. next[head] = tail /\ prev[tail] = head
    BY <1>1 DEF Links
  <2>4. Path(next, head, << >>, tail) /\ PathBack(prev, head, << >>, tail)
    BY <2>1, <2>3 DEF Path, PathBack, Place
  <2> QED
    BY <2>1, <2>2, <2>4 DEF IsList
<1>4. open_inodes = << >>
  BY <1>3, ListWalks DEF open_inodes, list_traversal
<1>5. Open = {}
  BY <1>4 DEF Open, ToSet
<1>6. ListInv
  BY <1>3, <1>4 DEF ListInv
<1>7. CopyInv /\ CallerInv /\ CountInv
  BY <1>1, <1>5 DEF CopyInv, CallerInv, CountInv
<1> QED
  BY <1>2, <1>6, <1>7 DEF Inv

-----------------------------------------------------------------------------
(* The steps of inode_open.                                                *)

\* The search of the list.
LEMMA FindFacts ==
  ASSUME Inv, NEW n
  PROVE  \/ find_in_list(n) = NULL /\ Fresh(n)
         \/ find_in_list(n) \in Open /\ find_in_list(n) # NULL
<1> DEFINE s == open_inodes
           found == {k \in DOMAIN s : no[s[k]] = n}
<1>1. s \in Seq(Nodes) /\ DOMAIN s = 1 .. Len(s) /\ Len(s) \in Nat
  BY OpenCopies
<1>2. \A k \in 1 .. Len(s) : s[k] \in Open
  BY <1>1, ToSetIff DEF Open
<1>3. CASE found = {}
  <2>1. find_in_list(n) = NULL
    BY <1>3 DEF find_in_list
  <2>2. ASSUME NEW c \in Open PROVE no[c] # n
    <3>1. PICK k \in 1 .. Len(s) : s[k] = c
      BY <1>1, ToSetIff DEF Open
    <3> QED
      BY <1>1, <1>3, <3>1
  <2> QED
    BY <2>1, <2>2 DEF Fresh
<1>4. CASE found # {}
  <2> DEFINE k == CHOOSE k \in found : \A j \in found : k <= j
  <2>1. found \in SUBSET Nat
    BY <1>1
  <2>2. \E i \in found : \A j \in found : i <= j
    <3> HIDE DEF found
    <3> QED
      BY <1>4, <2>1, LeastNumber
  <2>3. k \in found
    BY <2>2
  <2>4. find_in_list(n) = s[k]
    BY <1>4 DEF find_in_list
  <2>5. k \in 1 .. Len(s)
    BY <1>1, <2>3
  <2> HIDE DEF k, s
  <2>6. s[k] \in Open
    BY <1>2, <2>5
  <2> QED
    BY <2>4, <2>6, OpenCopies
<1> QED
  BY <1>3, <1>4

\* inode_open looks in the list.
LEMMA LookInv ==
  ASSUME OneThread, Inv, NEW t \in Threads, NEW n \in Nos, pc[t] = "idle",
         inode_open(t, n)
  PROVE  Inv'
<1> DEFINE c == find_in_list(n)
<1>1. TypeInv /\ CopyInv /\ CountInv
  BY DEF Inv
<1>2. /\ arg' = [arg EXCEPT ![t] = n] /\ res' = [res EXCEPT ![t] = c]
      /\ pc' = [pc EXCEPT ![t] = IF c = NULL THEN "read" ELSE "hit"]
      /\ UNCHANGED <<listVars, no, open_cnt, allocated, inode>>
  BY DEF inode_open
<1>3. (c = NULL /\ Fresh(n)) \/ (c \in Open /\ c # NULL)
  BY FindFacts
<1>4. ListInv' /\ Open' = Open
  BY <1>2, SameList
<1> HIDE DEF c
<1>5. \A u \in Threads : u = t
  BY DEF OneThread
<1>6. TypeInv'
  BY <1>1, <1>2, <1>3, OpenCopies DEF TypeInv, listVars
<1>7. pc'[t] = (IF c = NULL THEN "read" ELSE "hit") /\ res'[t] = c /\ arg'[t] = n
  BY <1>1, <1>2 DEF TypeInv
<1>8. Fresh(n)' <=> Fresh(n)
  BY <1>2, <1>4 DEF Fresh
<1>9. CallerInv'
  <2>1. pc'[t] = "read" => Fresh(arg[t])'
    BY <1>3, <1>7, <1>8, OpenCopies DEF Fresh
  <2>2. pc'[t] = "hit" => res'[t] \in Open'
    BY <1>3, <1>4, <1>7
  <2>3. pc'[t] \in {"read", "hit"}
    BY <1>7
  <2> QED
    BY <1>5, <2>1, <2>2, <2>3 DEF CallerInv
<1>10. CopyInv'
  BY <1>1, <1>2, <1>4, <1>5, <1>7 DEF CopyInv
<1>11. CountInv'
  BY <1>1, <1>2, <1>4, <1>5, <1>7 DEF CountInv, CountOK, Counting, Users
<1> QED
  BY <1>4, <1>6, <1>9, <1>10, <1>11 DEF Inv

\* A handle is put on copy c, or taken from it: the users before and after.
LEMMA UserStep ==
  ASSUME TypeInv, NEW d \in Dirs \cup {Root}, NEW c \in Copies
  PROVE  /\ inode[d] = NULL /\ inode' = [inode EXCEPT ![d] = c] =>
              /\ Users(c)' = Users(c) \cup {d} /\ d \notin Users(c)
              /\ \A e \in Copies : e # c => Users(e)' = Users(e)
              /\ inode' \in [Dirs \cup {Root} -> Copies \cup {NULL}]
         /\ inode[d] = c /\ inode' = [inode EXCEPT ![d] = NULL] =>
              /\ Users(c)' = Users(c) \ {d} /\ d \in Users(c)
              /\ \A e \in Copies : e # c => Users(e)' = Users(e)
              /\ inode' \in [Dirs \cup {Root} -> Copies \cup {NULL}]
<1>1. inode \in [Dirs \cup {Root} -> Copies \cup {NULL}] /\ NULL \notin Copies
  BY ListAssumption DEF TypeInv, Copies
<1>2. CASE inode[d] = NULL /\ inode' = [inode EXCEPT ![d] = c]
  <2>1. /\ DOMAIN inode' = DOMAIN inode /\ inode'[d] = c
        /\ \A x \in Dirs \cup {Root} : x # d => inode'[x] = inode[x]
        /\ inode' \in [Dirs \cup {Root} -> Copies \cup {NULL}]
    BY <1>1, <1>2
  <2>2. Users(c)' = Users(c) \cup {d}
    BY <1>1, <2>1 DEF Users
  <2>3. d \notin Users(c)
    BY <1>1, <1>2 DEF Users
  <2>4. \A e \in Copies : e # c => Users(e)' = Users(e)
    BY <1>1, <1>2, <2>1 DEF Users
  <2> QED
    BY <1>1, <1>2, <2>1, <2>2, <2>3, <2>4
<1>3. CASE inode[d] = c /\ inode' = [inode EXCEPT ![d] = NULL]
  <2>1. /\ DOMAIN inode' = DOMAIN inode /\ inode'[d] = NULL
        /\ \A x \in Dirs \cup {Root} : x # d => inode'[x] = inode[x]
        /\ inode' \in [Dirs \cup {Root} -> Copies \cup {NULL}]
    BY <1>1, <1>3
  <2>2. Users(c)' = Users(c) \ {d}
    BY <1>1, <2>1 DEF Users
  <2>3. d \in Users(c)
    BY <1>1, <1>3 DEF Users
  <2>4. \A e \in Copies : e # c => Users(e)' = Users(e)
    BY <1>1, <1>3, <2>1 DEF Users
  <2> QED
    BY <1>1, <1>3, <2>1, <2>2, <2>3, <2>4
<1> QED
  BY <1>2, <1>3

\* inode_open returns copy c, with a count that is one more than its users.
LEMMA HandleInv ==
  ASSUME OneThread, Inv, NEW t \in Threads, NEW c \in Open, res[t] = c,
         pc[t] \in {"hit", "count"}, Handle(t, c), NEW k,
         IsFiniteSet(Users(c)), k = Cardinality(Users(c)) + 1,
         open_cnt' = [open_cnt EXCEPT ![c] = k],
         UNCHANGED <<listVars, no, allocated, arg>>
  PROVE  Inv'
<1>1. TypeInv /\ CopyInv /\ CountInv
  BY DEF Inv
<1>2. c \in Copies /\ NULL \notin Copies /\ Open \subseteq Copies
  BY OpenCopies
<1>3. PICK d \in Dirs \cup {Root} :
        inode[d] = NULL /\ inode' = [inode EXCEPT ![d] = c]
  BY DEF Handle
<1>4. /\ res' = [res EXCEPT ![t] = NULL] /\ pc' = [pc EXCEPT ![t] = "idle"]
  BY DEF Handle
<1>5. /\ Users(c)' = Users(c) \cup {d} /\ d \notin Users(c)
      /\ \A e \in Copies : e # c => Users(e)' = Users(e)
      /\ inode' \in [Dirs \cup {Root} -> Copies \cup {NULL}]
  BY <1>1, <1>2, <1>3, UserStep
<1>6. ListInv' /\ Open' = Open
  BY SameList
<1>7. \A u \in Threads : u = t
  BY DEF OneThread
<1>8. pc'[t] = "idle"
  BY <1>1, <1>4 DEF TypeInv
<1>9. /\ IsFiniteSet(Users(c) \cup {d})
      /\ Cardinality(Users(c) \cup {d}) = Cardinality(Users(c)) + 1
  BY <1>5, FS_AddElement
<1>10. k \in Int
  <2>1. Cardinality(Users(c)) \in Nat
    BY FS_CardinalityType
  <2> QED
    BY <2>1
<1>11. TypeInv'
  BY <1>1, <1>2, <1>4, <1>5, <1>10 DEF TypeInv, listVars
<1>12. CallerInv'
  BY <1>7, <1>8 DEF CallerInv
<1>13. CopyInv'
  <2>1. \A c1, e1 \in Open' : no'[c1] = no'[e1] => c1 = e1
    BY <1>1, <1>6 DEF CopyInv
  <2>2. \A e : e \in allocated' <=>
                 \/ e \in Open'
                 \/ \E u \in Threads : pc'[u] = "push" /\ res'[u] = e
    BY <1>1, <1>6, <1>7, <1>8 DEF CopyInv
  <2>3. \A x \in Dirs \cup {Root} : inode'[x] # NULL => inode'[x] \in Open'
    BY <1>1, <1>3, <1>6 DEF CopyInv, TypeInv
  <2> QED
    BY <2>1, <2>2, <2>3 DEF CopyInv
<1>14. CountInv'
  <2>1. CountOK(c)'
    <3>1. open_cnt'[c] = k
      BY <1>1, <1>2 DEF TypeInv
    <3> QED
      BY <1>5, <1>9, <3>1 DEF CountOK
  <2>2. ASSUME NEW e \in Open, e # c PROVE CountOK(e)'
    <3>1. ~Counting(e)
      BY <1>7, <2>2 DEF Counting
    <3>2. CountOK(e)
      BY <1>1, <3>1 DEF CountInv
    <3>3. open_cnt'[e] = open_cnt[e] /\ Users(e)' = Users(e)
      BY <1>1, <1>2, <1>5, <2>2 DEF TypeInv
    <3> QED
      BY <3>2, <3>3 DEF CountOK
  <2> QED
    BY <1>6, <2>1, <2>2 DEF CountInv
<1> QED
  BY <1>6, <1>11, <1>12, <1>13, <1>14 DEF Inv

\* The inode is open already.
LEMMA HitInv ==
  ASSUME OneThread, Inv, NEW t \in Threads, inode_hit(t)
  PROVE  Inv'
<1> DEFINE c == res[t]
<1>1. /\ pc[t] = "hit" /\ Handle(t, c)
      /\ open_cnt' = [open_cnt EXCEPT ![c] = @ + 1]
      /\ UNCHANGED <<listVars, no, allocated, arg>>
  BY DEF inode_hit
<1>2. c \in Open
  BY <1>1 DEF Inv, CallerInv
<1>3. ~Counting(c)
  BY <1>1 DEF Counting, OneThread
<1>4. CountOK(c)
  BY <1>2, <1>3 DEF Inv, CountInv
<1>5. IsFiniteSet(Users(c)) /\ open_cnt[c] = Cardinality(Users(c))
  BY <1>4 DEF CountOK
<1>6. open_cnt' = [open_cnt EXCEPT ![c] = Cardinality(Users(c)) + 1]
  BY <1>1, <1>5
<1> QED
  BY <1>1, <1>2, <1>5, <1>6, HandleInv

\* The count of a new copy.
LEMMA CountedInv ==
  ASSUME OneThread, Inv, NEW t \in Threads, inode_count(t)
  PROVE  Inv'
<1> DEFINE c == res[t]
<1>1. /\ pc[t] = "count" /\ Handle(t, c)
      /\ open_cnt' = [open_cnt EXCEPT ![c] = 1]
      /\ UNCHANGED <<listVars, no, allocated, arg>>
  BY DEF inode_count
<1>2. c \in Open /\ Users(c) = {}
  BY <1>1 DEF Inv, CallerInv
<1>3. IsFiniteSet(Users(c)) /\ 1 = Cardinality(Users(c)) + 1
  BY <1>2, FS_EmptySet
<1> QED
  BY <1>1, <1>2, <1>3, HandleInv

\* A new copy is read from the disk.
LEMMA ReadInv ==
  ASSUME OneThread, Inv, NEW t \in Threads, inode_read(t)
  PROVE  Inv'
<1>1. TypeInv /\ ListInv /\ CopyInv /\ CountInv /\ pc[t] = "read"
  BY DEF Inv, inode_read
<1>2. PICK c \in Copies \ allocated :
        /\ allocated' = allocated \cup {c}
        /\ no' = [no EXCEPT ![c] = arg[t]]
        /\ open_cnt' = [open_cnt EXCEPT ![c] = 0]
        /\ next' = [next EXCEPT ![c] = NULL]
        /\ prev' = [prev EXCEPT ![c] = NULL]
        /\ res' = [res EXCEPT ![t] = c]
  BY DEF inode_read
<1>3. pc' = [pc EXCEPT ![t] = "push"] /\ UNCHANGED <<inode, arg>>
  BY DEF inode_read
<1>4. c \in Nodes /\ c \notin Open /\ Open \subseteq Copies
  BY <1>2, OpenCopies DEF Copies
<1>5. ListInv' /\ Open' = Open
  <2>1. IsList(next', prev', open_inodes)
    BY <1>1, <1>2, <1>4, SpareLinks DEF TypeInv, ListInv, Open
  <2> QED
    BY <2>1, NewList DEF Open
<1>6. \A u \in Threads : u = t
  BY DEF OneThread
<1>7. pc'[t] = "push" /\ res'[t] = c /\ arg'[t] = arg[t] /\ no'[c] = arg[t]
  BY <1>1, <1>2, <1>3 DEF TypeInv
<1>8. \A e \in Open : no'[e] = no[e] /\ open_cnt'[e] = open_cnt[e]
  BY <1>1, <1>2, <1>4 DEF TypeInv
<1>9. TypeInv'
  <2>1. arg[t] \in Nos /\ c \in Copies
    BY <1>1, <1>2 DEF TypeInv
  <2>2. /\ next' \in [Links -> Links \cup {NULL}]
        /\ prev' \in [Links -> Links \cup {NULL}]
    BY <1>1, <1>2 DEF TypeInv
  <2>3. no' \in [Copies -> Nos] /\ open_cnt' \in [Copies -> Int]
    BY <1>1, <1>2, <2>1 DEF TypeInv
  <2>4. /\ res' \in [Threads -> Copies \cup {NULL}] /\ allocated' \subseteq Copies
        /\ pc' \in [Threads -> {"idle", "hit", "read", "push", "count"}]
    BY <1>1, <1>2, <1>3, <2>1 DEF TypeInv
  <2> QED
    BY <1>1, <1>3, <2>2, <2>3, <2>4 DEF TypeInv
<1>10. Fresh(arg[t])
  BY <1>1 DEF Inv, CallerInv
<1>11. CallerInv'
  <2>1. Fresh(arg[t])'
    BY <1>5, <1>7, <1>8, <1>10 DEF Fresh
  <2> QED
    BY <1>2, <1>4, <1>5, <1>6, <1>7, <2>1 DEF CallerInv
<1>12. CopyInv'
  <2>1. \A a, e \in Open' : no'[a] = no'[e] => a = e
    BY <1>1, <1>5, <1>8 DEF CopyInv
  <2>2. \A e : e \in allocated' <=>
                 \/ e \in Open'
                 \/ \E u \in Threads : pc'[u] = "push" /\ res'[u] = e
    BY <1>1, <1>2, <1>5, <1>6, <1>7 DEF CopyInv
  <2> QED
    BY <1>1, <1>3, <1>5, <2>1, <2>2 DEF CopyInv
<1>13. CountInv'
  <2>1. ASSUME NEW e \in Open PROVE CountOK(e)'
    <3>1. ~Counting(e)
      BY <1>1, <1>6 DEF Counting
    <3>2. CountOK(e)
      BY <1>1, <3>1 DEF CountInv
    <3>3. Users(e)' = Users(e)
      BY <1>3 DEF Users
    <3> QED
      BY <1>8, <3>2, <3>3 DEF CountOK
  <2> QED
    BY <1>5, <2>1 DEF CountInv
<1> QED
  BY <1>5, <1>9, <1>11, <1>12, <1>13 DEF Inv

\* The new copy goes to the front of the list.
LEMMA PushInv ==
  ASSUME OneThread, Inv, NEW t \in Threads, inode_push(t)
  PROVE  Inv'
<1> DEFINE s == open_inodes
           target == next[head]
<1>0. PICK c : c = res[t]
  OBVIOUS
<1>1. TypeInv /\ ListInv /\ CopyInv /\ CountInv /\ pc[t] = "push"
  BY DEF Inv, inode_push
<1>2. /\ next' = [next EXCEPT ![prev[target]] = c, ![c] = target]
      /\ prev' = [prev EXCEPT ![c] = prev[target], ![target] = c]
  BY <1>0 DEF inode_push, list_push_front, list_insert_before
<1>3. /\ pc' = [pc EXCEPT ![t] = "count"]
      /\ UNCHANGED <<no, open_cnt, allocated, inode, arg, res>>
  BY DEF inode_push
<1>4. c \in Copies /\ c \notin Open /\ no[c] = arg[t] /\ Fresh(arg[t])
  BY <1>0, <1>1 DEF Inv, CallerInv
<1>5. IsList(next', prev', <<c>> \o s)
  <2>1. c \in Nodes /\ c \notin ToSet(s)
    BY <1>4 DEF Copies, Open
  <2> QED
    BY <1>1, <1>2, <2>1, PushFront DEF TypeInv, ListInv
<1>6. s \in Seq(Nodes) /\ IsInjective(s)
  BY <1>1 DEF ListInv, IsList
<1>7. ListInv' /\ Open' = Open \cup {c}
  <2>1. ToSet(<<c>> \o s) = ToSet(s) \cup {c}
    BY <1>4, <1>6, ConsFacts DEF Copies
  <2> QED
    BY <1>5, <2>1, NewList DEF Open
<1>8. next' \in [Links -> Links \cup {NULL}] /\ prev' \in [Links -> Links \cup {NULL}]
  <2>1. target \in Links
    <3>1. 0 \in 0 .. Len(s) /\ 0 + 1 \in 0 .. Len(s) + 1
      BY <1>6
    <3>2. next[Place(head, s, tail, 0)] = Place(head, s, tail, 0 + 1)
      BY <1>1, <3>1 DEF ListInv, IsList, Path
    <3>3. Place(head, s, tail, 0) = head /\ Place(head, s, tail, 0 + 1) \in Links
      BY <1>6, <3>1, PlaceFacts
    <3> QED
      BY <3>2, <3>3
  <2>2. prev[target] \in Links \cup {NULL} /\ c \in Links
    BY <1>1, <1>4, <2>1 DEF TypeInv, Links, Copies
  <2> HIDE DEF target
  <2> QED
    BY <1>1, <1>2, <2>1, <2>2 DEF TypeInv
<1>9. \A u \in Threads : u = t
  BY DEF OneThread
<1>10. pc'[t] = "count" /\ res'[t] = c
  BY <1>0, <1>1, <1>3 DEF TypeInv
<1>11. \A e : Users(e)' = Users(e)
  BY <1>3 DEF Users
<1>12. TypeInv'
  <2>1. pc' \in [Threads -> {"idle", "hit", "read", "push", "count"}]
    BY <1>1, <1>3 DEF TypeInv
  <2> QED
    BY <1>1, <1>3, <1>8, <2>1 DEF TypeInv
<1>13. Users(c) = {}
  <2>1. \A d \in Dirs \cup {Root} : inode[d] # c
    BY <1>1, <1>4, OpenCopies DEF CopyInv
  <2> QED
    BY <1>1, <2>1 DEF Users, TypeInv
<1>14. CallerInv'
  BY <1>7, <1>9, <1>10, <1>11, <1>13 DEF CallerInv
<1>15. CopyInv'
  <2>1. \A a, e \in Open' : no'[a] = no'[e] => a = e
    BY <1>1, <1>3, <1>4, <1>7 DEF CopyInv, Fresh
  <2>2. \A e : e \in allocated' <=>
                 \/ e \in Open'
                 \/ \E u \in Threads : pc'[u] = "push" /\ res'[u] = e
    BY <1>0, <1>1, <1>3, <1>7, <1>9, <1>10 DEF CopyInv
  <2> QED
    BY <1>1, <1>3, <1>7, <2>1, <2>2 DEF CopyInv
<1>16. CountInv'
  <2>1. ASSUME NEW e \in Open PROVE CountOK(e)'
    <3>1. ~Counting(e)
      BY <1>1, <1>9 DEF Counting
    <3>2. CountOK(e)
      BY <1>1, <3>1 DEF CountInv
    <3> QED
      BY <1>3, <1>11, <3>2 DEF CountOK
  <2>2. Counting(c)'
    BY <1>10 DEF Counting
  <2> QED
    BY <1>7, <2>1, <2>2 DEF CountInv
<1> QED
  BY <1>7, <1>12, <1>14, <1>15, <1>16 DEF Inv

-----------------------------------------------------------------------------
(* close_dir.                                                              *)

\* The handle of copy c is given up, and the list is as the count says.
LEMMA CloseInv ==
  ASSUME OneThread, Inv, NEW t \in Threads, NEW d \in Dirs \cup {Root},
         close_dir(t, d)
  PROVE  Inv'
<1> DEFINE s == open_inodes
<1>0. PICK c : c = inode[d]
  OBVIOUS
<1>1. TypeInv /\ ListInv /\ CopyInv /\ CountInv
  BY DEF Inv
<1>2. /\ pc[t] = "idle" /\ c # NULL /\ inode' = [inode EXCEPT ![d] = NULL]
      /\ UNCHANGED <<no, pc, arg, res>>
  BY <1>0 DEF close_dir
<1>3. /\ open_cnt' = [open_cnt EXCEPT ![c] = @ - 1]
      /\ \/ /\ open_cnt[c] = 1
            /\ next' = [next EXCEPT ![prev[c]] = next[c]]
            /\ prev' = [prev EXCEPT ![next[c]] = prev[c]]
            /\ allocated' = allocated \ {c}
         \/ /\ open_cnt[c] # 1
            /\ UNCHANGED <<listVars, allocated>>
  BY <1>0 DEF close_dir, inode_close, list_remove
<1>4. c \in Open /\ c \in Copies /\ Open \subseteq Copies /\ NULL \notin Copies
  BY <1>0, <1>1, <1>2, OpenCopies DEF CopyInv
<1>5. \A u \in Threads : u = t
  BY DEF OneThread
<1>6. \A e : ~Counting(e) /\ ~Counting(e)'
  BY <1>2, <1>5 DEF Counting
<1>7. /\ IsFiniteSet(Users(c)) /\ open_cnt[c] = Cardinality(Users(c))
  BY <1>1, <1>4, <1>6 DEF CountInv, CountOK
<1>8. /\ Users(c)' = Users(c) \ {d} /\ d \in Users(c)
      /\ \A e \in Copies : e # c => Users(e)' = Users(e)
      /\ inode' \in [Dirs \cup {Root} -> Copies \cup {NULL}]
  BY <1>0, <1>1, <1>2, <1>4, UserStep
<1>9. /\ IsFiniteSet(Users(c) \ {d}) /\ Cardinality(Users(c)) \in Nat
      /\ Cardinality(Users(c) \ {d}) = Cardinality(Users(c)) - 1
  BY <1>7, <1>8, FS_RemoveElement, FS_CardinalityType
<1>10. /\ \A x \in Dirs \cup {Root} : x # d => inode'[x] = inode[x]
       /\ inode'[d] = NULL
  BY <1>1, <1>2 DEF TypeInv
<1>11. /\ open_cnt' \in [Copies -> Int] /\ open_cnt'[c] = open_cnt[c] - 1
       /\ \A e \in Copies : e # c => open_cnt'[e] = open_cnt[e]
  BY <1>1, <1>3, <1>4 DEF TypeInv
<1>12. ASSUME NEW e \in Open, e # c PROVE CountOK(e)'
  <2>1. CountOK(e)
    BY <1>1, <1>6 DEF CountInv
  <2> QED
    BY <1>4, <1>8, <1>11, <1>12, <2>1 DEF CountOK
<1>13. CASE open_cnt[c] = 1
  <2>1. /\ next' = [next EXCEPT ![prev[c]] = next[c]]
        /\ prev' = [prev EXCEPT ![next[c]] = prev[c]]
        /\ allocated' = allocated \ {c}
    BY <1>3, <1>13
  <2>2. s \in Seq(Nodes) /\ IsInjective(s)
    BY <1>1 DEF ListInv, IsList
  <2>3. PICK k \in 1 .. Len(s) : s[k] = c
    BY <1>4, <2>2, ToSetIff DEF Open
  <2>4. IsList(next', prev', Drop(s, k))
    BY <1>1, <2>1, <2>3, TakeOut DEF TypeInv, ListInv
  <2>5. ListInv' /\ Open' = Open \ {c}
    <3>1. ToSet(Drop(s, k)) = ToSet(s) \ {c}
      BY <2>2, <2>3, DropFacts
    <3> QED
      BY <2>4, <3>1, NewList DEF Open
  <2>6. next' \in [Links -> Links \cup {NULL}] /\ prev' \in [Links -> Links \cup {NULL}]
    <3>1. next[c] \in Links \cup {NULL} /\ prev[c] \in Links \cup {NULL}
      BY <1>1, <1>4 DEF TypeInv, Links, Copies
    <3> QED
      BY <1>1, <2>1, <3>1 DEF TypeInv
  <2>7. TypeInv'
    BY <1>1, <1>2, <1>8, <1>11, <2>1, <2>6 DEF TypeInv
  <2>8. Users(c)' = {}
    <3>1. Cardinality(Users(c) \ {d}) = 0
      BY <1>7, <1>9, <1>13
    <3> QED
      BY <1>8, <1>9, <3>1, FS_EmptySet
  <2>9. CopyInv'
    <3>1. \A x \in Dirs \cup {Root} : inode'[x] # c
      BY <1>8, <2>8 DEF Users
    <3>2. \A x \in Dirs \cup {Root} : inode'[x] # NULL => inode'[x] \in Open'
      BY <1>1, <1>10, <2>5, <3>1 DEF CopyInv
    <3>3. \A a, e \in Open' : no'[a] = no'[e] => a = e
      BY <1>1, <1>2, <2>5 DEF CopyInv
    <3>4. \A e : e \in allocated' <=>
                   \/ e \in Open'
                   \/ \E u \in Threads : pc'[u] = "push" /\ res'[u] = e
      BY <1>1, <1>2, <1>5, <2>1, <2>5 DEF CopyInv
    <3> QED
      BY <3>2, <3>3, <3>4 DEF CopyInv
  <2>10. CallerInv'
    BY <1>2, <1>5 DEF CallerInv
  <2>11. CountInv'
    BY <1>12, <2>5 DEF CountInv
  <2> QED
    BY <2>5, <2>7, <2>9, <2>10, <2>11 DEF Inv
<1>14. CASE open_cnt[c] # 1
  <2>1. UNCHANGED <<listVars, allocated>>
    BY <1>3, <1>14
  <2>2. ListInv' /\ Open' = Open
    BY <2>1, SameList
  <2>3. TypeInv'
    BY <1>1, <1>2, <1>8, <1>11, <2>1 DEF TypeInv, listVars
  <2>4. CopyInv'
    <3>1. \A x \in Dirs \cup {Root} : inode'[x] # NULL => inode'[x] \in Open'
      BY <1>1, <1>10, <2>2 DEF CopyInv
    <3>2. \A a, e \in Open' : no'[a] = no'[e] => a = e
      BY <1>1, <1>2, <2>2 DEF CopyInv
    <3>3. \A e : e \in allocated' <=>
                   \/ e \in Open'
                   \/ \E u \in Threads : pc'[u] = "push" /\ res'[u] = e
      BY <1>1, <1>2, <2>1, <2>2 DEF CopyInv
    <3> QED
      BY <3>1, <3>2, <3>3 DEF CopyInv
  <2>5. CallerInv'
    BY <1>2, <1>5 DEF CallerInv
  <2>6. CountOK(c)'
    <3>1. Cardinality(Users(c) \ {d}) # 0
      BY <1>7, <1>9, <1>14
    <3>2. Users(c) \ {d} # {}
      BY <3>1, FS_EmptySet
    <3> QED
      BY <1>7, <1>8, <1>9, <1>11, <3>2 DEF CountOK
  <2>7. CountInv'
    BY <1>12, <2>2, <2>6 DEF CountInv
  <2> QED
    BY <2>2, <2>3, <2>4, <2>5, <2>7 DEF Inv
<1> QED
  BY <1>13, <1>14

-----------------------------------------------------------------------------
(* The theorems.                                                           *)

LEMMA StepInv ==
  ASSUME OneThread, Inv, [Next]_vars
  PROVE  Inv'
<1>1. CASE UNCHANGED vars
  <2>1. UNCHANGED <<listVars, no, open_cnt, allocated, inode, pc, arg, res>>
    BY <1>1 DEF vars
  <2>2. ListInv' /\ Open' = Open
    BY <2>1, SameList
  <2>3. \A c : Users(c)' = Users(c)
    BY <2>1 DEF Users
  <2>4. TypeInv'
    BY <2>1 DEF Inv, TypeInv, listVars
  <2>5. CopyInv'
    BY <2>1, <2>2 DEF Inv, CopyInv
  <2>6. CallerInv'
    BY <2>1, <2>2, <2>3 DEF Inv, CallerInv, Fresh
  <2>7. CountInv'
    BY <2>1, <2>2, <2>3 DEF Inv, CountInv, CountOK, Counting
  <2> QED
    BY <2>2, <2>4, <2>5, <2>6, <2>7 DEF Inv
<1>2. CASE Next
  <2>1. PICK t \in Threads :
          \/ open_root(t)
          \/ \E n \in Nos : open_dir(t, n)
          \/ inode_hit(t) \/ inode_read(t) \/ inode_push(t) \/ inode_count(t)
          \/ \E d \in Dirs \cup {Root} : close_dir(t, d)
    BY <1>2 DEF Next
  <2>2. CASE open_root(t)
    BY <2>2, LookInv, InodeAssumption DEF open_root
  <2>3. CASE \E n \in Nos : open_dir(t, n)
    BY <2>3, LookInv DEF open_dir
  <2>4. CASE inode_hit(t)
    BY <2>4, HitInv
  <2>5. CASE inode_read(t)
    BY <2>5, ReadInv
  <2>6. CASE inode_push(t)
    BY <2>6, PushInv
  <2>7. CASE inode_count(t)
    BY <2>7, CountedInv
  <2>8. CASE \E d \in Dirs \cup {Root} : close_dir(t, d)
    BY <2>8, CloseInv
  <2> QED
    BY <2>1, <2>2, <2>3, <2>4, <2>5, <2>6, <2>7, <2>8
<1> QED
  BY <1>1, <1>2

LEMMA Invariance ==
  ASSUME OneThread
  PROVE  Spec => []Inv
<1>1. Inv /\ [Next]_vars => Inv'
  BY StepInv
<1> QED
  BY <1>1, InitInv, PTL DEF Spec

(***************************************************************************)
(* Whenever no call is in progress open_cnt is the number of the handles,  *)
(* so that inode_close frees the copy with the last handle, not before and *)
(* not later.                                                              *)
(***************************************************************************)
THEOREM HandlesCounted ==
  ASSUME OneThread
  PROVE  Spec => []CountsTheUsers
<1>1. ASSUME Inv PROVE CountsTheUsers
  BY <1>1 DEF Inv, CountInv, CountOK, Counting, CountsTheUsers, Open
<1> QED
  BY <1>1, Invariance, PTL

(***************************************************************************)
(* No handle and no link of the list leads to freed memory, and no copy is *)
(* lost, through every inode_open and inode_close.                         *)
(***************************************************************************)
THEOREM MemoryOfInodes ==
  ASSUME OneThread
  PROVE  Spec => []InodesAccounted
<1>1. ASSUME Inv PROVE InodesAccounted
  <2>1. Open \subseteq allocated
    BY <1>1, OpenCopies
  <2>2. \A d \in DOMAIN inode : inode[d] # NULL => inode[d] \in allocated
    BY <1>1, <2>1 DEF Inv, TypeInv, CopyInv
  <2>3. ASSUME \A t \in Threads : pc[t] = "idle" PROVE allocated = Open
    BY <1>1, <2>3 DEF Inv, CopyInv
  <2> QED
    BY <2>1, <2>2, <2>3 DEF InodesAccounted, Open
<1> QED
  BY <1>1, Invariance, PTL

(***************************************************************************)
(* list_push_front and list_remove keep the list linked in both            *)
(* directions, whatever nodes are linked and in whatever order they leave. *)
(***************************************************************************)
THEOREM ListLinked ==
  ASSUME OneThread
  PROVE  Spec => []LinkedBothWays
<1>1. ASSUME Inv PROVE LinkedBothWays
  <2>1. IsList(next, prev, open_inodes) /\ open_inodes \in Seq(Nodes)
    BY <1>1 DEF Inv, ListInv, IsList
  <2>2. Walk(prev, tail, head) = Reverse(open_inodes)
    BY <2>1, ListWalks
  <2>3. <<NULL>> \notin Seq(Nodes)
    BY ListAssumption
  <2> QED
    BY <2>1, <2>2, <2>3 DEF LinkedBothWays
<1> QED
  BY <1>1, Invariance, PTL
=============================================================================
