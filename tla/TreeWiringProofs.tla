--------------------------- MODULE TreeWiringProofs ---------------------------
(***************************************************************************)
(* Proofs that swizzling is sound in LeanStoreTree.                        *)
(*                                                                         *)
(* The inductive invariant is WireInv: the types and the shapes of nodes,  *)
(* the phase of the page request at every pc (PcPhase), and, as long as    *)
(* the process has not aborted, the wiring.  Wires is the direction from a *)
(* parent to its swizzled children, Anchored the one from a page in use to *)
(* the reference that names it; CurHere, ChildHere, RightHere and AdmHere  *)
(* say which of the references a half-finished operation holds.            *)
(*                                                                         *)
(* Every step keeps WireInv but one: a demotion of a page that a split     *)
(* holds in its hands (Held), which nothing pins.  The theorems say both   *)
(* halves of that: without such a demotion no reference ever dangles       *)
(* (OnlyHeldPagesDangle), and while none dangles swizzling is two-way      *)
(* (SwizzlingSound).                                                       *)
(***************************************************************************)
EXTENDS TreeProperties, BufferPoolProofs, FiniteSetTheorems, WellFoundedInduction

\* A non-empty set of numbers has a least one.
LEMMA LeastNumber ==
  ASSUME NEW S \in SUBSET Nat, S # {}
  PROVE  \E m \in S : \A n \in S : m <= n
  <1>1. PICK m \in S : \A n \in S : ~(<<n, m>> \in OpToRel(<, Nat))
    BY NatLessThanWellFounded, WFMin
  <1>2. \A n \in S : ~(n < m)
    BY <1>1 DEF OpToRel
  <1> QED BY <1>2

\* A non-empty set of numbers with a bound has a greatest one.
LEMMA GreatestNumber ==
  ASSUME NEW n \in Nat, NEW S \in SUBSET (0 .. n), S # {}
  PROVE  \E m \in S : \A x \in S : m >= x
  <1> DEFINE D == {n - x : x \in S}
  <1>1. D \in SUBSET Nat /\ D # {}
    <2>1. \A x \in S : n - x \in Nat
      OBVIOUS
    <2>2. PICK x \in S : TRUE
      OBVIOUS
    <2>3. n - x \in D
      BY <2>2
    <2> QED BY <2>1, <2>3
  <1>2. PICK d \in D : \A e \in D : d <= e
    BY <1>1, LeastNumber, Zenon
  <1>3. PICK m \in S : d = n - m
    BY <1>2
  <1>4. \A x \in S : n - m <= n - x
    BY <1>2, <1>3
  <1>5. \A x \in S : m >= x
    BY <1>4
  <1> QED BY <1>5

Ref == Slot \union Addr
DataT == UNION {[K -> Val] : K \in SUBSET Key}
NodeT == [type : {"none", "leaf", "inner"}, level : Nat, data : DataT, keys : Seq(Key),
          kids : Seq(Ref), bitmap : SUBSET Nat, parent : Slot \union {NoSlot, Super},
          lo : MinLimit .. MaxLimit, hi : MinLimit .. MaxLimit]

-----------------------------------------------------------------------------
(* The operations on nodes *)

\* lowerBound counts keys, so it names one of the children.
LEMMA LowerBoundRange ==
  ASSUME NEW n \in NodeT, NEW k
  PROVE  lowerBound(n, k) \in 1 .. Len(n.keys) + 1
  <1> DEFINE S == {i \in DOMAIN n.keys : n.keys[i] < k}
  <1>1. DOMAIN n.keys = 1 .. Len(n.keys) /\ Len(n.keys) \in Nat
    BY DEF NodeT
  <1>2. IsFiniteSet(1 .. Len(n.keys)) /\ Cardinality(1 .. Len(n.keys)) = Len(n.keys)
    BY <1>1, FS_Interval
  <1>3. S \in SUBSET (1 .. Len(n.keys))
    BY <1>1
  <1>4. Cardinality(S) \in Nat /\ Cardinality(S) <= Len(n.keys)
    BY <1>2, <1>3, FS_Subset, FS_CardinalityType
  <1> QED BY <1>1, <1>4 DEF lowerBound

\* The empty page holds no entry.
LEMMA NoData == <<>> \in DataT
  <1>1. <<>> = [x \in {} |-> x]
    OBVIOUS
  <1>2. [x \in {} |-> x] \in [{} -> Val]
    OBVIOUS
  <1> QED BY <1>1, <1>2 DEF DataT

\* The entries a leaf operation leaves.
LEMMA DataOps ==
  ASSUME NEW d \in DataT
  PROVE  /\ DOMAIN d \in SUBSET Key
         /\ \A S \in SUBSET DOMAIN d : Restrict(d, S) \in DataT
         /\ \A k \in Key, v \in Val : [x \in DOMAIN d \union {k} |-> IF x = k THEN v ELSE d[x]] \in DataT
  <1>1. PICK K \in SUBSET Key : d \in [K -> Val]
    BY DEF DataT
  <1>2. DOMAIN d = K /\ \A x \in K : d[x] \in Val
    BY <1>1
  <1>3. ASSUME NEW S \in SUBSET K PROVE Restrict(d, S) \in DataT
    <2>1. S \in SUBSET Key /\ Restrict(d, S) \in [S -> Val]
      BY <1>2, <1>3 DEF Restrict
    <2> QED BY <2>1 DEF DataT
  <1>4. ASSUME NEW k \in Key, NEW v \in Val
        PROVE  [x \in K \union {k} |-> IF x = k THEN v ELSE d[x]] \in DataT
    <2>1. K \union {k} \in SUBSET Key
      OBVIOUS
    <2>2. [x \in K \union {k} |-> IF x = k THEN v ELSE d[x]] \in [K \union {k} -> Val]
      BY <1>2
    <2> QED BY <2>1, <2>2 DEF DataT
  <1> QED BY <1>2, <1>3, <1>4

\* Records: the fields a node keeps.
LEMMA NodeEdits ==
  ASSUME NEW n \in NodeT
  PROVE  /\ \A p \in Slot \union {NoSlot, Super} :
              /\ WithParent(n, p) \in NodeT
              /\ WithParent(n, p).type = n.type /\ WithParent(n, p).keys = n.keys
              /\ WithParent(n, p).kids = n.kids /\ WithParent(n, p).bitmap = n.bitmap
              /\ WithParent(n, p).parent = p
         /\ \A i \in DOMAIN n.kids, r \in Ref :
              /\ Swizzle(n, i, r) \in NodeT /\ Unswizzle(n, i, r) \in NodeT
              /\ Swizzle(n, i, r).type = n.type /\ Unswizzle(n, i, r).type = n.type
              /\ Swizzle(n, i, r).keys = n.keys /\ Unswizzle(n, i, r).keys = n.keys
              /\ Swizzle(n, i, r).parent = n.parent /\ Unswizzle(n, i, r).parent = n.parent
              /\ Swizzle(n, i, r).kids = [n.kids EXCEPT ![i] = r]
              /\ Unswizzle(n, i, r).kids = [n.kids EXCEPT ![i] = r]
              /\ Swizzle(n, i, r).bitmap = n.bitmap \union {i}
              /\ Unswizzle(n, i, r).bitmap = n.bitmap \ {i}
  <1>1. ASSUME NEW p \in Slot \union {NoSlot, Super}
        PROVE  /\ WithParent(n, p) \in NodeT
               /\ WithParent(n, p).type = n.type /\ WithParent(n, p).keys = n.keys
               /\ WithParent(n, p).kids = n.kids /\ WithParent(n, p).bitmap = n.bitmap
               /\ WithParent(n, p).parent = p
    BY DEF NodeT, WithParent
  <1>2. ASSUME NEW i \in DOMAIN n.kids, NEW r \in Ref
        PROVE  /\ Swizzle(n, i, r) \in NodeT /\ Unswizzle(n, i, r) \in NodeT
               /\ Swizzle(n, i, r).type = n.type /\ Unswizzle(n, i, r).type = n.type
               /\ Swizzle(n, i, r).keys = n.keys /\ Unswizzle(n, i, r).keys = n.keys
               /\ Swizzle(n, i, r).parent = n.parent /\ Unswizzle(n, i, r).parent = n.parent
               /\ Swizzle(n, i, r).kids = [n.kids EXCEPT ![i] = r]
               /\ Unswizzle(n, i, r).kids = [n.kids EXCEPT ![i] = r]
               /\ Swizzle(n, i, r).bitmap = n.bitmap \union {i}
               /\ Unswizzle(n, i, r).bitmap = n.bitmap \ {i}
    <2>1. n.kids \in Seq(Ref) /\ i \in Nat /\ [n.kids EXCEPT ![i] = r] \in Seq(Ref)
      BY DEF NodeT
    <2>2. n.bitmap \union {i} \in SUBSET Nat /\ n.bitmap \ {i} \in SUBSET Nat
      BY <2>1 DEF NodeT
    <2> DEFINE q == [n.kids EXCEPT ![i] = r]
    <2> HIDE DEF q
    <2>3. q \in Seq(Ref)
      BY <2>1 DEF q
    <2>4. Swizzle(n, i, r) = [n EXCEPT !.kids = q, !.bitmap = n.bitmap \union {i}]
      BY DEF q, Swizzle, NodeT
    <2>5. Unswizzle(n, i, r) = [n EXCEPT !.kids = q, !.bitmap = n.bitmap \ {i}]
      BY DEF q, Unswizzle, NodeT
    <2>6. /\ Swizzle(n, i, r) \in NodeT /\ Unswizzle(n, i, r) \in NodeT
          /\ Swizzle(n, i, r).type = n.type /\ Unswizzle(n, i, r).type = n.type
          /\ Swizzle(n, i, r).keys = n.keys /\ Unswizzle(n, i, r).keys = n.keys
          /\ Swizzle(n, i, r).parent = n.parent /\ Unswizzle(n, i, r).parent = n.parent
          /\ Swizzle(n, i, r).kids = q
          /\ Unswizzle(n, i, r).kids = q
          /\ Swizzle(n, i, r).bitmap = n.bitmap \union {i}
          /\ Unswizzle(n, i, r).bitmap = n.bitmap \ {i}
      BY <2>2, <2>3, <2>4, <2>5 DEF NodeT
    <2> QED BY <2>6 DEF q
  <1> QED BY <1>1, <1>2

\* A node without children, or with one more child than keys.
Shape(n) ==
  /\ n.type = "inner" => Len(n.kids) = Len(n.keys) + 1
  /\ n.type # "inner" => n.keys = <<>> /\ n.kids = <<>> /\ n.bitmap = {}

\* t is s with e at position i.
Inserted(t, s, i, e) ==
  /\ Len(t) = Len(s) + 1
  /\ \A j \in 1 .. Len(s) + 1 : t[j] = IF j < i THEN s[j] ELSE IF j = i THEN e ELSE s[j - 1]

\* What InsertAt of the community modules builds.
LEMMA InsertAtFacts ==
  ASSUME NEW S, NEW s \in Seq(S), NEW i \in 1 .. Len(s) + 1, NEW e \in S
  PROVE  InsertAt(s, i, e) \in Seq(S) /\ Inserted(InsertAt(s, i, e), s, i, e)
  <1> DEFINE a == SubSeq(s, 1, i - 1)
             b == SubSeq(s, i, Len(s))
  <1>1. Len(s) \in Nat /\ i \in Nat /\ i >= 1 /\ i <= Len(s) + 1 /\ \A j \in 1 .. Len(s) : s[j] \in S
    BY ElementOfSeq
  <1>2. a \in Seq(S) /\ Len(a) = i - 1 /\ \A j \in 1 .. i - 1 : a[j] = s[j]
    <2>1. \A j \in 1 .. i - 1 : s[j] \in S
      BY <1>1
    <2>2. /\ a \in Seq(S)
          /\ Len(a) = IF 1 <= i - 1 THEN (i - 1) - 1 + 1 ELSE 0
          /\ \A j \in 1 .. (i - 1) - 1 + 1 : a[j] = s[1 + j - 1]
      BY <1>1, <2>1, SubSeqProperties
    <2> HIDE DEF a
    <2>3. \A j \in 1 .. i - 1 : j \in 1 .. (i - 1) - 1 + 1 /\ 1 + j - 1 = j
      BY <1>1
    <2>4. (IF 1 <= i - 1 THEN (i - 1) - 1 + 1 ELSE 0) = i - 1
      BY <1>1
    <2> QED BY <2>2, <2>3, <2>4
  <1>3. /\ b \in Seq(S) /\ Len(b) = Len(s) + 1 - i
        /\ \A j \in 1 .. Len(s) + 1 - i : b[j] = s[i + j - 1]
    <2>1. \A j \in i .. Len(s) : s[j] \in S
      BY <1>1
    <2>2. /\ b \in Seq(S)
          /\ Len(b) = IF i <= Len(s) THEN Len(s) - i + 1 ELSE 0
          /\ \A j \in 1 .. Len(s) - i + 1 : b[j] = s[i + j - 1]
      BY <1>1, <2>1, SubSeqProperties
    <2> HIDE DEF b
    <2>3. \A j \in 1 .. Len(s) + 1 - i : j \in 1 .. Len(s) - i + 1
      BY <1>1
    <2>4. (IF i <= Len(s) THEN Len(s) - i + 1 ELSE 0) = Len(s) + 1 - i
      BY <1>1
    <2> QED BY <2>2, <2>3, <2>4
  <1> HIDE DEF a, b
  <1>4. <<e>> \in Seq(S) /\ Len(<<e>>) = 1 /\ <<e>>[1] = e
    OBVIOUS
  <1>5. /\ a \o <<e>> \in Seq(S) /\ Len(a \o <<e>>) = i
        /\ \A j \in 1 .. i : (a \o <<e>>)[j] = IF j < i THEN s[j] ELSE e
    <2>1. /\ a \o <<e>> \in Seq(S) /\ Len(a \o <<e>>) = Len(a) + Len(<<e>>)
          /\ \A j \in 1 .. Len(a) + Len(<<e>>) :
               (a \o <<e>>)[j] = IF j <= Len(a) THEN a[j] ELSE <<e>>[j - Len(a)]
      BY <1>2, <1>4, ConcatProperties, Zenon
    <2>2. Len(a) + Len(<<e>>) = i
      BY <1>1, <1>2, <1>4
    <2>3. ASSUME NEW j \in 1 .. i
          PROVE  (a \o <<e>>)[j] = IF j < i THEN s[j] ELSE e
      <3>1. CASE j < i
        BY <1>1, <1>2, <2>1, <2>2, <3>1
      <3>2. CASE ~(j < i)
        <4>1. j = i /\ j - Len(a) = 1 /\ ~(j <= Len(a))
          BY <1>1, <1>2, <3>2
        <4> QED BY <1>4, <2>1, <2>2, <4>1
      <3> QED BY <3>1, <3>2
    <2> QED BY <2>1, <2>2, <2>3
  <1> DEFINE c == a \o <<e>>
  <1>6. InsertAt(s, i, e) = c \o b
    BY DEF InsertAt, a, b
  <1>7. c \in Seq(S) /\ Len(c) = i /\ \A j \in 1 .. i : c[j] = IF j < i THEN s[j] ELSE e
    BY <1>5
  <1> HIDE DEF c
  <1>8. /\ c \o b \in Seq(S) /\ Len(c \o b) = Len(c) + Len(b)
        /\ \A j \in 1 .. Len(c) + Len(b) : (c \o b)[j] = IF j <= Len(c) THEN c[j] ELSE b[j - Len(c)]
    BY <1>3, <1>7, ConcatProperties, Zenon
  <1>9. Len(c) + Len(b) = Len(s) + 1
    BY <1>1, <1>3, <1>7
  <1>10. ASSUME NEW j \in 1 .. Len(s) + 1
         PROVE  (c \o b)[j] = IF j < i THEN s[j] ELSE IF j = i THEN e ELSE s[j - 1]
    <2>1. CASE j <= i
      BY <1>1, <1>7, <1>8, <1>9, <2>1
    <2>2. CASE j > i
      <3>1. j - i \in 1 .. Len(s) + 1 - i /\ i + (j - i) - 1 = j - 1 /\ ~(j <= i)
        BY <1>1, <2>2
      <3>2. b[j - i] = s[j - 1]
        BY <1>3, <3>1
      <3> QED BY <1>1, <1>7, <1>8, <1>9, <2>2, <3>1, <3>2
    <2>3. j <= i \/ j > i
      BY <1>1
    <2> QED BY <2>1, <2>2, <2>3, Zenon
  <1> QED BY <1>6, <1>8, <1>9, <1>10 DEF Inserted

\* BTreeLeaf::split of a full leaf: the separator is a key, the largest that stays;
\* something stays and something leaves.
LEMMA LeafSepFacts ==
  ASSUME NEW n \in NodeT, Cardinality(DOMAIN n.data) = LeafMax
  PROVE  /\ LowerKeys(n) \in SUBSET DOMAIN n.data /\ LowerKeys(n) # {}
         /\ LeafSep(n) \in LowerKeys(n) /\ LeafSep(n) \in Key
         /\ \A k \in LowerKeys(n) : k <= LeafSep(n)
         /\ \A k \in DOMAIN n.data \ LowerKeys(n) : k > LeafSep(n)
         /\ \E k \in DOMAIN n.data : k > LeafSep(n)
         /\ IsFiniteSet(DOMAIN n.data)
  <1> DEFINE K == DOMAIN n.data
             L == LowerKeys(n)
             Upto(k) == {j \in K : j <= k}
  <1>1. MaxKey \in Nat /\ LeafMax \in Nat /\ LeafMax >= 2
    BY TreeAssumption
  <1>2. K \in SUBSET Key
    BY DataOps DEF NodeT
  <1>3. K \in SUBSET (0 .. MaxKey) /\ K \in SUBSET Nat /\ \A k \in K : k \in Nat /\ k <= MaxKey
    BY <1>1, <1>2 DEF Key
  <1>4. IsFiniteSet(K)
    BY <1>1, <1>3, FS_BoundedSetOfNaturals
  <1>5. \A k \in K : Upto(k) \in SUBSET K
    OBVIOUS
  <1>6. \A k \in K : IsFiniteSet(Upto(k)) /\ Cardinality(Upto(k)) \in Nat
    BY <1>4, <1>5, FS_Subset, FS_CardinalityType
  <1>7. K # {}
    BY <1>1, <1>4, FS_EmptySet
  <1>8. L = {k \in K : Cardinality(Upto(k)) <= LeafMax \div 2}
    BY DEF LowerKeys
  <1>16. \A k \in K : k \in Nat
    BY <1>3
  <1> HIDE DEF K, L
  <1>9. L \in SUBSET K
    BY <1>8
  <1>10. L # {}
    <2>1. PICK m \in K : \A x \in K : m <= x
      BY <1>3, <1>7, LeastNumber
    <2>2. Upto(m) = {m}
      <3>1. \A x \in K : x <= m <=> x = m
        BY <1>16, <2>1
      <3> QED BY <2>1, <3>1
    <2>3. Cardinality(Upto(m)) = 1
      BY <2>2, FS_Singleton
    <2>4. 1 <= LeafMax \div 2
      BY <1>1
    <2> QED BY <1>8, <2>1, <2>3, <2>4
  <1>11. \E k \in K : k \notin L
    <2>1. PICK m \in K : \A x \in K : m >= x
      BY <1>1, <1>3, <1>7, GreatestNumber
    <2>2. Upto(m) = K
      <3>1. \A x \in K : x <= m
        BY <1>16, <2>1
      <3> QED BY <2>1, <3>1
    <2>3. ~(LeafMax <= LeafMax \div 2)
      BY <1>1
    <2>4. Cardinality(Upto(m)) = LeafMax
      BY <2>2 DEF K
    <2> QED BY <1>8, <2>1, <2>3, <2>4
  <1>12. PICK s \in L : \A x \in L : s >= x
    BY <1>1, <1>3, <1>9, <1>10, GreatestNumber
  <1>13. LeafSep(n) \in L /\ \A x \in L : LeafSep(n) >= x
    BY <1>12 DEF LeafSep, Max, L
  <1>14. ASSUME NEW k \in K, k \notin L
         PROVE  k > LeafSep(n)
    <2> DEFINE p == LeafSep(n)
    <2>1. p \in K /\ p \in Nat /\ k \in Nat /\ Cardinality(Upto(p)) <= LeafMax \div 2
      BY <1>3, <1>8, <1>9, <1>13
    <2> HIDE DEF p
    <2>2. SUFFICES ASSUME k <= p PROVE FALSE
      BY <2>1 DEF p
    <2>3. Upto(k) \in SUBSET Upto(p)
      <3>1. \A x \in K : x <= k => x <= p
        BY <1>16, <2>1, <2>2
      <3> QED BY <3>1
    <2>4. Cardinality(Upto(k)) <= Cardinality(Upto(p))
      BY <1>6, <2>1, <2>3, FS_Subset
    <2>5. Cardinality(Upto(k)) <= LeafMax \div 2
      <3> DEFINE x == Cardinality(Upto(k))
                 y == Cardinality(Upto(p))
                 z == LeafMax \div 2
      <3>1. x \in Nat /\ y \in Nat /\ z \in Nat /\ x <= y /\ y <= z
        BY <1>1, <1>6, <2>1, <2>4
      <3> HIDE DEF x, y, z
      <3>2. x <= z
        BY <3>1
      <3> QED BY <3>2 DEF x, z
    <2> QED BY <1>8, <1>14, <2>5
  <1>15. LeafSep(n) \in Key /\ \A x \in L : x <= LeafSep(n)
    BY <1>2, <1>3, <1>9, <1>13
  <1> QED BY <1>4, <1>9, <1>10, <1>11, <1>13, <1>14, <1>15 DEF K, L

\* Sequence facts of a node.
LEMMA NodeSeqs ==
  ASSUME NEW n \in NodeT
  PROVE  /\ Len(n.keys) \in Nat /\ DOMAIN n.keys = 1 .. Len(n.keys)
         /\ Len(n.kids) \in Nat /\ DOMAIN n.kids = 1 .. Len(n.kids)
         /\ \A i \in 1 .. Len(n.keys) : n.keys[i] \in Key
         /\ \A i \in 1 .. Len(n.kids) : n.kids[i] \in Ref
         /\ \A k \in Key : k \in Nat /\ k \in MinLimit .. MaxLimit
         /\ n.lo \in Int /\ n.hi \in Int
  <1>1. n.keys \in Seq(Key) /\ n.kids \in Seq(Ref) /\ n.lo \in MinLimit .. MaxLimit
        /\ n.hi \in MinLimit .. MaxLimit
    BY DEF NodeT
  <1>2. \A k \in Key : k \in Nat /\ k \in MinLimit .. MaxLimit
    BY TreeAssumption DEF Key, MinLimit, MaxLimit
  <1> QED BY <1>1, <1>2, ElementOfSeq

\* BTreeLeaf::split keeps the fields of both halves in their types.
LEMMA LeafHalves ==
  ASSUME NEW n \in NodeT, n.type = "leaf", isFull(n)
  PROVE  /\ LeafLeft(n) \in NodeT /\ LeafRight(n) \in NodeT
         /\ LeafLeft(n).type = "leaf" /\ LeafLeft(n).level = n.level /\ LeafLeft(n).keys = n.keys
         /\ LeafLeft(n).kids = n.kids /\ LeafLeft(n).bitmap = n.bitmap
         /\ LeafLeft(n).parent = n.parent /\ LeafLeft(n).lo = n.lo /\ LeafLeft(n).hi = LeafSep(n)
         /\ LeafLeft(n).data = Restrict(n.data, LowerKeys(n))
         /\ LeafRight(n).type = "leaf" /\ LeafRight(n).level = 0 /\ LeafRight(n).keys = <<>>
         /\ LeafRight(n).kids = <<>> /\ LeafRight(n).bitmap = {}
         /\ LeafRight(n).parent = NoSlot /\ LeafRight(n).lo = LeafSep(n) /\ LeafRight(n).hi = n.hi
         /\ LeafRight(n).data = Restrict(n.data, DOMAIN n.data \ LowerKeys(n))
  <1>1. Cardinality(DOMAIN n.data) = LeafMax
    BY DEF isFull
  <1>2. LowerKeys(n) \in SUBSET DOMAIN n.data /\ LeafSep(n) \in Key
    BY <1>1, LeafSepFacts
  <1>3. n.data \in DataT
    BY DEF NodeT
  <1> DEFINE l == Restrict(n.data, LowerKeys(n))
             r == Restrict(n.data, DOMAIN n.data \ LowerKeys(n))
             p == LeafSep(n)
  <1>4. l \in DataT /\ r \in DataT
    BY <1>2, <1>3, DataOps
  <1>5. p \in MinLimit .. MaxLimit
    BY <1>2, NodeSeqs
  <1>6. LeafLeft(n) = [n EXCEPT !.data = l, !.hi = p] /\ LeafRight(n) = Leaf(r, p, n.hi)
    BY DEF LeafLeft, LeafRight
  <1> HIDE DEF l, r, p
  <1>7. /\ LeafLeft(n) \in NodeT
        /\ LeafLeft(n).type = "leaf" /\ LeafLeft(n).level = n.level /\ LeafLeft(n).keys = n.keys
        /\ LeafLeft(n).kids = n.kids /\ LeafLeft(n).bitmap = n.bitmap
        /\ LeafLeft(n).parent = n.parent /\ LeafLeft(n).lo = n.lo /\ LeafLeft(n).hi = p
        /\ LeafLeft(n).data = l
    BY <1>4, <1>5, <1>6 DEF NodeT
  <1>8. /\ LeafRight(n) \in NodeT
        /\ LeafRight(n).type = "leaf" /\ LeafRight(n).level = 0 /\ LeafRight(n).keys = <<>>
        /\ LeafRight(n).kids = <<>> /\ LeafRight(n).bitmap = {}
        /\ LeafRight(n).parent = NoSlot /\ LeafRight(n).lo = p /\ LeafRight(n).hi = n.hi
        /\ LeafRight(n).data = r
    BY <1>4, <1>5, <1>6 DEF NodeT, Leaf
  <1> QED BY <1>7, <1>8 DEF l, r, p

\* The front and the back part of a sequence.
LEMMA Parts ==
  ASSUME NEW S, NEW s \in Seq(S), NEW m \in 0 .. Len(s)
  PROVE  /\ SubSeq(s, 1, m) \in Seq(S) /\ Len(SubSeq(s, 1, m)) = m
         /\ \A i \in 1 .. m : SubSeq(s, 1, m)[i] = s[i]
         /\ SubSeq(s, m + 1, Len(s)) \in Seq(S) /\ Len(SubSeq(s, m + 1, Len(s))) = Len(s) - m
         /\ \A i \in 1 .. Len(s) - m : SubSeq(s, m + 1, Len(s))[i] = s[m + i]
  <1> DEFINE a == SubSeq(s, 1, m)
             b == SubSeq(s, m + 1, Len(s))
  <1>1. Len(s) \in Nat /\ m \in Nat /\ m <= Len(s) /\ \A j \in 1 .. Len(s) : s[j] \in S
    BY ElementOfSeq
  <1>2. \A j \in 1 .. m : s[j] \in S
    BY <1>1
  <1>3. \A j \in m + 1 .. Len(s) : s[j] \in S
    BY <1>1
  <1>4. /\ a \in Seq(S) /\ Len(a) = IF 1 <= m THEN m - 1 + 1 ELSE 0
        /\ \A i \in 1 .. m - 1 + 1 : a[i] = s[1 + i - 1]
    BY <1>1, <1>2, SubSeqProperties
  <1>5. /\ b \in Seq(S) /\ Len(b) = IF m + 1 <= Len(s) THEN Len(s) - (m + 1) + 1 ELSE 0
        /\ \A i \in 1 .. Len(s) - (m + 1) + 1 : b[i] = s[m + 1 + i - 1]
    BY <1>1, <1>3, SubSeqProperties
  <1> HIDE DEF a, b
  <1>6. \A i \in 1 .. m : i \in 1 .. m - 1 + 1 /\ 1 + i - 1 = i
    BY <1>1
  <1>7. \A i \in 1 .. Len(s) - m : i \in 1 .. Len(s) - (m + 1) + 1 /\ m + 1 + i - 1 = m + i
    BY <1>1
  <1>8. (IF 1 <= m THEN m - 1 + 1 ELSE 0) = m
    BY <1>1
  <1>9. (IF m + 1 <= Len(s) THEN Len(s) - (m + 1) + 1 ELSE 0) = Len(s) - m
    BY <1>1
  <1>10. \A i \in 1 .. m : a[i] = s[i]
    BY <1>4, <1>6
  <1>11. \A i \in 1 .. Len(s) - m : b[i] = s[m + i]
    BY <1>5, <1>7
  <1> QED BY <1>4, <1>5, <1>8, <1>9, <1>10, <1>11 DEF a, b

\* BTreeInner::split of a full node.
LEMMA InnerHalves ==
  ASSUME NEW n \in NodeT, n.type = "inner", isFull(n), Shape(n)
  PROVE  /\ InnerLeft(n) \in NodeT /\ InnerRight(n) \in NodeT
         /\ Stay(n) \in 1 .. Len(n.keys) - 1 /\ InnerSep(n) \in Key /\ Len(n.keys) = InnerFull
         /\ InnerLeft(n).type = "inner" /\ InnerLeft(n).level = n.level
         /\ InnerLeft(n).parent = n.parent /\ InnerLeft(n).data = n.data
         /\ InnerLeft(n).lo = n.lo /\ InnerLeft(n).hi = InnerSep(n)
         /\ Len(InnerLeft(n).keys) = Stay(n) - 1 /\ Len(InnerLeft(n).kids) = Stay(n)
         /\ \A i \in 1 .. Stay(n) - 1 : InnerLeft(n).keys[i] = n.keys[i]
         /\ \A i \in 1 .. Stay(n) : InnerLeft(n).kids[i] = n.kids[i]
         /\ InnerLeft(n).bitmap = {i \in n.bitmap : i <= Stay(n)}
         /\ InnerRight(n).type = "inner" /\ InnerRight(n).level = n.level
         /\ InnerRight(n).parent = NoSlot /\ InnerRight(n).data = <<>>
         /\ InnerRight(n).lo = InnerSep(n) /\ InnerRight(n).hi = n.hi
         /\ Len(InnerRight(n).keys) = Len(n.keys) - Stay(n)
         /\ Len(InnerRight(n).kids) = Len(n.kids) - Stay(n)
         /\ \A i \in 1 .. Len(n.keys) - Stay(n) : InnerRight(n).keys[i] = n.keys[Stay(n) + i]
         /\ \A i \in 1 .. Len(n.kids) - Stay(n) : InnerRight(n).kids[i] = n.kids[Stay(n) + i]
         /\ InnerRight(n).bitmap = {i - Stay(n) : i \in {j \in n.bitmap : j > Stay(n)}}
  <1> DEFINE m == Stay(n)
             kl == SubSeq(n.keys, 1, m - 1)
             cl == SubSeq(n.kids, 1, m)
             bl == {i \in n.bitmap : i <= m}
             kr == SubSeq(n.keys, m + 1, Len(n.keys))
             cr == SubSeq(n.kids, m + 1, Len(n.kids))
             br == {i - m : i \in {j \in n.bitmap : j > m}}
             p == InnerSep(n)
  <1>1. /\ Len(n.keys) = InnerFull /\ InnerFull \in Nat /\ InnerFull >= 2
        /\ Len(n.kids) = Len(n.keys) + 1 /\ n.keys \in Seq(Key) /\ n.kids \in Seq(Ref)
        /\ n.bitmap \in SUBSET Nat
    BY TreeAssumption DEF isFull, Shape, NodeT
  <1>2. m \in 1 .. Len(n.keys) - 1 /\ m \in Nat
    BY <1>1 DEF Stay
  <1> HIDE DEF m
  <1>3. m \in 0 .. Len(n.keys) /\ m - 1 \in 0 .. Len(n.keys) /\ m \in 0 .. Len(n.kids)
    BY <1>1, <1>2
  <1>4. kl \in Seq(Key) /\ Len(kl) = m - 1 /\ \A i \in 1 .. m - 1 : kl[i] = n.keys[i]
    BY <1>1, <1>3, Parts
  <1>5. cl \in Seq(Ref) /\ Len(cl) = m /\ \A i \in 1 .. m : cl[i] = n.kids[i]
    BY <1>1, <1>3, Parts
  <1>6. /\ kr \in Seq(Key) /\ Len(kr) = Len(n.keys) - m
        /\ \A i \in 1 .. Len(n.keys) - m : kr[i] = n.keys[m + i]
    BY <1>1, <1>3, Parts
  <1>7. /\ cr \in Seq(Ref) /\ Len(cr) = Len(n.kids) - m
        /\ \A i \in 1 .. Len(n.kids) - m : cr[i] = n.kids[m + i]
    BY <1>1, <1>3, Parts
  <1>8. bl \in SUBSET Nat /\ br \in SUBSET Nat
    BY <1>1, <1>2
  <1>9. p \in Key /\ p \in MinLimit .. MaxLimit
    <2>1. p = n.keys[m]
      BY DEF InnerSep, m
    <2>2. m \in 1 .. Len(n.keys)
      BY <1>2
    <2>3. p \in Key
      BY <2>1, <2>2, NodeSeqs
    <2> QED BY <2>3, NodeSeqs
  <1>10. /\ InnerLeft(n) = [n EXCEPT !.keys = kl, !.kids = cl, !.bitmap = bl, !.hi = p]
         /\ InnerRight(n) = Inner(n.level, kr, cr, br, p, n.hi)
    BY DEF InnerLeft, InnerRight, m
  <1> HIDE DEF kl, cl, bl, kr, cr, br, p
  <1>11. /\ InnerLeft(n) \in NodeT
         /\ InnerLeft(n).type = "inner" /\ InnerLeft(n).level = n.level
         /\ InnerLeft(n).parent = n.parent /\ InnerLeft(n).data = n.data
         /\ InnerLeft(n).lo = n.lo /\ InnerLeft(n).hi = p
         /\ InnerLeft(n).keys = kl /\ InnerLeft(n).kids = cl /\ InnerLeft(n).bitmap = bl
    BY <1>4, <1>5, <1>8, <1>9, <1>10 DEF NodeT
  <1>12. /\ InnerRight(n) \in NodeT
         /\ InnerRight(n).type = "inner" /\ InnerRight(n).level = n.level
         /\ InnerRight(n).parent = NoSlot /\ InnerRight(n).data = <<>>
         /\ InnerRight(n).lo = p /\ InnerRight(n).hi = n.hi
         /\ InnerRight(n).keys = kr /\ InnerRight(n).kids = cr /\ InnerRight(n).bitmap = br
    BY <1>6, <1>7, <1>8, <1>9, <1>10, NoData DEF NodeT, Inner
  <1>13. bl = {i \in n.bitmap : i <= m} /\ br = {i - m : i \in {j \in n.bitmap : j > m}}
    BY DEF bl, br
  <1> QED BY <1>1, <1>2, <1>4, <1>5, <1>6, <1>7, <1>9, <1>11, <1>12, <1>13 DEF m, p

\* BTreeInner::insert: the keys and children behind the position move up by one, and so
\* do their bits.
LEMMA InnerInsertFacts ==
  ASSUME NEW n \in NodeT, n.type = "inner", Shape(n), NEW k \in Key, NEW r \in Ref
  PROVE  LET q == InnerInsert(n, k, r)
             pos == lowerBound(n, k)
         IN /\ q \in NodeT /\ pos \in 1 .. Len(n.keys) + 1
            /\ q.type = "inner" /\ q.level = n.level /\ q.data = n.data
            /\ q.parent = n.parent /\ q.lo = n.lo /\ q.hi = n.hi
            /\ Inserted(q.keys, n.keys, pos, k) /\ Inserted(q.kids, n.kids, pos + 1, r)
            /\ q.bitmap = {i \in n.bitmap : i <= pos}
                            \union {i + 1 : i \in {j \in n.bitmap : j > pos}}
                            \union (IF r \in Slot THEN {pos + 1} ELSE {})
  <1> DEFINE pos == lowerBound(n, k)
             ks == InsertAt(n.keys, pos, k)
             cs == InsertAt(n.kids, pos + 1, r)
             bs == {i \in n.bitmap : i <= pos}
                            \union {i + 1 : i \in {j \in n.bitmap : j > pos}}
                            \union (IF r \in Slot THEN {pos + 1} ELSE {})
  <1>1. pos \in 1 .. Len(n.keys) + 1 /\ Len(n.keys) \in Nat /\ Len(n.kids) = Len(n.keys) + 1
    BY LowerBoundRange, NodeSeqs DEF Shape
  <1> HIDE DEF pos
  <1>2. pos + 1 \in 1 .. Len(n.kids) + 1 /\ pos \in Nat
    BY <1>1
  <1>3. n.keys \in Seq(Key) /\ n.kids \in Seq(Ref) /\ n.bitmap \in SUBSET Nat
    BY DEF NodeT
  <1>4. ks \in Seq(Key) /\ Inserted(ks, n.keys, pos, k)
    BY <1>1, <1>3, InsertAtFacts
  <1>5. cs \in Seq(Ref) /\ Inserted(cs, n.kids, pos + 1, r)
    BY <1>2, <1>3, InsertAtFacts
  <1>6. bs \in SUBSET Nat
    BY <1>2, <1>3
  <1>7. InnerInsert(n, k, r) = [n EXCEPT !.keys = ks, !.kids = cs, !.bitmap = bs]
    BY DEF InnerInsert, pos
  <1>8. bs = {i \in n.bitmap : i <= pos}
                            \union {i + 1 : i \in {j \in n.bitmap : j > pos}}
                            \union (IF r \in Slot THEN {pos + 1} ELSE {})
    OBVIOUS
  <1> HIDE DEF ks, cs, bs
  <1> DEFINE q == InnerInsert(n, k, r)
  <1>9. /\ q \in NodeT /\ q.type = "inner" /\ q.level = n.level /\ q.data = n.data
        /\ q.parent = n.parent /\ q.lo = n.lo /\ q.hi = n.hi
        /\ q.keys = ks /\ q.kids = cs /\ q.bitmap = bs
    BY <1>4, <1>5, <1>6, <1>7 DEF NodeT
  <1> HIDE DEF q
  <1> QED BY <1>1, <1>4, <1>5, <1>8, <1>9 DEF q, pos

-----------------------------------------------------------------------------
(* The tagged children of a node *)

\* The bitmap marks exactly the tagged children, and no child is tagged twice.
Tagged(n) == {i \in DOMAIN n.kids : n.kids[i] \in Slot}
Wired(n) == /\ n.bitmap = Tagged(n)
            /\ \A i, j \in Tagged(n) : n.kids[i] = n.kids[j] => i = j

\* Everything but the entries of a leaf.
SameFrame(q, n) ==
  /\ q.type = n.type /\ q.level = n.level /\ q.keys = n.keys /\ q.kids = n.kids
  /\ q.bitmap = n.bitmap /\ q.parent = n.parent /\ q.lo = n.lo /\ q.hi = n.hi

\* A tagged pointer is never mistaken for an address.
LEMMA SlotsAreNoAddresses ==
  /\ \A a \in Addr : a \notin Slot /\ a # NoSlot /\ a # Super
  /\ Super \notin Slot /\ NoSlot \notin Slot /\ Super # NoSlot
  /\ NullAddr \in Addr /\ 1 \in Addr /\ BackendPages \in Nat /\ BackendPages >= 2
  <1>1. BackendPages \in Nat /\ BackendPages >= 2
    BY AddrAssumption, TreeAssumption
  <1>2. NullAddr \in Addr /\ 1 \in Addr
    BY <1>1 DEF NullAddr, Addr
  <1>3. \A a \in Addr : a \notin Slot /\ a # NoSlot /\ a # Super
    BY TreeAssumption
  <1>4. Super \notin Slot /\ NoSlot \notin Slot /\ Super # NoSlot
    BY TreeAssumption, SlotAssumption
  <1> QED BY <1>1, <1>2, <1>3, <1>4

\* The leaf operations.
LEMMA LeafWrites ==
  ASSUME NEW n \in NodeT
  PROVE  /\ \A k \in Key, v \in Val : Put(n, k, v) \in NodeT /\ SameFrame(Put(n, k, v), n)
         /\ \A k : /\ [n EXCEPT !.data = Restrict(@, DOMAIN @ \ {k})] \in NodeT
                   /\ SameFrame([n EXCEPT !.data = Restrict(@, DOMAIN @ \ {k})], n)
  <1>1. ASSUME NEW d \in DataT
        PROVE  [n EXCEPT !.data = d] \in NodeT /\ SameFrame([n EXCEPT !.data = d], n)
    BY DEF NodeT, SameFrame
  <1>2. n.data \in DataT
    BY DEF NodeT
  <1>3. ASSUME NEW k \in Key, NEW v \in Val
        PROVE  Put(n, k, v) \in NodeT /\ SameFrame(Put(n, k, v), n)
    <2> DEFINE d == [x \in DOMAIN n.data \union {k} |-> IF x = k THEN v ELSE n.data[x]]
    <2>1. d \in DataT
      BY <1>2, DataOps
    <2>2. Put(n, k, v) = [n EXCEPT !.data = d]
      BY DEF Put
    <2> HIDE DEF d
    <2> QED BY <1>1, <2>1, <2>2
  <1>4. ASSUME NEW k
        PROVE  /\ [n EXCEPT !.data = Restrict(@, DOMAIN @ \ {k})] \in NodeT
               /\ SameFrame([n EXCEPT !.data = Restrict(@, DOMAIN @ \ {k})], n)
    <2> DEFINE d == Restrict(n.data, DOMAIN n.data \ {k})
    <2>1. d \in DataT
      BY <1>2, DataOps
    <2>2. [n EXCEPT !.data = Restrict(@, DOMAIN @ \ {k})] = [n EXCEPT !.data = d]
      BY DEF NodeT
    <2> HIDE DEF d
    <2> QED BY <1>1, <2>1, <2>2
  <1> QED BY <1>3, <1>4

\* Swizzled is the set of the tagged values.
LEMMA SwizzledFacts ==
  ASSUME NEW n
  PROVE  /\ \A c : c \in Swizzled(n) <=> \E i \in Tagged(n) : n.kids[i] = c
         /\ Swizzled(n) \in SUBSET Slot
         /\ Swizzled(n) = {} <=> Tagged(n) = {}
         /\ Wired(n) => (Swizzled(n) = {} <=> n.bitmap = {})
  BY DEF Swizzled, Tagged, Wired

\* findIdx finds a tagged child.
LEMMA FindIdxFacts ==
  ASSUME NEW n \in NodeT, NEW s \in Slot
  PROVE  /\ findIdx(n, s) = 0 <=> s \notin Swizzled(n)
         /\ s \in Swizzled(n) => /\ findIdx(n, s) \in Tagged(n) /\ n.kids[findIdx(n, s)] = s
                                 /\ \A j \in DOMAIN n.kids : n.kids[j] = s => findIdx(n, s) <= j
  <1> DEFINE at == {i \in DOMAIN n.kids : n.kids[i] = s}
  <1>1. DOMAIN n.kids = 1 .. Len(n.kids) /\ Len(n.kids) \in Nat
    BY NodeSeqs
  <1>2. s \in Swizzled(n) <=> at # {}
    BY DEF Swizzled
  <1>3. at \in SUBSET Nat
    BY <1>1
  <1>4. findIdx(n, s) = IF at = {} THEN 0 ELSE Min(at)
    BY DEF findIdx
  <1>5. CASE at = {}
    BY <1>2, <1>4, <1>5
  <1>6. CASE at # {}
    <2>1. PICK m \in at : \A x \in at : m <= x
      BY <1>3, <1>6, LeastNumber
    <2>2. Min(at) \in at /\ \A x \in at : Min(at) <= x
      BY <2>1 DEF Min
    <2> QED BY SMTT(40), <1>1, <1>2, <1>4, <1>6, <2>2 DEF Tagged
  <1> QED BY <1>5, <1>6

\* Swizzling child i.
LEMMA WiredSwizzle ==
  ASSUME NEW n \in NodeT, Wired(n), Shape(n), NEW i \in DOMAIN n.kids, n.kids[i] \notin Slot,
         NEW s \in Slot, s \notin Swizzled(n)
  PROVE  /\ Wired(Swizzle(n, i, s)) /\ Shape(Swizzle(n, i, s)) /\ Swizzle(n, i, s) \in NodeT
         /\ Swizzled(Swizzle(n, i, s)) = Swizzled(n) \union {s}
         /\ Swizzle(n, i, s).type = n.type /\ Swizzle(n, i, s).parent = n.parent
         /\ Swizzle(n, i, s).keys = n.keys
  <1> DEFINE q == Swizzle(n, i, s)
  <1>1. /\ q \in NodeT /\ q.type = n.type /\ q.keys = n.keys /\ q.parent = n.parent
        /\ q.kids = [n.kids EXCEPT ![i] = s] /\ q.bitmap = n.bitmap \union {i}
    <2>1. s \in Ref
      BY DEF Ref
    <2> QED BY <2>1, NodeEdits
  <1> HIDE DEF q
  <1>2. DOMAIN n.kids = 1 .. Len(n.kids) /\ Len(n.kids) \in Nat /\ n.kids \in Seq(Ref)
    BY NodeSeqs DEF NodeT
  <1>3. Len(q.kids) = Len(n.kids) /\ DOMAIN q.kids = DOMAIN n.kids
        /\ \A j \in DOMAIN n.kids : q.kids[j] = IF j = i THEN s ELSE n.kids[j]
    BY <1>1, <1>2
  <1>4. Shape(q)
    BY <1>1, <1>2, <1>3 DEF Shape
  <1>5. Tagged(q) = Tagged(n) \union {i}
    BY <1>3 DEF Tagged
  <1>6. \A j \in Tagged(n) : n.kids[j] # s
    BY DEF Swizzled, Tagged
  <1>7. Wired(q)
    <2>1. q.bitmap = Tagged(q)
      BY <1>1, <1>5 DEF Wired
    <2>2. ASSUME NEW x \in Tagged(q), NEW y \in Tagged(q), q.kids[x] = q.kids[y]
          PROVE  x = y
      BY <1>3, <1>5, <1>6, <2>2 DEF Wired, Tagged
    <2> QED BY <2>1, <2>2 DEF Wired
  <1>8. \A c : c \in Swizzled(q) <=> c \in Swizzled(n) \union {s}
    <2>1. \A c : c \in Swizzled(q) <=> \E j \in Tagged(q) : q.kids[j] = c
      BY SwizzledFacts
    <2>2. \A c : c \in Swizzled(n) <=> \E j \in Tagged(n) : n.kids[j] = c
      BY SwizzledFacts
    <2>3. i \notin Tagged(n) /\ \A j \in Tagged(n) : q.kids[j] = n.kids[j]
      BY <1>3 DEF Tagged
    <2> QED BY <1>3, <1>5, <2>1, <2>2, <2>3
  <1>9. Swizzled(q) = Swizzled(n) \union {s}
    BY <1>8
  <1> QED BY <1>1, <1>4, <1>7, <1>9 DEF q

\* Unswizzling the child that is tagged s.
LEMMA WiredUnswizzle ==
  ASSUME NEW n \in NodeT, Wired(n), Shape(n), NEW i \in DOMAIN n.kids, n.kids[i] \in Slot,
         NEW a \in Addr
  PROVE  /\ Wired(Unswizzle(n, i, a)) /\ Shape(Unswizzle(n, i, a)) /\ Unswizzle(n, i, a) \in NodeT
         /\ Swizzled(Unswizzle(n, i, a)) = Swizzled(n) \ {n.kids[i]}
         /\ Unswizzle(n, i, a).type = n.type /\ Unswizzle(n, i, a).parent = n.parent
         /\ Unswizzle(n, i, a).keys = n.keys
  <1> DEFINE q == Unswizzle(n, i, a)
  <1>0. a \notin Slot
    BY SlotsAreNoAddresses
  <1>1. /\ q \in NodeT /\ q.type = n.type /\ q.keys = n.keys /\ q.parent = n.parent
        /\ q.kids = [n.kids EXCEPT ![i] = a] /\ q.bitmap = n.bitmap \ {i}
    <2>1. a \in Ref
      BY DEF Ref
    <2> QED BY <2>1, NodeEdits
  <1> HIDE DEF q
  <1>2. DOMAIN n.kids = 1 .. Len(n.kids) /\ Len(n.kids) \in Nat /\ n.kids \in Seq(Ref)
    BY NodeSeqs DEF NodeT
  <1>3. Len(q.kids) = Len(n.kids) /\ DOMAIN q.kids = DOMAIN n.kids
        /\ \A j \in DOMAIN n.kids : q.kids[j] = IF j = i THEN a ELSE n.kids[j]
    BY <1>1, <1>2
  <1>4. Shape(q)
    BY <1>1, <1>2, <1>3 DEF Shape
  <1>5. Tagged(q) = Tagged(n) \ {i} /\ i \in Tagged(n)
    BY <1>0, <1>3 DEF Tagged
  <1>6. Wired(q)
    <2>1. q.bitmap = Tagged(q)
      BY <1>1, <1>5 DEF Wired
    <2>2. ASSUME NEW x \in Tagged(q), NEW y \in Tagged(q), q.kids[x] = q.kids[y]
          PROVE  x = y
      BY <1>3, <1>5, <2>2 DEF Wired, Tagged
    <2> QED BY <2>1, <2>2 DEF Wired
  <1>7. \A c : c \in Swizzled(q) <=> c \in Swizzled(n) \ {n.kids[i]}
    <2>1. \A c : c \in Swizzled(q) <=> \E j \in Tagged(q) : q.kids[j] = c
      BY SwizzledFacts
    <2>2. \A c : c \in Swizzled(n) <=> \E j \in Tagged(n) : n.kids[j] = c
      BY SwizzledFacts
    <2>3. \A j \in Tagged(q) : q.kids[j] = n.kids[j] /\ n.kids[j] # n.kids[i]
      BY <1>3, <1>5 DEF Tagged, Wired
    <2> QED BY <1>5, <2>1, <2>2, <2>3
  <1>8. Swizzled(q) = Swizzled(n) \ {n.kids[i]}
    BY <1>7
  <1> QED BY <1>1, <1>4, <1>6, <1>8 DEF q

\* A split divides the tagged children between the halves.
LEMMA WiredHalves ==
  ASSUME NEW n \in NodeT, n.type = "inner", isFull(n), Shape(n), Wired(n)
  PROVE  /\ Wired(InnerLeft(n)) /\ Shape(InnerLeft(n))
         /\ Wired(InnerRight(n)) /\ Shape(InnerRight(n))
         /\ Swizzled(InnerLeft(n)) \union Swizzled(InnerRight(n)) = Swizzled(n)
         /\ Swizzled(InnerLeft(n)) \cap Swizzled(InnerRight(n)) = {}
  <1> DEFINE m == Stay(n)
             l == InnerLeft(n)
             r == InnerRight(n)
  <1>1. /\ l \in NodeT /\ r \in NodeT /\ m \in 1 .. Len(n.keys) - 1
        /\ l.type = "inner" /\ r.type = "inner"
        /\ Len(l.keys) = m - 1 /\ Len(l.kids) = m
        /\ \A i \in 1 .. m : l.kids[i] = n.kids[i]
        /\ l.bitmap = {i \in n.bitmap : i <= m}
        /\ Len(r.keys) = Len(n.keys) - m /\ Len(r.kids) = Len(n.kids) - m
        /\ \A i \in 1 .. Len(n.kids) - m : r.kids[i] = n.kids[m + i]
        /\ r.bitmap = {i - m : i \in {j \in n.bitmap : j > m}}
    BY InnerHalves
  <1>2. /\ DOMAIN n.kids = 1 .. Len(n.kids) /\ Len(n.keys) \in Nat /\ Len(n.kids) = Len(n.keys) + 1
    BY NodeSeqs DEF Shape
  <1>3. DOMAIN l.kids = 1 .. Len(l.kids) /\ DOMAIN r.kids = 1 .. Len(r.kids)
    BY <1>1, NodeSeqs
  <1> HIDE DEF m, l, r
  <1>4. m \in Nat /\ m >= 1 /\ m < Len(n.kids)
    BY <1>1, <1>2
  <1>5. Shape(l) /\ Shape(r)
    BY <1>1, <1>2, <1>4 DEF Shape
  <1>6. \A i : i \in Tagged(l) <=> i \in Tagged(n) /\ i <= m
    BY <1>1, <1>2, <1>3, <1>4 DEF Tagged
  <1>7. \A i \in Int : i \in Tagged(r) <=> i >= 1 /\ m + i \in Tagged(n)
    <2> SUFFICES ASSUME NEW i \in Int PROVE i \in Tagged(r) <=> i >= 1 /\ m + i \in Tagged(n)
      OBVIOUS
    <2>1. i \in 1 .. Len(r.kids) <=> i >= 1 /\ m + i \in 1 .. Len(n.kids)
      BY <1>1, <1>2, <1>4
    <2>2. i \in 1 .. Len(r.kids) => r.kids[i] = n.kids[m + i]
      BY <1>1
    <2> QED BY <1>2, <1>3, <2>1, <2>2 DEF Tagged
  <1>8. Tagged(l) \in SUBSET Nat /\ Tagged(r) \in SUBSET Nat /\ Tagged(n) \in SUBSET Nat
    BY <1>2, <1>3 DEF Tagged
  <1>9. \A i \in Tagged(l) : l.kids[i] = n.kids[i]
    BY <1>1, <1>3 DEF Tagged
  <1>10. \A i \in Tagged(r) : r.kids[i] = n.kids[m + i]
    BY <1>1, <1>3 DEF Tagged
  <1>11. Wired(l)
    <2>1. \A i : i \in l.bitmap <=> i \in Tagged(l)
      BY <1>1, <1>6 DEF Wired
    <2>2. ASSUME NEW x \in Tagged(l), NEW y \in Tagged(l), l.kids[x] = l.kids[y]
          PROVE  x = y
      BY <1>6, <1>9, <2>2 DEF Wired
    <2>3. l.bitmap = Tagged(l)
      BY <2>1
    <2> QED BY <2>2, <2>3 DEF Wired
  <1>12. Wired(r)
    <2>1. \A i : i \in r.bitmap <=> \E j \in Tagged(n) : j > m /\ i = j - m
      BY <1>1 DEF Wired
    <2>2. ASSUME NEW i \in r.bitmap PROVE i \in Tagged(r)
      <3>1. PICK j \in Tagged(n) : j > m /\ i = j - m
        BY <2>1, <2>2
      <3>2. i \in Int /\ i >= 1 /\ m + i = j
        BY <1>4, <1>8, <3>1
      <3> QED BY <1>7, <3>1, <3>2
    <2>3. ASSUME NEW i \in Tagged(r) PROVE i \in r.bitmap
      <3>1. i \in Int
        BY <1>8
      <3>2. i >= 1 /\ m + i \in Tagged(n)
        BY <1>7, <3>1
      <3>3. m + i > m /\ i = (m + i) - m
        BY <1>4, <3>1, <3>2
      <3> QED BY <2>1, <3>2, <3>3
    <2>4. r.bitmap = Tagged(r)
      BY <2>2, <2>3
    <2>5. ASSUME NEW x \in Tagged(r), NEW y \in Tagged(r), r.kids[x] = r.kids[y]
          PROVE  x = y
      <3>1. x \in Int /\ y \in Int
        BY <1>8
      <3>2. m + x \in Tagged(n) /\ m + y \in Tagged(n) /\ n.kids[m + x] = n.kids[m + y]
        BY <1>7, <1>10, <2>5, <3>1
      <3>3. m + x = m + y
        BY <3>2 DEF Wired
      <3> QED BY <1>4, <3>1, <3>3
    <2> QED BY <2>4, <2>5 DEF Wired
  <1>13. /\ \A c : c \in Swizzled(l) <=> \E i \in Tagged(l) : l.kids[i] = c
         /\ \A c : c \in Swizzled(r) <=> \E i \in Tagged(r) : r.kids[i] = c
         /\ \A c : c \in Swizzled(n) <=> \E i \in Tagged(n) : n.kids[i] = c
    BY SwizzledFacts
  <1>14. ASSUME NEW c, c \in Swizzled(n) PROVE c \in Swizzled(l) \/ c \in Swizzled(r)
    <2>1. PICK i \in Tagged(n) : n.kids[i] = c
      BY <1>13, <1>14
    <2>2. CASE i <= m
      BY <1>6, <1>9, <1>13, <2>1, <2>2
    <2>3. CASE i > m
      <3>1. i - m \in Int /\ i - m >= 1 /\ m + (i - m) = i
        BY <1>4, <1>8, <2>3
      <3>2. i - m \in Tagged(r)
        BY <1>7, <3>1
      <3>3. r.kids[i - m] = c
        BY <1>10, <2>1, <3>1, <3>2
      <3> QED BY <1>13, <3>2, <3>3
    <2> QED BY <1>4, <1>8, <2>2, <2>3
  <1>15. ASSUME NEW c, c \in Swizzled(r) PROVE c \in Swizzled(n) /\ c \notin Swizzled(l)
    <2>1. PICK i \in Tagged(r) : r.kids[i] = c
      BY <1>13, <1>15
    <2>2. i \in Int
      BY <1>8
    <2>3. m + i \in Tagged(n) /\ n.kids[m + i] = c /\ i >= 1
      BY <1>7, <1>10, <2>1, <2>2
    <2>4. ASSUME c \in Swizzled(l) PROVE FALSE
      <3>1. PICK j \in Tagged(l) : l.kids[j] = c
        BY <1>13, <2>4
      <3>2. j \in Tagged(n) /\ n.kids[j] = c /\ j <= m /\ j \in Nat
        BY <1>6, <1>8, <1>9, <3>1
      <3>3. j = m + i
        BY <2>3, <3>2 DEF Wired
      <3> QED BY <1>4, <2>2, <2>3, <3>2, <3>3
    <2> QED BY <1>13, <2>3, <2>4
  <1>16. \A c \in Swizzled(l) : c \in Swizzled(n)
    BY <1>6, <1>9, <1>13
  <1>17. Swizzled(l) \union Swizzled(r) = Swizzled(n) /\ Swizzled(l) \cap Swizzled(r) = {}
    BY <1>14, <1>15, <1>16
  <1> QED BY <1>5, <1>11, <1>12, <1>17 DEF l, r

\* Linking a sibling adds it, tagged or not, and moves the bits behind it along.
LEMMA WiredInsert ==
  ASSUME NEW n \in NodeT, n.type = "inner", Shape(n), Wired(n), NEW k \in Key, NEW r \in Ref,
         r \notin Swizzled(n)
  PROVE  /\ Wired(InnerInsert(n, k, r)) /\ Shape(InnerInsert(n, k, r))
         /\ Swizzled(InnerInsert(n, k, r)) = Swizzled(n) \union ({r} \cap Slot)
  <1> DEFINE q == InnerInsert(n, k, r)
             p == lowerBound(n, k)
  <1>1. /\ q \in NodeT /\ q.type = "inner" /\ p \in 1 .. Len(n.keys) + 1
        /\ Inserted(q.keys, n.keys, p, k) /\ Inserted(q.kids, n.kids, p + 1, r)
        /\ q.bitmap = {i \in n.bitmap : i <= p} \union {i + 1 : i \in {j \in n.bitmap : j > p}}
                        \union (IF r \in Slot THEN {p + 1} ELSE {})
    BY InnerInsertFacts
  <1> HIDE DEF q, p
  <1>2. /\ DOMAIN n.kids = 1 .. Len(n.kids) /\ Len(n.kids) \in Nat /\ Len(n.keys) \in Nat
        /\ Len(n.kids) = Len(n.keys) + 1
    BY NodeSeqs DEF Shape
  <1>3. DOMAIN q.kids = 1 .. Len(n.kids) + 1 /\ Len(q.kids) = Len(n.kids) + 1
    <2>1. DOMAIN q.kids = 1 .. Len(q.kids)
      BY <1>1, NodeSeqs
    <2> QED BY <1>1, <2>1 DEF Inserted
  <1>4. p \in Nat /\ p >= 1 /\ p <= Len(n.kids)
    BY <1>1, <1>2
  <1>5. Shape(q)
    BY <1>1, <1>2, <1>3 DEF Shape, Inserted
  <1> DEFINE Old(i) == IF i <= p THEN i ELSE i - 1
  <1>6. \A i \in 1 .. Len(n.kids) + 1 : i # p + 1 => Old(i) \in 1 .. Len(n.kids) /\ q.kids[i] = n.kids[Old(i)]
    <2> SUFFICES ASSUME NEW i \in 1 .. Len(n.kids) + 1, i # p + 1
                 PROVE  Old(i) \in 1 .. Len(n.kids) /\ q.kids[i] = n.kids[Old(i)]
      OBVIOUS
    <2>1. q.kids[i] = IF i < p + 1 THEN n.kids[i] ELSE IF i = p + 1 THEN r ELSE n.kids[i - 1]
      BY <1>1 DEF Inserted
    <2>2. i < p + 1 <=> i <= p
      BY <1>4
    <2>3. Old(i) \in 1 .. Len(n.kids)
      BY <1>2, <1>4
    <2> QED BY <2>1, <2>2, <2>3
  <1>7. p + 1 \in 1 .. Len(n.kids) + 1 /\ q.kids[p + 1] = r
    <2>1. p + 1 \in 1 .. Len(n.kids) + 1 /\ ~(p + 1 < p + 1)
      BY <1>2, <1>4
    <2> QED BY <1>1, <2>1 DEF Inserted
  <1>8. \A i \in Int : i \in Tagged(q) <=>
          \/ i = p + 1 /\ r \in Slot
          \/ i # p + 1 /\ Old(i) \in Tagged(n) /\ i \in 1 .. Len(n.kids) + 1
    BY <1>2, <1>3, <1>6, <1>7 DEF Tagged
  <1>9. Tagged(n) \in SUBSET Nat /\ Tagged(q) \in SUBSET Nat
    BY <1>2, <1>3 DEF Tagged
  <1>10. \A i \in Int : i \in q.bitmap <=>
          \/ i = p + 1 /\ r \in Slot
          \/ i # p + 1 /\ Old(i) \in Tagged(n) /\ i \in 1 .. Len(n.kids) + 1
    <2> SUFFICES ASSUME NEW i \in Int
                 PROVE  i \in q.bitmap <=>
                          \/ i = p + 1 /\ r \in Slot
                          \/ i # p + 1 /\ Old(i) \in Tagged(n) /\ i \in 1 .. Len(n.kids) + 1
      OBVIOUS
    <2>1. i \in q.bitmap <=> \/ i \in Tagged(n) /\ i <= p
                             \/ \E j \in Tagged(n) : j > p /\ i = j + 1
                             \/ i = p + 1 /\ r \in Slot
      BY <1>1 DEF Wired
    <2>2. (\E j \in Tagged(n) : j > p /\ i = j + 1) <=> i - 1 \in Tagged(n) /\ i - 1 > p
      <3>1. \A j \in Tagged(n) : i = j + 1 <=> j = i - 1
        BY <1>9
      <3> QED BY <3>1
    <2>3. \A j \in Tagged(n) : j \in 1 .. Len(n.kids)
      BY <1>2 DEF Tagged
    <2>4. CASE i <= p
      <3>1. i # p + 1 /\ ~(i - 1 > p) /\ Old(i) = i
        BY <1>4, <2>4
      <3>2. i \in Tagged(n) => i \in 1 .. Len(n.kids) + 1
        BY <1>2, <2>3
      <3> QED BY <2>1, <2>2, <2>4, <3>1, <3>2
    <2>5. CASE i = p + 1
      <3>1. ~(i <= p) /\ ~(i - 1 > p)
        BY <1>4, <2>5
      <3> QED BY <2>1, <2>2, <2>5, <3>1
    <2>6. CASE i > p + 1
      <3>1. ~(i <= p) /\ i - 1 > p /\ Old(i) = i - 1 /\ i # p + 1
        BY <1>4, <2>6
      <3>2. i - 1 \in Tagged(n) => i \in 1 .. Len(n.kids) + 1
        BY <1>2, <1>4, <2>3, <2>6
      <3> QED BY <2>1, <2>2, <3>1, <3>2
    <2>7. i <= p \/ i = p + 1 \/ i > p + 1
      BY <1>4
    <2> QED BY <2>4, <2>5, <2>6, <2>7
  <1>11. q.bitmap = Tagged(q)
    <2>1. q.bitmap \in SUBSET Int
      BY <1>1 DEF NodeT
    <2>2. \A i \in Int : i \in q.bitmap <=> i \in Tagged(q)
      BY <1>8, <1>10
    <2> QED BY <1>9, <2>1, <2>2
  <1>12. ASSUME NEW x \in Tagged(q), NEW y \in Tagged(q), q.kids[x] = q.kids[y] PROVE x = y
    <2>0. /\ x \in Int /\ y \in Int /\ x \in 1 .. Len(n.kids) + 1 /\ y \in 1 .. Len(n.kids) + 1
          /\ q.kids[x] \in Slot
      BY <1>3, <1>9 DEF Tagged
    <2>1. \A z \in Tagged(n) : n.kids[z] # r
      BY DEF Swizzled, Tagged
    <2>2. CASE x = p + 1
      <3>1. ASSUME y # p + 1 PROVE FALSE
        <4>1. Old(y) \in Tagged(n) /\ n.kids[Old(y)] = r
          BY <1>6, <1>7, <1>8, <1>12, <2>0, <2>2, <3>1
        <4> QED BY <2>1, <4>1
      <3> QED BY <2>2, <3>1
    <2>3. CASE y = p + 1
      <3>1. ASSUME x # p + 1 PROVE FALSE
        <4>1. Old(x) \in Tagged(n) /\ n.kids[Old(x)] = r
          BY <1>6, <1>7, <1>8, <1>12, <2>0, <2>3, <3>1
        <4> QED BY <2>1, <4>1
      <3> QED BY <2>3, <3>1
    <2>4. CASE x # p + 1 /\ y # p + 1
      <3>1. /\ Old(x) \in Tagged(n) /\ Old(y) \in Tagged(n)
            /\ n.kids[Old(x)] = n.kids[Old(y)]
        BY <1>6, <1>8, <1>12, <2>0, <2>4
      <3>2. Old(x) = Old(y)
        BY <3>1 DEF Wired
      <3> QED BY <1>4, <2>0, <2>4, <3>2
    <2> QED BY <2>2, <2>3, <2>4
  <1>13. \A c : c \in Swizzled(q) <=> c \in Swizzled(n) \union ({r} \cap Slot)
    <2>1. /\ \A c : c \in Swizzled(q) <=> \E j \in Tagged(q) : q.kids[j] = c
          /\ \A c : c \in Swizzled(n) <=> \E j \in Tagged(n) : n.kids[j] = c
      BY SwizzledFacts
    <2>2. ASSUME NEW c, c \in Swizzled(q) PROVE c \in Swizzled(n) \union ({r} \cap Slot)
      <3>1. PICK j \in Tagged(q) : q.kids[j] = c
        BY <2>1, <2>2
      <3>2. j \in Int /\ j \in 1 .. Len(n.kids) + 1
        BY <1>3, <1>9 DEF Tagged
      <3>3. CASE j = p + 1
        BY <1>7, <1>8, <3>1, <3>2, <3>3
      <3>4. CASE j # p + 1
        <4>1. Old(j) \in Tagged(n) /\ n.kids[Old(j)] = c
          BY <1>6, <1>8, <3>1, <3>2, <3>4
        <4> QED BY <2>1, <4>1
      <3> QED BY <3>3, <3>4
    <2>3. ASSUME r \in Slot PROVE r \in Swizzled(q)
      <3>1. p + 1 \in Tagged(q)
        BY <1>4, <1>8, <2>3
      <3> QED BY <1>7, <2>1, <3>1
    <2>4. ASSUME NEW c \in Swizzled(n) PROVE c \in Swizzled(q)
      <3>1. PICK j \in Tagged(n) : n.kids[j] = c
        BY <2>1
      <3>2. j \in Nat /\ j \in 1 .. Len(n.kids)
        BY <1>2, <1>9 DEF Tagged
      <3> DEFINE i == IF j <= p THEN j ELSE j + 1
      <3>3. i \in Int /\ i # p + 1 /\ Old(i) = j /\ i \in 1 .. Len(n.kids) + 1
        BY <1>2, <1>4, <3>2
      <3> HIDE DEF i
      <3>4. i \in Tagged(q)
        BY <1>8, <3>1, <3>3
      <3>5. q.kids[i] = c
        BY <1>6, <3>1, <3>3
      <3> QED BY <2>1, <3>4, <3>5
    <2> QED BY <2>2, <2>3, <2>4
  <1>14. Swizzled(q) = Swizzled(n) \union ({r} \cap Slot)
    BY <1>13
  <1> QED BY <1>5, <1>11, <1>12, <1>14 DEF q, Wired

\* fully_unswizzle.
LEMMA UnswizzledFacts ==
  ASSUME NEW n \in NodeT, remote_address \in [Slot -> Addr]
  PROVE  /\ Unswizzled(n) \in NodeT
         /\ Unswizzled(n).type = n.type /\ Unswizzled(n).level = n.level
         /\ Unswizzled(n).data = n.data /\ Unswizzled(n).keys = n.keys
         /\ Unswizzled(n).parent = n.parent /\ Unswizzled(n).lo = n.lo /\ Unswizzled(n).hi = n.hi
         /\ Len(Unswizzled(n).kids) = Len(n.kids) /\ DOMAIN Unswizzled(n).kids = DOMAIN n.kids
         /\ \A i \in DOMAIN n.kids :
              Unswizzled(n).kids[i] = IF n.kids[i] \in Slot THEN remote_address[n.kids[i]] ELSE n.kids[i]
         /\ Unswizzled(n).bitmap = {} /\ Swizzled(Unswizzled(n)) = {}
  <1> DEFINE f == [i \in DOMAIN n.kids |-> IF n.kids[i] \in Slot
                                           THEN remote_address[n.kids[i]] ELSE n.kids[i]]
  <1>1. DOMAIN n.kids = 1 .. Len(n.kids) /\ Len(n.kids) \in Nat /\ \A i \in 1 .. Len(n.kids) : n.kids[i] \in Ref
    BY NodeSeqs
  <1>2. \A i \in 1 .. Len(n.kids) : f[i] \in Addr /\ f[i] \notin Slot /\ f[i] \in Ref
    BY <1>1, SlotsAreNoAddresses DEF Ref
  <1>3. f \in Seq(Ref) /\ Len(f) = Len(n.kids) /\ DOMAIN f = DOMAIN n.kids
    <2>1. f \in [1 .. Len(n.kids) -> Ref]
      BY <1>1, <1>2
    <2>2. DOMAIN f = DOMAIN n.kids
      OBVIOUS
    <2> HIDE DEF f
    <2>3. f \in Seq(Ref)
      BY <1>1, <2>1, SeqDef
    <2>4. DOMAIN f = 1 .. Len(f) /\ Len(f) \in Nat
      BY <2>3, LenProperties
    <2>5. Len(f) = Len(n.kids)
      BY <1>1, <2>2, <2>4
    <2> QED BY <2>2, <2>3, <2>5
  <1>4. Unswizzled(n) = [n EXCEPT !.kids = f, !.bitmap = {}]
    BY DEF Unswizzled
  <1>5. \A i \in DOMAIN n.kids :
          f[i] = IF n.kids[i] \in Slot THEN remote_address[n.kids[i]] ELSE n.kids[i]
    OBVIOUS
  <1> HIDE DEF f
  <1> DEFINE q == Unswizzled(n)
  <1>6. /\ q \in NodeT /\ q.type = n.type /\ q.level = n.level
        /\ q.data = n.data /\ q.keys = n.keys
        /\ q.parent = n.parent /\ q.lo = n.lo /\ q.hi = n.hi
        /\ q.kids = f /\ q.bitmap = {}
    BY <1>3, <1>4 DEF NodeT
  <1> HIDE DEF q
  <1>7. Swizzled(q) = {}
    BY <1>1, <1>2, <1>3, <1>6 DEF Swizzled
  <1> QED BY <1>3, <1>5, <1>6, <1>7 DEF q

-----------------------------------------------------------------------------
(* The tree's steps on the pool *)

\* The slots in use.
Used == {s \in Slot : InUse(s)}

\* A step that leaves the pool alone.
LEMMA StillPool ==
  ASSUME OwnInv, UNCHANGED poolVars
  PROVE  OwnInv' /\ Used' = Used
  BY DEF OwnInv, OwnTypes, SlotOwnership, TableInjective, FreeListInjective, OwnerTagged,
         InFlightUnowned, WarmUpEnds, InTable, InFreeList, InUse, Used, poolVars, pages, control

\* Dirtying and flushing move no slot.
LEMMA WriteKeepsUsed ==
  ASSUME OwnInv, (\E S : MarkDirty(S)) \/ FlushAll
  PROVE  OwnInv' /\ Used' = Used
  <1>1. /\ UNCHANGED <<state, unallocated, pos_state, remote_address, local_page_set, table_, page,
                       pin, prev_state, phase, to_sample>>
        /\ dirty' \in [Slot -> BOOLEAN] /\ phase = "idle"
    <2>1. CASE FlushAll
      BY <2>1 DEF FlushAll, control
    <2>2. CASE \E S : MarkDirty(S)
      <3>1. PICK S : MarkDirty(S)
        BY <2>2
      <3>2. \A s \in Slot : (s \in S \/ dirty[s]) \in BOOLEAN
        BY Zenon
      <3>3. dirty' = [s \in Slot |-> s \in S \/ dirty[s]]
        BY <3>1 DEF MarkDirty
      <3>4. [s \in Slot |-> s \in S \/ dirty[s]] \in [Slot -> BOOLEAN]
        BY <3>2, Zenon
      <3> QED BY <3>1, <3>3, <3>4 DEF MarkDirty, control
    <2> QED BY <2>1, <2>2
  <1>2. OwnInv'
    BY <1>1, QuietOwn DEF OwnInv, OwnTypes
  <1> QED BY <1>1, <1>2 DEF Used, InUse

\* While nothing is pinned, a slot in use is hot.
LEMMA UsedIsHot ==
  ASSUME OwnInv, phase = "idle", NEW s \in Used
  PROVE  pos_state[s] = 2 /\ s \in HotSlots
  <1>1. page = NoSlot /\ pin = NoSlot /\ s \in Slot /\ s # NoSlot
    BY SlotAssumption DEF OwnInv, OwnTypes, Used
  <1>2. pos_state[s] # 4
    BY <1>1 DEF OwnInv, SlotOwnership, OwnerTagged
  <1> QED BY <1>1, <1>2 DEF Used, InUse, HotSlots

\* A request pins a page in use or none.
LEMMA RequestKeepsUsed ==
  ASSUME OwnInv, NEW p \in Used \union {NoSlot}, RequestPage(p)
  PROVE  OwnInv' /\ Used' = Used /\ phase' = "get" /\ pin' = p
  <1>1. phase = "idle" /\ page = NoSlot /\ pin = NoSlot /\ NoSlot \notin Slot
    BY SlotAssumption DEF OwnInv, OwnTypes, RequestPage
  <1>2. p # NoSlot => p \in Slot /\ pos_state[p] = 2
    BY <1>1, UsedIsHot DEF Used
  <1>3. \A s \in Slot : pos_state'[s] = IF s = p THEN 4 ELSE pos_state[s]
    BY <1>1, <1>2 DEF RequestPage, OwnInv, OwnTypes
  <1>4. OwnTypes'
    BY <1>1, <1>2 DEF RequestPage, OwnInv, OwnTypes
  <1>5. SlotOwnership'
    <2>1. TableInjective' /\ FreeListInjective' /\ WarmUpEnds'
      BY DEF RequestPage, OwnInv, SlotOwnership, TableInjective, FreeListInjective, WarmUpEnds
    <2>2. OwnerTagged' /\ InFlightUnowned'
      BY <1>1, <1>2, <1>3 DEF RequestPage, OwnInv, SlotOwnership, OwnerTagged, InFlightUnowned,
             InTable, InFreeList, InUse
    <2> QED BY <2>1, <2>2 DEF SlotOwnership
  <1>6. \A s \in Slot : InUse(s)' <=> InUse(s)
    BY <1>1, <1>2, <1>3 DEF InUse
  <1>7. Used' = Used
    BY <1>6 DEF Used
  <1> QED BY <1>4, <1>5, <1>7 DEF OwnInv, RequestPage

\* get_empty_page takes no slot from the tree.
LEMMA GetKeepsUsed ==
  ASSUME OwnInv, GetEmptyPage
  PROVE  /\ OwnInv' /\ Used' = Used /\ phase \notin {"idle", "exit"} /\ phase' # "idle"
         /\ pin' = pin
  <1>1. CASE \E s \in Slot : Allocate(s)
    <2>1. PICK s \in Slot : Allocate(s)
      BY <1>1
    <2> QED BY <2>1, AllocateOwn DEF Allocate, Used, InUse, pages
  <1>2. CASE TakeLocal
    BY <1>2, TakeLocalOwn DEF TakeLocal, Used, InUse, pages
  <1>3. CASE \E idx \in Bucket : EvictCool(idx)
    <2>1. PICK idx \in Bucket : EvictCool(idx)
      BY <1>3
    <2> QED BY <2>1, EvictCoolOwn DEF EvictCool, Used, InUse, pages
  <1>4. CASE \E idx \in Bucket : ProbeFails(idx)
    <2>1. PICK idx \in Bucket : ProbeFails(idx)
      BY <1>4
    <2>2. OwnInv'
      BY <2>1, QuietOwn, TuningAssumption DEF ProbeFails, OwnInv, OwnTypes, pages
    <2> QED BY <2>1, <2>2 DEF ProbeFails, Used, InUse, pages
  <1>5. CASE SampleExit
    <2>2. OwnInv'
      BY <1>5, QuietOwn DEF SampleExit, OwnInv, OwnTypes, pages
    <2> QED BY <1>5, <2>2 DEF SampleExit, Used, InUse, pages
  <1> QED BY <1>1, <1>2, <1>3, <1>4, <1>5 DEF GetEmptyPage

\* The slot in flight joins the slots in use.
LEMMA InsertAddsUsed ==
  ASSUME OwnInv, NEW a \in Addr, NEW d \in BOOLEAN, CacheInsert(a, d)
  PROVE  /\ OwnInv' /\ page \in Slot /\ page \notin Used /\ Used' = Used \union {page}
         /\ phase' = "idle" /\ phase = "admit"
         /\ \A s \in Slot : remote_address'[s] = IF s = page THEN a ELSE remote_address[s]
         /\ \A s \in Slot : dirty'[s] = IF s = page THEN d ELSE dirty[s]
  <1>1. /\ OwnInv' /\ page \in Slot /\ page # pin /\ ~InUse(page)
        /\ \A s \in Slot : /\ pos_state'[s] = IF s = page \/ s = pin THEN 2 ELSE pos_state[s]
                           /\ remote_address'[s] = IF s = page THEN a ELSE remote_address[s]
                           /\ dirty'[s] = IF s = page THEN d ELSE dirty[s]
        /\ pin # NoSlot => pos_state[pin] = 4
    BY CacheInsertOwn
  <1>2. \A s \in Slot : InUse(s)' <=> InUse(s) \/ s = page
    BY <1>1, SlotAssumption DEF InUse
  <1>3. Used' = Used \union {page}
    BY <1>1, <1>2 DEF Used
  <1> QED BY <1>1, <1>3 DEF CacheInsert, Used

\* A demoted page leaves the slots in use, and no other page does.
LEMMA DemoteTakesUsed ==
  ASSUME OwnInv, NEW x \in Slot, SamplePage(x)
  PROVE  /\ OwnInv' /\ x \in Used /\ Used' = Used \ {x} /\ phase = "sample" /\ phase' # "idle"
         /\ pin' = pin /\ pos_state[x] = 2 /\ remote_address' = remote_address
         /\ dirty' = [dirty EXCEPT ![x] = FALSE]
  <1>1. x \in HotSlots
    BY DEF SamplePage
  <1>2. OwnInv' /\ Demoted(x)
    BY <1>1, SamplePageOwn
  <1>3. PICK b, full, e : DemotedTo(x, b, full, e)
    BY <1>2 DEF Demoted
  <1>4. /\ pos_state[x] = 2
        /\ full => e \in Slot /\ pos_state[e] = 1 /\ e # x
        /\ \A s \in Slot : pos_state'[s] = IF s = x THEN 1 ELSE IF full /\ s = e THEN 3 ELSE pos_state[s]
        /\ remote_address' = remote_address /\ pin' = pin /\ dirty' = [dirty EXCEPT ![x] = FALSE]
    BY <1>3 DEF DemotedTo
  <1>5. \A s \in Slot : InUse(s)' <=> InUse(s) /\ s # x
    <2> SUFFICES ASSUME NEW s \in Slot PROVE InUse(s)' <=> InUse(s) /\ s # x
      OBVIOUS
    <2>1. pos_state'[s] = IF s = x THEN 1 ELSE IF full /\ s = e THEN 3 ELSE pos_state[s]
      BY <1>4
    <2>2. CASE s = x
      BY <2>1, <2>2 DEF InUse
    <2>3. CASE s # x /\ full /\ s = e
      BY <1>4, <2>1, <2>3 DEF InUse
    <2>4. CASE s # x /\ ~(full /\ s = e)
      BY <2>1, <2>4 DEF InUse
    <2> QED BY <2>2, <2>3, <2>4
  <1>6. Used' = Used \ {x}
    BY <1>5 DEF Used
  <1> QED BY <1>2, <1>4, <1>6 DEF SamplePage, Used, InUse

-----------------------------------------------------------------------------
(* The invariant *)

Unlinked(c) == super # c /\ \A s \in Used : c \notin Swizzled(node[s])
Untagged(n) == n.bitmap = {} /\ Swizzled(n) = {}

TreeTypes ==
  /\ node \in [Slot -> NodeT]
  /\ backend \in [Addr -> [node : NodeT, dirty : BOOLEAN]]
  /\ super \in Ref /\ right \in Ref /\ root_ \in Addr /\ cur_offset \in 2 .. BackendPages
  /\ cur \in Slot \union {Super} /\ child \in Slot \union {NoSlot}
  /\ adm \in [node : NodeT, addr : Addr, dirty : BOOLEAN, idx : Nat]
  /\ op \in Calls \union {NoCall}
  /\ pc \in {"idle", "visit", "load", "split", "sib", "sibling", "link", "root", "leaf",
             "aborted", "closed"}
  /\ pc \in {"sib", "link", "root", "sibling"} => sep \in Key
Shapes ==
  /\ \A s \in Slot : Shape(node[s])
  /\ \A a \in Addr : Shape(backend[a].node) /\ Untagged(backend[a].node)
  /\ Shape(adm.node)
\* Where the program stands inside a page request.
PcPhase ==
  /\ pc \notin {"load", "sib", "root", "aborted"} => phase = "idle"
  /\ pc = "load" => phase # "idle" /\ pin = (IF cur = Super THEN NoSlot ELSE cur)
  /\ pc \in {"sib", "root"} => pin = NoSlot
  /\ pc = "aborted" => phase = "exit"
CurHere ==
  /\ pc \in {"idle", "closed", "root"} => cur = Super
  /\ pc \in {"leaf", "sibling"} => cur # Super
  /\ cur # Super => cur \in Used /\ (node[cur].type = "inner" <=> pc # "leaf")
  /\ pc = "sibling" => \E i \in DOMAIN node[cur].keys : node[cur].keys[i] = sep
ChildHere ==
  pc \in {"split", "sib", "link", "root"} =>
    /\ child \in Used
    /\ IF cur = Super THEN super = child ELSE child \in Swizzled(node[cur])
    /\ pc = "split" => isFull(node[child])
RightHere ==
  pc \in {"link", "root"} /\ right \in Slot =>
    /\ right \in Used /\ right # child /\ right # cur /\ node[right].parent = cur
    /\ Unlinked(right)
AdmHere ==
  /\ pc \notin {"load", "sib", "root"} => adm = NoPage
  /\ pc = "load" =>
       /\ Untagged(adm.node)
       /\ IF cur = Super THEN super \notin Slot
          ELSE adm.idx \in DOMAIN node[cur].kids /\ node[cur].kids[adm.idx] \notin Slot
  /\ pc = "sib" =>
       /\ Wired(adm.node) /\ right \notin Slot
       /\ \A c \in Swizzled(adm.node) :
            c \in Used /\ c # child /\ node[c].parent \in {child, NoSlot} /\ Unlinked(c)
  /\ pc = "root" =>
       Wired(adm.node) /\ Swizzled(adm.node) = {child, right} \cap Slot
Wires ==
  /\ \A s \in Used :
       Wired(node[s]) /\ \A c \in Swizzled(node[s]) : c # s /\ c \in Used /\ node[c].parent = s
  /\ super \in Slot => super \in Used /\ node[super].parent = Super
Anchored ==
  \A s \in Used :
    \/ pc = "sib" /\ s \in Swizzled(adm.node)
    \/ node[s].parent \in Used /\ s \in Swizzled(node[node[s].parent])
    \/ node[s].parent = Super /\ super = s
    \/ pc \in {"link", "root"} /\ s = right /\ node[s].parent = cur
Wiring == CurHere /\ ChildHere /\ RightHere /\ AdmHere /\ Wires /\ Anchored
WireInv == TreeTypes /\ Shapes /\ PcPhase /\ (pc # "aborted" => Wiring)

\* The nodes the constructor starts with.
Blank(n) ==
  n \in NodeT /\ n.keys = <<>> /\ n.kids = <<>> /\ n.bitmap = {} /\ n.type # "inner"

\* A blank node refers to nothing.
LEMMA BlankFacts ==
  ASSUME NEW n, Blank(n)
  PROVE  n \in NodeT /\ Shape(n) /\ Untagged(n)
  BY DEF Blank, Shape, Untagged, Swizzled

\* The nodes Init and NoPage are made of are blank.
LEMMA FreshNodes ==
  /\ Blank(Leaf(<<>>, MinLimit, MaxLimit)) /\ Blank(Zeroed)
  <1>1. ASSUME NEW hi \in MinLimit .. MaxLimit PROVE Blank(Leaf(<<>>, MinLimit, hi))
    <2>1. MinLimit \in MinLimit .. MaxLimit
      BY TreeAssumption DEF MinLimit, MaxLimit
    <2> DEFINE l == Leaf(<<>>, MinLimit, hi)
    <2>2. l \in NodeT /\ l.keys = <<>> /\ l.kids = <<>> /\ l.bitmap = {} /\ l.type # "inner"
      BY <2>1, NoData DEF Leaf, NodeT
    <2> QED BY <2>2 DEF Blank
  <1>2. MinLimit \in MinLimit .. MaxLimit /\ MaxLimit \in MinLimit .. MaxLimit
    BY TreeAssumption DEF MinLimit, MaxLimit
  <1>3. ASSUME NEW n, Blank(n) PROVE Blank([n EXCEPT !.type = "none"])
    BY <1>3 DEF Blank, NodeT
  <1>4. Blank(Leaf(<<>>, MinLimit, MinLimit)) /\ Blank(Leaf(<<>>, MinLimit, MaxLimit))
    BY <1>1, <1>2
  <1> QED BY <1>3, <1>4 DEF Zeroed

\* While no request is under way no page waits for a slot.
LEMMA EmptyAdm ==
  /\ NoPage \in [node : NodeT, addr : Addr, dirty : BOOLEAN, idx : Nat]
  /\ Shape(NoPage.node) /\ Untagged(NoPage.node) /\ NoPage.addr = NullAddr
  BY FreshNodes, BlankFacts, SlotsAreNoAddresses DEF NoPage

\* The wiring makes every swizzled reference good.
LEMMA RefsInUse ==
  ASSUME Wiring
  PROVE  /\ \A s \in Used : \A c \in Swizzled(node[s]) : c \in Used
         /\ \A c \in Swizzled(adm.node) : c \in Used
         /\ super \in Slot => super \in Used
         /\ pc \in {"sib", "link", "root"} => \A c \in {child, right} \cap Slot : c \in Used
  <1>1. pc \in {"sib", "link", "root"} => \A c \in {child, right} \cap Slot : c \in Used
    BY DEF Wiring, ChildHere, RightHere, AdmHere
  <1>2. ASSUME NEW c \in Swizzled(adm.node) PROVE c \in Used
    <2>1. CASE pc \notin {"load", "sib", "root"}
      BY <2>1, EmptyAdm DEF Wiring, AdmHere, Untagged
    <2>2. CASE pc = "load"
      BY <2>2 DEF Wiring, AdmHere, Untagged
    <2>3. CASE pc = "sib"
      BY <2>3 DEF Wiring, AdmHere
    <2>4. CASE pc = "root"
      BY <1>1, <2>4 DEF Wiring, AdmHere
    <2> QED BY <2>1, <2>2, <2>3, <2>4
  <1> QED BY <1>1, <1>2 DEF Wiring, Wires

\* And so nothing dangles.
LEMMA WiredIsSane ==
  ASSUME Wiring
  PROVE  NoDanglingRef
  <1>1. \A s : s \in Used <=> s \in Slot /\ InUse(s)
    BY DEF Used
  <1> QED BY <1>1, RefsInUse DEF NoDanglingRef, InUseInner, Splitting

\* Image(n, d) is n without its parent pointer.
LEMMA ImageFacts ==
  ASSUME NEW n \in NodeT, NEW d \in BOOLEAN
  PROVE  /\ Image(n, d) \in [node : NodeT, dirty : BOOLEAN]
         /\ Image(n, d).node = WithParent(n, NoSlot) /\ Image(n, d).dirty = d
         /\ Shape(n) => Shape(Image(n, d).node)
         /\ Untagged(n) => Untagged(Image(n, d).node)
         /\ Swizzled(Image(n, d).node) = Swizzled(n)
  <1> DEFINE q == WithParent(n, NoSlot)
  <1>1. /\ q \in NodeT /\ q.type = n.type /\ q.keys = n.keys /\ q.kids = n.kids
        /\ q.bitmap = n.bitmap
    BY NodeEdits
  <1>2. Image(n, d) = [node |-> q, dirty |-> d]
    BY DEF Image
  <1> HIDE DEF q
  <1>3. Image(n, d) \in [node : NodeT, dirty : BOOLEAN] /\ Image(n, d).node = q /\ Image(n, d).dirty = d
    BY <1>1, <1>2
  <1>4. Shape(n) => Shape(q)
    BY <1>1 DEF Shape
  <1>5. (Untagged(n) => Untagged(q)) /\ Swizzled(q) = Swizzled(n)
    BY <1>1 DEF Untagged, Swizzled
  <1> QED BY <1>3, <1>4, <1>5 DEF q

\* alloc returns an address, NullAddr when the store is full.
LEMMA AllocFacts ==
  ASSUME cur_offset \in 2 .. BackendPages
  PROVE  /\ AllocAddr \in Addr /\ AllocAddr \in Ref /\ AllocAddr \notin Slot
         /\ AllocOffset \in 2 .. BackendPages
  <1>1. BackendPages \in Nat /\ BackendPages >= 2
    BY SlotsAreNoAddresses
  <1>2. AllocAddr \in Addr
    BY <1>1 DEF AllocAddr, Addr, NullAddr
  <1>3. AllocOffset \in 2 .. BackendPages
    BY <1>1 DEF AllocOffset
  <1> QED BY <1>2, <1>3, SlotsAreNoAddresses DEF Ref

\* A write reaches at most one backend page.
LEMMA BackendWrite ==
  ASSUME TreeTypes, Shapes, NEW a \in Addr, NEW n \in NodeT, Shape(n), Untagged(n), NEW d \in BOOLEAN,
         backend' = [backend EXCEPT ![a] = Image(n, d)]
  PROVE  /\ backend' \in [Addr -> [node : NodeT, dirty : BOOLEAN]]
         /\ \A b \in Addr : Shape(backend'[b].node) /\ Untagged(backend'[b].node)
  <1> DEFINE im == Image(n, d)
  <1>1. im \in [node : NodeT, dirty : BOOLEAN] /\ Shape(im.node) /\ Untagged(im.node)
    BY ImageFacts
  <1> HIDE DEF im
  <1>2. backend' = [backend EXCEPT ![a] = im]
    BY DEF im
  <1>3. \A b \in Addr : backend'[b] = IF b = a THEN im ELSE backend[b]
    BY <1>2 DEF TreeTypes
  <1>4. backend' \in [Addr -> [node : NodeT, dirty : BOOLEAN]]
    BY <1>1, <1>2 DEF TreeTypes
  <1> QED BY <1>1, <1>3, <1>4 DEF Shapes

\* The constructor starts with nothing cached.
LEMMA WireInit == Init => WireInv /\ OwnInv
  <1> SUFFICES ASSUME Init PROVE WireInv /\ OwnInv
    OBVIOUS
  <1>0. PoolInv
    BY InitInv DEF Init
  <1>1. OwnInv /\ phase = "idle"
    BY <1>0, OwnTypesOf DEF OwnInv, PoolInv, Init, PoolInit
  <1>2. Used = {}
    BY DEF Init, PoolInit, Used, InUse
  <1> DEFINE l == Leaf(<<>>, MinLimit, MaxLimit)
  <1>3. l \in NodeT /\ Shape(l) /\ Untagged(l)
    BY FreshNodes, BlankFacts
  <1> HIDE DEF l
  <1>4. \A a \in Addr : /\ backend[a] \in [node : NodeT, dirty : BOOLEAN]
                        /\ Shape(backend[a].node) /\ Untagged(backend[a].node)
    <2>1. \A a \in Addr : backend[a] = IF a = 1 THEN Image(l, TRUE) ELSE Image(Zeroed, FALSE)
      BY DEF Init, l
    <2> QED BY <1>3, <2>1, FreshNodes, BlankFacts, ImageFacts
  <1>5. backend \in [Addr -> [node : NodeT, dirty : BOOLEAN]]
    <2>1. backend = [a \in Addr |-> backend[a]]
      BY DEF Init
    <2> QED BY <1>4, <2>1
  <1>6. TreeTypes
    <2>1. node \in [Slot -> NodeT]
      BY FreshNodes, BlankFacts DEF Init
    <2>2. super \in Ref /\ right \in Ref /\ root_ \in Addr /\ cur_offset \in 2 .. BackendPages
      BY SlotsAreNoAddresses DEF Init, Ref
    <2>3. cur \in Slot \union {Super} /\ child \in Slot \union {NoSlot}
      BY DEF Init
    <2>4. adm \in [node : NodeT, addr : Addr, dirty : BOOLEAN, idx : Nat]
      BY EmptyAdm DEF Init
    <2>5. op \in Calls \union {NoCall} /\ pc = "visit"
      BY DEF Init
    <2> QED BY <1>5, <2>1, <2>2, <2>3, <2>4, <2>5 DEF TreeTypes
  <1>7. Shapes
    <2>1. \A s \in Slot : Shape(node[s])
      BY FreshNodes, BlankFacts DEF Init
    <2>2. Shape(adm.node)
      BY EmptyAdm DEF Init
    <2> QED BY <1>4, <2>1, <2>2 DEF Shapes
  <1>8. Wiring
    <2>1. cur = Super /\ pc = "visit" /\ adm = NoPage /\ super = 1
      BY DEF Init
    <2>2. super \notin Slot
      BY <2>1, SlotsAreNoAddresses
    <2> QED BY <1>2, <2>1, <2>2 DEF Wiring, CurHere, ChildHere, RightHere, AdmHere, Wires, Anchored
  <1>9. PcPhase
    BY <1>1 DEF PcPhase, Init
  <1> QED BY <1>1, <1>6, <1>7, <1>8, <1>9 DEF WireInv

-----------------------------------------------------------------------------
(* The walk *)

\* lowerBound names a child of an inner node.
LEMMA StepDown ==
  ASSUME TreeTypes, Shapes, cur \in Slot, node[cur].type = "inner", NEW k
  PROVE  /\ node[cur] \in NodeT /\ lowerBound(node[cur], k) \in DOMAIN node[cur].kids
         /\ DOMAIN node[cur].kids = 1 .. Len(node[cur].kids)
         /\ \A i \in DOMAIN node[cur].kids : node[cur].kids[i] \in Ref
         /\ \A i \in DOMAIN node[cur].kids :
              node[cur].kids[i] \in Slot => node[cur].kids[i] \in Swizzled(node[cur])
  <1>1. node[cur] \in NodeT /\ Shape(node[cur])
    BY DEF TreeTypes, Shapes
  <1>2. lowerBound(node[cur], k) \in 1 .. Len(node[cur].keys) + 1
    BY <1>1, LowerBoundRange
  <1>3. /\ Len(node[cur].kids) = Len(node[cur].keys) + 1
        /\ DOMAIN node[cur].kids = 1 .. Len(node[cur].kids)
        /\ \A i \in DOMAIN node[cur].kids : node[cur].kids[i] \in Ref
    BY <1>1, NodeSeqs DEF Shape
  <1> QED BY <1>1, <1>2, <1>3 DEF Swizzled

\* load_child finds the child swizzled and the walk steps down to it.
LEMMA VisitHitWire ==
  ASSUME WireInv, OwnInv, VisitHit
  PROVE  WireInv'
  <1> DEFINE c == ChildRef(ChildIdx)
  <1>1. /\ pc = "visit" /\ phase = "idle" /\ c \in Slot
        /\ IF op.kind = "insert" /\ ~retry /\ isFull(node[c])
           THEN pc' = "split" /\ child' = c /\ UNCHANGED <<cur, retry>>
           ELSE /\ pc' = IF node[c].type = "inner" THEN "visit" ELSE "leaf"
                /\ cur' = c /\ retry' = FALSE /\ UNCHANGED child
        /\ UNCHANGED <<poolVars, node, super, root_, backend, cur_offset, op, sep, right, adm, ret>>
    BY DEF VisitHit, storage
  <1>2. TreeTypes /\ Shapes /\ PcPhase /\ Wiring
    BY <1>1 DEF WireInv
  <1>3. OwnInv' /\ Used' = Used /\ phase' = phase /\ pin' = pin
    BY <1>1, StillPool DEF poolVars, control
  <1>4. c \in Used /\ IF cur = Super THEN super = c ELSE c \in Swizzled(node[cur])
    <2>1. CASE cur = Super
      <3>1. c = super
        BY <2>1 DEF ChildRef
      <3> QED BY <1>1, <1>2, <2>1, <3>1, RefsInUse
    <2>2. CASE cur # Super
      <3>1. cur \in Used /\ cur \in Slot /\ node[cur].type = "inner"
        BY <1>1, <1>2, <2>2 DEF Wiring, CurHere, Used
      <3>2. ChildIdx = lowerBound(node[cur], op.key) /\ c = node[cur].kids[ChildIdx]
        BY <2>2 DEF ChildRef, ChildIdx
      <3>3. c \in Swizzled(node[cur])
        BY <1>1, <1>2, <3>1, <3>2, StepDown
      <3> QED BY <1>2, <2>2, <3>1, <3>3, RefsInUse
    <2> QED BY <2>1, <2>2
  <1> HIDE DEF c
  <1>5. c # Super /\ c \in Slot
    BY <1>1, SlotsAreNoAddresses
  <1>6. TreeTypes'
    BY <1>1, <1>2, <1>5 DEF TreeTypes
  <1>7. Shapes'
    BY <1>1, <1>2 DEF Shapes
  <1>8. PcPhase'
    BY <1>1, <1>3 DEF PcPhase
  <1>9. Wires' /\ Anchored'
    BY <1>1, <1>2, <1>3 DEF Wiring, Wires, Anchored
  <1>10. AdmHere' /\ RightHere'
    BY <1>1, <1>2 DEF Wiring, AdmHere, RightHere
  <1>11. CurHere' /\ ChildHere'
    BY <1>1, <1>2, <1>3, <1>4, <1>5 DEF Wiring, CurHere, ChildHere
  <1> QED BY <1>6, <1>7, <1>8, <1>9, <1>10, <1>11 DEF WireInv, Wiring

\* load_child reads a child, and pins the parent, which is in use.
LEMMA LoadChildWire ==
  ASSUME WireInv, OwnInv, NEW i, LoadChild(i), pc \in {"visit", "sibling"},
         cur # Super => i \in DOMAIN node[cur].kids,
         i \in Nat
  PROVE  WireInv' /\ OwnInv'
  <1> DEFINE a == ChildRef(i)
  <1>1. /\ a \notin Slot /\ pc' = "load"
        /\ RequestPage(IF cur = Super THEN NoSlot ELSE cur)
        /\ adm' = [node |-> backend[a].node, addr |-> a, dirty |-> backend[a].dirty, idx |-> i]
        /\ UNCHANGED <<node, super, root_, backend, cur_offset, op, cur, retry, child, sep, right, ret>>
    BY DEF LoadChild, storage, walk, split
  <1>2. TreeTypes /\ Shapes /\ PcPhase /\ Wiring
    BY DEF WireInv
  <1>3. cur # Super => cur \in Used /\ cur \in Slot /\ node[cur].type = "inner"
    BY <1>2 DEF Wiring, CurHere, Used
  <1>4. /\ OwnInv' /\ Used' = Used /\ phase' = "get"
        /\ pin' = IF cur = Super THEN NoSlot ELSE cur
    BY <1>1, <1>3, RequestKeepsUsed
  <1>5. a \in Addr /\ IF cur = Super THEN a = super ELSE a = node[cur].kids[i]
    <2>1. CASE cur = Super
      BY <1>1, <1>2, <2>1 DEF ChildRef, TreeTypes, Ref
    <2>2. CASE cur # Super
      <3>1. a = node[cur].kids[i] /\ a \in Ref
        BY <1>2, <1>3, <2>2, StepDown DEF ChildRef
      <3> QED BY <1>1, <2>2, <3>1 DEF Ref
    <2> QED BY <2>1, <2>2
  <1> HIDE DEF a
  <1>6. /\ backend[a] \in [node : NodeT, dirty : BOOLEAN] /\ Shape(backend[a].node)
        /\ Untagged(backend[a].node)
    BY <1>2, <1>5 DEF TreeTypes, Shapes
  <1>7. backend[a].node \in NodeT /\ backend[a].dirty \in BOOLEAN
    BY <1>6
  <1>8. /\ adm' \in [node : NodeT, addr : Addr, dirty : BOOLEAN, idx : Nat]
        /\ adm'.node = backend[a].node /\ adm'.idx = i
    BY <1>1, <1>5, <1>7
  <1>9. TreeTypes'
    BY <1>1, <1>2, <1>8 DEF TreeTypes
  <1>10. Shapes'
    BY <1>1, <1>2, <1>6, <1>8 DEF Shapes
  <1>11. PcPhase'
    BY <1>1, <1>4 DEF PcPhase
  <1>12. Wires' /\ Anchored'
    BY <1>1, <1>2, <1>4 DEF Wiring, Wires, Anchored
  <1>13. AdmHere'
    BY <1>1, <1>5, <1>6, <1>8 DEF AdmHere
  <1>14. RightHere' /\ ChildHere'
    BY <1>1 DEF RightHere, ChildHere
  <1>15. CurHere'
    BY <1>1, <1>2, <1>3, <1>4 DEF Wiring, CurHere
  <1> QED BY <1>4, <1>9, <1>10, <1>11, <1>12, <1>13, <1>14, <1>15 DEF WireInv, Wiring

\* A miss of the walk.
LEMMA VisitMissWire ==
  ASSUME WireInv, OwnInv, VisitMiss
  PROVE  WireInv' /\ OwnInv'
  <1>1. pc = "visit" /\ LoadChild(ChildIdx)
    BY DEF VisitMiss
  <1>2. TreeTypes /\ Shapes /\ Wiring
    BY <1>1 DEF WireInv
  <1>3. cur # Super => ChildIdx \in DOMAIN node[cur].kids /\ ChildIdx \in Nat
    <2> SUFFICES ASSUME cur # Super
                 PROVE  ChildIdx \in DOMAIN node[cur].kids /\ ChildIdx \in Nat
      OBVIOUS
    <2>1. cur \in Slot /\ node[cur].type = "inner"
      BY <1>1, <1>2 DEF Wiring, CurHere, Used
    <2>2. ChildIdx \in DOMAIN node[cur].kids /\ DOMAIN node[cur].kids = 1 .. Len(node[cur].kids)
      BY <1>2, <2>1, StepDown DEF ChildIdx
    <2> QED BY <2>2
  <1>4. ChildIdx \in Nat
    BY <1>3 DEF ChildIdx
  <1> QED BY <1>1, <1>3, <1>4, LoadChildWire

\* The separator is a key of the parent by now, so there is a child right of it.
LEMMA LoadSiblingWire ==
  ASSUME WireInv, OwnInv, LoadSibling
  PROVE  WireInv' /\ OwnInv'
  <1> DEFINE n == node[cur]
             S == {i \in DOMAIN n.keys : n.keys[i] < sep}
  <1>1. pc = "sibling" /\ LoadChild(lowerBound(n, sep) + 1)
    BY DEF LoadSibling
  <1>2. TreeTypes /\ Shapes /\ Wiring
    BY <1>1 DEF WireInv
  <1>3. /\ cur # Super /\ cur \in Slot /\ n.type = "inner" /\ sep \in Key
        /\ \E i \in DOMAIN n.keys : n.keys[i] = sep
    BY <1>1, <1>2 DEF Wiring, CurHere, Used, TreeTypes
  <1>4. n \in NodeT /\ Shape(n)
    BY <1>2, <1>3 DEF TreeTypes, Shapes
  <1> HIDE DEF n
  <1>5. /\ DOMAIN n.keys = 1 .. Len(n.keys) /\ Len(n.keys) \in Nat
        /\ DOMAIN n.kids = 1 .. Len(n.kids) /\ Len(n.kids) = Len(n.keys) + 1
        /\ sep \in Nat
    BY <1>3, <1>4, NodeSeqs DEF Shape
  <1>6. S \in SUBSET DOMAIN n.keys /\ S # DOMAIN n.keys
    BY <1>3, <1>5
  <1>7. IsFiniteSet(DOMAIN n.keys) /\ Cardinality(DOMAIN n.keys) = Len(n.keys)
    BY <1>5, FS_Interval
  <1>8. IsFiniteSet(S) /\ Cardinality(S) <= Len(n.keys) /\ Cardinality(S) # Len(n.keys)
    BY <1>6, <1>7, FS_Subset
  <1>9. Cardinality(S) \in Nat
    BY <1>8, FS_CardinalityType
  <1>10. lowerBound(n, sep) = 1 + Cardinality(S)
    BY DEF lowerBound
  <1> DEFINE m == Cardinality(S)
  <1> HIDE DEF S
  <1>11. 1 + m + 1 \in DOMAIN n.kids /\ 1 + m + 1 \in Nat
    BY <1>5, <1>8, <1>9
  <1> QED BY <1>1, <1>10, <1>11, LoadChildWire DEF n

\* split_child and make_new_root ask for a slot.
LEMMA RequestUnpinnedWire ==
  ASSUME WireInv, OwnInv, RequestUnpinned
  PROVE  WireInv' /\ OwnInv'
  <1>1. /\ pc \in {"sib", "root"} /\ RequestPage(NoSlot)
        /\ UNCHANGED <<node, super, root_, backend, cur_offset, op, cur, retry, child, sep, right, ret,
                       pc, adm>>
    BY DEF RequestUnpinned, treeVars, storage, walk, split
  <1>2. TreeTypes /\ Shapes /\ PcPhase /\ Wiring
    BY <1>1 DEF WireInv
  <1>3. OwnInv' /\ Used' = Used /\ phase' = "get" /\ pin' = NoSlot
    BY <1>1, RequestKeepsUsed
  <1>4. TreeTypes' /\ Shapes'
    BY <1>1, <1>2 DEF TreeTypes, Shapes
  <1>5. PcPhase'
    BY <1>1, <1>3 DEF PcPhase
  <1>6. Wires' /\ Anchored' /\ AdmHere' /\ RightHere' /\ ChildHere' /\ CurHere'
    BY <1>1, <1>2, <1>3 DEF Wiring, Wires, Anchored, AdmHere, RightHere, ChildHere, CurHere, Unlinked
  <1> QED BY <1>3, <1>4, <1>5, <1>6 DEF WireInv, Wiring

\* get_empty_page takes no page from the tree.
LEMMA PoolStepWire ==
  ASSUME WireInv, OwnInv, PoolStep
  PROVE  WireInv' /\ OwnInv'
  <1>1. /\ GetEmptyPage
        /\ UNCHANGED <<node, super, root_, backend, cur_offset, op, cur, retry, child, sep, right, ret,
                       pc, adm>>
    BY DEF PoolStep, treeVars, storage, walk, split
  <1>2. /\ OwnInv' /\ Used' = Used /\ phase \notin {"idle", "exit"} /\ phase' # "idle"
        /\ pin' = pin
    BY <1>1, GetKeepsUsed
  <1>3. pc # "aborted"
    BY <1>2 DEF WireInv, PcPhase
  <1>4. TreeTypes /\ Shapes /\ PcPhase /\ Wiring
    BY <1>3 DEF WireInv
  <1>5. TreeTypes' /\ Shapes'
    BY <1>1, <1>4 DEF TreeTypes, Shapes
  <1>6. PcPhase'
    BY <1>1, <1>2, <1>3, <1>4 DEF PcPhase
  <1>7. Wires' /\ Anchored' /\ AdmHere' /\ RightHere' /\ ChildHere' /\ CurHere'
    BY <1>1, <1>2, <1>4 DEF Wiring, Wires, Anchored, AdmHere, RightHere, ChildHere, CurHere, Unlinked
  <1> QED BY <1>2, <1>5, <1>6, <1>7 DEF WireInv, Wiring

\* A call starts at super_root_.
LEMMA BeginWire ==
  ASSUME WireInv, OwnInv, NEW o \in Calls, Begin(o)
  PROVE  WireInv' /\ OwnInv'
  <1>1. /\ pc = "idle" /\ pc' = "visit" /\ op' = o
        /\ UNCHANGED <<poolVars, node, super, root_, backend, cur_offset, cur, retry, child, sep, right, adm>>
    BY DEF Begin, storage, split
  <1>2. TreeTypes /\ Shapes /\ PcPhase /\ Wiring
    BY <1>1 DEF WireInv
  <1>3. OwnInv' /\ Used' = Used /\ phase' = phase
    BY <1>1, StillPool DEF poolVars, control
  <1>4. TreeTypes' /\ Shapes'
    BY <1>1, <1>2 DEF TreeTypes, Shapes
  <1>5. PcPhase'
    BY <1>1, <1>2, <1>3 DEF PcPhase
  <1>6. cur = Super
    BY <1>1, <1>2 DEF Wiring, CurHere
  <1>7. Wires' /\ Anchored' /\ AdmHere' /\ RightHere' /\ ChildHere' /\ CurHere'
    BY <1>1, <1>2, <1>3, <1>6 DEF Wiring, Wires, Anchored, AdmHere, RightHere, ChildHere, CurHere
  <1> QED BY <1>3, <1>4, <1>5, <1>7 DEF WireInv, Wiring

\* What flush_all leaves in the backend refers to nothing in the pool.
LEMMA FlushWrites ==
  ASSUME TreeTypes, Shapes, OwnInv, NEW a \in Addr
  PROVE  LET p == FlushedBackend[a] IN
         /\ p \in [node : NodeT, dirty : BOOLEAN] /\ Shape(p.node) /\ Untagged(p.node)
  <1> DEFINE S == {s \in Slot : dirty[s] /\ remote_address[s] = a}
             s0 == CHOOSE s \in S : TRUE
             im == Image(Unswizzled(node[s0]), FALSE)
  <1>1. FlushedBackend[a] = IF S = {} THEN backend[a] ELSE im
    BY DEF FlushedBackend
  <1>2. CASE S = {}
    BY <1>1, <1>2 DEF TreeTypes, Shapes
  <1>3. CASE S # {}
    <2>1. s0 \in Slot
      BY <1>3
    <2> HIDE DEF s0
    <2>2. node[s0] \in NodeT /\ Shape(node[s0]) /\ remote_address \in [Slot -> Addr]
      BY <2>1 DEF TreeTypes, Shapes, OwnInv, OwnTypes
    <2> DEFINE u == Unswizzled(node[s0])
    <2>3. /\ u \in NodeT /\ u.type = node[s0].type /\ u.keys = node[s0].keys
          /\ Len(u.kids) = Len(node[s0].kids) /\ u.bitmap = {} /\ Swizzled(u) = {}
      BY <2>2, UnswizzledFacts
    <2>4. u.type # "inner" => u.kids = <<>>
      <3>1. ASSUME u.type # "inner" PROVE u.kids = <<>>
        <4>1. node[s0].kids = <<>>
          BY <2>2, <2>3, <3>1 DEF Shape
        <4>2. Len(u.kids) = 0 /\ u.kids \in Seq(Ref)
          BY <2>3, <4>1 DEF NodeT
        <4> QED BY <4>2, EmptySeq
      <3> QED BY <3>1
    <2> HIDE DEF u
    <2>5. Shape(u) /\ Untagged(u)
      BY <2>2, <2>3, <2>4 DEF Shape, Untagged
    <2>6. im \in [node : NodeT, dirty : BOOLEAN] /\ Shape(im.node) /\ Untagged(im.node)
      BY <2>3, <2>5, ImageFacts DEF u
    <2> QED BY <1>1, <1>3, <2>6
  <1> QED BY <1>2, <1>3

\* flush_all writes images that refer to nothing in the pool.
LEMMA DestroyWire ==
  ASSUME WireInv, OwnInv, Destroy
  PROVE  WireInv' /\ OwnInv'
  <1>1. /\ pc = "idle" /\ pc' = "closed" /\ FlushAll /\ backend' = FlushedBackend
        /\ UNCHANGED <<node, super, root_, cur_offset, op, cur, retry, child, sep, right, adm>>
    BY DEF Destroy, walk, split
  <1>2. TreeTypes /\ Shapes /\ PcPhase /\ Wiring
    BY <1>1 DEF WireInv
  <1>3. OwnInv' /\ Used' = Used /\ phase' = phase
    BY <1>1, WriteKeepsUsed DEF FlushAll, control
  <1>4. \A a \in Addr : /\ backend'[a] \in [node : NodeT, dirty : BOOLEAN]
                        /\ Shape(backend'[a].node) /\ Untagged(backend'[a].node)
    BY <1>1, <1>2, FlushWrites
  <1>5. backend' \in [Addr -> [node : NodeT, dirty : BOOLEAN]]
    <2>1. backend' = [a \in Addr |-> backend'[a]]
      BY <1>1 DEF FlushedBackend
    <2> QED BY <1>4, <2>1
  <1>6. TreeTypes'
    BY <1>1, <1>2, <1>5 DEF TreeTypes
  <1>7. Shapes'
    BY <1>1, <1>2, <1>4 DEF Shapes
  <1>8. PcPhase'
    BY <1>1, <1>2, <1>3 DEF PcPhase
  <1>9. Wires' /\ Anchored' /\ AdmHere' /\ RightHere' /\ ChildHere' /\ CurHere'
    BY <1>1, <1>2, <1>3 DEF Wiring, Wires, Anchored, AdmHere, RightHere, ChildHere, CurHere
  <1> QED BY <1>3, <1>6, <1>7, <1>8, <1>9 DEF WireInv, Wiring

\* The assertion stops the process.
LEMMA SampleAssertWire ==
  ASSUME WireInv, OwnInv, NEW s \in Slot, SampleAssert(s)
  PROVE  WireInv' /\ OwnInv'
  <1>1. /\ phase = "sample" /\ pc' = "aborted" /\ phase' = "exit"
        /\ UNCHANGED <<state, unallocated, pos_state, remote_address, dirty, local_page_set, table_,
                       page_table, to_sample, page, pin, prev_state,
                       node, super, root_, backend, cur_offset, op, cur, retry, child, sep, right, adm>>
    BY DEF SampleAssert, Sampled, pages, storage, walk, split
  <1>2. OwnInv'
    BY <1>1, QuietOwn DEF OwnInv, OwnTypes
  <1>3. TreeTypes' /\ Shapes'
    BY <1>1 DEF WireInv, TreeTypes, Shapes
  <1> QED BY <1>1, <1>2, <1>3 DEF WireInv, PcPhase

\* The operations in a leaf.
LEMMA FinishWire ==
  ASSUME WireInv, OwnInv, NEW n \in NodeT, SameFrame(n, node[cur]), NEW wrote \in BOOLEAN, NEW res,
         Finish(n, wrote, res)
  PROVE  WireInv' /\ OwnInv'
  <1>1. /\ pc = "leaf" /\ pc' = "idle" /\ MarkDirty(IF wrote THEN {cur} ELSE {})
        /\ node' = [node EXCEPT ![cur] = n] /\ op' = NoCall /\ cur' = Super
        /\ UNCHANGED <<super, root_, backend, cur_offset, retry, child, sep, right, adm>>
    BY DEF Finish, storage, split
  <1>2. TreeTypes /\ Shapes /\ PcPhase /\ Wiring
    BY <1>1 DEF WireInv
  <1>3. OwnInv' /\ Used' = Used /\ phase' = phase
    BY <1>1, WriteKeepsUsed DEF MarkDirty, control
  <1>4. cur \in Slot
    BY <1>1, <1>2 DEF Wiring, CurHere, Used
  <1>5. \A s \in Slot : node'[s] = IF s = cur THEN n ELSE node[s]
    BY <1>1, <1>2 DEF TreeTypes
  <1>6. node' \in [Slot -> NodeT]
    BY <1>1, <1>2 DEF TreeTypes
  <1>7. Shape(n) <=> Shape(node[cur])
    BY DEF SameFrame, Shape
  <1>8. (Wired(n) <=> Wired(node[cur])) /\ Swizzled(n) = Swizzled(node[cur]) /\ n.parent = node[cur].parent
    BY DEF SameFrame, Wired, Tagged, Swizzled
  <1>9. \A s \in Slot : /\ Shape(node'[s]) <=> Shape(node[s])
                        /\ Wired(node'[s]) <=> Wired(node[s])
                        /\ Swizzled(node'[s]) = Swizzled(node[s])
                        /\ node'[s].parent = node[s].parent
    BY <1>5, <1>7, <1>8
  <1>10. TreeTypes'
    BY <1>1, <1>2, <1>6 DEF TreeTypes
  <1>11. Shapes'
    BY <1>1, <1>2, <1>9 DEF Shapes
  <1>12. PcPhase'
    BY <1>1, <1>2, <1>3 DEF PcPhase
  <1>13. \A s \in Used : s \in Slot
    BY DEF Used
  <1>14. \A s \in Slot : Swizzled(node[s]) \in SUBSET Slot
    BY SwizzledFacts
  <1>15. Wires'
    BY <1>1, <1>2, <1>3, <1>9, <1>13, <1>14 DEF Wiring, Wires
  <1>16. Anchored'
    BY <1>1, <1>2, <1>3, <1>9, <1>13 DEF Wiring, Anchored
  <1>17. AdmHere' /\ RightHere' /\ ChildHere' /\ CurHere'
    BY <1>1, <1>2 DEF Wiring, AdmHere, RightHere, ChildHere, CurHere
  <1> QED BY <1>3, <1>10, <1>11, <1>12, <1>15, <1>16, <1>17 DEF WireInv, Wiring

\* What a call carries.
LEMMA OpFacts ==
  ASSUME op \in Calls \union {NoCall}
  PROVE  /\ op.kind \in {"insert", "update"} => op.key \in Key /\ op.val \in Val
         /\ op.kind # "ctor" => op.key \in Key
         /\ op.key \in Nat
  <1>1. \A k \in Key : k \in Nat
    BY DEF Key
  <1>2. CASE op = NoCall
    BY <1>2 DEF NoCall
  <1>3. CASE op \in [kind : Kinds \cap {"insert", "update"}, key : Key, val : Val]
    BY <1>1, <1>3
  <1>4. CASE op \in [kind : Kinds \cap {"lookup", "remove"}, key : Key, val : {NoVal}]
    <2>1. op.kind \in {"lookup", "remove"} /\ op.key \in Key
      BY <1>4
    <2> QED BY <1>1, <2>1
  <1>5. CASE op \in [kind : Kinds \cap {"scan"}, key : Key, val : ScanLen]
    <2>1. op.kind \in {"scan"} /\ op.key \in Key
      BY <1>5
    <2> QED BY <1>1, <2>1
  <1> QED BY <1>2, <1>3, <1>4, <1>5 DEF Calls

LeafStep ==
  LeafInsert \/ LeafLookup \/ LeafUpdate \/ LeafRemove \/ LeafScan \/ LeafCtor

\* Every operation in the leaf ends the walk and changes nothing but entries of the leaf.
LEMMA LeafSteps ==
  ASSUME TreeTypes, cur \in Slot, LeafStep
  PROVE  \E n \in NodeT, wrote \in BOOLEAN :
            /\ SameFrame(n, node[cur]) /\ (wrote \/ n = node[cur])
            /\ \E res : Finish(n, wrote, res)
  <1> DEFINE m == node[cur]
             found == op.key \in DOMAIN m.data
  <1>1. m \in NodeT /\ SameFrame(m, m)
    BY DEF TreeTypes, SameFrame
  <1>2. op \in Calls \union {NoCall}
    BY DEF TreeTypes
  <1>3. \A k \in Key, v \in Val : Put(m, k, v) \in NodeT /\ SameFrame(Put(m, k, v), m)
    BY <1>1, LeafWrites
  <1>4. CASE LeafInsert
    <2> DEFINE room == Cardinality(DOMAIN m.data) < LeafMax
               n == IF found \/ room THEN Put(m, op.key, op.val) ELSE m
    <2>1. op.kind = "insert" /\ Finish(n, TRUE, ~found /\ room)
      BY <1>4 DEF LeafInsert
    <2>2. op.key \in Key /\ op.val \in Val
      BY <1>2, <2>1, OpFacts
    <2>3. n \in NodeT /\ SameFrame(n, m)
      BY <1>1, <1>3, <2>2
    <2> HIDE DEF n, found, m, room
    <2> QED BY <2>1, <2>3 DEF m
  <1>5. CASE LeafLookup
    <2>1. PICK res : Finish(m, FALSE, res)
      BY <1>5 DEF LeafLookup
    <2> QED BY <1>1, <2>1
  <1>6. CASE LeafUpdate
    <2> DEFINE n == IF found THEN Put(m, op.key, op.val) ELSE m
    <2>1. op.kind = "update" /\ Finish(n, found, found)
      BY <1>6 DEF LeafUpdate
    <2>2. op.key \in Key /\ op.val \in Val
      BY <1>2, <2>1, OpFacts
    <2>3. n \in NodeT /\ SameFrame(n, m)
      BY <1>1, <1>3, <2>2
    <2>4. found \in BOOLEAN /\ (found \/ n = m)
      OBVIOUS
    <2> HIDE DEF n, found, m
    <2> QED BY <2>1, <2>3, <2>4 DEF m
  <1>7. CASE LeafRemove
    <2> DEFINE n == [m EXCEPT !.data = Restrict(@, DOMAIN @ \ {op.key})]
    <2>1. Finish(n, found, found)
      BY <1>7 DEF LeafRemove
    <2>3. n \in NodeT /\ SameFrame(n, m)
      BY <1>1, LeafWrites
    <2>4. ASSUME ~found PROVE n = m
      <3>1. PICK K \in SUBSET Key : m.data \in [K -> Val]
        BY <1>1 DEF NodeT, DataT
      <3>2. DOMAIN m.data \ {op.key} = DOMAIN m.data /\ DOMAIN m.data = K
        BY <2>4, <3>1
      <3>3. Restrict(m.data, K) = m.data
        BY <3>1 DEF Restrict
      <3>4. n = [m EXCEPT !.data = Restrict(m.data, DOMAIN m.data \ {op.key})]
        BY <1>1 DEF NodeT
      <3> QED BY <1>1, <3>2, <3>3, <3>4 DEF NodeT
    <2>5. found \in BOOLEAN
      OBVIOUS
    <2> HIDE DEF n, found, m
    <2> QED BY <2>1, <2>3, <2>4, <2>5 DEF m
  <1>8. CASE LeafScan
    <2>1. PICK res : Finish(m, FALSE, res)
      BY <1>8 DEF LeafScan
    <2> QED BY <1>1, <2>1
  <1>9. CASE LeafCtor
    <2>1. PICK res : Finish(m, FALSE, res)
      BY <1>9 DEF LeafCtor
    <2> QED BY <1>1, <2>1
  <1> QED BY <1>4, <1>5, <1>6, <1>7, <1>8, <1>9 DEF LeafStep

\* So no operation in a leaf disturbs the wiring.
LEMMA LeafWire ==
  ASSUME WireInv, OwnInv, LeafStep
  PROVE  WireInv' /\ OwnInv'
  <1>1. pc = "leaf"
    BY DEF LeafStep, LeafInsert, LeafLookup, LeafUpdate, LeafRemove, LeafScan, LeafCtor, Finish
  <1>2. TreeTypes /\ cur \in Slot
    BY <1>1 DEF WireInv, Wiring, CurHere, Used
  <1>3. PICK n \in NodeT, wrote \in BOOLEAN :
          SameFrame(n, node[cur]) /\ \E res : Finish(n, wrote, res)
    BY <1>2, LeafSteps
  <1>4. PICK res : Finish(n, wrote, res)
    BY <1>3
  <1> QED BY <1>3, <1>4, FinishWire

-----------------------------------------------------------------------------
(* Admissions and splits *)

\* A page whose parent pointer is set: the rest of it, and so its wiring, stays.
LEMMA Reparented ==
  ASSUME NEW n \in NodeT, NEW p \in Slot \union {NoSlot, Super}
  PROVE  /\ WithParent(n, p) \in NodeT /\ WithParent(n, p).parent = p
         /\ WithParent(n, p).type = n.type /\ WithParent(n, p).keys = n.keys
         /\ Shape(WithParent(n, p)) <=> Shape(n)
         /\ Wired(WithParent(n, p)) <=> Wired(n)
         /\ Swizzled(WithParent(n, p)) = Swizzled(n)
         /\ WithParent(n, p).kids = n.kids /\ WithParent(n, p).bitmap = n.bitmap
  <1> DEFINE q == WithParent(n, p)
  <1>1. /\ q \in NodeT /\ q.parent = p /\ q.type = n.type /\ q.keys = n.keys /\ q.kids = n.kids
        /\ q.bitmap = n.bitmap
    BY NodeEdits
  <1> HIDE DEF q
  <1>2. Shape(q) <=> Shape(n)
    BY <1>1 DEF Shape
  <1>3. (Wired(q) <=> Wired(n)) /\ Swizzled(q) = Swizzled(n)
    BY <1>1 DEF Wired, Tagged, Swizzled
  <1> QED BY <1>1, <1>2, <1>3 DEF q

\* A page read from the backend has no swizzled child.
LEMMA UntaggedWired ==
  ASSUME NEW n, Untagged(n)
  PROVE  Wired(n) /\ Swizzled(n) = {}
  BY SwizzledFacts DEF Untagged, Wired, Tagged

\* The loaded page gets its parent pointer and the parent its tagged child, at once.
LEMMA AdmitLoadWire ==
  ASSUME WireInv, OwnInv, AdmitLoad
  PROVE  WireInv' /\ OwnInv'
  <1> DEFINE w == WithParent(adm.node, cur)
             z == Swizzle(node[cur], adm.idx, page)
  <1>1. /\ pc = "load" /\ pc' = "visit" /\ CacheInsert(adm.addr, adm.dirty)
        /\ adm' = NoPage /\ child' = NoSlot /\ sep' = 0 /\ right' = NullAddr
        /\ UNCHANGED <<root_, backend, cur_offset, op, cur, retry>>
        /\ IF cur = Super
           THEN super' = page /\ node' = [node EXCEPT ![page] = w]
           ELSE /\ node' = [[node EXCEPT ![page] = w] EXCEPT ![cur] = Swizzle(@, adm.idx, page)]
                /\ UNCHANGED super
    BY DEF AdmitLoad, Forget, storage, walk
  <1>2. TreeTypes /\ Shapes /\ PcPhase /\ Wiring
    BY <1>1 DEF WireInv
  <1>3. adm.node \in NodeT /\ adm.addr \in Addr /\ adm.dirty \in BOOLEAN /\ Shape(adm.node)
    BY <1>2 DEF TreeTypes, Shapes
  <1>4. /\ OwnInv' /\ page \in Slot /\ page \notin Used /\ Used' = Used \union {page}
        /\ phase' = "idle"
    BY <1>1, <1>3, InsertAddsUsed
  <1>5. /\ Untagged(adm.node)
        /\ IF cur = Super THEN super \notin Slot
           ELSE adm.idx \in DOMAIN node[cur].kids /\ node[cur].kids[adm.idx] \notin Slot
    BY <1>1, <1>2 DEF Wiring, AdmHere
  <1>6. /\ cur \in Slot \union {Super}
        /\ cur # Super => cur \in Used /\ cur \in Slot /\ node[cur].type = "inner" /\ cur # page
    BY <1>1, <1>2, <1>4 DEF Wiring, CurHere, Used, TreeTypes
  <1>7. /\ w \in NodeT /\ w.parent = cur /\ Shape(w) /\ Wired(w) /\ Swizzled(w) = {}
    BY <1>3, <1>5, <1>6, Reparented, UntaggedWired
  <1>8. \A s \in Used : s \in Slot /\ s # page /\ page \notin Swizzled(node[s])
    BY <1>2, <1>4, RefsInUse DEF Used
  <1>9. cur # Super => /\ z \in NodeT /\ Shape(z) /\ Wired(z) /\ z.type = "inner"
                       /\ Swizzled(z) = Swizzled(node[cur]) \union {page}
                       /\ z.parent = node[cur].parent
    <2> SUFFICES ASSUME cur # Super
                 PROVE  /\ z \in NodeT /\ Shape(z) /\ Wired(z) /\ z.type = "inner"
                        /\ Swizzled(z) = Swizzled(node[cur]) \union {page}
                        /\ z.parent = node[cur].parent
      OBVIOUS
    <2>1. node[cur] \in NodeT /\ Shape(node[cur]) /\ Wired(node[cur])
      BY <1>2, <1>6 DEF TreeTypes, Shapes, Wiring, Wires
    <2>2. page \notin Swizzled(node[cur])
      BY <1>6, <1>8
    <2>3. adm.idx \in DOMAIN node[cur].kids /\ node[cur].kids[adm.idx] \notin Slot
      BY <1>5
    <2> QED BY <1>4, <1>6, <2>1, <2>2, <2>3, WiredSwizzle
  <1> HIDE DEF w, z
  <1>10. \A s \in Slot : node'[s] = IF s = page THEN w ELSE IF s = cur THEN z ELSE node[s]
    <2>1. CASE cur = Super
      BY <1>1, <1>2, <1>4, <2>1, SlotsAreNoAddresses DEF TreeTypes
    <2>2. CASE cur # Super
      <3>1. node' = [[node EXCEPT ![page] = w] EXCEPT ![cur] = z]
        BY <1>1, <1>2, <1>4, <1>6, <2>2 DEF TreeTypes, z
      <3> QED BY <1>2, <1>4, <1>6, <2>2, <3>1 DEF TreeTypes
    <2> QED BY <2>1, <2>2
  <1>11. node' \in [Slot -> NodeT]
    <2>1. node' = [s \in Slot |-> node'[s]]
      BY <1>1, <1>2 DEF TreeTypes
    <2>2. \A s \in Slot : node'[s] \in NodeT
      BY <1>2, <1>6, <1>7, <1>9, <1>10, SlotsAreNoAddresses DEF TreeTypes
    <2> QED BY <2>1, <2>2
  <1>12. super' = IF cur = Super THEN page ELSE super
    BY <1>1
  <1>13. TreeTypes'
    <2>1. super' \in Ref /\ right' \in Ref
      BY <1>1, <1>2, <1>4, SlotsAreNoAddresses DEF Ref, TreeTypes
    <2> QED BY <1>1, <1>2, <1>11, <2>1, EmptyAdm DEF TreeTypes
  <1>14. Shapes'
    BY <1>1, <1>2, <1>7, <1>9, <1>10, EmptyAdm, SlotsAreNoAddresses DEF Shapes
  <1>15. PcPhase'
    BY <1>1, <1>4 DEF PcPhase
  <1>16. CurHere' /\ ChildHere' /\ RightHere' /\ AdmHere'
    BY <1>1, <1>4, <1>6, <1>9, <1>10 DEF CurHere, ChildHere, RightHere, AdmHere
  <1>17. \A s \in Slot : node'[s].parent = IF s = page THEN cur ELSE node[s].parent
    BY <1>6, <1>7, <1>9, <1>10, SlotsAreNoAddresses
  <1>18. \A s \in Used : Swizzled(node'[s]) = Swizzled(node[s]) \union (IF s = cur THEN {page} ELSE {})
    BY <1>8, <1>9, <1>10, SlotsAreNoAddresses
  <1>19. Swizzled(node'[page]) = {} /\ \A s \in Used' : Wired(node'[s])
    BY <1>2, <1>4, <1>7, <1>8, <1>9, <1>10, SlotsAreNoAddresses DEF Wiring, Wires
  <1>20. \A s \in Used : \A c \in Swizzled(node[s]) : c \in Slot /\ c # page /\ c # s /\ c \in Used /\ node[c].parent = s
    BY <1>2, <1>8, SwizzledFacts DEF Wiring, Wires
  <1>21. Wires'
    <2>1. ASSUME NEW s \in Used', NEW c \in Swizzled(node'[s])
          PROVE  c # s /\ c \in Used' /\ node'[c].parent = s
      <3>1. s \in Used
        BY <1>4, <1>19, <2>1
      <3>2. CASE c = page
        BY <1>4, <1>8, <1>17, <1>18, <1>20, <2>1, <3>1, <3>2
      <3>3. CASE c # page
        <4>1. c \in Swizzled(node[s])
          BY <1>18, <2>1, <3>1, <3>3
        <4> QED BY <1>4, <1>17, <1>20, <3>1, <4>1
      <3> QED BY <3>2, <3>3
    <2>2. super' \in Slot => super' \in Used' /\ node'[super'].parent = Super
      <3>1. CASE cur = Super
        BY <1>4, <1>12, <1>17, <3>1
      <3>2. CASE cur # Super
        <4>1. ASSUME super \in Slot PROVE super # page
          BY <1>2, <1>4, <4>1, RefsInUse
        <4> QED BY <1>4, <1>2, <1>12, <1>17, <3>2, <4>1 DEF Wiring, Wires
      <3> QED BY <3>1, <3>2
    <2> QED BY <1>19, <2>1, <2>2 DEF Wires
  <1>22. Anchored'
    <2> SUFFICES ASSUME NEW s \in Used'
                 PROVE  \/ node'[s].parent \in Used' /\ s \in Swizzled(node'[node'[s].parent])
                        \/ node'[s].parent = Super /\ super' = s
      BY DEF Anchored
    <2>1. CASE s = page
      BY <1>4, <1>6, <1>12, <1>17, <1>18, <2>1
    <2>2. CASE s # page
      <3>1. s \in Used /\ s \in Slot /\ node'[s].parent = node[s].parent
        BY <1>4, <1>8, <1>17, <2>2
      <3>2. \/ node[s].parent \in Used /\ s \in Swizzled(node[node[s].parent])
            \/ node[s].parent = Super /\ super = s
        BY <1>1, <1>2, <3>1 DEF Wiring, Anchored
      <3>3. CASE node[s].parent \in Used /\ s \in Swizzled(node[node[s].parent])
        BY <1>4, <1>18, <3>1, <3>3
      <3>4. CASE node[s].parent = Super /\ super = s
        BY <1>5, <1>12, <3>1, <3>4
      <3> QED BY <3>2, <3>3, <3>4
    <2> QED BY <2>1, <2>2
  <1> QED BY <1>4, <1>13, <1>14, <1>15, <1>16, <1>21, <1>22 DEF WireInv, Wiring

\* A leaf has no children: its halves leave the wiring alone.
LEMMA SplitLeafWire ==
  ASSUME WireInv, OwnInv, SplitLeaf
  PROVE  WireInv' /\ OwnInv'
  <1> DEFINE n == node[child]
             l == LeafLeft(n)
             r == LeafRight(n)
  <1>1. /\ pc = "split" /\ pc' = "link" /\ n.type = "leaf" /\ MarkDirty({child})
        /\ node' = [node EXCEPT ![child] = l] /\ sep' = LeafSep(n) /\ right' = AllocAddr
        /\ backend' = [backend EXCEPT ![AllocAddr] = Image(r, TRUE)] /\ cur_offset' = AllocOffset
        /\ UNCHANGED <<super, root_, op, cur, retry, child, adm>>
    BY DEF SplitLeaf, walk
  <1>2. TreeTypes /\ Shapes /\ PcPhase /\ Wiring
    BY <1>1 DEF WireInv
  <1>3. OwnInv' /\ Used' = Used /\ phase' = phase
    BY <1>1, WriteKeepsUsed DEF MarkDirty, control
  <1>4. /\ child \in Used /\ child \in Slot /\ isFull(n)
        /\ IF cur = Super THEN super = child ELSE child \in Swizzled(node[cur])
    BY <1>1, <1>2 DEF Wiring, ChildHere, Used
  <1>5. n \in NodeT /\ Shape(n)
    BY <1>2, <1>4 DEF TreeTypes, Shapes
  <1>6. /\ l \in NodeT /\ r \in NodeT /\ l.type = n.type /\ l.keys = n.keys /\ l.kids = n.kids
        /\ l.bitmap = n.bitmap /\ l.parent = n.parent
        /\ r.type = "leaf" /\ r.keys = <<>> /\ r.kids = <<>> /\ r.bitmap = {}
    BY <1>1, <1>4, <1>5, LeafHalves
  <1>7. LeafSep(n) \in Key
    BY <1>1, <1>4, <1>5, LeafSepFacts DEF isFull
  <1>8. AllocAddr \in Addr /\ AllocAddr \in Ref /\ AllocAddr \notin Slot /\ AllocOffset \in 2 .. BackendPages
    BY <1>2, AllocFacts DEF TreeTypes
  <1> HIDE DEF l, r
  <1>9. Shape(r) /\ Untagged(r)
    BY <1>6 DEF Shape, Untagged, Swizzled
  <1>10. /\ backend' \in [Addr -> [node : NodeT, dirty : BOOLEAN]]
         /\ \A b \in Addr : Shape(backend'[b].node) /\ Untagged(backend'[b].node)
    BY <1>1, <1>2, <1>6, <1>8, <1>9, BackendWrite
  <1>11. (Shape(l) <=> Shape(n)) /\ (Wired(l) <=> Wired(n)) /\ Swizzled(l) = Swizzled(n)
    BY <1>6 DEF Shape, Wired, Tagged, Swizzled
  <1>12. \A s \in Slot : node'[s] = IF s = child THEN l ELSE node[s]
    BY <1>1, <1>2 DEF TreeTypes
  <1>13. \A s \in Slot : /\ Shape(node'[s]) <=> Shape(node[s])
                         /\ Wired(node'[s]) <=> Wired(node[s])
                         /\ Swizzled(node'[s]) = Swizzled(node[s])
                         /\ node'[s].parent = node[s].parent /\ node'[s].type = node[s].type
    BY <1>6, <1>11, <1>12
  <1>14. TreeTypes'
    <2>1. node' \in [Slot -> NodeT]
      BY <1>1, <1>2, <1>6 DEF TreeTypes
    <2> QED BY <1>1, <1>2, <1>7, <1>8, <1>10, <2>1 DEF TreeTypes
  <1>15. Shapes'
    BY <1>1, <1>2, <1>10, <1>13 DEF Shapes
  <1>16. PcPhase'
    BY <1>1, <1>2, <1>3 DEF PcPhase
  <1>17. \A s \in Used : s \in Slot /\ Swizzled(node[s]) \in SUBSET Slot
    BY SwizzledFacts DEF Used
  <1>18. Wires'
    BY <1>1, <1>2, <1>3, <1>13, <1>17 DEF Wiring, Wires
  <1>19. Anchored'
    BY <1>1, <1>2, <1>3, <1>13, <1>17 DEF Wiring, Anchored
  <1>20. AdmHere' /\ RightHere'
    BY <1>1, <1>2, <1>8 DEF Wiring, AdmHere, RightHere
  <1>21. CurHere'
    BY <1>1, <1>2, <1>3, <1>13, <1>17 DEF Wiring, CurHere
  <1>22. ChildHere'
    BY <1>1, <1>2, <1>3, <1>4, <1>13, <1>17 DEF Wiring, CurHere, ChildHere
  <1> QED BY <1>3, <1>14, <1>15, <1>16, <1>18, <1>19, <1>20, <1>21, <1>22 DEF WireInv, Wiring

\* The children of the upper half of an inner node are in transit from here on.
LEMMA SplitInnerWire ==
  ASSUME WireInv, OwnInv, SplitInner
  PROVE  WireInv' /\ OwnInv'
  <1> DEFINE n == node[child]
             l == InnerLeft(n)
             r == InnerRight(n)
  <1>1. /\ pc = "split" /\ pc' = "sib" /\ n.type = "inner" /\ MarkDirty({child})
        /\ node' = [node EXCEPT ![child] = l] /\ sep' = InnerSep(n) /\ right' = AllocAddr
        /\ adm' = [node |-> r, addr |-> AllocAddr, dirty |-> TRUE, idx |-> 0]
        /\ cur_offset' = AllocOffset
        /\ UNCHANGED <<super, root_, backend, op, cur, retry, child>>
    BY DEF SplitInner, walk
  <1>2. TreeTypes /\ Shapes /\ PcPhase /\ Wiring
    BY <1>1 DEF WireInv
  <1>3. OwnInv' /\ Used' = Used /\ phase' = phase /\ pin' = pin /\ phase = "idle"
    BY <1>1, WriteKeepsUsed DEF MarkDirty, control
  <1>4. /\ child \in Used /\ child \in Slot /\ isFull(n)
        /\ IF cur = Super THEN super = child ELSE child \in Swizzled(node[cur])
    BY <1>1, <1>2 DEF Wiring, ChildHere, Used
  <1>5. n \in NodeT /\ Shape(n) /\ Wired(n)
    BY <1>2, <1>4 DEF TreeTypes, Shapes, Wiring, Wires
  <1>6. /\ l \in NodeT /\ r \in NodeT /\ l.type = n.type /\ l.parent = n.parent /\ InnerSep(n) \in Key
    BY <1>1, <1>4, <1>5, InnerHalves
  <1>7. /\ Wired(l) /\ Shape(l) /\ Wired(r) /\ Shape(r)
        /\ Swizzled(l) \union Swizzled(r) = Swizzled(n) /\ Swizzled(l) \cap Swizzled(r) = {}
    BY <1>1, <1>4, <1>5, WiredHalves
  <1>8. AllocAddr \in Addr /\ AllocAddr \in Ref /\ AllocAddr \notin Slot /\ AllocOffset \in 2 .. BackendPages
    BY <1>2, AllocFacts DEF TreeTypes
  <1> HIDE DEF l, r
  <1>9. /\ adm' \in [node : NodeT, addr : Addr, dirty : BOOLEAN, idx : Nat] /\ adm'.node = r
    BY <1>1, <1>6, <1>8
  <1>10. \A s \in Slot : node'[s] = IF s = child THEN l ELSE node[s]
    BY <1>1, <1>2 DEF TreeTypes
  <1>11. \A s \in Slot : /\ Shape(node[s]) => Shape(node'[s])
                         /\ Wired(node[s]) => Wired(node'[s])
                         /\ Swizzled(node'[s]) = IF s = child THEN Swizzled(l) ELSE Swizzled(node[s])
                         /\ node'[s].parent = node[s].parent /\ node'[s].type = node[s].type
    BY <1>6, <1>7, <1>10
  <1>12. \A s \in Used : s \in Slot /\ Swizzled(node[s]) \in SUBSET Slot
    BY SwizzledFacts DEF Used
  <1>13. \A c \in Swizzled(r) : /\ c \in Swizzled(n) /\ c \in Used /\ c # child /\ node[c].parent = child
                                /\ c \in Slot /\ c \notin Swizzled(l)
    BY <1>2, <1>4, <1>7, <1>12, RefsInUse DEF Wiring, Wires
  <1>14. TreeTypes'
    <2>1. node' \in [Slot -> NodeT]
      BY <1>1, <1>2, <1>6 DEF TreeTypes
    <2> QED BY <1>1, <1>2, <1>6, <1>8, <1>9, <2>1 DEF TreeTypes
  <1>15. Shapes'
    BY <1>1, <1>2, <1>7, <1>9, <1>11 DEF Shapes
  <1>16. PcPhase'
    <2>1. pin = NoSlot
      BY <1>3 DEF OwnInv, OwnTypes
    <2> QED BY <1>1, <1>3, <2>1 DEF PcPhase
  <1>17. \A s \in Used : Swizzled(node'[s]) \in SUBSET Swizzled(node[s])
    BY <1>7, <1>11, <1>12
  <1>18. Wires'
    <2>1. \A s \in Used' : Wired(node'[s])
      BY <1>2, <1>3, <1>11, <1>12 DEF Wiring, Wires
    <2>2. ASSUME NEW s \in Used', NEW c \in Swizzled(node'[s]) PROVE c # s /\ c \in Used' /\ node'[c].parent = s
      <3>1. s \in Used /\ c \in Swizzled(node[s]) /\ c \in Slot
        BY <1>3, <1>12, <1>17, <2>2
      <3> QED BY <1>3, <1>2, <1>11, <3>1 DEF Wiring, Wires
    <2>3. super' \in Slot => super' \in Used' /\ node'[super'].parent = Super
      BY <1>3, <1>1, <1>2, <1>11 DEF Wiring, Wires
    <2> QED BY <2>1, <2>2, <2>3 DEF Wires
  <1>19. Anchored'
    <2> SUFFICES ASSUME NEW s \in Used', s \notin Swizzled(r)
                 PROVE  \/ node'[s].parent \in Used' /\ s \in Swizzled(node'[node'[s].parent])
                        \/ node'[s].parent = Super /\ super' = s
      BY <1>1, <1>9 DEF Anchored
    <2>1. s \in Used /\ node'[s].parent = node[s].parent
      BY <1>3, <1>11, <1>12
    <2>2. \/ node[s].parent \in Used /\ s \in Swizzled(node[node[s].parent])
          \/ node[s].parent = Super /\ super = s
      BY <1>1, <1>2, <2>1 DEF Wiring, Anchored
    <2>3. CASE node[s].parent \in Used /\ s \in Swizzled(node[node[s].parent])
      <3>1. s \in Swizzled(node'[node[s].parent])
        BY <1>7, <1>11, <1>12, <2>3
      <3> QED BY <1>3, <2>1, <2>3, <3>1
    <2>4. CASE node[s].parent = Super /\ super = s
      BY <1>1, <2>1, <2>4
    <2> QED BY <2>2, <2>3, <2>4
  <1>20. AdmHere'
    <2>1. ASSUME NEW c \in Swizzled(r)
          PROVE  /\ c \in Used' /\ c # child' /\ node'[c].parent \in {child', NoSlot} /\ Unlinked(c)'
      <3>1. c \in Used' /\ c # child' /\ node'[c].parent = child'
        BY <1>1, <1>3, <1>11, <1>13
      <3>2. super # c
        BY <1>2, <1>4, <1>13, SlotsAreNoAddresses DEF Wiring, Wires
      <3>3. ASSUME NEW s \in Used', c \in Swizzled(node'[s]) PROVE FALSE
        <4>1. s \in Used /\ c \in Swizzled(node[s])
          BY <1>3, <1>17, <3>3
        <4>2. s = child
          BY <1>2, <1>13, <4>1 DEF Wiring, Wires
        <4>3. c \in Swizzled(l)
          BY <1>4, <1>11, <3>3, <4>2
        <4> QED BY <1>13, <4>3
      <3> QED BY <1>1, <3>1, <3>2, <3>3 DEF Unlinked
    <2> QED BY <1>8, <1>1, <1>7, <1>9, <2>1 DEF AdmHere
  <1>21. RightHere'
    BY <1>1 DEF RightHere
  <1>22. cur # Super => cur # child /\ cur \in Used
    BY <1>1, <1>2, <1>4 DEF Wiring, CurHere, Wires
  <1>23. CurHere'
    BY <1>1, <1>2, <1>3, <1>11, <1>12, <1>22 DEF Wiring, CurHere
  <1>24. ChildHere'
    BY <1>1, <1>3, <1>4, <1>11, <1>12, <1>22 DEF ChildHere
  <1> QED BY <1>3, <1>14, <1>15, <1>16, <1>18, <1>19, <1>20, <1>21, <1>23, <1>24 DEF WireInv, Wiring

\* update_all_parent_ptr ends the transit; the sibling itself is linked by nobody yet.
LEMMA AdmitSibWire ==
  ASSUME WireInv, OwnInv, AdmitSib
  PROVE  WireInv' /\ OwnInv'
  <1> DEFINE M == {adm.node.kids[i] : i \in DOMAIN adm.node.kids}
             w == WithParent(adm.node, cur)
             T == Swizzled(adm.node)
  <1>1. /\ pc = "sib" /\ pc' = "link" /\ CacheInsert(adm.addr, adm.dirty)
        /\ adm' = NoPage /\ right' = page
        /\ UNCHANGED <<super, root_, backend, cur_offset, op, cur, retry, child, sep>>
        /\ node' = [s \in Slot |-> IF s = page THEN w
                                   ELSE IF s \in M THEN WithParent(node[s], page) ELSE node[s]]
    BY DEF AdmitSib, storage, walk
  <1>2. TreeTypes /\ Shapes /\ PcPhase /\ Wiring
    BY <1>1 DEF WireInv
  <1>3. adm.node \in NodeT /\ adm.addr \in Addr /\ adm.dirty \in BOOLEAN /\ Shape(adm.node)
    BY <1>2 DEF TreeTypes, Shapes
  <1>4. /\ OwnInv' /\ page \in Slot /\ page \notin Used /\ Used' = Used \union {page}
        /\ phase' = "idle"
    BY <1>1, <1>3, InsertAddsUsed
  <1>5. T \in SUBSET Slot /\ \A s \in Slot : s \in M <=> s \in T
    BY SwizzledFacts DEF Swizzled
  <1>6. /\ Wired(adm.node)
        /\ \A c \in T : c \in Used /\ c # child /\ c # page /\ super # c
                        /\ \A s \in Used : c \notin Swizzled(node[s])
    BY <1>1, <1>2, <1>4 DEF Wiring, AdmHere, Unlinked
  <1>7. cur \in Slot \union {Super} /\ (cur # Super => cur \in Used)
    BY <1>1, <1>2 DEF Wiring, CurHere, TreeTypes
  <1>8. w \in NodeT /\ w.parent = cur /\ Shape(w) /\ Wired(w) /\ Swizzled(w) = T
    BY <1>3, <1>6, <1>7, Reparented
  <1>9. \A s \in Slot : WithParent(node[s], page) \in NodeT
          /\ WithParent(node[s], page).parent = page /\ WithParent(node[s], page).type = node[s].type
          /\ (Shape(WithParent(node[s], page)) <=> Shape(node[s]))
          /\ (Wired(WithParent(node[s], page)) <=> Wired(node[s]))
          /\ Swizzled(WithParent(node[s], page)) = Swizzled(node[s])
    BY <1>2, <1>4, Reparented DEF TreeTypes
  <1> HIDE DEF w, M, T
  <1>10. \A s \in Slot : node'[s] = IF s = page THEN w
                                    ELSE IF s \in T THEN WithParent(node[s], page) ELSE node[s]
    BY <1>1, <1>5
  <1>11. \A s \in Slot : /\ node'[s] \in NodeT /\ Shape(node'[s])
                         /\ node'[s].parent = IF s = page THEN cur
                                              ELSE IF s \in T THEN page ELSE node[s].parent
                         /\ Swizzled(node'[s]) = IF s = page THEN T ELSE Swizzled(node[s])
                         /\ s # page => node'[s].type = node[s].type
    BY <1>2, <1>8, <1>9, <1>10 DEF TreeTypes, Shapes
  <1>12. \A s \in Used : /\ s \in Slot /\ s # page /\ page \notin Swizzled(node[s])
                         /\ Swizzled(node[s]) \in SUBSET Slot
    BY <1>2, <1>4, RefsInUse, SwizzledFacts DEF Used
  <1>13. \A s \in Used' : Wired(node'[s])
    <2> SUFFICES ASSUME NEW s \in Used' PROVE Wired(node'[s])
      OBVIOUS
    <2>1. CASE s = page
      BY <1>4, <1>8, <1>10, <2>1
    <2>2. CASE s # page
      BY <1>2, <1>4, <1>9, <1>10, <1>12, <2>2 DEF Wiring, Wires
    <2> QED BY <2>1, <2>2
  <1>14. TreeTypes'
    <2>1. node' \in [Slot -> NodeT]
      <3>1. node' = [s \in Slot |-> node'[s]]
        BY <1>1
      <3> QED BY <1>11, <3>1
    <2>2. right' \in Ref
      BY <1>1, <1>4 DEF Ref
    <2> QED BY <1>1, <1>2, <2>1, <2>2, EmptyAdm DEF TreeTypes
  <1>15. Shapes'
    BY <1>1, <1>2, <1>11, EmptyAdm DEF Shapes
  <1>16. PcPhase'
    BY <1>1, <1>4 DEF PcPhase
  <1>17. Wires'
    <2>1. ASSUME NEW s \in Used', NEW c \in Swizzled(node'[s]) PROVE c # s /\ c \in Used' /\ node'[c].parent = s
      <3>1. CASE s = page
        <4>1. c \in T
          BY <1>4, <1>11, <2>1, <3>1
        <4>2. c \in Slot /\ c # page
          BY <1>5, <1>6, <4>1
        <4> QED BY <1>4, <1>6, <1>11, <3>1, <4>1, <4>2
      <3>2. CASE s # page
        <4>1. s \in Used /\ c \in Swizzled(node[s]) /\ c \in Slot
          BY <1>4, <1>11, <1>12, <2>1, <3>2
        <4>2. c \notin T /\ c # page
          BY <1>6, <1>12, <4>1
        <4> QED BY <1>4, <1>2, <1>11, <4>1, <4>2 DEF Wiring, Wires
      <3> QED BY <3>1, <3>2
    <2>2. super' \in Slot => super' \in Used' /\ node'[super'].parent = Super
      <3>1. ASSUME super \in Slot PROVE super # page /\ super \notin T
        BY <1>2, <1>4, <1>6, <3>1, RefsInUse
      <3> QED BY <1>4, <1>1, <1>2, <1>11, <3>1 DEF Wiring, Wires
    <2> QED BY <1>13, <2>1, <2>2 DEF Wires
  <1>18. Anchored'
    <2> SUFFICES ASSUME NEW s \in Used', s # page
                 PROVE  \/ node'[s].parent \in Used' /\ s \in Swizzled(node'[node'[s].parent])
                        \/ node'[s].parent = Super /\ super' = s
      BY <1>1, <1>4, <1>11 DEF Anchored
    <2>0. s \in Used /\ s \in Slot
      BY <1>4, <1>12
    <2>1. CASE s \in T
      BY <1>4, <1>11, <2>0, <2>1
    <2>2. CASE s \notin T
      <3>1. node'[s].parent = node[s].parent
        BY <1>11, <2>0, <2>2
      <3>2. \/ node[s].parent \in Used /\ s \in Swizzled(node[node[s].parent])
            \/ node[s].parent = Super /\ super = s
        BY <1>1, <1>2, <2>0, <2>2 DEF Wiring, Anchored, T
      <3> QED BY <1>1, <1>4, <1>11, <1>12, <3>1, <3>2
    <2> QED BY <2>1, <2>2
  <1>19. AdmHere'
    BY <1>1 DEF AdmHere
  <1>20. child \in Used /\ IF cur = Super THEN super = child ELSE child \in Swizzled(node[cur])
    BY <1>1, <1>2 DEF Wiring, ChildHere
  <1>21. CurHere' /\ ChildHere'
    BY <1>1, <1>2, <1>4, <1>7, <1>11, <1>12, <1>20 DEF Wiring, CurHere, ChildHere
  <1>22. RightHere'
    <2>1. page # child /\ page # cur
      BY <1>4, <1>7, <1>12, <1>20, SlotsAreNoAddresses
    <2>2. super # page
      BY <1>2, <1>4, RefsInUse
    <2>3. \A s \in Used' : page \notin Swizzled(node'[s])
      <3>1. page \notin T
        BY <1>4, <1>6
      <3> QED BY <1>4, <1>11, <1>12, <3>1
    <2> QED BY <1>1, <1>4, <1>11, <2>1, <2>2, <2>3 DEF RightHere, Unlinked
  <1> QED BY <1>4, <1>14, <1>15, <1>16, <1>17, <1>18, <1>19, <1>21, <1>22 DEF WireInv, Wiring

\* The parent gets the sibling, and with it the last page that was not anchored.
LEMMA LinkSiblingWire ==
  ASSUME WireInv, OwnInv, LinkSibling
  PROVE  WireInv' /\ OwnInv'
  <1> DEFINE n == node[cur]
             q == InnerInsert(n, sep, right)
  <1>1. /\ pc = "link" /\ cur # Super /\ MarkDirty({cur})
        /\ node' = [node EXCEPT ![cur] = q]
        /\ IF right \in Slot
           THEN pc' = "visit" /\ child' = NoSlot /\ sep' = 0 /\ right' = NullAddr
           ELSE pc' = "sibling" /\ UNCHANGED <<child, sep, right>>
        /\ UNCHANGED <<super, root_, backend, cur_offset, op, cur, adm>>
    BY DEF LinkSibling, Forget, storage, split
  <1>2. TreeTypes /\ Shapes /\ PcPhase /\ Wiring
    BY <1>1 DEF WireInv
  <1>3. OwnInv' /\ Used' = Used /\ phase' = "idle"
    BY <1>1, WriteKeepsUsed DEF MarkDirty, control
  <1>4. cur \in Used /\ cur \in Slot /\ n.type = "inner" /\ sep \in Key /\ right \in Ref
    BY <1>1, <1>2 DEF Wiring, CurHere, Used, TreeTypes
  <1>5. n \in NodeT /\ Shape(n) /\ Wired(n)
    BY <1>2, <1>4 DEF TreeTypes, Shapes, Wiring, Wires
  <1>6. right \in Slot => /\ right \in Used /\ right # cur /\ node[right].parent = cur
                          /\ Unlinked(right)
    BY <1>1, <1>2 DEF Wiring, RightHere
  <1>7. right \notin Swizzled(n)
    <2>1. Swizzled(n) \in SUBSET Slot
      BY SwizzledFacts
    <2> QED BY <1>4, <1>6, <2>1 DEF Unlinked
  <1>8. Wired(q) /\ Shape(q) /\ Swizzled(q) = Swizzled(n) \union ({right} \cap Slot)
    BY <1>4, <1>5, <1>7, WiredInsert
  <1>9. /\ q \in NodeT /\ q.type = "inner" /\ q.parent = n.parent
        /\ lowerBound(n, sep) \in 1 .. Len(n.keys) + 1 /\ Inserted(q.keys, n.keys, lowerBound(n, sep), sep)
    BY <1>4, <1>5, InnerInsertFacts
  <1> HIDE DEF q
  <1>10. \E i \in DOMAIN q.keys : q.keys[i] = sep
    <2>1. DOMAIN q.keys = 1 .. Len(q.keys) /\ Len(n.keys) \in Nat
      BY <1>5, <1>9, NodeSeqs
    <2> DEFINE p == lowerBound(n, sep)
    <2> HIDE DEF p
    <2>2. p \in 1 .. Len(n.keys) + 1 /\ Inserted(q.keys, n.keys, p, sep)
      BY <1>9 DEF p
    <2>3. p \in DOMAIN q.keys /\ ~(p < p)
      BY <2>1, <2>2 DEF Inserted
    <2>4. q.keys[p] = sep
      BY <2>2, <2>3 DEF Inserted
    <2> QED BY <2>3, <2>4
  <1>11. \A s \in Slot : node'[s] = IF s = cur THEN q ELSE node[s]
    BY <1>1, <1>2 DEF TreeTypes
  <1>12. \A s \in Slot : /\ Shape(node[s]) => Shape(node'[s])
                         /\ Wired(node[s]) => Wired(node'[s])
                         /\ Swizzled(node'[s]) = Swizzled(node[s])
                                                   \union (IF s = cur THEN {right} \cap Slot ELSE {})
                         /\ node'[s].parent = node[s].parent /\ node'[s].type = node[s].type
    <2> SUFFICES ASSUME NEW s \in Slot
                 PROVE   /\ Shape(node[s]) => Shape(node'[s])
                         /\ Wired(node[s]) => Wired(node'[s])
                         /\ Swizzled(node'[s]) = Swizzled(node[s])
                                                   \union (IF s = cur THEN {right} \cap Slot ELSE {})
                         /\ node'[s].parent = node[s].parent /\ node'[s].type = node[s].type
      OBVIOUS
    <2>1. CASE s = cur
      BY <1>4, <1>8, <1>9, <1>11, <2>1
    <2>2. CASE s # cur
      BY <1>11, <2>2
    <2> QED BY <2>1, <2>2
  <1>13. \A s \in Used : s \in Slot /\ Swizzled(node[s]) \in SUBSET Slot
    BY SwizzledFacts DEF Used
  <1>14. TreeTypes'
    <2>1. node' \in [Slot -> NodeT]
      BY <1>1, <1>2, <1>9 DEF TreeTypes
    <2>2. child' \in Slot \union {NoSlot} /\ right' \in Ref /\ (pc' = "sibling" => sep' \in Key)
      BY <1>1, <1>2, <1>4, SlotsAreNoAddresses DEF TreeTypes, Ref
    <2> QED BY <1>1, <1>2, <2>1, <2>2 DEF TreeTypes
  <1>15. Shapes'
    BY <1>1, <1>2, <1>12 DEF Shapes
  <1>16. PcPhase'
    BY <1>1, <1>3 DEF PcPhase
  <1>17. Wires'
    <2>1. \A s \in Used' : Wired(node'[s])
      BY <1>2, <1>3, <1>12, <1>13 DEF Wiring, Wires
    <2>2. ASSUME NEW s \in Used', NEW c \in Swizzled(node'[s]) PROVE c # s /\ c \in Used' /\ node'[c].parent = s
      <3>1. s \in Used /\ s \in Slot
        BY <1>3, <1>13
      <3>2. CASE c \in Swizzled(node[s])
        BY <1>3, <1>2, <1>12, <1>13, <3>1, <3>2 DEF Wiring, Wires
      <3>3. CASE c \notin Swizzled(node[s])
        <4>1. s = cur /\ c = right /\ c \in Slot
          BY <1>12, <2>2, <3>1, <3>3
        <4> QED BY <1>3, <1>6, <1>12, <4>1
      <3> QED BY <3>2, <3>3
    <2>3. super' \in Slot => super' \in Used' /\ node'[super'].parent = Super
      BY <1>3, <1>1, <1>2, <1>12 DEF Wiring, Wires
    <2> QED BY <2>1, <2>2, <2>3 DEF Wires
  <1>18. Anchored'
    <2> SUFFICES ASSUME NEW s \in Used'
                 PROVE  \/ node'[s].parent \in Used' /\ s \in Swizzled(node'[node'[s].parent])
                        \/ node'[s].parent = Super /\ super' = s
      BY DEF Anchored
    <2>1. s \in Used /\ s \in Slot /\ node'[s].parent = node[s].parent
      BY <1>3, <1>12, <1>13
    <2>2. \/ node[s].parent \in Used /\ s \in Swizzled(node[node[s].parent])
          \/ node[s].parent = Super /\ super = s
          \/ s = right /\ node[s].parent = cur
      BY <1>1, <1>2, <2>1 DEF Wiring, Anchored
    <2>3. CASE node[s].parent \in Used /\ s \in Swizzled(node[node[s].parent])
      BY <1>3, <1>12, <1>13, <2>1, <2>3
    <2>4. CASE node[s].parent = Super /\ super = s
      BY <1>1, <2>1, <2>4
    <2>5. CASE s = right /\ node[s].parent = cur
      BY <1>3, <1>4, <1>12, <2>1, <2>5
    <2> QED BY <2>2, <2>3, <2>4, <2>5
  <1>19. AdmHere' /\ RightHere' /\ ChildHere'
    BY <1>1, <1>2 DEF Wiring, AdmHere, RightHere, ChildHere
  <1>20. CurHere'
    <2>1. cur' = cur /\ cur \in Used' /\ node'[cur].type = "inner"
      BY <1>1, <1>3, <1>4, <1>12
    <2>2. pc' = "sibling" => \E i \in DOMAIN node'[cur].keys : node'[cur].keys[i] = sep'
      BY <1>1, <1>4, <1>10, <1>11
    <2> QED BY <1>1, <2>1, <2>2 DEF CurHere
  <1> QED BY <1>3, <1>14, <1>15, <1>16, <1>17, <1>18, <1>19, <1>20 DEF WireInv, Wiring

\* The node make_new_root builds.
LEMMA RootNode ==
  ASSUME NEW lv \in Nat, NEW k \in Key, NEW c \in Slot, NEW r \in Ref, c # r
  PROVE  LET n == Inner(lv, <<k>>, <<c, r>>, {1} \union (IF r \in Slot THEN {2} ELSE {}),
                        MinLimit, MaxLimit)
         IN /\ n \in NodeT /\ Shape(n) /\ Wired(n) /\ Swizzled(n) = {c, r} \cap Slot
            /\ n.type = "inner"
  <1> DEFINE b == {1} \union (IF r \in Slot THEN {2} ELSE {})
             n == Inner(lv, <<k>>, <<c, r>>, b, MinLimit, MaxLimit)
             ks == <<k>>
             cs == <<c, r>>
  <1>1. MinLimit \in MinLimit .. MaxLimit /\ MaxLimit \in MinLimit .. MaxLimit
    BY TreeAssumption DEF MinLimit, MaxLimit
  <1>2. c \in Ref /\ b \in SUBSET Nat
    BY DEF Ref
  <1>3. /\ ks \in Seq(Key) /\ Len(ks) = 1 /\ cs \in Seq(Ref) /\ Len(cs) = 2
        /\ cs[1] = c /\ cs[2] = r /\ DOMAIN cs = 1 .. 2
    BY <1>2
  <1>4. n = Inner(lv, ks, cs, b, MinLimit, MaxLimit)
    OBVIOUS
  <1>5. b = {1} \union (IF r \in Slot THEN {2} ELSE {})
    OBVIOUS
  <1> HIDE DEF n, ks, cs, b
  <1>6. /\ n \in NodeT /\ n.type = "inner" /\ n.keys = ks /\ n.kids = cs /\ n.bitmap = b
    BY <1>1, <1>2, <1>3, <1>4, NoData DEF Inner, NodeT
  <1>7. Shape(n)
    <2>1. n.type = "inner" /\ Len(n.keys) = 1 /\ Len(n.kids) = 2
      BY <1>3, <1>6
    <2> QED BY <2>1 DEF Shape
  <1>8. \A i : i \in Tagged(n) <=> i = 1 \/ (i = 2 /\ r \in Slot)
    BY <1>3, <1>6 DEF Tagged
  <1>9. Wired(n)
    <2>1. \A i : i \in n.bitmap <=> i = 1 \/ (i = 2 /\ r \in Slot)
      BY <1>5, <1>6
    <2>2. n.bitmap = Tagged(n)
      BY <1>8, <2>1
    <2>3. \A i, j \in Tagged(n) : n.kids[i] = n.kids[j] => i = j
      BY <1>3, <1>6, <1>8
    <2> QED BY <2>2, <2>3 DEF Wired
  <1>10. \A x : x \in Swizzled(n) <=> x \in {c, r} \cap Slot
    <2>1. \A x : x \in Swizzled(n) <=> \E i \in Tagged(n) : n.kids[i] = x
      BY SwizzledFacts
    <2> QED BY <1>3, <1>6, <1>8, <2>1
  <1>11. Swizzled(n) = {c, r} \cap Slot
    BY <1>10
  <1> QED BY <1>6, <1>7, <1>9, <1>11 DEF n, b, ks, cs

\* The new root names both halves before it is in the pool.
LEMMA MakeNewRootWire ==
  ASSUME WireInv, OwnInv, MakeNewRoot
  PROVE  WireInv' /\ OwnInv'
  <1> DEFINE n == Inner(node[child].level + 1, <<sep>>, <<child, right>>,
                        {1} \union (IF right \in Slot THEN {2} ELSE {}), MinLimit, MaxLimit)
  <1>1. /\ pc = "link" /\ cur = Super /\ pc' = "root" /\ root_' = AllocAddr
        /\ cur_offset' = AllocOffset
        /\ adm' = [node |-> n, addr |-> AllocAddr, dirty |-> TRUE, idx |-> 0]
        /\ UNCHANGED <<poolVars, node, super, backend, op, cur, retry, child, sep, right>>
    BY DEF MakeNewRoot, walk, split
  <1>2. TreeTypes /\ Shapes /\ PcPhase /\ Wiring
    BY <1>1 DEF WireInv
  <1>3. OwnInv' /\ Used' = Used /\ phase' = phase /\ pin' = pin
    BY <1>1, StillPool DEF poolVars, control
  <1>4. child \in Used /\ child \in Slot /\ super = child /\ sep \in Key /\ right \in Ref
    BY <1>1, <1>2 DEF Wiring, ChildHere, Used, TreeTypes
  <1>5. child # right
    BY <1>1, <1>2, <1>4 DEF Wiring, RightHere
  <1>6. node[child].level + 1 \in Nat
    <2>1. node[child] \in NodeT
      BY <1>2, <1>4 DEF TreeTypes
    <2>2. node[child].level \in Nat
      BY <2>1 DEF NodeT
    <2> QED BY <2>2
  <1>7. n \in NodeT /\ Shape(n) /\ Wired(n) /\ Swizzled(n) = {child, right} \cap Slot
    BY <1>4, <1>5, <1>6, RootNode
  <1>8. AllocAddr \in Addr /\ AllocAddr \in Ref /\ AllocAddr \notin Slot /\ AllocOffset \in 2 .. BackendPages
    BY <1>2, AllocFacts DEF TreeTypes
  <1> HIDE DEF n
  <1>9. /\ adm' \in [node : NodeT, addr : Addr, dirty : BOOLEAN, idx : Nat] /\ adm'.node = n
    BY <1>1, <1>7, <1>8
  <1>10. TreeTypes'
    BY <1>1, <1>2, <1>8, <1>9 DEF TreeTypes
  <1>11. Shapes'
    BY <1>1, <1>2, <1>7, <1>9 DEF Shapes
  <1>12. PcPhase'
    <2>1. phase = "idle" /\ pin = NoSlot
      BY <1>1, <1>2 DEF PcPhase, OwnInv, OwnTypes
    <2> QED BY <1>1, <1>3, <2>1 DEF PcPhase
  <1>13. Wires' /\ Anchored' /\ RightHere' /\ ChildHere' /\ CurHere'
    BY <1>1, <1>2, <1>3 DEF Wiring, Wires, Anchored, RightHere, ChildHere, CurHere, Unlinked
  <1>14. AdmHere'
    BY <1>1, <1>7, <1>9 DEF AdmHere
  <1> QED BY <1>3, <1>10, <1>11, <1>12, <1>13, <1>14 DEF WireInv, Wiring

\* super_root_ and the parent pointers of both halves name the new root.
LEMMA AdmitRootWire ==
  ASSUME WireInv, OwnInv, AdmitRoot
  PROVE  WireInv' /\ OwnInv'
  <1> DEFINE w == WithParent(adm.node, Super)
             T == {child, right} \cap Slot
  <1>1. /\ pc = "root" /\ pc' = "visit" /\ CacheInsert(adm.addr, adm.dirty)
        /\ adm' = NoPage /\ super' = page /\ child' = NoSlot /\ sep' = 0 /\ right' = NullAddr
        /\ UNCHANGED <<root_, backend, cur_offset, op, cur>>
        /\ node' = [s \in Slot |-> IF s = page THEN w
                                   ELSE IF s \in {child, right} THEN WithParent(node[s], page) ELSE node[s]]
    BY DEF AdmitRoot, Forget, storage
  <1>2. TreeTypes /\ Shapes /\ PcPhase /\ Wiring
    BY <1>1 DEF WireInv
  <1>3. adm.node \in NodeT /\ adm.addr \in Addr /\ adm.dirty \in BOOLEAN /\ Shape(adm.node)
    BY <1>2 DEF TreeTypes, Shapes
  <1>4. /\ OwnInv' /\ page \in Slot /\ page \notin Used /\ Used' = Used \union {page}
        /\ phase' = "idle"
    BY <1>1, <1>3, InsertAddsUsed
  <1>5. cur = Super /\ super = child /\ child \in Used /\ child \in Slot
    BY <1>1, <1>2 DEF Wiring, CurHere, ChildHere, Used
  <1>6. \A s \in Used : /\ s \in Slot /\ s # page /\ page \notin Swizzled(node[s])
                        /\ Swizzled(node[s]) \in SUBSET Slot
    BY <1>2, <1>4, RefsInUse, SwizzledFacts DEF Used
  <1>7. \A c \in T : c \in Used /\ c # page /\ \A s \in Used : c \notin Swizzled(node[s])
    <2>1. \A s \in Used : child \notin Swizzled(node[s])
      BY <1>2, <1>5, <1>6, SlotsAreNoAddresses DEF Wiring, Wires
    <2>2. right \in Slot => right \in Used /\ \A s \in Used : right \notin Swizzled(node[s])
      BY <1>1, <1>2 DEF Wiring, RightHere, Unlinked
    <2> QED BY <1>5, <1>6, <2>1, <2>2
  <1>8. Wired(adm.node) /\ Swizzled(adm.node) = T
    BY <1>1, <1>2 DEF Wiring, AdmHere
  <1>9. w \in NodeT /\ w.parent = Super /\ Shape(w) /\ Wired(w) /\ Swizzled(w) = T
    BY <1>3, <1>8, Reparented
  <1>10. \A s \in Slot : WithParent(node[s], page) \in NodeT
          /\ WithParent(node[s], page).parent = page
          /\ (Shape(WithParent(node[s], page)) <=> Shape(node[s]))
          /\ (Wired(WithParent(node[s], page)) <=> Wired(node[s]))
          /\ Swizzled(WithParent(node[s], page)) = Swizzled(node[s])
    BY <1>2, <1>4, Reparented DEF TreeTypes
  <1> HIDE DEF w
  <1>11. \A s \in Slot : node'[s] = IF s = page THEN w
                                    ELSE IF s \in T THEN WithParent(node[s], page) ELSE node[s]
    BY <1>1
  <1> HIDE DEF T
  <1>12. \A s \in Slot : /\ node'[s] \in NodeT /\ Shape(node'[s])
                         /\ node'[s].parent = IF s = page THEN Super
                                              ELSE IF s \in T THEN page ELSE node[s].parent
                         /\ Swizzled(node'[s]) = IF s = page THEN T ELSE Swizzled(node[s])
    BY <1>2, <1>9, <1>10, <1>11 DEF TreeTypes, Shapes
  <1>13. \A s \in Used' : Wired(node'[s])
    <2> SUFFICES ASSUME NEW s \in Used' PROVE Wired(node'[s])
      OBVIOUS
    <2>1. CASE s = page
      BY <1>4, <1>9, <1>11, <2>1
    <2>2. CASE s # page
      BY <1>2, <1>4, <1>6, <1>10, <1>11, <2>2 DEF Wiring, Wires
    <2> QED BY <2>1, <2>2
  <1>14. TreeTypes'
    <2>1. node' \in [Slot -> NodeT]
      <3>1. node' = [s \in Slot |-> node'[s]]
        BY <1>1
      <3> QED BY <1>12, <3>1
    <2>2. super' \in Ref /\ right' \in Ref
      BY <1>1, <1>4, SlotsAreNoAddresses DEF Ref
    <2> QED BY <1>1, <1>2, <2>1, <2>2, EmptyAdm DEF TreeTypes
  <1>15. Shapes'
    BY <1>1, <1>2, <1>12, EmptyAdm DEF Shapes
  <1>16. PcPhase'
    BY <1>1, <1>4 DEF PcPhase
  <1>17. Wires'
    <2>1. ASSUME NEW s \in Used', NEW c \in Swizzled(node'[s]) PROVE c # s /\ c \in Used' /\ node'[c].parent = s
      <3>1. CASE s = page
        <4>1. c \in T
          BY <1>4, <1>12, <2>1, <3>1
        <4>2. c \in Slot /\ c # page
          BY <1>6, <1>7, <4>1
        <4> QED BY <1>4, <1>7, <1>12, <3>1, <4>1, <4>2
      <3>2. CASE s # page
        <4>1. s \in Used /\ c \in Swizzled(node[s]) /\ c \in Slot
          BY <1>4, <1>6, <1>12, <2>1, <3>2
        <4>2. c \notin T /\ c # page
          BY <1>6, <1>7, <4>1
        <4> QED BY <1>4, <1>2, <1>12, <4>1, <4>2 DEF Wiring, Wires
      <3> QED BY <3>1, <3>2
    <2>2. super' \in Used' /\ node'[super'].parent = Super
      BY <1>1, <1>4, <1>12
    <2> QED BY <1>13, <2>1, <2>2 DEF Wires
  <1>18. Anchored'
    <2> SUFFICES ASSUME NEW s \in Used'
                 PROVE  \/ node'[s].parent \in Used' /\ s \in Swizzled(node'[node'[s].parent])
                        \/ node'[s].parent = Super /\ super' = s
      BY DEF Anchored
    <2>0. CASE s = page
      BY <1>1, <1>4, <1>12, <2>0
    <2>1. CASE s # page /\ s \in T
      BY <1>4, <1>6, <1>12, <2>1
    <2>2. CASE s # page /\ s \notin T
      <3>1. s \in Used /\ s \in Slot /\ node'[s].parent = node[s].parent
        BY <1>4, <1>6, <1>12, <2>2
      <3>2. s # child /\ s # right
        BY <2>2, <3>1 DEF T
      <3>3. node[s].parent \in Used /\ s \in Swizzled(node[node[s].parent])
        BY <1>1, <1>2, <1>5, <3>1, <3>2 DEF Wiring, Anchored
      <3> QED BY <1>4, <1>6, <1>12, <3>1, <3>3
    <2> QED BY <2>0, <2>1, <2>2
  <1>19. AdmHere' /\ RightHere' /\ ChildHere' /\ CurHere'
    BY <1>1, <1>5 DEF AdmHere, RightHere, ChildHere, CurHere
  <1> QED BY <1>4, <1>14, <1>15, <1>16, <1>17, <1>18, <1>19 DEF WireInv, Wiring

\* The pages a split has in its hands: the children it has moved, its two halves.
\* Nothing pins them while the split waits for a slot.
Held == InTransit \union (IF Splitting THEN {child, right} \cap Slot ELSE {})
\* sample_page demotes none of them.
SplitSpared == \A s \in Held : ~SamplePage(s)

\* Demoting a page: its parent, which is in use, refers to the backend again.
LEMMA SampleDemoteWire ==
  ASSUME WireInv, OwnInv, NEW s \in Slot, SampleDemote(s), s \notin Held
  PROVE  WireInv' /\ OwnInv'
  <1> DEFINE p == node[s].parent
             i == findIdx(node[p], s)
             a == remote_address[s]
             u == Unswizzle(node[p], i, a)
             z == WithParent(node[s], NoSlot)
  <1>1. /\ Sampled(s) /\ p \in Slot /\ i # 0 /\ SamplePage(s)
        /\ backend' = IF dirty[s] THEN [backend EXCEPT ![a] = Image(node[s], FALSE)] ELSE backend
        /\ node' = [node EXCEPT ![p] = u, ![s] = WithParent(@, NoSlot)]
        /\ UNCHANGED <<super, root_, cur_offset, pc, op, cur, child, sep, right, adm>>
    BY DEF SampleDemote, Demote, Parent, walk, split
  <1>2. /\ OwnInv' /\ s \in Used /\ Used' = Used \ {s} /\ phase = "sample" /\ phase' # "idle"
        /\ pin' = pin /\ pos_state[s] = 2
    BY <1>1, DemoteTakesUsed
  <1>3. TreeTypes /\ Shapes /\ PcPhase /\ pc # "aborted" /\ Wiring /\ pc \in {"load", "sib", "root"}
    BY <1>2 DEF WireInv, PcPhase
  <1>4. node[s] \in NodeT /\ node[p] \in NodeT /\ a \in Addr /\ Shape(node[p]) /\ Shape(node[s])
    BY <1>1, <1>3 DEF TreeTypes, Shapes, OwnInv, OwnTypes
  <1>5. s \in Swizzled(node[p]) /\ i \in DOMAIN node[p].kids /\ node[p].kids[i] = s
    BY <1>1, <1>4, FindIdxFacts DEF Tagged
  <1>6. node[s].bitmap = {} /\ Wired(node[s]) /\ Swizzled(node[s]) = {}
    BY <1>1, <1>2, <1>3, SwizzledFacts DEF Sampled, Wiring, Wires
  <1>7. p # s
    BY <1>5, <1>6
  <1> HIDE DEF u, z
  <1>8. \A x \in Slot : node'[x] = IF x = s THEN z ELSE IF x = p THEN u ELSE node[x]
    BY <1>1, <1>3, <1>7 DEF TreeTypes, z
  <1>9. /\ z \in NodeT /\ z.parent = NoSlot /\ Shape(z) /\ Wired(z) /\ Swizzled(z) = {}
    BY <1>4, <1>6, Reparented DEF z
  <1>10. s \notin Swizzled(adm.node) /\ (pc \in {"sib", "root"} => s # child /\ s # right)
         /\ super # s /\ \A c \in Swizzled(adm.node) : c \in Used'
    <2>1. super \in Slot => node[super].parent = Super
      BY <1>3 DEF Wiring, Wires
    <2>2. super # s
      BY <1>1, <2>1, TreeAssumption
    <2>3. pc \in {"sib", "root"} => s # child /\ s # right
      BY DEF Held, Splitting
    <2>4. \A c \in Swizzled(adm.node) : c \in Used
      BY <1>3, RefsInUse
    <2>5. s \notin Swizzled(adm.node)
      <3>1. CASE pc = "load"
        BY <1>3, <3>1 DEF Wiring, AdmHere, Untagged
      <3>2. CASE pc = "sib"
        BY <3>2 DEF Held, InTransit
      <3>3. CASE pc = "root"
        BY <1>3, <2>3, <3>3 DEF Wiring, AdmHere
      <3> QED BY <1>3, <3>1, <3>2, <3>3
    <2> QED BY <1>2, <2>2, <2>3, <2>4, <2>5
  <1>11. p \in Used /\ Wired(node[p])
    <2>1. p # Super
      BY <1>1, TreeAssumption
    <2>2. p \in Used
      BY <1>2, <1>3, <1>10, <2>1 DEF Wiring, Anchored
    <2> QED BY <1>3, <2>2 DEF Wiring, Wires
  <1>12. /\ u \in NodeT /\ Shape(u) /\ Wired(u) /\ Swizzled(u) = Swizzled(node[p]) \ {s}
         /\ u.type = node[p].type /\ u.parent = node[p].parent /\ u.keys = node[p].keys
    BY <1>4, <1>5, <1>11, WiredUnswizzle DEF u
  <1>13. u.kids = [node[p].kids EXCEPT ![i] = a]
    BY <1>4, <1>5, NodeEdits DEF u, Unswizzle, NodeT
  <1>14. \A x \in Slot : /\ node'[x] \in NodeT /\ Shape(node'[x])
                         /\ x # s => /\ node'[x].parent = node[x].parent
                                     /\ node'[x].type = node[x].type
                                     /\ node'[x].keys = node[x].keys
                         /\ (x \in Used => Wired(node'[x]))
                         /\ Swizzled(node'[x]) = Swizzled(node[x]) \ (IF x = p THEN {s} ELSE {})
    <2> SUFFICES ASSUME NEW x \in Slot
                 PROVE   /\ node'[x] \in NodeT /\ Shape(node'[x])
                         /\ x # s => /\ node'[x].parent = node[x].parent
                                     /\ node'[x].type = node[x].type
                                     /\ node'[x].keys = node[x].keys
                         /\ (x \in Used => Wired(node'[x]))
                         /\ Swizzled(node'[x]) = Swizzled(node[x]) \ (IF x = p THEN {s} ELSE {})
      OBVIOUS
    <2>1. CASE x = s
      BY <1>6, <1>7, <1>8, <1>9, <2>1
    <2>2. CASE x = p
      BY <1>1, <1>7, <1>8, <1>12, <2>2
    <2>3. CASE x # s /\ x # p
      <3>1. node'[x] = node[x]
        BY <1>8, <2>3
      <3> QED BY <1>3, <2>3, <3>1 DEF TreeTypes, Shapes, Wiring, Wires
    <2> QED BY <2>1, <2>2, <2>3
  <1>15. \A x \in Used : s \in Swizzled(node[x]) => x = p
    BY <1>3 DEF Wiring, Wires
  <1>16. \A x \in Used : x \in Slot /\ s \notin Swizzled(node'[x]) /\ Swizzled(node[x]) \in SUBSET Slot
    <2>1. \A x \in Used : x \in Slot /\ Swizzled(node[x]) \in SUBSET Slot
      BY SwizzledFacts DEF Used
    <2>2. \A x \in Used : s \notin Swizzled(node'[x])
      BY <1>14, <1>15, <2>1
    <2> QED BY <2>1, <2>2
  <1>17. \A x \in Used : Swizzled(node'[x]) = Swizzled(node[x]) \ {s}
    BY <1>14, <1>15, <1>16
  <1>18. cur # s
    <2>1. CASE pc = "load"
      <3>1. pin # s
        BY <1>2, SlotAssumption DEF OwnInv, OwnTypes, SlotOwnership, OwnerTagged
      <3> QED BY <1>3, <2>1, <3>1, TreeAssumption DEF PcPhase
    <2>2. CASE pc = "sib"
      <3>1. cur # Super => child \in Swizzled(node[cur])
        BY <1>3, <2>2 DEF Wiring, ChildHere
      <3> QED BY <1>6, <3>1, TreeAssumption
    <2>3. CASE pc = "root"
      BY <1>3, <2>3, TreeAssumption DEF Wiring, CurHere
    <2> QED BY <1>3, <2>1, <2>2, <2>3
  <1>19. backend' \in [Addr -> [node : NodeT, dirty : BOOLEAN]]
         /\ \A b \in Addr : Shape(backend'[b].node) /\ Untagged(backend'[b].node)
    <2>1. CASE dirty[s]
      <3>1. Untagged(node[s])
        BY <1>6 DEF Untagged
      <3> QED BY <1>1, <1>3, <1>4, <2>1, <3>1, BackendWrite
    <2>2. CASE ~dirty[s]
      BY <1>1, <1>3, <2>2 DEF TreeTypes, Shapes
    <2> QED BY <2>1, <2>2
  <1>20. TreeTypes'
    <2>1. node' \in [Slot -> NodeT]
      <3>1. node' = [x \in Slot |-> node'[x]]
        BY <1>1, <1>3 DEF TreeTypes
      <3> QED BY <1>14, <3>1
    <2> QED BY <1>1, <1>3, <1>19, <2>1 DEF TreeTypes
  <1>21. Shapes'
    BY <1>1, <1>3, <1>14, <1>19 DEF Shapes
  <1>22. PcPhase'
    BY <1>1, <1>2, <1>3 DEF PcPhase
  <1>23. CurHere'
    <2>1. cur # Super => cur \in Used' /\ node'[cur].type = node[cur].type
                         /\ node'[cur].keys = node[cur].keys
      BY <1>2, <1>3, <1>14, <1>16, <1>18 DEF Wiring, CurHere
    <2> QED BY <1>1, <1>3, <2>1 DEF Wiring, CurHere
  <1>24. ChildHere'
    <2>1. cur # Super => cur \in Used
      BY <1>3 DEF Wiring, CurHere
    <2> QED BY <1>1, <1>2, <1>3, <1>10, <1>17, <2>1 DEF Wiring, ChildHere
  <1>25. ASSUME NEW c \in Slot, Unlinked(c) PROVE Unlinked(c)'
    BY <1>1, <1>2, <1>17, <1>25 DEF Unlinked
  <1>26. RightHere'
    BY <1>1, <1>2, <1>3, <1>10, <1>14, <1>25 DEF Wiring, RightHere
  <1>27. AdmHere'
    <2>1. CASE pc = "load"
      <3>1. Untagged(adm.node) /\ (cur = Super => super \notin Slot)
        BY <1>3, <2>1 DEF Wiring, AdmHere
      <3>2. ASSUME cur # Super
            PROVE  adm.idx \in DOMAIN node'[cur].kids /\ node'[cur].kids[adm.idx] \notin Slot
        <4>1. adm.idx \in DOMAIN node[cur].kids /\ node[cur].kids[adm.idx] \notin Slot /\ cur \in Slot
          BY <1>3, <2>1, <3>2 DEF Wiring, AdmHere, TreeTypes
        <4>2. CASE cur = p
          <5>1. node'[cur].kids = [node[p].kids EXCEPT ![i] = a]
            BY <1>7, <1>8, <1>13, <4>1, <4>2
          <5>2. adm.idx # i
            BY <1>5, <4>1, <4>2
          <5> QED BY <4>1, <4>2, <5>1, <5>2
        <4>3. CASE cur # p
          BY <1>8, <1>18, <4>1, <4>3
        <4> QED BY <4>2, <4>3
      <3> QED BY <1>1, <2>1, <3>1, <3>2 DEF AdmHere
    <2>2. CASE pc = "sib"
      <3>1. Wired(adm.node) /\ right \notin Slot
        BY <1>3, <2>2 DEF Wiring, AdmHere
      <3>2. ASSUME NEW c \in Swizzled(adm.node)
            PROVE  c \in Used' /\ c # child /\ node'[c].parent \in {child, NoSlot} /\ Unlinked(c)'
        <4>1. c \in Slot /\ c # s /\ c \in Used'
          BY <1>10, SwizzledFacts
        <4>2. c # child /\ node[c].parent \in {child, NoSlot} /\ Unlinked(c)
          BY <1>3, <2>2 DEF Wiring, AdmHere
        <4> QED BY <1>14, <1>25, <4>1, <4>2
      <3> QED BY <1>1, <2>2, <3>1, <3>2 DEF AdmHere
    <2>3. CASE pc = "root"
      BY <1>1, <1>3, <2>3 DEF Wiring, AdmHere
    <2> QED BY <1>3, <2>1, <2>2, <2>3
  <1>28. Wires'
    <2>1. ASSUME NEW x \in Used' PROVE Wired(node'[x])
      BY <1>2, <1>14, <1>16
    <2>2. ASSUME NEW x \in Used', NEW c \in Swizzled(node'[x]) PROVE c # x /\ c \in Used' /\ node'[c].parent = x
      <3>1. x \in Used /\ c \in Swizzled(node[x]) /\ c # s /\ c \in Slot
        BY <1>2, <1>16, <1>17
      <3> QED BY <1>2, <1>3, <1>14, <3>1 DEF Wiring, Wires
    <2>3. super' \in Slot => super' \in Used' /\ node'[super'].parent = Super
      BY ZenonT(60), <1>1, <1>2, <1>3, <1>10, <1>14 DEF Wiring, Wires
    <2> QED BY <2>1, <2>2, <2>3 DEF Wires
  <1>29. Anchored'
    <2> SUFFICES ASSUME NEW x \in Used'
                 PROVE  \/ pc = "sib" /\ x \in Swizzled(adm.node)
                        \/ node'[x].parent \in Used' /\ x \in Swizzled(node'[node'[x].parent])
                        \/ node'[x].parent = Super /\ super = x
                        \/ pc \in {"link", "root"} /\ x = right /\ node'[x].parent = cur
      BY <1>1 DEF Anchored
    <2>1. x \in Used /\ x # s /\ x \in Slot /\ node'[x].parent = node[x].parent
      BY <1>2, <1>14, <1>16
    <2>2. CASE node[x].parent \in Used /\ x \in Swizzled(node[node[x].parent])
      <3>1. node[x].parent # s
        BY <1>6, <2>2
      <3> QED BY <1>2, <1>17, <2>1, <2>2, <3>1
    <2>3. CASE ~(node[x].parent \in Used /\ x \in Swizzled(node[node[x].parent]))
      BY <1>3, <2>1, <2>3 DEF Wiring, Anchored
    <2> QED BY <2>2, <2>3
  <1> QED BY <1>2, <1>20, <1>21, <1>22, <1>23, <1>24, <1>26, <1>27, <1>28, <1>29 DEF WireInv, Wiring

\* The sampler finds the old parent of a child in transit and clears parent_ptr.
LEMMA SampleStaleWire ==
  ASSUME WireInv, OwnInv, NEW s \in Slot, SampleStale(s)
  PROVE  WireInv' /\ OwnInv'
  <1> DEFINE p == node[s].parent
             z == WithParent(node[s], NoSlot)
  <1>1. /\ Sampled(s) /\ p \in Slot /\ findIdx(node[p], s) = 0
        /\ node' = [node EXCEPT ![s] = z]
        /\ UNCHANGED <<poolVars, super, root_, backend, cur_offset, pc, op, cur, child, sep, right, adm>>
    BY DEF SampleStale, Parent, storage, walk, split
  <1>2. OwnInv' /\ Used' = Used /\ phase' = phase /\ pin' = pin
    BY <1>1, StillPool DEF poolVars, control
  <1>3. TreeTypes /\ Shapes /\ PcPhase /\ Wiring /\ pc \in {"load", "sib", "root"}
    BY <1>1 DEF WireInv, PcPhase, Sampled
  <1>4. s \in Used /\ node[s] \in NodeT /\ node[p] \in NodeT /\ Shape(node[s]) /\ p # Super
    BY <1>1, <1>3, TreeAssumption DEF Sampled, HotSlots, Used, InUse, TreeTypes, Shapes
  <1>5. s \notin Swizzled(node[p])
    BY <1>1, <1>4, FindIdxFacts
  <1>6. pc = "sib" /\ s \in Swizzled(adm.node)
    <2>1. ~(pc \in {"link", "root"} /\ s = right /\ p = cur)
      BY <1>1, <1>3, TreeAssumption DEF Wiring, CurHere
    <2> QED BY <1>3, <1>4, <1>5, <2>1 DEF Wiring, Anchored
  <1>7. /\ z \in NodeT /\ z.parent = NoSlot /\ Shape(z) /\ z.type = node[s].type /\ z.keys = node[s].keys
        /\ (Wired(z) <=> Wired(node[s])) /\ Swizzled(z) = Swizzled(node[s])
        /\ z.kids = node[s].kids /\ z.bitmap = node[s].bitmap
    BY <1>4, Reparented
  <1> HIDE DEF z
  <1>8. \A x \in Slot : node'[x] = IF x = s THEN z ELSE node[x]
    BY <1>1, <1>3 DEF TreeTypes
  <1>9. \A x \in Slot : /\ node'[x] \in NodeT /\ Shape(node'[x])
                        /\ node'[x].parent = (IF x = s THEN NoSlot ELSE node[x].parent)
                        /\ node'[x].type = node[x].type /\ node'[x].keys = node[x].keys
                        /\ (Wired(node'[x]) <=> Wired(node[x]))
                        /\ Swizzled(node'[x]) = Swizzled(node[x])
    <2> SUFFICES ASSUME NEW x \in Slot
                 PROVE  /\ node'[x] \in NodeT /\ Shape(node'[x])
                        /\ node'[x].parent = (IF x = s THEN NoSlot ELSE node[x].parent)
                        /\ node'[x].type = node[x].type /\ node'[x].keys = node[x].keys
                        /\ (Wired(node'[x]) <=> Wired(node[x]))
                        /\ Swizzled(node'[x]) = Swizzled(node[x])
      OBVIOUS
    <2>1. CASE x = s
      BY <1>7, <1>8, <2>1
    <2>2. CASE x # s
      BY <1>3, <1>8, <2>2 DEF TreeTypes, Shapes
    <2> QED BY <2>1, <2>2
  <1>10. \A x \in Used : x \in Slot /\ s \notin Swizzled(node[x]) /\ Swizzled(node[x]) \in SUBSET Slot
    BY <1>3, <1>6, SwizzledFacts DEF Wiring, AdmHere, Unlinked, Used
  <1>11. super # s
    BY <1>3, <1>6 DEF Wiring, AdmHere, Unlinked
  <1>12. TreeTypes'
    <2>1. node' \in [Slot -> NodeT]
      <3>1. node' = [x \in Slot |-> node'[x]]
        BY <1>1, <1>3 DEF TreeTypes
      <3> QED BY <1>9, <3>1
    <2> QED BY <1>1, <1>3, <2>1 DEF TreeTypes
  <1>13. Shapes' /\ PcPhase'
    BY <1>1, <1>2, <1>3, <1>9 DEF Shapes, PcPhase
  <1>14. CurHere' /\ ChildHere'
    <2>1. cur # Super => cur \in Used /\ cur \in Slot /\ node'[cur].type = node[cur].type
                         /\ Swizzled(node'[cur]) = Swizzled(node[cur])
      BY <1>3, <1>9, <1>10 DEF Wiring, CurHere
    <2> QED BY <1>1, <1>2, <1>3, <1>6, <2>1 DEF Wiring, CurHere, ChildHere
  <1>15. RightHere'
    BY <1>1, <1>6 DEF RightHere
  <1>16. AdmHere'
    <2>1. ASSUME NEW c \in Swizzled(adm.node)
          PROVE  c \in Used' /\ c # child /\ node'[c].parent \in {child, NoSlot} /\ Unlinked(c)'
      <3>1. c \in Used /\ c \in Slot /\ c # child /\ node[c].parent \in {child, NoSlot} /\ Unlinked(c)
        BY <1>3, <1>6 DEF Wiring, AdmHere, Used
      <3>2. Unlinked(c)'
        BY <1>1, <1>2, <1>9, <1>10, <3>1 DEF Unlinked
      <3> QED BY <1>2, <1>9, <3>1, <3>2
    <2>2. Wired(adm.node) /\ right \notin Slot
      BY <1>3, <1>6 DEF Wiring, AdmHere
    <2> QED BY <1>1, <1>6, <2>1, <2>2 DEF AdmHere
  <1>17. Wires'
    <2>1. ASSUME NEW x \in Used' PROVE Wired(node'[x])
      BY <1>2, <1>3, <1>9, <1>10 DEF Wiring, Wires
    <2>2. ASSUME NEW x \in Used', NEW c \in Swizzled(node'[x]) PROVE c # x /\ c \in Used' /\ node'[c].parent = x
      <3>1. x \in Used /\ c \in Swizzled(node[x]) /\ c # s /\ c \in Slot
        BY <1>2, <1>9, <1>10
      <3> QED BY <1>2, <1>3, <1>9, <3>1 DEF Wiring, Wires
    <2>3. super' \in Slot => super' \in Used' /\ node'[super'].parent = Super
      BY <1>1, <1>2, <1>3, <1>9, <1>11 DEF Wiring, Wires
    <2> QED BY <2>1, <2>2, <2>3 DEF Wires
  <1>18. Anchored'
    <2> SUFFICES ASSUME NEW x \in Used'
                 PROVE  \/ x \in Swizzled(adm.node)
                        \/ node'[x].parent \in Used' /\ x \in Swizzled(node'[node'[x].parent])
                        \/ node'[x].parent = Super /\ super = x
      BY <1>1, <1>6 DEF Anchored
    <2>1. x \in Used /\ x \in Slot
      BY <1>2, <1>10
    <2>2. CASE x \in Swizzled(adm.node)
      BY <2>2
    <2>3. CASE x \notin Swizzled(adm.node)
      <3>1. node'[x].parent = node[x].parent
        BY <1>6, <1>9, <2>1, <2>3
      <3>2. \/ node[x].parent \in Used /\ x \in Swizzled(node[node[x].parent])
            \/ node[x].parent = Super /\ super = x
        BY <1>3, <1>6, <2>1, <2>3 DEF Wiring, Anchored
      <3> QED BY <1>2, <1>9, <1>10, <3>1, <3>2
    <2> QED BY <2>2, <2>3
  <1> QED BY <1>2, <1>12, <1>13, <1>14, <1>15, <1>16, <1>17, <1>18 DEF WireInv, Wiring

\* The orphan branch only ever demotes a page that a split has in its hands.
LEMMA OrphanInTransit ==
  ASSUME WireInv, OwnInv, NEW s \in Slot, Sampled(s), node[s].parent = NoSlot
  PROVE  pc = "sib" /\ s \in Swizzled(adm.node)
  <1>1. pc \in {"load", "sib", "root"} /\ Wiring /\ s \in Used
    BY DEF WireInv, PcPhase, Sampled, HotSlots, Used, InUse
  <1>2. NoSlot # Super /\ NoSlot \notin Used
    BY TreeAssumption, SlotAssumption DEF Used
  <1>3. ~(pc \in {"link", "root"} /\ node[s].parent = cur)
    BY <1>1, <1>2 DEF Wiring, CurHere
  <1> QED BY <1>1, <1>2, <1>3 DEF Wiring, Anchored

\* So the orphan branch is a demotion of a held page.
LEMMA SampleOrphanWire ==
  ASSUME WireInv, OwnInv, NEW s \in Slot, SampleOrphan(s)
  PROVE  s \in Held
  BY OrphanInTransit DEF SampleOrphan, Held, InTransit

\* A dangling reference shows that a held page was demoted.
LEMMA SparedIfSane ==
  ASSUME OwnInv, NoDanglingRef', NEW s \in Slot, SampleDemote(s) \/ SampleOrphan(s)
  PROVE  s \notin Held
  <1>1. SamplePage(s) /\ UNCHANGED <<adm, pc, child, right>>
    BY DEF SampleDemote, SampleOrphan, Demote, split
  <1>2. ~ InUse(s)'
    BY <1>1, DemoteTakesUsed DEF Used
  <1> QED BY <1>1, <1>2 DEF NoDanglingRef, Held, InTransit, Splitting

-----------------------------------------------------------------------------
\* A stuttering step.
LEMMA StillWire ==
  ASSUME WireInv, OwnInv, UNCHANGED vars
  PROVE  WireInv' /\ OwnInv'
  <1>1. UNCHANGED <<node, super, root_, backend, cur_offset, pc, op, cur, child, sep, right, adm>>
        /\ UNCHANGED poolVars
    BY DEF vars, treeVars, storage, walk, split
  <1>2. OwnInv' /\ Used' = Used /\ phase' = phase /\ pin' = pin
    BY <1>1, StillPool DEF poolVars, control
  <1> QED BY <1>1, <1>2 DEF WireInv, TreeTypes, Shapes, PcPhase, Wiring, CurHere, ChildHere, RightHere,
                            AdmHere, Wires, Anchored, Unlinked

\* The wiring survives every step, as long as the sampler spares the pages a split holds.
LEMMA NextWire ==
  ASSUME WireInv, OwnInv, [Next]_vars, SplitSpared \/ NoDanglingRef'
  PROVE  WireInv' /\ OwnInv'
  <1>1. ASSUME NEW s \in Slot, SampleDemote(s) \/ SampleOrphan(s) PROVE s \notin Held
    <2>1. CASE NoDanglingRef'
      BY <1>1, <2>1, SparedIfSane
    <2>2. CASE SplitSpared
      BY <1>1, <2>2 DEF SplitSpared, SampleDemote, SampleOrphan, Demote
    <2> QED BY <2>1, <2>2
  <1>2. ASSUME NEW s \in Slot, SampleDemote(s) PROVE WireInv' /\ OwnInv'
    BY <1>1, <1>2, SampleDemoteWire
  <1>3. ASSUME NEW s \in Slot, SampleStale(s) PROVE WireInv' /\ OwnInv'
    BY <1>3, SampleStaleWire
  <1>4. ASSUME NEW s \in Slot, SampleOrphan(s) PROVE WireInv' /\ OwnInv'
    BY <1>1, <1>4, SampleOrphanWire
  <1>5. ASSUME NEW s \in Slot, SampleAssert(s) PROVE WireInv' /\ OwnInv'
    BY <1>5, SampleAssertWire
  <1>6. ASSUME NEW o \in Calls, Begin(o) PROVE WireInv' /\ OwnInv'
    BY <1>6, BeginWire
  <1>7. CASE VisitHit
    <2>1. UNCHANGED poolVars
      BY <1>7 DEF VisitHit
    <2> QED BY <1>7, <2>1, VisitHitWire, StillPool
  <1>8. CASE LeafInsert \/ LeafLookup \/ LeafUpdate \/ LeafRemove \/ LeafScan \/ LeafCtor
    BY <1>8, LeafWire DEF LeafStep
  <1>9. CASE UNCHANGED vars
    BY <1>9, StillWire
  <1>10. CASE VisitMiss \/ LoadSibling \/ RequestUnpinned \/ PoolStep
    BY <1>10, VisitMissWire, LoadSiblingWire, RequestUnpinnedWire, PoolStepWire
  <1>11. CASE AdmitLoad \/ AdmitSib \/ AdmitRoot
    BY <1>11, AdmitLoadWire, AdmitSibWire, AdmitRootWire
  <1>12. CASE SplitLeaf \/ SplitInner \/ LinkSibling \/ MakeNewRoot
    BY <1>12, SplitLeafWire, SplitInnerWire, LinkSiblingWire, MakeNewRootWire
  <1>13. CASE Destroy
    BY <1>13, DestroyWire
  <1> QED BY <1>2, <1>3, <1>4, <1>5, <1>6, <1>7, <1>8, <1>9, <1>10, <1>11, <1>12, <1>13
          DEF Next, TreeStep

\* The wiring says what SwizzleSound asks of the states before an abort.
LEMMA WireImpliesSwizzleSound == WireInv => SwizzleSound
  <1> SUFFICES ASSUME WireInv, pc # "aborted" PROVE SwizzleSound
    BY DEF SwizzleSound, Sane
  <1>1. Shapes /\ Wiring
    BY DEF WireInv
  <1>2. \A s : s \in Used <=> s \in Slot /\ InUse(s)
    BY DEF Used
  <1>3. ASSUME NEW s \in InUseInner
        PROVE  /\ node[s].bitmap = {i \in DOMAIN node[s].kids : node[s].kids[i] \in Slot}
               /\ \A i, j \in node[s].bitmap : node[s].kids[i] = node[s].kids[j] => i = j
               /\ \A c \in Swizzled(node[s]) : node[c].parent = s
    <2>1. s \in Used
      BY <1>2 DEF InUseInner
    <2> QED BY <1>1, <2>1 DEF Wiring, Wires, Wired, Tagged
  <1>4. super \in Slot => node[super].parent = Super
    BY <1>1 DEF Wiring, Wires
  <1>5. ASSUME NEW s \in {x \in Slot : InUse(x)} \ InTransit
        PROVE  \/ node[s].parent \in InUseInner /\ s \in Swizzled(node[node[s].parent])
               \/ node[s].parent = Super /\ super = s
               \/ Splitting /\ s = right /\ node[s].parent = cur
    <2>1. s \in Used
      BY <1>2
    <2>2. CASE node[s].parent \in Used /\ s \in Swizzled(node[node[s].parent])
      <3>1. node[node[s].parent].type = "inner"
        <4>1. ASSUME NEW x \in Slot, s \in Swizzled(node[x]) PROVE node[x].type = "inner"
          BY <1>1, <4>1 DEF Shapes, Shape, Swizzled
        <4> QED BY <1>2, <2>2, <4>1
      <3> QED BY <1>2, <2>2, <3>1 DEF InUseInner
    <2>3. CASE ~(node[s].parent \in Used /\ s \in Swizzled(node[node[s].parent]))
      BY <1>1, <1>5, <2>1, <2>3 DEF Wiring, Anchored, InTransit, Splitting
    <2> QED BY <2>2, <2>3
  <1> QED BY <1>3, <1>4, <1>5 DEF SwizzleSound

\* In every run in which no swizzled reference has dangled so far, a set bit of a
\* bitmap is a tagged child, a tagged child's parent_ptr names its parent, every
\* page in use is the tagged child of the parent it names (or in the hands of a
\* split), and every slot of the pool has exactly one owner.
THEOREM SwizzlingSound == Spec /\ []NoDanglingRef => [](SwizzleSound /\ SlotOwnership)
  <1>1. Init => WireInv /\ OwnInv
    BY WireInit
  <1>2. WireInv /\ OwnInv /\ NoDanglingRef' /\ [Next]_vars => (WireInv /\ OwnInv)'
    BY NextWire
  <1>3. WireInv /\ OwnInv => SwizzleSound /\ SlotOwnership
    BY WireImpliesSwizzleSound DEF OwnInv
  <1> QED BY <1>1, <1>2, <1>3, PTL DEF Spec

\* The assertion of sample_page changes no page, and nothing runs after it.
LEMMA AbortSane ==
  ASSUME WireInv, [Next]_vars, pc' = "aborted", NoDanglingRef
  PROVE  NoDanglingRef'
  <1>1. \A s \in Slot : ~SampleDemote(s) /\ ~SampleStale(s) /\ ~SampleOrphan(s)
    BY DEF WireInv, PcPhase, SampleDemote, SampleStale, SampleOrphan, Sampled
  <1>2. ~PoolStep
    BY DEF WireInv, PcPhase, PoolStep, GetEmptyPage, Allocate, TakeLocal, EvictCool, ProbeFails, SampleExit,
           treeVars
  <1>3. ~(VisitHit \/ VisitMiss \/ AdmitLoad \/ LoadSibling \/ SplitLeaf \/ SplitInner \/ AdmitSib)
    BY DEF VisitHit, VisitMiss, AdmitLoad, LoadSibling, LoadChild, SplitLeaf, SplitInner, AdmitSib
  <1>4. ~(RequestUnpinned \/ LinkSibling \/ MakeNewRoot \/ AdmitRoot \/ Destroy)
    BY DEF RequestUnpinned, treeVars, LinkSibling, MakeNewRoot, AdmitRoot, Destroy
  <1>5. ~(LeafInsert \/ LeafLookup \/ LeafUpdate \/ LeafRemove \/ LeafScan \/ LeafCtor)
    BY DEF LeafInsert, LeafLookup, LeafUpdate, LeafRemove, LeafScan, LeafCtor, Finish
  <1>6. ASSUME NEW o \in Calls PROVE ~Begin(o)
    BY DEF Begin
  <1>7. (\E s \in Slot : SampleAssert(s)) \/ UNCHANGED vars
    BY <1>1, <1>2, <1>3, <1>4, <1>5, <1>6 DEF Next, TreeStep
  <1>8. UNCHANGED <<node, super, adm, pages>>
    BY <1>7 DEF SampleAssert, vars, poolVars, treeVars
  <1>9. ~Splitting'
    BY DEF Splitting
  <1> QED BY <1>8, <1>9 DEF NoDanglingRef, InUseInner, InUse, pages, Swizzled

\* The one thing that breaks a swizzled reference is a demotion that takes a page
\* out of the hands of a split: in a run where sample_page spares those pages
\* no reference ever dangles.
THEOREM OnlyHeldPagesDangle == Spec /\ [][SplitSpared]_vars => []NoDanglingRef
  <1>1. Init => WireInv /\ OwnInv
    BY WireInit
  <1>2. Init => NoAssertFailure
    BY DEF Init, NoAssertFailure
  <1>3. WireInv /\ OwnInv /\ [Next]_vars /\ SplitSpared => (WireInv /\ OwnInv)'
    BY NextWire
  <1>4. WireInv /\ OwnInv /\ UNCHANGED vars => (WireInv /\ OwnInv)'
    BY StillWire
  <1>5. WireInv /\ [Next]_vars /\ ~NoAssertFailure' /\ NoDanglingRef => NoDanglingRef'
    BY AbortSane DEF NoAssertFailure
  <1>6. WireInv /\ NoAssertFailure => NoDanglingRef
    BY WiredIsSane DEF WireInv, NoAssertFailure
  <1> QED BY <1>1, <1>2, <1>3, <1>4, <1>5, <1>6, PTL DEF Spec

=============================================================================
