-------------------------- MODULE BTreeNodeProofs --------------------------
(***************************************************************************)
(* A page of the tree (BTreeNode), leaf or inner node, is what the tree    *)
(* takes it for, for every number of entries, keys and children and every  *)
(* bitmap word: lemmas about the arrays of a node, the inductive invariant *)
(* of an inner node, that of a leaf, and the theorems about the page.      *)
(*                                                                         *)
(* The loop of the binary search is a recursive function; that it has a    *)
(* value on sorted keys, and which one, is shown with the least-number     *)
(* principle on the width of the interval that is left.                    *)
(***************************************************************************)
EXTENDS BTreeNode, FiniteSetTheorems, WellFoundedInduction, TLAPS

\* A non-empty set of numbers has a least one.
LEMMA LeastNumber ==
  ASSUME NEW S \in SUBSET Nat, S # {}
  PROVE  \E m \in S : \A n \in S : m <= n
  <1>1. PICK m \in S : \A n \in S : ~(<<n, m>> \in OpToRel(<, Nat))
    BY NatLessThanWellFounded, WFMin
  <1>2. \A n \in S : ~(n < m)
    BY <1>1 DEF OpToRel
  <1> QED BY <1>2

\* A non-empty set of numbers with a bound has a greatest one.
LEMMA GreatestNumber ==
  ASSUME NEW n \in Nat, NEW S \in SUBSET (0 .. n), S # {}
  PROVE  \E m \in S : \A x \in S : m >= x
  <1> DEFINE D == {n - x : x \in S}
  <1>1. D \in SUBSET Nat /\ D # {}
    <2>1. \A x \in S : n - x \in Nat
      OBVIOUS
    <2>2. PICK x \in S : TRUE
      OBVIOUS
    <2>3. n - x \in D
      BY <2>2
    <2> QED BY <2>1, <2>3
  <1>2. PICK d \in D : \A e \in D : d <= e
    BY <1>1, LeastNumber, Zenon
  <1>3. PICK m \in S : d = n - m
    BY <1>2
  <1>4. \A x \in S : n - m <= n - x
    BY <1>2, <1>3
  <1>5. \A x \in S : m >= x
    BY <1>4
  <1> QED BY <1>5

-----------------------------------------------------------------------------
(* The binary search *)

\* The pairs of lower and upper, and one turn of the loop if f is what the rest returns.
Windows(cnt) == (0 .. cnt) \X (0 .. cnt)
Mid(r) == (r[2] - r[1]) \div 2 + r[1]
Turn(f, ks, k, r) ==
  IF r[1] >= r[2] THEN r[1]
  ELSE IF k = ks[Mid(r)] THEN Mid(r)
  ELSE IF k > ks[Mid(r)] THEN f[<<Mid(r) + 1, r[2]>>]
  ELSE f[<<r[1], Mid(r)>>]
Loop(f, ks, k, cnt) == [r \in Windows(cnt) |-> Turn(f, ks, k, r)]

\* A turn that goes on leaves a smaller window.
LEMMA TurnShrinks ==
  ASSUME NEW cnt \in Nat, NEW r \in Windows(cnt), r[1] < r[2]
  PROVE  /\ Mid(r) \in r[1] .. r[2] - 1 /\ Mid(r) \in 0 .. cnt
         /\ <<Mid(r) + 1, r[2]>> \in Windows(cnt) /\ <<r[1], Mid(r)>> \in Windows(cnt)
         /\ r[2] - (Mid(r) + 1) < r[2] - r[1] /\ Mid(r) - r[1] < r[2] - r[1]
  <1>1. r[1] \in 0 .. cnt /\ r[2] \in 0 .. cnt
    BY DEF Windows
  <1>2. \A a, b \in Nat : a < b => (b - a) \div 2 + a \in a .. b - 1
    OBVIOUS
  <1>3. Mid(r) \in r[1] .. r[2] - 1
    BY <1>1, <1>2 DEF Mid
  <1> QED BY <1>1, <1>3 DEF Windows

\* The loop ends: there is a function that follows it.
LEMMA LoopExists ==
  ASSUME NEW cnt \in Nat, NEW ks, NEW k
  PROVE  \E f : f = Loop(f, ks, k, cnt)
  <1> DEFINE Upto(n) == {f \in [Windows(cnt) -> 0 .. cnt] :
                           \A r \in Windows(cnt) : r[2] - r[1] <= n => f[r] = Turn(f, ks, k, r)}
             T == {n \in Nat : Upto(n) = {}}
  <1>0. \A r \in Windows(cnt) : r[1] \in 0 .. cnt /\ r[2] \in 0 .. cnt
    BY DEF Windows
  <1>1. T = {}
    <2> SUFFICES ASSUME T # {} PROVE FALSE
      OBVIOUS
    <2>1. PICK n \in T : \A m \in T : n <= m
      BY LeastNumber
    <2>2. CASE n = 0
      <3> DEFINE f == [r \in Windows(cnt) |-> r[1]]
      <3>1. f \in [Windows(cnt) -> 0 .. cnt]
        BY <1>0
      <3>2. \A r \in Windows(cnt) : r[2] - r[1] <= 0 => f[r] = Turn(f, ks, k, r)
        BY <1>0 DEF Turn
      <3>3. f \in Upto(0)
        BY <3>1, <3>2
      <3> QED BY <2>2, <3>3
    <2>3. CASE n # 0
      <3>1. n - 1 \in Nat /\ n - 1 \notin T
        BY <2>1, <2>3
      <3>2. PICK f \in Upto(n - 1) : TRUE
        BY <3>1
      <3>3. /\ f \in [Windows(cnt) -> 0 .. cnt]
            /\ \A r \in Windows(cnt) : r[2] - r[1] <= n - 1 => f[r] = Turn(f, ks, k, r)
        BY <3>2
      <3> DEFINE g == [r \in Windows(cnt) |-> IF r[2] - r[1] = n THEN Turn(f, ks, k, r) ELSE f[r]]
      <3>4. \A r \in Windows(cnt) : Turn(f, ks, k, r) \in 0 .. cnt
        BY <1>0, <3>3, TurnShrinks DEF Turn
      <3>5. g \in [Windows(cnt) -> 0 .. cnt]
        BY <3>3, <3>4
      <3>6. \A r \in Windows(cnt) : r[2] - r[1] # n => g[r] = f[r]
        OBVIOUS
      <3>7. \A r \in Windows(cnt) : r[2] - r[1] = n => g[r] = Turn(f, ks, k, r)
        OBVIOUS
      <3> HIDE DEF g
      <3>8. ASSUME NEW r \in Windows(cnt), r[2] - r[1] <= n
            PROVE  g[r] = Turn(g, ks, k, r)
        <4>1. Turn(g, ks, k, r) = Turn(f, ks, k, r)
          <5>1. CASE r[1] >= r[2]
            BY <5>1 DEF Turn
          <5>2. CASE r[1] < r[2]
            <6>1. /\ <<Mid(r) + 1, r[2]>> \in Windows(cnt) /\ <<r[1], Mid(r)>> \in Windows(cnt)
                  /\ Mid(r) \in Nat /\ r[2] - (Mid(r) + 1) < r[2] - r[1] /\ Mid(r) - r[1] < r[2] - r[1]
              BY <5>2, TurnShrinks
            <6>2. r[2] - (Mid(r) + 1) # n /\ Mid(r) - r[1] # n
              BY <1>0, <2>1, <3>8, <6>1
            <6>3. g[<<Mid(r) + 1, r[2]>>] = f[<<Mid(r) + 1, r[2]>>] /\ g[<<r[1], Mid(r)>>] = f[<<r[1], Mid(r)>>]
              BY <3>6, <6>1, <6>2
            <6> QED BY <6>3 DEF Turn
          <5> QED BY <1>0, <5>1, <5>2
        <4>2. CASE r[2] - r[1] = n
          BY <3>7, <4>1, <4>2
        <4>3. CASE r[2] - r[1] # n
          <5>1. r[2] - r[1] <= n - 1
            <6>1. \A a, b \in Int : a <= b /\ a # b => a <= b - 1
              OBVIOUS
            <6>2. r[2] - r[1] \in Int /\ n \in Int
              BY <1>0, <3>1
            <6> HIDE DEF T
            <6> QED BY <3>8, <4>3, <6>1, <6>2
          <5> QED BY <3>3, <3>6, <4>1, <4>3, <5>1
        <4> QED BY <4>2, <4>3
      <3>9. g \in Upto(n)
        BY <3>5, <3>8
      <3> QED BY <3>9
    <2> QED BY <2>2, <2>3
  <1>2. PICK f \in Upto(cnt) : TRUE
    BY <1>1
  <1>3. f \in [Windows(cnt) -> 0 .. cnt] /\ \A r \in Windows(cnt) : f[r] = Turn(f, ks, k, r)
    BY <1>0, <1>2
  <1>4. f = Loop(f, ks, k, cnt)
    BY <1>3 DEF Loop
  <1> QED BY <1>4

\* lowerBound on sorted keys: the entries before the position are smaller than k, those
\* from it on are not.
Sorted(ks, cnt) == \A i, j \in 0 .. cnt - 1 : i < j => ks[i] < ks[j]
LEMMA SearchFacts ==
  ASSUME NEW cnt \in Nat, NEW ks, \A i \in 0 .. cnt - 1 : ks[i] \in Int,
         Sorted(ks, cnt), NEW k \in Int
  PROVE  LET p == Search(ks, k, cnt) IN
         /\ p \in 0 .. cnt
         /\ \A i \in 0 .. p - 1 : ks[i] < k
         /\ \A i \in p .. cnt - 1 : ks[i] >= k
  <1> DEFINE f == CHOOSE g : g = Loop(g, ks, k, cnt)
  <1>1. Search(ks, k, cnt) = f[<<0, cnt>>]
    BY Zenon DEF Search, Loop, Turn, Windows, Mid
  <1>2. f = Loop(f, ks, k, cnt)
    BY LoopExists, Zenon
  <1> HIDE DEF f
  <1>3. \A r \in Windows(cnt) : f[r] = Turn(f, ks, k, r)
    BY <1>2 DEF Loop
  <1> DEFINE Good(r, p) == /\ p \in r[1] .. r[2]
                           /\ \A i \in r[1] .. p - 1 : ks[i] < k
                           /\ \A i \in p .. r[2] - 1 : ks[i] >= k
             Proper == {r \in Windows(cnt) : r[1] <= r[2]}
             T == {n \in Nat : \E r \in Proper : r[2] - r[1] = n /\ ~Good(r, f[r])}
  <1>4. \A r \in Proper : r[1] \in 0 .. cnt /\ r[2] \in 0 .. cnt /\ r[1] <= r[2]
    BY DEF Windows
  <1>5. T = {}
    <2> SUFFICES ASSUME T # {} PROVE FALSE
      OBVIOUS
    <2>1. PICK n \in T : \A m \in T : n <= m
      BY LeastNumber
    <2>2. PICK r \in Proper : r[2] - r[1] = n /\ ~Good(r, f[r])
      BY <2>1
    <2>3. \A s \in Proper : s[2] - s[1] < n => Good(s, f[s])
      <3> SUFFICES ASSUME NEW s \in Proper, s[2] - s[1] < n, ~Good(s, f[s]) PROVE FALSE
        OBVIOUS
      <3>1. s[2] - s[1] \in Nat
        BY <1>4
      <3> QED BY <2>1, <3>1
    <2>4. r[1] \in 0 .. cnt /\ r[2] \in 0 .. cnt /\ r[1] <= r[2] /\ r \in Windows(cnt)
      BY <1>4
    <2>5. CASE r[1] >= r[2]
      <3>1. f[r] = r[1]
        BY <1>3, <2>4, <2>5 DEF Turn
      <3>2. r[1] = r[2]
        BY <2>4, <2>5
      <3> QED BY <2>2, <2>4, <3>1, <3>2
    <2>6. CASE r[1] < r[2]
      <3> DEFINE m == Mid(r)
      <3>1. /\ m \in r[1] .. r[2] - 1 /\ m \in 0 .. cnt
            /\ <<m + 1, r[2]>> \in Windows(cnt) /\ <<r[1], m>> \in Windows(cnt)
            /\ r[2] - (m + 1) < r[2] - r[1] /\ m - r[1] < r[2] - r[1]
        BY <2>4, <2>6, TurnShrinks
      <3>2. f[r] = IF k = ks[m] THEN m ELSE IF k > ks[m] THEN f[<<m + 1, r[2]>>] ELSE f[<<r[1], m>>]
        BY <1>3, <2>4, <2>6 DEF Turn
      <3> HIDE DEF m
      <3>3. m \in 0 .. cnt - 1 /\ ks[m] \in Int
        BY <2>4, <3>1
      <3>4. \A i \in r[1] .. m - 1 : ks[i] < ks[m]
        BY <2>4, <3>1, <3>3 DEF Sorted
      <3>5. \A i \in m + 1 .. r[2] - 1 : ks[i] > ks[m]
        BY <2>4, <3>1, <3>3 DEF Sorted
      <3>6. \A i \in r[1] .. r[2] - 1 : ks[i] \in Int
        BY <2>4
      <3>7. CASE k = ks[m]
        <4>1. \A i \in r[1] .. m - 1 : ks[i] < k
          BY <3>4, <3>7
        <4>2. \A i \in m .. r[2] - 1 : ks[i] >= k
          <5> SUFFICES ASSUME NEW i \in m .. r[2] - 1 PROVE ks[i] >= k
            OBVIOUS
          <5>1. i = m \/ i \in m + 1 .. r[2] - 1
            BY <2>4, <3>1
          <5> QED BY <2>4, <3>1, <3>3, <3>5, <3>6, <3>7, <5>1
        <4> QED BY <2>2, <2>4, <3>1, <3>2, <3>7, <4>1, <4>2
      <3>8. CASE k > ks[m]
        <4> DEFINE p == f[<<m + 1, r[2]>>]
        <4>1. Good(<<m + 1, r[2]>>, p)
          BY <2>2, <2>3, <2>4, <3>1
        <4>2. /\ p \in m + 1 .. r[2] /\ \A i \in m + 1 .. p - 1 : ks[i] < k
              /\ \A i \in p .. r[2] - 1 : ks[i] >= k
          BY <4>1
        <4>3. \A i \in r[1] .. p - 1 : ks[i] < k
          <5> SUFFICES ASSUME NEW i \in r[1] .. p - 1 PROVE ks[i] < k
            OBVIOUS
          <5>1. i \in m + 1 .. p - 1 \/ (i \in r[1] .. r[2] - 1 /\ (i = m \/ i \in r[1] .. m - 1))
            BY <2>4, <3>1, <4>2
          <5> QED BY <3>3, <3>4, <3>6, <3>8, <4>2, <5>1
        <4>4. f[r] = p
          BY <3>2, <3>3, <3>8
        <4>5. p \in r[1] .. r[2]
          BY <2>4, <3>1, <4>2
        <4> HIDE DEF p
        <4> QED BY <2>2, <4>2, <4>3, <4>4, <4>5
      <3>9. CASE k < ks[m]
        <4> DEFINE p == f[<<r[1], m>>]
        <4>1. Good(<<r[1], m>>, p)
          BY <2>2, <2>3, <2>4, <3>1
        <4>2. /\ p \in r[1] .. m /\ \A i \in r[1] .. p - 1 : ks[i] < k
              /\ \A i \in p .. m - 1 : ks[i] >= k
          BY <4>1
        <4>3. \A i \in p .. r[2] - 1 : ks[i] >= k
          <5> SUFFICES ASSUME NEW i \in p .. r[2] - 1 PROVE ks[i] >= k
            OBVIOUS
          <5>1. i \in p .. m - 1 \/ (i \in r[1] .. r[2] - 1 /\ (i = m \/ i \in m + 1 .. r[2] - 1))
            BY <2>4, <3>1, <4>2
          <5> QED BY <3>3, <3>5, <3>6, <3>9, <4>2, <5>1
        <4>4. f[r] = p
          BY <3>2, <3>3, <3>9
        <4>5. p \in r[1] .. r[2]
          BY <2>4, <3>1, <4>2
        <4> HIDE DEF p
        <4> QED BY <2>2, <4>2, <4>3, <4>4, <4>5
      <3> QED BY <3>3, <3>7, <3>8, <3>9
    <2> QED BY <2>4, <2>5, <2>6
  <1>6. <<0, cnt>> \in Proper
    BY DEF Windows
  <1>7. Good(<<0, cnt>>, f[<<0, cnt>>])
    BY <1>4, <1>5, <1>6
  <1>8. /\ f[<<0, cnt>>] \in 0 .. cnt
        /\ \A i \in 0 .. f[<<0, cnt>>] - 1 : ks[i] < k
        /\ \A i \in f[<<0, cnt>>] .. cnt - 1 : ks[i] >= k
    BY <1>7
  <1> QED BY <1>1, <1>8

-----------------------------------------------------------------------------
(* Counting *)

\* Entries in increasing order are as many keys.
LEMMA IntervalCount ==
  ASSUME NEW a \in Int, NEW b \in Int, NEW f, \A i \in a .. b : f[i] \in Int,
         \A i, j \in a .. b : i < j => f[i] < f[j]
  PROVE  Cardinality({f[i] : i \in a .. b}) = IF a > b THEN 0 ELSE b - a + 1
  <1> DEFINE g == [i \in a .. b |-> f[i]]
             T == {f[i] : i \in a .. b}
  <1>1. g \in [a .. b -> T]
    OBVIOUS
  <1>2. \A i, j \in a .. b : g[i] = g[j] => i = j
    <2> SUFFICES ASSUME NEW i \in a .. b, NEW j \in a .. b, f[i] = f[j], i # j PROVE FALSE
      OBVIOUS
    <2>1. i < j \/ j < i
      OBVIOUS
    <2> QED BY <2>1
  <1>3. \A t \in T : \E i \in a .. b : g[i] = t
    OBVIOUS
  <1>4. g \in Bijection(a .. b, T)
    BY <1>1, <1>2, <1>3 DEF Bijection, Injection, IsInjective, Surjection
  <1>5. ExistsBijection(a .. b, T)
    BY <1>4, Zenon DEF ExistsBijection
  <1>6. IsFiniteSet(a .. b) /\ Cardinality(a .. b) = IF a > b THEN 0 ELSE b - a + 1
    BY FS_Interval
  <1> QED BY <1>5, <1>6, FS_Bijection, Zenon

-----------------------------------------------------------------------------
(* The invariant of an inner node *)

\* p is where the walk for k goes on: behind the smaller keys, before the others.
At(p, k) == (p > 0 => keys[p - 1] < k) /\ (p < count => k <= keys[p])

LimitTypes == min_limit_ \in 0 .. InnerMaxKey + 1 /\ max_limit_ \in 0 .. InnerMaxKey + 1
SeparatorsInside ==
  \A i \in 0 .. count - 1 : keys[i] \in Inner!Key /\ min_limit_ < keys[i] /\ keys[i] < max_limit_
ChildrenDistinct ==
  /\ \A i \in 0 .. count : children[i].page \in Child
  /\ \A i, j \in 0 .. count : i # j => children[i].page # children[j].page
\* Said without the search, which the actions would have to be related to.
ChildCovers ==
  \A k \in Inner!Covered, p \in 0 .. count : At(p, k) => children[p].page = below[k]

\* WalkReachesChild is not inductive: an insert finds the half that goes to the new
\* child by the page that covered it, so no page may be linked twice, and the position
\* the search returns means something only among sorted keys inside the limits.
InnerInv ==
  /\ Inner!InnerTypeOK
  /\ LimitTypes
  /\ SeparatorsInside
  /\ Sorted(keys, count)
  /\ ChildrenDistinct
  /\ ChildCovers
  /\ Inner!BitsMarkSwizzled

LEMMA InnerConstants ==
  /\ InnerMaxKey \in Nat /\ NoChild \notin Child
  /\ inner_max_entries \in Nat /\ inner_max_entries > 3
  /\ WordBits \in Nat /\ WordBits > inner_max_entries
  BY InnerNodeAssumption DEF Inner!InnerAssumption

\* The instance's search, and what it returns.
LEMMA InnerSearch ==
  ASSUME InnerInv, NEW k \in Inner!Key
  PROVE  Inner!lowerBound(k) \in 0 .. count /\ At(Inner!lowerBound(k), k)
  <1>1. Inner!lowerBound(k) = Search(keys, k, count)
    BY Zenon DEF Inner!lowerBound, Inner!Search, Search
  <1>2. count \in Nat /\ k \in Int /\ \A i \in 0 .. count - 1 : keys[i] \in Int
    BY InnerConstants DEF InnerInv, Inner!InnerTypeOK, SeparatorsInside, Inner!Key
  <1> DEFINE p == Search(keys, k, count)
  <1>3. /\ p \in 0 .. count
        /\ \A i \in 0 .. p - 1 : keys[i] < k
        /\ \A i \in p .. count - 1 : keys[i] >= k
    BY <1>2, SearchFacts DEF InnerInv
  <1> HIDE DEF p
  <1>4. At(p, k)
    BY <1>2, <1>3 DEF At
  <1> QED BY <1>1, <1>3, <1>4 DEF p

\* The keys of the node, without the case of key 0 that only a leaf has.
LEMMA CoveredKeys ==
  ASSUME LimitTypes
  PROVE  \A k : k \in Inner!Covered <=> k \in Inner!Key /\ min_limit_ < k /\ k <= max_limit_
  BY InnerConstants DEF Inner!Covered, Inner!InLimits, Inner!Key, LimitTypes

\* Every key of the node is led to the child that covers it.
LEMMA InnerWalks ==
  ASSUME InnerInv
  PROVE  Inner!WalkReachesChild
  <1> SUFFICES ASSUME NEW k \in Inner!Covered
               PROVE  children[Inner!lowerBound(k)].page = below[k]
    BY DEF Inner!WalkReachesChild
  <1>1. k \in Inner!Key
    BY DEF Inner!Covered
  <1>2. Inner!lowerBound(k) \in 0 .. count /\ At(Inner!lowerBound(k), k)
    BY <1>1, InnerSearch
  <1> QED BY <1>2 DEF InnerInv, ChildCovers

-----------------------------------------------------------------------------
(* make_new_root *)

LEMMA InnerInit ==
  ASSUME Inner!Init
  PROVE  InnerInv
  <1>1. PICK sep \in Inner!Key, l \in Child, r \in Child, tagged \in BOOLEAN :
          /\ l # r
          /\ keys = [Inner!NoKeys EXCEPT ![0] = sep]
          /\ children = [Inner!NoRefs EXCEPT ![0] = Inner!Ref(l, TRUE), ![1] = Inner!Ref(r, tagged)]
          /\ count = 1
          /\ bitmap = IF tagged THEN {0, 1} ELSE {0}
          /\ min_limit_ = Inner!MinLimit /\ max_limit_ = Inner!MaxLimit
          /\ below = [k \in Inner!Key |-> IF k <= sep THEN l ELSE r]
    BY Zenon DEF Inner!Init
  <1>2. sep \in 1 .. InnerMaxKey /\ min_limit_ = 0 /\ max_limit_ = InnerMaxKey + 1
    BY <1>1 DEF Inner!Key, Inner!MinLimit, Inner!MaxLimit
  <1>3. keys \in [0 .. inner_max_entries - 1 -> Inner!Key \union {0}] /\ keys[0] = sep
    BY <1>1, InnerConstants DEF Inner!NoKeys
  <1> DEFINE N == 0 .. inner_max_entries - 1
  <1>4. 0 \in N /\ 1 \in N
    BY InnerConstants
  <1>5. /\ DOMAIN children = N
        /\ children[0] = Inner!Ref(l, TRUE) /\ children[1] = Inner!Ref(r, tagged)
        /\ \A i \in N : i # 0 /\ i # 1 => children[i] = Inner!Ref(NoChild, FALSE)
        /\ children = [i \in N |-> children[i]]
    <2>1. ASSUME NEW a, NEW b, NEW z, children = [[i \in N |-> z] EXCEPT ![0] = a, ![1] = b]
          PROVE  /\ DOMAIN children = N /\ children[0] = a /\ children[1] = b
                 /\ \A i \in N : i # 0 /\ i # 1 => children[i] = z
                 /\ children = [i \in N |-> children[i]]
      <3>1. DOMAIN children = N /\ children = [i \in N |-> children[i]]
        BY <2>1
      <3>2. children[0] = a /\ children[1] = b
        BY <1>4, <2>1
      <3>3. \A i \in N : i # 0 /\ i # 1 => children[i] = z
        BY <2>1
      <3> QED BY <3>1, <3>2, <3>3
    <2> HIDE DEF N
    <2>2. children = [[i \in N |-> Inner!Ref(NoChild, FALSE)] EXCEPT
                        ![0] = Inner!Ref(l, TRUE), ![1] = Inner!Ref(r, tagged)]
      BY <1>1, Zenon DEF Inner!NoRefs, N
    <2> QED BY <2>1, <2>2, Zenon
  <1>6. \A p, t : Inner!Ref(p, t).page = p /\ Inner!Ref(p, t).tag = t
    BY DEF Inner!Ref
  <1>7. \A p \in Child \union {NoChild}, t \in BOOLEAN :
          Inner!Ref(p, t) \in [page : Child \union {NoChild}, tag : BOOLEAN]
    BY DEF Inner!Ref
  <1>8. children \in [N -> [page : Child \union {NoChild}, tag : BOOLEAN]]
    BY <1>5, <1>7
  <1>9. LimitTypes
    BY <1>2, InnerConstants DEF LimitTypes
  <1>10. Inner!Covered = Inner!Key
    <2>1. \A k \in Inner!Key : min_limit_ < k /\ k <= max_limit_
      BY <1>2, InnerConstants DEF Inner!Key
    <2>2. \A k : k \in Inner!Covered <=> k \in Inner!Key
      BY <1>9, <2>1, CoveredKeys
    <2> QED BY <2>2
  <1>11. Inner!InnerTypeOK
    <2>1. count \in 0 .. inner_max_entries - 1 /\ bitmap \subseteq 0 .. WordBits - 1
      BY <1>1, InnerConstants
    <2>2. DOMAIN below = Inner!Covered
      BY <1>1, <1>10
    <2> QED BY <1>3, <1>8, <2>1, <2>2 DEF Inner!InnerTypeOK
  <1>12. SeparatorsInside
    BY <1>1, <1>2, <1>3, InnerConstants DEF SeparatorsInside
  <1>13. Sorted(keys, count)
    BY <1>1 DEF Sorted
  <1>14. children[0].page = l /\ children[1].page = r /\ children[0].tag = TRUE /\ children[1].tag = tagged
    <2>1. children[0].page = l /\ children[0].tag = TRUE
      BY <1>5, <1>6, Zenon
    <2>2. children[1] = Inner!Ref(r, tagged)
      BY <1>5, Zenon
    <2>3. children[1].page = r
      BY <1>6, <2>2, Zenon
    <2>4. children[1].tag = tagged
      BY <2>2 DEF Inner!Ref
    <2> QED BY <2>1, <2>3, <2>4, Zenon
  <1>15. ChildrenDistinct
    BY <1>1, <1>14 DEF ChildrenDistinct
  <1>16. ChildCovers
    <2> SUFFICES ASSUME NEW k \in Inner!Covered, NEW p \in 0 .. count, At(p, k)
                 PROVE  children[p].page = below[k]
      BY DEF ChildCovers
    <2>1. k \in Int /\ sep \in Int /\ below[k] = IF k <= sep THEN l ELSE r
      BY <1>1, <1>2, <1>10 DEF Inner!Key
    <2>2. CASE p = 0
      BY <1>1, <1>3, <1>14, <2>1, <2>2 DEF At
    <2>3. CASE p = 1
      BY <1>1, <1>3, <1>14, <2>1, <2>3 DEF At
    <2> QED BY <1>1, <2>2, <2>3
  <1>17. Inner!BitsMarkSwizzled
    BY <1>1, <1>14 DEF Inner!BitsMarkSwizzled
  <1> QED BY <1>9, <1>11, <1>12, <1>13, <1>15, <1>16, <1>17 DEF InnerInv

-----------------------------------------------------------------------------
(* insert *)

\* The state in plain terms, for the provers.
LEMMA InnerTypes ==
  ASSUME InnerInv
  PROVE  /\ count \in Nat /\ count <= inner_max_entries - 1
         /\ DOMAIN keys = 0 .. inner_max_entries - 1
         /\ DOMAIN children = 0 .. inner_max_entries - 1
         /\ \A i \in 0 .. inner_max_entries - 1 : keys[i] \in Inner!Key \union {0}
         /\ \A i \in 0 .. inner_max_entries - 1 :
              children[i] \in [page : Child \union {NoChild}, tag : BOOLEAN]
         /\ bitmap \subseteq 0 .. count
         /\ \A i \in 0 .. count - 1 : keys[i] \in Int
         /\ \A k \in Inner!Key : k \in Int
         /\ min_limit_ \in Int /\ max_limit_ \in Int
  <1>1. count \in 0 .. inner_max_entries - 1
    BY DEF InnerInv, Inner!InnerTypeOK
  <1>2. /\ keys \in [0 .. inner_max_entries - 1 -> Inner!Key \union {0}]
        /\ children \in [0 .. inner_max_entries - 1 -> [page : Child \union {NoChild}, tag : BOOLEAN]]
    BY DEF InnerInv, Inner!InnerTypeOK
  <1>3. bitmap \subseteq 0 .. count
    BY DEF InnerInv, Inner!BitsMarkSwizzled
  <1>4. \A k \in Inner!Key : k \in Int
    BY InnerConstants DEF Inner!Key
  <1>5. min_limit_ \in Int /\ max_limit_ \in Int
    BY InnerConstants DEF InnerInv, LimitTypes
  <1>6. \A i \in 0 .. count - 1 : keys[i] \in Int
    BY <1>4 DEF InnerInv, SeparatorsInside
  <1> QED BY <1>1, <1>2, <1>3, <1>4, <1>5, <1>6, InnerConstants

\* The two shifts leave the bits up to p and move the others up by one.
LEMMA ShiftedBits ==
  ASSUME InnerInv, ~Inner!isFull, NEW p \in 0 .. count, NEW b
  PROVE  b \in Inner!Shifted(p) <=> \/ b \in bitmap /\ b <= p
                                    \/ b - 1 \in bitmap /\ b - 1 > p /\ b \in Int
  <1>1. /\ count \in Nat /\ count + 1 < WordBits /\ p \in Nat /\ p <= count
        /\ \A x \in bitmap : x \in Nat /\ x <= count
    BY InnerTypes, InnerConstants DEF Inner!isFull
  <1>2. b \in Inner!LowBits(bitmap, p + 1) <=> b \in bitmap /\ b <= p
    BY <1>1 DEF Inner!LowBits
  <1>3. b \in Inner!Shl(Inner!Shr(bitmap, p + 1), p + 2) <=> \E x \in bitmap : x > p /\ b = x + 1
    <2>1. \A y : y \in Inner!Shr(bitmap, p + 1) <=> \E x \in bitmap : x > p /\ y = x - (p + 1)
      BY <1>1 DEF Inner!Shr
    <2>2. b \in Inner!Shl(Inner!Shr(bitmap, p + 1), p + 2) <=>
            \E y \in Inner!Shr(bitmap, p + 1) : y + (p + 2) < WordBits /\ b = y + (p + 2)
      BY DEF Inner!Shl
    <2>3. \A x \in bitmap : x > p => (x - (p + 1)) + (p + 2) = x + 1 /\ x + 1 < WordBits
      BY <1>1, InnerConstants
    <2> QED BY <2>1, <2>2, <2>3
  <1>4. (\E x \in bitmap : x > p /\ b = x + 1) <=> (b - 1 \in bitmap /\ b - 1 > p /\ b \in Int)
    <2>1. \A x \in bitmap : b = x + 1 => b - 1 = x /\ b \in Int
      BY <1>1
    <2>2. b \in Int => b = (b - 1) + 1
      OBVIOUS
    <2> QED BY <2>1, <2>2
  <1> QED BY <1>2, <1>3, <1>4 DEF Inner!Shifted

\* The arrays after an insert at position p.
OpenedKeys(p, k) ==
  \A i \in 0 .. count : keys'[i] = IF i < p THEN keys[i] ELSE IF i = p THEN k ELSE keys[i - 1]
OpenedChildren(p, r) ==
  \A i \in 0 .. count + 1 :
    children'[i] = IF i <= p THEN children[i] ELSE IF i = p + 1 THEN r ELSE children[i - 1]
LEMMA InsertArrays ==
  ASSUME InnerInv, ~Inner!isFull, NEW p \in 0 .. count, NEW k \in Inner!Key,
         NEW r \in [page : Child \union {NoChild}, tag : BOOLEAN],
         keys' = [Inner!KeysOpened(p) EXCEPT ![p] = k],
         children' = Inner!ChildrenOpened(p, r)
  PROVE  /\ OpenedKeys(p, k) /\ OpenedChildren(p, r)
         /\ keys' \in [0 .. inner_max_entries - 1 -> Inner!Key \union {0}]
         /\ children' \in [0 .. inner_max_entries - 1 -> [page : Child \union {NoChild}, tag : BOOLEAN]]
  <1> DEFINE N == 0 .. inner_max_entries - 1
             M == p + 1 .. count + 1
  <1>1. count \in Nat /\ count + 1 \in N /\ p \in Nat /\ p <= count /\ inner_max_entries \in Nat
    BY InnerTypes, InnerConstants DEF Inner!isFull
  <1>2. p + 1 + (count - p + 1) - 1 = count + 1 /\ N \union M = N
    BY <1>1
  <1>3. \A i \in M : p + i - (p + 1) = i - 1
    BY <1>1
  <1>4. ASSUME NEW f, DOMAIN f = N
        PROVE  Inner!Moved(f, p + 1, f, p, count - p + 1) =
                 [i \in N |-> IF i \in M THEN f[i - 1] ELSE f[i]]
    <2>1. Inner!Moved(f, p + 1, f, p, count - p + 1) =
            [i \in N |-> IF i \in M THEN f[p + i - (p + 1)] ELSE f[i]]
      BY <1>2, <1>4, Zenon DEF Inner!Moved
    <2> HIDE DEF N, M
    <2> QED BY <1>3, <2>1
  <1>5. DOMAIN keys = N /\ DOMAIN children = N /\ \A i \in N : keys[i] \in Inner!Key \union {0}
    BY InnerTypes
  <1>6. \A i \in N : children[i] \in [page : Child \union {NoChild}, tag : BOOLEAN]
    BY InnerTypes
  <1>7. p \in N /\ p + 1 \in N /\ M \subseteq N /\ p + 1 \in M /\ p \notin M /\ \A i \in M : i - 1 \in N
    BY <1>1
  <1>8. Inner!KeysOpened(p) = [i \in N |-> IF i \in M THEN keys[i - 1] ELSE keys[i]]
    BY <1>4, <1>5, Zenon DEF Inner!KeysOpened
  <1> DEFINE moved == Inner!Moved(children, p + 1, children, p, count - p + 1)
  <1>9. moved = [i \in N |-> IF i \in M THEN children[i - 1] ELSE children[i]]
    BY <1>4, <1>5, Zenon
  <1>10. children' = [moved EXCEPT ![p + 1] = r, ![p] = moved[p + 1]]
    BY DEF Inner!ChildrenOpened
  <1> HIDE DEF N, M, moved
  <1>11. \A i \in N : keys'[i] = IF i = p THEN k ELSE IF i \in M THEN keys[i - 1] ELSE keys[i]
    BY <1>7, <1>8
  <1>12. moved[p + 1] = children[p + 1 - 1]
    BY <1>7, <1>9
  <1>13. p + 1 - 1 = p /\ p # p + 1
    BY <1>1
  <1>14. \A i \in N : children'[i] = IF i = p THEN children[p] ELSE IF i = p + 1 THEN r
                                     ELSE IF i \in M THEN children[i - 1] ELSE children[i]
    BY <1>7, <1>9, <1>10, <1>12, <1>13
  <1>15. keys' \in [N -> Inner!Key \union {0}]
    BY <1>5, <1>7, <1>8
  <1>16. children' \in [N -> [page : Child \union {NoChild}, tag : BOOLEAN]]
    <2>1. children' = [i \in N |-> children'[i]]
      BY <1>9, <1>10
    <2> QED BY <1>6, <1>7, <1>14, <2>1
  <1>17. OpenedKeys(p, k)
    <2> SUFFICES ASSUME NEW i \in 0 .. count
                 PROVE  keys'[i] = IF i < p THEN keys[i] ELSE IF i = p THEN k ELSE keys[i - 1]
      BY DEF OpenedKeys
    <2>1. i \in N /\ (i > p <=> i \in M)
      BY <1>1 DEF N, M
    <2> QED BY <1>1, <1>11, <2>1
  <1>18. OpenedChildren(p, r)
    <2> SUFFICES ASSUME NEW i \in 0 .. count + 1
                 PROVE  children'[i] = IF i <= p THEN children[i] ELSE IF i = p + 1 THEN r ELSE children[i - 1]
      BY DEF OpenedChildren
    <2>1. i \in N /\ (i > p <=> i \in M)
      BY <1>1 DEF N, M
    <2> QED BY <1>1, <1>14, <2>1
  <1> QED BY <1>15, <1>16, <1>17, <1>18 DEF N

\* The page below the node that covers k before the insert loses the keys above k to
\* the new child, and no other page loses any.
LEMMA InsertStep ==
  ASSUME InnerInv, NEW k \in Inner!Key, NEW c \in Child, NEW tagged \in BOOLEAN,
         Inner!insert(k, c, tagged)
  PROVE  InnerInv'
  <1> DEFINE p == Inner!lowerBound(k)
             r == Inner!Ref(c, tagged)
             half == {x \in Inner!Covered : below[x] = below[k] /\ x > k}
  <1>1. /\ ~Inner!isFull
        /\ k < max_limit_ /\ k \in Inner!Covered /\ \A i \in 0 .. count - 1 : keys[i] # k
        /\ c \in Child \ Inner!Linked
        /\ keys' = [Inner!KeysOpened(p) EXCEPT ![p] = k]
        /\ children' = Inner!ChildrenOpened(p, r)
        /\ count' = count + 1
        /\ min_limit_' = min_limit_ /\ max_limit_' = max_limit_
    BY DEF Inner!insert
  <1>2. bitmap' = IF tagged THEN Inner!set_bitmap(Inner!Shifted(p), p + 1) ELSE Inner!Shifted(p)
    BY DEF Inner!insert
  <1>3. below' = [x \in DOMAIN below |-> IF x \in half THEN c ELSE below[x]]
    BY DEF Inner!insert
  <1>4. p \in 0 .. count /\ At(p, k)
    BY InnerSearch
  <1>5. /\ r \in [page : Child \union {NoChild}, tag : BOOLEAN]
        /\ r.page = c
    BY DEF Inner!Ref
  <1>6. r.tag = tagged
    BY DEF Inner!Ref
  <1> HIDE DEF p, r, half
  <1>7. /\ OpenedKeys(p, k) /\ OpenedChildren(p, r)
        /\ keys' \in [0 .. inner_max_entries - 1 -> Inner!Key \union {0}]
        /\ children' \in [0 .. inner_max_entries - 1 -> [page : Child \union {NoChild}, tag : BOOLEAN]]
    BY <1>1, <1>4, <1>5, InsertArrays
  <1>8. /\ count \in Nat /\ count + 1 <= inner_max_entries - 1 /\ p \in Nat /\ p <= count
        /\ k \in Int /\ min_limit_ \in Int /\ max_limit_ \in Int
        /\ inner_max_entries \in Nat /\ WordBits \in Nat /\ inner_max_entries < WordBits
    BY <1>1, <1>4, InnerTypes, InnerConstants DEF Inner!isFull
  <1>9. \A i \in 0 .. count - 1 : keys[i] \in Int /\ keys[i] \in Inner!Key
    BY InnerTypes DEF InnerInv, SeparatorsInside
  <1>10. /\ \A i \in 0 .. p - 1 : keys'[i] = keys[i]
         /\ keys'[p] = k
         /\ \A i \in p + 1 .. count : keys'[i] = keys[i - 1]
    BY <1>7, <1>8 DEF OpenedKeys
  <1>11. /\ \A i \in 0 .. p : children'[i] = children[i]
         /\ children'[p + 1] = r
         /\ \A i \in p + 2 .. count + 1 : children'[i] = children[i - 1]
    BY <1>7, <1>8 DEF OpenedChildren
  <1>12. /\ \A i \in 0 .. p - 1 : keys[i] < k
         /\ \A i \in p .. count - 1 : k < keys[i]
    <2>0. Sorted(keys, count)
      BY DEF InnerInv
    <2>1. p > 0 => keys[p - 1] < k
      BY <1>4 DEF At
    <2>2. p < count => k <= keys[p] /\ keys[p] # k
      BY <1>1, <1>4, <1>8 DEF At
    <2>3. \A i \in 0 .. p - 1 : i = p - 1 \/ keys[i] < keys[p - 1]
      BY <1>8, <2>0 DEF Sorted
    <2>4. \A i \in p .. count - 1 : i = p \/ keys[p] < keys[i]
      BY <1>8, <2>0 DEF Sorted
    <2>5. \A i \in 0 .. p - 1 : keys[i] < k
      <3> SUFFICES ASSUME NEW i \in 0 .. p - 1 PROVE keys[i] < k
        OBVIOUS
      <3>1. p > 0 /\ keys[i] \in Int /\ keys[p - 1] \in Int
        BY <1>8, <1>9
      <3> QED BY <1>8, <2>1, <2>3, <3>1
    <2>6. \A i \in p .. count - 1 : k < keys[i]
      <3> SUFFICES ASSUME NEW i \in p .. count - 1 PROVE k < keys[i]
        OBVIOUS
      <3>1. p < count /\ keys[i] \in Int /\ keys[p] \in Int
        BY <1>8, <1>9
      <3> QED BY <1>8, <2>2, <2>4, <3>1
    <2> QED BY <2>5, <2>6
  <1>13. LimitTypes'
    BY <1>1 DEF InnerInv, LimitTypes
  <1>14. Inner!Covered' = Inner!Covered
    BY <1>1 DEF Inner!Covered
  <1>15. SeparatorsInside'
    <2> SUFFICES ASSUME NEW i \in 0 .. count
                 PROVE  keys'[i] \in Inner!Key /\ min_limit_ < keys'[i] /\ keys'[i] < max_limit_
      BY <1>1, <1>8 DEF SeparatorsInside
    <2>1. \A j \in 0 .. count - 1 : keys[j] \in Inner!Key /\ min_limit_ < keys[j] /\ keys[j] < max_limit_
      BY DEF InnerInv, SeparatorsInside
    <2>2. min_limit_ < k
      BY <1>1, CoveredKeys DEF InnerInv
    <2>3. i \in 0 .. p - 1 \/ i = p \/ i \in p + 1 .. count
      BY <1>8
    <2>4. (i \in 0 .. p - 1 => i \in 0 .. count - 1) /\ (i \in p + 1 .. count => i - 1 \in 0 .. count - 1)
      BY <1>8
    <2> QED BY <1>1, <1>10, <2>1, <2>2, <2>3, <2>4
  <1>16. Sorted(keys, count)'
    <2> SUFFICES ASSUME NEW i \in 0 .. count, NEW j \in 0 .. count, i < j
                 PROVE  keys'[i] < keys'[j]
      BY <1>1, <1>8 DEF Sorted
    <2>1. \A a, b \in 0 .. count - 1 : a < b => keys[a] < keys[b]
      BY DEF InnerInv, Sorted
    <2>2. CASE j < p
      <3>1. i \in 0 .. p - 1 /\ j \in 0 .. p - 1 /\ i \in 0 .. count - 1 /\ j \in 0 .. count - 1
        BY <1>8, <2>2
      <3> QED BY <1>10, <2>1, <3>1
    <2>3. CASE j = p
      <3>1. i \in 0 .. p - 1
        BY <1>8, <2>3
      <3> QED BY <1>10, <1>12, <2>3, <3>1
    <2>4. CASE j > p
      <3>1. j \in p + 1 .. count /\ j - 1 \in p .. count - 1 /\ j - 1 \in 0 .. count - 1
        BY <1>8, <2>4
      <3>2. keys'[j] = keys[j - 1] /\ k < keys[j - 1] /\ keys[j - 1] \in Int
        BY <1>9, <1>10, <1>12, <3>1
      <3>3. CASE i < p
        <4>1. i \in 0 .. p - 1 /\ i \in 0 .. count - 1
          BY <1>8, <3>3
        <4>2. keys'[i] = keys[i] /\ keys[i] < k /\ keys[i] \in Int
          BY <1>9, <1>10, <1>12, <4>1
        <4> QED BY <1>8, <3>2, <4>2
      <3>4. CASE i = p
        BY <1>10, <3>2, <3>4
      <3>5. CASE i > p
        <4>1. i \in p + 1 .. count /\ i - 1 \in 0 .. count - 1 /\ i - 1 < j - 1
          BY <1>8, <3>5, <2>4
        <4> QED BY <1>10, <2>1, <3>1, <3>2, <4>1
      <3> QED BY <1>8, <3>3, <3>4, <3>5
    <2> QED BY <1>8, <2>2, <2>3, <2>4
  <1>17. \A i \in 0 .. count : children[i].page \in Child /\ children[i].page # c
    BY <1>1 DEF InnerInv, ChildrenDistinct, Inner!Linked
  <1>18. \A i, j \in 0 .. count : i # j => children[i].page # children[j].page
    BY DEF InnerInv, ChildrenDistinct
  <1>19. \A i \in 0 .. count + 1 :
           \/ i \in 0 .. p /\ i \in 0 .. count /\ children'[i] = children[i]
           \/ i = p + 1 /\ children'[i] = r
           \/ i \in p + 2 .. count + 1 /\ i - 1 \in 0 .. count /\ children'[i] = children[i - 1]
    <2> TAKE i \in 0 .. count + 1
    <2>1. \/ i \in 0 .. p /\ i \in 0 .. count
          \/ i = p + 1
          \/ i \in p + 2 .. count + 1 /\ i - 1 \in 0 .. count
      BY <1>8
    <2> QED BY <1>11, <2>1
  <1>20. ChildrenDistinct'
    <2>1. \A i \in 0 .. count + 1 : children'[i].page \in Child
      BY <1>5, <1>17, <1>19
    <2>2. ASSUME NEW i \in 0 .. count + 1, NEW j \in 0 .. count + 1, i < j
          PROVE  children'[i].page # children'[j].page
      <3>1. CASE i \in 0 .. p /\ i \in 0 .. count /\ children'[i] = children[i]
        <4>1. i # j /\ (j \in p + 2 .. count + 1 => i # j - 1)
          BY <1>8, <2>2, <3>1
        <4> QED BY <1>5, <1>17, <1>18, <1>19, <2>2, <3>1, <4>1
      <3>2. CASE i = p + 1 /\ children'[i] = r
        <4>1. j - 1 \in 0 .. count /\ children'[j] = children[j - 1]
          BY <1>8, <1>19, <2>2, <3>2
        <4> QED BY <1>5, <1>17, <3>2, <4>1
      <3>3. CASE i \in p + 2 .. count + 1 /\ i - 1 \in 0 .. count /\ children'[i] = children[i - 1]
        <4>1. j - 1 \in 0 .. count /\ children'[j] = children[j - 1] /\ i - 1 # j - 1
          BY <1>8, <1>19, <2>2, <3>3
        <4> QED BY <1>18, <3>3, <4>1
      <3> QED BY <1>19, <3>1, <3>2, <3>3
    <2>3. \A i, j \in 0 .. count + 1 : i # j => children'[i].page # children'[j].page
      <3>1. \A i, j \in 0 .. count + 1 : i # j => i < j \/ j < i
        BY <1>8
      <3> QED BY <2>2, <3>1
    <2> QED BY <1>1, <2>1, <2>3 DEF ChildrenDistinct
  <1>21. DOMAIN below = Inner!Covered
    BY DEF InnerInv, Inner!InnerTypeOK
  <1>22. Inner!BitsMarkSwizzled'
    <2>1. \A b : b \in bitmap <=> b \in 0 .. count /\ children[b].tag
      BY Zenon DEF InnerInv, Inner!BitsMarkSwizzled
    <2>2. \A b : b \in bitmap' <=> b \in Inner!Shifted(p) \/ (tagged /\ b = p + 1)
      BY <1>2 DEF Inner!set_bitmap
    <2>3. \A b : b \in Inner!Shifted(p) <=> \/ b \in bitmap /\ b <= p
                                            \/ b - 1 \in bitmap /\ b - 1 > p /\ b \in Int
      <3> TAKE b
      <3> QED BY <1>1, <1>4, ShiftedBits
    <2>4. ASSUME NEW b PROVE b \in bitmap' <=> b \in 0 .. count + 1 /\ children'[b].tag
      <3>1. CASE b \in 0 .. p
        <4>1. b \in 0 .. count /\ children'[b] = children[b] /\ b # p + 1 /\ b <= p /\ ~(b - 1 > p) /\ b \in 0 .. count + 1
          BY <1>8, <1>11, <3>1
        <4> QED BY <2>1, <2>2, <2>3, <4>1
      <3>2. CASE b = p + 1
        <4>1. ~(b <= p) /\ ~(b - 1 > p) /\ b \in 0 .. count + 1
          BY <1>8, <3>2
        <4> QED BY <1>6, <1>11, <2>2, <2>3, <3>2, <4>1
      <3>3. CASE b \in p + 2 .. count + 1
        <4>1. b # p + 1 /\ ~(b <= p) /\ b - 1 > p /\ b - 1 \in 0 .. count /\ b \in Int /\ b \in 0 .. count + 1
          BY <1>8, <3>3
        <4> QED BY <1>11, <2>1, <2>2, <2>3, <3>3, <4>1
      <3>4. CASE b \notin 0 .. count + 1
        <4>1. b # p + 1 /\ b \notin 0 .. count
          BY <1>8, <3>4
        <4>2. b \in Int /\ b - 1 \in 0 .. count => b \in 0 .. count + 1
          BY <1>8
        <4> QED BY <2>1, <2>2, <2>3, <3>4, <4>1, <4>2
      <3>5. b \in 0 .. count + 1 => b \in 0 .. p \/ b = p + 1 \/ b \in p + 2 .. count + 1
        BY <1>8
      <3> QED BY <3>1, <3>2, <3>3, <3>4, <3>5
    <2>5. bitmap' = {i \in 0 .. count + 1 : children'[i].tag}
      BY <2>4
    <2> QED BY <1>1, <2>5 DEF Inner!BitsMarkSwizzled
  <1>23. Inner!InnerTypeOK'
    <2>1. count' \in 0 .. inner_max_entries - 1
      BY <1>1, <1>8
    <2>2. bitmap' \subseteq 0 .. WordBits - 1
      <3>1. bitmap' \subseteq 0 .. count + 1
        BY <1>1, <1>22 DEF Inner!BitsMarkSwizzled
      <3> QED BY <1>8, <3>1
    <2>3. DOMAIN below' = Inner!Covered'
      BY <1>3, <1>14, <1>21
    <2> QED BY <1>7, <2>1, <2>2, <2>3 DEF Inner!InnerTypeOK, Inner!Key
  <1>24. ChildCovers'
    <2> SUFFICES ASSUME NEW x \in Inner!Covered, NEW q \in 0 .. count + 1, At(q, x)'
                 PROVE  children'[q].page = below'[x]
      BY <1>1, <1>14 DEF ChildCovers
    <2>1. x \in Int /\ below'[x] = IF x \in half THEN c ELSE below[x]
      BY <1>3, <1>21, InnerTypes DEF Inner!Covered
    <2>2. (q > 0 => keys'[q - 1] < x) /\ (q < count + 1 => x <= keys'[q])
      BY <1>1 DEF At
    <2>3. \A a \in 0 .. count : At(a, x) => children[a].page = below[x]
      BY DEF InnerInv, ChildCovers
    <2>4. children[p].page = below[k]
      BY <1>1, <1>4 DEF InnerInv, ChildCovers
    <2>5. CASE q <= p
      <3>1. q \in 0 .. p /\ q \in 0 .. count
        BY <1>8, <2>5
      <3>2. q > 0 => keys[q - 1] < x
        BY <1>8, <1>10, <2>2, <3>1
      <3>3. CASE q < p
        <4>1. q \in 0 .. p - 1 /\ q < count + 1 /\ q \in 0 .. count - 1
          BY <1>8, <3>3, <3>1
        <4>2. x <= keys[q] /\ keys[q] < k /\ keys[q] \in Int
          BY <1>9, <1>10, <1>12, <2>2, <4>1
        <4>3. x <= k /\ At(q, x)
          BY <1>8, <2>1, <3>2, <4>1, <4>2 DEF At
        <4> QED BY <1>8, <1>11, <2>1, <2>3, <3>1, <4>3 DEF half
      <3>4. CASE q = p
        <4>1. x <= k
          BY <1>8, <1>10, <2>2, <3>4
        <4>2. q < count => x <= keys[q]
          <5> SUFFICES ASSUME q < count PROVE x <= keys[q]
            OBVIOUS
          <5>1. k < keys[q] /\ keys[q] \in Int
            BY <1>8, <1>9, <1>12, <3>4
          <5> QED BY <1>8, <2>1, <4>1, <5>1
        <4>3. At(q, x)
          BY <3>2, <4>2 DEF At
        <4> QED BY <1>8, <1>11, <2>1, <2>3, <3>1, <4>1, <4>3 DEF half
      <3> QED BY <1>8, <2>5, <3>3, <3>4
    <2>6. CASE q > p
      <3>1. q - 1 \in p .. count /\ q - 1 \in 0 .. count /\ q > 0
        BY <1>8, <2>6
      <3>2. q - 1 < count => x <= keys[q - 1]
        <4> SUFFICES ASSUME q - 1 < count PROVE x <= keys[q - 1]
          OBVIOUS
        <4>1. q < count + 1 /\ q \in p + 1 .. count
          BY <1>8, <2>6
        <4> QED BY <1>10, <2>2, <4>1
      <3>3. k < x /\ (q - 1 > 0 => keys[(q - 1) - 1] < x)
        <4>1. CASE q = p + 1
          <5>1. k < x
            BY <1>8, <1>10, <2>2, <3>1, <4>1
          <5>2. ASSUME q - 1 > 0 PROVE keys[(q - 1) - 1] < x
            <6>1. (q - 1) - 1 \in 0 .. p - 1 /\ (q - 1) - 1 \in 0 .. count - 1
              BY <1>8, <4>1, <5>2
            <6>2. keys[(q - 1) - 1] < k /\ keys[(q - 1) - 1] \in Int
              BY <1>9, <1>12, <6>1
            <6> QED BY <1>8, <2>1, <5>1, <6>2
          <5> QED BY <5>1, <5>2
        <4>2. CASE q > p + 1
          <5>1. q - 1 \in p + 1 .. count /\ (q - 1) - 1 \in p .. count - 1 /\ (q - 1) - 1 \in 0 .. count - 1
            BY <1>8, <4>2
          <5>2. keys'[q - 1] = keys[(q - 1) - 1] /\ k < keys[(q - 1) - 1] /\ keys[(q - 1) - 1] \in Int
            BY <1>9, <1>10, <1>12, <5>1
          <5> QED BY <1>8, <2>1, <2>2, <3>1, <5>2
        <4> QED BY <1>8, <2>6, <4>1, <4>2
      <3>4. At(q - 1, x)
        BY <3>2, <3>3 DEF At
      <3>5. children[q - 1].page = below[x]
        BY <2>3, <3>1, <3>4
      <3>6. CASE q = p + 1
        <4>1. q - 1 = p
          BY <1>8, <3>6
        <4>2. x \in half
          BY <1>8, <2>1, <2>4, <3>3, <3>5, <4>1 DEF half
        <4> QED BY <1>5, <1>11, <2>1, <3>6, <4>2
      <3>7. CASE q # p + 1
        <4>1. q \in p + 2 .. count + 1 /\ q - 1 # p /\ p \in 0 .. count
          BY <1>8, <2>6, <3>7
        <4>2. x \notin half
          BY <1>18, <2>4, <3>1, <3>5, <4>1 DEF half
        <4> QED BY <1>11, <2>1, <3>5, <4>1, <4>2
      <3> QED BY <3>6, <3>7
    <2> QED BY <1>8, <2>5, <2>6
  <1> QED BY <1>13, <1>15, <1>16, <1>20, <1>22, <1>23, <1>24 DEF InnerInv

-----------------------------------------------------------------------------
(* split *)

LEMMA SplitStep ==
  ASSUME InnerInv, NEW goOn \in {"node", "sibling"}, Inner!split(goOn)
  PROVE  InnerInv'
  <1> DEFINE moved == Inner!SiblingCount
             stay == count - moved - 1
             sep == keys[stay]
             N == 0 .. inner_max_entries - 1
             Refs == [page : Child \union {NoChild}, tag : BOOLEAN]
  <1>1. /\ count = inner_max_entries - 1
        /\ \/ /\ count' = stay /\ max_limit_' = sep
              /\ bitmap' = Inner!LowBits(bitmap, stay + 1)
              /\ below' = [k \in {x \in DOMAIN below : x <= sep} |-> below[k]]
              /\ keys' = keys /\ children' = children /\ min_limit_' = min_limit_
           \/ /\ keys' = Inner!Moved(Inner!NoKeys, 0, keys, stay + 1, moved + 1)
              /\ children' = Inner!Moved(Inner!NoRefs, 0, children, stay + 1, moved + 1)
              /\ count' = moved /\ min_limit_' = sep
              /\ bitmap' = Inner!SiblingBits(stay)
              /\ below' = [k \in {x \in DOMAIN below : x > sep} |-> below[k]]
              /\ max_limit_' = max_limit_
    BY DEF Inner!split, Inner!isFull
  <1>2. /\ count \in Nat /\ inner_max_entries \in Nat /\ WordBits \in Nat /\ WordBits > inner_max_entries
        /\ moved \in Nat /\ moved >= 1 /\ stay \in Nat /\ stay + 1 + moved = count
    <2>1. count \in Nat /\ count > 2 /\ WordBits \in Nat /\ WordBits > inner_max_entries /\ inner_max_entries \in Nat
      BY <1>1, InnerConstants
    <2>2. moved \in Nat /\ moved >= 1 /\ count - moved - 1 \in Nat
      BY <2>1 DEF Inner!SiblingCount
    <2> QED BY <2>1, <2>2
  <1> HIDE DEF moved, stay
  <1>3. /\ DOMAIN keys = N /\ DOMAIN children = N
        /\ \A i \in N : keys[i] \in Inner!Key \union {0}
        /\ \A i \in N : children[i] \in Refs
        /\ \A k \in Inner!Key : k \in Int
        /\ min_limit_ \in Int /\ max_limit_ \in Int
        /\ \A i \in 0 .. count - 1 : keys[i] \in Int
    BY InnerTypes
  <1>4. \A i \in 0 .. count - 1 : keys[i] \in Inner!Key /\ min_limit_ < keys[i] /\ keys[i] < max_limit_
    BY DEF InnerInv, SeparatorsInside
  <1>5. sep \in Inner!Key /\ sep \in Int /\ min_limit_ < sep /\ sep < max_limit_
    BY <1>2, <1>3, <1>4
  <1>6. \A i, j \in 0 .. count - 1 : i < j => keys[i] < keys[j]
    BY DEF InnerInv, Sorted
  <1>7. /\ \A i \in 0 .. count : children[i].page \in Child
        /\ \A i, j \in 0 .. count : i # j => children[i].page # children[j].page
    BY DEF InnerInv, ChildrenDistinct
  <1>8. /\ DOMAIN below = Inner!Covered
        /\ \A x \in Inner!Covered : x \in Inner!Key /\ x \in Int /\ min_limit_ < x /\ x <= max_limit_
        /\ \A x \in Inner!Key : min_limit_ < x /\ x <= max_limit_ => x \in Inner!Covered
    BY <1>3, CoveredKeys DEF InnerInv, Inner!InnerTypeOK
  <1>9. \A b : b \in bitmap <=> b \in 0 .. count /\ children[b].tag
    BY Zenon DEF InnerInv, Inner!BitsMarkSwizzled
  <1>10. \A x \in Inner!Covered, p \in 0 .. count : At(p, x) => children[p].page = below[x]
    BY DEF InnerInv, ChildCovers
  <1>11. 0 < sep /\ sep < InnerMaxKey + 1
    BY <1>5, InnerConstants DEF Inner!Key
  <1>12. CASE /\ count' = stay /\ max_limit_' = sep
              /\ bitmap' = Inner!LowBits(bitmap, stay + 1)
              /\ below' = [k \in {x \in DOMAIN below : x <= sep} |-> below[k]]
              /\ keys' = keys /\ children' = children /\ min_limit_' = min_limit_
    <2>1. LimitTypes'
      BY <1>5, <1>11, <1>12, InnerConstants DEF InnerInv, LimitTypes
    <2>2. \A x : x \in Inner!Covered' <=> x \in Inner!Covered /\ x <= sep
      <3>1. \A k : k \in Inner!Covered' <=> k \in Inner!Key /\ min_limit_' < k /\ k <= max_limit_'
        BY <2>1, InnerConstants DEF Inner!Covered, Inner!InLimits, Inner!Key, LimitTypes
      <3>2. \A x \in Inner!Key : x <= sep => x <= max_limit_
        BY <1>3, <1>5
      <3> QED BY <1>8, <1>12, <3>1, <3>2
    <2>3. \A i \in 0 .. stay - 1 : i \in 0 .. count - 1 /\ keys[i] < sep
      BY <1>2, <1>6
    <2>4. SeparatorsInside'
      BY <1>4, <1>12, <2>3 DEF SeparatorsInside, Inner!Key
    <2>5. Sorted(keys, count)'
      BY <1>6, <1>12, <2>3 DEF Sorted
    <2>6. \A i \in 0 .. stay : i \in 0 .. count
      BY <1>2
    <2>7. ChildrenDistinct'
      BY <1>7, <1>12, <2>6 DEF ChildrenDistinct
    <2>8. ChildCovers'
      <3> SUFFICES ASSUME NEW x \in Inner!Covered', NEW q \in 0 .. stay, At(q, x)'
                   PROVE  children[q].page = below'[x]
        BY <1>12 DEF ChildCovers
      <3>1. x \in Inner!Covered /\ x <= sep /\ below'[x] = below[x]
        BY <1>8, <1>12, <2>2
      <3>2. (q > 0 => keys[q - 1] < x) /\ (q < stay => x <= keys[q])
        BY <1>12 DEF At
      <3>3. At(q, x)
        BY <1>2, <3>1, <3>2 DEF At
      <3> QED BY <1>10, <2>6, <3>1, <3>3
    <2>9. Inner!BitsMarkSwizzled'
      <3>1. \A b : b \in bitmap' <=> b \in 0 .. stay /\ children[b].tag
        <4> TAKE b
        <4>1. b \in bitmap' <=> b \in bitmap /\ b < stay + 1
          BY <1>12 DEF Inner!LowBits
        <4>2. b \in 0 .. count /\ b < stay + 1 <=> b \in 0 .. stay
          BY <1>2
        <4> QED BY <1>9, <4>1, <4>2
      <3>2. bitmap' = {i \in 0 .. stay : children[i].tag}
        BY <3>1
      <3> QED BY <1>12, <3>2 DEF Inner!BitsMarkSwizzled
    <2>10. Inner!InnerTypeOK'
      <3>1. count' \in 0 .. inner_max_entries - 1
        BY <1>1, <1>2, <1>12
      <3>2. bitmap' \subseteq 0 .. WordBits - 1
        BY <1>12 DEF Inner!LowBits, InnerInv, Inner!InnerTypeOK
      <3>3. DOMAIN below' = Inner!Covered'
        BY <1>8, <1>12, <2>2
      <3>4. /\ keys' \in [0 .. inner_max_entries - 1 -> Inner!Key \union {0}]
            /\ children' \in [0 .. inner_max_entries - 1 -> Refs]
        BY <1>12 DEF InnerInv, Inner!InnerTypeOK
      <3> QED BY <3>1, <3>2, <3>3, <3>4 DEF Inner!InnerTypeOK, Inner!Key
    <2> QED BY <2>1, <2>4, <2>5, <2>7, <2>8, <2>9, <2>10 DEF InnerInv
  <1>13. CASE /\ keys' = Inner!Moved(Inner!NoKeys, 0, keys, stay + 1, moved + 1)
              /\ children' = Inner!Moved(Inner!NoRefs, 0, children, stay + 1, moved + 1)
              /\ count' = moved /\ min_limit_' = sep
              /\ bitmap' = Inner!SiblingBits(stay)
              /\ below' = [k \in {x \in DOMAIN below : x > sep} |-> below[k]]
              /\ max_limit_' = max_limit_
    <2> DEFINE M == 0 .. moved
    <2>1. /\ M \subseteq N /\ N \union M = N /\ 0 + (moved + 1) - 1 = moved
          /\ \A i \in M : stay + 1 + i - 0 = stay + 1 + i /\ stay + 1 + i \in N /\ stay + 1 + i \in 0 .. count
      BY <1>1, <1>2
    <2>2. ASSUME NEW f, NEW g, DOMAIN f = N
          PROVE  Inner!Moved(f, 0, g, stay + 1, moved + 1) =
                   [i \in N |-> IF i \in M THEN g[stay + 1 + i] ELSE f[i]]
      <3>1. Inner!Moved(f, 0, g, stay + 1, moved + 1) =
              [i \in N |-> IF i \in M THEN g[stay + 1 + i - 0] ELSE f[i]]
        BY <2>1, <2>2, Zenon DEF Inner!Moved
      <3> HIDE DEF N, M
      <3> QED BY <2>1, <3>1
    <2>3. DOMAIN Inner!NoKeys = N /\ DOMAIN Inner!NoRefs = N
      BY DEF Inner!NoKeys, Inner!NoRefs
    <2>4. /\ keys' = [i \in N |-> IF i \in M THEN keys[stay + 1 + i] ELSE Inner!NoKeys[i]]
          /\ children' = [i \in N |-> IF i \in M THEN children[stay + 1 + i] ELSE Inner!NoRefs[i]]
      BY <1>13, <2>2, <2>3, Zenon
    <2>5. \A i \in N : Inner!NoKeys[i] = 0 /\ Inner!NoRefs[i] \in Refs
      <3>1. \A i \in N : Inner!NoKeys[i] = 0
        BY DEF Inner!NoKeys
      <3>2. \A i \in N : Inner!NoRefs[i] = Inner!Ref(NoChild, FALSE)
        BY DEF Inner!NoRefs
      <3>3. Inner!Ref(NoChild, FALSE) \in Refs
        BY DEF Inner!Ref
      <3> HIDE DEF N, Refs
      <3> QED BY <3>1, <3>2, <3>3
    <2> HIDE DEF N, M, Refs
    <2>6. keys' \in [N -> Inner!Key \union {0}] /\ children' \in [N -> Refs]
      BY <1>3, <2>1, <2>4, <2>5
    <2>7. \A i \in 0 .. moved : keys'[i] = keys[stay + 1 + i] /\ children'[i] = children[stay + 1 + i]
      BY <2>1, <2>4 DEF M
    <2>8. /\ \A i \in 0 .. moved : stay + 1 + i \in 0 .. count
          /\ \A i \in 0 .. moved - 1 : i \in 0 .. moved /\ stay + 1 + i \in 0 .. count - 1 /\ stay < stay + 1 + i
      BY <1>2
    <2>9. LimitTypes'
      BY <1>5, <1>11, <1>13, InnerConstants DEF InnerInv, LimitTypes
    <2>10. \A x : x \in Inner!Covered' <=> x \in Inner!Covered /\ x > sep
      <3>1. \A k : k \in Inner!Covered' <=> k \in Inner!Key /\ min_limit_' < k /\ k <= max_limit_'
        BY <2>9, InnerConstants DEF Inner!Covered, Inner!InLimits, Inner!Key, LimitTypes
      <3>2. \A x \in Inner!Key : (sep < x <=> x > sep) /\ (sep < x => min_limit_ < x)
        BY <1>3, <1>5
      <3> QED BY <1>8, <1>13, <3>1, <3>2
    <2>11. \A i \in 0 .. moved - 1 : keys'[i] \in Inner!Key /\ sep < keys'[i] /\ keys'[i] < max_limit_
      <3>1. stay \in 0 .. count - 1
        BY <1>2
      <3> QED BY <1>4, <1>6, <2>7, <2>8, <3>1
    <2>12. SeparatorsInside'
      BY <1>13, <2>11 DEF SeparatorsInside, Inner!Key
    <2>13. Sorted(keys, count)'
      <3> SUFFICES ASSUME NEW i \in 0 .. moved - 1, NEW j \in 0 .. moved - 1, i < j
                   PROVE  keys'[i] < keys'[j]
        BY <1>13 DEF Sorted
      <3>1. stay + 1 + i < stay + 1 + j
        BY <1>2
      <3> QED BY <1>6, <2>7, <2>8, <3>1
    <2>14. ChildrenDistinct'
      <3>1. \A i \in 0 .. moved : children'[i].page \in Child
        BY <1>7, <2>7, <2>8
      <3>2. \A i, j \in 0 .. moved : i # j => stay + 1 + i # stay + 1 + j
        BY <1>2
      <3>3. \A i, j \in 0 .. moved : i # j => children'[i].page # children'[j].page
        BY <1>7, <2>7, <2>8, <3>2
      <3> QED BY <1>13, <3>1, <3>3 DEF ChildrenDistinct
    <2>15. ChildCovers'
      <3> SUFFICES ASSUME NEW x \in Inner!Covered', NEW q \in 0 .. moved, At(q, x)'
                   PROVE  children'[q].page = below'[x]
        BY <1>13 DEF ChildCovers
      <3>1. x \in Inner!Covered /\ x > sep /\ below'[x] = below[x]
        BY <1>8, <1>13, <2>10
      <3>2. (q > 0 => keys'[q - 1] < x) /\ (q < moved => x <= keys'[q])
        BY <1>13 DEF At
      <3>3. stay + 1 + q < count => x <= keys[stay + 1 + q]
        BY <1>2, <2>7, <3>2
      <3>4. keys[(stay + 1 + q) - 1] < x
        <4>1. CASE q = 0
          <5>1. (stay + 1 + q) - 1 = stay
            BY <1>2, <4>1
          <5> QED BY <1>5, <1>8, <3>1, <5>1
        <4>2. CASE q > 0
          <5>1. q - 1 \in 0 .. moved /\ stay + 1 + (q - 1) = (stay + 1 + q) - 1
            BY <1>2, <4>2
          <5> QED BY <2>7, <3>2, <4>2, <5>1
        <4> QED BY <4>1, <4>2
      <3>5. At(stay + 1 + q, x)
        BY <3>3, <3>4 DEF At
      <3> QED BY <1>10, <2>7, <2>8, <3>1, <3>5
    <2>16. Inner!BitsMarkSwizzled'
      <3>1. \A b : b \in bitmap' <=> b \in 0 .. moved /\ children'[b].tag
        <4> TAKE b
        <4>1. b \in bitmap' <=> \E x \in bitmap : x >= stay + 1 /\ b = x - (stay + 1)
          BY <1>13 DEF Inner!SiblingBits, Inner!Shr
        <4>2. \A x \in 0 .. count : x >= stay + 1 /\ b = x - (stay + 1) => b \in 0 .. moved /\ x = stay + 1 + b
          BY <1>2
        <4>3. b \in 0 .. moved => /\ stay + 1 + b >= stay + 1 /\ b = (stay + 1 + b) - (stay + 1)
                                  /\ stay + 1 + b \in 0 .. count
          BY <1>2
        <4>4. b \in bitmap' <=> b \in 0 .. moved /\ stay + 1 + b \in bitmap
          BY <1>9, <4>1, <4>2, <4>3
        <4> QED BY <1>9, <2>7, <4>3, <4>4
      <3>2. bitmap' = {i \in 0 .. moved : children'[i].tag}
        BY <3>1
      <3> QED BY <1>13, <3>2 DEF Inner!BitsMarkSwizzled
    <2>17. Inner!InnerTypeOK'
      <3>1. count' \in 0 .. inner_max_entries - 1
        BY <1>1, <1>2, <1>13
      <3>2. bitmap' \subseteq 0 .. WordBits - 1
        <4>1. bitmap' \subseteq 0 .. moved
          BY <1>13, <2>16 DEF Inner!BitsMarkSwizzled
        <4> QED BY <1>1, <1>2, <4>1
      <3>3. DOMAIN below' = Inner!Covered'
        BY <1>8, <1>13, <2>10
      <3> QED BY <2>6, <3>1, <3>2, <3>3 DEF Inner!InnerTypeOK, Inner!Key, N, Refs
    <2> QED BY <2>9, <2>12, <2>13, <2>14, <2>15, <2>16, <2>17 DEF InnerInv
  <1> QED BY <1>1, <1>12, <1>13

-----------------------------------------------------------------------------
(* swizzling and unswizzling *)

\* A reference that is tagged or untagged, with its bit set or cleared.
LEMMA RetagStep ==
  ASSUME InnerInv, NEW idx \in 0 .. count, NEW t \in BOOLEAN,
         children' = [children EXCEPT ![idx].tag = t],
         \A b : b \in bitmap' <=> IF b = idx THEN t ELSE b \in bitmap,
         UNCHANGED <<keys, count, min_limit_, max_limit_, below>>
  PROVE  InnerInv'
  <1> DEFINE N == 0 .. inner_max_entries - 1
             Refs == [page : Child \union {NoChild}, tag : BOOLEAN]
             r == [children[idx] EXCEPT !.tag = t]
  <1>1. /\ count \in Nat /\ inner_max_entries \in Nat /\ count <= inner_max_entries - 1
        /\ inner_max_entries < WordBits /\ WordBits \in Nat
    BY InnerTypes, InnerConstants
  <1>2. DOMAIN children = N /\ \A i \in N : children[i] \in Refs
    BY InnerTypes
  <1>3. idx \in N /\ \A i \in 0 .. count : i \in N
    BY <1>1
  <1>4. children' = [children EXCEPT ![idx] = r]
    BY Zenon
  <1>5. r \in Refs /\ r.page = children[idx].page
    BY <1>2, <1>3
  <1>6. r.tag = t
    BY <1>2, <1>3
  <1>7. children = [i \in N |-> children[i]]
    BY DEF InnerInv, Inner!InnerTypeOK
  <1> HIDE DEF r, N, Refs
  <1>8. children' \in [N -> Refs]
    BY <1>2, <1>4, <1>5, <1>7
  <1>9. \A i \in N : i # idx => children'[i] = children[i]
    BY <1>2, <1>4
  <1>10. children'[idx] = r
    BY <1>2, <1>3, <1>4
  <1>11. \A i \in 0 .. count : children'[i].page = children[i].page
    BY <1>3, <1>5, <1>9, <1>10
  <1>12. Inner!Covered' = Inner!Covered
    BY DEF Inner!Covered
  <1>13. LimitTypes' /\ SeparatorsInside' /\ Sorted(keys, count)'
    BY DEF InnerInv, LimitTypes, SeparatorsInside, Sorted, Inner!Key
  <1>14. ChildrenDistinct'
    BY <1>11 DEF InnerInv, ChildrenDistinct
  <1>15. ChildCovers'
    BY <1>11, <1>12 DEF InnerInv, ChildCovers, At
  <1>16. \A b : b \in bitmap' <=> b \in 0 .. count /\ children'[b].tag
    <2> TAKE b
    <2>1. b \in bitmap <=> b \in 0 .. count /\ children[b].tag
      BY Zenon DEF InnerInv, Inner!BitsMarkSwizzled
    <2>2. CASE b = idx
      BY <1>6, <1>10, <2>2
    <2>3. CASE b # idx
      BY <1>3, <1>9, <2>1, <2>3
    <2> QED BY <2>2, <2>3
  <1>17. Inner!BitsMarkSwizzled'
    <2>1. bitmap' = {i \in 0 .. count : children'[i].tag}
      BY <1>16
    <2> QED BY <2>1 DEF Inner!BitsMarkSwizzled
  <1>18. Inner!InnerTypeOK'
    <2>1. bitmap' \subseteq 0 .. WordBits - 1
      <3>1. bitmap' \subseteq 0 .. count
        BY <1>16
      <3> QED BY <1>1, <3>1
    <2>2. /\ keys' \in [0 .. inner_max_entries - 1 -> Inner!Key \union {0}]
          /\ count' \in 0 .. inner_max_entries - 1 /\ DOMAIN below' = Inner!Covered'
      BY <1>12 DEF InnerInv, Inner!InnerTypeOK
    <2> QED BY <1>8, <2>1, <2>2 DEF Inner!InnerTypeOK, Inner!Key, N, Refs
  <1> QED BY <1>13, <1>14, <1>15, <1>17, <1>18 DEF InnerInv

\* findIdx of a reference the node has returns its position.
LEMMA FindIdx ==
  ASSUME InnerInv, NEW r, Inner!findIdx(r) # -1
  PROVE  Inner!findIdx(r) \in 0 .. count /\ children[Inner!findIdx(r)] = r
  <1> DEFINE I == {i \in 0 .. count : children[i] = r}
  <1>1. I # {} /\ Inner!findIdx(r) = CHOOSE i \in I : \A j \in I : i <= j
    BY DEF Inner!findIdx
  <1>2. \E i \in I : \A j \in I : i <= j
    <2>1. I \in SUBSET Nat
      BY InnerTypes
    <2> QED BY <1>1, <2>1, LeastNumber, Zenon
  <1>3. Inner!findIdx(r) \in I
    BY <1>1, <1>2
  <1> QED BY <1>3

LEMMA InnerNext ==
  ASSUME InnerInv, Inner!Next
  PROVE  InnerInv'
  <1>1. ASSUME NEW idx \in DOMAIN children, Inner!swizzling(idx)
        PROVE  InnerInv'
    <2>1. idx \in 0 .. count
      BY <1>1 DEF Inner!swizzling
    <2>2. children' = [children EXCEPT ![idx].tag = TRUE]
      BY <1>1, Zenon DEF Inner!swizzling
    <2>3. \A b : b \in bitmap' <=> IF b = idx THEN TRUE ELSE b \in bitmap
      BY <1>1 DEF Inner!swizzling, Inner!set_bitmap
    <2>4. UNCHANGED <<keys, count, min_limit_, max_limit_, below>>
      BY <1>1, Zenon DEF Inner!swizzling
    <2>5. PICK t \in BOOLEAN : t = TRUE
      BY Zenon
    <2>6. children' = [children EXCEPT ![idx].tag = t]
      BY <2>2, <2>5, Zenon
    <2>7. \A b : b \in bitmap' <=> IF b = idx THEN t ELSE b \in bitmap
      BY <2>3, <2>5
    <2> QED BY <2>1, <2>4, <2>6, <2>7, RetagStep, Zenon
  <1>2. ASSUME NEW c \in Child, Inner!unswizzling(c)
        PROVE  InnerInv'
    <2> DEFINE idx == Inner!findIdx(Inner!Ref(c, TRUE))
    <2>1. idx # -1 /\ bitmap' = Inner!unset_bitmap(bitmap, idx)
      BY <1>2, Zenon DEF Inner!unswizzling
    <2>2. children' = [children EXCEPT ![idx].tag = FALSE]
      BY <1>2, Zenon DEF Inner!unswizzling
    <2>3. UNCHANGED <<keys, count, min_limit_, max_limit_, below>>
      BY <1>2, Zenon DEF Inner!unswizzling
    <2>4. idx \in 0 .. count
      BY <2>1, FindIdx, Zenon
    <2> HIDE DEF idx
    <2>5. PICK t \in BOOLEAN : t = FALSE
      BY Zenon
    <2>6. children' = [children EXCEPT ![idx].tag = t]
      BY <2>2, <2>5, Zenon
    <2>7. \A b : b \in bitmap' <=> IF b = idx THEN t ELSE b \in bitmap
      BY <2>1, <2>5 DEF Inner!unset_bitmap
    <2> QED BY <2>3, <2>4, <2>6, <2>7, RetagStep, Zenon
  <1>3. ASSUME NEW k \in Inner!Key, NEW c \in Child, NEW tagged \in BOOLEAN, Inner!insert(k, c, tagged)
        PROVE  InnerInv'
    BY <1>3, InsertStep
  <1>4. ASSUME NEW goOn \in {"node", "sibling"}, Inner!split(goOn)
        PROVE  InnerInv'
    BY <1>4, SplitStep
  <1> QED BY <1>1, <1>2, <1>3, <1>4 DEF Inner!Next

\* A step that changes no variable of the node.
LEMMA InnerStutter ==
  ASSUME InnerInv, UNCHANGED Inner!vars
  PROVE  InnerInv'
  <1>1. UNCHANGED <<keys, children, count, bitmap, min_limit_, max_limit_, below>>
    BY DEF Inner!vars, Inner!node
  <1>2. Inner!Covered' = Inner!Covered
    BY <1>1 DEF Inner!Covered
  <1>3. Inner!InnerTypeOK' /\ LimitTypes' /\ SeparatorsInside' /\ Sorted(keys, count)' /\ ChildrenDistinct'
    BY <1>1, <1>2 DEF InnerInv, Inner!InnerTypeOK, LimitTypes, SeparatorsInside, Sorted, ChildrenDistinct, Inner!Key
  <1>4. ChildCovers'
    BY <1>1, <1>2 DEF InnerInv, ChildCovers, At
  <1>5. Inner!BitsMarkSwizzled'
    BY <1>1 DEF InnerInv, Inner!BitsMarkSwizzled
  <1> QED BY <1>3, <1>4, <1>5 DEF InnerInv

-----------------------------------------------------------------------------
(* closest_set *)

\* The distances: to the nearest bit at or above pos, and to the nearest below it.
LEMMA Distances ==
  ASSUME InnerInv, NEW pos \in 0 .. count
  PROVE  LET R == {b \in bitmap : b >= pos}
             L == {b \in bitmap : b < pos}
         IN /\ R = {} => Inner!RightDistance(pos) = WordBits
            /\ R # {} => \E b \in R : (\A x \in R : b <= x) /\ Inner!RightDistance(pos) = b - pos
            /\ L = {} => Inner!LeftDistance(pos) = WordBits
            /\ L # {} => \E b \in L : (\A x \in L : b >= x) /\ Inner!LeftDistance(pos) = pos - b
  <1> DEFINE R == {b \in bitmap : b >= pos}
             L == {b \in bitmap : b < pos}
  <1>1. count \in Nat /\ pos \in Nat /\ WordBits \in Nat /\ bitmap \subseteq 0 .. count
    BY InnerTypes, InnerConstants
  <1>2. Inner!LowBits(bitmap, pos) = L
    BY DEF Inner!LowBits
  <1>3. bitmap \ Inner!LowBits(bitmap, pos) = R
    <2>1. \A b \in bitmap : b >= pos <=> ~(b < pos)
      BY <1>1
    <2>2. \A b : b \in bitmap \ Inner!LowBits(bitmap, pos) <=> b \in R
      BY <1>2, <2>1
    <2> QED BY <2>2
  <1>4. Inner!RightDistance(pos) = IF R = {} THEN WordBits ELSE Inner!tzcnt(R) - pos
    BY <1>3, Zenon DEF Inner!RightDistance
  <1>5. Inner!LeftDistance(pos) = IF L = {} THEN WordBits ELSE pos - (WordBits - 1 - Inner!lzcnt(L))
    BY <1>2, Zenon DEF Inner!LeftDistance
  <1>6. R \in SUBSET Nat /\ L \in SUBSET (0 .. count)
    <2>1. \A b \in bitmap : b \in Nat /\ b \in 0 .. count
      BY <1>1
    <2> QED BY <2>1
  <1> HIDE DEF R, L
  <1>7. ASSUME R # {}
        PROVE  Inner!tzcnt(R) \in R /\ \A x \in R : Inner!tzcnt(R) <= x
    <2>1. \E b \in R : \A x \in R : b <= x
      BY <1>6, <1>7, LeastNumber, Zenon
    <2> QED BY <2>1, Zenon DEF Inner!tzcnt
  <1>8. ASSUME L # {}
        PROVE  \E b \in L : (\A x \in L : b >= x) /\ Inner!LeftDistance(pos) = pos - b
    <2> DEFINE m == CHOOSE b \in L : \A x \in L : b >= x
    <2>1. \E b \in L : \A x \in L : b >= x
      BY <1>1, <1>6, <1>8, GreatestNumber, Zenon
    <2>2. m \in L /\ \A x \in L : m >= x
      BY <2>1, Zenon
    <2>3. Inner!lzcnt(L) = WordBits - 1 - m
      BY DEF Inner!lzcnt
    <2> HIDE DEF m
    <2>4. WordBits - 1 - Inner!lzcnt(L) = m
      BY <1>1, <1>6, <2>2, <2>3
    <2> QED BY <1>5, <1>8, <2>2, <2>4
  <1>9. /\ R = {} => Inner!RightDistance(pos) = WordBits
        /\ R # {} => \E b \in R : (\A x \in R : b <= x) /\ Inner!RightDistance(pos) = b - pos
        /\ L = {} => Inner!LeftDistance(pos) = WordBits
    BY <1>4, <1>5, <1>7
  <1> QED BY <1>8, <1>9 DEF R, L

\* closest_set is the nearest set bit, the left one of two.
LEMMA InnerClosest ==
  ASSUME InnerInv
  PROVE  Inner!ClosestIsNearest
  <1> SUFFICES ASSUME NEW pos \in 0 .. count
               PROVE  LET Dist(i) == IF i < pos THEN pos - i ELSE i - pos
                          c == Inner!closest_set(pos)
                      IN IF \A i \in 0 .. count : ~children[i].tag THEN c = -1
                         ELSE /\ c \in 0 .. count /\ children[c].tag
                              /\ \A i \in 0 .. count : children[i].tag =>
                                   Dist(c) <= Dist(i) /\ (Dist(c) = Dist(i) => c <= i)
    BY Zenon DEF Inner!ClosestIsNearest
  <1> DEFINE Dist(i) == IF i < pos THEN pos - i ELSE i - pos
             c == Inner!closest_set(pos)
             R == {b \in bitmap : b >= pos}
             L == {b \in bitmap : b < pos}
             right == Inner!RightDistance(pos)
             left == Inner!LeftDistance(pos)
  <1>1. /\ count \in Nat /\ pos \in Nat /\ pos <= count /\ WordBits \in Nat /\ count < WordBits
        /\ bitmap \subseteq 0 .. count
    BY InnerTypes, InnerConstants
  <1>2. \A b : b \in bitmap <=> b \in 0 .. count /\ children[b].tag
    BY Zenon DEF InnerInv, Inner!BitsMarkSwizzled
  <1>3. /\ R = {} => right = WordBits
        /\ R # {} => \E b \in R : (\A x \in R : b <= x) /\ right = b - pos
        /\ L = {} => left = WordBits
        /\ L # {} => \E b \in L : (\A x \in L : b >= x) /\ left = pos - b
    BY Distances, Zenon
  <1>4. c = IF bitmap = {} THEN -1
            ELSE IF right < left /\ pos + right < count + 1 THEN pos + right
            ELSE pos - left
    <2>1. (IF pos < WordBits THEN pos ELSE WordBits - 1) = pos
      BY <1>1
    <2> QED BY <2>1 DEF Inner!closest_set
  <1>5. \A b : (b \in R <=> b \in bitmap /\ b >= pos) /\ (b \in L <=> b \in bitmap /\ b < pos)
    OBVIOUS
  <1> HIDE DEF R, L, right, left, c
  <1>6. bitmap = {} <=> \A i \in 0 .. count : ~children[i].tag
    BY <1>2
  <1>7. ASSUME bitmap # {}
        PROVE  /\ c \in bitmap
               /\ \A i \in bitmap : Dist(c) <= Dist(i) /\ (Dist(c) = Dist(i) => c <= i)
    <2>0. \A b \in bitmap : b \in Nat /\ b <= count
      BY <1>1
    <2>1. CASE R = {}
      <3>1. L # {}
        <4>1. PICK b \in bitmap : TRUE
          BY <1>7
        <4>2. b \in R \/ b \in L
          BY <1>1, <1>5, <2>0, <4>1
        <4> QED BY <2>1, <4>2
      <3>2. PICK m \in L : (\A x \in L : m >= x) /\ left = pos - m
        BY <1>3, <3>1
      <3>3. m \in bitmap /\ m \in Nat /\ m < pos
        BY <1>5, <2>0
      <3>4. ~(right < left)
        BY <1>1, <1>3, <2>1, <3>2, <3>3
      <3>5. c = m
        BY <1>1, <1>4, <1>7, <3>2, <3>3, <3>4
      <3>6. \A i \in bitmap : i \in L /\ m >= i /\ i < pos /\ i \in Nat
        BY <1>1, <1>5, <2>0, <2>1, <3>2
      <3> QED BY <1>1, <3>3, <3>5, <3>6
    <2>2. CASE R # {} /\ L = {}
      <3>1. PICK m \in R : (\A x \in R : m <= x) /\ right = m - pos
        BY <1>3, <2>2
      <3>2. m \in bitmap /\ m \in Nat /\ m >= pos /\ m <= count
        BY <1>5, <2>0
      <3>3. right < left /\ pos + right < count + 1 /\ pos + right = m
        BY <1>1, <1>3, <2>2, <3>1, <3>2
      <3>4. c = m
        BY <1>4, <1>7, <3>3
      <3>5. \A i \in bitmap : i \in R /\ m <= i /\ i >= pos /\ i \in Nat
        BY <1>1, <1>5, <2>0, <2>2, <3>1
      <3> QED BY <1>1, <3>2, <3>4, <3>5
    <2>3. CASE R # {} /\ L # {}
      <3>1. PICK m \in R : (\A x \in R : m <= x) /\ right = m - pos
        BY <1>3, <2>3
      <3>2. m \in bitmap /\ m \in Nat /\ m >= pos /\ m <= count
        BY <1>5, <2>0
      <3>3. PICK l \in L : (\A x \in L : l >= x) /\ left = pos - l
        BY <1>3, <2>3
      <3>4. l \in bitmap /\ l \in Nat /\ l < pos
        BY <1>5, <2>0
      <3>5. pos + right < count + 1 /\ pos + right = m /\ pos - left = l
        BY <1>1, <3>1, <3>2, <3>3, <3>4
      <3>6. c = IF m - pos < pos - l THEN m ELSE l
        BY <1>4, <1>7, <3>1, <3>3, <3>5
      <3>7. \A i \in bitmap : i \in Nat /\ ((i >= pos /\ m <= i) \/ (i < pos /\ l >= i))
        <4> TAKE i \in bitmap
        <4>1. i \in Nat /\ (i >= pos \/ i < pos)
          BY <1>1, <2>0
        <4> QED BY <1>5, <3>1, <3>3, <4>1
      <3>8. CASE m - pos < pos - l
        <4>1. c = m /\ Dist(c) = m - pos
          BY <1>1, <3>2, <3>6, <3>8
        <4> QED BY <1>1, <3>2, <3>4, <3>7, <3>8, <4>1
      <3>9. CASE ~(m - pos < pos - l)
        <4>1. c = l /\ Dist(c) = pos - l
          BY <1>1, <3>4, <3>6, <3>9
        <4> QED BY <1>1, <3>2, <3>4, <3>7, <3>9, <4>1
      <3> QED BY <3>8, <3>9
    <2> QED BY <2>1, <2>2, <2>3
  <1>8. CASE bitmap = {}
    BY <1>4, <1>6, <1>8 DEF c
  <1>9. CASE bitmap # {}
    <2>1. /\ c \in 0 .. count /\ children[c].tag
          /\ \A i \in 0 .. count : children[i].tag =>
               Dist(c) <= Dist(i) /\ (Dist(c) = Dist(i) => c <= i)
      <3> HIDE DEF Dist
      <3> QED BY <1>2, <1>7, <1>9
    <2>2. ~(\A i \in 0 .. count : ~children[i].tag)
      BY <1>6, <1>9
    <2> QED BY <2>1, <2>2, Zenon DEF c
  <1> QED BY <1>8, <1>9

-----------------------------------------------------------------------------
(* The invariant of a leaf *)

EntriesSorted == \A i, j \in 0 .. count - 1 : i < j => data[i].first < data[j].first
EntriesInside ==
  \A i \in 0 .. count - 1 : InLimits(data[i].first, min_limit_, max_limit_) /\ data[i].second \in Val
EntriesMapped ==
  /\ DOMAIN map = {data[i].first : i \in 0 .. count - 1}
  /\ \A i \in 0 .. count - 1 : map[data[i].first] = data[i].second

\* That find answers as the map does says nothing of where the next operation writes:
\* the entries in use must be sorted, and be exactly the pairs of the map.
LeafInv ==
  /\ LeafTypeOK
  /\ EntriesSorted
  /\ EntriesInside
  /\ EntriesMapped

\* The state in plain terms, for the provers.
LEMMA LeafTypes ==
  ASSUME LeafInv
  PROVE  /\ MaxKey \in Nat /\ max_entries \in Nat /\ max_entries > 1
         /\ count \in Nat /\ count <= max_entries
         /\ DOMAIN data = 0 .. max_entries - 1
         /\ \A i \in 0 .. max_entries - 1 : data[i] \in [first : Key, second : Val \union {NoVal}]
         /\ \A i \in 0 .. max_entries - 1 : data[i].first \in Key /\ data[i].first \in Int
         /\ \A k \in Key : k \in Int
         /\ min_limit_ \in Int /\ max_limit_ \in Int
  <1>1. MaxKey \in Nat /\ max_entries \in Nat /\ max_entries > 1
    BY LeafAssumption
  <1>2. /\ data \in [0 .. max_entries - 1 -> [first : Key, second : Val \union {NoVal}]]
        /\ count \in 0 .. max_entries
        /\ min_limit_ \in Key /\ max_limit_ \in Key \union {MaxLimit}
    BY DEF LeafInv, LeafTypeOK
  <1>3. \A k \in Key \union {MaxLimit} : k \in Int
    BY <1>1 DEF Key, MaxLimit
  <1>4. \A i \in 0 .. max_entries - 1 : data[i] \in [first : Key, second : Val \union {NoVal}]
    BY <1>2
  <1> QED BY <1>1, <1>2, <1>3, <1>4

\* The position the search returns: the entries before it are smaller, those from it on
\* are not.
Splits(p, k) ==
  /\ p \in 0 .. count
  /\ \A i \in 0 .. p - 1 : data[i].first < k
  /\ \A i \in p .. count - 1 : data[i].first >= k
LEMMA LeafSearch ==
  ASSUME LeafInv, NEW k \in Key
  PROVE  Splits(lowerBound(k), k)
  <1> DEFINE f == [i \in DOMAIN data |-> data[i].first]
             p == Search(f, k, count)
  <1>1. count \in Nat /\ k \in Int /\ 0 .. count - 1 \subseteq DOMAIN data
    BY LeafTypes
  <1>2. \A i \in 0 .. count - 1 : f[i] = data[i].first
    BY <1>1
  <1>3. \A i \in 0 .. count - 1 : f[i] \in Int
    BY <1>1, <1>2, LeafTypes
  <1>4. Sorted(f, count)
    BY <1>2 DEF Sorted, LeafInv, EntriesSorted
  <1>5. lowerBound(k) = p
    BY Zenon DEF lowerBound
  <1> HIDE DEF f
  <1>6. /\ p \in 0 .. count
        /\ \A i \in 0 .. p - 1 : f[i] < k
        /\ \A i \in p .. count - 1 : f[i] >= k
    BY <1>1, <1>3, <1>4, SearchFacts
  <1> HIDE DEF p
  <1>7. (\A i \in 0 .. p - 1 : i \in 0 .. count - 1) /\ (\A i \in p .. count - 1 : i \in 0 .. count - 1)
    BY <1>1, <1>6
  <1> QED BY <1>2, <1>5, <1>6, <1>7 DEF Splits

\* The test of all operations is right: the position holds the key if and only if the
\* leaf has it.
LEMMA HoldsMapped ==
  ASSUME LeafInv, NEW k \in Key, NEW p, Splits(p, k)
  PROVE  /\ Holds(p, k) <=> k \in DOMAIN map
         /\ Holds(p, k) => p \in 0 .. count - 1 /\ data[p].first = k /\ map[k] = data[p].second
  <1>1. p \in 0 .. count /\ count \in Nat /\ k \in Int
    BY LeafTypes DEF Splits
  <1>2. /\ DOMAIN map = {data[i].first : i \in 0 .. count - 1}
        /\ \A i \in 0 .. count - 1 : map[data[i].first] = data[i].second
    BY DEF LeafInv, EntriesMapped
  <1>3. Holds(p, k) => p \in 0 .. count - 1 /\ data[p].first = k
    BY <1>1 DEF Holds
  <1>4. ASSUME k \in DOMAIN map PROVE Holds(p, k)
    <2>1. PICK i \in 0 .. count - 1 : data[i].first = k
      BY <1>2, <1>4
    <2>2. ~(i < p)
      BY <1>1, <2>1 DEF Splits
    <2>3. p < count /\ (i = p \/ p < i)
      BY <1>1, <2>2
    <2>4. ASSUME p < i PROVE FALSE
      <3>1. p \in 0 .. count - 1 /\ p \in p .. count - 1
        BY <1>1, <2>3
      <3>2. data[p].first < data[i].first /\ data[p].first >= k
        BY <2>4, <3>1 DEF LeafInv, EntriesSorted, Splits
      <3>3. data[p].first \in Int
        BY <3>1, LeafTypes
      <3> QED BY <1>1, <2>1, <3>2, <3>3
    <2> QED BY <2>1, <2>3, <2>4 DEF Holds
  <1> QED BY <1>2, <1>3, <1>4

\* The keys of the entries from a to b are as many as the entries.
LEMMA KeysCount ==
  ASSUME LeafInv, NEW a \in Nat, NEW b \in Int, b < count
  PROVE  Cardinality({data[i].first : i \in a .. b}) = IF a > b THEN 0 ELSE b - a + 1
  <1> DEFINE f == [i \in DOMAIN data |-> data[i].first]
  <1>1. \A i \in a .. b : i \in 0 .. count - 1 /\ i \in DOMAIN data /\ data[i].first \in Int
    BY LeafTypes
  <1>2. \A i \in a .. b : f[i] = data[i].first
    BY <1>1
  <1>3. \A i, j \in a .. b : i < j => f[i] < f[j]
    BY <1>1, <1>2 DEF LeafInv, EntriesSorted
  <1>4. {f[i] : i \in a .. b} = {data[i].first : i \in a .. b}
    BY <1>2
  <1>5. \A i \in a .. b : f[i] \in Int
    BY <1>1, <1>2
  <1> HIDE DEF f
  <1>6. Cardinality({f[i] : i \in a .. b}) = IF a > b THEN 0 ELSE b - a + 1
    <2>1. a \in Int
      OBVIOUS
    <2> QED BY <1>3, <1>5, <2>1, IntervalCount, Zenon
  <1> QED BY <1>4, <1>6

LEMMA LeafCount ==
  ASSUME LeafInv
  PROVE  Cardinality(DOMAIN map) = count
  <1>1. count \in Nat
    BY LeafTypes
  <1>2. Cardinality({data[i].first : i \in 0 .. count - 1}) = IF 0 > count - 1 THEN 0 ELSE count - 1 - 0 + 1
    <2>1. 0 \in Nat /\ count - 1 \in Int /\ count - 1 < count
      BY <1>1
    <2> QED BY <2>1, KeysCount, Zenon
  <1>3. (IF 0 > count - 1 THEN 0 ELSE count - 1 - 0 + 1) = count
    BY <1>1
  <1> QED BY <1>2, <1>3 DEF LeafInv, EntriesMapped

LEMMA LeafWithinLimits ==
  ASSUME LeafInv
  PROVE  KeysWithinLimits
  BY LeafCount DEF KeysWithinLimits, LeafInv, EntriesInside

LEMMA LeafFinds ==
  ASSUME LeafInv
  PROVE  FindAnswersMap
  <1> SUFFICES ASSUME NEW k \in Key
               PROVE  find(k) = IF k \in DOMAIN map THEN map[k] ELSE NoVal
    BY DEF FindAnswersMap
  <1> DEFINE p == lowerBound(k)
  <1>1. Splits(p, k)
    BY LeafSearch
  <1> HIDE DEF p
  <1>2. /\ Holds(p, k) <=> k \in DOMAIN map
        /\ Holds(p, k) => map[k] = data[p].second
    BY <1>1, HoldsMapped
  <1>3. find(k) = IF Holds(p, k) THEN data[p].second ELSE NoVal
    BY DEF find, p
  <1> QED BY <1>2, <1>3

LEMMA LeafScans ==
  ASSUME LeafInv
  PROVE  ScanAnswersMap
  <1> SUFFICES ASSUME NEW k \in Key, NEW num \in 0 .. max_entries + 1
               PROVE  LET from == {x \in DOMAIN map : k \in DOMAIN map /\ x >= k}
                          out == rangeScan(k, num)
                          wanted == {x \in from : Cardinality({y \in from : y <= x}) <= num}
                      IN /\ Cardinality(DOMAIN out) = Cardinality(wanted)
                         /\ \A x \in wanted :
                              out[Cardinality({y \in from : y < x})] = Pair(x, map[x])
    BY Zenon DEF ScanAnswersMap
  <1> DEFINE from == {x \in DOMAIN map : k \in DOMAIN map /\ x >= k}
             out == rangeScan(k, num)
             wanted == {x \in from : Cardinality({y \in from : y <= x}) <= num}
             p == lowerBound(k)
             n == CopyCount(p, num)
             Keys(a, b) == {data[i].first : i \in a .. b}
  <1>1. Splits(p, k)
    BY LeafSearch
  <1>2. out = IF Holds(p, k) THEN [i \in 0 .. n - 1 |-> data[p + i]] ELSE <<>>
    BY DEF rangeScan
  <1>3. n = IF count - p < num THEN count - p ELSE num
    BY DEF CopyCount
  <1> HIDE DEF p, n
  <1>4. /\ Holds(p, k) <=> k \in DOMAIN map
        /\ Holds(p, k) => p \in 0 .. count - 1 /\ data[p].first = k
    BY <1>1, HoldsMapped
  <1>5. CASE ~Holds(p, k)
    <2>1. from = {} /\ wanted = {}
      BY <1>4, <1>5
    <2>2. DOMAIN out = {}
      BY <1>2, <1>5
    <2> HIDE DEF out
    <2>3. Cardinality(DOMAIN out) = Cardinality(wanted) /\ \A x \in wanted : FALSE
      BY <2>1, <2>2
    <2> QED BY <2>3, Zenon DEF out
  <1>6. CASE Holds(p, k)
    <2>1. /\ p \in Nat /\ p < count /\ count \in Nat /\ num \in Nat /\ n \in Nat
          /\ n <= num /\ n <= count - p /\ (n = num \/ n = count - p)
          /\ k \in Int /\ data[p].first = k /\ max_entries \in Nat /\ count <= max_entries
      BY <1>3, <1>4, <1>6, LeafTypes
    <2>2. \A i \in p .. count - 1 : i \in 0 .. count - 1 /\ i \in DOMAIN data /\ data[i].first \in Int
      BY <2>1, LeafTypes
    <2>3. \A i, j \in p .. count - 1 : /\ i < j => data[i].first < data[j].first
                                       /\ i <= j <=> data[i].first <= data[j].first
                                       /\ i < j <=> data[i].first < data[j].first
      <3>1. \A i, j \in p .. count - 1 : i < j => data[i].first < data[j].first
        BY <2>2 DEF LeafInv, EntriesSorted
      <3> SUFFICES ASSUME NEW i \in p .. count - 1, NEW j \in p .. count - 1
                   PROVE  /\ i <= j <=> data[i].first <= data[j].first
                          /\ i < j <=> data[i].first < data[j].first
        BY <3>1
      <3>2. i < j \/ i = j \/ j < i
        BY <2>1
      <3>3. data[i].first \in Int /\ data[j].first \in Int /\ i \in Int /\ j \in Int
        BY <2>1, <2>2
      <3>4. CASE i < j
        BY <3>1, <3>3, <3>4
      <3>5. CASE i = j
        BY <3>3, <3>5
      <3>6. CASE j < i
        BY <3>1, <3>3, <3>6
      <3> QED BY <3>2, <3>4, <3>5, <3>6
    <2>4. \A x : x \in from <=> \E i \in p .. count - 1 : x = data[i].first
      <3> TAKE x
      <3>1. x \in DOMAIN map <=> \E i \in 0 .. count - 1 : x = data[i].first
        BY DEF LeafInv, EntriesMapped
      <3>2. k \in DOMAIN map
        BY <1>4, <1>6
      <3>3. \A i \in 0 .. p - 1 : data[i].first \in Int /\ data[i].first < k
        BY <1>1, <2>1, LeafTypes DEF Splits
      <3>4. \A i \in 0 .. count - 1 : i \in 0 .. p - 1 \/ i \in p .. count - 1
        BY <2>1
      <3>5. \A i \in 0 .. count - 1 : data[i].first >= k => i \in p .. count - 1
        BY <2>1, <3>3, <3>4
      <3>6. \A i \in p .. count - 1 : data[i].first >= k
        BY <1>1 DEF Splits
      <3> QED BY <2>2, <3>1, <3>2, <3>5, <3>6
    <2> HIDE DEF from, wanted
    <2>5. \A i \in p .. count - 1 :
            /\ {y \in from : y <= data[i].first} = Keys(p, i)
            /\ {y \in from : y < data[i].first} = Keys(p, i - 1)
      <3> TAKE i \in p .. count - 1
      <3>1. \A j \in p .. count - 1 : (j \in p .. i <=> j <= i) /\ (j \in p .. i - 1 <=> j < i)
        BY <2>1
      <3>2. (\A j \in p .. i : j \in p .. count - 1) /\ (\A j \in p .. i - 1 : j \in p .. count - 1)
        BY <2>1
      <3>3. \A y : y \in {z \in from : z <= data[i].first} <=> y \in Keys(p, i)
        BY <2>3, <2>4, <3>1, <3>2
      <3>4. \A y : y \in {z \in from : z < data[i].first} <=> y \in Keys(p, i - 1)
        BY <2>3, <2>4, <3>1, <3>2
      <3> QED BY <3>3, <3>4
    <2>6. \A i \in p .. count - 1 : /\ Cardinality(Keys(p, i)) = i - p + 1
                                    /\ Cardinality(Keys(p, i - 1)) = i - p
      <3> TAKE i \in p .. count - 1
      <3>1. i \in Int /\ i < count /\ i - 1 \in Int /\ i - 1 < count /\ p <= i
        BY <2>1
      <3>2. Cardinality(Keys(p, i)) = IF p > i THEN 0 ELSE i - p + 1
        BY <2>1, <3>1, KeysCount, Zenon
      <3>3. Cardinality(Keys(p, i - 1)) = IF p > i - 1 THEN 0 ELSE i - 1 - p + 1
        BY <2>1, <3>1, KeysCount, Zenon
      <3> HIDE DEF Keys
      <3> QED BY <2>1, <3>1, <3>2, <3>3
    <2>7. \A x : x \in wanted <=> x \in from /\ Cardinality({y \in from : y <= x}) <= num
      BY DEF wanted
    <2>8. \A i \in p .. count - 1 : Cardinality({y \in from : y <= data[i].first}) <= num
                                    <=> i \in p .. p + n - 1
      <3> TAKE i \in p .. count - 1
      <3>1. Cardinality({y \in from : y <= data[i].first}) = i - p + 1
        BY <2>5, <2>6, Zenon
      <3>2. i - p + 1 <= num <=> i \in p .. p + n - 1
        BY <2>1
      <3> QED BY <3>1, <3>2
    <2>9. \A i \in p .. p + n - 1 : i \in p .. count - 1
      BY <2>1
    <2>10. \A x : x \in wanted <=> \E i \in p .. p + n - 1 : x = data[i].first
      BY <2>4, <2>7, <2>8, <2>9
    <2>11. wanted = Keys(p, p + n - 1)
      BY <2>10
    <2>12. Cardinality(wanted) = n
      <3>1. PICK b \in Int : b = p + n - 1
        BY <2>1
      <3>2. b < count
        BY <2>1, <3>1
      <3>3. Cardinality(Keys(p, b)) = IF p > b THEN 0 ELSE b - p + 1
        BY <2>1, <3>2, KeysCount, Zenon
      <3> HIDE DEF Keys
      <3> QED BY <2>1, <2>11, <3>1, <3>3
    <2>13. DOMAIN out = 0 .. n - 1 /\ \A i \in 0 .. n - 1 : out[i] = data[p + i]
      BY <1>2, <1>6
    <2>14. Cardinality(0 .. n - 1) = n
      <3>1. Cardinality(0 .. n - 1) = IF 0 > n - 1 THEN 0 ELSE n - 1 - 0 + 1
        <4>1. 0 \in Int /\ n - 1 \in Int
          BY <2>1
        <4> QED BY <4>1, FS_Interval, Zenon
      <3> QED BY <2>1, <3>1
    <2> HIDE DEF out
    <2>15. ASSUME NEW x \in wanted
           PROVE  out[Cardinality({y \in from : y < x})] = Pair(x, map[x])
      <3>1. PICK i \in p .. p + n - 1 : x = data[i].first
        BY <2>10
      <3>2. i \in p .. count - 1 /\ i \in 0 .. count - 1 /\ i \in 0 .. max_entries - 1
        BY <2>1, <2>9
      <3>3. Cardinality({y \in from : y < x}) = i - p
        BY <2>5, <2>6, <3>1, <3>2, Zenon
      <3>4. i - p \in 0 .. n - 1 /\ p + (i - p) = i
        BY <2>1
      <3>5. out[i - p] = data[i]
        BY <2>13, <3>4
      <3>6. map[x] = data[i].second
        BY <3>1, <3>2 DEF LeafInv, EntriesMapped
      <3>7. data[i] = [first |-> data[i].first, second |-> data[i].second]
        BY <3>2, LeafTypes
      <3> QED BY <3>1, <3>3, <3>5, <3>6, <3>7 DEF Pair
    <2>16. Cardinality(DOMAIN out) = Cardinality(wanted)
      BY <2>12, <2>13, <2>14
    <2> QED BY <2>15, <2>16, Zenon DEF out, from, wanted
  <1> QED BY <1>5, <1>6

-----------------------------------------------------------------------------
(* The operations of a leaf *)

LEMMA LeafInit ==
  ASSUME Init
  PROVE  LeafInv
  <1>1. data = [i \in 0 .. max_entries - 1 |-> Pair(0, NoVal)] /\ count = 0 /\ map = <<>>
    BY DEF Init, NoEntries
  <1>2. Pair(0, NoVal) \in [first : Key, second : Val \union {NoVal}]
    BY LeafAssumption DEF Pair, Key
  <1>3. data \in [0 .. max_entries - 1 -> [first : Key, second : Val \union {NoVal}]]
    BY <1>1, <1>2
  <1>4. count \in 0 .. max_entries /\ min_limit_ \in Key /\ max_limit_ \in Key \union {MaxLimit}
    BY LeafAssumption DEF Init, Key, MinLimit, MaxLimit
  <1>5. EntriesSorted /\ EntriesInside
    BY <1>1 DEF EntriesSorted, EntriesInside
  <1>6. EntriesMapped
    BY <1>1 DEF EntriesMapped
  <1> QED BY <1>3, <1>4, <1>5, <1>6 DEF LeafInv, LeafTypeOK

\* A new pair at its place: the entries behind it move up.
LEMMA OpenStep ==
  ASSUME LeafInv, NEW k \in Key, NEW v \in Val, NEW p, Splits(p, k), k \notin DOMAIN map,
         InLimits(k, min_limit_, max_limit_), count < max_entries,
         data' \in [0 .. max_entries - 1 -> [first : Key, second : Val \union {NoVal}]],
         \A i \in 0 .. count : data'[i] = IF i < p THEN data[i] ELSE IF i = p THEN Pair(k, v) ELSE data[i - 1],
         count' = count + 1, map' = Mapped(k, v), UNCHANGED <<min_limit_, max_limit_>>
  PROVE  LeafInv'
  <1>1. /\ p \in Nat /\ p <= count /\ count \in Nat /\ k \in Int /\ max_entries \in Nat
        /\ \A i \in 0 .. count - 1 : data[i].first \in Int
    BY LeafTypes DEF Splits
  <1>2. DOMAIN map = {data[i].first : i \in 0 .. count - 1} /\ \A i \in 0 .. count - 1 : map[data[i].first] = data[i].second
    BY DEF LeafInv, EntriesMapped
  <1>3. Pair(k, v).first = k /\ Pair(k, v).second = v
    BY DEF Pair
  <1>4. /\ \A i \in 0 .. p - 1 : i \in 0 .. count - 1 /\ data'[i] = data[i]
        /\ data'[p] = Pair(k, v)
        /\ \A i \in p + 1 .. count : i - 1 \in p .. count - 1 /\ i - 1 \in 0 .. count - 1 /\ data'[i] = data[i - 1]
    BY <1>1
  <1>5. \A i \in 0 .. count : i \in 0 .. p - 1 \/ i = p \/ i \in p + 1 .. count
    BY <1>1
  <1>6. \A i \in 0 .. count - 1 : data[i].first # k
    BY <1>2
  <1>7. (\A i \in 0 .. p - 1 : data[i].first < k) /\ (\A i \in p .. count - 1 : i \in 0 .. count - 1 /\ k < data[i].first)
    BY <1>1, <1>6 DEF Splits
  <1>8. count' - 1 = count
    BY <1>1
  <1>9. LeafTypeOK'
    BY <1>1 DEF LeafInv, LeafTypeOK, Key, MaxLimit
  <1>10. EntriesSorted'
    <2> SUFFICES ASSUME NEW i \in 0 .. count, NEW j \in 0 .. count, i < j
                 PROVE  data'[i].first < data'[j].first
      BY <1>8 DEF EntriesSorted
    <2>0. \A a, b \in 0 .. count - 1 : a < b => data[a].first < data[b].first
      BY DEF LeafInv, EntriesSorted
    <2>1. CASE j \in 0 .. p - 1
      <3>1. i \in 0 .. p - 1
        BY <1>1, <2>1
      <3> QED BY <1>4, <2>0, <2>1, <3>1
    <2>2. CASE j = p
      <3>1. i \in 0 .. p - 1
        BY <1>1, <2>2
      <3> QED BY <1>3, <1>4, <1>7, <2>2, <3>1
    <2>3. CASE j \in p + 1 .. count
      <3>1. data'[j].first = data[j - 1].first /\ k < data[j - 1].first /\ data[j - 1].first \in Int
        BY <1>1, <1>4, <1>7, <2>3
      <3>2. CASE i \in 0 .. p - 1
        <4>1. data'[i].first = data[i].first /\ data[i].first < k /\ data[i].first \in Int
          BY <1>1, <1>4, <1>7, <3>2
        <4> QED BY <1>1, <3>1, <4>1
      <3>3. CASE i = p
        BY <1>3, <1>4, <3>1, <3>3
      <3>4. CASE i \in p + 1 .. count
        <4>1. i - 1 < j - 1
          BY <1>1, <2>3, <3>4
        <4> QED BY <1>4, <2>0, <2>3, <3>4, <4>1
      <3> QED BY <1>5, <3>2, <3>3, <3>4
    <2> QED BY <1>5, <2>1, <2>2, <2>3
  <1>11. EntriesInside'
    <2> SUFFICES ASSUME NEW i \in 0 .. count
                 PROVE  InLimits(data'[i].first, min_limit_, max_limit_) /\ data'[i].second \in Val
      BY <1>8 DEF EntriesInside
    <2>1. \A j \in 0 .. count - 1 : InLimits(data[j].first, min_limit_, max_limit_) /\ data[j].second \in Val
      BY DEF LeafInv, EntriesInside
    <2> QED BY <1>3, <1>4, <1>5, <2>1
  <1>12. EntriesMapped'
    <2>1. /\ DOMAIN map' = DOMAIN map \union {k}
          /\ \A x \in DOMAIN map' : map'[x] = IF x = k THEN v ELSE map[x]
      BY DEF Mapped
    <2>2. ASSUME NEW i \in 0 .. count
          PROVE  data'[i].first \in DOMAIN map' /\ map'[data'[i].first] = data'[i].second
      <3>1. CASE i = p
        BY <1>3, <1>4, <2>1, <3>1
      <3>2. CASE i # p
        <4>1. PICK j \in 0 .. count - 1 : data'[i] = data[j]
          BY <1>4, <1>5, <3>2
        <4> QED BY <1>2, <1>6, <2>1, <4>1
      <3> QED BY <3>1, <3>2
    <2>3. ASSUME NEW x \in DOMAIN map'
          PROVE  \E i \in 0 .. count : x = data'[i].first
      <3>1. CASE x = k
        BY <1>1, <1>3, <1>4, <3>1
      <3>2. CASE x # k
        <4>1. PICK j \in 0 .. count - 1 : x = data[j].first
          BY <1>2, <2>1, <2>3, <3>2
        <4>2. CASE j < p
          <5>1. j \in 0 .. p - 1 /\ j \in 0 .. count
            BY <1>1, <4>2
          <5> QED BY <1>4, <4>1, <5>1
        <4>3. CASE j >= p
          <5>1. j + 1 \in p + 1 .. count /\ j + 1 \in 0 .. count /\ (j + 1) - 1 = j
            BY <1>1, <4>3
          <5> QED BY <1>4, <4>1, <5>1
        <4> QED BY <1>1, <4>2, <4>3
      <3> QED BY <3>1, <3>2
    <2>4. DOMAIN map' = {data'[i].first : i \in 0 .. count}
      <3>1. \A x : x \in DOMAIN map' <=> \E i \in 0 .. count : x = data'[i].first
        BY <2>2, <2>3
      <3> QED BY <3>1
    <2> QED BY <1>8, <2>2, <2>4 DEF EntriesMapped
  <1> QED BY <1>9, <1>10, <1>11, <1>12 DEF LeafInv

\* A new value at the position of the key.
LEMMA OverwriteStep ==
  ASSUME LeafInv, NEW k \in Key, NEW v \in Val, NEW p \in 0 .. count - 1, data[p].first = k,
         data' = [data EXCEPT ![p].second = v], count' = count, map' = Mapped(k, v),
         UNCHANGED <<min_limit_, max_limit_>>
  PROVE  LeafInv'
  <1> DEFINE N == 0 .. max_entries - 1
             E == [first : Key, second : Val \union {NoVal}]
             e == [data[p] EXCEPT !.second = v]
  <1>1. count \in Nat /\ max_entries \in Nat /\ count <= max_entries
    BY LeafTypes
  <1>2. DOMAIN data = N /\ (\A i \in N : data[i] \in E) /\ p \in N /\ \A i \in 0 .. count - 1 : i \in N
    BY <1>1, LeafTypes
  <1>3. data' = [data EXCEPT ![p] = e]
    BY Zenon
  <1>4. e \in E /\ e.first = k /\ e.second = v
    BY <1>2
  <1>5. data = [i \in N |-> data[i]]
    BY DEF LeafInv, LeafTypeOK
  <1> HIDE DEF e, N, E
  <1>6. data' \in [N -> E]
    BY <1>2, <1>3, <1>4, <1>5
  <1>7. (\A i \in N : i # p => data'[i] = data[i]) /\ data'[p] = e
    BY <1>2, <1>3
  <1>8. \A i \in 0 .. count - 1 : data'[i].first = data[i].first
    BY <1>2, <1>4, <1>7
  <1>9. LeafTypeOK'
    BY <1>6 DEF LeafInv, LeafTypeOK, Key, MaxLimit, N, E
  <1>10. EntriesSorted'
    BY <1>8 DEF LeafInv, EntriesSorted
  <1>11. EntriesInside'
    <2>1. \A i \in 0 .. count - 1 : data'[i].second \in Val
      BY <1>2, <1>4, <1>7 DEF LeafInv, EntriesInside
    <2> QED BY <1>8, <2>1 DEF LeafInv, EntriesInside
  <1>12. EntriesMapped'
    <2>1. DOMAIN map = {data[i].first : i \in 0 .. count - 1} /\ \A i \in 0 .. count - 1 : map[data[i].first] = data[i].second
      BY DEF LeafInv, EntriesMapped
    <2>2. /\ DOMAIN map' = DOMAIN map \union {k}
          /\ \A x \in DOMAIN map' : map'[x] = IF x = k THEN v ELSE map[x]
      BY DEF Mapped
    <2>3. k \in DOMAIN map
      BY <2>1
    <2>4. DOMAIN map' = {data'[i].first : i \in 0 .. count - 1}
      BY <1>8, <2>1, <2>2, <2>3
    <2>5. \A i, j \in 0 .. count - 1 : data[i].first = data[j].first => i = j
      <3> SUFFICES ASSUME NEW i \in 0 .. count - 1, NEW j \in 0 .. count - 1, data[i].first = data[j].first, i # j
                   PROVE  FALSE
        OBVIOUS
      <3>1. i < j \/ j < i
        BY <1>1
      <3>2. data[i].first \in Int /\ data[j].first \in Int
        BY <1>1, LeafTypes
      <3> QED BY <3>1, <3>2 DEF LeafInv, EntriesSorted
    <2>6. ASSUME NEW i \in 0 .. count - 1
          PROVE  map'[data'[i].first] = data'[i].second
      <3>1. CASE i = p
        BY <1>4, <1>7, <2>2, <2>3, <3>1
      <3>2. CASE i # p
        <4>1. data'[i] = data[i] /\ data[i].first # k
          BY <1>2, <1>7, <2>5, <3>2
        <4> QED BY <2>1, <2>2, <4>1
      <3> QED BY <3>1, <3>2
    <2> QED BY <2>4, <2>6 DEF EntriesMapped
  <1> QED BY <1>9, <1>10, <1>11, <1>12 DEF LeafInv

\* A step that keeps the entries and the pairs.
LEMMA LeafKept ==
  ASSUME LeafInv, data' = data, count' = count, UNCHANGED <<min_limit_, max_limit_>>,
         DOMAIN map' = DOMAIN map, \A x \in DOMAIN map : map'[x] = map[x]
  PROVE  LeafInv'
  <1>1. LeafTypeOK' /\ EntriesSorted' /\ EntriesInside'
    BY DEF LeafInv, LeafTypeOK, EntriesSorted, EntriesInside, Key, MaxLimit
  <1>2. DOMAIN map = {data[i].first : i \in 0 .. count - 1} /\ \A i \in 0 .. count - 1 : map[data[i].first] = data[i].second
    BY DEF LeafInv, EntriesMapped
  <1>3. EntriesMapped'
    BY <1>2 DEF EntriesMapped
  <1> QED BY <1>1, <1>3 DEF LeafInv

\* The entry at p goes: the entries behind it move down.
LEMMA CloseStep ==
  ASSUME LeafInv, NEW k \in Key, NEW p \in 0 .. count - 1, data[p].first = k,
         data' = Closed(p), count' = count - 1, map' = Without({k}),
         UNCHANGED <<min_limit_, max_limit_>>
  PROVE  LeafInv'
  <1> DEFINE N == 0 .. max_entries - 1
             E == [first : Key, second : Val \union {NoVal}]
             M == p .. count - 2
  <1>1. /\ count \in Nat /\ max_entries \in Nat /\ count <= max_entries /\ p \in Nat /\ p < count
        /\ \A i \in 0 .. count - 1 : data[i].first \in Int
    BY LeafTypes
  <1>2. DOMAIN data = N /\ \A i \in N : data[i] \in E
    BY LeafTypes
  <1>3. /\ p + (count - p - 1) - 1 = count - 2 /\ N \union M = N
        /\ \A i \in M : p + 1 + i - p = i + 1 /\ i + 1 \in N
    BY <1>1
  <1>4. data' = [i \in N |-> IF i \in M THEN data[i + 1] ELSE data[i]]
    <2>1. data' = [i \in N |-> IF i \in M THEN data[p + 1 + i - p] ELSE data[i]]
      BY <1>2, <1>3, Zenon DEF Closed, Moved
    <2> HIDE DEF N, M
    <2> QED BY <1>3, <2>1
  <1>5. data' \in [N -> E]
    <2> HIDE DEF N, M, E
    <2> QED BY <1>2, <1>3, <1>4
  <1>6. /\ \A i \in 0 .. p - 1 : i \in 0 .. count - 1 /\ data'[i] = data[i]
        /\ \A i \in p .. count - 2 : i + 1 \in 0 .. count - 1 /\ data'[i] = data[i + 1]
    <2>1. \A i \in 0 .. p - 1 : i \in 0 .. count - 1 /\ i \in N /\ i \notin M
      BY <1>1
    <2>2. \A i \in p .. count - 2 : i + 1 \in 0 .. count - 1 /\ i \in N
      BY <1>1
    <2> QED BY <1>4, <2>1, <2>2
  <1> HIDE DEF N, M, E
  <1>7. \A i \in 0 .. count - 2 : i \in 0 .. p - 1 \/ i \in p .. count - 2
    BY <1>1
  <1>8. count' - 1 = count - 2
    BY <1>1
  <1>9. LeafTypeOK'
    <2>1. count - 1 \in 0 .. max_entries
      BY <1>1
    <2> QED BY <1>5, <2>1 DEF LeafInv, LeafTypeOK, Key, MaxLimit, N, E
  <1>10. \A a, b \in 0 .. count - 1 : a < b => data[a].first < data[b].first
    BY DEF LeafInv, EntriesSorted
  <1>11. EntriesSorted'
    <2> SUFFICES ASSUME NEW i \in 0 .. count - 2, NEW j \in 0 .. count - 2, i < j
                 PROVE  data'[i].first < data'[j].first
      BY <1>8 DEF EntriesSorted
    <2>1. i < j + 1 /\ i + 1 < j + 1 /\ ~(i \in p .. count - 2 /\ j \in 0 .. p - 1)
      BY <1>1
    <2> QED BY <1>6, <1>7, <1>10, <2>1
  <1>12. EntriesInside'
    <2> SUFFICES ASSUME NEW i \in 0 .. count - 2
                 PROVE  InLimits(data'[i].first, min_limit_, max_limit_) /\ data'[i].second \in Val
      BY <1>8 DEF EntriesInside
    <2>1. \A j \in 0 .. count - 1 : InLimits(data[j].first, min_limit_, max_limit_) /\ data[j].second \in Val
      BY DEF LeafInv, EntriesInside
    <2> QED BY <1>6, <1>7, <2>1
  <1>13. EntriesMapped'
    <2>1. DOMAIN map = {data[i].first : i \in 0 .. count - 1} /\ \A i \in 0 .. count - 1 : map[data[i].first] = data[i].second
      BY DEF LeafInv, EntriesMapped
    <2>2. DOMAIN map' = DOMAIN map \ {k} /\ \A x \in DOMAIN map' : map'[x] = map[x]
      BY DEF Without
    <2>3. \A i \in 0 .. count - 1 : i # p => data[i].first # k
      <3> SUFFICES ASSUME NEW i \in 0 .. count - 1, i # p, data[i].first = k PROVE FALSE
        OBVIOUS
      <3>1. i < p \/ p < i
        BY <1>1
      <3>2. data[i].first \in Int /\ data[p].first \in Int
        BY <1>1
      <3> QED BY <1>10, <3>1, <3>2
    <2>4. ASSUME NEW i \in 0 .. count - 2
          PROVE  data'[i].first \in DOMAIN map' /\ map'[data'[i].first] = data'[i].second
      <3>1. PICK j \in 0 .. count - 1 : j # p /\ data'[i] = data[j]
        <4>1. i \in 0 .. p - 1 => i # p
          BY <1>1
        <4>2. i \in p .. count - 2 => i + 1 # p
          BY <1>1
        <4> QED BY <1>6, <1>7, <4>1, <4>2
      <3>2. data[j].first # k /\ data[j].first \in DOMAIN map
        BY <2>1, <2>3, <3>1
      <3>3. data[j].first \in DOMAIN map' /\ map'[data[j].first] = data[j].second
        BY <2>1, <2>2, <3>2
      <3> QED BY <3>1, <3>3
    <2>5. ASSUME NEW x \in DOMAIN map'
          PROVE  \E i \in 0 .. count - 2 : x = data'[i].first
      <3>1. PICK j \in 0 .. count - 1 : x = data[j].first
        BY <2>1, <2>2, <2>5
      <3>2. j # p
        BY <2>2, <2>5, <3>1
      <3>3. CASE j < p
        <4>1. j \in 0 .. p - 1 /\ j \in 0 .. count - 2
          BY <1>1, <3>3
        <4> QED BY <1>6, <3>1, <4>1
      <3>4. CASE j > p
        <4>1. j - 1 \in p .. count - 2 /\ j - 1 \in 0 .. count - 2 /\ (j - 1) + 1 = j
          BY <1>1, <3>4
        <4> QED BY <1>6, <3>1, <4>1
      <3> QED BY <1>1, <3>2, <3>3, <3>4
    <2>6. DOMAIN map' = {data'[i].first : i \in 0 .. count - 2}
      <3>1. \A x : x \in DOMAIN map' <=> \E i \in 0 .. count - 2 : x = data'[i].first
        BY <2>4, <2>5
      <3> QED BY <3>1
    <2> QED BY <1>8, <2>4, <2>6 DEF EntriesMapped
  <1> QED BY <1>9, <1>11, <1>12, <1>13 DEF LeafInv

LEMMA LeafRemove ==
  ASSUME LeafInv, NEW k \in Key, remove(k)
  PROVE  LeafInv'
  <1> DEFINE p == lowerBound(k)
  <1>1. /\ IF count > 0 /\ Holds(p, k) THEN data' = Closed(p) /\ count' = count - 1
           ELSE data' = data /\ count' = count
        /\ map' = Without({k}) /\ UNCHANGED <<min_limit_, max_limit_>>
    BY DEF remove
  <1>2. Splits(p, k)
    BY LeafSearch
  <1> HIDE DEF p
  <1>3. /\ Holds(p, k) <=> k \in DOMAIN map
        /\ Holds(p, k) => p \in 0 .. count - 1 /\ data[p].first = k
    BY <1>2, HoldsMapped
  <1>4. CASE Holds(p, k)
    <2>1. count > 0
      BY <1>3, <1>4, LeafTypes
    <2> QED BY <1>1, <1>3, <1>4, <2>1, CloseStep
  <1>5. CASE ~Holds(p, k)
    <2>1. DOMAIN map' = DOMAIN map /\ \A x \in DOMAIN map : map'[x] = map[x]
      BY <1>1, <1>3, <1>5 DEF Without
    <2> QED BY <1>1, <1>5, <2>1, LeafKept
  <1> QED BY <1>4, <1>5

LEMMA LeafUpdate ==
  ASSUME LeafInv, NEW k \in Key, NEW v \in Val, update(k, v)
  PROVE  LeafInv'
  <1> DEFINE p == lowerBound(k)
  <1>1. data' = IF Holds(p, k) THEN [data EXCEPT ![p].second = v] ELSE data
    BY Zenon DEF update
  <1>2. /\ map' = IF k \in DOMAIN map THEN Mapped(k, v) ELSE map
        /\ count' = count /\ UNCHANGED <<min_limit_, max_limit_>>
    BY Zenon DEF update
  <1>3. Splits(p, k)
    BY LeafSearch
  <1> HIDE DEF p
  <1>4. /\ Holds(p, k) <=> k \in DOMAIN map
        /\ Holds(p, k) => p \in 0 .. count - 1 /\ data[p].first = k
    BY <1>3, HoldsMapped
  <1>5. CASE Holds(p, k)
    <2>1. data' = [data EXCEPT ![p].second = v]
      BY <1>1, <1>5, Zenon
    <2>2. map' = Mapped(k, v) /\ p \in 0 .. count - 1 /\ data[p].first = k
      BY <1>2, <1>4, <1>5
    <2> QED BY <1>2, <2>1, <2>2, OverwriteStep, Zenon
  <1>6. CASE ~Holds(p, k)
    BY <1>1, <1>2, <1>4, <1>6, LeafKept
  <1> QED BY <1>5, <1>6

\* A leaf that is full refuses a new key, and so does the map.
LEMMA LeafInsert ==
  ASSUME LeafInv, NEW k \in Key, NEW v \in Val, InLimits(k, min_limit_, max_limit_), insert(k, v)
  PROVE  LeafInv'
  <1> DEFINE p == lowerBound(k)
             opened == [Moved(data, p + 1, data, p, count - p) EXCEPT ![p] = Pair(k, v)]
             N == 0 .. max_entries - 1
             E == [first : Key, second : Val \union {NoVal}]
  <1>1. /\ count = 0 => data' = [data EXCEPT ![0] = Pair(k, v)] /\ count' = 1
        /\ count > 0 /\ Holds(p, k) => data' = [data EXCEPT ![p].second = v] /\ count' = count
        /\ count > 0 /\ ~Holds(p, k) /\ NoRoom => data' = data /\ count' = count
        /\ count > 0 /\ ~Holds(p, k) /\ ~NoRoom => data' = opened /\ count' = count + 1
    <2>1. count \in Nat
      BY LeafTypes
    <2>2. count > 0 => count # 0
      BY <2>1
    <2>3. (CASE count = 0 -> data' = [data EXCEPT ![0] = Pair(k, v)] /\ count' = 1
             [] count > 0 /\ Holds(p, k) -> data' = [data EXCEPT ![p].second = v] /\ count' = count
             [] count > 0 /\ ~Holds(p, k) /\ NoRoom -> UNCHANGED <<data, count>>
             [] OTHER -> data' = opened /\ count' = count + 1)
      BY Zenon DEF insert
    <2> HIDE DEF p, opened
    <2> QED BY <2>2, <2>3, Zenon
  <1>2. /\ map' = IF k \in DOMAIN map \/ Cardinality(DOMAIN map) < max_entries THEN Mapped(k, v) ELSE map
        /\ UNCHANGED <<min_limit_, max_limit_>>
    BY Zenon DEF insert
  <1>3. Splits(p, k)
    BY LeafSearch
  <1> HIDE DEF p
  <1>4. /\ Holds(p, k) <=> k \in DOMAIN map
        /\ Holds(p, k) => p \in 0 .. count - 1 /\ data[p].first = k
    BY <1>3, HoldsMapped
  <1>5. /\ count \in Nat /\ max_entries \in Nat /\ max_entries > 1 /\ count <= max_entries
        /\ p \in Nat /\ p <= count
    BY <1>3, LeafTypes DEF Splits
  <1>6. DOMAIN data = N /\ (\A i \in N : data[i] \in E) /\ data = [i \in N |-> data[i]]
    BY LeafTypes DEF LeafInv, LeafTypeOK
  <1>7. Cardinality(DOMAIN map) = count
    BY LeafCount
  <1>8. Pair(k, v) \in E
    BY DEF Pair
  <1>9. CASE Holds(p, k)
    <2>1. count > 0 /\ p \in 0 .. count - 1 /\ data[p].first = k /\ map' = Mapped(k, v)
      BY <1>2, <1>4, <1>5, <1>9
    <2>2. data' = [data EXCEPT ![p].second = v] /\ count' = count
      BY <1>1, <1>9, <2>1, Zenon
    <2> QED BY <1>2, <2>1, <2>2, OverwriteStep, Zenon
  <1>10. CASE ~Holds(p, k) /\ count > 0 /\ NoRoom
    <2>1. ~(Cardinality(DOMAIN map) < max_entries)
      BY <1>5, <1>7, <1>10 DEF NoRoom
    <2>2. map' = map /\ data' = data /\ count' = count
      BY <1>1, <1>2, <1>4, <1>10, <2>1
    <2> QED BY <1>2, <2>2, LeafKept
  <1>11. CASE ~Holds(p, k) /\ (count = 0 \/ ~NoRoom)
    <2>1. count < max_entries
      BY <1>5, <1>11 DEF NoRoom
    <2>2. map' = Mapped(k, v) /\ k \notin DOMAIN map
      BY <1>2, <1>4, <1>7, <1>11, <2>1
    <2>3. /\ data' \in [N -> E] /\ count' = count + 1
          /\ \A i \in 0 .. count :
               data'[i] = IF i < p THEN data[i] ELSE IF i = p THEN Pair(k, v) ELSE data[i - 1]
      <3>1. CASE count = 0
        <4>1. data' = [data EXCEPT ![0] = Pair(k, v)] /\ count' = 1 /\ p = 0 /\ 0 \in N
          BY <1>1, <1>5, <3>1
        <4>2. data' \in [N -> E]
          <5> HIDE DEF N, E
          <5> QED BY <1>6, <1>8, <4>1
        <4>3. data'[0] = Pair(k, v)
          <5> HIDE DEF N, E
          <5> QED BY <1>6, <4>1
        <4> QED BY <3>1, <4>1, <4>2, <4>3
      <3>2. CASE count > 0
        <4> DEFINE M == p + 1 .. count
        <4>1. data' = opened /\ count' = count + 1
          BY <1>1, <1>11, <3>2
        <4>2. /\ p + 1 + (count - p) - 1 = count /\ N \union M = N
              /\ \A i \in M : p + i - (p + 1) = i - 1 /\ i - 1 \in N
          BY <1>5, <2>1
        <4>3. Moved(data, p + 1, data, p, count - p) = [i \in N |-> IF i \in M THEN data[i - 1] ELSE data[i]]
          <5>1. Moved(data, p + 1, data, p, count - p) =
                  [i \in N |-> IF i \in M THEN data[p + i - (p + 1)] ELSE data[i]]
            BY <1>6, <4>2, Zenon DEF Moved
          <5> HIDE DEF N, M
          <5> QED BY <4>2, <5>1
        <4>4. p \in N /\ \A i \in 0 .. count : i \in N /\ (i \in M <=> i > p)
          BY <1>5, <2>1
        <4> HIDE DEF N, M, E
        <4>5. data' \in [N -> E]
          BY <1>6, <1>8, <4>1, <4>2, <4>3, <4>4
        <4>6. \A i \in N : data'[i] = IF i = p THEN Pair(k, v) ELSE IF i \in M THEN data[i - 1] ELSE data[i]
          BY <4>1, <4>3, <4>4
        <4>7. \A i \in 0 .. count :
                data'[i] = IF i < p THEN data[i] ELSE IF i = p THEN Pair(k, v) ELSE data[i - 1]
          <5> TAKE i \in 0 .. count
          <5>1. i \in Int /\ p \in Int
            BY <1>5
          <5> QED BY <4>4, <4>6, <5>1
        <4> QED BY <4>1, <4>5, <4>7
      <3> QED BY <1>5, <3>1, <3>2
    <2> QED BY <1>2, <1>3, <2>1, <2>2, <2>3, OpenStep
  <1> QED BY <1>5, <1>9, <1>10, <1>11

LEMMA LeafSplit ==
  ASSUME LeafInv, NEW goOn \in {"leaf", "sibling"}, split(goOn)
  PROVE  LeafInv'
  <1> DEFINE moved == count - (count \div 2)
             stay == count - moved
             sep == data[stay - 1].first
             N == 0 .. max_entries - 1
             E == [first : Key, second : Val \union {NoVal}]
  <1>1. /\ count = max_entries
        /\ \/ /\ count' = stay /\ max_limit_' = sep
              /\ map' = Without({k \in Key : k > sep})
              /\ data' = data /\ min_limit_' = min_limit_
           \/ /\ data' = Moved(NoEntries, 0, data, stay, moved)
              /\ count' = moved /\ min_limit_' = sep /\ max_limit_' = max_limit_
              /\ map' = Without({k \in Key : k <= sep})
    BY DEF split, isFull, Sep, SiblingMax
  <1>2. /\ count \in Nat /\ max_entries \in Nat
        /\ moved \in Nat /\ moved >= 1 /\ stay \in Nat /\ stay >= 1 /\ stay + moved = count
    <2>1. count \in Nat /\ count > 1 /\ max_entries \in Nat
      BY <1>1, LeafTypes
    <2> QED BY <2>1
  <1> HIDE DEF moved, stay
  <1>3. /\ DOMAIN data = N /\ (\A i \in N : data[i] \in E)
        /\ \A i \in 0 .. count - 1 : data[i].first \in Int /\ data[i].first \in Key
        /\ \A k \in Key : k \in Int
        /\ min_limit_ \in Int /\ max_limit_ \in Int
    BY <1>1, LeafTypes
  <1>4. stay - 1 \in 0 .. count - 1 /\ sep \in Key /\ sep \in Int
    BY <1>2, <1>3
  <1>5. \A i, j \in 0 .. count - 1 : i < j => data[i].first < data[j].first
    BY DEF LeafInv, EntriesSorted
  <1>6. \A i \in 0 .. count - 1 : InLimits(data[i].first, min_limit_, max_limit_) /\ data[i].second \in Val
    BY DEF LeafInv, EntriesInside
  <1>7. DOMAIN map = {data[i].first : i \in 0 .. count - 1} /\ \A i \in 0 .. count - 1 : map[data[i].first] = data[i].second
    BY DEF LeafInv, EntriesMapped
  <1>8. /\ \A i \in 0 .. stay - 1 : i \in 0 .. count - 1 /\ data[i].first <= sep
        /\ \A i \in stay .. count - 1 : i \in 0 .. count - 1 /\ data[i].first > sep
        /\ \A i \in 0 .. count - 1 : i \in 0 .. stay - 1 \/ i \in stay .. count - 1
    <2>1. \A i \in 0 .. stay - 1 : i \in 0 .. count - 1 /\ (i = stay - 1 \/ i < stay - 1)
      BY <1>2
    <2>2. \A i \in stay .. count - 1 : i \in 0 .. count - 1 /\ stay - 1 < i
      BY <1>2
    <2>3. \A i \in 0 .. stay - 1 : data[i].first <= sep
      BY <1>3, <1>4, <1>5, <2>1
    <2>4. \A i \in stay .. count - 1 : data[i].first > sep
      BY <1>3, <1>4, <1>5, <2>2
    <2>5. \A i \in 0 .. count - 1 : i \in 0 .. stay - 1 \/ i \in stay .. count - 1
      BY <1>2
    <2> QED BY <2>1, <2>2, <2>3, <2>4, <2>5
  <1> HIDE DEF sep
  <1>9. CASE /\ count' = stay /\ max_limit_' = sep
             /\ map' = Without({k \in Key : k > sep})
             /\ data' = data /\ min_limit_' = min_limit_
    <2>1. LeafTypeOK'
      <3>1. stay \in 0 .. max_entries
        BY <1>1, <1>2
      <3> QED BY <1>4, <1>9, <3>1 DEF LeafInv, LeafTypeOK, Key, MaxLimit
    <2>2. EntriesSorted'
      BY <1>5, <1>8, <1>9 DEF EntriesSorted
    <2>3. EntriesInside'
      <3> SUFFICES ASSUME NEW i \in 0 .. stay - 1
                   PROVE  InLimits(data[i].first, min_limit_, sep) /\ data[i].second \in Val
        BY <1>9 DEF EntriesInside
      <3> QED BY <1>6, <1>8 DEF InLimits
    <2>4. DOMAIN map' = DOMAIN map \ {k \in Key : k > sep} /\ \A x \in DOMAIN map' : map'[x] = map[x]
      BY <1>9 DEF Without
    <2>5. ASSUME NEW i \in 0 .. stay - 1
          PROVE  data[i].first \in DOMAIN map' /\ map'[data[i].first] = data[i].second
      <3>1. data[i].first \in Int /\ ~(data[i].first > sep) /\ data[i].first \in DOMAIN map
        BY <1>3, <1>4, <1>7, <1>8
      <3> QED BY <1>7, <1>8, <2>4, <3>1
    <2>6. ASSUME NEW x \in DOMAIN map'
          PROVE  \E i \in 0 .. stay - 1 : x = data[i].first
      <3>1. PICK i \in 0 .. count - 1 : x = data[i].first
        BY <1>7, <2>4, <2>6
      <3>2. ~(data[i].first > sep)
        BY <1>3, <2>4, <2>6, <3>1
      <3> QED BY <1>8, <3>1, <3>2
    <2>7. EntriesMapped'
      <3>1. \A x : x \in DOMAIN map' <=> \E i \in 0 .. stay - 1 : x = data[i].first
        BY <2>5, <2>6
      <3>2. DOMAIN map' = {data[i].first : i \in 0 .. stay - 1}
        BY <3>1
      <3> QED BY <1>9, <2>5, <3>2 DEF EntriesMapped
    <2> QED BY <2>1, <2>2, <2>3, <2>7 DEF LeafInv
  <1>10. CASE /\ data' = Moved(NoEntries, 0, data, stay, moved)
              /\ count' = moved /\ min_limit_' = sep /\ max_limit_' = max_limit_
              /\ map' = Without({k \in Key : k <= sep})
    <2> DEFINE M == 0 .. moved - 1
    <2>1. /\ N \union M = N /\ 0 + moved - 1 = moved - 1
          /\ \A i \in M : stay + i - 0 = stay + i /\ stay + i \in N /\ stay + i \in stay .. count - 1 /\ i \in N
      BY <1>1, <1>2
    <2>2. DOMAIN NoEntries = N /\ \A i \in N : NoEntries[i] \in E
      <3>1. Pair(0, NoVal) \in E
        BY LeafAssumption DEF Pair, Key
      <3>2. DOMAIN NoEntries = N /\ \A i \in N : NoEntries[i] = Pair(0, NoVal)
        BY DEF NoEntries
      <3> HIDE DEF N, E
      <3> QED BY <3>1, <3>2
    <2>3. data' = [i \in N |-> IF i \in M THEN data[stay + i] ELSE NoEntries[i]]
      <3>1. data' = [i \in N |-> IF i \in M THEN data[stay + i - 0] ELSE NoEntries[i]]
        BY <1>10, <2>1, <2>2, Zenon DEF Moved
      <3> HIDE DEF N, M
      <3> QED BY <2>1, <3>1
    <2> HIDE DEF N, M, E
    <2>4. data' \in [N -> E]
      BY <1>3, <2>1, <2>2, <2>3
    <2>5. \A i \in 0 .. moved - 1 : stay + i \in stay .. count - 1 /\ data'[i] = data[stay + i]
      BY <2>1, <2>3 DEF M
    <2>6. LeafTypeOK'
      <3>1. moved \in 0 .. max_entries
        BY <1>1, <1>2
      <3> QED BY <1>4, <1>10, <2>4, <3>1 DEF LeafInv, LeafTypeOK, Key, MaxLimit, N, E
    <2>7. EntriesSorted'
      <3> SUFFICES ASSUME NEW i \in 0 .. moved - 1, NEW j \in 0 .. moved - 1, i < j
                   PROVE  data'[i].first < data'[j].first
        BY <1>10 DEF EntriesSorted
      <3>1. stay + i < stay + j
        BY <1>2
      <3> QED BY <1>5, <1>8, <2>5, <3>1
    <2>8. EntriesInside'
      <3> SUFFICES ASSUME NEW i \in 0 .. moved - 1
                   PROVE  InLimits(data'[i].first, sep, max_limit_) /\ data'[i].second \in Val
        BY <1>10 DEF EntriesInside
      <3>1. /\ data'[i] = data[stay + i] /\ data[stay + i].first > sep /\ data[stay + i].first \in Int
            /\ InLimits(data[stay + i].first, min_limit_, max_limit_) /\ data[stay + i].second \in Val
        BY <1>3, <1>6, <1>8, <2>5
      <3>2. 0 <= sep
        BY <1>4, LeafAssumption DEF Key
      <3>3. data[stay + i].first # 0
        BY <1>4, <3>1, <3>2
      <3> QED BY <3>1, <3>3 DEF InLimits
    <2>9. DOMAIN map' = DOMAIN map \ {k \in Key : k <= sep} /\ \A x \in DOMAIN map' : map'[x] = map[x]
      BY <1>10 DEF Without
    <2>10. ASSUME NEW i \in 0 .. moved - 1
           PROVE  data'[i].first \in DOMAIN map' /\ map'[data'[i].first] = data'[i].second
      <3>1. stay + i \in 0 .. count - 1 /\ data'[i] = data[stay + i] /\ data[stay + i].first > sep
        BY <1>8, <2>5
      <3>2. ~(data[stay + i].first <= sep) /\ data[stay + i].first \in DOMAIN map
        BY <1>3, <1>4, <1>7, <3>1
      <3> QED BY <1>7, <2>9, <3>1, <3>2
    <2>11. ASSUME NEW x \in DOMAIN map'
           PROVE  \E i \in 0 .. moved - 1 : x = data'[i].first
      <3>1. PICK j \in 0 .. count - 1 : x = data[j].first
        BY <1>7, <2>9, <2>11
      <3>2. ~(data[j].first <= sep)
        BY <1>3, <2>9, <2>11, <3>1
      <3>3. j \in stay .. count - 1
        BY <1>8, <3>2
      <3>4. j - stay \in 0 .. moved - 1 /\ stay + (j - stay) = j
        BY <1>2, <3>3
      <3> QED BY <2>5, <3>1, <3>4
    <2>12. EntriesMapped'
      <3>1. \A x : x \in DOMAIN map' <=> \E i \in 0 .. moved - 1 : x = data'[i].first
        BY <2>10, <2>11
      <3>2. DOMAIN map' = {data'[i].first : i \in 0 .. moved - 1}
        BY <3>1
      <3> QED BY <1>10, <2>10, <3>2 DEF EntriesMapped
    <2> QED BY <2>6, <2>7, <2>8, <2>12 DEF LeafInv
  <1> QED BY <1>1, <1>9, <1>10

LEMMA LeafNext ==
  ASSUME LeafInv, Next
  PROVE  LeafInv'
  <1>1. ASSUME NEW k \in Key, InLimits(k, min_limit_, max_limit_),
               remove(k) \/ \E v \in Val : insert(k, v) \/ update(k, v)
        PROVE  LeafInv'
    BY <1>1, LeafRemove, LeafInsert, LeafUpdate
  <1>2. ASSUME NEW goOn \in {"leaf", "sibling"}, split(goOn)
        PROVE  LeafInv'
    BY <1>2, LeafSplit
  <1> QED BY <1>1, <1>2 DEF Next

-----------------------------------------------------------------------------
(* The page *)

NodeInv ==
  /\ type \in {"leaf", "inner"}
  /\ type = "leaf" => LeafInv
  /\ type = "inner" => InnerInv

LEMMA NodeStep ==
  ASSUME NodeInv, [NodeNext]_<<vars, Inner!vars, type>>
  PROVE  NodeInv'
  <1>1. CASE type = "leaf" /\ Next /\ type' = type
    BY <1>1, LeafNext DEF NodeInv
  <1>2. CASE type = "inner" /\ Inner!Next /\ type' = type
    BY <1>2, InnerNext DEF NodeInv
  <1>3. CASE UNCHANGED <<vars, Inner!vars, type>>
    <2>1. type' = type /\ UNCHANGED Inner!vars /\ UNCHANGED <<data, count, min_limit_, max_limit_, map>>
      BY <1>3 DEF vars
    <2>2. LeafInv => LeafInv'
      BY <2>1, LeafKept
    <2>3. InnerInv => InnerInv'
      BY <2>1, InnerStutter
    <2> QED BY <2>1, <2>2, <2>3 DEF NodeInv
  <1> QED BY <1>1, <1>2, <1>3 DEF NodeNext

\* The invariant: a leaf's entries in use are the sorted pairs of its map, and an inner
\* node's keys, children and bits describe the ranges of its pages, after any sequence
\* of insert, remove, update, split, swizzling and unswizzling.
THEOREM NodeInvariant == NodeSpec => []NodeInv
  <1>1. NodeInit => NodeInv
    BY LeafInit, InnerInit DEF NodeInit, NodeInv
  <1> QED BY <1>1, NodeStep, PTL DEF NodeSpec

\* No operation of a leaf or an inner node writes outside an array or sets a bit outside
\* the word.
THEOREM NodeStaysInArrays == NodeSpec => []NodeTypeOK
  <1>1. NodeInv => NodeTypeOK
    BY DEF NodeInv, NodeTypeOK, LeafInv, InnerInv
  <1> QED BY <1>1, NodeInvariant, PTL

\* A leaf is the map the tree takes it for: BTreeLeaf's find and rangeScan, over the binary
\* search, answer every call as the map does.
THEOREM LeafIsMap == NodeSpec => []LeafAnswersMap
  <1>1. NodeInv => LeafAnswersMap
    BY LeafFinds, LeafScans DEF NodeInv, LeafAnswersMap
  <1> QED BY <1>1, NodeInvariant, PTL

\* The keys of a leaf lie within its limits, and count is the number of them.
THEOREM LeafStaysInLimits == NodeSpec => []LeafKeysWithinLimits
  <1>1. NodeInv => LeafKeysWithinLimits
    BY LeafWithinLimits DEF NodeInv, LeafKeysWithinLimits
  <1> QED BY <1>1, NodeInvariant, PTL

\* lowerBound of an inner node leads every key to the child that covers it since the
\* splits so far.
THEOREM WalksReachChild == NodeSpec => []WalkReachesChild
  <1>1. NodeInv => WalkReachesChild
    BY InnerWalks DEF NodeInv, WalkReachesChild
  <1> QED BY <1>1, NodeInvariant, PTL

\* The shifts and masks of insert, split and swizzling keep the bitmap equal to the set
\* of swizzled children.
THEOREM BitmapIsExact == NodeSpec => []BitsMarkSwizzled
  <1>1. NodeInv => BitsMarkSwizzled
    BY DEF NodeInv, BitsMarkSwizzled, InnerInv
  <1> QED BY <1>1, NodeInvariant, PTL

\* closest_set returns the nearest swizzled child, the left one of two, and never an index
\* outside the children.
THEOREM ClosestIsRight == NodeSpec => []ClosestIsNearest
  <1>1. NodeInv => ClosestIsNearest
    BY InnerClosest DEF NodeInv, ClosestIsNearest
  <1> QED BY <1>1, NodeInvariant, PTL

=============================================================================
