-------------------------- MODULE TreeContentsProofs --------------------------
(***************************************************************************)
(* Proofs about the pages of LeanStoreTree: where each one is, and that    *)
(* the copy in the backend is good whenever a clean slot is given up.      *)
(*                                                                         *)
(* The tree stands for an assignment Q of pages to the addresses alloc has *)
(* given out.  No variable holds Q: a page may be in a slot, in the        *)
(* backend, or in the hands of a split that waits for a slot, and a        *)
(* child is named by its address or by the slot that has it.  Stored(Q)    *)
(* says that every copy in the system is one of Q's pages (Page undoes the *)
(* swizzling), no page is in two slots, and a clean slot's page is in the  *)
(* backend as well.  Linked says that Q is a forest in which no page is    *)
(* named twice.  Both are needed together: that a page is never loaded     *)
(* while a slot has it (the pool's contract) holds because its one name is *)
(* then a slot number.  Each step of the tree is one of five edits of Q    *)
(* (Edit), and the invariant ContInv says that such a Q exists.            *)
(*                                                                         *)
(* The second part is about what is in the pages.  Fenced(Q) says that     *)
(* each child's limits and level are those its place in its parent gives,  *)
(* the two halves of a split together standing for the page that was       *)
(* split.  An insertion keeps it because the walk only goes to pages whose *)
(* limits hold its key (OnTheWay).  Room(Q) says that the page it stands   *)
(* on can take one more separator or entry, Spread(Q) that no key lies     *)
(* within the limits of two leaves.                                        *)
(*                                                                         *)
(* The third part is about the dictionary.  A walk goes from reference to  *)
(* reference; Proper(r) says that r leads to the copy of a page that       *)
(* counts (Holder), and Stand(k, r) is that page, or its new half if a     *)
(* split has moved k there.  A walk for k stays on pages whose limits hold *)
(* k, so it ends in the one such leaf (LeafFound, OneLeaf).  What a step   *)
(* does to the dictionary is then what its edit does to that leaf.         *)
(***************************************************************************)
EXTENDS TreeWiringProofs

-----------------------------------------------------------------------------
(* Pages as the backend stores them *)

\* The address a reference stands for, when slot s holds the page f[s].
At(r, f) == IF r \in Slot THEN f[r] ELSE r
\* The page a node is a copy of.
Page(n, f) ==
  [n EXCEPT !.kids = [i \in DOMAIN n.kids |-> At(n.kids[i], f)], !.bitmap = {}, !.parent = NoSlot]
\* A node that is such a page.
Bare(n) == Untagged(n) /\ n.parent = NoSlot
\* Everything in n and m but the way their children are named.
SameText(n, m) ==
  /\ n.type = m.type /\ n.level = m.level /\ n.data = m.data /\ n.keys = m.keys
  /\ n.lo = m.lo /\ n.hi = m.hi /\ Len(n.kids) = Len(m.kids)

\* A node is its nine fields.
LEMMA NodeFields ==
  ASSUME NEW n \in NodeT, NEW m \in NodeT, SameText(n, m), n.kids = m.kids, n.bitmap = m.bitmap,
         n.parent = m.parent
  PROVE  n = m
  BY DEF NodeT, SameText

\* Sequences are equal when their elements are.
LEMMA SeqsEqual ==
  ASSUME NEW S, NEW s \in Seq(S), NEW t \in Seq(S), Len(s) = Len(t), \A i \in 1 .. Len(s) : s[i] = t[i]
  PROVE  s = t
  OBVIOUS

\* The fields of a page.
LEMMA PageFacts ==
  ASSUME NEW n \in NodeT, NEW f \in [Slot -> Addr]
  PROVE  /\ Page(n, f) \in NodeT /\ SameText(Page(n, f), n)
         /\ Page(n, f).kids \in Seq(Addr)
         /\ \A i \in 1 .. Len(n.kids) : Page(n, f).kids[i] = At(n.kids[i], f)
         /\ Bare(Page(n, f)) /\ (Shape(n) => Shape(Page(n, f)))
  <1> DEFINE k == [i \in DOMAIN n.kids |-> At(n.kids[i], f)]
             p == Page(n, f)
  <1>1. Len(n.kids) \in Nat /\ DOMAIN n.kids = 1 .. Len(n.kids) /\ \A i \in 1 .. Len(n.kids) : n.kids[i] \in Ref
    BY NodeSeqs
  <1>2. \A i \in 1 .. Len(n.kids) : k[i] = At(n.kids[i], f) /\ k[i] \in Addr /\ k[i] \in Ref
    BY <1>1 DEF At, Ref
  <1>0. DOMAIN k = 1 .. Len(n.kids)
    BY <1>1
  <1>a. k \in [1 .. Len(n.kids) -> Addr] /\ k \in [1 .. Len(n.kids) -> Ref]
    BY <1>1, <1>2
  <1>4. p = [n EXCEPT !.kids = k, !.bitmap = {}, !.parent = NoSlot]
    BY DEF Page
  <1> HIDE DEF k, p
  <1>3. k \in Seq(Addr) /\ k \in Seq(Ref) /\ Len(k) = Len(n.kids) /\ DOMAIN k = 1 .. Len(n.kids)
    <2>1. k \in Seq(Addr)
      BY <1>1, <1>a
    <2>2. k \in Seq(Ref)
      BY <1>1, <1>a
    <2> QED BY <1>0, <1>1, <2>1, <2>2
  <1>5. /\ p \in NodeT /\ p.kids = k /\ p.bitmap = {} /\ p.parent = NoSlot
        /\ p.type = n.type /\ p.level = n.level /\ p.data = n.data /\ p.keys = n.keys
        /\ p.lo = n.lo /\ p.hi = n.hi
    BY <1>3, <1>4 DEF NodeT
  <1>6. SameText(p, n)
    BY <1>3, <1>5 DEF SameText
  <1>7. Swizzled(p) = {}
    BY <1>2, <1>3, <1>5, SlotsAreNoAddresses DEF Swizzled
  <1>8. Bare(p)
    BY <1>5, <1>7 DEF Bare, Untagged
  <1>9. ASSUME Shape(n) PROVE Shape(p)
    <2>1. Len(p.kids) = Len(n.kids)
      BY <1>3, <1>5
    <2>2. n.kids = <<>> => p.kids = <<>>
      BY <1>3, <1>5
    <2> QED BY <1>5, <1>9, <2>1, <2>2 DEF Shape
  <1> QED BY <1>2, <1>3, <1>5, <1>6, <1>8, <1>9 DEF p

\* Two nodes are copies of one page if they name the same children, swizzled or not.
LEMMA SamePage ==
  ASSUME NEW n \in NodeT, NEW m \in NodeT, NEW f \in [Slot -> Addr], NEW g \in [Slot -> Addr],
         SameText(n, m), \A i \in 1 .. Len(n.kids) : At(n.kids[i], f) = At(m.kids[i], g)
  PROVE  Page(n, f) = Page(m, g)
  <1> DEFINE p == Page(n, f)
             q == Page(m, g)
  <1>1. /\ p \in NodeT /\ SameText(p, n) /\ p.kids \in Seq(Addr) /\ Bare(p)
        /\ \A i \in 1 .. Len(n.kids) : p.kids[i] = At(n.kids[i], f)
    BY PageFacts
  <1>2. /\ q \in NodeT /\ SameText(q, m) /\ q.kids \in Seq(Addr) /\ Bare(q)
        /\ \A i \in 1 .. Len(m.kids) : q.kids[i] = At(m.kids[i], g)
    BY PageFacts
  <1> HIDE DEF p, q
  <1>3. SameText(p, q) /\ p.bitmap = q.bitmap /\ p.parent = q.parent /\ Len(p.kids) = Len(n.kids)
        /\ Len(n.kids) = Len(m.kids)
    BY <1>1, <1>2 DEF SameText, Bare, Untagged
  <1>4. \A i \in 1 .. Len(p.kids) : p.kids[i] = q.kids[i]
    BY <1>1, <1>2, <1>3
  <1>5. p.kids = q.kids
    BY <1>1, <1>2, <1>3, <1>4, SeqsEqual DEF SameText
  <1>6. p = q
    BY <1>1, <1>2, <1>3, <1>5, NodeFields
  <1> QED BY <1>6 DEF p, q

\* A page without swizzled children is stored as it is.
LEMMA BarePage ==
  ASSUME NEW n \in NodeT, Untagged(n), NEW f \in [Slot -> Addr]
  PROVE  /\ Page(n, f) = WithParent(n, NoSlot)
         /\ n.parent = NoSlot => Page(n, f) = n
  <1> DEFINE p == Page(n, f)
             w == WithParent(n, NoSlot)
  <1>1. /\ p \in NodeT /\ SameText(p, n) /\ p.kids \in Seq(Addr) /\ Bare(p)
        /\ \A i \in 1 .. Len(n.kids) : p.kids[i] = At(n.kids[i], f)
    BY PageFacts
  <1>2. /\ w \in NodeT /\ SameText(w, n) /\ w.kids = n.kids /\ w.bitmap = n.bitmap /\ w.parent = NoSlot
    BY DEF WithParent, NodeT, SameText
  <1>3. Len(n.kids) \in Nat /\ DOMAIN n.kids = 1 .. Len(n.kids) /\ n.kids \in Seq(Ref)
    BY NodeSeqs DEF NodeT
  <1>4. \A i \in 1 .. Len(n.kids) : At(n.kids[i], f) = n.kids[i]
    BY <1>3 DEF At, Untagged, Swizzled
  <1> HIDE DEF p, w
  <1>5. p.kids \in Seq(Ref)
    BY <1>1 DEF NodeT
  <1>6. Len(p.kids) = Len(n.kids) /\ \A i \in 1 .. Len(p.kids) : p.kids[i] = n.kids[i]
    BY <1>1, <1>4 DEF SameText
  <1>7. p.kids = n.kids
    BY <1>3, <1>5, <1>6, SeqsEqual
  <1>8. p = w
    <2>1. SameText(p, w) /\ p.bitmap = w.bitmap /\ p.parent = w.parent
      BY <1>1, <1>2 DEF SameText, Bare, Untagged
    <2> QED BY <1>1, <1>2, <1>7, <2>1, NodeFields
  <1>9. n.parent = NoSlot => w = n
    BY <1>2, NodeFields
  <1> QED BY <1>8, <1>9 DEF p, w

\* The parent pointer is no part of the page.
LEMMA PageWithParent ==
  ASSUME NEW n \in NodeT, NEW p \in Slot \union {NoSlot, Super}, NEW f \in [Slot -> Addr]
  PROVE  Page(WithParent(n, p), f) = Page(n, f)
  <1> DEFINE w == WithParent(n, p)
  <1>1. w \in NodeT /\ SameText(w, n) /\ w.kids = n.kids
    BY DEF WithParent, NodeT, SameText
  <1> HIDE DEF w
  <1>2. \A i \in 1 .. Len(w.kids) : At(w.kids[i], f) = At(n.kids[i], f)
    BY <1>1
  <1>3. Page(w, f) = Page(n, f)
    BY <1>1, <1>2, SamePage
  <1> QED BY <1>3 DEF w

\* Which slot a child that is not referred to holds does not matter.
LEMMA PageMoved ==
  ASSUME NEW n \in NodeT, NEW f \in [Slot -> Addr], NEW g \in [Slot -> Addr],
         \A c \in Swizzled(n) : f[c] = g[c]
  PROVE  Page(n, f) = Page(n, g)
  <1>1. SameText(n, n)
    BY DEF SameText
  <1>2. DOMAIN n.kids = 1 .. Len(n.kids)
    BY NodeSeqs
  <1>3. \A i \in 1 .. Len(n.kids) : At(n.kids[i], f) = At(n.kids[i], g)
    BY <1>2 DEF At, Swizzled
  <1> QED BY <1>1, <1>3, SamePage

\* Swizzling and unswizzling a child leave the page as it is.
LEMMA PageSwizzle ==
  ASSUME NEW n \in NodeT, NEW f \in [Slot -> Addr], NEW i \in DOMAIN n.kids, NEW r \in Ref,
         At(r, f) = At(n.kids[i], f)
  PROVE  Page(Swizzle(n, i, r), f) = Page(n, f) /\ Page(Unswizzle(n, i, r), f) = Page(n, f)
  <1>0. DOMAIN n.kids = 1 .. Len(n.kids) /\ n.kids \in Seq(Ref) /\ Len(n.kids) \in Nat
    BY NodeSeqs DEF NodeT
  <1>1. ASSUME NEW q \in NodeT, q.kids = [n.kids EXCEPT ![i] = r], q.type = n.type, q.level = n.level,
               q.data = n.data, q.keys = n.keys, q.lo = n.lo, q.hi = n.hi
        PROVE  Page(q, f) = Page(n, f)
    <2>1. Len(q.kids) = Len(n.kids)
      BY <1>0, <1>1
    <2>2. SameText(q, n)
      BY <1>1, <2>1 DEF SameText
    <2>3. \A j \in 1 .. Len(q.kids) : At(q.kids[j], f) = At(n.kids[j], f)
      BY <1>0, <1>1, <2>1
    <2> QED BY <2>2, <2>3, SamePage
  <1>2. /\ Swizzle(n, i, r) \in NodeT /\ Unswizzle(n, i, r) \in NodeT
        /\ Swizzle(n, i, r).kids = [n.kids EXCEPT ![i] = r]
        /\ Unswizzle(n, i, r).kids = [n.kids EXCEPT ![i] = r]
    BY NodeEdits
  <1>3. LET q == Swizzle(n, i, r) IN
        q.type = n.type /\ q.level = n.level /\ q.data = n.data /\ q.keys = n.keys /\ q.lo = n.lo /\ q.hi = n.hi
    BY DEF Swizzle, NodeT
  <1>4. LET q == Unswizzle(n, i, r) IN
        q.type = n.type /\ q.level = n.level /\ q.data = n.data /\ q.keys = n.keys /\ q.lo = n.lo /\ q.hi = n.hi
    BY DEF Unswizzle, NodeT
  <1>5. Page(Swizzle(n, i, r), f) = Page(n, f)
    BY <1>1, <1>2, <1>3
  <1>6. Page(Unswizzle(n, i, r), f) = Page(n, f)
    BY <1>1, <1>2, <1>4
  <1> QED BY <1>5, <1>6

\* The entries of a leaf.
LEMMA PageEntries ==
  ASSUME NEW n \in NodeT, NEW q \in NodeT, SameFrame(q, n), NEW f \in [Slot -> Addr]
  PROVE  Page(q, f) = [Page(n, f) EXCEPT !.data = q.data]
  <1> DEFINE p == Page(n, f)
             e == [p EXCEPT !.data = q.data]
             z == Page(q, f)
  <1>1. p \in NodeT /\ SameText(p, n) /\ Bare(p) /\ p.kids \in Seq(Addr)
        /\ \A i \in 1 .. Len(n.kids) : p.kids[i] = At(n.kids[i], f)
    BY PageFacts
  <1>2. z \in NodeT /\ SameText(z, q) /\ Bare(z) /\ z.kids \in Seq(Addr)
        /\ \A i \in 1 .. Len(q.kids) : z.kids[i] = At(q.kids[i], f)
    BY PageFacts
  <1> HIDE DEF p, z
  <1>3. /\ e \in NodeT /\ e.data = q.data /\ e.type = p.type /\ e.level = p.level /\ e.keys = p.keys
        /\ e.kids = p.kids /\ e.lo = p.lo /\ e.hi = p.hi /\ e.bitmap = p.bitmap /\ e.parent = p.parent
    BY <1>1 DEF NodeT
  <1>4. z.kids = p.kids
    <2>1. q.kids = n.kids /\ Len(z.kids) = Len(p.kids) /\ Len(z.kids) = Len(n.kids)
      BY <1>1, <1>2 DEF SameText, SameFrame
    <2>2. \A i \in 1 .. Len(z.kids) : z.kids[i] = p.kids[i]
      BY <1>1, <1>2, <2>1
    <2> QED BY <1>1, <1>2, <2>1, <2>2, SeqsEqual
  <1> HIDE DEF e
  <1>5. SameText(z, e) /\ z.bitmap = e.bitmap /\ z.parent = e.parent /\ z.kids = e.kids
    BY <1>1, <1>2, <1>3, <1>4 DEF SameText, SameFrame, Bare, Untagged
  <1>6. z = e
    BY <1>2, <1>3, <1>5, NodeFields
  <1> QED BY <1>6 DEF z, e, p

-----------------------------------------------------------------------------
(* What splits do to pages *)

\* The children of q are those of l and then those of r; m stay.
KidsHalved(q, l, r, m) ==
  /\ Len(l.kids) = m /\ \A i \in 1 .. m : l.kids[i] = q.kids[i]
  /\ Len(r.kids) = Len(q.kids) - m /\ \A i \in 1 .. Len(q.kids) - m : r.kids[i] = q.kids[m + i]
KeysHalved(q, l, r, m) ==
  /\ Len(l.keys) = m - 1 /\ \A i \in 1 .. m - 1 : l.keys[i] = q.keys[i]
  /\ Len(r.keys) = Len(q.keys) - m /\ \A i \in 1 .. Len(q.keys) - m : r.keys[i] = q.keys[m + i]
DataHalved(q, l, r, k) ==
  /\ k \in DOMAIN q.data /\ \E j \in DOMAIN q.data : j > k
  /\ l.data = Restrict(q.data, {j \in DOMAIN q.data : j <= k})
  /\ r.data = Restrict(q.data, {j \in DOMAIN q.data : j > k})
\* The page q is split at k into l and r.
SplitPage(q, l, r, k) ==
  /\ l.type = q.type /\ r.type = q.type /\ l.level = q.level
  /\ r.level = IF q.type = "leaf" THEN 0 ELSE q.level
  /\ l.lo = q.lo /\ l.hi = k /\ r.lo = k /\ r.hi = q.hi
  /\ \/ q.type = "leaf" /\ KidsHalved(q, l, r, 0) /\ DataHalved(q, l, r, k)
     \/ /\ q.type = "inner" /\ Len(q.keys) = InnerFull
        /\ \E m \in 1 .. Len(q.keys) - 1 :
             k = q.keys[m] /\ KidsHalved(q, l, r, m) /\ KeysHalved(q, l, r, m)
\* The page q gets the separator k and, behind the child that was split, the child b.
LinkPage(q, p, k, b) ==
  /\ p.type = q.type /\ p.level = q.level /\ p.lo = q.lo /\ p.hi = q.hi
  /\ lowerBound(q, k) \in 1 .. Len(q.kids)
  /\ Inserted(p.keys, q.keys, lowerBound(q, k), k)
  /\ Inserted(p.kids, q.kids, lowerBound(q, k) + 1, b)
\* A root over the halves a and b.
RootPage(p, lv, k, a, b) ==
  /\ p.type = "inner" /\ p.level = lv /\ p.lo = MinLimit /\ p.hi = MaxLimit
  /\ p.keys = <<k>> /\ p.kids = <<a, b>>

\* BTreeInner::split splits the page.
LEMMA InnerSplitsPage ==
  ASSUME NEW n \in NodeT, n.type = "inner", isFull(n), Shape(n), NEW f \in [Slot -> Addr]
  PROVE  SplitPage(Page(n, f), Page(InnerLeft(n), f), Page(InnerRight(n), f), InnerSep(n))
  <1> DEFINE q == Page(n, f)
             l == Page(InnerLeft(n), f)
             r == Page(InnerRight(n), f)
             m == Stay(n)
  <1>1. /\ InnerLeft(n) \in NodeT /\ InnerRight(n) \in NodeT
        /\ m \in 1 .. Len(n.keys) - 1 /\ InnerSep(n) \in Key /\ Len(n.keys) = InnerFull
        /\ InnerLeft(n).type = "inner" /\ InnerLeft(n).level = n.level
        /\ InnerLeft(n).lo = n.lo /\ InnerLeft(n).hi = InnerSep(n)
        /\ InnerRight(n).type = "inner" /\ InnerRight(n).level = n.level
        /\ InnerRight(n).lo = InnerSep(n) /\ InnerRight(n).hi = n.hi
    BY InnerHalves
  <1>2. /\ Len(InnerLeft(n).keys) = m - 1 /\ Len(InnerLeft(n).kids) = m
        /\ \A i \in 1 .. m - 1 : InnerLeft(n).keys[i] = n.keys[i]
        /\ \A i \in 1 .. m : InnerLeft(n).kids[i] = n.kids[i]
        /\ Len(InnerRight(n).keys) = Len(n.keys) - m
        /\ Len(InnerRight(n).kids) = Len(n.kids) - m
        /\ \A i \in 1 .. Len(n.keys) - m : InnerRight(n).keys[i] = n.keys[m + i]
        /\ \A i \in 1 .. Len(n.kids) - m : InnerRight(n).kids[i] = n.kids[m + i]
    BY InnerHalves
  <1>3. SameText(q, n) /\ \A i \in 1 .. Len(n.kids) : q.kids[i] = At(n.kids[i], f)
    BY PageFacts
  <1>4. SameText(l, InnerLeft(n)) /\ \A i \in 1 .. m : l.kids[i] = At(InnerLeft(n).kids[i], f)
    BY <1>1, <1>2, PageFacts
  <1>5. /\ SameText(r, InnerRight(n))
        /\ \A i \in 1 .. Len(n.kids) - m : r.kids[i] = At(InnerRight(n).kids[i], f)
    BY <1>1, <1>2, PageFacts
  <1>6. InnerSep(n) = n.keys[m]
    BY DEF InnerSep
  <1>7. Len(n.keys) \in Nat /\ Len(n.kids) = Len(n.keys) + 1 /\ m \in Nat
    BY <1>1, NodeSeqs DEF Shape
  <1> HIDE DEF q, l, r, m
  <1>8. KidsHalved(q, l, r, m)
    <2>1. Len(l.kids) = m /\ Len(q.kids) = Len(n.kids) /\ Len(r.kids) = Len(n.kids) - m
      BY <1>2, <1>3, <1>4, <1>5 DEF SameText
    <2>2. \A i \in 1 .. m : l.kids[i] = q.kids[i]
      <3> SUFFICES ASSUME NEW i \in 1 .. m PROVE l.kids[i] = q.kids[i]
        OBVIOUS
      <3>1. i \in 1 .. Len(n.kids)
        BY <1>1, <1>7
      <3> QED BY <1>2, <1>3, <1>4, <3>1
    <2>3. \A i \in 1 .. Len(n.kids) - m : r.kids[i] = q.kids[m + i]
      <3> SUFFICES ASSUME NEW i \in 1 .. Len(n.kids) - m PROVE r.kids[i] = q.kids[m + i]
        OBVIOUS
      <3>1. m + i \in 1 .. Len(n.kids)
        BY <1>1, <1>7
      <3>2. q.kids[m + i] = At(n.kids[m + i], f)
        BY <1>3, <3>1
      <3>3. InnerRight(n).kids[i] = n.kids[m + i]
        BY <1>2
      <3>4. r.kids[i] = At(InnerRight(n).kids[i], f)
        BY <1>5
      <3> QED BY <3>2, <3>3, <3>4
    <2> QED BY <2>1, <2>2, <2>3 DEF KidsHalved
  <1>9. KeysHalved(q, l, r, m)
    <2>1. q.keys = n.keys /\ l.keys = InnerLeft(n).keys /\ r.keys = InnerRight(n).keys
      BY <1>3, <1>4, <1>5 DEF SameText
    <2> QED BY <1>2, <2>1 DEF KeysHalved
  <1>10. /\ q.type = "inner" /\ l.type = "inner" /\ r.type = "inner" /\ l.level = q.level /\ r.level = q.level
         /\ l.lo = q.lo /\ l.hi = InnerSep(n) /\ r.lo = InnerSep(n) /\ r.hi = q.hi /\ q.keys = n.keys
    BY <1>1, <1>3, <1>4, <1>5 DEF SameText
  <1>11. SplitPage(q, l, r, InnerSep(n))
    BY <1>1, <1>6, <1>8, <1>9, <1>10 DEF SplitPage
  <1> QED BY <1>11 DEF q, l, r

\* BTreeLeaf::split splits the page.
LEMMA LeafSplitsPage ==
  ASSUME NEW n \in NodeT, n.type = "leaf", isFull(n), Shape(n), NEW f \in [Slot -> Addr]
  PROVE  /\ SplitPage(Page(n, f), Page(LeafLeft(n), f), LeafRight(n), LeafSep(n))
         /\ Untagged(LeafRight(n)) /\ Shape(LeafRight(n)) /\ LeafRight(n) \in NodeT /\ LeafSep(n) \in Key
         /\ LeafRight(n).parent = NoSlot
  <1> DEFINE q == Page(n, f)
             l == Page(LeafLeft(n), f)
             r == LeafRight(n)
             k == LeafSep(n)
  <1>1. /\ LeafLeft(n) \in NodeT /\ LeafRight(n) \in NodeT
        /\ LeafLeft(n).type = "leaf" /\ LeafLeft(n).level = n.level /\ LeafLeft(n).keys = n.keys
        /\ LeafLeft(n).kids = n.kids /\ LeafLeft(n).bitmap = n.bitmap
        /\ LeafLeft(n).parent = n.parent /\ LeafLeft(n).lo = n.lo /\ LeafLeft(n).hi = LeafSep(n)
        /\ LeafLeft(n).data = Restrict(n.data, LowerKeys(n))
    BY LeafHalves
  <1>2. /\ r.type = "leaf" /\ r.level = 0 /\ r.keys = <<>>
        /\ r.kids = <<>> /\ r.bitmap = {}
        /\ r.parent = NoSlot /\ r.lo = LeafSep(n) /\ r.hi = n.hi
        /\ r.data = Restrict(n.data, DOMAIN n.data \ LowerKeys(n))
    BY LeafHalves
  <1>3. Cardinality(DOMAIN n.data) = LeafMax
    BY DEF isFull
  <1>4. /\ LowerKeys(n) \in SUBSET DOMAIN n.data
        /\ LeafSep(n) \in LowerKeys(n) /\ LeafSep(n) \in Key
        /\ \A j \in LowerKeys(n) : j <= LeafSep(n)
        /\ \A j \in DOMAIN n.data \ LowerKeys(n) : j > LeafSep(n)
        /\ \E j \in DOMAIN n.data : j > LeafSep(n)
    BY <1>3, LeafSepFacts
  <1>5. n.kids = <<>>
    BY DEF Shape
  <1>6. SameText(q, n)
    BY PageFacts
  <1>7. SameText(l, LeafLeft(n))
    BY <1>1, PageFacts
  <1>8. DOMAIN n.data \in SUBSET Key
    BY DataOps DEF NodeT
  <1>9. \A j \in Key : j \in Int
    BY TreeAssumption DEF Key
  <1> HIDE DEF q, l, r, k
  <1>10. LowerKeys(n) = {j \in DOMAIN n.data : j <= k}
    <2>1. \A j \in DOMAIN n.data : j \in LowerKeys(n) <=> j <= k
      BY <1>4, <1>8, <1>9 DEF k
    <2> QED BY <1>4, <2>1
  <1>11. DOMAIN n.data \ LowerKeys(n) = {j \in DOMAIN n.data : j > k}
    <2>1. \A j \in DOMAIN n.data : j \notin LowerKeys(n) <=> j > k
      BY <1>4, <1>8, <1>9 DEF k
    <2> QED BY <2>1
  <1>12. q.data = n.data /\ l.data = LeafLeft(n).data
    BY <1>6, <1>7 DEF SameText
  <1>13. DataHalved(q, l, r, k)
    <2>1. k \in DOMAIN q.data /\ \E j \in DOMAIN q.data : j > k
      BY <1>4, <1>12 DEF k
    <2>2. l.data = Restrict(q.data, {j \in DOMAIN q.data : j <= k})
      BY <1>1, <1>10, <1>12
    <2>3. r.data = Restrict(q.data, {j \in DOMAIN q.data : j > k})
      BY <1>2, <1>11, <1>12
    <2> QED BY <2>1, <2>2, <2>3 DEF DataHalved
  <1>14. KidsHalved(q, l, r, 0)
    <2>1. Len(q.kids) = 0 /\ Len(l.kids) = 0 /\ Len(r.kids) = 0
      BY <1>1, <1>2, <1>5, <1>6, <1>7 DEF SameText
    <2> QED BY <2>1 DEF KidsHalved
  <1>15. SplitPage(q, l, r, k)
    <2>1. /\ l.type = q.type /\ r.type = q.type /\ l.level = q.level /\ q.type = "leaf"
          /\ l.lo = q.lo /\ l.hi = k /\ r.lo = k /\ r.hi = q.hi /\ r.level = 0
      BY <1>1, <1>2, <1>6, <1>7 DEF SameText, k
    <2> QED BY <1>13, <1>14, <2>1 DEF SplitPage
  <1>16. Untagged(r) /\ Shape(r)
    BY <1>2 DEF Untagged, Shape, Swizzled
  <1> QED BY <1>1, <1>2, <1>4, <1>15, <1>16 DEF q, l, r, k

\* BTreeInner::insert links a page.
LEMMA InsertLinksPage ==
  ASSUME NEW n \in NodeT, n.type = "inner", Shape(n), NEW k \in Key, NEW r \in Ref, NEW f \in [Slot -> Addr]
  PROVE  LinkPage(Page(n, f), Page(InnerInsert(n, k, r), f), k, At(r, f)) /\ InnerInsert(n, k, r) \in NodeT
  <1> DEFINE q == Page(n, f)
             x == InnerInsert(n, k, r)
             p == Page(x, f)
             pos == lowerBound(n, k)
  <1>1. /\ x \in NodeT /\ pos \in 1 .. Len(n.keys) + 1
        /\ x.type = "inner" /\ x.level = n.level /\ x.lo = n.lo /\ x.hi = n.hi
        /\ Inserted(x.keys, n.keys, pos, k) /\ Inserted(x.kids, n.kids, pos + 1, r)
    BY InnerInsertFacts
  <1>2. SameText(q, n) /\ \A i \in 1 .. Len(n.kids) : q.kids[i] = At(n.kids[i], f)
    BY PageFacts
  <1> HIDE DEF x
  <1>3. SameText(p, x) /\ \A i \in 1 .. Len(x.kids) : p.kids[i] = At(x.kids[i], f)
    BY <1>1, PageFacts
  <1>4. Len(n.kids) = Len(n.keys) + 1 /\ Len(n.kids) \in Nat
    BY NodeSeqs DEF Shape
  <1>5. lowerBound(q, k) = pos
    <2>1. q.keys = n.keys
      BY <1>2 DEF SameText
    <2> QED BY <2>1 DEF lowerBound
  <1> HIDE DEF q, p, pos
  <1>6. Inserted(p.kids, q.kids, pos + 1, At(r, f))
    <2>1. Len(x.kids) = Len(n.kids) + 1 /\ Len(p.kids) = Len(x.kids) /\ Len(q.kids) = Len(n.kids)
      BY <1>1, <1>2, <1>3 DEF Inserted, SameText
    <2> SUFFICES ASSUME NEW j \in 1 .. Len(n.kids) + 1
                 PROVE  p.kids[j] = IF j < pos + 1 THEN q.kids[j]
                                    ELSE IF j = pos + 1 THEN At(r, f) ELSE q.kids[j - 1]
      BY <2>1 DEF Inserted
    <2>2. x.kids[j] = IF j < pos + 1 THEN n.kids[j] ELSE IF j = pos + 1 THEN r ELSE n.kids[j - 1]
      BY <1>1 DEF Inserted
    <2>3. p.kids[j] = At(x.kids[j], f)
      BY <1>3, <2>1
    <2>4. CASE j < pos + 1
      <3>1. j \in 1 .. Len(n.kids)
        BY <1>1, <1>4, <2>4
      <3> QED BY <1>2, <2>2, <2>3, <2>4, <3>1
    <2>5. CASE j = pos + 1
      BY <1>1, <2>2, <2>3, <2>5
    <2>6. CASE j > pos + 1
      <3>1. j - 1 \in 1 .. Len(n.kids) /\ ~(j < pos + 1) /\ j # pos + 1
        BY <1>1, <1>4, <2>6
      <3> QED BY <1>2, <2>2, <2>3, <3>1
    <2> QED BY <1>1, <1>4, <2>4, <2>5, <2>6
  <1>7. Inserted(p.keys, q.keys, pos, k)
    <2>1. p.keys = x.keys /\ q.keys = n.keys
      BY <1>2, <1>3 DEF SameText
    <2> QED BY <1>1, <2>1
  <1>8. LinkPage(q, p, k, At(r, f))
    <2>1. p.type = q.type /\ p.level = q.level /\ p.lo = q.lo /\ p.hi = q.hi /\ Len(q.kids) = Len(n.kids)
      BY <1>1, <1>2, <1>3 DEF SameText
    <2>2. pos \in 1 .. Len(q.kids)
      BY <1>1, <1>4, <2>1
    <2> QED BY <1>5, <1>6, <1>7, <2>1, <2>2 DEF LinkPage
  <1> QED BY <1>1, <1>8 DEF q, p, x

\* make_new_root fills a root page.
LEMMA NewRootPage ==
  ASSUME NEW lv \in Nat, NEW k \in Key, NEW c \in Slot, NEW r \in Ref, c # r, NEW f \in [Slot -> Addr]
  PROVE  LET n == Inner(lv, <<k>>, <<c, r>>, {1} \union (IF r \in Slot THEN {2} ELSE {}),
                        MinLimit, MaxLimit)
         IN n \in NodeT /\ RootPage(Page(n, f), lv, k, At(c, f), At(r, f)) /\ n.kids = <<c, r>>
  <1> DEFINE n == Inner(lv, <<k>>, <<c, r>>, {1} \union (IF r \in Slot THEN {2} ELSE {}),
                        MinLimit, MaxLimit)
             p == Page(n, f)
             w == <<At(c, f), At(r, f)>>
  <1>1. n \in NodeT
    BY RootNode
  <1>2. /\ n.type = "inner" /\ n.level = lv /\ n.keys = <<k>> /\ n.kids = <<c, r>>
        /\ n.lo = MinLimit /\ n.hi = MaxLimit
    BY DEF Inner
  <1> HIDE DEF n
  <1>3. SameText(p, n) /\ p.kids \in Seq(Addr) /\ \A i \in 1 .. Len(n.kids) : p.kids[i] = At(n.kids[i], f)
    BY <1>1, PageFacts
  <1>4. Len(n.kids) = 2 /\ n.kids[1] = c /\ n.kids[2] = r
    BY <1>2
  <1> HIDE DEF p
  <1>5. Len(p.kids) = 2 /\ p.kids[1] = At(c, f) /\ p.kids[2] = At(r, f)
    BY <1>3, <1>4 DEF SameText
  <1>6. At(c, f) \in Addr /\ At(r, f) \in Addr
    BY DEF At, Ref
  <1>7. w \in Seq(Addr) /\ Len(w) = 2 /\ w[1] = At(c, f) /\ w[2] = At(r, f)
    BY <1>6
  <1> HIDE DEF w
  <1>8. p.kids = w
    <2>1. \A i \in 1 .. Len(w) : p.kids[i] = w[i]
      <3> SUFFICES ASSUME NEW i \in 1 .. 2 PROVE p.kids[i] = w[i]
        BY <1>7
      <3>1. i = 1 \/ i = 2
        OBVIOUS
      <3> QED BY <1>5, <1>7, <3>1
    <2> QED BY <1>3, <1>5, <1>7, <2>1, SeqsEqual
  <1>9. RootPage(p, lv, k, At(c, f), At(r, f))
    BY <1>2, <1>3, <1>8 DEF SameText, RootPage, w
  <1> QED BY <1>1, <1>2, <1>9 DEF n, p

-----------------------------------------------------------------------------
(* The pages of the tree, as the backend would hold them *)

\* Every page of L is named at most once, by a page of L, and neither the root z
\* nor the half H of a split that its parent does not know of yet is named.
Linked(Q, L, z, H) ==
  /\ z \in L /\ H \subseteq L \ {z}
  /\ \A a \in L : \A i \in 1 .. Len(Q[a].kids) : Q[a].kids[i] \in L \ (H \union {z})
  /\ \A a, b \in L : \A i \in 1 .. Len(Q[a].kids), j \in 1 .. Len(Q[b].kids) :
       Q[a].kids[i] = Q[b].kids[j] => a = b /\ i = j

\* No page is named twice.
LEMMA NamedOnce ==
  ASSUME NEW Q, NEW L, NEW z, NEW H, Linked(Q, L, z, H), NEW a \in L, NEW b \in L,
         NEW i \in 1 .. Len(Q[a].kids), NEW j \in 1 .. Len(Q[b].kids), Q[a].kids[i] = Q[b].kids[j]
  PROVE  a = b /\ i = j
  BY DEF Linked

\* A split page is a new page, not named yet.
LEMMA SplitLinked ==
  ASSUME NEW Q \in [Addr -> NodeT], NEW P \in [Addr -> NodeT], NEW L \in SUBSET Addr, NEW z,
         Linked(Q, L, z, {}), NEW x \in L, NEW y \in Addr \ L, NEW m \in 0 .. Len(Q[x].kids),
         KidsHalved(Q[x], P[x], P[y], m),
         \A a \in Addr \ {x, y} : P[a] = Q[a]
  PROVE  Linked(P, L \union {y}, z, {y})
  <1> DEFINE Src(a) == IF a = y THEN x ELSE a
             Off(a) == IF a = y THEN m ELSE 0
  <1>1. Len(Q[x].kids) \in Nat /\ m \in Nat /\ m <= Len(Q[x].kids)
    BY NodeSeqs
  <1>2. \A a \in L \union {y} : \A i \in 1 .. Len(P[a].kids) :
          /\ Src(a) \in L /\ i \in Nat
          /\ Off(a) + i \in 1 .. Len(Q[Src(a)].kids) /\ P[a].kids[i] = Q[Src(a)].kids[Off(a) + i]
    <2> SUFFICES ASSUME NEW a \in L \union {y}, NEW i \in 1 .. Len(P[a].kids)
                 PROVE  /\ Src(a) \in L /\ i \in Nat
                        /\ Off(a) + i \in 1 .. Len(Q[Src(a)].kids)
                        /\ P[a].kids[i] = Q[Src(a)].kids[Off(a) + i]
      OBVIOUS
    <2>1. CASE a = y
      <3>1. Len(P[y].kids) = Len(Q[x].kids) - m /\ P[y].kids[i] = Q[x].kids[m + i]
        BY <2>1 DEF KidsHalved
      <3>2. m + i \in 1 .. Len(Q[x].kids)
        BY <1>1, <2>1, <3>1
      <3> QED BY <2>1, <3>1, <3>2
    <2>2. CASE a = x
      <3>0. a # y
        BY <2>2
      <3>1. Len(P[x].kids) = m /\ P[x].kids[i] = Q[x].kids[i]
        BY <2>2 DEF KidsHalved
      <3>2. i \in 1 .. Len(Q[x].kids) /\ 0 + i = i
        BY <1>1, <2>2, <3>1
      <3> QED BY <2>2, <3>0, <3>1, <3>2
    <2>3. CASE a # x /\ a # y
      <3>1. P[a] = Q[a] /\ a \in L /\ 0 + i = i
        BY <2>3
      <3> QED BY <2>3, <3>1
    <2> QED BY <2>1, <2>2, <2>3
  <1>3. \A a \in L : a # y
    OBVIOUS
  <1>4. z \in L \union {y} /\ {y} \subseteq (L \union {y}) \ {z}
    BY DEF Linked
  <1>5. ASSUME NEW a \in L \union {y}, NEW i \in 1 .. Len(P[a].kids)
        PROVE  P[a].kids[i] \in (L \union {y}) \ ({y} \union {z})
    <2>1. Q[Src(a)].kids[Off(a) + i] \in L \ {z}
      BY <1>2 DEF Linked
    <2> QED BY <1>2, <2>1
  <1>6. ASSUME NEW a \in L \union {y}, NEW b \in L \union {y},
               NEW i \in 1 .. Len(P[a].kids), NEW j \in 1 .. Len(P[b].kids),
               P[a].kids[i] = P[b].kids[j]
        PROVE  a = b /\ i = j
    <2>1. Src(a) = Src(b) /\ Off(a) + i = Off(b) + j
      <3>1. /\ Src(a) \in L /\ Off(a) + i \in 1 .. Len(Q[Src(a)].kids)
            /\ P[a].kids[i] = Q[Src(a)].kids[Off(a) + i]
        BY <1>2
      <3>2. /\ Src(b) \in L /\ Off(b) + j \in 1 .. Len(Q[Src(b)].kids)
            /\ P[b].kids[j] = Q[Src(b)].kids[Off(b) + j]
        BY <1>2
      <3>3. PICK c, g : c = Src(a) /\ g = Off(a) + i
        OBVIOUS
      <3>4. PICK d, h : d = Src(b) /\ h = Off(b) + j
        OBVIOUS
      <3>5. /\ c \in L /\ g \in 1 .. Len(Q[c].kids) /\ P[a].kids[i] = Q[c].kids[g]
            /\ d \in L /\ h \in 1 .. Len(Q[d].kids) /\ P[b].kids[j] = Q[d].kids[h]
        BY <3>1, <3>2, <3>3, <3>4
      <3>a. Q[c].kids[g] = Q[d].kids[h]
        BY <1>6, <3>5
      <3>6. c = d /\ g = h
        BY <3>5, <3>a, NamedOnce
      <3> QED BY <3>3, <3>4, <3>6
    <2>2. i \in Nat /\ j \in Nat
      OBVIOUS
    <2>3. CASE a = b
      BY <1>1, <2>1, <2>2, <2>3
    <2>4. CASE a = y /\ b # y
      <3>1. b = x /\ m + i = j
        BY <1>1, <2>1, <2>2, <2>4
      <3>2. j \in 1 .. Len(P[x].kids) /\ Len(P[x].kids) = m
        BY <3>1 DEF KidsHalved
      <3> QED BY <1>1, <2>2, <3>1, <3>2
    <2>5. CASE b = y /\ a # y
      <3>1. a = x /\ m + j = i
        BY <1>1, <2>1, <2>2, <2>5
      <3>2. i \in 1 .. Len(P[x].kids) /\ Len(P[x].kids) = m
        BY <3>1 DEF KidsHalved
      <3> QED BY <1>1, <2>2, <3>1, <3>2
    <2>6. CASE a # y /\ b # y
      BY <2>1, <2>2, <2>6
    <2> QED BY <2>3, <2>4, <2>5, <2>6
  <1> QED BY <1>4, <1>5, <1>6 DEF Linked

\* The parent names the new page.
LEMMA InsertLinked ==
  ASSUME NEW Q \in [Addr -> NodeT], NEW P \in [Addr -> NodeT], NEW L \in SUBSET Addr, NEW z, NEW y,
         Linked(Q, L, z, {y}), NEW x \in L, NEW p \in 1 .. Len(Q[x].kids) + 1,
         Inserted(P[x].kids, Q[x].kids, p, y),
         \A a \in Addr \ {x} : P[a] = Q[a]
  PROVE  Linked(P, L, z, {})
  <1> DEFINE Off(a, i) == IF a = x /\ i > p THEN i - 1 ELSE i
  <1>1. Len(Q[x].kids) \in Nat /\ p \in Nat /\ p >= 1 /\ p <= Len(Q[x].kids) + 1
    BY NodeSeqs
  <1>2. \A a \in L : \A i \in 1 .. Len(P[a].kids) : i \in Nat /\
          \/ a = x /\ i = p /\ P[a].kids[i] = y
          \/ /\ ~(a = x /\ i = p)
             /\ Off(a, i) \in 1 .. Len(Q[a].kids) /\ P[a].kids[i] = Q[a].kids[Off(a, i)]
    <2> SUFFICES ASSUME NEW a \in L, NEW i \in 1 .. Len(P[a].kids)
                 PROVE  i \in Nat /\
                        \/ a = x /\ i = p /\ P[a].kids[i] = y
                        \/ /\ ~(a = x /\ i = p)
                           /\ Off(a, i) \in 1 .. Len(Q[a].kids) /\ P[a].kids[i] = Q[a].kids[Off(a, i)]
      OBVIOUS
    <2>1. CASE a # x
      BY <2>1
    <2>2. CASE a = x
      <3>1. Len(P[x].kids) = Len(Q[x].kids) + 1
        BY DEF Inserted
      <3>2. i \in 1 .. Len(Q[x].kids) + 1
        BY <2>2, <3>1
      <3>3. P[x].kids[i] = IF i < p THEN Q[x].kids[i] ELSE IF i = p THEN y ELSE Q[x].kids[i - 1]
        BY <3>2 DEF Inserted
      <3>4. CASE i < p
        <4>1. i \in 1 .. Len(Q[x].kids) /\ ~(i > p) /\ i # p
          BY <1>1, <3>2, <3>4
        <4> QED BY <2>2, <3>3, <3>4, <4>1
      <3>5. CASE i = p
        <4>1. ~(i < p)
          BY <1>1, <3>5
        <4> QED BY <2>2, <3>3, <3>5, <4>1
      <3>6. CASE i > p
        <4>1. i - 1 \in 1 .. Len(Q[x].kids) /\ ~(i < p) /\ i # p
          BY <1>1, <3>2, <3>6
        <4> QED BY <2>2, <3>3, <3>6, <4>1
      <3> QED BY <1>1, <3>2, <3>4, <3>5, <3>6
    <2> QED BY <2>1, <2>2
  <1>3. z \in L /\ y \in L /\ y # z
    BY DEF Linked
  <1>4. ASSUME NEW a \in L, NEW i \in 1 .. Len(P[a].kids)
        PROVE  P[a].kids[i] \in L \ ({} \union {z})
    <2>1. CASE P[a].kids[i] = y
      BY <1>3, <2>1
    <2>2. CASE /\ Off(a, i) \in 1 .. Len(Q[a].kids) /\ P[a].kids[i] = Q[a].kids[Off(a, i)]
      <3> HIDE DEF Off
      <3> QED BY <2>2 DEF Linked
    <2> QED BY <1>2, <2>1, <2>2
  <1>5. ASSUME NEW a \in L, NEW b \in L,
               NEW i \in 1 .. Len(P[a].kids), NEW j \in 1 .. Len(P[b].kids),
               P[a].kids[i] = P[b].kids[j]
        PROVE  a = b /\ i = j
    <2>0. i \in Nat /\ j \in Nat
      OBVIOUS
    <2>1. \A c \in L : \A h \in 1 .. Len(Q[c].kids) : Q[c].kids[h] # y
      BY DEF Linked
    <2>2. CASE a = x /\ i = p /\ P[a].kids[i] = y
      <3>1. ~(Off(b, j) \in 1 .. Len(Q[b].kids) /\ P[b].kids[j] = Q[b].kids[Off(b, j)])
        <4> HIDE DEF Off
        <4> QED BY <1>5, <2>1, <2>2
      <3> QED BY <1>2, <2>2, <3>1
    <2>3. CASE b = x /\ j = p /\ P[b].kids[j] = y
      <3>1. ~(Off(a, i) \in 1 .. Len(Q[a].kids) /\ P[a].kids[i] = Q[a].kids[Off(a, i)])
        <4> HIDE DEF Off
        <4> QED BY <1>5, <2>1, <2>3
      <3> QED BY <1>2, <2>3, <3>1
    <2>4. CASE /\ ~(a = x /\ i = p) /\ ~(b = x /\ j = p)
      <3>1. /\ Off(a, i) \in 1 .. Len(Q[a].kids) /\ P[a].kids[i] = Q[a].kids[Off(a, i)]
            /\ Off(b, j) \in 1 .. Len(Q[b].kids) /\ P[b].kids[j] = Q[b].kids[Off(b, j)]
        BY <1>2, <2>4
      <3>2. a = b /\ Off(a, i) = Off(b, j)
        <4>1. PICK g, h : g = Off(a, i) /\ h = Off(b, j)
          OBVIOUS
        <4>2. /\ g \in 1 .. Len(Q[a].kids) /\ P[a].kids[i] = Q[a].kids[g]
              /\ h \in 1 .. Len(Q[b].kids) /\ P[b].kids[j] = Q[b].kids[h]
          BY <3>1, <4>1
        <4>a. Q[a].kids[g] = Q[b].kids[h]
          BY <1>5, <4>2
        <4>3. a = b /\ g = h
          BY <4>2, <4>a, NamedOnce
        <4> QED BY <4>1, <4>3
      <3>3. CASE a # x
        BY <3>2, <3>3
      <3>4. CASE a = x
        <4>1. b = x /\ i # p /\ j # p
          BY <2>4, <3>2, <3>4
        <4>2. (IF i > p THEN i - 1 ELSE i) = (IF j > p THEN j - 1 ELSE j)
          BY <3>2, <3>4, <4>1
        <4>3. i = j
          BY <1>1, <2>0, <4>1, <4>2
        <4> QED BY <3>2, <4>3
      <3> QED BY <3>3, <3>4
    <2> QED BY <1>2, <2>2, <2>3, <2>4
  <1> QED BY <1>3, <1>4, <1>5 DEF Linked

\* A new root names the old one and its half.
LEMMA RootLinked ==
  ASSUME NEW Q \in [Addr -> NodeT], NEW P \in [Addr -> NodeT], NEW L \in SUBSET Addr, NEW z, NEW y,
         Linked(Q, L, z, {y}), NEW x \in Addr \ L, P[x].kids = <<z, y>>,
         \A a \in Addr \ {x} : P[a] = Q[a]
  PROVE  Linked(P, L \union {x}, x, {})
  <1>1. z \in L /\ y \in L /\ y # z /\ x \notin L
    BY DEF Linked
  <1>2. Len(P[x].kids) = 2 /\ P[x].kids[1] = z /\ P[x].kids[2] = y
    OBVIOUS
  <1>3. \A a \in L : P[a] = Q[a] /\ a # x
    OBVIOUS
  <1>4. \A a \in L : \A i \in 1 .. Len(P[a].kids) : P[a].kids[i] \in L /\ P[a].kids[i] # z /\ P[a].kids[i] # y
    BY <1>3 DEF Linked
  <1>5. \A i \in 1 .. Len(P[x].kids) : (i = 1 /\ P[x].kids[i] = z) \/ (i = 2 /\ P[x].kids[i] = y)
    <2> SUFFICES ASSUME NEW i \in 1 .. 2
                 PROVE  (i = 1 /\ P[x].kids[i] = z) \/ (i = 2 /\ P[x].kids[i] = y)
      BY <1>2
    <2>1. i = 1 \/ i = 2
      OBVIOUS
    <2> QED BY <1>2, <2>1
  <1>6. ASSUME NEW a \in L \union {x}, NEW i \in 1 .. Len(P[a].kids)
        PROVE  P[a].kids[i] \in (L \union {x}) \ ({} \union {x})
    BY <1>1, <1>4, <1>5
  <1>7. ASSUME NEW a \in L \union {x}, NEW b \in L \union {x},
               NEW i \in 1 .. Len(P[a].kids), NEW j \in 1 .. Len(P[b].kids),
               P[a].kids[i] = P[b].kids[j]
        PROVE  a = b /\ i = j
    <2>1. CASE a \in L /\ b \in L
      BY <1>3, <1>7, <2>1 DEF Linked
    <2>2. CASE a = x /\ b = x
      BY <1>1, <1>5, <1>7, <2>2
    <2>3. CASE a = x /\ b \in L
      BY <1>4, <1>5, <1>7, <2>3
    <2>4. CASE a \in L /\ b = x
      BY <1>4, <1>5, <1>7, <2>4
    <2> QED BY <2>1, <2>2, <2>3, <2>4
  <1> QED BY <1>6, <1>7 DEF Linked

-----------------------------------------------------------------------------
(* Where the pages are *)

\* The addresses alloc has given out.
Live == 1 .. cur_offset - 1
Cached(a) == \E s \in Used : remote_address[s] = a
\* Each page in use is a copy of one page, and a clean one of what the backend has.
CachedPages(Q) ==
  /\ \A s \in Used :
       remote_address[s] \in Live /\ Q[remote_address[s]] = Page(node[s], remote_address)
  /\ \A s, t \in Used : remote_address[s] = remote_address[t] => s = t
  /\ \A s \in Used : ~dirty[s] => backend[remote_address[s]].node = Q[remote_address[s]]
\* Any other page is in the backend, but for one that has no slot yet.
UncachedPages(Q) ==
  \A a \in Addr :
    /\ Bare(backend[a].node)
    /\ backend[a].node = Q[a] \/ Cached(a) \/ (pc \in {"sib", "root"} /\ a = adm.addr)
WaitingPage(Q) ==
  /\ pc \in {"load", "sib", "root"} => adm.addr \in Live /\ ~Cached(adm.addr)
  /\ pc \in {"sib", "root"} => Q[adm.addr] = Page(adm.node, remote_address) /\ adm.dirty = TRUE
  /\ pc = "sib" => right = adm.addr
  /\ pc = "load" => adm.addr = ChildRef(adm.idx) /\ adm.node = backend[adm.addr].node
Stored(Q) == CachedPages(Q) /\ UncachedPages(Q) /\ WaitingPage(Q)

\* root_ is the page under super_root_, from make_new_root on the one that will be.
Rooted == IF pc = "root" THEN root_ = adm.addr ELSE At(super, remote_address) = root_
\* The half of a split whose parent does not know of it.
Halves == IF pc \in {"sib", "link"} THEN {At(right, remote_address)} ELSE {}

\* The constructor has stored an empty leaf.
LEMMA InitStored ==
  ASSUME Init
  PROVE  \E Q \in [Addr -> NodeT] : Stored(Q) /\ Rooted /\ Linked(Q, Live, root_, Halves)
  <1>1. /\ PoolInit /\ pc = "visit" /\ super = 1 /\ root_ = 1 /\ cur_offset = 2
        /\ backend = [a \in Addr |-> IF a = 1 THEN Image(Leaf(<<>>, MinLimit, MaxLimit), TRUE)
                                              ELSE Image(Zeroed, FALSE)]
    BY DEF Init
  <1>2. Used = {}
    BY <1>1 DEF PoolInit, Used, InUse
  <1> DEFINE im(a) == IF a = 1 THEN Image(Leaf(<<>>, MinLimit, MaxLimit), TRUE) ELSE Image(Zeroed, FALSE)
             Q == [a \in Addr |-> backend[a].node]
  <1>3. ASSUME NEW n, Blank(n), NEW d \in BOOLEAN
        PROVE  Image(n, d).node \in NodeT /\ Bare(Image(n, d).node) /\ Image(n, d).node.kids = <<>>
    <2>1. n \in NodeT /\ Untagged(n) /\ n.kids = <<>>
      BY <1>3, BlankFacts DEF Blank
    <2>2. /\ Image(n, d) \in [node : NodeT, dirty : BOOLEAN] /\ Image(n, d).node = WithParent(n, NoSlot)
          /\ Untagged(Image(n, d).node)
      BY <2>1, ImageFacts
    <2>3. WithParent(n, NoSlot).parent = NoSlot /\ WithParent(n, NoSlot).kids = n.kids
          /\ WithParent(n, NoSlot) \in NodeT
      BY <2>1, NodeEdits
    <2> QED BY <2>1, <2>2, <2>3 DEF Bare
  <1>4. \A a \in Addr : backend[a].node \in NodeT /\ Bare(backend[a].node) /\ backend[a].node.kids = <<>>
    <2>1. \A a \in Addr : backend[a] = im(a)
      BY <1>1
    <2>2. /\ Image(Zeroed, FALSE).node \in NodeT /\ Bare(Image(Zeroed, FALSE).node)
          /\ Image(Zeroed, FALSE).node.kids = <<>>
      BY <1>3, FreshNodes
    <2>3. LET l == Leaf(<<>>, MinLimit, MaxLimit) IN
          Image(l, TRUE).node \in NodeT /\ Bare(Image(l, TRUE).node) /\ Image(l, TRUE).node.kids = <<>>
      BY <1>3, FreshNodes
    <2> QED BY <2>1, <2>2, <2>3
  <1>5. Q \in [Addr -> NodeT] /\ \A a \in Addr : Q[a] = backend[a].node
    BY <1>4
  <1>6. Live = {1} /\ 1 \in Addr
    BY <1>1, SlotsAreNoAddresses DEF Live
  <1> HIDE DEF Q
  <1>7. Stored(Q)
    <2>1. CachedPages(Q)
      BY <1>2 DEF CachedPages
    <2>2. UncachedPages(Q)
      BY <1>4, <1>5 DEF UncachedPages
    <2>3. WaitingPage(Q)
      BY <1>1 DEF WaitingPage
    <2> QED BY <2>1, <2>2, <2>3 DEF Stored
  <1>8. Rooted /\ Halves = {}
    BY <1>1, <1>6, SlotsAreNoAddresses DEF Rooted, Halves, At
  <1>9. Linked(Q, Live, root_, {})
    <2>1. Q[1].kids = <<>>
      BY <1>4, <1>5, <1>6
    <2>2. Len(Q[1].kids) = 0
      BY <2>1
    <2> QED BY <1>1, <1>6, <2>2 DEF Linked
  <1> QED BY <1>5, <1>7, <1>8, <1>9

\* The types and the wiring these proofs start from.
Running == WireInv /\ OwnInv /\ pc # "aborted"

\* What the invariants give.
LEMMA RunningFacts ==
  ASSUME Running
  PROVE  /\ TreeTypes /\ Shapes /\ PcPhase /\ Wiring /\ OwnTypes /\ SlotOwnership
         /\ remote_address \in [Slot -> Addr] /\ dirty \in [Slot -> BOOLEAN] /\ node \in [Slot -> NodeT]
         /\ Used \in SUBSET Slot /\ Live \in SUBSET Addr
         /\ \A a \in Addr : backend[a].node \in NodeT
         /\ \A s \in Used : Swizzled(node[s]) \in SUBSET Used
         /\ adm.node \in NodeT /\ adm.addr \in Addr /\ adm.dirty \in BOOLEAN
  <1>1. TreeTypes /\ Shapes /\ PcPhase /\ Wiring /\ OwnTypes /\ SlotOwnership
    BY DEF Running, WireInv, OwnInv
  <1>2. remote_address \in [Slot -> Addr] /\ dirty \in [Slot -> BOOLEAN] /\ node \in [Slot -> NodeT]
    BY <1>1 DEF OwnTypes, TreeTypes
  <1>3. Used \in SUBSET Slot
    BY DEF Used
  <1>4. Live \in SUBSET Addr
    BY <1>1, SlotsAreNoAddresses DEF TreeTypes, Live, Addr
  <1>5. \A a \in Addr : backend[a].node \in NodeT
    BY <1>1 DEF TreeTypes
  <1>6. \A s \in Used : Swizzled(node[s]) \in SUBSET Used
    BY <1>1 DEF Wiring, Wires
  <1>7. adm.node \in NodeT /\ adm.addr \in Addr /\ adm.dirty \in BOOLEAN
    BY <1>1 DEF TreeTypes
  <1> QED BY <1>1, <1>2, <1>3, <1>4, <1>5, <1>6, <1>7

\* A step that changes no page.
LEMMA QuietStored ==
  ASSUME NEW Q, Stored(Q), Used' = Used, UNCHANGED <<node, backend, remote_address, dirty, cur_offset>>,
         \/ UNCHANGED <<pc, adm, right, cur, super>>
         \/ pc \notin {"load", "sib", "root"} /\ pc' \notin {"load", "sib", "root"}
  PROVE  Stored(Q)'
  <1>1. CachedPages(Q)'
    BY DEF Stored, CachedPages, Live
  <1>2. \A a : Cached(a)' <=> Cached(a)
    BY DEF Cached
  <1>3. UncachedPages(Q)'
    BY <1>2 DEF Stored, UncachedPages
  <1>4. WaitingPage(Q)'
    BY <1>2 DEF Stored, WaitingPage, Live, ChildRef
  <1> QED BY <1>1, <1>3, <1>4 DEF Stored

\* A child that is not swizzled is not cached: nothing else refers to its page.
LEMMA ChildUncached ==
  ASSUME Running, NEW Q \in [Addr -> NodeT], Stored(Q), Rooted, Linked(Q, Live, root_, Halves),
         pc \in {"visit", "sibling"}, NEW i, cur # Super => i \in DOMAIN node[cur].kids,
         ChildRef(i) \notin Slot
  PROVE  ChildRef(i) \in Live /\ ~Cached(ChildRef(i))
  <1> DEFINE a == ChildRef(i)
             ra == remote_address
  <1>1. /\ Wiring /\ TreeTypes /\ ra \in [Slot -> Addr] /\ node \in [Slot -> NodeT] /\ Used \in SUBSET Slot
        /\ Live \in SUBSET Addr
    BY RunningFacts
  <1>2. At(super, ra) = root_ /\ Halves = {} /\ Linked(Q, Live, root_, {})
    BY DEF Rooted, Halves
  <1>3. \A s \in Used : /\ ra[s] \in Live /\ SameText(Q[ra[s]], node[s])
                        /\ \A j \in DOMAIN node[s].kids : /\ j \in 1 .. Len(Q[ra[s]].kids)
                                                          /\ Q[ra[s]].kids[j] = At(node[s].kids[j], ra)
    <2> SUFFICES ASSUME NEW s \in Used
                 PROVE  /\ ra[s] \in Live /\ SameText(Q[ra[s]], node[s])
                        /\ \A j \in DOMAIN node[s].kids : /\ j \in 1 .. Len(Q[ra[s]].kids)
                                                          /\ Q[ra[s]].kids[j] = At(node[s].kids[j], ra)
      OBVIOUS
    <2>1. ra[s] \in Live /\ Q[ra[s]] = Page(node[s], ra) /\ node[s] \in NodeT
      BY <1>1 DEF Stored, CachedPages
    <2>2. DOMAIN node[s].kids = 1 .. Len(node[s].kids)
      BY <2>1, NodeSeqs
    <2>3. /\ SameText(Page(node[s], ra), node[s])
          /\ \A j \in 1 .. Len(node[s].kids) : Page(node[s], ra).kids[j] = At(node[s].kids[j], ra)
      BY <1>1, <2>1, PageFacts
    <2>4. Len(Q[ra[s]].kids) = Len(node[s].kids)
      BY <2>1, <2>3 DEF SameText
    <2> QED BY <2>1, <2>2, <2>3, <2>4
  <1>4. ASSUME cur # Super
        PROVE  /\ cur \in Used /\ a = node[cur].kids[i] /\ i \in 1 .. Len(Q[ra[cur]].kids)
               /\ Q[ra[cur]].kids[i] = a
    <2>1. cur \in Used /\ i \in DOMAIN node[cur].kids /\ a = node[cur].kids[i]
      BY <1>1, <1>4 DEF Wiring, CurHere, ChildRef
    <2> QED BY <1>3, <2>1 DEF At
  <1>5. cur = Super => a = super /\ a = root_
    BY <1>2 DEF ChildRef, At
  <1>6. a \in Live
    BY <1>2, <1>3, <1>4, <1>5 DEF Linked
  <1>7. ASSUME Cached(a) PROVE FALSE
    <2>1. PICK s \in Used : ra[s] = a
      BY <1>7 DEF Cached
    <2>2. CASE node[s].parent \in Used /\ s \in Swizzled(node[node[s].parent])
      <3> DEFINE p == node[s].parent
      <3>1. PICK j \in DOMAIN node[p].kids : node[p].kids[j] = s
        BY <2>2 DEF Swizzled
      <3>2. p \in Used /\ ra[p] \in Live /\ j \in 1 .. Len(Q[ra[p]].kids) /\ Q[ra[p]].kids[j] = a
        <4>1. p \in Used /\ s \in Slot
          BY <1>1, <2>2
        <4>2. At(node[p].kids[j], ra) = a
          BY <2>1, <3>1, <4>1 DEF At
        <4> QED BY <1>3, <3>1, <4>1, <4>2
      <3>3. CASE cur = Super
        BY <1>2, <1>5, <3>2, <3>3 DEF Linked
      <3>4. CASE cur # Super
        <4>1. cur \in Used /\ ra[cur] \in Live /\ i \in 1 .. Len(Q[ra[cur]].kids) /\ Q[ra[cur]].kids[i] = a
          BY <1>3, <1>4, <3>4
        <4>2. Q[ra[cur]].kids[i] = Q[ra[p]].kids[j]
          BY <3>2, <4>1
        <4>3. ra[cur] = ra[p] /\ i = j
          BY <1>2, <3>2, <4>1, <4>2, NamedOnce
        <4>4. cur = p
          BY <3>2, <4>1, <4>3 DEF Stored, CachedPages
        <4>5. a = s
          BY <1>4, <3>1, <3>4, <4>3, <4>4
        <4> QED BY <1>1, <4>5
      <3> QED BY <3>3, <3>4
    <2>3. CASE super = s
      <3>1. s \in Slot /\ a = root_
        BY <1>1, <1>2, <2>1, <2>3 DEF At
      <3>2. CASE cur = Super
        BY <1>5, <2>3, <3>1, <3>2
      <3>3. CASE cur # Super
        <4>1. ra[cur] \in Live /\ i \in 1 .. Len(Q[ra[cur]].kids) /\ Q[ra[cur]].kids[i] = root_
          BY <1>3, <1>4, <3>1, <3>3
        <4> QED BY <1>2, <4>1 DEF Linked
      <3> QED BY <3>2, <3>3
    <2> QED BY <1>1, <2>2, <2>3 DEF Wiring, Anchored
  <1> QED BY <1>6, <1>7

\* A miss reads the page from the backend.
LEMMA LoadStored ==
  ASSUME Running, Running', NEW Q \in [Addr -> NodeT], Stored(Q), Rooted, Linked(Q, Live, root_, Halves),
         pc \in {"visit", "sibling"}, NEW i, LoadChild(i), Used' = Used
  PROVE  Stored(Q)' /\ Rooted' /\ Halves' = Halves /\ UNCHANGED <<root_, cur_offset>>
  <1> DEFINE a == ChildRef(i)
  <1>1. /\ a \notin Slot /\ pc' = "load"
        /\ adm' = [node |-> backend[a].node, addr |-> a, dirty |-> backend[a].dirty, idx |-> i]
        /\ UNCHANGED <<node, super, root_, backend, cur_offset, op, cur, retry, child, sep, right, ret>>
    BY DEF LoadChild, storage, walk, split
  <1>2. UNCHANGED <<remote_address, dirty>>
    BY DEF LoadChild, RequestPage
  <1>3. adm'.idx = i /\ adm'.addr = a /\ adm'.node = backend[a].node
    BY <1>1
  <1>4. cur # Super => i \in DOMAIN node[cur].kids
    <2>1. AdmHere'
      BY RunningFacts DEF Running, WireInv, Wiring
    <2> QED BY <1>1, <1>3, <2>1 DEF AdmHere
  <1>5. a \in Live /\ ~Cached(a)
    BY <1>1, <1>4, ChildUncached
  <1> HIDE DEF a
  <1>6. \A b : Cached(b)' <=> Cached(b)
    BY <1>2 DEF Cached
  <1>7. CachedPages(Q)'
    BY <1>1, <1>2 DEF Stored, CachedPages, Live
  <1>8. UncachedPages(Q)'
    <2>1. \A b \in Addr : Bare(backend[b].node) /\ (backend[b].node = Q[b] \/ Cached(b))
      BY DEF Stored, UncachedPages
    <2> QED BY <1>1, <1>6, <2>1 DEF UncachedPages
  <1>9. WaitingPage(Q)'
    <2>1. (adm.addr \in Live /\ ~Cached(adm.addr))'
      BY <1>1, <1>2, <1>3, <1>5 DEF Live, Cached
    <2>2. (adm.addr = ChildRef(adm.idx) /\ adm.node = backend[adm.addr].node)'
      BY <1>1, <1>3 DEF ChildRef, a
    <2> QED BY <1>1, <2>1, <2>2 DEF WaitingPage
  <1>10. Rooted' /\ Halves' = Halves
    BY <1>1, <1>2 DEF Rooted, Halves
  <1> QED BY <1>1, <1>7, <1>8, <1>9, <1>10 DEF Stored

-----------------------------------------------------------------------------
(* The page that waited gets its slot *)

\* cache_insert fills the slot with the page; the other pages stay as they were.
LEMMA AdmitStored ==
  ASSUME Running, Running', NEW Q \in [Addr -> NodeT], Stored(Q), pc \in {"load", "sib", "root"},
         CacheInsert(adm.addr, adm.dirty), pc' \notin {"load", "sib", "root"},
         UNCHANGED <<backend, cur_offset>>,
         \A s \in Used : Page(node'[s], remote_address') = Page(node[s], remote_address'),
         Page(node'[page], remote_address') = Page(adm.node, remote_address')
  PROVE  Stored(Q)'
  <1> DEFINE ra == remote_address
  <1>1. /\ ra \in [Slot -> Addr] /\ node \in [Slot -> NodeT] /\ Used \in SUBSET Slot /\ Wiring
        /\ adm.node \in NodeT /\ adm.addr \in Addr /\ adm.dirty \in BOOLEAN
        /\ \A s \in Used : Swizzled(node[s]) \in SUBSET Used
    BY RunningFacts
  <1>2. /\ page \in Slot /\ page \notin Used /\ Used' = Used \union {page}
        /\ \A s \in Slot : ra'[s] = IF s = page THEN adm.addr ELSE ra[s]
        /\ \A s \in Slot : dirty'[s] = IF s = page THEN adm.dirty ELSE dirty[s]
    BY <1>1, InsertAddsUsed DEF Running
  <1>3. ra' \in [Slot -> Addr]
    BY DEF Running, OwnInv, OwnTypes
  <1>4. Swizzled(adm.node) \in SUBSET Used
    BY <1>1, RefsInUse
  <1>5. \A s \in Used : ra'[s] = ra[s] /\ dirty'[s] = dirty[s] /\ s \in Slot
    BY <1>1, <1>2
  <1>6. ra'[page] = adm.addr /\ dirty'[page] = adm.dirty
    BY <1>2
  <1> HIDE DEF ra
  <1>7. \A s \in Used : Page(node'[s], ra') = Page(node[s], ra)
    <2> SUFFICES ASSUME NEW s \in Used PROVE Page(node[s], ra') = Page(node[s], ra)
      BY DEF ra
    <2>1. \A c \in Swizzled(node[s]) : ra'[c] = ra[c]
      BY <1>1, <1>5
    <2> QED BY <1>1, <1>3, <2>1, PageMoved
  <1>8. Page(node'[page], ra') = Page(adm.node, ra)
    <2>1. \A c \in Swizzled(adm.node) : ra'[c] = ra[c]
      BY <1>4, <1>5
    <2>2. Page(adm.node, ra') = Page(adm.node, ra)
      BY <1>1, <1>3, <2>1, PageMoved
    <2> QED BY <2>2 DEF ra
  <1>9. adm.addr \in Live /\ ~Cached(adm.addr)
    BY DEF Stored, WaitingPage
  <1>10. pc = "load" => backend[adm.addr].node = Q[adm.addr] /\ Q[adm.addr] = Page(adm.node, ra)
    <2> SUFFICES ASSUME pc = "load" PROVE backend[adm.addr].node = Q[adm.addr] /\ Q[adm.addr] = Page(adm.node, ra)
      OBVIOUS
    <2>1. adm.node = backend[adm.addr].node
      BY DEF Stored, WaitingPage
    <2>2. Bare(backend[adm.addr].node) /\ backend[adm.addr].node = Q[adm.addr]
      BY <1>1, <1>9 DEF Stored, UncachedPages
    <2>3. Page(adm.node, ra) = adm.node
      BY <1>1, <2>1, <2>2, BarePage DEF Bare
    <2> QED BY <2>1, <2>2, <2>3
  <1>11. pc # "load" => Q[adm.addr] = Page(adm.node, ra) /\ adm.dirty = TRUE
    BY DEF Stored, WaitingPage, ra
  <1>12. CachedPages(Q)'
    <2>1. \A s \in Used' : ra'[s] \in Live' /\ Q[ra'[s]] = Page(node'[s], ra')
      <3>1. Live' = Live
        BY DEF Live
      <3>2. \A s \in Used : ra[s] \in Live /\ Q[ra[s]] = Page(node[s], ra)
        BY DEF Stored, CachedPages, ra
      <3> QED BY <1>2, <1>5, <1>6, <1>7, <1>8, <1>9, <1>10, <1>11, <3>1, <3>2
    <2>2. \A s, t \in Used' : ra'[s] = ra'[t] => s = t
      <3>1. \A s \in Used : ra[s] # adm.addr
        BY <1>9 DEF Cached, ra
      <3>2. \A s, t \in Used : ra[s] = ra[t] => s = t
        BY DEF Stored, CachedPages, ra
      <3> QED BY <1>2, <1>5, <1>6, <3>1, <3>2
    <2>3. ASSUME NEW s \in Used', ~dirty'[s] PROVE backend'[ra'[s]].node = Q[ra'[s]]
      <3>1. CASE s \in Used
        BY <1>5, <2>3, <3>1 DEF Stored, CachedPages, ra
      <3>2. CASE s = page
        <4>1. ~adm.dirty
          BY <1>6, <2>3, <3>2
        <4>2. pc = "load"
          BY <1>11, <4>1
        <4> QED BY <1>6, <1>10, <3>2, <4>2
      <3> QED BY <1>2, <3>1, <3>2
    <2> QED BY <2>1, <2>2, <2>3 DEF CachedPages, ra
  <1>13. UncachedPages(Q)'
    <2>1. \A a : Cached(a) => Cached(a)'
      BY <1>2, <1>5 DEF Cached, ra
    <2>3. \A a : a = adm.addr => Cached(a)'
      BY <1>2, <1>6 DEF Cached, ra
    <2>4. \A a \in Addr : /\ Bare(backend[a].node)
                          /\ backend[a].node = Q[a] \/ Cached(a) \/ a = adm.addr
      BY DEF Stored, UncachedPages
    <2> QED BY <2>1, <2>3, <2>4 DEF UncachedPages
  <1>14. WaitingPage(Q)'
    BY DEF WaitingPage
  <1> QED BY <1>12, <1>13, <1>14 DEF Stored

\* What AdmitLoad, AdmitSib and AdmitRoot share.
LEMMA AdmitFacts ==
  ASSUME Running, Running', CacheInsert(adm.addr, adm.dirty)
  PROVE  /\ page \in Slot /\ page \notin Used /\ page # super
         /\ remote_address \in [Slot -> Addr] /\ remote_address' \in [Slot -> Addr]
         /\ remote_address'[page] = adm.addr /\ node \in [Slot -> NodeT]
         /\ \A s \in Slot \ {page} : remote_address'[s] = remote_address[s]
         /\ adm.node \in NodeT /\ adm.addr \in Addr
  <1>1. /\ remote_address \in [Slot -> Addr] /\ node \in [Slot -> NodeT] /\ Wiring
        /\ adm.node \in NodeT /\ adm.addr \in Addr /\ adm.dirty \in BOOLEAN
    BY RunningFacts
  <1>2. /\ page \in Slot /\ page \notin Used
        /\ \A s \in Slot : remote_address'[s] = IF s = page THEN adm.addr ELSE remote_address[s]
    BY <1>1, InsertAddsUsed DEF Running
  <1>3. remote_address' \in [Slot -> Addr]
    BY DEF Running, OwnInv, OwnTypes
  <1>4. page # super
    BY <1>1, <1>2 DEF Wiring, Wires
  <1> QED BY <1>1, <1>2, <1>3, <1>4

\* Nothing happens to the tree's pages or to where they hang.
Kept(Q, P) == P = Q /\ Halves' = Halves /\ UNCHANGED <<root_, cur_offset>>

\* The end of load_child.
LEMMA AdmitLoadStored ==
  ASSUME Running, Running', NEW Q \in [Addr -> NodeT], Stored(Q), Rooted, AdmitLoad
  PROVE  Stored(Q)' /\ Rooted' /\ Kept(Q, Q)
  <1> DEFINE ra == remote_address
             w == WithParent(adm.node, cur)
  <1>1. /\ pc = "load" /\ pc' = "visit" /\ CacheInsert(adm.addr, adm.dirty)
        /\ UNCHANGED <<root_, backend, cur_offset>>
    BY DEF AdmitLoad, storage
  <1>2. /\ page \in Slot /\ page \notin Used /\ page # super
        /\ ra \in [Slot -> Addr] /\ ra' \in [Slot -> Addr]
        /\ ra'[page] = adm.addr /\ node \in [Slot -> NodeT]
        /\ \A s \in Slot \ {page} : ra'[s] = ra[s]
        /\ adm.node \in NodeT /\ adm.addr \in Addr
    BY <1>1, AdmitFacts
  <1>3. /\ AdmHere /\ CurHere /\ Used \in SUBSET Slot /\ cur \in Slot \union {Super}
        /\ Super \notin Slot /\ TreeTypes
    BY RunningFacts, SlotsAreNoAddresses DEF Wiring, TreeTypes
  <1>4. adm.addr = ChildRef(adm.idx)
    BY <1>1 DEF Stored, WaitingPage
  <1>5. IF cur = Super
        THEN super' = page /\ node' = [node EXCEPT ![page] = w]
        ELSE /\ node' = [[node EXCEPT ![page] = w] EXCEPT ![cur] = Swizzle(@, adm.idx, page)]
             /\ super' = super
    BY DEF AdmitLoad
  <1> HIDE DEF w, ra
  <1>6. Page(w, ra') = Page(adm.node, ra')
    BY <1>2, <1>3, PageWithParent DEF w
  <1>7. CASE cur = Super
    <2>1. \A s \in Slot : node'[s] = IF s = page THEN w ELSE node[s]
      BY <1>2, <1>5, <1>7
    <2>2. \A s \in Used : node'[s] = node[s]
      BY <1>2, <1>3, <2>1
    <2>3. node'[page] = w
      BY <1>2, <2>1
    <2>4. Stored(Q)'
      BY <1>1, <1>6, <2>2, <2>3, AdmitStored DEF ra
    <2>5. super = adm.addr /\ super \notin Slot
      BY <1>1, <1>3, <1>4, <1>7 DEF AdmHere, ChildRef
    <2>6. root_ = adm.addr
      BY <1>1, <2>5 DEF Rooted, At
    <2>7. super' = page
      BY <1>5, <1>7
    <2>8. Rooted'
      BY <1>1, <1>2, <2>6, <2>7 DEF Rooted, At, ra
    <2> QED BY <1>1, <2>4, <2>8 DEF Kept, Halves
  <1>8. CASE cur # Super
    <2> DEFINE q == Swizzle(node[cur], adm.idx, page)
    <2>1. cur \in Used /\ cur \in Slot /\ cur # page
      BY <1>2, <1>3, <1>8 DEF CurHere
    <2>2. \A s \in Slot : node'[s] = IF s = cur THEN q ELSE IF s = page THEN w ELSE node[s]
      BY <1>2, <1>5, <1>8, <2>1
    <2>3. adm.idx \in DOMAIN node[cur].kids /\ node[cur].kids[adm.idx] = adm.addr
      BY <1>1, <1>3, <1>4, <1>8 DEF AdmHere, ChildRef
    <2>4. Page(q, ra') = Page(node[cur], ra')
      <3>1. At(page, ra') = At(node[cur].kids[adm.idx], ra') /\ page \in Ref
        BY <1>2, <2>3, SlotsAreNoAddresses DEF At, Ref
      <3> QED BY <1>2, <2>1, <2>3, <3>1, PageSwizzle
    <2> HIDE DEF q
    <2>5. \A s \in Used : Page(node'[s], ra') = Page(node[s], ra')
      <3> SUFFICES ASSUME NEW s \in Used PROVE Page(node'[s], ra') = Page(node[s], ra')
        OBVIOUS
      <3>1. s \in Slot /\ s # page
        BY <1>2, <1>3
      <3>2. CASE s = cur
        BY <2>2, <2>4, <3>1, <3>2
      <3>3. CASE s # cur
        BY <2>2, <3>1, <3>3
      <3> QED BY <3>2, <3>3
    <2>6. node'[page] = w
      BY <1>2, <2>1, <2>2
    <2>7. Stored(Q)'
      BY <1>1, <1>6, <2>5, <2>6, AdmitStored DEF ra
    <2>8. super' = super /\ root_' = root_ /\ At(super, ra) = root_
      BY <1>1, <1>5, <1>8 DEF Rooted, ra
    <2>9. At(super, ra') = At(super, ra)
      BY <1>2 DEF At
    <2>10. Rooted'
      BY <1>1, <2>8, <2>9 DEF Rooted, At, ra
    <2> QED BY <1>1, <2>7, <2>10 DEF Kept, Halves
  <1> QED BY <1>7, <1>8

\* The sibling of a split inner node is cached.
LEMMA AdmitSibStored ==
  ASSUME Running, Running', NEW Q \in [Addr -> NodeT], Stored(Q), Rooted, AdmitSib
  PROVE  Stored(Q)' /\ Rooted' /\ Kept(Q, Q)
  <1> DEFINE ra == remote_address
             moved == {adm.node.kids[i] : i \in DOMAIN adm.node.kids}
  <1>1. /\ pc = "sib" /\ pc' = "link" /\ CacheInsert(adm.addr, adm.dirty) /\ right' = page
        /\ UNCHANGED <<root_, backend, cur_offset, super>>
        /\ node' = [s \in Slot |->
                  IF s = page THEN WithParent(adm.node, cur)
                  ELSE IF s \in moved THEN WithParent(node[s], page)
                  ELSE node[s]]
    BY DEF AdmitSib, storage
  <1>2. /\ page \in Slot /\ page \notin Used /\ page # super
        /\ ra \in [Slot -> Addr] /\ ra' \in [Slot -> Addr]
        /\ ra'[page] = adm.addr /\ node \in [Slot -> NodeT]
        /\ \A s \in Slot \ {page} : ra'[s] = ra[s]
        /\ adm.node \in NodeT /\ adm.addr \in Addr
    BY <1>1, AdmitFacts
  <1>3. /\ Used \in SUBSET Slot /\ cur \in Slot \union {Super}
    BY RunningFacts DEF TreeTypes
  <1> HIDE DEF moved, ra
  <1>4. node'[page] = WithParent(adm.node, cur)
    BY <1>1, <1>2
  <1>5. Page(node'[page], ra') = Page(adm.node, ra')
    BY <1>2, <1>3, <1>4, PageWithParent
  <1>6. \A s \in Used : Page(node'[s], ra') = Page(node[s], ra')
    <2> SUFFICES ASSUME NEW s \in Used PROVE Page(node'[s], ra') = Page(node[s], ra')
      OBVIOUS
    <2>1. s \in Slot /\ s # page /\ node[s] \in NodeT
      BY <1>2, <1>3
    <2>2. node'[s] = node[s] \/ node'[s] = WithParent(node[s], page)
      BY <1>1, <2>1
    <2>3. Page(WithParent(node[s], page), ra') = Page(node[s], ra')
      BY <1>2, <2>1, PageWithParent
    <2> QED BY <2>2, <2>3
  <1>7. Stored(Q)'
    BY <1>1, <1>5, <1>6, AdmitStored DEF ra
  <1>8. At(super, ra') = At(super, ra) /\ At(page, ra') = adm.addr
    BY <1>2 DEF At
  <1>9. Rooted'
    BY <1>1, <1>8 DEF Rooted, At, ra
  <1>10. right = adm.addr /\ right \notin Slot
    BY <1>1, <1>2, SlotsAreNoAddresses DEF Stored, WaitingPage
  <1>11. Halves' = Halves
    <2>1. Halves = {adm.addr}
      BY <1>1, <1>10 DEF Halves, At
    <2>2. At(right, ra)' = adm.addr
      BY <1>1, <1>8 DEF At, ra
    <2>3. Halves' = {At(right, ra)'}
      BY <1>1 DEF Halves, ra
    <2> QED BY <2>1, <2>2, <2>3
  <1> QED BY <1>1, <1>7, <1>9, <1>11 DEF Kept

\* The new root is cached.
LEMMA AdmitRootStored ==
  ASSUME Running, Running', NEW Q \in [Addr -> NodeT], Stored(Q), Rooted, AdmitRoot
  PROVE  Stored(Q)' /\ Rooted' /\ Kept(Q, Q)
  <1> DEFINE ra == remote_address
  <1>1. /\ pc = "root" /\ pc' = "visit" /\ CacheInsert(adm.addr, adm.dirty) /\ super' = page
        /\ UNCHANGED <<root_, backend, cur_offset>>
        /\ node' = [s \in Slot |->
                IF s = page THEN WithParent(adm.node, Super)
                ELSE IF s \in {child, right} THEN WithParent(node[s], page)
                ELSE node[s]]
    BY DEF AdmitRoot, storage
  <1>2. /\ page \in Slot /\ page \notin Used
        /\ ra \in [Slot -> Addr] /\ ra' \in [Slot -> Addr]
        /\ ra'[page] = adm.addr /\ node \in [Slot -> NodeT]
        /\ adm.node \in NodeT
    BY <1>1, AdmitFacts
  <1>3. Used \in SUBSET Slot
    BY RunningFacts
  <1> HIDE DEF ra
  <1>4. node'[page] = WithParent(adm.node, Super)
    BY <1>1, <1>2
  <1>5. Page(node'[page], ra') = Page(adm.node, ra')
    BY <1>2, <1>4, PageWithParent
  <1>6. \A s \in Used : Page(node'[s], ra') = Page(node[s], ra')
    <2> SUFFICES ASSUME NEW s \in Used PROVE Page(node'[s], ra') = Page(node[s], ra')
      OBVIOUS
    <2>1. s \in Slot /\ s # page /\ node[s] \in NodeT
      BY <1>2, <1>3
    <2>2. node'[s] = node[s] \/ node'[s] = WithParent(node[s], page)
      BY <1>1, <2>1
    <2>3. Page(WithParent(node[s], page), ra') = Page(node[s], ra')
      BY <1>2, <2>1, PageWithParent
    <2> QED BY <2>2, <2>3
  <1>7. Stored(Q)'
    BY <1>1, <1>5, <1>6, AdmitStored DEF ra
  <1>8. root_ = adm.addr
    BY <1>1 DEF Rooted
  <1>9. Rooted'
    BY <1>1, <1>2, <1>8 DEF Rooted, At, ra
  <1> QED BY <1>1, <1>7, <1>9 DEF Kept, Halves

-----------------------------------------------------------------------------
(* Writes *)

\* A step that dirties what it writes, the slots S, and stores the new pages Y.
Rewrites(Q, P, S, Y) ==
  /\ MarkDirty(S) /\ S \in SUBSET Used /\ \A s \in Slot \ S : node'[s] = node[s]
  /\ cur_offset' \in Nat /\ cur_offset <= cur_offset'
  /\ Y \in SUBSET Addr /\ Y \cap Live = {}
  /\ \A s \in S : P[remote_address[s]] = Page(node'[s], remote_address)
  /\ \A a \in Addr \ Y : backend'[a] = backend[a]
  /\ \A a \in Addr \ Y : (\A s \in S : remote_address[s] # a) => P[a] = Q[a]
  /\ \A a \in Y : /\ Bare(backend'[a].node)
                  /\ backend'[a].node = P[a] \/ (pc' \in {"sib", "root"} /\ a = adm'.addr)

\* It leaves the pages where they are.
LEMMA RewriteStored ==
  ASSUME Running, NEW Q \in [Addr -> NodeT], NEW P \in [Addr -> NodeT], Stored(Q),
         pc \notin {"sib", "root"}, NEW S, NEW Y, Rewrites(Q, P, S, Y)
  PROVE  CachedPages(P)' /\ UncachedPages(P)' /\ Used' = Used /\ remote_address' = remote_address
  <1> DEFINE ra == remote_address
  <1>1. /\ ra \in [Slot -> Addr] /\ node \in [Slot -> NodeT] /\ Used \in SUBSET Slot /\ Live \in SUBSET Addr
        /\ cur_offset \in Nat
    BY RunningFacts, SlotsAreNoAddresses DEF TreeTypes
  <1>a. /\ MarkDirty(S) /\ S \in SUBSET Used /\ \A s \in Slot \ S : node'[s] = node[s]
        /\ cur_offset' \in Nat /\ cur_offset <= cur_offset'
        /\ Y \in SUBSET Addr /\ Y \cap Live = {}
    BY DEF Rewrites
  <1>b. /\ \A s \in S : P[ra[s]] = Page(node'[s], ra)
        /\ \A a \in Addr \ Y : backend'[a] = backend[a]
        /\ \A a \in Addr \ Y : (\A s \in S : ra[s] # a) => P[a] = Q[a]
        /\ \A a \in Y : /\ Bare(backend'[a].node)
                        /\ backend'[a].node = P[a] \/ (pc' \in {"sib", "root"} /\ a = adm'.addr)
    BY DEF Rewrites
  <1>2. Used' = Used /\ ra' = ra
    BY <1>a, WriteKeepsUsed DEF Running, MarkDirty
  <1>3. \A s \in Slot : ~dirty'[s] => s \notin S /\ ~dirty[s]
    BY <1>a DEF MarkDirty
  <1>4. \A a \in Live : a \in Live'
    <2> SUFFICES ASSUME NEW a \in 1 .. cur_offset - 1 PROVE a \in 1 .. cur_offset' - 1
      BY DEF Live
    <2>1. cur_offset \in Nat /\ cur_offset' \in Nat /\ cur_offset <= cur_offset'
      BY <1>1, <1>a
    <2>2. ASSUME NEW c \in Nat, NEW d \in Nat, c <= d, NEW b \in 1 .. c - 1 PROVE b \in 1 .. d - 1
      BY <2>2
    <2> QED BY <2>1, <2>2
  <1>5. /\ \A s \in Used : ra[s] \in Live /\ Q[ra[s]] = Page(node[s], ra)
        /\ \A s, t \in Used : ra[s] = ra[t] => s = t
        /\ \A s \in Used : ~dirty[s] => backend[ra[s]].node = Q[ra[s]]
    BY DEF Stored, CachedPages
  <1> HIDE DEF ra
  <1>6. \A s \in Used : ra[s] \in Addr \ Y /\ backend'[ra[s]] = backend[ra[s]]
    BY <1>1, <1>5, <1>a, <1>b
  <1>7. \A s \in Used \ S : P[ra[s]] = Q[ra[s]] /\ node'[s] = node[s]
    <2> SUFFICES ASSUME NEW s \in Used \ S PROVE P[ra[s]] = Q[ra[s]] /\ node'[s] = node[s]
      OBVIOUS
    <2>1. \A t \in S : ra[t] # ra[s]
      BY <1>5, <1>a
    <2>2. ra[s] \in Addr \ Y /\ s \in Slot
      BY <1>1, <1>6
    <2> QED BY <1>a, <1>b, <2>1, <2>2
  <1>8. \A s \in Used : P[ra[s]] = Page(node'[s], ra)
    BY <1>5, <1>7, <1>b
  <1>9. ASSUME NEW s \in Used, ~dirty'[s] PROVE backend'[ra[s]].node = P[ra[s]]
    <2>1. s \notin S /\ ~dirty[s]
      BY <1>1, <1>3, <1>9
    <2> QED BY <1>5, <1>6, <1>7, <2>1
  <1>10. CachedPages(P)'
    <2>1. \A s \in Used' : ra'[s] \in Live' /\ P[ra'[s]] = Page(node'[s], ra')
      BY <1>2, <1>4, <1>5, <1>8
    <2>2. \A s, t \in Used' : ra'[s] = ra'[t] => s = t
      BY <1>2, <1>5
    <2>3. \A s \in Used' : ~dirty'[s] => backend'[ra'[s]].node = P[ra'[s]]
      BY <1>2, <1>9
    <2> QED BY <2>1, <2>2, <2>3 DEF CachedPages, ra
  <1>11. UncachedPages(P)'
    <2> SUFFICES ASSUME NEW a \in Addr
                 PROVE  /\ Bare(backend'[a].node)
                        /\ backend'[a].node = P[a] \/ Cached(a)' \/ (pc' \in {"sib", "root"} /\ a = adm'.addr)
      BY DEF UncachedPages
    <2>1. Cached(a)' <=> \E s \in Used : ra[s] = a
      BY <1>2 DEF Cached, ra
    <2>2. CASE a \in Y
      BY <1>b, <2>2
    <2>3. CASE a \notin Y
      <3>1. backend'[a] = backend[a] /\ Bare(backend[a].node) /\ (backend[a].node = Q[a] \/ Cached(a))
        BY <1>b, <2>3 DEF Stored, UncachedPages
      <3>2. Cached(a) <=> Cached(a)'
        BY <2>1 DEF Cached, ra
      <3>3. ~Cached(a) => P[a] = Q[a]
        BY <1>a, <1>b, <2>3 DEF Cached, ra
      <3> QED BY <3>1, <3>2, <3>3
    <2> QED BY <2>2, <2>3
  <1> QED BY <1>2, <1>10, <1>11 DEF ra

\* A leaf operation writes the entries of one page.
Wrote(Q, P) ==
  /\ pc = "leaf" /\ Halves' = Halves /\ UNCHANGED <<root_, cur_offset>>
  /\ P = [Q EXCEPT ![remote_address[cur]] = [@ EXCEPT !.data = node'[cur].data]]

\* Insert, update and remove write it; the other operations write nothing.
LEMMA LeafStored ==
  ASSUME Running, NEW Q \in [Addr -> NodeT], Stored(Q), Rooted, LeafStep
  PROVE  \E P \in [Addr -> NodeT] : Stored(P)' /\ Rooted' /\ Wrote(Q, P)
  <1> DEFINE ra == remote_address
  <1>1. /\ ra \in [Slot -> Addr] /\ node \in [Slot -> NodeT] /\ TreeTypes /\ Wiring /\ Used \in SUBSET Slot
        /\ cur_offset \in Nat
    BY RunningFacts, SlotsAreNoAddresses DEF TreeTypes
  <1>2. pc = "leaf"
    BY DEF LeafStep, LeafInsert, LeafLookup, LeafUpdate, LeafRemove, LeafScan, LeafCtor, Finish
  <1>3. cur \in Used /\ cur \in Slot
    BY <1>1, <1>2 DEF Wiring, CurHere
  <1>4. PICK n \in NodeT, wrote \in BOOLEAN :
             /\ SameFrame(n, node[cur]) /\ (wrote \/ n = node[cur])
             /\ \E res : Finish(n, wrote, res)
    BY <1>1, <1>3, LeafSteps
  <1>5. PICK res : Finish(n, wrote, res)
    BY <1>4
  <1>6. /\ MarkDirty(IF wrote THEN {cur} ELSE {}) /\ node' = [node EXCEPT ![cur] = n]
        /\ pc' = "idle" /\ UNCHANGED <<super, root_, backend, cur_offset, right, adm>>
    BY <1>5 DEF Finish, storage, split
  <1>7. node'[cur] = n /\ \A s \in Slot \ {cur} : node'[s] = node[s]
    BY <1>1, <1>3, <1>6
  <1> DEFINE a == ra[cur]
  <1>8. a \in Addr /\ Q[a] = Page(node[cur], ra) /\ Q[a] \in NodeT /\ node[cur] \in NodeT
    BY <1>1, <1>3 DEF Stored, CachedPages
  <1>9. Page(n, ra) = [Q[a] EXCEPT !.data = n.data] /\ Page(n, ra) \in NodeT
    BY <1>1, <1>4, <1>8, PageEntries, PageFacts
  <1>10. PICK P : P = [Q EXCEPT ![a] = Page(n, ra)]
    OBVIOUS
  <1>11. P \in [Addr -> NodeT] /\ P[a] = Page(n, ra) /\ \A b \in Addr \ {a} : P[b] = Q[b]
    BY <1>8, <1>9, <1>10
  <1>12. P = [Q EXCEPT ![ra[cur]] = [@ EXCEPT !.data = node'[cur].data]]
    BY <1>7, <1>8, <1>9, <1>10
  <1>13. CachedPages(P)' /\ UncachedPages(P)' /\ ra' = ra
    <2> HIDE DEF ra, a
    <2>0. \A b \in Addr \ {} : backend'[b] = backend[b]
      BY <1>6
    <2>1. CASE wrote
      <3>1. MarkDirty({cur}) /\ {cur} \in SUBSET Used
        BY <1>3, <1>6, <2>1
      <3>2. \A s \in {cur} : P[ra[s]] = Page(node'[s], ra)
        BY <1>7, <1>11 DEF a
      <3>3. \A b \in Addr \ {} : (\A s \in {cur} : ra[s] # b) => P[b] = Q[b]
        BY <1>11 DEF a
      <3>4. cur_offset' \in Nat /\ cur_offset <= cur_offset'
        BY <1>1, <1>6
      <3>5. Rewrites(Q, P, {cur}, {})
        BY <1>7, <2>0, <3>1, <3>2, <3>3, <3>4 DEF Rewrites, ra
      <3> QED BY <1>2, <1>11, <3>5, RewriteStored DEF ra
    <2>2. CASE ~wrote
      <3>1. MarkDirty({}) /\ {} \in SUBSET Used
        BY <1>6, <2>2
      <3>2. n = node[cur]
        BY <1>4, <2>2
      <3>3. P[a] = Q[a]
        BY <1>8, <1>11, <3>2
      <3>4. \A b \in Addr \ {} : P[b] = Q[b]
        BY <1>11, <3>3
      <3>5. \A s \in Slot \ {} : node'[s] = node[s]
        BY <1>7, <3>2
      <3>6. cur_offset' \in Nat /\ cur_offset <= cur_offset'
        BY <1>1, <1>6
      <3>7. Rewrites(Q, P, {}, {})
        BY <2>0, <3>1, <3>4, <3>5, <3>6 DEF Rewrites
      <3> QED BY <1>2, <1>11, <3>7, RewriteStored DEF ra
    <2> QED BY <2>1, <2>2
  <1>14. WaitingPage(P)'
    BY <1>6 DEF WaitingPage
  <1>15. Rooted' /\ Halves' = Halves
    BY <1>2, <1>6, <1>13 DEF Rooted, Halves, At
  <1>16. Stored(P)'
    BY <1>13, <1>14 DEF Stored
  <1> QED BY <1>2, <1>6, <1>11, <1>12, <1>15, <1>16 DEF Wrote

\* A page is split: its upper half gets the next address of the backend.
Halved(Q, P) ==
  /\ pc = "split" /\ cur_offset \in Addr \ Live /\ cur_offset' = cur_offset + 1 /\ root_' = root_
  /\ Halves' = {cur_offset}
  /\ SplitPage(Q[remote_address[child]], P[remote_address[child]], P[cur_offset], sep')
  /\ \A a \in Addr \ {remote_address[child], cur_offset} : P[a] = Q[a]

\* The store has room for the page that was allocated.
Fits == root_ # NullAddr /\ (Splitting => right # NullAddr)

\* alloc succeeded.
LEMMA AllocFresh ==
  ASSUME Running, AllocAddr # NullAddr
  PROVE  /\ AllocAddr = cur_offset /\ cur_offset \in Addr \ Live /\ AllocOffset = cur_offset + 1
         /\ cur_offset \notin Slot /\ cur_offset \in Nat \ {0}
  <1>1. cur_offset \in 2 .. BackendPages /\ BackendPages \in Nat
    BY RunningFacts, SlotsAreNoAddresses DEF TreeTypes
  <1>2. cur_offset < BackendPages /\ AllocAddr = cur_offset /\ AllocOffset = cur_offset + 1
    BY <1>1 DEF AllocAddr, AllocOffset
  <1>3. cur_offset \in Addr /\ cur_offset \notin Live
    BY <1>1, <1>2 DEF Addr, Live
  <1> QED BY <1>1, <1>2, <1>3, SlotsAreNoAddresses

\* The split of a leaf writes the upper half to the backend.
LEMMA SplitLeafStored ==
  ASSUME Running, NEW Q \in [Addr -> NodeT], Stored(Q), Rooted, SplitLeaf, Fits'
  PROVE  \E P \in [Addr -> NodeT] : Stored(P)' /\ Rooted' /\ Halved(Q, P)
  <1> DEFINE ra == remote_address
             n == node[child]
             y == cur_offset
  <1>1. /\ ra \in [Slot -> Addr] /\ node \in [Slot -> NodeT] /\ TreeTypes /\ Wiring /\ Used \in SUBSET Slot
        /\ Shapes /\ Live \in SUBSET Addr
    BY RunningFacts
  <1>2. /\ pc = "split" /\ n.type = "leaf" /\ MarkDirty({child})
        /\ node' = [node EXCEPT ![child] = LeafLeft(n)]
        /\ sep' = LeafSep(n) /\ right' = AllocAddr
        /\ backend' = [backend EXCEPT ![AllocAddr] = Image(LeafRight(n), TRUE)]
        /\ cur_offset' = AllocOffset /\ pc' = "link"
        /\ UNCHANGED <<super, root_, adm>>
    BY DEF SplitLeaf
  <1>3. AllocAddr # NullAddr
    BY <1>2 DEF Fits, Splitting
  <1>4. /\ AllocAddr = y /\ y \in Addr \ Live /\ cur_offset' = y + 1 /\ y \notin Slot /\ y \in Nat \ {0}
    BY <1>2, <1>3, AllocFresh
  <1>5. child \in Used /\ child \in Slot /\ isFull(n) /\ n \in NodeT /\ Shape(n)
    BY <1>1, <1>2 DEF Wiring, ChildHere, Shapes
  <1> DEFINE x == ra[child]
             l == Page(LeafLeft(n), ra)
             r == LeafRight(n)
  <1>6. x \in Live /\ x \in Addr /\ x # y /\ Q[x] = Page(n, ra)
    BY <1>1, <1>4, <1>5 DEF Stored, CachedPages
  <1> HIDE DEF n
  <1>7. SplitPage(Page(n, ra), l, r, LeafSep(n)) /\ r \in NodeT /\ Untagged(r) /\ r.parent = NoSlot
    BY <1>1, <1>2, <1>5, LeafSplitsPage
  <1>8. l \in NodeT
    BY <1>1, <1>2, <1>5, LeafHalves, PageFacts
  <1> HIDE DEF l, r
  <1>9. Image(r, TRUE).node = r
    <2>1. Image(r, TRUE).node = WithParent(r, NoSlot)
      BY <1>7, ImageFacts
    <2>2. WithParent(r, NoSlot) = Page(r, ra) /\ Page(r, ra) = r
      BY <1>1, <1>7, BarePage
    <2> QED BY <2>1, <2>2
  <1>10. PICK P : P = [Q EXCEPT ![x] = l, ![y] = r]
    OBVIOUS
  <1>11. P \in [Addr -> NodeT] /\ P[x] = l /\ P[y] = r /\ \A b \in Addr \ {x, y} : P[b] = Q[b]
    BY <1>4, <1>6, <1>7, <1>8, <1>10
  <1>12. CachedPages(P)' /\ UncachedPages(P)' /\ ra' = ra
    <2>1. node'[child] = LeafLeft(n) /\ \A s \in Slot \ {child} : node'[s] = node[s]
      BY <1>1, <1>2, <1>5
    <2>2. \A s \in {child} : P[ra[s]] = Page(node'[s], ra)
      BY <1>11, <2>1 DEF l
    <2>3. \A a \in Addr \ {y} : backend'[a] = backend[a]
      BY <1>1, <1>2, <1>4 DEF TreeTypes
    <2>4. backend'[y].node = r
      BY <1>1, <1>2, <1>4, <1>9 DEF TreeTypes, r
    <2>5. \A a \in Addr \ {y} : (\A s \in {child} : ra[s] # a) => P[a] = Q[a]
      BY <1>11
    <2>6. \A a \in {y} : Bare(backend'[a].node) /\ backend'[a].node = P[a]
      BY <1>7, <1>11, <2>4 DEF Bare
    <2>7. cur_offset' \in Nat /\ cur_offset <= cur_offset' /\ {y} \in SUBSET Addr /\ {y} \cap Live = {}
      BY <1>4
    <2>8. {child} \in SUBSET Used /\ pc \notin {"sib", "root"} /\ MarkDirty({child})
      BY <1>2, <1>5
    <2> HIDE DEF ra, x, y
    <2>9. Rewrites(Q, P, {child}, {y})
      BY <2>1, <2>2, <2>3, <2>5, <2>6, <2>7, <2>8 DEF Rewrites, ra
    <2> QED BY <1>11, <2>8, <2>9, RewriteStored DEF ra
  <1>13. WaitingPage(P)'
    BY <1>2 DEF WaitingPage
  <1>14. Rooted' /\ Halves' = {y}
    <2>1. At(super, ra)' = At(super, ra)
      BY <1>2, <1>12 DEF At
    <2>2. At(right, ra)' = y
      BY <1>2, <1>4 DEF At
    <2> HIDE DEF y
    <2> QED BY <1>2, <2>1, <2>2 DEF Rooted, Halves
  <1>15. Stored(P)'
    BY <1>12, <1>13 DEF Stored
  <1>16. Halved(Q, P)
    BY <1>2, <1>4, <1>6, <1>7, <1>11, <1>14 DEF Halved
  <1> QED BY <1>11, <1>14, <1>15, <1>16

\* The upper half of a split inner node waits for a slot.
LEMMA SplitInnerStored ==
  ASSUME Running, NEW Q \in [Addr -> NodeT], Stored(Q), Rooted, SplitInner, Fits'
  PROVE  \E P \in [Addr -> NodeT] : Stored(P)' /\ Rooted' /\ Halved(Q, P)
  <1> DEFINE ra == remote_address
             n == node[child]
             y == cur_offset
  <1>1. /\ ra \in [Slot -> Addr] /\ node \in [Slot -> NodeT] /\ TreeTypes /\ Wiring /\ Used \in SUBSET Slot
        /\ Shapes /\ Live \in SUBSET Addr
    BY RunningFacts
  <1>2. /\ pc = "split" /\ n.type = "inner" /\ MarkDirty({child})
        /\ node' = [node EXCEPT ![child] = InnerLeft(n)]
        /\ sep' = InnerSep(n) /\ right' = AllocAddr
        /\ adm' = [node |-> InnerRight(n), addr |-> AllocAddr, dirty |-> TRUE, idx |-> 0]
        /\ cur_offset' = AllocOffset /\ pc' = "sib"
        /\ UNCHANGED <<super, root_, backend>>
    BY DEF SplitInner
  <1>3. AllocAddr # NullAddr
    BY <1>2 DEF Fits, Splitting
  <1>4. /\ AllocAddr = y /\ y \in Addr \ Live /\ cur_offset' = y + 1 /\ y \notin Slot /\ y \in Nat \ {0}
    BY <1>2, <1>3, AllocFresh
  <1>5. child \in Used /\ child \in Slot /\ isFull(n) /\ n \in NodeT /\ Shape(n)
    BY <1>1, <1>2 DEF Wiring, ChildHere, Shapes
  <1> DEFINE x == ra[child]
             l == Page(InnerLeft(n), ra)
             r == Page(InnerRight(n), ra)
  <1>6. x \in Live /\ x \in Addr /\ x # y /\ Q[x] = Page(n, ra)
    BY <1>1, <1>4, <1>5 DEF Stored, CachedPages
  <1> HIDE DEF n
  <1>7. SplitPage(Page(n, ra), l, r, InnerSep(n))
    BY <1>1, <1>2, <1>5, InnerSplitsPage
  <1>8. l \in NodeT /\ r \in NodeT
    BY <1>1, <1>2, <1>5, InnerHalves, PageFacts
  <1> HIDE DEF l, r
  <1>10. PICK P : P = [Q EXCEPT ![x] = l, ![y] = r]
    OBVIOUS
  <1>11. P \in [Addr -> NodeT] /\ P[x] = l /\ P[y] = r /\ \A b \in Addr \ {x, y} : P[b] = Q[b]
    BY <1>4, <1>6, <1>8, <1>10
  <1>a. adm'.node = InnerRight(n) /\ adm'.addr = y /\ adm'.dirty = TRUE
    BY <1>2, <1>4
  <1>12. CachedPages(P)' /\ UncachedPages(P)' /\ ra' = ra /\ Used' = Used
    <2>1. node'[child] = InnerLeft(n) /\ \A s \in Slot \ {child} : node'[s] = node[s]
      BY <1>1, <1>2, <1>5
    <2>2. \A s \in {child} : P[ra[s]] = Page(node'[s], ra)
      BY <1>11, <2>1 DEF l
    <2>3. \A a \in Addr \ {y} : backend'[a] = backend[a]
      BY <1>2
    <2>5. \A a \in Addr \ {y} : (\A s \in {child} : ra[s] # a) => P[a] = Q[a]
      BY <1>11
    <2>6. \A a \in {y} : Bare(backend'[a].node) /\ pc' \in {"sib", "root"} /\ a = adm'.addr
      BY <1>2, <1>4, <1>a DEF Stored, UncachedPages
    <2>7. cur_offset' \in Nat /\ cur_offset <= cur_offset' /\ {y} \in SUBSET Addr /\ {y} \cap Live = {}
      BY <1>4
    <2>8. {child} \in SUBSET Used /\ pc \notin {"sib", "root"} /\ MarkDirty({child})
      BY <1>2, <1>5
    <2> HIDE DEF ra, x, y
    <2>9. Rewrites(Q, P, {child}, {y})
      BY <2>1, <2>2, <2>3, <2>5, <2>6, <2>7, <2>8 DEF Rewrites, ra
    <2> QED BY <1>11, <2>8, <2>9, RewriteStored DEF ra
  <1>13. WaitingPage(P)'
    <2>1. (adm.addr \in Live)'
      BY <1>4, <1>a DEF Live
    <2>2. ~Cached(adm.addr)'
      <3>1. \A s \in Used : ra[s] # y
        BY <1>4 DEF Stored, CachedPages
      <3> QED BY <1>12, <1>a, <3>1 DEF Cached
    <2>3. P[adm'.addr] = Page(adm'.node, ra')
      BY <1>11, <1>12, <1>a DEF r
    <2>4. right' = adm'.addr
      BY <1>2, <1>4, <1>a
    <2> QED BY <1>2, <1>a, <2>1, <2>2, <2>3, <2>4 DEF WaitingPage
  <1>14. Rooted' /\ Halves' = {y}
    <2>1. At(super, ra)' = At(super, ra)
      BY <1>2, <1>12 DEF At
    <2>2. At(right, ra)' = y
      BY <1>2, <1>4 DEF At
    <2> HIDE DEF y
    <2> QED BY <1>2, <2>1, <2>2 DEF Rooted, Halves
  <1>15. Stored(P)'
    BY <1>12, <1>13 DEF Stored
  <1>16. Halved(Q, P)
    BY <1>2, <1>4, <1>6, <1>7, <1>11, <1>14 DEF Halved
  <1> QED BY <1>11, <1>14, <1>15, <1>16

-----------------------------------------------------------------------------
(* The end of a split *)

\* The parent of a split page gets the new half as a child.
Joined(Q, P) ==
  /\ pc = "link" /\ cur # Super /\ UNCHANGED <<root_, cur_offset>> /\ Halves' = {}
  /\ remote_address[cur] \in Live
  /\ LinkPage(Q[remote_address[cur]], P[remote_address[cur]], sep, At(right, remote_address))
  /\ \A a \in Addr \ {remote_address[cur]} : P[a] = Q[a]

\* A new root is put over the two halves of the old one.
Grown(Q, P) ==
  /\ pc = "link" /\ cur = Super /\ root_' = cur_offset /\ Halves' = {}
  /\ cur_offset \in Addr \ Live /\ cur_offset' = cur_offset + 1
  /\ RootPage(P[cur_offset], Q[root_].level + 1, sep, root_, At(right, remote_address))
  /\ \A a \in Addr \ {cur_offset} : P[a] = Q[a]

\* BTreeInner::insert writes the parent.
LEMMA LinkSiblingStored ==
  ASSUME Running, NEW Q \in [Addr -> NodeT], Stored(Q), Rooted, LinkSibling
  PROVE  \E P \in [Addr -> NodeT] : Stored(P)' /\ Rooted' /\ Joined(Q, P)
  <1> DEFINE ra == remote_address
             n == node[cur]
             q == InnerInsert(n, sep, right)
             x == ra[cur]
  <1>1. /\ ra \in [Slot -> Addr] /\ node \in [Slot -> NodeT] /\ TreeTypes /\ Wiring /\ Used \in SUBSET Slot
        /\ Shapes /\ Live \in SUBSET Addr /\ cur_offset \in Nat
    BY RunningFacts, SlotsAreNoAddresses DEF TreeTypes
  <1>2. /\ pc = "link" /\ cur # Super /\ MarkDirty({cur})
        /\ node' = [node EXCEPT ![cur] = q]
        /\ pc' \in {"visit", "sibling"}
        /\ UNCHANGED <<super, root_, backend, cur_offset, adm>>
    BY DEF LinkSibling, Forget, storage, split
  <1>3. cur \in Used /\ cur \in Slot /\ n.type = "inner" /\ sep \in Key /\ right \in Ref
    BY <1>1, <1>2 DEF Wiring, CurHere, Used, TreeTypes
  <1>4. n \in NodeT /\ Shape(n)
    BY <1>1, <1>3 DEF TreeTypes, Shapes
  <1>5. LinkPage(Page(n, ra), Page(q, ra), sep, At(right, ra)) /\ q \in NodeT
    BY <1>1, <1>3, <1>4, InsertLinksPage
  <1>6. x \in Addr /\ x \in Live /\ Q[x] = Page(n, ra)
    BY <1>1, <1>3 DEF Stored, CachedPages
  <1> HIDE DEF q
  <1>7. Page(q, ra) \in NodeT
    BY <1>1, <1>5, PageFacts
  <1>8. PICK P : P = [Q EXCEPT ![x] = Page(q, ra)]
    OBVIOUS
  <1>9. P \in [Addr -> NodeT] /\ P[x] = Page(q, ra) /\ \A b \in Addr \ {x} : P[b] = Q[b]
    BY <1>6, <1>7, <1>8
  <1>10. CachedPages(P)' /\ UncachedPages(P)' /\ ra' = ra
    <2>1. node'[cur] = q /\ \A s \in Slot \ {cur} : node'[s] = node[s]
      BY <1>1, <1>2, <1>3
    <2>2. \A s \in {cur} : P[ra[s]] = Page(node'[s], ra)
      BY <1>9, <2>1
    <2>3. \A a \in Addr \ {} : backend'[a] = backend[a]
      BY <1>2
    <2>4. \A a \in Addr \ {} : (\A s \in {cur} : ra[s] # a) => P[a] = Q[a]
      BY <1>9
    <2>5. cur_offset' \in Nat /\ cur_offset <= cur_offset'
      BY <1>1, <1>2
    <2>6. {cur} \in SUBSET Used /\ pc \notin {"sib", "root"} /\ MarkDirty({cur})
      BY <1>2, <1>3
    <2> HIDE DEF ra, x
    <2>7. Rewrites(Q, P, {cur}, {})
      BY <2>1, <2>2, <2>3, <2>4, <2>5, <2>6 DEF Rewrites, ra
    <2> QED BY <1>9, <2>6, <2>7, RewriteStored DEF ra
  <1>11. WaitingPage(P)'
    BY <1>2 DEF WaitingPage
  <1>12. Rooted' /\ Halves' = {}
    BY <1>2, <1>10 DEF Rooted, Halves, At
  <1>13. Stored(P)'
    BY <1>10, <1>11 DEF Stored
  <1>14. Joined(Q, P)
    BY <1>2, <1>5, <1>6, <1>9, <1>12 DEF Joined
  <1> QED BY <1>9, <1>12, <1>13, <1>14

\* make_new_root has a page for the root, and no slot yet.
LEMMA MakeNewRootStored ==
  ASSUME Running, NEW Q \in [Addr -> NodeT], Stored(Q), Rooted, MakeNewRoot, Fits'
  PROVE  \E P \in [Addr -> NodeT] : Stored(P)' /\ Rooted' /\ Grown(Q, P)
  <1> DEFINE ra == remote_address
             n == Inner(node[child].level + 1, <<sep>>, <<child, right>>,
                        {1} \union (IF right \in Slot THEN {2} ELSE {}), MinLimit, MaxLimit)
             y == cur_offset
  <1>1. /\ ra \in [Slot -> Addr] /\ node \in [Slot -> NodeT] /\ TreeTypes /\ Wiring /\ Used \in SUBSET Slot
        /\ Live \in SUBSET Addr
    BY RunningFacts
  <1>2. /\ pc = "link" /\ cur = Super /\ pc' = "root" /\ root_' = AllocAddr
        /\ cur_offset' = AllocOffset
        /\ adm' = [node |-> n, addr |-> AllocAddr, dirty |-> TRUE, idx |-> 0]
        /\ UNCHANGED <<poolVars, node, super, backend, right>>
    BY DEF MakeNewRoot, split
  <1>3. AllocAddr # NullAddr
    BY <1>2 DEF Fits
  <1>4. /\ AllocAddr = y /\ y \in Addr \ Live /\ cur_offset' = y + 1 /\ y \notin Slot /\ y \in Nat \ {0}
    BY <1>2, <1>3, AllocFresh
  <1>5. child \in Used /\ child \in Slot /\ super = child /\ sep \in Key /\ right \in Ref
    BY <1>1, <1>2 DEF Wiring, ChildHere, Used, TreeTypes
  <1>6. child # right
    BY <1>1, <1>2, <1>5 DEF Wiring, RightHere
  <1>7. node[child] \in NodeT /\ ra[child] = root_ /\ Q[root_] = Page(node[child], ra) /\ root_ \in Live
    BY <1>1, <1>2, <1>5 DEF Stored, CachedPages, Rooted, At
  <1>8. node[child].level + 1 \in Nat /\ Q[root_].level = node[child].level
    <2>1. node[child].level \in Nat
      BY <1>7 DEF NodeT
    <2>2. SameText(Page(node[child], ra), node[child])
      BY <1>1, <1>7, PageFacts
    <2> QED BY <1>7, <2>1, <2>2 DEF SameText
  <1>9. /\ n \in NodeT /\ RootPage(Page(n, ra), node[child].level + 1, sep, At(child, ra), At(right, ra))
    BY <1>1, <1>5, <1>6, <1>8, NewRootPage
  <1>10. At(child, ra) = root_
    BY <1>5, <1>7 DEF At
  <1> HIDE DEF n
  <1>11. Page(n, ra) \in NodeT
    BY <1>1, <1>9, PageFacts
  <1>12. PICK P : P = [Q EXCEPT ![y] = Page(n, ra)]
    OBVIOUS
  <1>13. P \in [Addr -> NodeT] /\ P[y] = Page(n, ra) /\ \A b \in Addr \ {y} : P[b] = Q[b]
    BY <1>4, <1>11, <1>12
  <1>14. /\ Used' = Used /\ ra' = ra /\ dirty' = dirty
    BY <1>2, StillPool DEF poolVars, pages, Running
  <1>15. adm'.node = n /\ adm'.addr = y /\ adm'.dirty = TRUE
    BY <1>2, <1>4
  <1>16. \A a \in Live : a \in Live' /\ a # y /\ a \in Addr
    <2>1. ASSUME NEW c \in Nat, NEW a \in 1 .. c - 1 PROVE a \in 1 .. (c + 1) - 1
      BY <2>1
    <2> QED BY <1>1, <1>4, <2>1 DEF Live
  <1>17. \A s \in Used : ra[s] \in Live /\ Q[ra[s]] = Page(node[s], ra)
    BY DEF Stored, CachedPages
  <1>18. \A s \in Used : P[ra[s]] = Q[ra[s]] /\ ra[s] # y
    BY <1>13, <1>16, <1>17
  <1>19. CachedPages(P)'
    <2>1. \A s \in Used' : ra'[s] \in Live' /\ P[ra'[s]] = Page(node'[s], ra')
      BY <1>2, <1>14, <1>16, <1>17, <1>18
    <2>2. \A s, t \in Used' : ra'[s] = ra'[t] => s = t
      BY <1>14 DEF Stored, CachedPages
    <2>3. \A s \in Used' : ~dirty'[s] => backend'[ra'[s]].node = P[ra'[s]]
      BY <1>2, <1>14, <1>18 DEF Stored, CachedPages
    <2> HIDE DEF y
    <2> QED BY <2>1, <2>2, <2>3 DEF CachedPages
  <1>20. UncachedPages(P)'
    <2> SUFFICES ASSUME NEW a \in Addr
                 PROVE  /\ Bare(backend'[a].node)
                        /\ backend'[a].node = P[a] \/ Cached(a)' \/ (pc' \in {"sib", "root"} /\ a = adm'.addr)
      BY DEF UncachedPages
    <2>1. Bare(backend[a].node) /\ (backend[a].node = Q[a] \/ Cached(a))
      BY <1>2 DEF Stored, UncachedPages
    <2>2. Cached(a)' <=> Cached(a)
      BY <1>14 DEF Cached
    <2> QED BY <1>2, <1>13, <1>15, <2>1, <2>2
  <1>21. WaitingPage(P)'
    <2>1. (adm.addr \in Live)'
      BY <1>4, <1>15 DEF Live
    <2>2. ~Cached(adm.addr)'
      BY <1>14, <1>15, <1>18 DEF Cached
    <2>3. P[adm'.addr] = Page(adm'.node, ra')
      BY <1>13, <1>14, <1>15
    <2> QED BY <1>2, <1>15, <2>1, <2>2, <2>3 DEF WaitingPage
  <1>22. Rooted' /\ Halves' = {}
    BY <1>2, <1>4, <1>15 DEF Rooted, Halves
  <1>23. Stored(P)'
    BY <1>19, <1>20, <1>21 DEF Stored
  <1>24. Grown(Q, P)
    <2>1. RootPage(P[y], Q[root_].level + 1, sep, root_, At(right, ra))
      BY <1>8, <1>9, <1>10, <1>13
    <2> QED BY <1>2, <1>4, <1>13, <1>22, <2>1 DEF Grown
  <1> QED BY <1>13, <1>22, <1>23, <1>24

-----------------------------------------------------------------------------
(* The sampler and the destructor *)

\* The slots S give up their pages, which the backend has by then.
Settles(Q, S) ==
  /\ S \in SUBSET Used /\ Used' = Used \ S
  /\ UNCHANGED <<remote_address, cur_offset, pc, adm, right>>
  /\ \A s \in Used' : Page(node'[s], remote_address) = Page(node[s], remote_address) /\ dirty'[s] = dirty[s]
  /\ \A s \in S : Bare(backend'[remote_address[s]].node)
                  /\ backend'[remote_address[s]].node = Q[remote_address[s]]
  /\ \A a \in Addr : (\A s \in S : remote_address[s] # a) => backend'[a] = backend[a]
  /\ pc = "load" => ChildRef(adm.idx)' = ChildRef(adm.idx)

\* The pages are where they have to be.
LEMMA SettleStored ==
  ASSUME Running, NEW Q \in [Addr -> NodeT], Stored(Q), NEW S, Settles(Q, S)
  PROVE  Stored(Q)'
  <1> DEFINE ra == remote_address
  <1>1. /\ ra \in [Slot -> Addr] /\ Used \in SUBSET Slot /\ Live \in SUBSET Addr /\ adm.addr \in Addr
    BY RunningFacts
  <1>2. /\ S \in SUBSET Used /\ Used' = Used \ S /\ ra' = ra
        /\ UNCHANGED <<cur_offset, pc, adm, right>>
    BY DEF Settles
  <1>3. /\ \A s \in Used' : Page(node'[s], ra) = Page(node[s], ra) /\ dirty'[s] = dirty[s]
        /\ \A s \in S : Bare(backend'[ra[s]].node) /\ backend'[ra[s]].node = Q[ra[s]]
        /\ \A a \in Addr : (\A s \in S : ra[s] # a) => backend'[a] = backend[a]
    BY DEF Settles
  <1>4. /\ \A s \in Used : ra[s] \in Live /\ Q[ra[s]] = Page(node[s], ra)
        /\ \A s, t \in Used : ra[s] = ra[t] => s = t
        /\ \A s \in Used : ~dirty[s] => backend[ra[s]].node = Q[ra[s]]
    BY DEF Stored, CachedPages
  <1>5. Live' = Live
    BY <1>2 DEF Live
  <1> HIDE DEF ra
  <1>6. \A s \in Used' : s \in Used /\ ra[s] \in Addr /\ backend'[ra[s]] = backend[ra[s]]
    <2> SUFFICES ASSUME NEW s \in Used' PROVE s \in Used /\ ra[s] \in Addr /\ backend'[ra[s]] = backend[ra[s]]
      OBVIOUS
    <2>1. s \in Used /\ s \in Slot /\ s \notin S /\ ra[s] \in Addr
      BY <1>1, <1>2
    <2>2. \A t \in S : ra[t] # ra[s]
      BY <1>2, <1>4, <2>1
    <2> QED BY <1>3, <2>1, <2>2
  <1>7. CachedPages(Q)'
    <2>1. \A s \in Used' : ra'[s] \in Live' /\ Q[ra'[s]] = Page(node'[s], ra')
      BY <1>2, <1>3, <1>4, <1>5, <1>6
    <2>2. \A s, t \in Used' : ra'[s] = ra'[t] => s = t
      BY <1>2, <1>4, <1>6
    <2>3. \A s \in Used' : ~dirty'[s] => backend'[ra'[s]].node = Q[ra'[s]]
      BY <1>2, <1>3, <1>4, <1>6
    <2> QED BY <2>1, <2>2, <2>3 DEF CachedPages, ra
  <1>8. \A a : Cached(a)' => Cached(a)
    BY <1>2 DEF Cached, ra
  <1>9. UncachedPages(Q)'
    <2> SUFFICES ASSUME NEW a \in Addr
                 PROVE  /\ Bare(backend'[a].node)
                        /\ backend'[a].node = Q[a] \/ Cached(a)' \/ (pc' \in {"sib", "root"} /\ a = adm'.addr)
      BY DEF UncachedPages
    <2>1. CASE \E s \in S : ra[s] = a
      BY <1>3, <2>1
    <2>2. CASE \A s \in S : ra[s] # a
      <3>1. /\ backend'[a] = backend[a] /\ Bare(backend[a].node)
            /\ \/ backend[a].node = Q[a]
               \/ Cached(a)
               \/ pc \in {"sib", "root"} /\ a = adm.addr
        BY <1>3, <2>2 DEF Stored, UncachedPages
      <3>2. Cached(a) => Cached(a)'
        BY <1>2, <2>2 DEF Cached, ra
      <3> QED BY <1>2, <3>1, <3>2
    <2> QED BY <2>1, <2>2
  <1>10. WaitingPage(Q)'
    <2>1. pc \in {"load", "sib", "root"} => adm.addr \in Live /\ ~Cached(adm.addr)
      BY DEF Stored, WaitingPage
    <2>2. pc \in {"load", "sib", "root"} => backend'[adm.addr] = backend[adm.addr]
      BY <1>1, <1>2, <1>3, <2>1 DEF Cached, ra
    <2>3. (pc \in {"load", "sib", "root"} => adm.addr \in Live /\ ~Cached(adm.addr))'
      BY <1>2, <1>5, <1>8, <2>1
    <2>4. (pc \in {"sib", "root"} => Q[adm.addr] = Page(adm.node, remote_address) /\ adm.dirty = TRUE)'
      BY <1>2 DEF Stored, WaitingPage, ra
    <2>5. (pc = "sib" => right = adm.addr)'
      BY <1>2 DEF Stored, WaitingPage
    <2>6. ASSUME pc = "load" PROVE adm.addr = ChildRef(adm.idx)' /\ adm.node = backend'[adm.addr].node
      BY <2>2, <2>6 DEF Stored, WaitingPage, Settles
    <2>7. (pc = "load" => adm.addr = ChildRef(adm.idx) /\ adm.node = backend[adm.addr].node)'
      BY <1>2, <2>6
    <2> QED BY <2>3, <2>4, <2>5, <2>7 DEF WaitingPage
  <1> QED BY <1>7, <1>9, <1>10 DEF Stored

\* The page that is demoted is in the backend; its parent names it by its address.
LEMMA SampleDemoteStored ==
  ASSUME Running, Running', NEW Q \in [Addr -> NodeT], Stored(Q), Rooted,
         NEW s \in Slot, SampleDemote(s), s \notin Held
  PROVE  Stored(Q)' /\ Rooted' /\ Kept(Q, Q)
  <1> DEFINE ra == remote_address
             p == node[s].parent
             i == findIdx(node[p], s)
             a == ra[s]
             u == Unswizzle(node[p], i, a)
             z == WithParent(node[s], NoSlot)
  <1>1. /\ Sampled(s) /\ p \in Slot /\ i # 0 /\ SamplePage(s)
        /\ backend' = IF dirty[s] THEN [backend EXCEPT ![a] = Image(node[s], FALSE)] ELSE backend
        /\ node' = [node EXCEPT ![p] = u, ![s] = WithParent(@, NoSlot)]
        /\ UNCHANGED <<super, root_, cur_offset, pc, op, cur, child, sep, right, adm>>
    BY DEF SampleDemote, Demote, Parent, walk, split
  <1>2. /\ s \in Used /\ Used' = Used \ {s} /\ phase = "sample" /\ pos_state[s] = 2
        /\ ra' = ra /\ dirty' = [dirty EXCEPT ![s] = FALSE]
    BY <1>1, DemoteTakesUsed DEF Running
  <1>3. /\ ra \in [Slot -> Addr] /\ node \in [Slot -> NodeT] /\ TreeTypes /\ Wiring /\ Used \in SUBSET Slot
        /\ Shapes /\ dirty \in [Slot -> BOOLEAN] /\ PcPhase /\ SlotOwnership /\ OwnTypes
    BY RunningFacts
  <1>4. node[s] \in NodeT /\ node[p] \in NodeT /\ a \in Addr /\ a \in Ref /\ a \notin Slot
    BY <1>1, <1>3, SlotsAreNoAddresses DEF Ref
  <1>5. s \in Swizzled(node[p]) /\ i \in DOMAIN node[p].kids /\ node[p].kids[i] = s
    BY <1>1, <1>4, FindIdxFacts DEF Tagged
  <1>6. node[s].bitmap = {} /\ Swizzled(node[s]) = {} /\ Untagged(node[s])
    BY <1>1, <1>2, <1>3, SwizzledFacts DEF Sampled, Wiring, Wires, Untagged
  <1>7. p # s
    BY <1>5, <1>6
  <1> HIDE DEF u, z
  <1>8. \A x \in Slot : node'[x] = IF x = s THEN z ELSE IF x = p THEN u ELSE node[x]
    BY <1>1, <1>3, <1>7 DEF z
  <1>9. Page(u, ra) = Page(node[p], ra)
    <2>1. At(a, ra) = At(node[p].kids[i], ra)
      BY <1>4, <1>5 DEF At
    <2> HIDE DEF i
    <2> QED BY <1>3, <1>4, <1>5, <2>1, PageSwizzle DEF u
  <1>10. \A x \in Used' : Page(node'[x], ra) = Page(node[x], ra) /\ dirty'[x] = dirty[x]
    <2> SUFFICES ASSUME NEW x \in Used' PROVE Page(node'[x], ra) = Page(node[x], ra) /\ dirty'[x] = dirty[x]
      OBVIOUS
    <2>1. x \in Slot /\ x # s
      BY <1>2, <1>3
    <2>2. node'[x] = IF x = p THEN u ELSE node[x]
      BY <1>8, <2>1
    <2>3. Page(node'[x], ra) = Page(node[x], ra)
      BY <1>9, <2>2
    <2> QED BY <1>2, <1>3, <2>1, <2>3
  <1>11. Q[a] = Page(node[s], ra) /\ (~dirty[s] => backend[a].node = Q[a]) /\ Bare(backend[a].node)
    BY <1>2, <1>4 DEF Stored, CachedPages, UncachedPages
  <1>12. Bare(backend'[a].node) /\ backend'[a].node = Q[a]
    <2>1. CASE dirty[s]
      <3>1. backend'[a] = Image(node[s], FALSE)
        BY <1>1, <1>3, <1>4, <2>1 DEF TreeTypes
      <3>2. Image(node[s], FALSE).node = WithParent(node[s], NoSlot)
        BY <1>4, ImageFacts
      <3>3. WithParent(node[s], NoSlot) = Page(node[s], ra) /\ Bare(Page(node[s], ra))
        BY <1>3, <1>4, <1>6, BarePage, PageFacts
      <3> QED BY <1>11, <3>1, <3>2, <3>3
    <2>2. CASE ~dirty[s]
      <3>1. backend' = backend
        BY <1>1, <2>2
      <3> QED BY <1>11, <2>2, <3>1
    <2> QED BY <2>1, <2>2
  <1>13. \A b \in Addr : (\A t \in {s} : ra[t] # b) => backend'[b] = backend[b]
    BY <1>1, <1>3, <1>4 DEF TreeTypes
  <1>14. pc = "load" => ChildRef(adm.idx)' = ChildRef(adm.idx)
    <2> SUFFICES ASSUME pc = "load", cur # Super PROVE node'[cur].kids[adm.idx] = node[cur].kids[adm.idx]
      BY <1>1 DEF ChildRef
    <2>1. pin # s
      <3>1. page = NoSlot /\ s # NoSlot
        BY <1>2, <1>3, SlotAssumption DEF OwnTypes
      <3> QED BY <1>2, <1>3, <3>1 DEF SlotOwnership, OwnerTagged
    <2>2. cur # s /\ cur \in Slot
      BY <1>3, <2>1 DEF PcPhase, TreeTypes
    <2>3. adm.idx \in DOMAIN node[cur].kids /\ node[cur].kids[adm.idx] \notin Slot
      BY <1>3 DEF Wiring, AdmHere
    <2>4. u.kids = [node[p].kids EXCEPT ![i] = a]
      BY <1>4, <1>5, NodeEdits DEF u, Unswizzle, NodeT
    <2>5. cur = p => adm.idx # i
      BY <1>5, <2>3
    <2>6. node'[cur] = IF cur = p THEN u ELSE node[cur]
      BY <1>8, <2>2
    <2> HIDE DEF i, a
    <2> QED BY <2>3, <2>4, <2>5, <2>6
  <1>15. Settles(Q, {s})
    <2>1. {s} \in SUBSET Used
      BY <1>2
    <2>2. \A t \in {s} : Bare(backend'[ra[t]].node) /\ backend'[ra[t]].node = Q[ra[t]]
      BY <1>12
    <2>3. UNCHANGED <<remote_address, cur_offset, pc, adm, right>>
      BY <1>1, <1>2
    <2> QED BY <1>2, <1>10, <1>13, <1>14, <2>1, <2>2, <2>3 DEF Settles
  <1>16. Stored(Q)'
    BY <1>15, SettleStored
  <1>17. Rooted' /\ Halves' = Halves
    BY <1>1, <1>2 DEF Rooted, Halves, At
  <1> QED BY <1>1, <1>16, <1>17 DEF Kept

\* Clearing a parent pointer changes no page.
LEMMA SampleStaleStored ==
  ASSUME Running, NEW Q \in [Addr -> NodeT], Stored(Q), Rooted, NEW s \in Slot, SampleStale(s)
  PROVE  Stored(Q)' /\ Rooted' /\ Kept(Q, Q)
  <1> DEFINE ra == remote_address
             z == WithParent(node[s], NoSlot)
  <1>1. /\ node' = [node EXCEPT ![s] = z]
        /\ UNCHANGED <<poolVars, super, root_, backend, cur_offset, pc, cur, right, adm>>
    BY DEF SampleStale, storage, walk, split
  <1>2. /\ ra \in [Slot -> Addr] /\ node \in [Slot -> NodeT] /\ Used \in SUBSET Slot
    BY RunningFacts
  <1>3. Used' = Used /\ UNCHANGED <<remote_address, dirty>>
    BY <1>1, StillPool DEF poolVars, pages, Running
  <1>4. Page(z, ra) = Page(node[s], ra) /\ z.kids = node[s].kids
    BY <1>2, PageWithParent, NodeEdits
  <1> HIDE DEF z
  <1>5. \A x \in Slot : node'[x] = IF x = s THEN z ELSE node[x]
    BY <1>1, <1>2
  <1>6. \A x \in Used' : Page(node'[x], ra) = Page(node[x], ra) /\ dirty'[x] = dirty[x]
    BY <1>2, <1>3, <1>4, <1>5
  <1>7. pc = "load" => ChildRef(adm.idx)' = ChildRef(adm.idx)
    <2>1. cur # Super => cur \in Slot
      BY RunningFacts DEF TreeTypes
    <2> QED BY <1>1, <1>4, <1>5, <2>1 DEF ChildRef
  <1>8. Settles(Q, {})
    BY <1>1, <1>3, <1>6, <1>7 DEF Settles
  <1>9. Stored(Q)'
    BY <1>8, SettleStored
  <1>10. Rooted' /\ Halves' = Halves
    BY <1>1, <1>3 DEF Rooted, Halves, At
  <1> QED BY <1>1, <1>9, <1>10 DEF Kept

\* What flush_all writes is the page.
LEMMA UnswizzledPage ==
  ASSUME NEW n \in NodeT, remote_address \in [Slot -> Addr]
  PROVE  /\ Image(Unswizzled(n), FALSE).node = Page(n, remote_address)
         /\ WithParent(Unswizzled(n), NoSlot) = Page(n, remote_address)
  <1> DEFINE u == Unswizzled(n)
             ra == remote_address
  <1>1. /\ u \in NodeT /\ SameText(u, n) /\ u.bitmap = {} /\ Swizzled(u) = {}
        /\ DOMAIN n.kids = 1 .. Len(n.kids)
        /\ \A i \in DOMAIN n.kids : u.kids[i] = IF n.kids[i] \in Slot THEN ra[n.kids[i]] ELSE n.kids[i]
    BY UnswizzledFacts, NodeSeqs DEF SameText
  <1> HIDE DEF u
  <1>2. Image(u, FALSE).node = WithParent(u, NoSlot) /\ WithParent(u, NoSlot) = Page(u, ra)
    BY <1>1, ImageFacts, BarePage DEF Untagged
  <1>3. \A i \in 1 .. Len(u.kids) : At(u.kids[i], ra) = At(n.kids[i], ra)
    <2> SUFFICES ASSUME NEW i \in 1 .. Len(u.kids) PROVE At(u.kids[i], ra) = At(n.kids[i], ra)
      OBVIOUS
    <2>1. i \in DOMAIN n.kids /\ n.kids[i] \in Ref
      BY <1>1, NodeSeqs DEF SameText
    <2>2. u.kids[i] = At(n.kids[i], ra) /\ At(n.kids[i], ra) \in Addr
      BY <1>1, <2>1 DEF At, Ref
    <2> QED BY <2>2, SlotsAreNoAddresses DEF At
  <1>4. Page(u, ra) = Page(n, ra)
    BY <1>1, <1>3, SamePage
  <1> QED BY <1>2, <1>4 DEF u

\* The destructor leaves every page in the backend.
LEMMA DestroyStored ==
  ASSUME Running, NEW Q \in [Addr -> NodeT], Stored(Q), Rooted, OnlyHotDirty, Destroy
  PROVE  Stored(Q)' /\ Rooted' /\ Kept(Q, Q)
  <1> DEFINE ra == remote_address
             Dirt(a) == {s \in Slot : dirty[s] /\ ra[s] = a}
  <1>1. /\ pc = "idle" /\ pc' = "closed" /\ FlushAll /\ backend' = FlushedBackend
        /\ UNCHANGED <<node, super, root_, cur_offset, right, adm>>
    BY DEF Destroy, walk, split
  <1>2. /\ ra \in [Slot -> Addr] /\ node \in [Slot -> NodeT] /\ Used \in SUBSET Slot
        /\ Live \in SUBSET Addr
    BY RunningFacts
  <1>3. Used' = Used /\ ra' = ra
    BY <1>1, WriteKeepsUsed DEF FlushAll, Running
  <1>4. /\ \A s \in Used : ra[s] \in Live /\ Q[ra[s]] = Page(node[s], ra)
        /\ \A s, t \in Used : ra[s] = ra[t] => s = t
        /\ \A s \in Used : ~dirty[s] => backend[ra[s]].node = Q[ra[s]]
    BY DEF Stored, CachedPages
  <1>5. \A a \in Addr : backend'[a] = IF Dirt(a) = {} THEN backend[a]
                                      ELSE Image(Unswizzled(node[CHOOSE s \in Dirt(a) : TRUE]), FALSE)
    BY <1>1 DEF FlushedBackend
  <1>6. \A s \in Slot : dirty[s] => s \in Used
    BY DEF OnlyHotDirty, Used
  <1>7. ASSUME NEW a \in Addr
        PROVE  \/ Dirt(a) = {} /\ backend'[a] = backend[a]
               \/ \E s \in Used : dirty[s] /\ ra[s] = a /\ backend'[a].node = Q[a] /\ Bare(backend'[a].node)
    <2>1. CASE Dirt(a) = {}
      BY <1>5, <1>7, <2>1
    <2>2. CASE Dirt(a) # {}
      <3>1. PICK s : s = CHOOSE t \in Dirt(a) : TRUE
        OBVIOUS
      <3>2. s \in Slot /\ dirty[s] /\ ra[s] = a
        BY <2>2, <3>1
      <3>3. backend'[a] = Image(Unswizzled(node[s]), FALSE)
        BY <1>5, <1>7, <2>2, <3>1
      <3>4. s \in Used /\ Q[a] = Page(node[s], ra) /\ node[s] \in NodeT
        BY <1>2, <1>4, <1>6, <3>2
      <3>5. Image(Unswizzled(node[s]), FALSE).node = Page(node[s], ra) /\ Bare(Page(node[s], ra))
        BY <1>2, <3>4, UnswizzledPage, PageFacts
      <3> QED BY <3>2, <3>3, <3>4, <3>5
    <2> QED BY <2>1, <2>2
  <1>8. CachedPages(Q)'
    <2>1. \A s \in Used' : ra'[s] \in Live' /\ Q[ra'[s]] = Page(node'[s], ra')
      BY <1>1, <1>3, <1>4 DEF Live
    <2>2. \A s, t \in Used' : ra'[s] = ra'[t] => s = t
      BY <1>3, <1>4
    <2>3. ASSUME NEW s \in Used PROVE backend'[ra[s]].node = Q[ra[s]]
      <3>1. s \in Slot /\ ra[s] \in Addr
        BY <1>2
      <3>2. CASE Dirt(ra[s]) = {} /\ backend'[ra[s]] = backend[ra[s]]
        <4>1. s \notin Dirt(ra[s])
          BY <3>2
        <4>2. ~dirty[s]
          BY <3>1, <4>1
        <4> QED BY <1>4, <3>2, <4>2
      <3> QED BY <1>7, <3>1, <3>2
    <2>4. \A s \in Used' : ~dirty'[s] => backend'[ra'[s]].node = Q[ra'[s]]
      BY <1>3, <2>3
    <2> QED BY <2>1, <2>2, <2>4 DEF CachedPages
  <1>9. UncachedPages(Q)'
    <2> SUFFICES ASSUME NEW a \in Addr
                 PROVE  /\ Bare(backend'[a].node)
                        /\ backend'[a].node = Q[a] \/ Cached(a)'
      BY DEF UncachedPages
    <2>1. Cached(a) => Cached(a)'
      BY <1>3 DEF Cached
    <2>2. Bare(backend[a].node) /\ (backend[a].node = Q[a] \/ Cached(a))
      BY <1>1 DEF Stored, UncachedPages
    <2> QED BY <1>7, <2>1, <2>2
  <1>10. WaitingPage(Q)'
    BY <1>1 DEF WaitingPage
  <1>11. Rooted' /\ Halves' = Halves
    BY <1>1, <1>3 DEF Rooted, Halves, At
  <1> QED BY <1>1, <1>8, <1>9, <1>10, <1>11 DEF Stored, Kept

-----------------------------------------------------------------------------
(* All steps *)

\* What a step does to the pages.
Edit(Q, P) == Kept(Q, P) \/ Wrote(Q, P) \/ Halved(Q, P) \/ Joined(Q, P) \/ Grown(Q, P)

\* Steps that leave the pages where they are.
LEMMA QuietSteps ==
  ASSUME Running, Running', NEW Q \in [Addr -> NodeT], Stored(Q), Rooted, Linked(Q, Live, root_, Halves),
         \/ VisitHit \/ VisitMiss \/ LoadSibling \/ RequestUnpinned \/ PoolStep \/ UNCHANGED vars
         \/ \E o \in Calls : Begin(o)
  PROVE  Stored(Q)' /\ Rooted' /\ Kept(Q, Q)
  <1>1. CASE VisitHit \/ (\E o \in Calls : Begin(o))
    <2>1. /\ UNCHANGED <<poolVars, node, super, root_, backend, cur_offset, right>>
          /\ pc \in {"idle", "visit"} /\ pc' \in {"visit", "split", "leaf"}
      BY <1>1 DEF VisitHit, Begin, storage, split
    <2>2. Used' = Used /\ UNCHANGED <<remote_address, dirty>>
      BY <2>1, StillPool DEF poolVars, pages, Running
    <2>3. Stored(Q)'
      BY <2>1, <2>2, QuietStored
    <2>4. Rooted' /\ Halves' = Halves
      BY <2>1, <2>2 DEF Rooted, Halves, At
    <2> QED BY <2>1, <2>3, <2>4 DEF Kept
  <1>2. CASE RequestUnpinned \/ PoolStep \/ UNCHANGED vars
    <2>1. UNCHANGED <<node, super, root_, backend, cur_offset, pc, cur, right, adm>>
      BY <1>2 DEF RequestUnpinned, PoolStep, vars, treeVars, storage, split, walk
    <2>2. Used' = Used
      <3>1. CASE RequestUnpinned
        BY <3>1, RequestKeepsUsed DEF RequestUnpinned, Running
      <3>2. CASE PoolStep
        BY <3>2, GetKeepsUsed DEF PoolStep, Running
      <3>3. CASE UNCHANGED vars
        BY <3>3, StillPool DEF vars, Running
      <3> QED BY <1>2, <3>1, <3>2, <3>3
    <2>3. UNCHANGED <<remote_address, dirty>>
      BY <1>2 DEF RequestUnpinned, RequestPage, PoolStep, GetEmptyPage, Allocate, TakeLocal, EvictCool,
                  ProbeFails, SampleExit, vars, poolVars, pages
    <2>4. Stored(Q)'
      BY <2>1, <2>2, <2>3, QuietStored
    <2>5. Rooted' /\ Halves' = Halves
      BY <2>1, <2>3 DEF Rooted, Halves, At
    <2> QED BY <2>1, <2>4, <2>5 DEF Kept
  <1>3. ASSUME NEW i, pc \in {"visit", "sibling"}, LoadChild(i) PROVE Stored(Q)' /\ Rooted' /\ Kept(Q, Q)
    <2>1. (IF cur = Super THEN NoSlot ELSE cur) \in Used \union {NoSlot}
      BY RunningFacts DEF Wiring, CurHere
    <2>2. Used' = Used
      BY <1>3, <2>1, RequestKeepsUsed DEF LoadChild, Running
    <2> QED BY <1>3, <2>2, LoadStored DEF Kept
  <1>4. CASE VisitMiss \/ LoadSibling
    BY <1>3, <1>4 DEF VisitMiss, LoadSibling
  <1> QED BY <1>1, <1>2, <1>4

\* Whatever the tree does, the pages it holds are the old ones or the result of one
\* operation of the tree on them.
LEMMA NextStored ==
  ASSUME Running, Running', NEW Q \in [Addr -> NodeT], Stored(Q), Rooted, Linked(Q, Live, root_, Halves),
         OnlyHotDirty, [Next]_vars, NoDanglingRef', Fits'
  PROVE  \E P \in [Addr -> NodeT] : Stored(P)' /\ Rooted' /\ Edit(Q, P)
  <1>1. CASE Stored(Q)' /\ Rooted' /\ Kept(Q, Q)
    BY <1>1 DEF Edit
  <1>2. CASE \/ VisitHit \/ VisitMiss \/ LoadSibling \/ RequestUnpinned \/ PoolStep \/ UNCHANGED vars
             \/ \E o \in Calls : Begin(o)
    BY <1>1, <1>2, QuietSteps
  <1>3. CASE AdmitLoad \/ AdmitSib \/ AdmitRoot
    BY <1>1, <1>3, AdmitLoadStored, AdmitSibStored, AdmitRootStored
  <1>4. CASE SplitLeaf
    <2>1. PICK P \in [Addr -> NodeT] : Stored(P)' /\ Rooted' /\ Halved(Q, P)
      BY <1>4, SplitLeafStored
    <2> QED BY <2>1 DEF Edit
  <1>5. CASE SplitInner
    <2>1. PICK P \in [Addr -> NodeT] : Stored(P)' /\ Rooted' /\ Halved(Q, P)
      BY <1>5, SplitInnerStored
    <2> QED BY <2>1 DEF Edit
  <1>6. CASE LinkSibling
    <2>1. PICK P \in [Addr -> NodeT] : Stored(P)' /\ Rooted' /\ Joined(Q, P)
      BY <1>6, LinkSiblingStored
    <2> QED BY <2>1 DEF Edit
  <1>7. CASE MakeNewRoot
    <2>1. PICK P \in [Addr -> NodeT] : Stored(P)' /\ Rooted' /\ Grown(Q, P)
      BY <1>7, MakeNewRootStored
    <2> QED BY <2>1 DEF Edit
  <1>8. CASE LeafInsert \/ LeafLookup \/ LeafUpdate \/ LeafRemove \/ LeafScan \/ LeafCtor
    <2>1. PICK P \in [Addr -> NodeT] : Stored(P)' /\ Rooted' /\ Wrote(Q, P)
      BY <1>8, LeafStored DEF LeafStep
    <2> QED BY <2>1 DEF Edit
  <1>9. ASSUME NEW s \in Slot, SampleDemote(s) \/ SampleStale(s) \/ SampleOrphan(s) \/ SampleAssert(s)
        PROVE  Stored(Q)' /\ Rooted' /\ Kept(Q, Q)
    <2>1. CASE SampleDemote(s)
      <3>1. s \notin Held
        BY <2>1, SparedIfSane DEF Running
      <3> QED BY <2>1, <3>1, SampleDemoteStored
    <2>2. CASE SampleStale(s)
      BY <2>2, SampleStaleStored
    <2>3. CASE SampleOrphan(s)
      BY <2>3, SparedIfSane, SampleOrphanWire DEF Running
    <2>4. CASE SampleAssert(s)
      BY <2>4 DEF SampleAssert, Running
    <2> QED BY <1>9, <2>1, <2>2, <2>3, <2>4
  <1>10. CASE Destroy
    BY <1>1, <1>10, DestroyStored
  <1> QED BY <1>1, <1>2, <1>3, <1>4, <1>5, <1>6, <1>7, <1>8, <1>9, <1>10 DEF Next, TreeStep

\* The pages stay linked.
LEMMA SameKidsLinked ==
  ASSUME NEW Q \in [Addr -> NodeT], NEW P \in [Addr -> NodeT], NEW L \in SUBSET Addr, NEW z, NEW H,
         Linked(Q, L, z, H), \A a \in Addr : P[a].kids = Q[a].kids
  PROVE  Linked(P, L, z, H)
  <1>1. \A a \in L : P[a].kids = Q[a].kids
    OBVIOUS
  <1> QED BY <1>1 DEF Linked

\* One more page is allocated.
LEMMA OneMoreLive ==
  ASSUME Running, cur_offset' = cur_offset + 1
  PROVE  Live' = Live \union {cur_offset}
  <1>1. cur_offset \in Nat \ {0}
    BY RunningFacts, SlotsAreNoAddresses DEF TreeTypes
  <1>2. ASSUME NEW c \in Nat \ {0} PROVE 1 .. (c + 1) - 1 = (1 .. c - 1) \union {c}
    BY <1>2
  <1> QED BY <1>1, <1>2 DEF Live

\* Every edit keeps the pages a forest in which no page is named twice.
LEMMA EditLinked ==
  ASSUME Running, NEW Q \in [Addr -> NodeT], NEW P \in [Addr -> NodeT], Stored(Q),
         Linked(Q, Live, root_, Halves), Edit(Q, P)
  PROVE  Linked(P, Live', root_', Halves')
  <1> DEFINE ra == remote_address
  <1>1. /\ ra \in [Slot -> Addr] /\ node \in [Slot -> NodeT] /\ TreeTypes /\ Wiring /\ Used \in SUBSET Slot
        /\ Live \in SUBSET Addr
    BY RunningFacts
  <1>2. CASE Kept(Q, P)
    BY <1>2 DEF Kept, Live
  <1>3. CASE Wrote(Q, P)
    <2>1. \A a \in Addr : P[a].kids = Q[a].kids
      <3> DEFINE x == ra[cur]
      <3>1. \A a \in Addr : P[a] = IF a = x THEN [Q[a] EXCEPT !.data = node'[cur].data] ELSE Q[a]
        <4>1. P = [Q EXCEPT ![x] = [@ EXCEPT !.data = node'[cur].data]]
          BY <1>3 DEF Wrote
        <4> HIDE DEF x
        <4> QED BY <4>1
      <3>2. ASSUME NEW n \in NodeT, NEW d PROVE [n EXCEPT !.data = d].kids = n.kids
        BY DEF NodeT
      <3> SUFFICES ASSUME NEW a \in Addr PROVE P[a].kids = Q[a].kids
        OBVIOUS
      <3>3. CASE a = x
        <4>1. P[a] = [Q[a] EXCEPT !.data = node'[cur].data] /\ Q[a] \in NodeT
          BY <3>1, <3>3
        <4> QED BY <3>2, <4>1
      <3> QED BY <3>1, <3>3
    <2>2. Live' = Live /\ root_' = root_ /\ Halves' = Halves
      BY <1>3 DEF Wrote, Live
    <2> QED BY <1>1, <2>1, <2>2, SameKidsLinked
  <1>4. CASE Halved(Q, P)
    <2> DEFINE x == ra[child]
               y == cur_offset
    <2>1. /\ Halves = {} /\ y \in Addr \ Live /\ root_' = root_ /\ Halves' = {y} /\ Live' = Live \union {y}
          /\ SplitPage(Q[x], P[x], P[y], sep')
          /\ \A a \in Addr \ {x, y} : P[a] = Q[a]
      BY <1>4, OneMoreLive DEF Halved, Halves
    <2>2. x \in Live
      BY <1>1, <1>4 DEF Halved, Wiring, ChildHere, Stored, CachedPages
    <2>3. PICK m : KidsHalved(Q[x], P[x], P[y], m)
      BY <2>1 DEF SplitPage
    <2>4. m \in 0 .. Len(Q[x].kids)
      <3>1. Len(P[x].kids) \in Nat /\ Len(P[y].kids) \in Nat /\ Len(Q[x].kids) \in Nat
        BY <1>1, <2>1, <2>2, NodeSeqs
      <3> QED BY <2>3, <3>1 DEF KidsHalved
    <2> HIDE DEF x, y
    <2> QED BY <1>1, <2>1, <2>2, <2>3, <2>4, SplitLinked
  <1>5. CASE Joined(Q, P)
    <2> DEFINE x == ra[cur]
               y == At(right, ra)
               p == lowerBound(Q[x], sep)
    <2>1. /\ Halves = {y} /\ root_' = root_ /\ Halves' = {} /\ Live' = Live /\ x \in Live
          /\ LinkPage(Q[x], P[x], sep, y)
          /\ \A a \in Addr \ {x} : P[a] = Q[a]
      BY <1>5 DEF Joined, Halves, Live
    <2>2. p \in 1 .. Len(Q[x].kids) /\ Inserted(P[x].kids, Q[x].kids, p + 1, y)
      BY <2>1 DEF LinkPage
    <2> HIDE DEF x, y, p
    <2>3. p + 1 \in 1 .. Len(Q[x].kids) + 1
      <3>1. Len(Q[x].kids) \in Nat
        BY <1>1, <2>1, NodeSeqs
      <3> QED BY <2>2, <3>1
    <2> QED BY <1>1, <2>1, <2>2, <2>3, InsertLinked
  <1>6. CASE Grown(Q, P)
    <2> DEFINE y == At(right, ra)
               x == cur_offset
    <2>1. /\ Halves = {y} /\ root_' = x /\ Halves' = {} /\ x \in Addr \ Live /\ Live' = Live \union {x}
          /\ P[x].kids = <<root_, y>>
          /\ \A a \in Addr \ {x} : P[a] = Q[a]
      BY <1>6, OneMoreLive DEF Grown, Halves, RootPage
    <2> HIDE DEF x, y
    <2> QED BY <1>1, <2>1, RootLinked
  <1> QED BY <1>2, <1>3, <1>4, <1>5, <1>6 DEF Edit

-----------------------------------------------------------------------------
(* The contract with the pool *)

\* Every step of the tree is one that the buffer pool's own proofs allow for.
LEMMA NextPool ==
  ASSUME Running, NEW Q, Stored(Q), [Next]_vars
  PROVE  [PoolNext]_poolVars
  <1>1. /\ TreeTypes /\ PcPhase /\ Wiring /\ OwnInv /\ adm.addr \in Addr /\ adm.dirty \in BOOLEAN
    BY RunningFacts DEF Running
  <1>2. CASE \/ VisitHit \/ MakeNewRoot \/ UNCHANGED vars \/ (\E o \in Calls : Begin(o))
             \/ \E s \in Slot : SampleStale(s)
    <2>1. UNCHANGED poolVars
      BY <1>2 DEF VisitHit, MakeNewRoot, vars, Begin, SampleStale
    <2> QED BY <2>1
  <1>3. ASSUME NEW p \in Used \union {NoSlot}, RequestPage(p) PROVE PoolNext
    <2>1. phase = "idle"
      BY <1>3 DEF RequestPage
    <2>2. p \in HotSlots \union {NoSlot}
      BY <1>1, <2>1, UsedIsHot
    <2> QED BY <1>3, <2>2 DEF PoolNext
  <1>4. CASE VisitMiss \/ LoadSibling
    <2>1. RequestPage(IF cur = Super THEN NoSlot ELSE cur)
      BY <1>4 DEF VisitMiss, LoadSibling, LoadChild
    <2>2. (IF cur = Super THEN NoSlot ELSE cur) \in Used \union {NoSlot}
      BY <1>1 DEF Wiring, CurHere
    <2> QED BY <1>3, <2>1, <2>2
  <1>5. CASE RequestUnpinned
    BY <1>3, <1>5 DEF RequestUnpinned
  <1>6. CASE PoolStep
    BY <1>6 DEF PoolStep, PoolNext
  <1>7. CASE AdmitLoad \/ AdmitSib \/ AdmitRoot
    <2>1. pc \in {"load", "sib", "root"} /\ CacheInsert(adm.addr, adm.dirty)
      BY <1>7 DEF AdmitLoad, AdmitSib, AdmitRoot
    <2>2. adm.addr \in Live /\ ~Cached(adm.addr)
      BY <2>1 DEF Stored, WaitingPage
    <2>3. adm.addr \in Addr \ {NullAddr}
      BY <1>1, <2>2 DEF Live, NullAddr
    <2>4. \A s \in Slot : InUse(s) => remote_address[s] # adm.addr
      BY <2>2 DEF Cached, Used
    <2> QED BY <1>1, <2>1, <2>3, <2>4 DEF PoolNext
  <1>8. ASSUME NEW S \in SUBSET Used, MarkDirty(S) PROVE PoolNext
    <2>1. phase = "idle"
      BY <1>8 DEF MarkDirty
    <2>2. S \in SUBSET HotSlots
      BY <1>1, <2>1, UsedIsHot
    <2> QED BY <1>8, <2>2 DEF PoolNext
  <1>9. CASE SplitLeaf \/ SplitInner
    <2>1. pc = "split" /\ MarkDirty({child})
      BY <1>9 DEF SplitLeaf, SplitInner
    <2>2. {child} \in SUBSET Used
      BY <1>1, <2>1 DEF Wiring, ChildHere
    <2> QED BY <1>8, <2>1, <2>2
  <1>10. CASE LinkSibling
    <2>1. cur # Super /\ MarkDirty({cur})
      BY <1>10 DEF LinkSibling
    <2>2. {cur} \in SUBSET Used
      BY <1>1, <2>1 DEF Wiring, CurHere
    <2> QED BY <1>8, <2>1, <2>2
  <1>11. CASE LeafInsert \/ LeafLookup \/ LeafUpdate \/ LeafRemove \/ LeafScan \/ LeafCtor
    <2>1. pc = "leaf" /\ \E w : MarkDirty(IF w THEN {cur} ELSE {})
      BY <1>11 DEF LeafInsert, LeafLookup, LeafUpdate, LeafRemove, LeafScan, LeafCtor, Finish
    <2>2. PICK w : MarkDirty(IF w THEN {cur} ELSE {})
      BY <2>1
    <2>3. cur \in Used
      BY <1>1, <2>1 DEF Wiring, CurHere
    <2>4. CASE w
      BY <1>8, <2>2, <2>3, <2>4
    <2>5. CASE ~w
      BY <1>8, <2>2, <2>5
    <2> QED BY <2>4, <2>5
  <1>12. ASSUME NEW s \in Slot, SampleDemote(s) \/ SampleOrphan(s) PROVE PoolNext
    <2>1. SamplePage(s) /\ s \in HotSlots
      BY <1>12 DEF SampleDemote, SampleOrphan, Demote, SamplePage
    <2> QED BY <2>1 DEF PoolNext
  <1>13. ASSUME NEW s \in Slot, SampleAssert(s) PROVE PoolNext
    <2>1. SampleExit
      BY <1>13 DEF SampleAssert, Sampled, SampleExit
    <2> QED BY <2>1 DEF PoolNext, GetEmptyPage
  <1>14. CASE Destroy
    BY <1>14 DEF Destroy, PoolNext
  <1> QED BY <1>2, <1>4, <1>5, <1>6, <1>7, <1>9, <1>10, <1>11, <1>12, <1>13, <1>14 DEF Next, TreeStep

\* Nothing runs after the assertion of sample_page has failed.
LEMMA AbortedStays ==
  ASSUME WireInv, pc = "aborted", [Next]_vars
  PROVE  UNCHANGED vars
  <1>1. \A s \in Slot : ~SampleDemote(s) /\ ~SampleStale(s) /\ ~SampleOrphan(s) /\ ~SampleAssert(s)
    BY DEF WireInv, PcPhase, SampleDemote, SampleStale, SampleOrphan, SampleAssert, Sampled
  <1>2. ~PoolStep
    BY DEF WireInv, PcPhase, PoolStep, GetEmptyPage, Allocate, TakeLocal, EvictCool, ProbeFails, SampleExit
  <1>3. ~(VisitHit \/ VisitMiss \/ AdmitLoad \/ LoadSibling \/ SplitLeaf \/ SplitInner \/ AdmitSib)
    BY DEF VisitHit, VisitMiss, AdmitLoad, LoadSibling, SplitLeaf, SplitInner, AdmitSib
  <1>4. ~(RequestUnpinned \/ LinkSibling \/ MakeNewRoot \/ AdmitRoot \/ Destroy)
    BY DEF RequestUnpinned, LinkSibling, MakeNewRoot, AdmitRoot, Destroy
  <1>5. ~(LeafInsert \/ LeafLookup \/ LeafUpdate \/ LeafRemove \/ LeafScan \/ LeafCtor)
    BY DEF LeafInsert, LeafLookup, LeafUpdate, LeafRemove, LeafScan, LeafCtor, Finish
  <1>6. ASSUME NEW o \in Calls PROVE ~Begin(o)
    BY DEF Begin
  <1> QED BY <1>1, <1>2, <1>3, <1>4, <1>5, <1>6 DEF Next, TreeStep

-----------------------------------------------------------------------------
(* The theorems *)

\* Some assignment of pages to addresses accounts for every copy of a page.
Consistent ==
  pc # "aborted" =>
    \E Q \in [Addr -> NodeT] : Stored(Q) /\ Rooted /\ Linked(Q, Live, root_, Halves)

ContInv == WireInv /\ OwnInv /\ PoolInv /\ Consistent

\* It holds after the constructor.
LEMMA ContInit == Init => ContInv
  <1> SUFFICES ASSUME Init PROVE ContInv
    OBVIOUS
  <1>1. PoolInv
    BY InitInv DEF Init
  <1> QED BY <1>1, WireInit, InitStored DEF ContInv, Consistent

\* The tree's steps are steps of the pool.
LEMMA ContPool == ContInv /\ [Next]_vars => [PoolNext]_poolVars
  <1> SUFFICES ASSUME ContInv, [Next]_vars PROVE [PoolNext]_poolVars
    OBVIOUS
  <1>1. CASE pc = "aborted"
    <2>1. UNCHANGED vars
      BY <1>1, AbortedStays DEF ContInv
    <2> QED BY <2>1 DEF vars
  <1>2. CASE pc # "aborted"
    <2>1. PICK Q \in [Addr -> NodeT] : Stored(Q)
      BY <1>2 DEF ContInv, Consistent
    <2>2. Running
      BY <1>2 DEF ContInv, Running
    <2> QED BY <2>1, <2>2, NextPool
  <1> QED BY <1>1, <1>2

\* And every step keeps it.
LEMMA ContNext == ContInv /\ [Next]_vars /\ NoDanglingRef' /\ Fits' => ContInv'
  <1> SUFFICES ASSUME ContInv, [Next]_vars, NoDanglingRef', Fits' PROVE ContInv'
    OBVIOUS
  <1>1. WireInv' /\ OwnInv'
    BY NextWire DEF ContInv
  <1>2. PoolInv'
    BY ContPool, NextInv DEF ContInv
  <1>3. Consistent'
    <2> SUFFICES ASSUME pc' # "aborted"
                 PROVE  \E P \in [Addr -> NodeT] : Stored(P)' /\ Rooted' /\ Linked(P, Live, root_, Halves)'
      BY DEF Consistent
    <2>1. pc # "aborted"
      <3>1. ASSUME pc = "aborted" PROVE FALSE
        <4>1. UNCHANGED vars
          BY <3>1, AbortedStays DEF ContInv
        <4> QED BY <3>1, <4>1 DEF vars, treeVars
      <3> QED BY <3>1
    <2>2. Running /\ Running' /\ OnlyHotDirty
      BY <1>1, <2>1 DEF Running, ContInv, PoolInv
    <2>3. PICK Q \in [Addr -> NodeT] : Stored(Q) /\ Rooted /\ Linked(Q, Live, root_, Halves)
      BY <2>1 DEF ContInv, Consistent
    <2>4. PICK P \in [Addr -> NodeT] : Stored(P)' /\ Rooted' /\ Edit(Q, P)
      BY <2>2, <2>3, NextStored
    <2>5. Linked(P, Live', root_', Halves')
      BY <2>2, <2>3, <2>4, EditLinked
    <2>6. Linked(P, Live', root_', Halves') <=> Linked(P, Live, root_, Halves)'
      BY DEF Linked
    <2> QED BY <2>4, <2>5, <2>6
  <1> QED BY <1>1, <1>2, <1>3 DEF ContInv

\* What it says of clean pages.
LEMMA ContImpliesClean == ContInv => CleanMatchesBackend
  <1> SUFFICES ASSUME ContInv, Sane
               PROVE  /\ \A s \in Slot : pos_state[s] \in {2, 4} /\ ~dirty[s] =>
                           backend[remote_address[s]].node = WithParent(Unswizzled(node[s]), NoSlot)
                      /\ \A a \in Addr : backend[a].node.bitmap = {} /\ Swizzled(backend[a].node) = {}
    BY DEF CleanMatchesBackend
  <1>1. Running
    BY DEF Running, ContInv, Sane
  <1>2. PICK Q \in [Addr -> NodeT] : Stored(Q)
    BY DEF ContInv, Consistent, Sane
  <1>3. ASSUME NEW s \in Slot, pos_state[s] \in {2, 4}, ~dirty[s]
        PROVE  backend[remote_address[s]].node = WithParent(Unswizzled(node[s]), NoSlot)
    <2>1. s \in Used
      BY <1>3 DEF Used, InUse
    <2>2. backend[remote_address[s]].node = Page(node[s], remote_address)
      BY <1>2, <1>3, <2>1 DEF Stored, CachedPages
    <2>3. node[s] \in NodeT /\ remote_address \in [Slot -> Addr]
      BY <1>1, RunningFacts
    <2> QED BY <2>2, <2>3, UnswizzledPage
  <1>4. \A a \in Addr : Untagged(backend[a].node)
    BY DEF ContInv, WireInv, Shapes
  <1> QED BY <1>3, <1>4 DEF Untagged

\* Dropping a clean page loses nothing: the backend holds the same page, and no page in
\* the backend refers to a slot.
THEOREM CleanPagesMatch == Spec /\ []NoDanglingRef /\ []Fits => []CleanMatchesBackend
  BY ContInit, ContNext, ContImpliesClean, PTL DEF Spec

\* The tree is a client the pool's proofs allow for.
THEOREM TreeKeepsContract == Spec /\ []NoDanglingRef /\ []Fits => PoolContract
  <1>1. ContInv /\ [Next]_vars => [Sane /\ pc' # "aborted" => PoolNext]_poolVars
    BY ContPool
  <1> QED BY ContInit, ContNext, <1>1, PTL DEF Spec, PoolContract

\* So what they prove holds of the pool under the tree.
THEOREM TreePoolSound ==
  Spec /\ []NoDanglingRef /\ []Fits => [](PoolTypeOK /\ SlotOwnership /\ OnlyHotDirty /\ PageTableAgrees)
  <1>1. ContInv => PoolTypeOK /\ SlotOwnership /\ OnlyHotDirty /\ PageTableAgrees
    BY DEF ContInv, PoolInv
  <1> QED BY ContInit, ContNext, <1>1, PTL DEF Spec

-----------------------------------------------------------------------------
(* Fence keys *)

\* The limits an inner page sets for child i.
KidLo(n, i) == IF i = 1 THEN n.lo ELSE n.keys[i - 1]
KidHi(n, i) == IF i = Len(n.kids) THEN n.hi ELSE n.keys[i]

\* A page by itself: its keys are sorted, and they and its entries lie within its limits.
Ordered(n) ==
  /\ \A i \in 1 .. Len(n.keys) : n.lo < n.keys[i] /\ n.keys[i] < n.hi
  /\ \A i, j \in 1 .. Len(n.keys) : i < j => n.keys[i] < n.keys[j]
PageOK(n) ==
  /\ n.type \in {"leaf", "inner"} /\ (n.level = 0 <=> n.type = "leaf") /\ Shape(n)
  /\ n.lo < n.hi /\ Ordered(n)
  /\ n.type = "leaf" => \A k \in DOMAIN n.data : n.lo < k /\ k <= n.hi

\* lowerBound, from where it is.
LEMMA LowerBoundIs ==
  ASSUME NEW n \in NodeT, NEW k \in Int, NEW p \in 1 .. Len(n.keys) + 1,
         \A i \in 1 .. p - 1 : n.keys[i] < k, \A i \in p .. Len(n.keys) : k <= n.keys[i]
  PROVE  lowerBound(n, k) = p
  <1> DEFINE S == {i \in DOMAIN n.keys : n.keys[i] < k}
  <1>1. /\ DOMAIN n.keys = 1 .. Len(n.keys) /\ Len(n.keys) \in Nat
        /\ \A i \in 1 .. Len(n.keys) : n.keys[i] \in Int
    BY NodeSeqs
  <1>2. S = 1 .. p - 1
    <2>1. ASSUME NEW i \in S PROVE i \in 1 .. p - 1
      <3>1. i \in 1 .. Len(n.keys) /\ n.keys[i] < k /\ n.keys[i] \in Int
        BY <1>1
      <3>2. ~(k <= n.keys[i])
        BY <3>1
      <3>3. i \notin p .. Len(n.keys)
        BY <3>2
      <3> QED BY <1>1, <3>1, <3>3
    <2>2. ASSUME NEW i \in 1 .. p - 1 PROVE i \in S
      BY <1>1
    <2> QED BY <2>1, <2>2
  <1>3. Cardinality(1 .. p - 1) = p - 1
    <2>1. p - 1 \in Int /\ 1 \in Int
      BY <1>1
    <2>2. Cardinality(1 .. p - 1) = IF 1 > p - 1 THEN 0 ELSE (p - 1) - 1 + 1
      BY <2>1, FS_Interval
    <2> QED BY <1>1, <2>2
  <1>4. lowerBound(n, k) = 1 + Cardinality(S)
    BY DEF lowerBound
  <1> HIDE DEF S
  <1> QED BY <1>1, <1>2, <1>3, <1>4

\* Where lowerBound is among sorted keys.
LEMMA LowerBoundFacts ==
  ASSUME NEW n \in NodeT, Ordered(n), NEW k \in Int
  PROVE  /\ lowerBound(n, k) \in 1 .. Len(n.keys) + 1
         /\ \A i \in 1 .. lowerBound(n, k) - 1 : n.keys[i] < k
         /\ \A i \in lowerBound(n, k) .. Len(n.keys) : k <= n.keys[i]
  <1> DEFINE T == {i \in 1 .. Len(n.keys) : k <= n.keys[i]}
  <1>1. Len(n.keys) \in Nat /\ \A i \in 1 .. Len(n.keys) : n.keys[i] \in Int
    BY NodeSeqs
  <1>2. \E p \in 1 .. Len(n.keys) + 1 :
          (\A i \in 1 .. p - 1 : n.keys[i] < k) /\ (\A i \in p .. Len(n.keys) : k <= n.keys[i])
    <2>1. CASE T = {}
      <3>1. \A i \in 1 .. Len(n.keys) : n.keys[i] < k
        BY <1>1, <2>1
      <3>2. Len(n.keys) + 1 \in 1 .. Len(n.keys) + 1 /\ 1 .. (Len(n.keys) + 1) - 1 = 1 .. Len(n.keys)
            /\ Len(n.keys) + 1 .. Len(n.keys) = {}
        BY <1>1
      <3> QED BY <3>1, <3>2
    <2>2. CASE T # {}
      <3>1. T \in SUBSET Nat
        BY <1>1
      <3>2. PICK p \in T : \A j \in T : p <= j
        <4> HIDE DEF T
        <4> QED BY <2>2, <3>1, LeastNumber
      <3>3. p \in 1 .. Len(n.keys) /\ k <= n.keys[p]
        BY <3>2
      <3>4. ASSUME NEW i \in 1 .. p - 1 PROVE n.keys[i] < k
        <4>1. i \in 1 .. Len(n.keys) /\ ~(p <= i)
          BY <1>1, <3>3
        <4>2. i \notin T
          BY <3>2, <4>1
        <4> QED BY <1>1, <4>1, <4>2
      <3>5. ASSUME NEW i \in p .. Len(n.keys) PROVE k <= n.keys[i]
        <4>1. i \in 1 .. Len(n.keys) /\ (i = p \/ p < i)
          BY <1>1, <3>3
        <4>2. p < i => n.keys[p] < n.keys[i]
          BY <3>3, <4>1 DEF Ordered
        <4> QED BY <1>1, <3>3, <4>1, <4>2
      <3>6. p \in 1 .. Len(n.keys) + 1
        BY <1>1, <3>3
      <3> QED BY <3>4, <3>5, <3>6
    <2> QED BY <2>1, <2>2
  <1>3. PICK p \in 1 .. Len(n.keys) + 1 :
          (\A i \in 1 .. p - 1 : n.keys[i] < k) /\ (\A i \in p .. Len(n.keys) : k <= n.keys[i])
    BY <1>2
  <1>4. lowerBound(n, k) = p
    BY <1>3, LowerBoundIs
  <1> QED BY <1>3, <1>4

\* The limits of the children divide those of the page.
LEMMA KidLimits ==
  ASSUME NEW n \in NodeT, n.type = "inner", PageOK(n), NEW i \in 1 .. Len(n.kids)
  PROVE  /\ KidLo(n, i) \in Int /\ KidHi(n, i) \in Int /\ KidLo(n, i) < KidHi(n, i)
         /\ n.lo <= KidLo(n, i) /\ KidHi(n, i) <= n.hi
  <1>1. /\ Len(n.keys) \in Nat /\ \A j \in 1 .. Len(n.keys) : n.keys[j] \in Int
        /\ n.lo \in Int /\ n.hi \in Int /\ n.lo < n.hi /\ Len(n.kids) = Len(n.keys) + 1
    BY NodeSeqs DEF PageOK, Shape
  <1>2. /\ \A j \in 1 .. Len(n.keys) : n.lo < n.keys[j] /\ n.keys[j] < n.hi
        /\ \A j, l \in 1 .. Len(n.keys) : j < l => n.keys[j] < n.keys[l]
    BY DEF PageOK, Ordered
  <1>3. i # 1 => i - 1 \in 1 .. Len(n.keys)
    BY <1>1
  <1>4. i # Len(n.kids) => i \in 1 .. Len(n.keys)
    BY <1>1
  <1>5. i # 1 /\ i # Len(n.kids) => n.keys[i - 1] < n.keys[i]
    BY SMTT(40), <1>1, <1>2, <1>3, <1>4
  <1> QED BY <1>1, <1>2, <1>3, <1>4, <1>5 DEF KidLo, KidHi

\* lowerBound finds the child whose limits hold the key, and no other.
LEMMA WalkLimits ==
  ASSUME NEW n \in NodeT, n.type = "inner", PageOK(n), NEW k \in Int, n.lo < k, k <= n.hi
  PROVE  /\ lowerBound(n, k) \in 1 .. Len(n.kids)
         /\ KidLo(n, lowerBound(n, k)) < k /\ k <= KidHi(n, lowerBound(n, k))
         /\ \A i \in 1 .. Len(n.kids) : KidLo(n, i) < k /\ k <= KidHi(n, i) => i = lowerBound(n, k)
  <1> DEFINE p == lowerBound(n, k)
  <1>1. /\ Len(n.keys) \in Nat /\ \A j \in 1 .. Len(n.keys) : n.keys[j] \in Int
        /\ n.lo \in Int /\ n.hi \in Int /\ Len(n.kids) = Len(n.keys) + 1
    BY NodeSeqs DEF PageOK, Shape
  <1>2. /\ p \in 1 .. Len(n.keys) + 1
        /\ \A i \in 1 .. p - 1 : n.keys[i] < k
        /\ \A i \in p .. Len(n.keys) : k <= n.keys[i]
    BY LowerBoundFacts DEF PageOK
  <1> HIDE DEF p
  <1>3. KidLo(n, p) < k
    <2>1. p # 1 => p - 1 \in 1 .. p - 1
      BY <1>1, <1>2
    <2> QED BY <1>2, <2>1 DEF KidLo
  <1>4. k <= KidHi(n, p)
    <2>1. p # Len(n.kids) => p \in p .. Len(n.keys)
      BY <1>1, <1>2
    <2> QED BY <1>2, <2>1 DEF KidHi
  <1>5. ASSUME NEW i \in 1 .. Len(n.kids), KidLo(n, i) < k, k <= KidHi(n, i) PROVE i = p
    <2>1. CASE i < p
      <3>1. i \in 1 .. p - 1 /\ i # Len(n.kids) /\ i \in 1 .. Len(n.keys)
        BY <1>1, <1>2, <2>1
      <3>2. n.keys[i] < k /\ k <= n.keys[i] /\ n.keys[i] \in Int
        BY <1>1, <1>2, <1>5, <3>1 DEF KidHi
      <3> QED BY <3>2
    <2>2. CASE i > p
      <3>1. i - 1 \in p .. Len(n.keys) /\ i # 1 /\ i - 1 \in 1 .. Len(n.keys)
        BY <1>1, <1>2, <2>2
      <3>2. n.keys[i - 1] < k /\ k <= n.keys[i - 1] /\ n.keys[i - 1] \in Int
        BY <1>1, <1>2, <1>5, <3>1 DEF KidLo
      <3> QED BY <3>2
    <2> QED BY <1>1, <1>2, <2>1, <2>2
  <1> QED BY <1>1, <1>2, <1>3, <1>4, <1>5 DEF p

\* The upper limit of what page b and, if c = b is being split, its half y cover.
HiOf(Q, b, c, y) == IF b = c THEN Q[y].hi ELSE Q[b].hi
\* Child i of page a is what the keys next to it say.
KidFits(Q, a, i, c, y) ==
  /\ Q[Q[a].kids[i]].level + 1 = Q[a].level
  /\ Q[Q[a].kids[i]].lo = KidLo(Q[a], i) /\ HiOf(Q, Q[a].kids[i], c, y) = KidHi(Q[a], i)
\* The pages L under the root z, of which c is being split unless it is NullAddr.
Fenced(Q, L, z, c, y) ==
  /\ Q[z].lo = MinLimit /\ HiOf(Q, z, c, y) = MaxLimit
  /\ \A a \in L : PageOK(Q[a])
  /\ \A a \in L : \A i \in 1 .. Len(Q[a].kids) : KidFits(Q, a, i, c, y)
  /\ c # NullAddr => /\ c \in L /\ y \in L /\ c # y
                     /\ Q[y].lo = Q[c].hi /\ Q[y].level = Q[c].level

\* The halves of a page.
LEMMA SplitOK ==
  ASSUME NEW q \in NodeT, NEW l \in NodeT, NEW r \in NodeT, NEW k \in Key, PageOK(q), Shape(l), Shape(r),
         SplitPage(q, l, r, k)
  PROVE  PageOK(l) /\ PageOK(r) /\ q.lo < k /\ k < q.hi
  <1>1. /\ q.lo \in Int /\ q.hi \in Int /\ k \in Int /\ q.level \in Nat
        /\ Len(q.keys) \in Nat /\ \A i \in 1 .. Len(q.keys) : q.keys[i] \in Int
    <2>1. q.level \in Nat
      BY DEF NodeT
    <2>2. k \in Int
      BY TreeAssumption DEF Key
    <2>3. /\ q.lo \in Int /\ q.hi \in Int /\ Len(q.keys) \in Nat
          /\ \A i \in 1 .. Len(q.keys) : q.keys[i] \in Key
      BY NodeSeqs
    <2>4. \A j \in Key : j \in Int
      BY TreeAssumption DEF Key
    <2> QED BY <2>1, <2>2, <2>3, <2>4
  <1>2. /\ l.type = q.type /\ r.type = q.type /\ l.level = q.level
        /\ r.level = IF q.type = "leaf" THEN 0 ELSE q.level
        /\ l.lo = q.lo /\ l.hi = k /\ r.lo = k /\ r.hi = q.hi
    BY DEF SplitPage
  <1>3. /\ q.type \in {"leaf", "inner"} /\ (q.level = 0 <=> q.type = "leaf") /\ Ordered(q)
        /\ q.type = "leaf" => \A x \in DOMAIN q.data : q.lo < x /\ x <= q.hi
    BY DEF PageOK
  <1>4. CASE q.type = "leaf"
    <2>1. DataHalved(q, l, r, k)
      BY <1>4 DEF SplitPage
    <2>2. /\ k \in DOMAIN q.data /\ \E j \in DOMAIN q.data : j > k
          /\ DOMAIN l.data = {j \in DOMAIN q.data : j <= k}
          /\ DOMAIN r.data = {j \in DOMAIN q.data : j > k}
      BY <2>1 DEF DataHalved, Restrict
    <2>3. DOMAIN q.data \in SUBSET Int
      <3>1. PICK K \in SUBSET Key : q.data \in [K -> Val]
        BY DEF NodeT, DataT
      <3>2. Key \in SUBSET Int
        BY NodeSeqs
      <3> QED BY <3>1, <3>2
    <2>4. q.lo < k /\ k < q.hi
      <3>1. PICK j \in DOMAIN q.data : j > k
        BY <2>2
      <3> QED BY <1>1, <1>3, <1>4, <2>2, <2>3, <3>1
    <2>5. /\ \A x \in DOMAIN l.data : l.lo < x /\ x <= l.hi
          /\ \A x \in DOMAIN r.data : r.lo < x /\ x <= r.hi
      BY <1>1, <1>2, <1>3, <1>4, <2>2, <2>3
    <2>6. l.keys = <<>> /\ r.keys = <<>>
      BY <1>2, <1>4 DEF Shape
    <2>7. Ordered(l) /\ Ordered(r)
      <3>1. Len(l.keys) = 0 /\ Len(r.keys) = 0
        BY <2>6
      <3> QED BY <3>1 DEF Ordered
    <2> QED BY <1>2, <1>3, <1>4, <2>4, <2>5, <2>7 DEF PageOK
  <1>5. CASE q.type = "inner"
    <2>1. PICK m \in 1 .. Len(q.keys) - 1 : k = q.keys[m] /\ KeysHalved(q, l, r, m)
      BY <1>5 DEF SplitPage
    <2>2. m \in 1 .. Len(q.keys) /\ m \in Nat
      BY <1>1, <2>1
    <2>3. q.lo < k /\ k < q.hi
      BY <1>3, <2>1, <2>2 DEF Ordered
    <2>4. /\ Len(l.keys) = m - 1 /\ \A i \in 1 .. m - 1 : l.keys[i] = q.keys[i]
          /\ Len(r.keys) = Len(q.keys) - m /\ \A i \in 1 .. Len(q.keys) - m : r.keys[i] = q.keys[m + i]
      BY <2>1 DEF KeysHalved
    <2>5. /\ \A i \in 1 .. Len(q.keys) : q.lo < q.keys[i] /\ q.keys[i] < q.hi
          /\ \A i, j \in 1 .. Len(q.keys) : i < j => q.keys[i] < q.keys[j]
      BY <1>3 DEF Ordered
    <2>6. Ordered(l)
      <3>1. ASSUME NEW i \in 1 .. m - 1 PROVE l.lo < l.keys[i] /\ l.keys[i] < l.hi
        <4>1. i \in 1 .. Len(q.keys) /\ i < m
          BY <1>1, <2>2
        <4> QED BY <1>2, <2>1, <2>2, <2>4, <2>5, <4>1
      <3>2. ASSUME NEW i \in 1 .. m - 1, NEW j \in 1 .. m - 1, i < j PROVE l.keys[i] < l.keys[j]
        <4>1. i \in 1 .. Len(q.keys) /\ j \in 1 .. Len(q.keys)
          BY <1>1, <2>2
        <4> QED BY <2>4, <2>5, <3>2, <4>1
      <3> QED BY <2>4, <3>1, <3>2 DEF Ordered
    <2>7. Ordered(r)
      <3>1. ASSUME NEW i \in 1 .. Len(q.keys) - m PROVE r.lo < r.keys[i] /\ r.keys[i] < r.hi
        <4>1. m + i \in 1 .. Len(q.keys) /\ m < m + i
          BY <1>1, <2>2
        <4> QED BY <1>2, <2>1, <2>2, <2>4, <2>5, <4>1
      <3>2. ASSUME NEW i \in 1 .. Len(q.keys) - m, NEW j \in 1 .. Len(q.keys) - m, i < j
            PROVE  r.keys[i] < r.keys[j]
        <4>1. m + i \in 1 .. Len(q.keys) /\ m + j \in 1 .. Len(q.keys) /\ m + i < m + j
          BY SMTT(40), <1>1, <2>2, <3>2
        <4> QED BY <2>4, <2>5, <4>1
      <3> QED BY <2>4, <3>1, <3>2 DEF Ordered
    <2> QED BY <1>1, <1>2, <1>3, <1>5, <2>3, <2>6, <2>7 DEF PageOK
  <1> QED BY <1>3, <1>4, <1>5

\* The children of q are those of l and then those of r, with the limits they had.
KidsKept(q, l, r) ==
  \E m \in 0 .. Len(q.kids) :
    /\ Len(l.kids) = m /\ Len(r.kids) = Len(q.kids) - m
    /\ Len(q.kids) > 0 => l.level = q.level /\ r.level = q.level
    /\ \A i \in 1 .. m :
         l.kids[i] = q.kids[i] /\ KidLo(l, i) = KidLo(q, i) /\ KidHi(l, i) = KidHi(q, i)
    /\ \A i \in 1 .. Len(q.kids) - m :
         /\ r.kids[i] = q.kids[m + i]
         /\ KidLo(r, i) = KidLo(q, m + i) /\ KidHi(r, i) = KidHi(q, m + i)

\* The children of the halves have the limits they had.
LEMMA SplitKids ==
  ASSUME NEW q \in NodeT, NEW l \in NodeT, NEW r \in NodeT, NEW k \in Key, PageOK(q), Shape(l), Shape(r),
         SplitPage(q, l, r, k)
  PROVE  KidsKept(q, l, r)
  <1>1. /\ l.type = q.type /\ r.type = q.type /\ l.level = q.level
        /\ r.level = IF q.type = "leaf" THEN 0 ELSE q.level
        /\ l.lo = q.lo /\ l.hi = k /\ r.lo = k /\ r.hi = q.hi
    BY DEF SplitPage
  <1>2. CASE q.type = "leaf"
    <2>1. q.kids = <<>> /\ l.kids = <<>> /\ r.kids = <<>>
      BY <1>1, <1>2 DEF PageOK, Shape
    <2>2. Len(q.kids) = 0 /\ Len(l.kids) = 0 /\ Len(r.kids) = 0
      BY <2>1
    <2>3. /\ 0 \in 0 .. Len(q.kids) /\ Len(l.kids) = 0 /\ Len(r.kids) = Len(q.kids) - 0
          /\ ~(Len(q.kids) > 0) /\ 1 .. 0 = {} /\ 1 .. Len(q.kids) - 0 = {}
      BY <2>2
    <2> QED BY <2>3 DEF KidsKept
  <1>3. CASE q.type = "inner"
    <2>1. PICK m \in 1 .. Len(q.keys) - 1 :
               k = q.keys[m] /\ KidsHalved(q, l, r, m) /\ KeysHalved(q, l, r, m)
      BY <1>3 DEF SplitPage
    <2>2. Len(q.keys) \in Nat /\ Len(q.kids) = Len(q.keys) + 1
      BY <1>3, NodeSeqs DEF PageOK, Shape
    <2>3. /\ Len(l.kids) = m /\ \A i \in 1 .. m : l.kids[i] = q.kids[i]
          /\ Len(r.kids) = Len(q.kids) - m /\ \A i \in 1 .. Len(q.kids) - m : r.kids[i] = q.kids[m + i]
          /\ \A i \in 1 .. m - 1 : l.keys[i] = q.keys[i]
          /\ \A i \in 1 .. Len(q.keys) - m : r.keys[i] = q.keys[m + i]
      BY <2>1 DEF KidsHalved, KeysHalved
    <2>4. ASSUME NEW i \in 1 .. m PROVE KidLo(l, i) = KidLo(q, i) /\ KidHi(l, i) = KidHi(q, i)
      <3>1. i # 1 => i - 1 \in 1 .. m - 1
        BY <2>1, <2>2
      <3>2. i # m => i \in 1 .. m - 1
        BY <2>1, <2>2
      <3>3. i # Len(q.kids)
        BY <2>1, <2>2
      <3> QED BY <1>1, <2>1, <2>3, <3>1, <3>2, <3>3 DEF KidLo, KidHi
    <2>5. ASSUME NEW i \in 1 .. Len(q.kids) - m
          PROVE  KidLo(r, i) = KidLo(q, m + i) /\ KidHi(r, i) = KidHi(q, m + i)
      <3>1. m + i # 1 /\ (i # 1 => i - 1 \in 1 .. Len(q.keys) - m /\ m + (i - 1) = (m + i) - 1)
            /\ (m + 1) - 1 = m
        BY <2>1, <2>2
      <3>2. (i = Len(q.kids) - m <=> m + i = Len(q.kids)) /\ (i # Len(q.kids) - m => i \in 1 .. Len(q.keys) - m)
        BY <2>1, <2>2
      <3>3. KidLo(r, i) = KidLo(q, m + i)
        BY SMTT(40), <1>1, <2>1, <2>3, <3>1 DEF KidLo
      <3>4. KidHi(r, i) = KidHi(q, m + i)
        BY <1>1, <2>3, <3>2 DEF KidHi
      <3> QED BY <3>3, <3>4
    <2>6. m \in 0 .. Len(q.kids)
      BY <2>1, <2>2
    <2> QED BY <1>1, <1>3, <2>3, <2>4, <2>5, <2>6 DEF KidsKept
  <1> QED BY <1>2, <1>3 DEF PageOK

\* A page is split.
LEMMA SplitFenced ==
  ASSUME NEW Q \in [Addr -> NodeT], NEW P \in [Addr -> NodeT], NEW L \in SUBSET (Addr \ {NullAddr}), NEW z, NEW e,
         Linked(Q, L, z, {}), Fenced(Q, L, z, NullAddr, e), NEW x \in L, NEW y \in Addr \ L, NEW k \in Key,
         \A a \in Addr : Shape(P[a]), SplitPage(Q[x], P[x], P[y], k), \A a \in Addr \ {x, y} : P[a] = Q[a],
         y # NullAddr
  PROVE  Fenced(P, L \union {y}, z, x, y) /\ P[x].hi = k
  <1>1. /\ Q[x] \in NodeT /\ P[x] \in NodeT /\ P[y] \in NodeT /\ Shape(P[x]) /\ Shape(P[y]) /\ PageOK(Q[x])
        /\ x # y /\ z \in L /\ x \in Addr /\ x # NullAddr
    BY DEF Fenced, Linked
  <1>2. PageOK(P[x]) /\ PageOK(P[y])
    BY <1>1, SplitOK
  <1>3. PICK m \in 0 .. Len(Q[x].kids) :
           /\ Len(P[x].kids) = m /\ Len(P[y].kids) = Len(Q[x].kids) - m
           /\ Len(Q[x].kids) > 0 => P[x].level = Q[x].level /\ P[y].level = Q[x].level
           /\ \A i \in 1 .. m : /\ P[x].kids[i] = Q[x].kids[i]
                                /\ KidLo(P[x], i) = KidLo(Q[x], i) /\ KidHi(P[x], i) = KidHi(Q[x], i)
           /\ \A i \in 1 .. Len(Q[x].kids) - m :
                /\ P[y].kids[i] = Q[x].kids[m + i]
                /\ KidLo(P[y], i) = KidLo(Q[x], m + i) /\ KidHi(P[y], i) = KidHi(Q[x], m + i)
    <2>1. KidsKept(Q[x], P[x], P[y])
      BY <1>1, SplitKids
    <2> QED BY <2>1 DEF KidsKept
  <1>4. /\ P[x].level = Q[x].level /\ P[x].lo = Q[x].lo /\ P[y].hi = Q[x].hi /\ P[x].hi = k /\ P[y].lo = k
        /\ P[y].level = P[x].level
    BY <1>1 DEF SplitPage, PageOK
  <1>5. \A b \in L : P[b].level = Q[b].level /\ P[b].lo = Q[b].lo /\ HiOf(P, b, x, y) = Q[b].hi
    <2> SUFFICES ASSUME NEW b \in L PROVE P[b].level = Q[b].level /\ P[b].lo = Q[b].lo /\ HiOf(P, b, x, y) = Q[b].hi
      OBVIOUS
    <2>1. b # x => P[b] = Q[b]
      OBVIOUS
    <2> QED BY <1>4, <2>1 DEF HiOf
  <1>6. \A a \in L : \A i \in 1 .. Len(Q[a].kids) :
          /\ Q[a].kids[i] \in L /\ Q[Q[a].kids[i]].level + 1 = Q[a].level
          /\ Q[Q[a].kids[i]].lo = KidLo(Q[a], i) /\ Q[Q[a].kids[i]].hi = KidHi(Q[a], i)
    <2>1. \A a \in L : a # NullAddr
      OBVIOUS
    <2>2. \A a \in L : \A i \in 1 .. Len(Q[a].kids) : Q[a].kids[i] \in L
      BY DEF Linked
    <2> QED BY <2>1, <2>2 DEF Fenced, KidFits, HiOf
  <1>7. ASSUME NEW a \in L \union {y}, NEW i \in 1 .. Len(P[a].kids) PROVE KidFits(P, a, i, x, y)
    <2>0. Len(Q[x].kids) \in Nat /\ m \in Nat
      BY <1>1, NodeSeqs
    <2>1. \E b \in L : \E j \in 1 .. Len(Q[b].kids) :
             /\ P[a].kids[i] = Q[b].kids[j] /\ P[a].level = Q[b].level
             /\ KidLo(P[a], i) = KidLo(Q[b], j) /\ KidHi(P[a], i) = KidHi(Q[b], j)
      <3>1. CASE a = x
        <4>1. i \in 1 .. m /\ i \in 1 .. Len(Q[x].kids)
          BY <1>3, <1>7, <2>0, <3>1
        <4> QED BY <1>3, <1>4, <3>1, <4>1
      <3>2. CASE a = y
        <4>1. i \in 1 .. Len(Q[x].kids) - m /\ m + i \in 1 .. Len(Q[x].kids)
          BY <1>3, <1>7, <2>0, <3>2
        <4> QED BY <1>3, <1>4, <3>2, <4>1
      <3>3. CASE a # x /\ a # y
        <4>1. P[a] = Q[a] /\ a \in L
          BY <3>3
        <4> QED BY <1>7, <4>1
      <3> QED BY <3>1, <3>2, <3>3
    <2>2. PICK b \in L : \E j \in 1 .. Len(Q[b].kids) :
             /\ P[a].kids[i] = Q[b].kids[j] /\ P[a].level = Q[b].level
             /\ KidLo(P[a], i) = KidLo(Q[b], j) /\ KidHi(P[a], i) = KidHi(Q[b], j)
      BY <2>1
    <2>7. PICK j \in 1 .. Len(Q[b].kids) :
             /\ P[a].kids[i] = Q[b].kids[j] /\ P[a].level = Q[b].level
             /\ KidLo(P[a], i) = KidLo(Q[b], j) /\ KidHi(P[a], i) = KidHi(Q[b], j)
      BY <2>2
    <2>3. P[a].kids[i] \in L
      BY <1>6, <2>7
    <2>4. PICK d : d = P[a].kids[i]
      OBVIOUS
    <2>5. /\ d \in L /\ Q[d].level + 1 = P[a].level /\ Q[d].lo = KidLo(P[a], i) /\ Q[d].hi = KidHi(P[a], i)
      BY <1>6, <2>7, <2>4
    <2>6. P[d].level + 1 = P[a].level /\ P[d].lo = KidLo(P[a], i) /\ HiOf(P, d, x, y) = KidHi(P[a], i)
      BY <1>5, <2>5
    <2> QED BY <2>4, <2>6 DEF KidFits
  <1>8. \A a \in L \union {y} : PageOK(P[a])
    <2>1. \A a \in L \ {x} : P[a] = Q[a] /\ PageOK(Q[a])
      BY DEF Fenced
    <2> QED BY <1>2, <2>1
  <1>9. P[z].lo = MinLimit /\ HiOf(P, z, x, y) = MaxLimit
    <2>1. Q[z].lo = MinLimit /\ Q[z].hi = MaxLimit /\ z # NullAddr
      BY <1>1 DEF Fenced, HiOf
    <2> QED BY <1>1, <1>5, <2>1
  <1> QED BY <1>1, <1>4, <1>7, <1>8, <1>9 DEF Fenced

\* What page p has on the sides of the child i of q when that child's half b is put in.
Joint(q, p, i, k, b) ==
  /\ Len(p.kids) = Len(q.kids) + 1
  /\ \A j \in 1 .. i - 1 :
       p.kids[j] = q.kids[j] /\ KidLo(p, j) = KidLo(q, j) /\ KidHi(p, j) = KidHi(q, j)
  /\ p.kids[i] = q.kids[i] /\ KidLo(p, i) = KidLo(q, i) /\ KidHi(p, i) = k
  /\ p.kids[i + 1] = b /\ KidLo(p, i + 1) = k /\ KidHi(p, i + 1) = KidHi(q, i)
  /\ \A j \in i + 1 .. Len(q.kids) :
       /\ p.kids[j + 1] = q.kids[j]
       /\ KidLo(p, j + 1) = KidLo(q, j) /\ KidHi(p, j + 1) = KidHi(q, j)

\* BTreeInner::insert puts the half behind the child that was split, and the keys stay sorted.
LEMMA LinkOK ==
  ASSUME NEW q \in NodeT, NEW p \in NodeT, PageOK(q), q.type = "inner", Shape(p),
         NEW i \in 1 .. Len(q.kids), NEW k \in Key, KidLo(q, i) < k, k < KidHi(q, i), NEW b,
         LinkPage(q, p, k, b)
  PROVE  PageOK(p) /\ Joint(q, p, i, k, b)
  <1>1. /\ Len(q.keys) \in Nat /\ \A j \in 1 .. Len(q.keys) : q.keys[j] \in Int
        /\ q.lo \in Int /\ q.hi \in Int /\ q.lo < q.hi /\ Len(q.kids) = Len(q.keys) + 1 /\ k \in Int
    <2>1. \A j \in Key : j \in Int
      BY TreeAssumption DEF Key
    <2>2. Len(q.keys) \in Nat /\ q.lo \in Int /\ q.hi \in Int /\ \A j \in 1 .. Len(q.keys) : q.keys[j] \in Key
      BY NodeSeqs
    <2> QED BY <2>1, <2>2 DEF PageOK, Shape
  <1>2. /\ KidLo(q, i) \in Int /\ KidHi(q, i) \in Int /\ q.lo <= KidLo(q, i) /\ KidHi(q, i) <= q.hi
    BY KidLimits
  <1>3. q.lo < k /\ k < q.hi
    BY <1>1, <1>2
  <1>4. lowerBound(q, k) = i
    BY <1>1, <1>2, <1>3, WalkLimits
  <1>5. /\ \A j \in 1 .. i - 1 : q.keys[j] < k
        /\ \A j \in i .. Len(q.keys) : k <= q.keys[j]
    BY <1>1, <1>4, LowerBoundFacts DEF PageOK
  <1>6. \A j \in i .. Len(q.keys) : k < q.keys[j]
    <2> SUFFICES ASSUME NEW j \in i .. Len(q.keys) PROVE k < q.keys[j]
      OBVIOUS
    <2>1. i # Len(q.kids) /\ i \in 1 .. Len(q.keys) /\ j \in 1 .. Len(q.keys)
      BY <1>1
    <2>2. k < q.keys[i]
      BY <2>1 DEF KidHi
    <2>3. i < j => q.keys[i] < q.keys[j]
      BY <2>1 DEF PageOK, Ordered
    <2> QED BY <1>1, <2>1, <2>2, <2>3
  <1>7. /\ p.type = "inner" /\ p.level = q.level /\ p.lo = q.lo /\ p.hi = q.hi
        /\ Len(p.keys) = Len(q.keys) + 1
        /\ \A j \in 1 .. Len(q.keys) + 1 :
             p.keys[j] = IF j < i THEN q.keys[j] ELSE IF j = i THEN k ELSE q.keys[j - 1]
        /\ Len(p.kids) = Len(q.kids) + 1
        /\ \A j \in 1 .. Len(q.kids) + 1 :
             p.kids[j] = IF j < i + 1 THEN q.kids[j] ELSE IF j = i + 1 THEN b ELSE q.kids[j - 1]
    BY <1>4 DEF LinkPage, Inserted
  <1>8. /\ \A j \in 1 .. Len(q.keys) : q.lo < q.keys[j] /\ q.keys[j] < q.hi
        /\ \A j, l \in 1 .. Len(q.keys) : j < l => q.keys[j] < q.keys[l]
    BY DEF PageOK, Ordered
  <1>9. Ordered(p)
    <2>1. ASSUME NEW j \in 1 .. Len(q.keys) + 1 PROVE p.lo < p.keys[j] /\ p.keys[j] < p.hi
      <3>1. CASE j < i
        <4>1. j \in 1 .. Len(q.keys)
          BY <1>1, <3>1
        <4> QED BY <1>7, <1>8, <3>1, <4>1
      <3>2. CASE j = i
        BY <1>3, <1>7, <3>2
      <3>3. CASE j > i
        <4>1. j - 1 \in 1 .. Len(q.keys) /\ ~(j < i) /\ j # i
          BY <1>1, <3>3
        <4> QED BY <1>7, <1>8, <4>1
      <3> QED BY <3>1, <3>2, <3>3
    <2>2. ASSUME NEW j \in 1 .. Len(q.keys) + 1, NEW l \in 1 .. Len(q.keys) + 1, j < l
          PROVE  p.keys[j] < p.keys[l]
      <3>1. CASE l < i
        <4>1. j \in 1 .. Len(q.keys) /\ l \in 1 .. Len(q.keys) /\ j < i
          BY <1>1, <2>2, <3>1
        <4> QED BY <1>7, <1>8, <2>2, <3>1, <4>1
      <3>2. CASE l = i
        <4>1. j \in 1 .. i - 1 /\ j < i /\ j \in 1 .. Len(q.keys) + 1
          BY <1>1, <2>2, <3>2
        <4>2. p.keys[j] = q.keys[j] /\ p.keys[l] = k
          BY <1>7, <3>2, <4>1
        <4> QED BY <1>5, <4>1, <4>2
      <3>3. CASE l > i /\ j = i
        <4>1. l - 1 \in i .. Len(q.keys) /\ ~(l < i) /\ l # i
          BY <1>1, <3>3
        <4>2. p.keys[l] = q.keys[l - 1] /\ p.keys[j] = k
          BY <1>7, <3>3, <4>1
        <4> QED BY <1>6, <4>1, <4>2
      <3>4. CASE l > i /\ j < i
        <4>1. l - 1 \in 1 .. Len(q.keys) /\ ~(l < i) /\ l # i /\ j \in 1 .. Len(q.keys) /\ j < l - 1
          BY <1>1, <3>4
        <4>2. p.keys[l] = q.keys[l - 1] /\ p.keys[j] = q.keys[j]
          BY <1>7, <3>4, <4>1
        <4> QED BY <1>8, <4>1, <4>2
      <3>5. CASE j > i
        <4>1. /\ l - 1 \in 1 .. Len(q.keys) /\ ~(l < i) /\ l # i
              /\ j - 1 \in 1 .. Len(q.keys) /\ ~(j < i) /\ j # i /\ j - 1 < l - 1
          BY <1>1, <2>2, <3>5
        <4>2. p.keys[l] = q.keys[l - 1] /\ p.keys[j] = q.keys[j - 1]
          BY <1>7, <4>1
        <4> QED BY <1>8, <4>1, <4>2
      <3> QED BY <1>1, <3>1, <3>2, <3>3, <3>4, <3>5
    <2> QED BY <1>7, <2>1, <2>2 DEF Ordered
  <1>10. PageOK(p)
    <2>1. q.level # 0 /\ "inner" # "leaf"
      BY DEF PageOK
    <2> QED BY <1>1, <1>7, <1>9, <2>1 DEF PageOK
  <1>11. Joint(q, p, i, k, b)
    <2>0. Len(p.kids) = Len(q.kids) + 1 /\ Len(q.kids) \in Nat /\ i \in 1 .. Len(q.kids)
      BY <1>1, <1>7
    <2>1. ASSUME NEW j \in 1 .. i
          PROVE  /\ p.kids[j] = q.kids[j] /\ KidLo(p, j) = KidLo(q, j)
                 /\ j # i => KidHi(p, j) = KidHi(q, j)
      <3>1. j \in 1 .. Len(q.kids) + 1 /\ j < i + 1
        BY <1>1
      <3>2. j # 1 => j - 1 \in 1 .. Len(q.keys) + 1 /\ j - 1 < i
        BY <1>1
      <3>3. j # i => j # Len(q.kids) /\ j # Len(p.kids) /\ j \in 1 .. Len(q.keys) + 1 /\ j < i
        BY <1>1, <1>7
      <3> QED BY <1>7, <3>1, <3>2, <3>3 DEF KidLo, KidHi
    <2>2. KidHi(p, i) = k
      <3>1. i # Len(p.kids) /\ i \in 1 .. Len(q.keys) + 1 /\ ~(i < i)
        BY <1>1, <1>7
      <3> QED BY <1>7, <3>1 DEF KidHi
    <2>3. p.kids[i + 1] = b /\ KidLo(p, i + 1) = k /\ KidHi(p, i + 1) = KidHi(q, i)
      <3>1. i + 1 \in 1 .. Len(q.kids) + 1 /\ ~(i + 1 < i + 1) /\ i + 1 # 1 /\ (i + 1) - 1 = i
            /\ i \in 1 .. Len(q.keys) + 1 /\ ~(i < i)
        BY <1>1
      <3>2. i + 1 = Len(p.kids) <=> i = Len(q.kids)
        BY <2>0
      <3>3. i # Len(q.kids) => i + 1 \in 1 .. Len(q.keys) + 1 /\ ~(i + 1 < i) /\ i + 1 # i
        BY <1>1
      <3>4. p.kids[i + 1] = b
        BY <1>7, <3>1
      <3>5. KidLo(p, i + 1) = k
        BY <1>7, <3>1 DEF KidLo
      <3>6. KidHi(p, i + 1) = KidHi(q, i)
        BY <1>7, <3>1, <3>2, <3>3 DEF KidHi
      <3> QED BY <3>4, <3>5, <3>6
    <2>4. ASSUME NEW j \in i + 1 .. Len(q.kids)
          PROVE  /\ p.kids[j + 1] = q.kids[j]
                 /\ KidLo(p, j + 1) = KidLo(q, j) /\ KidHi(p, j + 1) = KidHi(q, j)
      <3>0. i \in Int /\ 1 <= i /\ j \in Int /\ i + 1 <= j /\ j <= Len(q.kids) /\ Len(q.kids) \in Nat
        BY <2>0
      <3>1. /\ j + 1 \in 1 .. Len(q.kids) + 1 /\ ~(j + 1 < i + 1) /\ j + 1 # i + 1 /\ (j + 1) - 1 = j
            /\ j # 1 /\ j + 1 # 1
        BY SMTT(40), <3>0
      <3>2. j \in 1 .. Len(q.keys) + 1 /\ ~(j < i) /\ j # i
        BY <1>1
      <3>3. j + 1 = Len(p.kids) <=> j = Len(q.kids)
        BY <2>0
      <3>4. j # Len(q.kids) => j + 1 \in 1 .. Len(q.keys) + 1 /\ ~(j + 1 < i) /\ j + 1 # i
        BY <1>1
      <3>5. p.kids[j + 1] = q.kids[j]
        BY <1>7, <3>1
      <3>6. KidLo(p, j + 1) = KidLo(q, j)
        BY <1>7, <3>1, <3>2 DEF KidLo
      <3>7. KidHi(p, j + 1) = KidHi(q, j)
        BY <1>7, <3>1, <3>3, <3>4 DEF KidHi
      <3> QED BY <3>5, <3>6, <3>7
    <2>5. i \in 1 .. i /\ \A j \in 1 .. i - 1 : j \in 1 .. i /\ j # i
      BY <1>1
    <2> QED BY <1>7, <2>1, <2>2, <2>3, <2>4, <2>5 DEF Joint
  <1> QED BY <1>10, <1>11

\* The parent of the split page gets its half.
LEMMA JoinFenced ==
  ASSUME NEW Q \in [Addr -> NodeT], NEW P \in [Addr -> NodeT], NEW L \in SUBSET (Addr \ {NullAddr}), NEW z,
         NEW c \in L, NEW y \in L, NEW e, Linked(Q, L, z, {y}), Fenced(Q, L, z, c, y),
         NEW x \in L, NEW i \in 1 .. Len(Q[x].kids), Q[x].kids[i] = c, Q[c].hi \in Key,
         \A a \in Addr : Shape(P[a]), LinkPage(Q[x], P[x], Q[c].hi, y), \A a \in Addr \ {x} : P[a] = Q[a]
  PROVE  Fenced(P, L, z, NullAddr, e)
  <1> DEFINE k == Q[c].hi
  <1>1. /\ Q[x] \in NodeT /\ P[x] \in NodeT /\ Shape(P[x]) /\ PageOK(Q[x]) /\ PageOK(Q[c]) /\ PageOK(Q[y])
        /\ z \in L /\ c # NullAddr /\ c # y /\ Q[y].lo = k /\ Q[y].level = Q[c].level /\ Q[c] \in NodeT
    BY DEF Fenced, Linked
  <1>2. Q[c].level + 1 = Q[x].level /\ Q[c].lo = KidLo(Q[x], i) /\ Q[y].hi = KidHi(Q[x], i)
    BY DEF Fenced, KidFits, HiOf
  <1>3. Q[x].type = "inner"
    <2>1. Len(Q[x].kids) # 0
      BY <1>1, NodeSeqs
    <2>2. Q[x].kids # <<>>
      BY <2>1
    <2> QED BY <1>1, <2>2 DEF PageOK, Shape
  <1>4. x # c /\ x # y
    <2>1. Q[c].level \in Nat
      BY <1>1 DEF NodeT
    <2> QED BY <1>1, <1>2, <2>1
  <1>5. KidLo(Q[x], i) < k /\ k < KidHi(Q[x], i)
    BY <1>1, <1>2 DEF PageOK
  <1>6. PageOK(P[x]) /\ Joint(Q[x], P[x], i, k, y)
    BY <1>1, <1>3, <1>5, LinkOK
  <1>7. \A b \in L : P[b].level = Q[b].level /\ P[b].lo = Q[b].lo /\ P[b].hi = Q[b].hi
    <2>1. P[x].level = Q[x].level /\ P[x].lo = Q[x].lo /\ P[x].hi = Q[x].hi
      BY DEF LinkPage
    <2> QED BY <2>1
  <1>8. \A a \in L : \A j \in 1 .. Len(Q[a].kids) :
          ~(a = x /\ j = i) =>
             /\ Q[a].kids[j] \in L /\ Q[Q[a].kids[j]].level + 1 = Q[a].level
             /\ Q[Q[a].kids[j]].lo = KidLo(Q[a], j) /\ Q[Q[a].kids[j]].hi = KidHi(Q[a], j)
    <2> SUFFICES ASSUME NEW a \in L, NEW j \in 1 .. Len(Q[a].kids), ~(a = x /\ j = i)
                 PROVE  /\ Q[a].kids[j] \in L /\ Q[Q[a].kids[j]].level + 1 = Q[a].level
                        /\ Q[Q[a].kids[j]].lo = KidLo(Q[a], j) /\ Q[Q[a].kids[j]].hi = KidHi(Q[a], j)
      OBVIOUS
    <2>1. Q[a].kids[j] # c
      BY NamedOnce
    <2>2. Q[a].kids[j] \in L
      BY DEF Linked
    <2>3. KidFits(Q, a, j, c, y)
      BY DEF Fenced
    <2> QED BY <2>1, <2>2, <2>3 DEF KidFits, HiOf
  <1>9. ASSUME NEW a \in L, NEW j \in 1 .. Len(P[a].kids),
               NEW d \in L, P[a].kids[j] = d, Q[d].level + 1 = Q[a].level, Q[d].lo = KidLo(P[a], j),
               Q[d].hi = KidHi(P[a], j)
        PROVE  KidFits(P, a, j, NullAddr, e)
    <2>1. d # NullAddr /\ P[d].level = Q[d].level /\ P[d].lo = Q[d].lo /\ P[d].hi = Q[d].hi
          /\ P[a].level = Q[a].level
      BY <1>7
    <2> QED BY <1>9, <2>1 DEF KidFits, HiOf
  <1>10. ASSUME NEW a \in L, NEW j \in 1 .. Len(P[a].kids) PROVE KidFits(P, a, j, NullAddr, e)
    <2>1. CASE a # x
      <3>1. P[a] = Q[a] /\ j \in 1 .. Len(Q[a].kids)
        BY <1>10, <2>1
      <3> QED BY <1>8, <1>9, <2>1, <3>1
    <2>2. CASE a = x
      <3>0. Len(Q[x].kids) \in Nat /\ Len(P[x].kids) = Len(Q[x].kids) + 1 /\ j \in 1 .. Len(Q[x].kids) + 1
        BY <1>1, <1>6, <1>10, <2>2, NodeSeqs DEF Joint
      <3>1. CASE j < i
        <4>1. j \in 1 .. i - 1 /\ j \in 1 .. Len(Q[x].kids) /\ j # i
          BY <3>0, <3>1
        <4>2. /\ P[x].kids[j] = Q[x].kids[j] /\ KidLo(P[x], j) = KidLo(Q[x], j)
              /\ KidHi(P[x], j) = KidHi(Q[x], j)
          BY <1>6, <4>1 DEF Joint
        <4> QED BY SMTT(40), <1>8, <1>9, <2>2, <4>1, <4>2
      <3>2. CASE j = i
        <4>1. P[x].kids[j] = c /\ KidLo(P[x], j) = KidLo(Q[x], i) /\ KidHi(P[x], j) = k
          BY <1>6, <3>2 DEF Joint
        <4> QED BY <1>2, <1>9, <2>2, <4>1
      <3>3. CASE j = i + 1
        <4>1. P[x].kids[j] = y /\ KidLo(P[x], j) = k /\ KidHi(P[x], j) = KidHi(Q[x], i)
          BY <1>6, <3>3 DEF Joint
        <4> QED BY <1>1, <1>2, <1>9, <2>2, <4>1
      <3>4. CASE j > i + 1
        <4>1. j - 1 \in i + 1 .. Len(Q[x].kids) /\ j - 1 \in 1 .. Len(Q[x].kids) /\ j - 1 # i /\ (j - 1) + 1 = j
          BY <3>0, <3>4
        <4>2. /\ P[x].kids[j] = Q[x].kids[j - 1] /\ KidLo(P[x], j) = KidLo(Q[x], j - 1)
              /\ KidHi(P[x], j) = KidHi(Q[x], j - 1)
          BY <1>6, <4>1 DEF Joint
        <4>3. PICK d : d = Q[x].kids[j - 1]
          OBVIOUS
        <4>4. /\ d \in L /\ Q[d].level + 1 = Q[x].level /\ Q[d].lo = KidLo(Q[x], j - 1)
              /\ Q[d].hi = KidHi(Q[x], j - 1)
          BY <1>8, <4>1, <4>3
        <4> QED BY <1>9, <2>2, <4>2, <4>3, <4>4
      <3> QED BY <3>0, <3>1, <3>2, <3>3, <3>4
    <2> QED BY <2>1, <2>2
  <1>11. \A a \in L : PageOK(P[a])
    <2>1. \A a \in L \ {x} : P[a] = Q[a] /\ PageOK(Q[a])
      BY DEF Fenced
    <2> QED BY <1>6, <2>1
  <1>12. P[z].lo = MinLimit /\ HiOf(P, z, NullAddr, e) = MaxLimit
    <2>1. c # z
      <3>1. Q[x].kids[i] \in L \ ({y} \union {z})
        BY DEF Linked
      <3> QED BY <3>1
    <2>2. Q[z].lo = MinLimit /\ Q[z].hi = MaxLimit
      BY <2>1 DEF Fenced, HiOf
    <2>3. z # NullAddr
      BY <1>1
    <2> QED BY <1>1, <1>7, <2>2, <2>3 DEF HiOf
  <1> QED BY <1>10, <1>11, <1>12 DEF Fenced

\* The root was split and gets a root of its own.
LEMMA GrowFenced ==
  ASSUME NEW Q \in [Addr -> NodeT], NEW P \in [Addr -> NodeT], NEW L \in SUBSET (Addr \ {NullAddr}),
         NEW z \in L, NEW y \in L, NEW e, Linked(Q, L, z, {y}), Fenced(Q, L, z, z, y),
         NEW x \in Addr \ L, x # NullAddr, Q[z].hi \in Key,
         RootPage(P[x], Q[z].level + 1, Q[z].hi, z, y), \A a \in Addr \ {x} : P[a] = Q[a]
  PROVE  Fenced(P, L \union {x}, x, NullAddr, e)
  <1> DEFINE k == Q[z].hi
  <1>1. /\ z # NullAddr /\ z # y /\ Q[y].lo = k /\ Q[y].level = Q[z].level /\ PageOK(Q[z]) /\ PageOK(Q[y])
        /\ Q[z].lo = MinLimit /\ Q[y].hi = MaxLimit
    BY DEF Fenced, HiOf
  <1>2. /\ P[x].type = "inner" /\ P[x].level = Q[z].level + 1 /\ P[x].lo = MinLimit /\ P[x].hi = MaxLimit
        /\ P[x].keys = <<k>> /\ P[x].kids = <<z, y>>
    BY DEF RootPage
  <1>3. MinLimit < k /\ k < MaxLimit
    BY <1>1 DEF PageOK
  <1>4. /\ Len(P[x].keys) = 1 /\ P[x].keys[1] = k
        /\ Len(P[x].kids) = 2 /\ P[x].kids[1] = z /\ P[x].kids[2] = y
    BY <1>2
  <1>5. \A b \in L : P[b] = Q[b] /\ b # x /\ b # NullAddr
    OBVIOUS
  <1>6. PageOK(P[x])
    <2>1. Q[z].level \in Nat /\ MinLimit \in Int /\ MaxLimit \in Int /\ k \in Int
      <3>1. Q[z] \in NodeT
        OBVIOUS
      <3>2. \A j \in Key : j \in Int
        BY TreeAssumption DEF Key
      <3> QED BY <3>1, <3>2, TreeAssumption DEF NodeT, MinLimit, MaxLimit
    <2>2. Shape(P[x])
      BY <1>2, <1>4 DEF Shape
    <2>3. \A i \in 1 .. 1 : i = 1
      OBVIOUS
    <2>4. Ordered(P[x])
      <3>1. \A i \in 1 .. Len(P[x].keys) : P[x].lo < P[x].keys[i] /\ P[x].keys[i] < P[x].hi
        BY <1>2, <1>3, <1>4, <2>3
      <3>2. \A i, j \in 1 .. Len(P[x].keys) : i = j
        BY <1>4, <2>3
      <3>3. \A i, j \in 1 .. Len(P[x].keys) : ~(i < j)
        BY <1>4, <2>3
      <3> QED BY <3>1, <3>3 DEF Ordered
    <2>5. MinLimit < MaxLimit /\ P[x].level # 0
      BY <1>2, <1>3, <2>1
    <2> QED BY <1>2, <2>2, <2>4, <2>5 DEF PageOK
  <1>7. ASSUME NEW a \in L, NEW i \in 1 .. Len(P[a].kids) PROVE KidFits(P, a, i, NullAddr, e)
    <2>1. P[a] = Q[a] /\ i \in 1 .. Len(Q[a].kids)
      BY <1>5, <1>7
    <2>2. PICK d : d = Q[a].kids[i]
      OBVIOUS
    <2>3. d \in L \ ({y} \union {z})
      BY <2>1, <2>2 DEF Linked
    <2>4. KidFits(Q, a, i, z, y)
      BY <2>1 DEF Fenced
    <2>5. Q[d].level + 1 = Q[a].level /\ Q[d].lo = KidLo(Q[a], i) /\ Q[d].hi = KidHi(Q[a], i)
      BY <2>2, <2>3, <2>4 DEF KidFits, HiOf
    <2>6. P[d] = Q[d] /\ d # NullAddr
      BY <1>5, <2>3
    <2> QED BY <2>1, <2>2, <2>5, <2>6 DEF KidFits, HiOf
  <1>8. ASSUME NEW i \in 1 .. Len(P[x].kids) PROVE KidFits(P, x, i, NullAddr, e)
    <2>1. CASE i = 1
      <3>1. KidLo(P[x], i) = MinLimit /\ KidHi(P[x], i) = k
        BY <1>2, <1>4, <2>1 DEF KidLo, KidHi
      <3> QED BY <1>1, <1>2, <1>4, <1>5, <2>1, <3>1 DEF KidFits, HiOf
    <2>2. CASE i = 2
      <3>1. KidLo(P[x], i) = k /\ KidHi(P[x], i) = MaxLimit
        BY <1>2, <1>4, <2>2 DEF KidLo, KidHi
      <3> QED BY <1>1, <1>2, <1>4, <1>5, <2>2, <3>1 DEF KidFits, HiOf
    <2> QED BY <1>4, <1>8, <2>1, <2>2
  <1>9. \A a \in L \union {x} : PageOK(P[a])
    BY <1>5, <1>6 DEF Fenced
  <1>10. HiOf(P, x, NullAddr, e) = MaxLimit
    BY <1>2 DEF HiOf
  <1> QED BY <1>2, <1>7, <1>8, <1>9, <1>10 DEF Fenced

\* Entries are written to a leaf.
LEMMA WriteFenced ==
  ASSUME NEW Q \in [Addr -> NodeT], NEW P \in [Addr -> NodeT], NEW L \in SUBSET (Addr \ {NullAddr}),
         NEW z, NEW y, NEW e, Linked(Q, L, z, {}), Fenced(Q, L, z, NullAddr, y), NEW x \in L, NEW d,
         P = [Q EXCEPT ![x] = [@ EXCEPT !.data = d]],
         \A k \in DOMAIN d : Q[x].lo < k /\ k <= Q[x].hi
  PROVE  Fenced(P, L, z, NullAddr, e)
  <1>0. ASSUME NEW n \in NodeT
        PROVE  LET m == [n EXCEPT !.data = d] IN
               /\ m.type = n.type /\ m.level = n.level /\ m.keys = n.keys /\ m.kids = n.kids
               /\ m.bitmap = n.bitmap /\ m.lo = n.lo /\ m.hi = n.hi /\ m.data = d
    BY DEF NodeT
  <1>1. \A a \in Addr : P[a] = IF a = x THEN [Q[a] EXCEPT !.data = d] ELSE Q[a]
    OBVIOUS
  <1>2. \A a \in Addr : /\ P[a].type = Q[a].type /\ P[a].level = Q[a].level /\ P[a].keys = Q[a].keys
                        /\ P[a].kids = Q[a].kids /\ P[a].bitmap = Q[a].bitmap
                        /\ P[a].lo = Q[a].lo /\ P[a].hi = Q[a].hi
                        /\ a # x => P[a].data = Q[a].data
                        /\ a = x => P[a].data = d
    <2> SUFFICES ASSUME NEW a \in Addr
                 PROVE  /\ P[a].type = Q[a].type /\ P[a].level = Q[a].level /\ P[a].keys = Q[a].keys
                        /\ P[a].kids = Q[a].kids /\ P[a].bitmap = Q[a].bitmap
                        /\ P[a].lo = Q[a].lo /\ P[a].hi = Q[a].hi
                        /\ a # x => P[a].data = Q[a].data
                        /\ a = x => P[a].data = d
      OBVIOUS
    <2>1. CASE a # x
      BY <1>1, <2>1
    <2>2. CASE a = x
      <3>1. Q[a] \in NodeT /\ P[a] = [Q[a] EXCEPT !.data = d]
        BY <1>1, <2>2
      <3> QED BY <1>0, <2>2, <3>1
    <2> QED BY <2>1, <2>2
  <1>3. \A a \in L : PageOK(P[a])
    <2> SUFFICES ASSUME NEW a \in L PROVE PageOK(P[a])
      OBVIOUS
    <2>1. PageOK(Q[a]) /\ a \in Addr
      BY DEF Fenced
    <2>2. Shape(P[a]) /\ Ordered(P[a])
      BY <1>2, <2>1 DEF PageOK, Shape, Ordered
    <2>3. \A k \in DOMAIN P[a].data : P[a].type = "leaf" => P[a].lo < k /\ k <= P[a].hi
      <3>1. CASE a = x
        BY <1>2, <2>1, <3>1
      <3>2. CASE a # x
        BY <1>2, <2>1, <3>2 DEF PageOK
      <3> QED BY <3>1, <3>2
    <2> QED BY <1>2, <2>1, <2>2, <2>3 DEF PageOK
  <1>4. ASSUME NEW a \in L, NEW i \in 1 .. Len(P[a].kids) PROVE KidFits(P, a, i, NullAddr, e)
    <2>1. a \in Addr /\ P[a].kids = Q[a].kids /\ i \in 1 .. Len(Q[a].kids)
      BY <1>2, <1>4
    <2>2. PICK b : b = Q[a].kids[i]
      OBVIOUS
    <2>3. b \in L /\ b \in Addr /\ b # NullAddr
      BY <2>1, <2>2 DEF Linked
    <2>4. KidFits(Q, a, i, NullAddr, y)
      BY <2>1 DEF Fenced
    <2>5. Q[b].level + 1 = Q[a].level /\ Q[b].lo = KidLo(Q[a], i) /\ Q[b].hi = KidHi(Q[a], i)
      BY <2>2, <2>3, <2>4 DEF KidFits, HiOf
    <2>6. KidLo(P[a], i) = KidLo(Q[a], i) /\ KidHi(P[a], i) = KidHi(Q[a], i)
      BY <1>2, <2>1 DEF KidLo, KidHi
    <2>7. P[b].level = Q[b].level /\ P[b].lo = Q[b].lo /\ P[b].hi = Q[b].hi /\ P[a].level = Q[a].level
      BY <1>2, <2>1, <2>3
    <2> QED BY <2>1, <2>2, <2>3, <2>5, <2>6, <2>7 DEF KidFits, HiOf
  <1>5. z \in L /\ z \in Addr /\ z # NullAddr
    BY DEF Linked
  <1>6. Q[z].lo = MinLimit /\ Q[z].hi = MaxLimit
    BY <1>5 DEF Fenced, HiOf
  <1> QED BY <1>2, <1>3, <1>4, <1>5, <1>6 DEF Fenced, HiOf

-----------------------------------------------------------------------------
(* The walk *)

\* The page being split and its half, until the parent knows of it.
SplitC == IF pc \in {"sib", "link"} THEN remote_address[child] ELSE NullAddr
SplitR == IF pc \in {"sib", "link"} THEN At(right, remote_address) ELSE NullAddr
\* The separator is the limit of the page that was split, and the walk is on the way to its key.
OnTheWay(Q) ==
  /\ pc \in {"sib", "link"} => sep = Q[remote_address[child]].hi
  /\ cur # Super => /\ Q[remote_address[cur]].lo < op.key
                    /\ op.key <= Q[remote_address[cur]].hi

\* Every step that asks for, fills or gives up no slot leaves the addresses alone.
LEMMA AddrKept ==
  ASSUME Running, [Next]_vars
  PROVE  \A s \in Used : remote_address'[s] = remote_address[s]
  <1>1. OwnInv /\ adm.addr \in Addr /\ adm.dirty \in BOOLEAN /\ Used \in SUBSET Slot
    BY RunningFacts DEF Running
  <1>2. CASE AdmitLoad \/ AdmitSib \/ AdmitRoot
    <2>1. CacheInsert(adm.addr, adm.dirty)
      BY <1>2 DEF AdmitLoad, AdmitSib, AdmitRoot
    <2>2. /\ page \in Slot /\ page \notin Used
          /\ \A s \in Slot : remote_address'[s] = IF s = page THEN adm.addr ELSE remote_address[s]
      BY <1>1, <2>1, InsertAddsUsed
    <2> QED BY <1>1, <2>2
  <1>3. CASE VisitHit \/ MakeNewRoot \/ UNCHANGED vars \/ (\E o \in Calls : Begin(o))
    BY <1>3 DEF VisitHit, MakeNewRoot, vars, Begin, poolVars, pages
  <1>4. CASE VisitMiss \/ LoadSibling \/ RequestUnpinned
    BY <1>4 DEF VisitMiss, LoadSibling, RequestUnpinned, LoadChild, RequestPage
  <1>5. CASE PoolStep
    BY <1>5 DEF PoolStep, GetEmptyPage, Allocate, TakeLocal, EvictCool, ProbeFails, SampleExit, pages
  <1>6. CASE SplitLeaf \/ SplitInner \/ LinkSibling
    BY <1>6 DEF SplitLeaf, SplitInner, LinkSibling, MarkDirty
  <1>7. CASE LeafInsert \/ LeafLookup \/ LeafUpdate \/ LeafRemove \/ LeafScan \/ LeafCtor
    BY <1>7 DEF LeafInsert, LeafLookup, LeafUpdate, LeafRemove, LeafScan, LeafCtor, Finish, MarkDirty
  <1>8. ASSUME NEW s \in Slot, SampleDemote(s) \/ SampleStale(s) \/ SampleOrphan(s) \/ SampleAssert(s)
        PROVE  remote_address' = remote_address
    BY <1>8 DEF SampleDemote, SampleStale, SampleOrphan, SampleAssert, Demote, SamplePage, poolVars, pages
  <1>9. CASE Destroy
    BY <1>9 DEF Destroy, FlushAll
  <1> QED BY <1>2, <1>3, <1>4, <1>5, <1>6, <1>7, <1>8, <1>9 DEF Next, TreeStep

\* A split keeps its locals until the parent is told.
LEMMA SplitLocals ==
  ASSUME [Next]_vars, pc \in {"split", "sib", "link"}, pc' \in {"sib", "link"}
  PROVE  child' = child /\ UNCHANGED <<cur, op, retry>> /\ (pc # "split" => sep' = sep)
  <1>1. CASE AdmitLoad \/ AdmitRoot \/ VisitHit \/ (\E o \in Calls : Begin(o))
    BY <1>1 DEF AdmitLoad, AdmitRoot, VisitHit, Begin
  <1>2. CASE VisitMiss \/ LoadSibling
    BY <1>2 DEF VisitMiss, LoadSibling
  <1>3. CASE RequestUnpinned \/ PoolStep \/ UNCHANGED vars
    BY <1>3 DEF RequestUnpinned, PoolStep, vars, treeVars, walk, split
  <1>4. CASE AdmitSib \/ SplitLeaf \/ SplitInner
    BY <1>4 DEF AdmitSib, SplitLeaf, SplitInner, walk
  <1>5. CASE LinkSibling \/ MakeNewRoot
    BY <1>5 DEF LinkSibling, MakeNewRoot
  <1>6. CASE LeafInsert \/ LeafLookup \/ LeafUpdate \/ LeafRemove \/ LeafScan \/ LeafCtor
    BY <1>6 DEF LeafInsert, LeafLookup, LeafUpdate, LeafRemove, LeafScan, LeafCtor, Finish
  <1>7. ASSUME NEW s \in Slot, SampleDemote(s) \/ SampleStale(s) \/ SampleOrphan(s) \/ SampleAssert(s)
        PROVE  child' = child /\ UNCHANGED <<cur, op, retry>> /\ (pc # "split" => sep' = sep)
    BY <1>7 DEF SampleDemote, SampleStale, SampleOrphan, SampleAssert, split, walk
  <1>8. CASE Destroy
    BY <1>8 DEF Destroy
  <1> QED BY <1>1, <1>2, <1>3, <1>4, <1>5, <1>6, <1>7, <1>8 DEF Next, TreeStep

\* The walk moves down in VisitHit, and ends in the leaf.
LEMMA WalkSteps ==
  ASSUME [Next]_vars
  PROVE  \/ UNCHANGED <<cur, op>>
         \/ pc = "idle" /\ cur' = cur
         \/ cur' = Super
         \/ /\ VisitHit /\ cur' = ChildRef(ChildIdx) /\ ChildRef(ChildIdx) \in Slot
            /\ UNCHANGED <<op, pages, super, root_>>
  <1>1. CASE VisitHit
    BY <1>1 DEF VisitHit, poolVars
  <1>2. CASE \E o \in Calls : Begin(o)
    BY <1>2 DEF Begin
  <1>3. CASE VisitMiss \/ LoadSibling \/ RequestUnpinned \/ PoolStep \/ UNCHANGED vars
    BY <1>3 DEF VisitMiss, LoadSibling, LoadChild, RequestUnpinned, PoolStep, vars, treeVars, walk
  <1>4. CASE AdmitSib \/ SplitLeaf \/ SplitInner \/ LinkSibling \/ MakeNewRoot \/ AdmitLoad \/ AdmitRoot
    BY <1>4 DEF AdmitSib, SplitLeaf, SplitInner, LinkSibling, MakeNewRoot, AdmitLoad, AdmitRoot, walk
  <1>5. CASE LeafInsert \/ LeafLookup \/ LeafUpdate \/ LeafRemove \/ LeafScan \/ LeafCtor
    BY <1>5 DEF LeafInsert, LeafLookup, LeafUpdate, LeafRemove, LeafScan, LeafCtor, Finish
  <1>6. ASSUME NEW s \in Slot, SampleDemote(s) \/ SampleStale(s) \/ SampleOrphan(s) \/ SampleAssert(s)
        PROVE  UNCHANGED <<cur, op>>
    BY <1>6 DEF SampleDemote, SampleStale, SampleOrphan, SampleAssert, walk
  <1>7. CASE Destroy
    BY <1>7 DEF Destroy, walk
  <1> QED BY <1>1, <1>2, <1>3, <1>4, <1>5, <1>6, <1>7 DEF Next, TreeStep

\* A page has the shape of its copy.
LEMMA StoredShape ==
  ASSUME Running', NEW P \in [Addr -> NodeT], Stored(P)'
  PROVE  \A a \in Addr : Shape(P[a])
  <1>1. /\ node' \in [Slot -> NodeT] /\ remote_address' \in [Slot -> Addr] /\ adm'.node \in NodeT
        /\ \A s \in Slot : Shape(node'[s])
        /\ \A a \in Addr : Shape(backend'[a].node)
        /\ Shape(adm'.node)
    BY DEF Running, WireInv, OwnInv, OwnTypes, TreeTypes, Shapes
  <1> SUFFICES ASSUME NEW a \in Addr PROVE Shape(P[a])
    OBVIOUS
  <1>2. backend'[a].node = P[a] \/ Cached(a)' \/ (pc' \in {"sib", "root"} /\ a = adm'.addr)
    BY DEF Stored, UncachedPages
  <1>3. CASE Cached(a)'
    <2>1. PICK s \in Used' : remote_address'[s] = a
      BY <1>3 DEF Cached
    <2>2. s \in Slot /\ P[a] = Page(node'[s], remote_address')
      BY <2>1 DEF Used, Stored, CachedPages
    <2> QED BY <1>1, <2>2, PageFacts
  <1>4. CASE pc' \in {"sib", "root"} /\ a = adm'.addr
    <2>1. P[a] = Page(adm'.node, remote_address')
      BY <1>4 DEF Stored, WaitingPage
    <2> QED BY <1>1, <2>1, PageFacts
  <1> QED BY <1>1, <1>2, <1>3, <1>4

\* Only the operation's own key is added to a leaf.
LEMMA LeafKeys ==
  ASSUME Running, pc = "leaf", LeafStep
  PROVE  \A k \in DOMAIN node'[cur].data : k \in DOMAIN node[cur].data \/ k = op.key
  <1> DEFINE m == node[cur]
  <1>1. TreeTypes /\ cur \in Slot /\ node \in [Slot -> NodeT] /\ m \in NodeT
    BY RunningFacts DEF Wiring, CurHere, Used
  <1>2. ASSUME NEW n, NEW w, NEW r, Finish(n, w, r) PROVE node'[cur] = n
    BY <1>1, <1>2 DEF Finish
  <1>3. DOMAIN Put(m, op.key, op.val).data = DOMAIN m.data \union {op.key}
    BY <1>1 DEF Put, NodeT
  <1>4. CASE LeafInsert
    <2>1. node'[cur] = m \/ node'[cur] = Put(m, op.key, op.val)
      BY <1>2, <1>4 DEF LeafInsert
    <2> QED BY <1>3, <2>1
  <1>5. CASE LeafUpdate
    <2>1. node'[cur] = m \/ node'[cur] = Put(m, op.key, op.val)
      BY <1>2, <1>5 DEF LeafUpdate
    <2> QED BY <1>3, <2>1
  <1>6. CASE LeafRemove
    <2>1. node'[cur] = [m EXCEPT !.data = Restrict(@, DOMAIN @ \ {op.key})]
      BY <1>2, <1>6 DEF LeafRemove
    <2>2. DOMAIN node'[cur].data = DOMAIN m.data \ {op.key}
      BY <1>1, <2>1 DEF Restrict, NodeT
    <2> QED BY <2>2
  <1>7. CASE LeafLookup \/ LeafScan \/ LeafCtor
    <2>1. node'[cur] = m
      BY <1>2, <1>7 DEF LeafLookup, LeafScan, LeafCtor
    <2> QED BY <2>1
  <1> QED BY <1>4, <1>5, <1>6, <1>7 DEF LeafStep

\* Keys of calls are within the limits of the root.
LEMMA OpLimits ==
  ASSUME op \in Calls \union {NoCall}
  PROVE  op.key \in Nat /\ MinLimit < op.key /\ op.key <= MaxLimit
  <1>1. MaxKey \in Nat
    BY TreeAssumption
  <1>2. op.key \in Nat /\ (op.kind # "ctor" => op.key \in Key)
    BY OpFacts
  <1>3. CASE op = NoCall
    BY <1>1, <1>3 DEF NoCall, MinLimit, MaxLimit
  <1>4. CASE op \in Calls
    <2>1. op.key \in Key
      BY <1>4 DEF Calls
    <2> QED BY <1>1, <2>1 DEF Key, MinLimit, MaxLimit
  <1> QED BY <1>2, <1>3, <1>4

\* No page has the null address.
LEMMA LiveAddrs ==
  ASSUME Running
  PROVE  Live \in SUBSET (Addr \ {NullAddr})
  <1>1. Live \in SUBSET Addr
    BY RunningFacts
  <1> QED BY <1>1 DEF Live, NullAddr

\* What a slot in use holds.
LEMMA CopyOf ==
  ASSUME Running, NEW Q \in [Addr -> NodeT], Stored(Q), NEW s \in Used
  PROVE  /\ s \in Slot /\ remote_address[s] \in Live /\ node[s] \in NodeT
         /\ SameText(Q[remote_address[s]], node[s])
         /\ \A j \in 1 .. Len(node[s].kids) :
              Q[remote_address[s]].kids[j] = At(node[s].kids[j], remote_address)
         /\ \A t \in Used : remote_address[s] = remote_address[t] => s = t
  <1>1. remote_address \in [Slot -> Addr] /\ node \in [Slot -> NodeT] /\ s \in Slot
    BY RunningFacts
  <1>2. remote_address[s] \in Live /\ Q[remote_address[s]] = Page(node[s], remote_address) /\ node[s] \in NodeT
        /\ \A t \in Used : remote_address[s] = remote_address[t] => s = t
    BY <1>1 DEF Stored, CachedPages
  <1> QED BY <1>1, <1>2, PageFacts

\* The child that is split is a child of the page the walk stands on, or the root.
LEMMA ChildPage ==
  ASSUME Running, NEW Q \in [Addr -> NodeT], Stored(Q), Rooted, pc \in {"split", "sib", "link"}
  PROVE  /\ child \in Used /\ child \in Slot /\ remote_address[child] \in Live
         /\ cur = Super => remote_address[child] = root_
         /\ cur # Super => /\ cur \in Used /\ remote_address[cur] \in Live
                           /\ \E i \in 1 .. Len(Q[remote_address[cur]].kids) :
                                Q[remote_address[cur]].kids[i] = remote_address[child]
  <1>1. Wiring /\ Used \in SUBSET Slot
    BY RunningFacts
  <1>2. child \in Used /\ IF cur = Super THEN super = child ELSE child \in Swizzled(node[cur])
    BY <1>1 DEF Wiring, ChildHere
  <1>3. remote_address[child] \in Live
    BY <1>2, CopyOf
  <1>4. cur = Super => remote_address[child] = root_
    BY <1>1, <1>2 DEF Rooted, At
  <1>5. ASSUME cur # Super
        PROVE  /\ cur \in Used /\ remote_address[cur] \in Live
               /\ \E i \in 1 .. Len(Q[remote_address[cur]].kids) :
                    Q[remote_address[cur]].kids[i] = remote_address[child]
    <2>1. cur \in Used
      BY <1>1, <1>5 DEF Wiring, CurHere
    <2>2. /\ remote_address[cur] \in Live /\ node[cur] \in NodeT /\ SameText(Q[remote_address[cur]], node[cur])
          /\ \A j \in 1 .. Len(node[cur].kids) :
               Q[remote_address[cur]].kids[j] = At(node[cur].kids[j], remote_address)
      BY <2>1, CopyOf
    <2>3. PICK i \in DOMAIN node[cur].kids : node[cur].kids[i] = child
      BY <1>2, <1>5 DEF Swizzled
    <2>4. i \in 1 .. Len(node[cur].kids) /\ Len(Q[remote_address[cur]].kids) = Len(node[cur].kids)
      BY <2>2, <2>3, NodeSeqs DEF SameText
    <2>5. Q[remote_address[cur]].kids[i] = remote_address[child]
      BY <1>1, <1>2, <2>2, <2>3, <2>4 DEF At
    <2> QED BY <2>1, <2>2, <2>4, <2>5
  <1> QED BY <1>1, <1>2, <1>3, <1>4, <1>5

\* The operation in the leaf is the only thing that happens there.
LEMMA LeafOnly ==
  ASSUME Running, [Next]_vars, pc = "leaf"
  PROVE  LeafStep \/ node' = node
  <1>1. phase = "idle"
    BY RunningFacts DEF PcPhase
  <1>2. ~(VisitHit \/ VisitMiss \/ AdmitLoad \/ LoadSibling \/ SplitLeaf \/ SplitInner \/ AdmitSib)
    BY DEF VisitHit, VisitMiss, AdmitLoad, LoadSibling, SplitLeaf, SplitInner, AdmitSib
  <1>3. ~(RequestUnpinned \/ LinkSibling \/ MakeNewRoot \/ AdmitRoot \/ Destroy)
    BY DEF RequestUnpinned, LinkSibling, MakeNewRoot, AdmitRoot, Destroy
  <1>4. \A s \in Slot : ~SampleDemote(s) /\ ~SampleStale(s) /\ ~SampleOrphan(s) /\ ~SampleAssert(s)
    BY <1>1 DEF SampleDemote, SampleStale, SampleOrphan, SampleAssert, Sampled
  <1>5. PoolStep => node' = node
    BY DEF PoolStep, treeVars
  <1>6. ASSUME NEW o \in Calls PROVE ~Begin(o)
    BY DEF Begin
  <1>7. UNCHANGED vars => node' = node
    BY DEF vars, treeVars
  <1> QED BY <1>2, <1>3, <1>4, <1>5, <1>6, <1>7 DEF Next, TreeStep, LeafStep

\* Every edit keeps the limits of the pages in agreement.
LEMMA EditFenced ==
  ASSUME Running, Running', NEW Q \in [Addr -> NodeT], NEW P \in [Addr -> NodeT], Stored(Q), Stored(P)',
         Rooted, Linked(Q, Live, root_, Halves), Fenced(Q, Live, root_, SplitC, SplitR), OnTheWay(Q),
         [Next]_vars, Edit(Q, P)
  PROVE  Fenced(P, Live', root_', SplitC', SplitR')
  <1> DEFINE ra == remote_address
  <1>1. /\ Live \in SUBSET (Addr \ {NullAddr}) /\ TreeTypes /\ Wiring
        /\ \A a \in Addr : Shape(P[a])
    BY LiveAddrs, StoredShape, RunningFacts
  <1>2. pc \notin {"sib", "link"} => Halves = {} /\ SplitC = NullAddr /\ SplitR = NullAddr
    BY DEF Halves, SplitC, SplitR
  <1>3. pc \in {"sib", "link"} => Halves = {SplitR} /\ SplitC = ra[child] /\ SplitR = At(right, ra)
    BY DEF Halves, SplitC, SplitR
  <1>4. pc' \notin {"sib", "link"} => Halves' = {} /\ SplitC' = NullAddr /\ SplitR' = NullAddr
    BY DEF Halves, SplitC, SplitR
  <1>5. pc' \in {"sib", "link"} => Halves' = {SplitR'} /\ SplitC' = ra'[child']
    BY DEF Halves, SplitC, SplitR
  <1>6. CASE Kept(Q, P)
    <2>1. P = Q /\ Halves' = Halves /\ root_' = root_ /\ Live' = Live
      BY <1>6 DEF Kept, Live
    <2>2. CASE pc \notin {"sib", "link"}
      <3>1. Halves' = {}
        BY <1>2, <2>1, <2>2
      <3>2. pc' \notin {"sib", "link"}
        BY <1>5, <3>1
      <3>3. SplitC' = SplitC /\ SplitR' = SplitR
        BY <1>2, <1>4, <2>2, <3>2
      <3> QED BY <2>1, <3>3
    <2>3. CASE pc \in {"sib", "link"}
      <3>1. Halves' = {SplitR}
        BY <1>3, <2>1, <2>3
      <3>2. pc' \in {"sib", "link"}
        BY <1>4, <3>1
      <3>3. child' = child /\ child \in Used
        BY <2>3, <3>2, SplitLocals, ChildPage
      <3>4. ra'[child] = ra[child]
        BY <3>3, AddrKept
      <3>5. SplitC' = SplitC /\ SplitR' = SplitR
        BY <1>3, <1>5, <2>3, <3>1, <3>2, <3>3, <3>4
      <3> QED BY <2>1, <3>5
    <2> QED BY <2>2, <2>3
  <1>7. CASE Wrote(Q, P)
    <2> DEFINE x == ra[cur]
               d == node'[cur].data
    <2>1. /\ pc = "leaf" /\ Halves' = Halves /\ root_' = root_ /\ Live' = Live
          /\ P = [Q EXCEPT ![x] = [@ EXCEPT !.data = d]]
      BY <1>7 DEF Wrote, Live
    <2>2. Halves = {} /\ SplitC = NullAddr /\ SplitC' = NullAddr
      BY <1>2, <1>4, <1>5, <2>1
    <2>3. cur \in Used /\ cur # Super
      BY <1>1, <2>1 DEF Wiring, CurHere
    <2>4. x \in Live /\ SameText(Q[x], node[cur])
      BY <2>3, CopyOf
    <2>5. \A k \in DOMAIN d : k \in DOMAIN Q[x].data \/ k = op.key
      <3>1. Q[x].data = node[cur].data
        BY <2>4 DEF SameText
      <3>2. CASE LeafStep
        BY <2>1, <3>1, <3>2, LeafKeys
      <3>3. CASE node' = node
        BY <3>1, <3>3
      <3> QED BY <2>1, <3>2, <3>3, LeafOnly
    <2>6. Q[x].lo < op.key /\ op.key <= Q[x].hi
      BY <2>3 DEF OnTheWay
    <2>7. Q[x].type = "leaf" /\ PageOK(Q[x])
      <3>1. node[cur].type # "inner"
        BY <1>1, <2>1, <2>3 DEF Wiring, CurHere
      <3>2. PageOK(Q[x])
        BY <2>4 DEF Fenced
      <3> QED BY <2>4, <3>1, <3>2 DEF SameText, PageOK
    <2> HIDE DEF x, d
    <2>8. \A k \in DOMAIN d : Q[x].lo < k /\ k <= Q[x].hi
      BY <2>5, <2>6, <2>7 DEF PageOK
    <2>9. Fenced(P, Live, root_, NullAddr, SplitR')
      BY <1>1, <2>1, <2>2, <2>4, <2>8, WriteFenced
    <2> QED BY <2>1, <2>2, <2>9
  <1>8. CASE Halved(Q, P)
    <2> DEFINE x == ra[child]
               y == cur_offset
    <2>1. /\ pc = "split" /\ y \in Addr \ Live /\ root_' = root_ /\ Halves' = {y} /\ Live' = Live \union {y}
          /\ SplitPage(Q[x], P[x], P[y], sep')
          /\ \A a \in Addr \ {x, y} : P[a] = Q[a]
      BY <1>8, OneMoreLive DEF Halved
    <2>2. Halves = {} /\ SplitC = NullAddr
      BY <1>2, <2>1
    <2>3. pc' \in {"sib", "link"} /\ SplitR' = y
      BY <1>4, <1>5, <2>1
    <2>4. child \in Used /\ x \in Live /\ child' = child
      BY <2>1, <2>3, ChildPage, SplitLocals
    <2>5. SplitC' = x
      BY <1>5, <2>3, <2>4, AddrKept
    <2>6. sep' \in Key
      BY <2>3 DEF Running, WireInv, TreeTypes
    <2>7. y # NullAddr
      <3>1. cur_offset \in 2 .. BackendPages
        BY <1>1 DEF TreeTypes
      <3> QED BY <3>1 DEF NullAddr
    <2> HIDE DEF x, y
    <2>8. Fenced(P, Live \union {y}, root_, x, y)
      BY <1>1, <2>1, <2>2, <2>4, <2>6, <2>7, SplitFenced
    <2> QED BY <2>1, <2>3, <2>5, <2>8
  <1>9. CASE Joined(Q, P)
    <2> DEFINE x == ra[cur]
               c == ra[child]
               y == At(right, ra)
    <2>1. /\ pc = "link" /\ cur # Super /\ root_' = root_ /\ Halves' = {} /\ Live' = Live /\ x \in Live
          /\ LinkPage(Q[x], P[x], sep, y)
          /\ \A a \in Addr \ {x} : P[a] = Q[a]
      BY <1>9 DEF Joined, Live
    <2>2. Halves = {y} /\ SplitC = c /\ SplitR = y
      BY <1>3, <2>1
    <2>3. SplitC' = NullAddr
      BY <1>4, <1>5, <2>1
    <2>4. /\ c \in Live /\ \E i \in 1 .. Len(Q[x].kids) : Q[x].kids[i] = c
      BY <2>1, ChildPage
    <2>5. sep = Q[c].hi /\ sep \in Key
      BY <1>1, <2>1 DEF OnTheWay, TreeTypes
    <2> HIDE DEF x, y, c
    <2>6. PICK i \in 1 .. Len(Q[x].kids) : Q[x].kids[i] = c
      BY <2>4
    <2>7. y \in Live
      BY <2>2 DEF Linked
    <2>8. Fenced(P, Live, root_, NullAddr, SplitR')
      BY <1>1, <2>1, <2>2, <2>4, <2>5, <2>6, <2>7, JoinFenced
    <2> QED BY <2>1, <2>3, <2>8
  <1>10. CASE Grown(Q, P)
    <2> DEFINE z == root_
               c == ra[child]
               y == At(right, ra)
               x == cur_offset
    <2>1. /\ pc = "link" /\ cur = Super /\ root_' = x /\ Halves' = {} /\ x \in Addr \ Live
          /\ Live' = Live \union {x} /\ RootPage(P[x], Q[z].level + 1, sep, z, y)
          /\ \A a \in Addr \ {x} : P[a] = Q[a]
      BY <1>10, OneMoreLive DEF Grown
    <2>2. Halves = {y} /\ SplitC = c /\ SplitR = y
      BY <1>3, <2>1
    <2>3. SplitC' = NullAddr
      BY <1>4, <1>5, <2>1
    <2>4. c = z /\ c \in Live
      BY <2>1, ChildPage
    <2>5. sep = Q[z].hi /\ sep \in Key
      BY <1>1, <2>1, <2>4 DEF OnTheWay, TreeTypes
    <2>6. x # NullAddr
      <3>1. cur_offset \in 2 .. BackendPages
        BY <1>1 DEF TreeTypes
      <3> QED BY <3>1 DEF NullAddr
    <2> HIDE DEF x, y, c, z
    <2>7. y \in Live
      BY <2>2 DEF Linked
    <2>8. Linked(Q, Live, z, {y}) /\ Fenced(Q, Live, z, z, y)
      BY <2>2, <2>4 DEF z
    <2>9. Fenced(P, Live \union {x}, x, NullAddr, SplitR')
      BY <1>1, <2>1, <2>4, <2>5, <2>6, <2>7, <2>8, GrowFenced
    <2> QED BY <2>1, <2>3, <2>9
  <1> QED BY <1>6, <1>7, <1>8, <1>9, <1>10 DEF Edit

\* The page the walk goes to next.
NextPage(Q) ==
  IF cur = Super THEN root_
  ELSE Q[remote_address[cur]].kids[lowerBound(Q[remote_address[cur]], op.key)]

\* It is the page of the child the walk looks up.
LEMMA NextChild ==
  ASSUME Running, NEW Q \in [Addr -> NodeT], Stored(Q), Rooted, pc = "visit"
  PROVE  NextPage(Q) = At(ChildRef(ChildIdx), remote_address)
  <1> DEFINE x == remote_address[cur]
  <1>1. TreeTypes /\ Shapes /\ Wiring
    BY RunningFacts
  <1>2. CASE cur = Super
    BY <1>2 DEF NextPage, ChildRef, Rooted
  <1>3. CASE cur # Super
    <2>1. cur \in Used /\ cur \in Slot /\ node[cur].type = "inner"
      BY <1>1, <1>3 DEF Wiring, CurHere, Used
    <2>2. lowerBound(node[cur], op.key) \in 1 .. Len(node[cur].kids)
      BY <1>1, <2>1, StepDown
    <2>3. /\ SameText(Q[x], node[cur])
          /\ \A j \in 1 .. Len(node[cur].kids) : Q[x].kids[j] = At(node[cur].kids[j], remote_address)
      BY <2>1, CopyOf
    <2>4. lowerBound(Q[x], op.key) = lowerBound(node[cur], op.key)
      BY <2>3 DEF SameText, lowerBound
    <2> QED BY <1>3, <2>2, <2>3, <2>4 DEF NextPage, ChildRef, ChildIdx
  <1> QED BY <1>2, <1>3

\* Outside splits the limits of that page hold the key.
LEMMA NextLimits ==
  ASSUME Running, NEW Q \in [Addr -> NodeT], Stored(Q), Linked(Q, Live, root_, Halves), NEW y,
         Fenced(Q, Live, root_, NullAddr, y), OnTheWay(Q), pc # "leaf"
  PROVE  /\ NextPage(Q) \in Live /\ Q[NextPage(Q)].lo < op.key /\ op.key <= Q[NextPage(Q)].hi
         /\ cur # Super => /\ remote_address[cur] \in Live /\ Q[remote_address[cur]].type = "inner"
                           /\ PageOK(Q[remote_address[cur]])
                           /\ lowerBound(Q[remote_address[cur]], op.key) \in 1 .. Len(Q[remote_address[cur]].kids)
  <1> DEFINE x == remote_address[cur]
             i == lowerBound(Q[x], op.key)
  <1>1. /\ Wiring /\ Live \in SUBSET (Addr \ {NullAddr}) /\ root_ \in Live /\ op \in Calls \union {NoCall}
    BY RunningFacts, LiveAddrs DEF Linked, TreeTypes
  <1>2. op.key \in Nat /\ MinLimit < op.key /\ op.key <= MaxLimit
    BY <1>1, OpLimits
  <1>3. CASE cur = Super
    <2>1. Q[root_].lo = MinLimit /\ Q[root_].hi = MaxLimit
      BY <1>1 DEF Fenced, HiOf
    <2> QED BY <1>1, <1>2, <1>3, <2>1 DEF NextPage
  <1>4. CASE cur # Super
    <2>1. cur \in Used /\ node[cur].type = "inner"
      BY <1>1, <1>4 DEF Wiring, CurHere
    <2>2. x \in Live /\ SameText(Q[x], node[cur])
      BY <2>1, CopyOf
    <2>3. Q[x].type = "inner" /\ PageOK(Q[x]) /\ Q[x] \in NodeT
      BY <1>1, <2>1, <2>2 DEF SameText, Fenced
    <2>4. Q[x].lo < op.key /\ op.key <= Q[x].hi
      BY <1>4 DEF OnTheWay
    <2> HIDE DEF x
    <2>5. i \in 1 .. Len(Q[x].kids) /\ KidLo(Q[x], i) < op.key /\ op.key <= KidHi(Q[x], i)
      BY <1>2, <2>3, <2>4, WalkLimits
    <2> HIDE DEF i
    <2>6. PICK d : d = Q[x].kids[i]
      OBVIOUS
    <2>7. d \in Live /\ d # NullAddr
      BY <1>1, <2>2, <2>5, <2>6 DEF Linked
    <2>8. KidFits(Q, x, i, NullAddr, y)
      BY <2>2, <2>5 DEF Fenced
    <2>9. Q[d].lo = KidLo(Q[x], i) /\ Q[d].hi = KidHi(Q[x], i)
      BY <2>6, <2>7, <2>8 DEF KidFits, HiOf
    <2>10. NextPage(Q) = d
      BY <1>4, <2>6 DEF NextPage, x, i
    <2> QED BY <2>2, <2>3, <2>5, <2>7, <2>9, <2>10 DEF x, i
  <1> QED BY <1>3, <1>4

\* A page that is not being split keeps its limits, and what it is.
LEMMA LimitsKept ==
  ASSUME NEW Q \in [Addr -> NodeT], NEW P \in [Addr -> NodeT], Edit(Q, P), NEW a \in Addr \cap Live,
         pc = "split" => a # remote_address[child]
  PROVE  P[a].lo = Q[a].lo /\ P[a].hi = Q[a].hi /\ P[a].type = Q[a].type /\ P[a].level = Q[a].level
  <1>1. CASE Kept(Q, P)
    BY <1>1 DEF Kept
  <1>2. CASE Wrote(Q, P)
    <2>1. ASSUME NEW n \in NodeT, NEW d
          PROVE  LET m == [n EXCEPT !.data = d]
                 IN m.lo = n.lo /\ m.hi = n.hi /\ m.type = n.type /\ m.level = n.level
      BY DEF NodeT
    <2>2. P[a] = Q[a] \/ P[a] = [Q[a] EXCEPT !.data = node'[cur].data]
      <3> DEFINE x == remote_address[cur]
      <3>1. P = [Q EXCEPT ![x] = [@ EXCEPT !.data = node'[cur].data]]
        BY <1>2 DEF Wrote
      <3> HIDE DEF x
      <3> QED BY <3>1
    <2>3. Q[a] \in NodeT
      OBVIOUS
    <2>4. CASE P[a] = [Q[a] EXCEPT !.data = node'[cur].data]
      <3>1. PICK d : d = node'[cur].data
        OBVIOUS
      <3>2. LET m == [Q[a] EXCEPT !.data = d]
            IN m.lo = Q[a].lo /\ m.hi = Q[a].hi /\ m.type = Q[a].type /\ m.level = Q[a].level
        BY <2>1, <2>3
      <3> QED BY <2>4, <3>1, <3>2
    <2> QED BY <2>2, <2>4
  <1>3. CASE Halved(Q, P)
    BY <1>3 DEF Halved
  <1>4. CASE Joined(Q, P)
    <2>1. CASE a = remote_address[cur]
      BY <1>4, <2>1 DEF Joined, LinkPage
    <2>2. CASE a # remote_address[cur]
      BY <1>4, <2>2 DEF Joined
    <2> QED BY <2>1, <2>2
  <1>5. CASE Grown(Q, P)
    BY <1>5 DEF Grown
  <1> QED BY <1>1, <1>2, <1>3, <1>4, <1>5 DEF Edit

\* The page under the one that is split is another page.
LEMMA CurNotChild ==
  ASSUME Running, NEW Q \in [Addr -> NodeT], Stored(Q), Rooted, NEW y,
         Fenced(Q, Live, root_, NullAddr, y), pc = "split", cur # Super
  PROVE  remote_address[cur] # remote_address[child]
  <1> DEFINE x == remote_address[cur]
             c == remote_address[child]
  <1>1. c \in Live /\ x \in Live /\ \E i \in 1 .. Len(Q[x].kids) : Q[x].kids[i] = c
    BY ChildPage
  <1>2. PICK i \in 1 .. Len(Q[x].kids) : Q[x].kids[i] = c
    BY <1>1
  <1>3. Q[c].level + 1 = Q[x].level
    BY <1>1, <1>2 DEF Fenced, KidFits
  <1>4. Q[c].level \in Nat
    <2>1. Q[c] \in NodeT
      BY <1>1, LiveAddrs
    <2> QED BY <2>1 DEF NodeT
  <1> QED BY <1>3, <1>4

\* Every step keeps the walk on its way.
LEMMA EditOnTheWay ==
  ASSUME Running, Running', NEW Q \in [Addr -> NodeT], NEW P \in [Addr -> NodeT], Stored(Q), Stored(P)',
         Rooted, Linked(Q, Live, root_, Halves), Fenced(Q, Live, root_, SplitC, SplitR), OnTheWay(Q),
         [Next]_vars, Edit(Q, P)
  PROVE  OnTheWay(P)'
  <1> DEFINE ra == remote_address
  <1>1. Live \in SUBSET (Addr \ {NullAddr}) /\ TreeTypes /\ Wiring
    BY LiveAddrs, RunningFacts
  <1>2. pc \notin {"sib", "link"} => Fenced(Q, Live, root_, NullAddr, SplitR)
    BY DEF SplitC
  <1>3. ASSUME pc' \in {"sib", "link"} PROVE sep' = P[ra'[child']].hi
    <2>1. Halves' # {}
      BY <1>3 DEF Halves
    <2>2. CASE pc \in {"sib", "link"}
      <3>1. P = Q
        BY <2>1, <2>2 DEF Edit, Kept, Wrote, Halved, Joined, Grown
      <3>2. child' = child /\ sep' = sep /\ child \in Used
        BY <1>3, <2>2, SplitLocals, ChildPage
      <3>3. ra'[child] = ra[child] /\ sep = Q[ra[child]].hi
        BY <2>2, <3>2, AddrKept DEF OnTheWay
      <3> QED BY <3>1, <3>2, <3>3
    <2>3. CASE pc \notin {"sib", "link"}
      <3>1. Halves = {}
        BY <2>3 DEF Halves
      <3>2. Halved(Q, P)
        BY <2>1, <2>3, <3>1 DEF Edit, Kept, Wrote, Joined, Grown
      <3>3. pc = "split" /\ P[ra[child]].hi = sep'
        BY <3>2 DEF Halved, SplitPage
      <3>4. child' = child /\ child \in Used
        BY <1>3, <3>3, SplitLocals, ChildPage
      <3> QED BY <3>3, <3>4, AddrKept
    <2> QED BY <2>2, <2>3
  <1>4. ASSUME cur' # Super PROVE P[ra'[cur']].lo < op'.key /\ op'.key <= P[ra'[cur']].hi
    <2>1. CASE cur' = cur /\ op' = op
      <3>1. cur # Super /\ cur \in Used
        BY <1>1, <1>4, <2>1 DEF Wiring, CurHere
      <3>2. ra'[cur] = ra[cur] /\ ra[cur] \in Live /\ ra[cur] \in Addr
        BY <1>1, <3>1, AddrKept, CopyOf
      <3>3. Q[ra[cur]].lo < op.key /\ op.key <= Q[ra[cur]].hi
        BY <3>1 DEF OnTheWay
      <3>4. pc = "split" => ra[cur] # ra[child]
        BY <1>2, <3>1, CurNotChild
      <3>5. P[ra[cur]].lo = Q[ra[cur]].lo /\ P[ra[cur]].hi = Q[ra[cur]].hi
        BY <3>2, <3>4, LimitsKept
      <3> QED BY <2>1, <3>2, <3>3, <3>5
    <2>2. CASE pc = "idle" /\ cur' = cur
      BY <1>1, <1>4, <2>2 DEF Wiring, CurHere
    <2>3. CASE /\ VisitHit /\ cur' = ChildRef(ChildIdx) /\ ChildRef(ChildIdx) \in Slot
               /\ UNCHANGED <<op, pages, super, root_>>
      <3>1. pc = "visit" /\ ra' = ra
        BY <2>3 DEF VisitHit, pages
      <3>2. P = Q
        BY <3>1 DEF Edit, Kept, Wrote, Halved, Joined, Grown
      <3>3. NextPage(Q) = ra[cur']
        BY <2>3, <3>1, NextChild DEF At
      <3>4. Q[NextPage(Q)].lo < op.key /\ op.key <= Q[NextPage(Q)].hi
        BY <1>2, <3>1, NextLimits
      <3> QED BY <2>3, <3>1, <3>2, <3>3, <3>4
    <2> QED BY <1>4, <2>1, <2>2, <2>3, WalkSteps
  <1> QED BY <1>3, <1>4 DEF OnTheWay

-----------------------------------------------------------------------------
(* Room for a separator or an entry *)

\* A page within its arrays, and one that can take one more separator or entry.
Fit(n) == Len(n.keys) <= InnerFull /\ (n.type = "leaf" => Cardinality(DOMAIN n.data) <= LeafMax)
Roomy(n) == Len(n.keys) < InnerFull /\ (n.type = "leaf" => Cardinality(DOMAIN n.data) < LeafMax)

\* insert splits a full child before it goes there, so the page it stands on can take one
\* more.  After a split it goes on to a half, which is not tested again.
Room(Q) ==
  /\ \A a \in Addr : Fit(Q[a])
  /\ op.kind = "insert" /\ ~retry /\ cur # Super => Roomy(Q[remote_address[cur]])
  /\ retry => pc \in {"visit", "load", "sibling"} /\ op.kind = "insert" /\ Roomy(Q[NextPage(Q)])
  /\ pc \in {"split", "sib", "link", "root"} => op.kind = "insert" /\ ~retry
  /\ pc \in {"split", "sib", "link"} => remote_address[child] = NextPage(Q)
  /\ pc \in {"sib", "link"} => Roomy(Q[SplitC]) /\ Roomy(Q[SplitR])
  /\ pc = "root" => Roomy(Q[root_])

\* Where the operation can go from where it is.
StepKind ==
  \/ UNCHANGED <<pc, walk, child>>
  \/ pc = "idle" /\ pc' \in {"visit", "closed"} /\ UNCHANGED <<cur, retry>>
  \/ VisitHit
  \/ pc \in {"visit", "sibling", "load"} /\ pc' \in {"load", "visit"} /\ UNCHANGED walk
  \/ pc \in {"split", "sib"} /\ pc' \in {"sib", "link"} /\ UNCHANGED <<walk, child>>
  \/ pc = "link" /\ pc' \in {"visit", "sibling"} /\ cur # Super /\ retry' = TRUE /\ UNCHANGED <<op, cur>>
  \/ pc = "link" /\ pc' = "root" /\ cur = Super /\ UNCHANGED walk
  \/ pc = "root" /\ pc' = "visit" /\ retry' = TRUE /\ UNCHANGED <<op, cur, root_>>
  \/ pc = "leaf" /\ pc' = "idle" /\ cur' = Super /\ UNCHANGED retry

\* All steps are of these kinds.
LEMMA StepKinds ==
  ASSUME [Next]_vars, pc' # "aborted"
  PROVE  StepKind
  <1>1. CASE VisitHit \/ (\E o \in Calls : Begin(o))
    BY <1>1 DEF StepKind, Begin
  <1>2. CASE VisitMiss \/ LoadSibling \/ AdmitLoad
    BY <1>2 DEF StepKind, VisitMiss, LoadSibling, LoadChild, AdmitLoad
  <1>3. CASE RequestUnpinned \/ PoolStep \/ UNCHANGED vars
    BY <1>3 DEF StepKind, RequestUnpinned, PoolStep, vars, treeVars, split
  <1>4. CASE AdmitSib \/ SplitLeaf \/ SplitInner
    BY <1>4 DEF StepKind, AdmitSib, SplitLeaf, SplitInner
  <1>5. CASE LinkSibling
    BY <1>5 DEF StepKind, LinkSibling
  <1>6. CASE MakeNewRoot
    BY <1>6 DEF StepKind, MakeNewRoot
  <1>7. CASE AdmitRoot
    BY <1>7 DEF StepKind, AdmitRoot
  <1>8. CASE LeafInsert \/ LeafLookup \/ LeafUpdate \/ LeafRemove \/ LeafScan \/ LeafCtor
    BY <1>8 DEF StepKind, LeafInsert, LeafLookup, LeafUpdate, LeafRemove, LeafScan, LeafCtor, Finish
  <1>9. ASSUME NEW s \in Slot, SampleDemote(s) \/ SampleStale(s) \/ SampleOrphan(s) \/ SampleAssert(s)
        PROVE  StepKind
    BY <1>9 DEF StepKind, SampleDemote, SampleStale, SampleOrphan, SampleAssert, split
  <1>10. CASE Destroy
    BY <1>10 DEF StepKind, Destroy, walk
  <1> QED BY <1>1, <1>2, <1>3, <1>4, <1>5, <1>6, <1>7, <1>8, <1>9, <1>10 DEF Next, TreeStep

\* The kinds of steps that change the pages.
LEMMA EditKinds ==
  ASSUME NEW Q, NEW P, Edit(Q, P)
  PROVE  /\ pc \notin {"leaf", "split", "link"} => Kept(Q, P)
         /\ pc = pc' /\ pc # "leaf" => Kept(Q, P)
         /\ pc = "split" /\ pc' \in {"sib", "link"} => Halved(Q, P)
         /\ pc = "link" /\ pc' \in {"visit", "sibling"} /\ cur # Super => Joined(Q, P)
         /\ pc = "link" /\ pc' = "root" /\ cur = Super => Grown(Q, P)
         /\ pc = "leaf" => Kept(Q, P) \/ Wrote(Q, P)
  <1>1. pc' \in {"sib", "link"} <=> Halves' # {}
    BY DEF Halves
  <1>2. pc \in {"sib", "link"} <=> Halves # {}
    BY DEF Halves
  <1>3. Kept(Q, P) => Halves' = Halves
    BY DEF Kept
  <1>4. Wrote(Q, P) => pc = "leaf"
    BY DEF Wrote
  <1>5. Halved(Q, P) => pc = "split" /\ Halves' # {}
    BY DEF Halved
  <1>6. Joined(Q, P) => pc = "link" /\ cur # Super /\ Halves' = {}
    BY DEF Joined
  <1>7. Grown(Q, P) => pc = "link" /\ cur = Super /\ Halves' = {}
    BY DEF Grown
  <1> QED BY <1>1, <1>2, <1>3, <1>4, <1>5, <1>6, <1>7 DEF Edit

\* The entries of a node can be counted.
LEMMA DataFinite ==
  ASSUME NEW n \in NodeT
  PROVE  IsFiniteSet(DOMAIN n.data) /\ Cardinality(DOMAIN n.data) \in Nat
  <1>1. DOMAIN n.data \in SUBSET Key
    BY DataOps DEF NodeT
  <1>2. MaxKey \in Nat /\ \A k \in DOMAIN n.data : k \in Nat /\ k <= MaxKey
    BY <1>1, TreeAssumption DEF Key
  <1>3. IsFiniteSet(DOMAIN n.data)
    BY <1>2, FS_BoundedSetOfNaturals
  <1> QED BY <1>3, FS_CardinalityType

\* The halves of a page have room.
LEMMA HalvesHaveRoom ==
  ASSUME NEW q \in NodeT, NEW l \in NodeT, NEW r \in NodeT, NEW k \in Int, Shape(l), Shape(r),
         SplitPage(q, l, r, k), Fit(q)
  PROVE  Roomy(l) /\ Roomy(r)
  <1>1. InnerFull \in Nat /\ 0 < InnerFull /\ Len(q.keys) \in Nat /\ Len(q.keys) <= InnerFull
    BY TreeAssumption, NodeSeqs DEF Fit
  <1>2. CASE q.type = "leaf"
    <2> DEFINE K == DOMAIN q.data
               A == {j \in K : j <= k}
               B == {j \in K : j > k}
    <2>1. l.keys = <<>> /\ r.keys = <<>> /\ DataHalved(q, l, r, k) /\ l.type = "leaf" /\ r.type = "leaf"
      BY <1>2 DEF SplitPage, Shape
    <2>2. Len(l.keys) < InnerFull /\ Len(r.keys) < InnerFull
      BY <1>1, <2>1
    <2>3. k \in K /\ (\E j \in K : j > k) /\ DOMAIN l.data = A /\ DOMAIN r.data = B
      BY <2>1 DEF DataHalved, Restrict
    <2>4. Cardinality(K) <= LeafMax /\ Cardinality(K) \in Nat /\ IsFiniteSet(K) /\ LeafMax \in Nat
      BY <1>2, DataFinite, TreeAssumption DEF Fit
    <2>5. K \in SUBSET Int
      BY DataOps DEF NodeT, Key
    <2>6. A \in SUBSET K /\ B \in SUBSET K /\ A # K /\ B # K
      <3>1. k \notin B
        OBVIOUS
      <3>2. PICK j \in K : j > k
        BY <2>3
      <3>3. ~(j <= k)
        BY <2>5, <3>2
      <3> QED BY <2>3, <3>1, <3>2, <3>3
    <2> HIDE DEF K, A, B
    <2>7. /\ Cardinality(A) <= Cardinality(K) /\ Cardinality(A) # Cardinality(K)
          /\ Cardinality(B) <= Cardinality(K) /\ Cardinality(B) # Cardinality(K)
          /\ Cardinality(A) \in Nat /\ Cardinality(B) \in Nat
      BY <2>4, <2>6, FS_Subset, FS_CardinalityType
    <2> QED BY <2>2, <2>3, <2>4, <2>7 DEF Roomy
  <1>3. CASE q.type = "inner"
    <2>1. PICK m \in 1 .. Len(q.keys) - 1 : KeysHalved(q, l, r, m)
      BY <1>3 DEF SplitPage
    <2>2. Len(l.keys) = m - 1 /\ Len(r.keys) = Len(q.keys) - m /\ l.type = "inner" /\ r.type = "inner"
      BY <1>3, <2>1 DEF KeysHalved, SplitPage
    <2> QED BY <1>1, <2>1, <2>2 DEF Roomy
  <1> QED BY <1>2, <1>3 DEF SplitPage

\* A page that isFull does not stop at has room.
LEMMA NotFullRoomy ==
  ASSUME NEW n \in NodeT, Shape(n), Fit(n), ~isFull(n)
  PROVE  Roomy(n)
  <1>1. /\ Len(n.keys) \in Nat /\ InnerFull \in Nat /\ 0 < InnerFull /\ LeafMax \in Nat
        /\ Cardinality(DOMAIN n.data) \in Nat
    BY NodeSeqs, DataFinite, TreeAssumption
  <1>2. n.type = "leaf" => Len(n.keys) = 0
    BY DEF Shape
  <1> QED BY <1>1, <1>2 DEF Fit, Roomy, isFull

\* What the operations do to the entries of the leaf, and what they return.
Inserts(d, e) ==
  LET room == op.key \in DOMAIN d \/ Cardinality(DOMAIN d) < LeafMax IN
  /\ op.kind = "insert"
  /\ room => e = [x \in DOMAIN d \union {op.key} |-> IF x = op.key THEN op.val ELSE d[x]]
  /\ ~room => e = d
  /\ ret' = [op |-> op, res |-> op.key \notin DOMAIN d /\ Cardinality(DOMAIN d) < LeafMax]
Updates(d, e) ==
  LET found == op.key \in DOMAIN d IN
  /\ op.kind = "update"
  /\ found => e = [x \in DOMAIN d \union {op.key} |-> IF x = op.key THEN op.val ELSE d[x]]
  /\ ~found => e = d
  /\ ret' = [op |-> op, res |-> found]
Removes(d, e) ==
  /\ op.kind = "remove" /\ e = Restrict(d, DOMAIN d \ {op.key})
  /\ ret' = [op |-> op, res |-> op.key \in DOMAIN d]
Reads(d, e) ==
  /\ e = d
  /\ LET from == {k \in DOMAIN d : op.key \in DOMAIN d /\ k >= op.key}
         copied == {k \in from : Cardinality({j \in from : j <= k}) <= op.val}
     IN
     \/ op.kind = "ctor" /\ ret' = [op |-> op, res |-> TRUE]
     \/ op.kind = "lookup" /\ ret' = [op |-> op, res |-> IF op.key \in DOMAIN d THEN d[op.key] ELSE NoVal]
     \/ op.kind = "scan" /\ ret' = [op |-> op, res |-> Restrict(d, copied)]
LEMMA LeafEffects ==
  ASSUME Running, LeafStep
  PROVE  LET d == node[cur].data
             e == node'[cur].data
         IN pc' = "idle" /\ (Inserts(d, e) \/ Updates(d, e) \/ Removes(d, e) \/ Reads(d, e))
  <1> DEFINE m == node[cur]
             d == m.data
             e == node'[cur].data
             up == [x \in DOMAIN d \union {op.key} |-> IF x = op.key THEN op.val ELSE d[x]]
  <1>1. pc = "leaf"
    BY DEF LeafStep, LeafInsert, LeafLookup, LeafUpdate, LeafRemove, LeafScan, LeafCtor, Finish
  <1>2. cur \in Slot /\ node \in [Slot -> NodeT] /\ m \in NodeT
    BY <1>1, RunningFacts DEF Wiring, CurHere, Used
  <1>3. ASSUME NEW n, NEW w, NEW r, Finish(n, w, r)
        PROVE  pc' = "idle" /\ e = n.data /\ ret' = [op |-> op, res |-> r]
    BY <1>2, <1>3 DEF Finish
  <1>4. Put(m, op.key, op.val).data = up
    BY <1>2 DEF Put, NodeT
  <1>5. CASE LeafInsert
    <2> DEFINE found == op.key \in DOMAIN d
               room == Cardinality(DOMAIN d) < LeafMax
    <2>1. /\ op.kind = "insert"
          /\ Finish(IF found \/ room THEN Put(m, op.key, op.val) ELSE m, TRUE, ~found /\ room)
      BY <1>5 DEF LeafInsert
    <2>2. /\ pc' = "idle" /\ e = (IF found \/ room THEN Put(m, op.key, op.val) ELSE m).data
          /\ ret' = [op |-> op, res |-> ~found /\ room]
      BY <1>3, <2>1
    <2>3. (found \/ room => e = up) /\ (~(found \/ room) => e = d)
      BY <1>4, <2>2
    <2> QED BY <2>1, <2>2, <2>3 DEF Inserts
  <1>6. CASE LeafUpdate
    <2> DEFINE found == op.key \in DOMAIN d
    <2>1. op.kind = "update" /\ Finish(IF found THEN Put(m, op.key, op.val) ELSE m, found, found)
      BY <1>6 DEF LeafUpdate
    <2>2. /\ pc' = "idle" /\ e = (IF found THEN Put(m, op.key, op.val) ELSE m).data
          /\ ret' = [op |-> op, res |-> found]
      BY <1>3, <2>1
    <2>3. (found => e = up) /\ (~found => e = d)
      BY <1>4, <2>2
    <2> QED BY <2>1, <2>2, <2>3 DEF Updates
  <1>7. CASE LeafRemove
    <2>1. /\ op.kind = "remove"
          /\ Finish([m EXCEPT !.data = Restrict(@, DOMAIN @ \ {op.key})], op.key \in DOMAIN d, op.key \in DOMAIN d)
      BY <1>7 DEF LeafRemove
    <2>2. /\ pc' = "idle" /\ e = [m EXCEPT !.data = Restrict(@, DOMAIN @ \ {op.key})].data
          /\ ret' = [op |-> op, res |-> op.key \in DOMAIN d]
      BY <1>3, <2>1
    <2>3. e = Restrict(d, DOMAIN d \ {op.key})
      BY <1>2, <2>2 DEF NodeT
    <2> QED BY <2>1, <2>2, <2>3 DEF Removes
  <1>8. CASE LeafLookup \/ LeafCtor
    <2>1. pc' = "idle" /\ e = d
      BY <1>3, <1>8 DEF LeafLookup, LeafCtor
    <2>2. \/ op.kind = "ctor" /\ ret' = [op |-> op, res |-> TRUE]
          \/ op.kind = "lookup" /\ ret' = [op |-> op, res |-> IF op.key \in DOMAIN d THEN d[op.key] ELSE NoVal]
      BY <1>3, <1>8 DEF LeafLookup, LeafCtor
    <2> QED BY <2>1, <2>2 DEF Reads
  <1>9. CASE LeafScan
    <2> DEFINE from == {k \in DOMAIN d : op.key \in DOMAIN d /\ k >= op.key}
               copied == {k \in from : Cardinality({j \in from : j <= k}) <= op.val}
    <2>1. op.kind = "scan" /\ Finish(m, FALSE, Restrict(d, copied))
      BY <1>9 DEF LeafScan
    <2>2. pc' = "idle" /\ e = d /\ ret' = [op |-> op, res |-> Restrict(d, copied)]
      BY <1>3, <2>1
    <2> QED BY <2>1, <2>2 DEF Reads
  <1> QED BY <1>5, <1>6, <1>7, <1>8, <1>9 DEF LeafStep

\* No operation makes a leaf too long.
LEMMA LeafFits ==
  ASSUME Running, LeafStep, Cardinality(DOMAIN node[cur].data) <= LeafMax
  PROVE  Cardinality(DOMAIN node'[cur].data) <= LeafMax
  <1> DEFINE d == node[cur].data
             e == node'[cur].data
             k == op.key
  <1>1. pc = "leaf"
    BY DEF LeafStep, LeafInsert, LeafLookup, LeafUpdate, LeafRemove, LeafScan, LeafCtor, Finish
  <1>2. cur \in Slot /\ node[cur] \in NodeT
    BY <1>1, RunningFacts DEF Wiring, CurHere, Used
  <1>3. IsFiniteSet(DOMAIN d) /\ Cardinality(DOMAIN d) \in Nat /\ LeafMax \in Nat
    BY <1>2, DataFinite, TreeAssumption
  <1>4. Inserts(d, e) \/ Updates(d, e) \/ Removes(d, e) \/ Reads(d, e)
    BY LeafEffects
  <1>5. \/ DOMAIN e \in SUBSET DOMAIN d
        \/ k \notin DOMAIN d /\ Cardinality(DOMAIN d) < LeafMax /\ DOMAIN e = DOMAIN d \union {k}
    BY <1>4 DEF Inserts, Updates, Removes, Reads, Restrict
  <1> HIDE DEF d, e, k
  <1>6. CASE DOMAIN e \in SUBSET DOMAIN d
    <2>1. Cardinality(DOMAIN e) <= Cardinality(DOMAIN d) /\ IsFiniteSet(DOMAIN e)
      BY <1>3, <1>6, FS_Subset
    <2>2. Cardinality(DOMAIN e) \in Nat
      BY <2>1, FS_CardinalityType
    <2>3. Cardinality(DOMAIN d) <= LeafMax
      BY DEF d
    <2> QED BY <1>3, <2>1, <2>2, <2>3 DEF e
  <1>7. CASE k \notin DOMAIN d /\ Cardinality(DOMAIN d) < LeafMax /\ DOMAIN e = DOMAIN d \union {k}
    <2>1. Cardinality(DOMAIN e) = Cardinality(DOMAIN d) + 1
      BY <1>3, <1>7, FS_AddElement
    <2> QED BY <1>3, <1>7, <2>1 DEF e
  <1> QED BY <1>5, <1>6, <1>7

\* After its child was split, the walk for a key goes to one of the halves.
LEMMA NextAfterJoin ==
  ASSUME NEW Q \in [Addr -> NodeT], NEW P \in [Addr -> NodeT], NEW L \in SUBSET (Addr \ {NullAddr}), NEW z, NEW e,
         NEW c \in L, NEW y \in L, Fenced(Q, L, z, c, y), Fenced(P, L, z, NullAddr, e),
         NEW x \in L, Q[x].type = "inner", P[x].type = "inner", x # c, x # y, NEW k \in Int,
         Q[x].lo < k, k <= Q[x].hi, P[x].lo = Q[x].lo, P[x].hi = Q[x].hi,
         Q[x].kids[lowerBound(Q[x], k)] = c, P[c] = Q[c], P[y] = Q[y],
         NEW j \in 1 .. Len(P[x].kids), P[x].kids[j] = y,
         NEW h \in 1 .. Len(P[x].kids), P[x].kids[h] = c
  PROVE  P[x].kids[lowerBound(P[x], k)] \in {c, y}
  <1> DEFINE i == lowerBound(Q[x], k)
             q == lowerBound(P[x], k)
  <1>1. PageOK(Q[x]) /\ PageOK(P[x]) /\ Q[x] \in NodeT /\ P[x] \in NodeT /\ c # NullAddr /\ y # NullAddr
    BY DEF Fenced
  <1>2. i \in 1 .. Len(Q[x].kids) /\ KidLo(Q[x], i) < k /\ k <= KidHi(Q[x], i)
    BY <1>1, WalkLimits
  <1>3. \A a \in 1 .. Len(P[x].kids) : KidLo(P[x], a) < k /\ k <= KidHi(P[x], a) => a = q
    BY <1>1, WalkLimits
  <1> HIDE DEF i, q
  <1>4. Q[x].kids[i] = c
    BY DEF i
  <1>5. KidFits(Q, x, i, c, y) /\ Q[y].lo = Q[c].hi
    BY <1>1, <1>2 DEF Fenced
  <1>6. Q[c].lo = KidLo(Q[x], i) /\ Q[y].hi = KidHi(Q[x], i)
    BY <1>4, <1>5 DEF KidFits, HiOf
  <1>7. KidFits(P, x, h, NullAddr, e) /\ KidFits(P, x, j, NullAddr, e)
    BY DEF Fenced
  <1>8. /\ KidLo(P[x], h) = Q[c].lo /\ KidHi(P[x], h) = Q[c].hi
        /\ KidLo(P[x], j) = Q[y].lo /\ KidHi(P[x], j) = Q[y].hi
    BY <1>1, <1>7 DEF KidFits, HiOf
  <1>9. Q[c].hi \in Int
    BY NodeSeqs
  <1>10. k <= Q[c].hi \/ Q[c].hi < k
    BY <1>9
  <1>11. h = q \/ j = q
    BY <1>2, <1>3, <1>5, <1>6, <1>8, <1>10
  <1> QED BY <1>11 DEF q

\* The page the walk goes to next is the same as long as the one it stands on is.
LEMMA NextKept ==
  ASSUME NEW Q, NEW P, UNCHANGED <<cur, op, root_>>,
         cur # Super => remote_address'[cur] = remote_address[cur] /\ P[remote_address[cur]] = Q[remote_address[cur]]
  PROVE  NextPage(P)' = NextPage(Q)
  <1>1. ASSUME NEW n PROVE lowerBound(n, op.key)' = lowerBound(n, op.key)
    BY DEF lowerBound
  <1> QED BY <1>1 DEF NextPage

\* No step makes a page too long.
LEMMA EditFits ==
  ASSUME Running, Running', NEW Q \in [Addr -> NodeT], NEW P \in [Addr -> NodeT], Stored(Q), Stored(P)',
         Rooted, Room(Q), Edit(Q, P), [Next]_vars
  PROVE  /\ \A a \in Addr : Fit(P[a])
         /\ Halved(Q, P) => Roomy(P[remote_address[child]]) /\ Roomy(P[cur_offset])
         /\ Grown(Q, P) => Roomy(P[cur_offset])
         /\ pc = "leaf" /\ pc' = "leaf" => P = Q
  <1> DEFINE ra == remote_address
  <1>1. /\ \A a \in Addr : Fit(Q[a]) /\ Q[a] \in NodeT /\ P[a] \in NodeT
        /\ InnerFull \in Nat /\ 1 < InnerFull
    BY TreeAssumption DEF Room
  <1>2. \A n \in NodeT : Roomy(n) => Fit(n)
    <2>1. \A n \in NodeT : Len(n.keys) \in Nat /\ Cardinality(DOMAIN n.data) \in Nat /\ LeafMax \in Nat
      BY NodeSeqs, DataFinite, TreeAssumption
    <2> QED BY <1>1, <2>1 DEF Roomy, Fit
  <1>3. CASE Kept(Q, P)
    <2>1. cur_offset' = cur_offset /\ P = Q /\ cur_offset \in Nat
      BY <1>3, RunningFacts DEF Kept, TreeTypes
    <2>2. cur_offset' # cur_offset + 1
      BY <2>1
    <2> QED BY <1>1, <2>1, <2>2 DEF Halved, Grown
  <1>4. CASE Wrote(Q, P)
    <2> DEFINE x == ra[cur]
               e == node'[cur].data
    <2>1. pc = "leaf" /\ P = [Q EXCEPT ![x] = [@ EXCEPT !.data = e]]
      BY <1>4 DEF Wrote
    <2>2. cur \in Used
      BY <2>1, RunningFacts DEF Wiring, CurHere
    <2>3. x \in Live /\ SameText(Q[x], node[cur])
      BY <2>2, CopyOf
    <2>4. x \in Addr
      BY <2>3, LiveAddrs
    <2>5. ASSUME NEW n \in NodeT, NEW d PROVE [n EXCEPT !.data = d].keys = n.keys
                 /\ [n EXCEPT !.data = d].type = n.type /\ [n EXCEPT !.data = d].data = d
                 /\ [n EXCEPT !.data = n.data] = n
      BY DEF NodeT
    <2>6. P[x] = [Q[x] EXCEPT !.data = e] /\ \A a \in Addr \ {x} : P[a] = Q[a]
      <3> HIDE DEF x, e
      <3> QED BY <2>1, <2>4
    <2>7. P[x].keys = Q[x].keys /\ P[x].type = Q[x].type /\ P[x].data = e
      <3>1. PICK d : d = e
        OBVIOUS
      <3>2. Q[x] \in NodeT
        BY <2>4
      <3> HIDE DEF x, e
      <3> QED BY <2>5, <2>6, <3>1, <3>2
    <2>8. e = node[cur].data => P = Q
      <3>1. ASSUME e = node[cur].data PROVE P[x] = Q[x]
        <4>1. e = Q[x].data
          BY <2>3, <3>1 DEF SameText
        <4>2. Q[x] \in NodeT
          BY <2>4
        <4> HIDE DEF x, e
        <4> QED BY <2>5, <2>6, <4>1, <4>2
      <3>2. ASSUME P[x] = Q[x] PROVE P = Q
        BY <2>6, <3>2
      <3> QED BY <3>1, <3>2
    <2>9. ~Halved(Q, P) /\ ~Grown(Q, P)
      BY <2>1 DEF Halved, Grown
    <2>10. CASE LeafStep
      <3>1. pc' # "leaf"
        BY <2>10, LeafEffects
      <3>2. Q[x].type = "leaf" => Cardinality(DOMAIN e) <= LeafMax
        <4>1. ASSUME Q[x].type = "leaf" PROVE Cardinality(DOMAIN node[cur].data) <= LeafMax
          BY <1>1, <2>3, <2>4, <4>1 DEF SameText, Fit
        <4> QED BY <2>10, <4>1, LeafFits
      <3>3. Len(Q[x].keys) <= InnerFull
        BY <1>1, <2>4 DEF Fit
      <3>4. Fit(P[x])
        <4> HIDE DEF x, e
        <4> QED BY <2>7, <3>2, <3>3 DEF Fit
      <3>5. \A a \in Addr : Fit(P[a])
        BY <1>1, <2>6, <3>4
      <3> QED BY <2>9, <3>1, <3>5
    <2>11. CASE node' = node
      <3>1. P = Q
        BY <2>8, <2>11
      <3> QED BY <1>1, <2>9, <3>1
    <2> QED BY <2>1, <2>10, <2>11, LeafOnly
  <1>5. CASE Halved(Q, P)
    <2>1. /\ pc = "split" /\ cur_offset \in Addr
          /\ SplitPage(Q[ra[child]], P[ra[child]], P[cur_offset], sep')
          /\ \A a \in Addr \ {ra[child], cur_offset} : P[a] = Q[a]
      BY <1>5 DEF Halved
    <2>2. ra[child] \in Addr
      BY <2>1, ChildPage, LiveAddrs
    <2>3. Shape(P[ra[child]]) /\ Shape(P[cur_offset])
      BY <2>1, <2>2, StoredShape
    <2>4. P[cur_offset].lo = sep' /\ P[cur_offset].lo \in Int
      BY <1>1, <2>1, NodeSeqs DEF SplitPage
    <2>5. Roomy(P[ra[child]]) /\ Roomy(P[cur_offset])
      BY <1>1, <2>1, <2>2, <2>3, <2>4, HalvesHaveRoom
    <2>6. \A a \in Addr : Fit(P[a])
      BY <1>1, <1>2, <2>1, <2>2, <2>5
    <2>7. ~Grown(Q, P)
      BY <2>1 DEF Grown
    <2> QED BY <2>1, <2>5, <2>6, <2>7
  <1>6. CASE Joined(Q, P)
    <2>1. /\ pc = "link" /\ cur # Super /\ ra[cur] \in Live
          /\ LinkPage(Q[ra[cur]], P[ra[cur]], sep, At(right, ra))
          /\ \A a \in Addr \ {ra[cur]} : P[a] = Q[a]
      BY <1>6 DEF Joined
    <2>2. Len(Q[ra[cur]].keys) < InnerFull
      BY <2>1 DEF Room, Roomy
    <2>3. Len(P[ra[cur]].keys) = Len(Q[ra[cur]].keys) + 1 /\ P[ra[cur]].type = Q[ra[cur]].type
      BY <2>1 DEF LinkPage, Inserted
    <2>4. ra[cur] \in Addr
      BY <2>1, LiveAddrs
    <2>5. cur \in Used /\ node[cur].type = "inner"
      BY <2>1, RunningFacts DEF Wiring, CurHere
    <2>6. Q[ra[cur]].type = "inner"
      BY <2>5, CopyOf DEF SameText
    <2>7. Len(Q[ra[cur]].keys) \in Nat
      BY <2>4, NodeSeqs
    <2>8. Fit(P[ra[cur]])
      BY <1>1, <2>2, <2>3, <2>6, <2>7 DEF Fit
    <2>9. ~Halved(Q, P) /\ ~Grown(Q, P)
      BY <2>1 DEF Halved, Grown
    <2> QED BY <1>1, <2>1, <2>8, <2>9
  <1>7. CASE Grown(Q, P)
    <2>1. /\ pc = "link" /\ cur_offset \in Addr /\ P[cur_offset].keys = <<sep>> /\ P[cur_offset].type = "inner"
          /\ \A a \in Addr \ {cur_offset} : P[a] = Q[a]
      BY <1>7 DEF Grown, RootPage
    <2>2. Roomy(P[cur_offset])
      <3>1. Len(P[cur_offset].keys) = 1
        BY <2>1
      <3> QED BY <1>1, <2>1, <3>1 DEF Roomy
    <2>3. ~Halved(Q, P)
      BY <2>1 DEF Halved
    <2>4. \A a \in Addr : Fit(P[a])
      BY <1>1, <1>2, <2>1, <2>2
    <2> QED BY <2>1, <2>2, <2>3, <2>4
  <1> QED BY <1>3, <1>4, <1>5, <1>6, <1>7 DEF Edit

\* The pages in the hands of a split stay there until the parent knows of both.
LEMMA SplitKept ==
  ASSUME Running, NEW Q \in [Addr -> NodeT], Stored(Q), Rooted, [Next]_vars,
         pc \in {"sib", "link"}, pc' \in {"sib", "link"}, Halves' = Halves
  PROVE  SplitC' = SplitC /\ SplitR' = SplitR
  <1>1. child' = child /\ child \in Used
    BY SplitLocals, ChildPage
  <1>2. remote_address'[child] = remote_address[child]
    BY <1>1, AddrKept
  <1>3. Halves = {SplitR} /\ Halves' = {SplitR'}
    BY DEF Halves, SplitR
  <1> QED BY <1>1, <1>2, <1>3 DEF SplitC

\* Going down leaves room below.
LEMMA HitRoom ==
  ASSUME Running, NEW Q \in [Addr -> NodeT], Stored(Q), Rooted, Room(Q), VisitHit
  PROVE  Room(Q)'
  <1> DEFINE ra == remote_address
             c == ChildRef(ChildIdx)
  <1>1. /\ pc = "visit" /\ c \in Slot
        /\ UNCHANGED <<remote_address, node, root_, op>>
    BY DEF VisitHit, poolVars, pages
  <1>2. NextPage(Q) = ra[c]
    BY <1>1, NextChild DEF At
  <1>3. c \in Used /\ SameText(Q[ra[c]], node[c]) /\ ra[c] \in Addr
    <2>1. Wiring /\ TreeTypes /\ Shapes
      BY RunningFacts
    <2>2. c \in Used
      <3>1. CASE cur = Super
        BY <1>1, <2>1, <3>1 DEF ChildRef, Wiring, Wires
      <3>2. CASE cur # Super
        <4>1. cur \in Used /\ cur \in Slot /\ node[cur].type = "inner"
          BY <1>1, <2>1, <3>2 DEF Wiring, CurHere, Used
        <4>2. c \in Swizzled(node[cur])
          BY <1>1, <2>1, <3>2, <4>1, StepDown DEF ChildRef, ChildIdx
        <4> QED BY <4>1, <4>2, RunningFacts
      <3> QED BY <3>1, <3>2
    <2>3. SameText(Q[ra[c]], node[c]) /\ ra[c] \in Live
      BY <2>2, CopyOf
    <2> QED BY <2>2, <2>3, LiveAddrs
  <1>4. Q[ra[c]] \in NodeT /\ Fit(Q[ra[c]])
    BY <1>3 DEF Room
  <1>5. CASE op.kind = "insert" /\ ~retry /\ isFull(node[c])
    <2>1. pc' = "split" /\ child' = c /\ UNCHANGED <<cur, retry>>
      BY <1>5 DEF VisitHit
    <2>2. NextPage(Q)' = NextPage(Q)
      BY <1>1, <2>1, NextKept
    <2> QED BY <1>1, <1>2, <1>5, <2>1, <2>2 DEF Room
  <1>6. CASE ~(op.kind = "insert" /\ ~retry /\ isFull(node[c]))
    <2>1. pc' = (IF node[c].type = "inner" THEN "visit" ELSE "leaf") /\ cur' = c /\ ~retry'
      BY <1>6 DEF VisitHit
    <2>2. op.kind = "insert" => Roomy(Q[ra[c]])
      <3>1. CASE retry
        BY <1>2, <3>1 DEF Room
      <3>2. CASE ~retry
        <4>1. op.kind = "insert" => ~isFull(node[c])
          BY <1>6, <3>2
        <4>2. node[c] \in NodeT /\ Shape(node[c])
          BY <1>1, RunningFacts DEF Shapes
        <4>3. Fit(node[c]) /\ (Roomy(node[c]) => Roomy(Q[ra[c]]))
          BY <1>3, <1>4 DEF SameText, Fit, Roomy
        <4> QED BY <4>1, <4>2, <4>3, NotFullRoomy
      <3> QED BY <3>1, <3>2
    <2>3. pc' \in {"visit", "leaf"}
      BY <2>1
    <2>4. \A a \in Addr : Fit(Q[a])
      BY DEF Room
    <2> HIDE DEF c
    <2> QED BY <1>1, <2>1, <2>2, <2>3, <2>4 DEF Room
  <1> QED BY <1>5, <1>6

\* Every step leaves room for the next separator.
LEMMA EditRoom ==
  ASSUME Running, Running', NEW Q \in [Addr -> NodeT], NEW P \in [Addr -> NodeT], Stored(Q), Stored(P)',
         Rooted, Linked(Q, Live, root_, Halves), Fenced(Q, Live, root_, SplitC, SplitR), OnTheWay(Q),
         Fenced(P, Live', root_', SplitC', SplitR'), Room(Q), [Next]_vars, Edit(Q, P)
  PROVE  Room(P)'
  <1> DEFINE ra == remote_address
  <1>1. /\ Live \in SUBSET (Addr \ {NullAddr}) /\ TreeTypes /\ Wiring /\ InnerFull \in Nat /\ 1 < InnerFull
    BY LiveAddrs, RunningFacts, TreeAssumption
  <1>2. \A a \in Addr : Fit(P[a])
    BY EditFits
  <1>3. cur # Super => cur \in Used /\ ra'[cur] = ra[cur] /\ ra[cur] \in Live
    <2>1. cur # Super => cur \in Used
      BY <1>1 DEF Wiring, CurHere
    <2> QED BY <2>1, AddrKept, CopyOf
  <1>4. Kept(Q, P) => P = Q /\ root_' = root_ /\ Halves' = Halves
    BY DEF Kept
  <1>5. Kept(Q, P) /\ UNCHANGED <<cur, op>> => NextPage(P)' = NextPage(Q)
    BY <1>3, <1>4, NextKept
  <1>6. retry => pc \in {"visit", "load", "sibling"}
    BY DEF Room
  <1>7. pc' # "aborted"
    BY DEF Running
  <1>8. CASE UNCHANGED <<pc, walk, child>>
    <2>1. CASE pc = "leaf"
      <3>1. pc' = "leaf" /\ ~retry' /\ ~retry /\ cur' = cur /\ op' = op
        BY <1>6, <1>8, <2>1 DEF walk
      <3>2. P = Q
        BY <2>1, <3>1, EditFits
      <3> QED BY <1>2, <1>3, <3>1, <3>2 DEF Room
    <2>2. CASE pc # "leaf"
      <3>1. Kept(Q, P) /\ UNCHANGED <<pc, cur, op, retry, child>>
        BY <1>8, <2>2, EditKinds DEF walk
      <3>2. NextPage(P)' = NextPage(Q)
        BY <1>5, <3>1
      <3>3. pc \in {"split", "sib", "link"} => ra'[child] = ra[child]
        BY ChildPage, AddrKept
      <3>4. pc \in {"sib", "link"} => SplitC' = SplitC /\ SplitR' = SplitR
        BY <1>4, <3>1, SplitKept
      <3> QED BY <1>3, <1>4, <3>1, <3>2, <3>3, <3>4 DEF Room
    <2> QED BY <2>1, <2>2
  <1>9. CASE pc = "idle" /\ pc' \in {"visit", "closed"} /\ UNCHANGED <<cur, retry>>
    <2>1. cur' = Super /\ ~retry'
      BY <1>1, <1>6, <1>9 DEF Wiring, CurHere
    <2> QED BY <1>2, <1>9, <2>1 DEF Room
  <1>10. CASE VisitHit
    <2>1. pc = "visit"
      BY <1>10 DEF VisitHit
    <2>2. P = Q
      BY <1>4, <2>1, EditKinds
    <2> QED BY <1>10, <2>2, HitRoom
  <1>11. CASE pc \in {"visit", "sibling", "load"} /\ pc' \in {"load", "visit"} /\ UNCHANGED walk
    <2>1. Kept(Q, P) /\ UNCHANGED <<cur, op, retry>>
      BY <1>11, EditKinds DEF walk
    <2>2. NextPage(P)' = NextPage(Q)
      BY <1>5, <2>1
    <2> QED BY <1>3, <1>4, <1>11, <2>1, <2>2 DEF Room
  <1>12. CASE pc = "sib" /\ pc' \in {"sib", "link"} /\ UNCHANGED <<walk, child>>
    <2>1. Kept(Q, P) /\ UNCHANGED <<cur, op, retry, child>>
      BY <1>12, EditKinds DEF walk
    <2>2. NextPage(P)' = NextPage(Q)
      BY <1>5, <2>1
    <2>3. ra'[child] = ra[child]
      BY <1>12, ChildPage, AddrKept
    <2>4. SplitC' = SplitC /\ SplitR' = SplitR
      BY <1>4, <1>12, <2>1, SplitKept
    <2> QED BY <1>3, <1>4, <1>12, <2>1, <2>2, <2>3, <2>4 DEF Room
  <1>13. CASE pc = "split" /\ pc' \in {"sib", "link"} /\ UNCHANGED <<walk, child>>
    <2>1. Halved(Q, P) /\ UNCHANGED <<cur, op, retry, child>>
      BY <1>13, EditKinds DEF walk
    <2>2. Roomy(P[ra[child]]) /\ Roomy(P[cur_offset])
      BY <2>1, EditFits
    <2>3. /\ root_' = root_ /\ Halves' = {cur_offset} /\ cur_offset \notin Live
          /\ \A a \in Addr \ {ra[child], cur_offset} : P[a] = Q[a]
      BY <2>1 DEF Halved
    <2>4. Fenced(Q, Live, root_, NullAddr, SplitR)
      BY <1>13 DEF SplitC
    <2>5. cur # Super => ra[cur] # ra[child]
      BY <1>13, <2>4, CurNotChild
    <2>6. cur # Super => P[ra[cur]] = Q[ra[cur]]
      BY <1>1, <1>3, <2>3, <2>5
    <2>7. NextPage(P)' = NextPage(Q)
      BY <1>3, <2>1, <2>3, <2>6, NextKept
    <2>8. ra'[child] = ra[child]
      BY <1>13, ChildPage, AddrKept
    <2>9. SplitR' = cur_offset /\ SplitC' = ra[child]
      BY <1>13, <2>1, <2>3, <2>8 DEF SplitR, SplitC, Halves
    <2> QED BY <1>2, <1>3, <1>13, <2>1, <2>2, <2>6, <2>7, <2>8, <2>9 DEF Room
  <1>14. CASE /\ pc = "link" /\ pc' \in {"visit", "sibling"} /\ cur # Super /\ retry' = TRUE
              /\ UNCHANGED <<op, cur>>
    <2> DEFINE x == ra[cur]
               c == ra[child]
               y == At(right, ra)
    <2>1. Joined(Q, P)
      BY <1>14, EditKinds
    <2>2. /\ LinkPage(Q[x], P[x], sep, y) /\ \A a \in Addr \ {x} : P[a] = Q[a]
          /\ cur_offset' = cur_offset /\ root_' = root_
      BY <2>1 DEF Joined
    <2>3. Live' = Live /\ SplitC' = NullAddr /\ SplitC = c /\ SplitR = y /\ Halves = {y}
      BY <1>14, <2>2 DEF Live, SplitC, SplitR, Halves
    <2>4. Fenced(Q, Live, root_, c, y) /\ Fenced(P, Live, root_, NullAddr, SplitR')
      BY <2>2, <2>3
    <2>5. x \in Live /\ c \in Live /\ y \in Live /\ NextPage(Q) = c
      BY <1>3, <1>14, <2>3, ChildPage DEF Linked, Room
    <2>6. Q[x].kids[lowerBound(Q[x], op.key)] = c
      BY <1>14, <2>5 DEF NextPage
    <2>7. /\ cur \in Used /\ node[cur].type = "inner" /\ SameText(Q[x], node[cur])
      BY <1>1, <1>3, <1>14, CopyOf DEF Wiring, CurHere
    <2>8. Q[x].type = "inner" /\ Q[x].lo < op.key /\ op.key <= Q[x].hi
      BY <1>14, <2>7 DEF SameText, OnTheWay
    <2>9. P[x].type = "inner" /\ P[x].lo = Q[x].lo /\ P[x].hi = Q[x].hi
      BY <2>2, <2>8 DEF LinkPage
    <2>10. op.key \in Int
      BY <1>1, OpLimits DEF TreeTypes
    <2>11. \E i \in 1 .. Len(Q[x].kids) : Q[x].kids[i] = c
      BY <1>14, ChildPage
    <2>12. Roomy(Q[c]) /\ Roomy(Q[y])
      BY <1>14, <2>3 DEF Room
    <2>13. Q[x] \in NodeT
      BY <1>1, <2>5
    <2> HIDE DEF x, c, y
    <2>14. Q[c].level + 1 = Q[x].level /\ Q[y].level = Q[c].level /\ Q[c].level \in Nat
      <3>1. PICK i \in 1 .. Len(Q[x].kids) : Q[x].kids[i] = c
        BY <2>11
      <3>2. KidFits(Q, x, i, c, y)
        BY <2>4, <2>5 DEF Fenced
      <3>3. c # NullAddr /\ Q[c] \in NodeT
        BY <1>1, <2>5
      <3>4. Q[c].level + 1 = Q[x].level
        BY <3>1, <3>2 DEF KidFits
      <3>5. Q[y].level = Q[c].level
        BY <2>4, <3>3 DEF Fenced
      <3> QED BY <3>3, <3>4, <3>5 DEF NodeT
    <2>15. x # c /\ x # y
      BY <2>14
    <2>16. /\ \E h \in 1 .. Len(P[x].kids) : P[x].kids[h] = c
           /\ \E j \in 1 .. Len(P[x].kids) : P[x].kids[j] = y
      <3> DEFINE p == lowerBound(Q[x], sep)
      <3>1. p \in 1 .. Len(Q[x].kids) /\ Inserted(P[x].kids, Q[x].kids, p + 1, y)
        BY <2>2 DEF LinkPage
      <3> HIDE DEF p
      <3>2. Len(Q[x].kids) \in Nat
        BY <2>13, NodeSeqs
      <3>3. /\ Len(P[x].kids) = Len(Q[x].kids) + 1
            /\ \A j \in 1 .. Len(Q[x].kids) + 1 :
                 P[x].kids[j] = IF j < p + 1 THEN Q[x].kids[j] ELSE IF j = p + 1 THEN y ELSE Q[x].kids[j - 1]
        BY <3>1 DEF Inserted
      <3>4. P[x].kids[p + 1] = y /\ p + 1 \in 1 .. Len(P[x].kids)
        BY <3>1, <3>2, <3>3
      <3>5. PICK i \in 1 .. Len(Q[x].kids) : Q[x].kids[i] = c
        BY <2>11
      <3>6. CASE i < p + 1
        <4>1. i \in 1 .. Len(P[x].kids) /\ P[x].kids[i] = Q[x].kids[i]
          BY <3>2, <3>3, <3>6
        <4> QED BY <3>4, <3>5, <4>1
      <3>7. CASE ~(i < p + 1)
        <4>1. /\ i + 1 \in 1 .. Len(P[x].kids) /\ ~(i + 1 < p + 1) /\ i + 1 # p + 1 /\ (i + 1) - 1 = i
          BY <3>1, <3>2, <3>3, <3>7
        <4>2. P[x].kids[i + 1] = Q[x].kids[(i + 1) - 1]
          BY <3>3, <4>1
        <4> QED BY <3>4, <3>5, <4>1, <4>2
      <3> QED BY <3>4, <3>6, <3>7
    <2>17. PICK h \in 1 .. Len(P[x].kids) : P[x].kids[h] = c
      BY <2>16
    <2>18. PICK j \in 1 .. Len(P[x].kids) : P[x].kids[j] = y
      BY <2>16
    <2>19. P[c] = Q[c] /\ P[y] = Q[y]
      BY <1>1, <2>2, <2>5, <2>15
    <2>20. P[x].kids[lowerBound(P[x], op.key)] \in {c, y}
      BY <1>1, <2>4, <2>5, <2>6, <2>8, <2>9, <2>10, <2>15, <2>17, <2>18, <2>19, NextAfterJoin
    <2>21. NextPage(P)' = P[x].kids[lowerBound(P[x], op.key)]
      <3>1. x' = x
        BY <1>3, <1>14 DEF x
      <3>2. lowerBound(P[x], op.key)' = lowerBound(P[x], op.key)
        BY <1>14, <3>1 DEF lowerBound
      <3> QED BY <1>14, <3>1, <3>2 DEF NextPage, x
    <2>22. Roomy(P[NextPage(P)'])
      BY <2>12, <2>19, <2>20, <2>21
    <2>23. op.kind = "insert"
      BY <1>14 DEF Room
    <2> QED BY <1>2, <1>14, <2>22, <2>23 DEF Room
  <1>15. CASE pc = "link" /\ pc' = "root" /\ cur = Super /\ UNCHANGED walk
    <2>1. Grown(Q, P) /\ UNCHANGED <<cur, op, retry>>
      BY <1>15, EditKinds DEF walk
    <2>2. root_' = cur_offset
      BY <2>1 DEF Grown
    <2>3. Roomy(P[root_'])
      BY <2>1, <2>2, EditFits
    <2>4. op.kind = "insert" /\ ~retry
      BY <1>15 DEF Room
    <2> QED BY <1>2, <1>15, <2>1, <2>3, <2>4 DEF Room
  <1>16. CASE pc = "root" /\ pc' = "visit" /\ retry' = TRUE /\ UNCHANGED <<op, cur, root_>>
    <2>1. P = Q /\ cur = Super
      BY <1>1, <1>4, <1>16, EditKinds DEF Wiring, CurHere
    <2>2. NextPage(P)' = root_
      BY <1>16, <2>1 DEF NextPage
    <2>3. op.kind = "insert" /\ Roomy(Q[root_])
      BY <1>16 DEF Room
    <2> QED BY <1>1, <1>2, <1>16, <2>1, <2>2, <2>3 DEF Room
  <1>17. CASE pc = "leaf" /\ pc' = "idle" /\ cur' = Super /\ UNCHANGED retry
    <2>1. ~retry'
      BY <1>6, <1>17
    <2> QED BY <1>2, <1>17, <2>1 DEF Room
  <1>18. StepKind
    BY <1>7, StepKinds
  <1> QED BY <1>8, <1>9, <1>10, <1>11, <1>12, <1>13, <1>14, <1>15, <1>16, <1>17, <1>18 DEF StepKind

\* A node that fits its arrays.
Small(n) == Len(n.keys) <= InnerFull /\ n.bitmap \subseteq DOMAIN n.kids
\* All nodes do, those in slots nobody uses too.
Sized ==
  /\ \A s \in Slot : Small(node[s])
  /\ \A a \in Addr : Small(backend[a].node)
  /\ Small(adm.node)

\* An empty node is small.
LEMMA BlankSmall ==
  ASSUME NEW n, n.keys = <<>>, n.bitmap = {}
  PROVE  Small(n)
  <1>1. Len(n.keys) = 0 /\ 0 <= InnerFull
    BY TreeAssumption
  <1> QED BY <1>1 DEF Small

\* What is done to nodes in passing leaves them small.
LEMMA SmallEdits ==
  ASSUME NEW n \in NodeT, Small(n)
  PROVE  /\ \A p \in Slot \union {NoSlot, Super} : Small(WithParent(n, p))
         /\ \A i \in DOMAIN n.kids, r \in Ref : Small(Unswizzle(n, i, r))
         /\ remote_address \in [Slot -> Addr] => Small(WithParent(Unswizzled(n), NoSlot))
  <1>1. ASSUME NEW p \in Slot \union {NoSlot, Super} PROVE Small(WithParent(n, p))
    BY NodeEdits DEF Small
  <1>2. ASSUME NEW i \in DOMAIN n.kids, NEW r \in Ref PROVE Small(Unswizzle(n, i, r))
    <2> DEFINE u == Unswizzle(n, i, r)
    <2>1. u.keys = n.keys /\ u.kids = [n.kids EXCEPT ![i] = r] /\ u.bitmap = n.bitmap \ {i}
      BY NodeEdits
    <2>2. DOMAIN u.kids = DOMAIN n.kids
      BY <2>1
    <2> HIDE DEF u
    <2>3. Small(u)
      BY <2>1, <2>2 DEF Small
    <2> QED BY <2>3 DEF u
  <1>3. ASSUME remote_address \in [Slot -> Addr] PROVE Small(WithParent(Unswizzled(n), NoSlot))
    <2>1. PICK u : u = Unswizzled(n)
      OBVIOUS
    <2>2. u \in NodeT /\ u.keys = n.keys /\ u.bitmap = {}
      BY <1>3, <2>1, UnswizzledFacts
    <2>3. WithParent(u, NoSlot).keys = n.keys /\ WithParent(u, NoSlot).bitmap = {}
      BY <2>2, NodeEdits
    <2> QED BY <2>1, <2>3 DEF Small
  <1> QED BY <1>1, <1>2, <1>3

\* A step changes no slot that is unused after it, but for pointers.
LEMMA IdleSlots ==
  ASSUME Running, Running', Sized, [Next]_vars
  PROVE  \A s \in Slot : s \in Used' \/ Small(node'[s])
  <1> SUFFICES ASSUME NEW t \in Slot, t \notin Used' PROVE Small(node'[t])
    OBVIOUS
  <1>1. /\ OwnInv /\ TreeTypes /\ Wiring /\ node \in [Slot -> NodeT] /\ Used \in SUBSET Slot
        /\ adm.addr \in Addr /\ adm.dirty \in BOOLEAN /\ remote_address \in [Slot -> Addr]
    BY RunningFacts DEF Running
  <1>2. /\ cur' # Super => cur' \in Used'
        /\ pc' \in {"split", "sib", "link", "root"} => child' \in Used'
    BY DEF Running, WireInv, Wiring, CurHere, ChildHere
  <1>3. Small(node[t]) /\ node[t] \in NodeT
    BY <1>1 DEF Sized
  <1>4. ASSUME node' = node PROVE Small(node'[t])
    BY <1>3, <1>4
  <1>5. CASE \/ VisitHit \/ VisitMiss \/ LoadSibling \/ RequestUnpinned \/ PoolStep \/ MakeNewRoot \/ Destroy
             \/ UNCHANGED vars \/ \E o \in Calls : Begin(o)
    <2>1. node' = node
      BY <1>5 DEF VisitHit, VisitMiss, LoadSibling, LoadChild, RequestUnpinned, PoolStep, MakeNewRoot, Destroy,
                  vars, treeVars, Begin
    <2> QED BY <1>4, <2>1
  <1>6. CASE AdmitLoad \/ AdmitSib \/ AdmitRoot
    <2>1. CacheInsert(adm.addr, adm.dirty)
      BY <1>6 DEF AdmitLoad, AdmitSib, AdmitRoot
    <2>2. page \in Slot /\ page \in Used'
      BY <1>1, <2>1, InsertAddsUsed
    <2>3. t # page
      BY <2>2
    <2>4. CASE AdmitLoad
      <3>1. cur' = cur /\ (cur # Super => t # cur)
        BY <1>2, <2>4 DEF AdmitLoad, walk
      <3>2. node'[t] = node[t]
        BY <1>1, <2>2, <2>3, <2>4, <3>1 DEF AdmitLoad
      <3> QED BY <1>3, <3>2
    <2>5. CASE AdmitSib \/ AdmitRoot
      <3>1. node'[t] = node[t] \/ node'[t] = WithParent(node[t], page)
        BY <2>3, <2>5 DEF AdmitSib, AdmitRoot
      <3> QED BY <1>3, <2>2, <3>1, SmallEdits
    <2> QED BY <1>6, <2>4, <2>5
  <1>7. CASE SplitLeaf \/ SplitInner
    <2>1. /\ pc' \in {"sib", "link"} /\ child' = child
          /\ node' = [node EXCEPT ![child] = LeafLeft(node[child])]
             \/ node' = [node EXCEPT ![child] = InnerLeft(node[child])]
      BY <1>7 DEF SplitLeaf, SplitInner
    <2>2. t # child
      BY <1>2, <2>1
    <2>3. node'[t] = node[t]
      BY <1>1, <2>1, <2>2
    <2> QED BY <1>3, <2>3
  <1>8. CASE LinkSibling
    <2>1. cur' = cur /\ cur # Super /\ node' = [node EXCEPT ![cur] = InnerInsert(node[cur], sep, right)]
      BY <1>8 DEF LinkSibling
    <2>2. t # cur
      BY <1>2, <2>1
    <2>3. node'[t] = node[t]
      BY <1>1, <2>1, <2>2
    <2> QED BY <1>3, <2>3
  <1>9. CASE LeafInsert \/ LeafLookup \/ LeafUpdate \/ LeafRemove \/ LeafScan \/ LeafCtor
    <2>1. /\ pc = "leaf" /\ \E S : MarkDirty(S)
          /\ \E n : node' = [node EXCEPT ![cur] = n]
      BY <1>9 DEF LeafInsert, LeafLookup, LeafUpdate, LeafRemove, LeafScan, LeafCtor, Finish
    <2>2. Used' = Used
      BY <1>1, <2>1, WriteKeepsUsed
    <2>3. cur \in Used
      BY <1>1, <2>1 DEF Wiring, CurHere
    <2>4. t # cur
      BY <2>2, <2>3
    <2>5. node'[t] = node[t]
      BY <1>1, <2>1, <2>4
    <2> QED BY <1>3, <2>5
  <1>10. ASSUME NEW s \in Slot, SampleDemote(s) \/ SampleStale(s) \/ SampleOrphan(s) \/ SampleAssert(s)
         PROVE  Small(node'[t])
    <2>1. CASE SampleAssert(s)
      <3>1. node' = node
        BY <2>1 DEF SampleAssert
      <3> QED BY <1>4, <3>1
    <2>2. CASE SampleStale(s) \/ SampleOrphan(s)
      <3>1. node'[t] = node[t] \/ node'[t] = WithParent(node[t], NoSlot)
        BY <1>1, <2>2 DEF SampleStale, SampleOrphan
      <3> QED BY <1>3, <3>1, SmallEdits
    <2>3. CASE SampleDemote(s)
      <3> DEFINE p == node[s].parent
                 i == findIdx(node[p], s)
                 u == Unswizzle(node[p], i, remote_address[s])
      <3>1. p \in Slot /\ i # 0 /\ node' = [node EXCEPT ![p] = u, ![s] = WithParent(@, NoSlot)]
        BY <2>3 DEF SampleDemote, Parent
      <3>2. node[p] \in NodeT /\ Small(node[p]) /\ remote_address[s] \in Ref
        BY <1>1, <3>1 DEF Sized, Ref
      <3>3. i \in DOMAIN node[p].kids
        BY <3>1, <3>2, FindIdxFacts DEF Tagged
      <3>4. Small(u) /\ u \in NodeT
        BY <3>2, <3>3, SmallEdits, NodeEdits
      <3> HIDE DEF u, i, p
      <3>5. node'[t] \in {node[t], u, WithParent(node[t], NoSlot), WithParent(u, NoSlot)}
        BY <1>1, <3>1
      <3> QED BY <1>3, <3>4, <3>5, SmallEdits
    <2> QED BY <1>10, <2>1, <2>2, <2>3
  <1> QED BY <1>5, <1>6, <1>7, <1>8, <1>9, <1>10 DEF Next, TreeStep

\* What is written to the backend is small.
LEMMA BackendSmall ==
  ASSUME Running, Sized, [Next]_vars
  PROVE  \A a \in Addr : Small(backend'[a].node)
  <1> SUFFICES ASSUME NEW a \in Addr PROVE Small(backend'[a].node)
    OBVIOUS
  <1>1. /\ TreeTypes /\ Wiring /\ node \in [Slot -> NodeT] /\ Used \in SUBSET Slot
        /\ remote_address \in [Slot -> Addr]
    BY RunningFacts
  <1>2. Small(backend[a].node) /\ \A s \in Slot : node[s] \in NodeT /\ Small(node[s])
    BY <1>1 DEF Sized
  <1>3. \A s \in Slot : \A d : /\ Small(Image(node[s], d).node)
                               /\ Small(Image(Unswizzled(node[s]), d).node)
    BY <1>1, <1>2, SmallEdits DEF Image
  <1>4. CASE backend' = backend
    BY <1>2, <1>4
  <1>5. CASE \/ VisitHit \/ VisitMiss \/ LoadSibling \/ RequestUnpinned \/ PoolStep \/ MakeNewRoot
             \/ UNCHANGED vars \/ (\E o \in Calls : Begin(o)) \/ AdmitLoad \/ AdmitSib \/ AdmitRoot
    <2>1. backend' = backend
      BY <1>5 DEF VisitHit, VisitMiss, LoadSibling, LoadChild, RequestUnpinned, PoolStep, MakeNewRoot,
                  vars, treeVars, Begin, storage, AdmitLoad, AdmitSib, AdmitRoot
    <2> QED BY <1>4, <2>1
  <1>6. CASE SplitInner \/ LinkSibling \/ LeafInsert \/ LeafLookup \/ LeafUpdate \/ LeafRemove \/ LeafScan \/ LeafCtor
    <2>1. backend' = backend
      BY <1>6 DEF SplitInner, LinkSibling, LeafInsert, LeafLookup, LeafUpdate, LeafRemove, LeafScan, LeafCtor,
                  Finish, storage
    <2> QED BY <1>4, <2>1
  <1>7. CASE SplitLeaf
    <2>1. /\ pc = "split" /\ node[child].type = "leaf"
          /\ backend' = [backend EXCEPT ![AllocAddr] = Image(LeafRight(node[child]), TRUE)]
      BY <1>7 DEF SplitLeaf
    <2>2. child \in Slot /\ isFull(node[child])
      BY <1>1, <2>1 DEF Wiring, ChildHere
    <2>3. PICK r : r = LeafRight(node[child])
      OBVIOUS
    <2>4. r \in NodeT /\ r.keys = <<>> /\ r.bitmap = {}
      BY <1>2, <2>1, <2>2, <2>3, LeafHalves
    <2>5. Image(r, TRUE).node.keys = <<>> /\ Image(r, TRUE).node.bitmap = {}
      BY <2>4, NodeEdits DEF Image
    <2>6. Small(Image(r, TRUE).node)
      BY <2>5, BlankSmall
    <2>7. backend'[a] = backend[a] \/ backend'[a] = Image(r, TRUE)
      BY <1>1, <2>1, <2>3 DEF TreeTypes
    <2> QED BY <1>2, <2>6, <2>7
  <1>8. ASSUME NEW s \in Slot, SampleDemote(s) \/ SampleStale(s) \/ SampleOrphan(s) \/ SampleAssert(s)
        PROVE  Small(backend'[a].node)
    <2>1. \/ backend' = backend
          \/ backend' = [backend EXCEPT ![remote_address[s]] = Image(node[s], FALSE)]
      BY <1>8 DEF SampleDemote, SampleStale, SampleOrphan, SampleAssert, Demote, storage
    <2>2. backend'[a] = backend[a] \/ backend'[a] = Image(node[s], FALSE)
      BY <1>1, <2>1 DEF TreeTypes
    <2> QED BY <1>2, <1>3, <1>8, <2>2
  <1>9. CASE Destroy
    <2> DEFINE S == {s \in Slot : dirty[s] /\ remote_address[s] = a}
    <2>1. backend'[a] = IF S = {} THEN backend[a] ELSE Image(Unswizzled(node[CHOOSE s \in S : TRUE]), FALSE)
      BY <1>9 DEF Destroy, FlushedBackend
    <2>2. CASE S = {}
      BY <1>2, <2>1, <2>2
    <2>3. CASE S # {}
      <3>1. PICK s : s = CHOOSE t \in S : TRUE
        OBVIOUS
      <3>2. s \in Slot
        BY <2>3, <3>1
      <3>3. backend'[a] = Image(Unswizzled(node[s]), FALSE)
        BY <2>1, <2>3, <3>1
      <3> QED BY <1>3, <3>2, <3>3
    <2> QED BY <2>2, <2>3
  <1> QED BY <1>5, <1>6, <1>7, <1>8, <1>9 DEF Next, TreeStep

\* All nodes stay small, as the pages they are copies of do.
LEMMA SizedNext ==
  ASSUME Running, Running', Sized, NEW P \in [Addr -> NodeT], Stored(P)', Room(P)', [Next]_vars
  PROVE  Sized'
  <1>1. /\ node' \in [Slot -> NodeT] /\ remote_address' \in [Slot -> Addr] /\ Wiring'
        /\ adm'.node \in NodeT /\ adm'.addr \in Addr
    BY DEF Running, WireInv, OwnInv, OwnTypes, TreeTypes
  <1>2. \A a \in Addr : Len(P[a].keys) <= InnerFull
    BY DEF Room, Fit
  <1>3. \A a \in Addr : Small(backend'[a].node)
    BY BackendSmall
  <1>4. ASSUME NEW n \in NodeT, Wired(n), NEW a \in Addr, P[a] = Page(n, remote_address') PROVE Small(n)
    <2>1. Len(n.keys) <= InnerFull
      BY <1>1, <1>2, <1>4, PageFacts DEF SameText
    <2> QED BY <1>4, <2>1 DEF Small, Wired, Tagged
  <1>5. ASSUME NEW s \in Used' PROVE Small(node'[s])
    <2>1. s \in Slot /\ Wired(node'[s])
      BY <1>1, <1>5 DEF Used, Wiring, Wires
    <2>2. P[remote_address'[s]] = Page(node'[s], remote_address')
      BY <1>5 DEF Stored, CachedPages
    <2> QED BY <1>1, <1>4, <2>1, <2>2
  <1>6. \A s \in Slot : Small(node'[s])
    BY <1>5, IdleSlots
  <1>7. Small(adm'.node)
    <2>1. CASE pc' \in {"sib", "root"}
      BY <1>1, <1>4, <2>1 DEF Wiring, AdmHere, Stored, WaitingPage
    <2>2. CASE pc' = "load"
      BY <1>1, <1>3, <2>2 DEF Stored, WaitingPage
    <2>3. CASE pc' \notin {"load", "sib", "root"}
      <3>1. adm'.node = Zeroed
        BY <1>1, <2>3 DEF Wiring, AdmHere, NoPage
      <3> QED BY <3>1, FreshNodes, BlankSmall DEF Blank
    <2> QED BY <2>1, <2>2, <2>3
  <1> QED BY <1>3, <1>6, <1>7 DEF Sized

\* The failing assertion of sample_page leaves everything as it is.
LEMMA AbortKeeps ==
  ASSUME WireInv, [Next]_vars, pc' = "aborted"
  PROVE  UNCHANGED <<node, backend, adm>>
  <1>0. CASE pc = "aborted"
    <2>1. UNCHANGED vars
      BY <1>0, AbortedStays
    <2> QED BY <2>1 DEF vars, treeVars, storage
  <1>1. CASE VisitHit \/ (\E o \in Calls : Begin(o)) \/ VisitMiss \/ LoadSibling \/ AdmitLoad
    BY <1>1 DEF VisitHit, Begin, VisitMiss, LoadSibling, LoadChild, AdmitLoad
  <1>2. CASE RequestUnpinned \/ PoolStep \/ UNCHANGED vars
    BY <1>2 DEF RequestUnpinned, PoolStep, vars, treeVars, storage
  <1>3. CASE AdmitSib \/ SplitLeaf \/ SplitInner \/ LinkSibling \/ MakeNewRoot \/ AdmitRoot \/ Destroy
    BY <1>3 DEF AdmitSib, SplitLeaf, SplitInner, LinkSibling, MakeNewRoot, AdmitRoot, Destroy
  <1>4. CASE LeafInsert \/ LeafLookup \/ LeafUpdate \/ LeafRemove \/ LeafScan \/ LeafCtor
    BY <1>4 DEF LeafInsert, LeafLookup, LeafUpdate, LeafRemove, LeafScan, LeafCtor, Finish
  <1>5. ASSUME NEW s \in Slot, SampleDemote(s) \/ SampleStale(s) \/ SampleOrphan(s) \/ SampleAssert(s),
               pc # "aborted"
        PROVE  UNCHANGED <<node, backend, adm>>
    BY <1>5 DEF SampleDemote, SampleStale, SampleOrphan, SampleAssert, storage
  <1> QED BY <1>0, <1>1, <1>2, <1>3, <1>4, <1>5 DEF Next, TreeStep

-----------------------------------------------------------------------------
(* One leaf for every key *)

\* No key lies within the limits of two leaves; the tree is lower than it has pages; and
\* the root that make_new_root builds names the halves of the old one.
Apart(Q) ==
  \A a, b \in Live : Q[a].type = "leaf" /\ Q[b].type = "leaf" /\ a # b => Q[a].hi <= Q[b].lo \/ Q[b].hi <= Q[a].lo
Spread(Q) ==
  /\ Apart(Q)
  /\ Q[root_].level + 2 <= cur_offset
  /\ pc = "root" => /\ sep = Q[remote_address[child]].hi
                    /\ Q[root_].kids = <<remote_address[child], At(right, remote_address)>>

\* make_new_root keeps the locals of split_child.
LEMMA RootLocals ==
  ASSUME [Next]_vars, pc' = "root"
  PROVE  UNCHANGED <<split, cur>> /\ (pc = "root" \/ (pc = "link" /\ cur = Super))
  <1>1. CASE AdmitLoad \/ AdmitRoot \/ VisitHit \/ (\E o \in Calls : Begin(o))
    BY <1>1 DEF AdmitLoad, AdmitRoot, VisitHit, Begin
  <1>2. CASE VisitMiss \/ LoadSibling
    BY <1>2 DEF VisitMiss, LoadSibling, LoadChild
  <1>3. CASE RequestUnpinned \/ PoolStep \/ UNCHANGED vars
    BY <1>3 DEF RequestUnpinned, PoolStep, vars, treeVars, walk, split
  <1>4. CASE AdmitSib \/ SplitLeaf \/ SplitInner
    BY <1>4 DEF AdmitSib, SplitLeaf, SplitInner
  <1>5. CASE LinkSibling \/ MakeNewRoot
    BY <1>5 DEF LinkSibling, MakeNewRoot, walk
  <1>6. CASE LeafInsert \/ LeafLookup \/ LeafUpdate \/ LeafRemove \/ LeafScan \/ LeafCtor
    BY <1>6 DEF LeafInsert, LeafLookup, LeafUpdate, LeafRemove, LeafScan, LeafCtor, Finish
  <1>7. ASSUME NEW s \in Slot, SampleDemote(s) \/ SampleStale(s) \/ SampleOrphan(s) \/ SampleAssert(s)
        PROVE  UNCHANGED <<split, cur>> /\ (pc = "root" \/ (pc = "link" /\ cur = Super))
    BY <1>7 DEF SampleDemote, SampleStale, SampleOrphan, SampleAssert, split, walk
  <1>8. CASE Destroy
    BY <1>8 DEF Destroy
  <1> QED BY <1>1, <1>2, <1>3, <1>4, <1>5, <1>6, <1>7, <1>8 DEF Next, TreeStep

\* The root that waits for its slot.
LEMMA EditRoot ==
  ASSUME Running, Running', NEW Q \in [Addr -> NodeT], NEW P \in [Addr -> NodeT], Stored(Q),
         Rooted, OnTheWay(Q), Spread(Q), [Next]_vars, Edit(Q, P), pc' = "root"
  PROVE  /\ sep' = P[remote_address'[child']].hi
         /\ P[root_'].kids = <<remote_address'[child'], At(right', remote_address')>>
  <1>1. UNCHANGED <<child, sep, right>> /\ (pc = "root" \/ (pc = "link" /\ cur = Super))
    BY RootLocals DEF split
  <1>2. child \in Used /\ (right \in Slot => right \in Used)
    BY <1>1, RunningFacts DEF Wiring, ChildHere, RightHere
  <1>3. remote_address'[child'] = remote_address[child] /\ At(right', remote_address') = At(right, remote_address)
    BY <1>1, <1>2, AddrKept DEF At
  <1>4. CASE pc = "root"
    <2>1. P = Q /\ root_' = root_
      BY <1>4, EditKinds DEF Kept
    <2> QED BY <1>1, <1>3, <1>4, <2>1 DEF Spread
  <1>5. CASE pc = "link" /\ cur = Super
    <2>1. Grown(Q, P)
      BY <1>5, EditKinds
    <2>2. remote_address[child] = root_ /\ root_ \in Live
      BY <1>5, ChildPage
    <2>3. P[root_] = Q[root_]
      BY <2>1, <2>2, RunningFacts DEF Grown
    <2>4. P[root_'].kids = <<root_, At(right, remote_address)>>
      BY <2>1 DEF Grown, RootPage
    <2>5. sep = Q[remote_address[child]].hi
      BY <1>5 DEF OnTheWay
    <2> QED BY <1>1, <1>3, <2>2, <2>3, <2>4, <2>5
  <1> QED BY <1>1, <1>4, <1>5

\* A new root is one level higher.
LEMMA EditHeight ==
  ASSUME Running, NEW Q \in [Addr -> NodeT], NEW P \in [Addr -> NodeT],
         Linked(Q, Live, root_, Halves), Spread(Q), Edit(Q, P)
  PROVE  P[root_'].level + 2 <= cur_offset'
  <1>1. root_ \in Live /\ root_ \in Addr /\ Q[root_].level \in Nat /\ cur_offset \in Nat
    <2>1. root_ \in Live /\ root_ \in Addr /\ cur_offset \in 2 .. BackendPages /\ BackendPages \in Nat
      BY RunningFacts, AddrAssumption DEF Linked, TreeTypes
    <2>2. Q[root_] \in NodeT
      BY <2>1
    <2> QED BY <2>1, <2>2 DEF NodeT
  <1>2. Q[root_].level + 2 <= cur_offset
    BY DEF Spread
  <1>3. CASE Grown(Q, P)
    BY <1>1, <1>2, <1>3 DEF Grown, RootPage
  <1>4. CASE Halved(Q, P)
    <2>1. P[root_].level = Q[root_].level
      <3>1. CASE root_ = remote_address[child]
        BY <1>4, <3>1 DEF Halved, SplitPage
      <3>2. CASE root_ # remote_address[child]
        BY <1>1, <1>4, <3>2 DEF Halved
      <3> QED BY <3>1, <3>2
    <2> QED BY <1>1, <1>2, <1>4, <2>1 DEF Halved
  <1>5. CASE Kept(Q, P) \/ Wrote(Q, P) \/ Joined(Q, P)
    <2>1. root_' = root_ /\ cur_offset' = cur_offset
      BY <1>5 DEF Kept, Wrote, Joined
    <2>2. pc # "split" \/ P = Q
      BY <1>5 DEF Kept, Wrote, Joined
    <2>3. P[root_].level = Q[root_].level
      BY <1>1, <2>2, LimitsKept
    <2> QED BY <1>2, <2>1, <2>3
  <1> QED BY <1>3, <1>4, <1>5 DEF Edit

\* Leaves stay apart.
LEMMA EditApart ==
  ASSUME Running, Running', NEW Q \in [Addr -> NodeT], NEW P \in [Addr -> NodeT], Stored(Q), Stored(P)',
         Rooted, Fenced(Q, Live, root_, SplitC, SplitR), Spread(Q), Edit(Q, P)
  PROVE  Apart(P)'
  <1>1. Live \in SUBSET Addr /\ Apart(Q)
    BY RunningFacts DEF Spread
  <1>2. \A a \in Addr : Q[a].lo \in Int /\ Q[a].hi \in Int
    BY NodeSeqs
  <1>3. CASE Kept(Q, P) \/ Wrote(Q, P) \/ Joined(Q, P)
    <2>1. Live' = Live
      BY <1>3 DEF Kept, Wrote, Joined, Live
    <2>2. pc # "split" \/ P = Q
      BY <1>3 DEF Kept, Wrote, Joined
    <2>3. \A a \in Live : P[a].lo = Q[a].lo /\ P[a].hi = Q[a].hi /\ P[a].type = Q[a].type
      BY <1>1, <2>2, LimitsKept
    <2> QED BY <1>1, <2>1, <2>3 DEF Apart
  <1>4. CASE Grown(Q, P)
    <2>1. Live' = Live \union {cur_offset} /\ P[cur_offset].type # "leaf"
      BY <1>4, OneMoreLive DEF Grown, RootPage
    <2>2. \A a \in Live : P[a] = Q[a]
      BY <1>1, <1>4 DEF Grown
    <2> QED BY <1>1, <2>1, <2>2 DEF Apart
  <1>5. CASE Halved(Q, P)
    <2> DEFINE x == remote_address[child]
               y == cur_offset
    <2>1. /\ SplitPage(Q[x], P[x], P[y], sep') /\ Live' = Live \union {y} /\ y \in Addr \ Live
          /\ \A a \in Addr \ {x, y} : P[a] = Q[a]
      BY <1>5, OneMoreLive DEF Halved
    <2>2. x \in Live /\ x \in Addr
      BY <1>1, <1>5, ChildPage DEF Halved
    <2>3. sep' \in Key
      <3>1. pc' \in {"sib", "link"}
        BY <1>5 DEF Halved, Halves
      <3> QED BY <3>1 DEF Running, WireInv, TreeTypes
    <2>4. PageOK(Q[x]) /\ Shape(P[x]) /\ Shape(P[y])
      BY <2>1, <2>2, StoredShape DEF Fenced
    <2>5. PICK k \in Key : k = sep'
      BY <2>3
    <2>6. Q[x].lo < k /\ k < Q[x].hi /\ k \in Int
      <3>1. Q[x] \in NodeT /\ P[x] \in NodeT /\ P[y] \in NodeT
        BY <2>1, <2>2
      <3> QED BY <2>1, <2>4, <2>5, <3>1, SplitOK, NodeSeqs
    <2>7. /\ P[x].type = Q[x].type /\ P[y].type = Q[x].type
          /\ P[x].lo = Q[x].lo /\ P[x].hi = k /\ P[y].lo = k /\ P[y].hi = Q[x].hi
      BY <2>1, <2>5 DEF SplitPage
    <2> HIDE DEF x, y
    <2> SUFFICES ASSUME NEW a \in Live \union {y}, NEW b \in Live \union {y}, P[a].type = "leaf", P[b].type = "leaf",
                        a # b
                 PROVE  P[a].hi <= P[b].lo \/ P[b].hi <= P[a].lo
      BY <2>1 DEF Apart
    <2>8. ASSUME NEW c \in Live \ {x}, Q[c].type = "leaf", Q[x].type = "leaf"
          PROVE  /\ Q[c].hi <= Q[x].lo \/ Q[x].hi <= Q[c].lo
                 /\ Q[c].lo \in Int /\ Q[c].hi \in Int /\ P[c] = Q[c]
      BY <1>1, <1>2, <2>1, <2>2, <2>8 DEF Apart
    <2>9. Q[x].lo \in Int /\ Q[x].hi \in Int
      BY <1>2, <2>2
    <2>10. CASE a \in {x, y} /\ b \in {x, y}
      BY <2>6, <2>7, <2>10
    <2>11. CASE a \in {x, y} /\ b \notin {x, y}
      <3>1. b \in Live \ {x} /\ P[b] = Q[b]
        BY <1>1, <2>1, <2>11
      <3> QED BY <2>6, <2>7, <2>8, <2>9, <2>11, <3>1
    <2>12. CASE a \notin {x, y} /\ b \in {x, y}
      <3>1. a \in Live \ {x} /\ P[a] = Q[a]
        BY <1>1, <2>1, <2>12
      <3> QED BY <2>6, <2>7, <2>8, <2>9, <2>12, <3>1
    <2>13. CASE a \notin {x, y} /\ b \notin {x, y}
      <3>1. a \in Live /\ b \in Live /\ P[a] = Q[a] /\ P[b] = Q[b]
        BY <1>1, <2>1, <2>13
      <3> QED BY <1>1, <3>1 DEF Apart
    <2> QED BY <2>10, <2>11, <2>12, <2>13
  <1> QED BY <1>3, <1>4, <1>5 DEF Edit

\* Every step leaves one leaf for every key.
LEMMA EditSpread ==
  ASSUME Running, Running', NEW Q \in [Addr -> NodeT], NEW P \in [Addr -> NodeT], Stored(Q), Stored(P)',
         Rooted, Linked(Q, Live, root_, Halves), Fenced(Q, Live, root_, SplitC, SplitR), OnTheWay(Q), Spread(Q),
         [Next]_vars, Edit(Q, P)
  PROVE  Spread(P)'
  BY EditRoot, EditHeight, EditApart DEF Spread

-----------------------------------------------------------------------------
(* The theorems about what is in the pages *)

\* An assignment of pages with fence keys that agree, the walk on its way, room for it and
\* one leaf for every key.
Sound(Q) ==
  /\ Stored(Q) /\ Rooted /\ Linked(Q, Live, root_, Halves)
  /\ Fenced(Q, Live, root_, SplitC, SplitR) /\ OnTheWay(Q) /\ Room(Q) /\ Spread(Q)
FencesHold == pc # "aborted" => \E Q \in [Addr -> NodeT] : Sound(Q)

FenceInv == ContInv /\ FencesHold /\ Sized

\* The constructor makes one empty leaf without limits.
LEMMA FenceInit == Init => FenceInv
  <1> SUFFICES ASSUME Init PROVE FenceInv
    OBVIOUS
  <1>1. ContInv
    BY ContInit
  <1>2. /\ PoolInit /\ pc = "visit" /\ cur = Super /\ root_ = 1 /\ cur_offset = 2 /\ ~retry
        /\ node = [s \in Slot |-> Zeroed] /\ adm = NoPage
        /\ backend = [a \in Addr |-> IF a = 1 THEN Image(Leaf(<<>>, MinLimit, MaxLimit), TRUE)
                                              ELSE Image(Zeroed, FALSE)]
    BY DEF Init
  <1>3. PICK Q \in [Addr -> NodeT] : Stored(Q) /\ Rooted /\ Linked(Q, Live, root_, Halves)
    BY InitStored
  <1>4. Live = {1} /\ 1 \in Addr /\ SplitC = NullAddr /\ NullAddr # 1
    BY <1>2, SlotsAreNoAddresses DEF Live, SplitC, NullAddr
  <1>5. Q[1] = WithParent(Leaf(<<>>, MinLimit, MaxLimit), NoSlot)
    <2>1. Used = {}
      BY <1>2 DEF PoolInit, Used, InUse
    <2>2. backend[1].node = Q[1]
      BY <1>2, <1>3, <1>4, <2>1 DEF Stored, UncachedPages, Cached
    <2>3. backend[1] = Image(Leaf(<<>>, MinLimit, MaxLimit), TRUE)
      BY <1>2, <1>4
    <2> QED BY <2>2, <2>3 DEF Image
  <1>6. /\ Q[1].type = "leaf" /\ Q[1].level = 0 /\ Q[1].data = <<>> /\ Q[1].keys = <<>> /\ Q[1].kids = <<>>
        /\ Q[1].bitmap = {} /\ Q[1].lo = MinLimit /\ Q[1].hi = MaxLimit
    BY <1>5 DEF WithParent, Leaf
  <1>7. PageOK(Q[1])
    <2>1. MinLimit < MaxLimit
      BY TreeAssumption DEF MinLimit, MaxLimit
    <2>2. Len(Q[1].keys) = 0 /\ DOMAIN Q[1].data = {}
      BY <1>6
    <2>3. Ordered(Q[1])
      BY <2>2 DEF Ordered
    <2> QED BY <1>6, <2>1, <2>2, <2>3 DEF PageOK, Shape
  <1>8. Len(Q[1].kids) = 0
    BY <1>6
  <1>9. Fenced(Q, Live, root_, SplitC, SplitR)
    BY <1>2, <1>4, <1>6, <1>7, <1>8 DEF Fenced, HiOf
  <1>10. OnTheWay(Q)
    BY <1>2 DEF OnTheWay
  <1>11. \A a \in Addr : Small(backend[a].node) /\ Fit(backend[a].node)
    <2>1. ASSUME NEW n, Blank(n), NEW d PROVE Small(Image(n, d).node)
      <3>1. Image(n, d).node.keys = <<>> /\ Image(n, d).node.bitmap = {}
        BY <2>1, NodeEdits DEF Image, Blank
      <3> QED BY <3>1, BlankSmall
    <2>2. Small(Image(Zeroed, FALSE).node) /\ Small(Image(Leaf(<<>>, MinLimit, MaxLimit), TRUE).node)
      BY <2>1, FreshNodes
    <2>3. Image(Zeroed, FALSE).node.data = <<>> /\ Image(Leaf(<<>>, MinLimit, MaxLimit), TRUE).node.data = <<>>
      BY DEF Image, WithParent, Zeroed, Leaf
    <2>4. Cardinality(DOMAIN <<>>) = 0 /\ 0 <= LeafMax
      <3>1. DOMAIN <<>> = {}
        OBVIOUS
      <3> QED BY <3>1, FS_EmptySet, TreeAssumption
    <2>5. ASSUME NEW n, Small(n), n.data = <<>> PROVE Fit(n)
      BY <2>4, <2>5 DEF Small, Fit
    <2>6. Fit(Image(Zeroed, FALSE).node) /\ Fit(Image(Leaf(<<>>, MinLimit, MaxLimit), TRUE).node)
      BY <2>2, <2>3, <2>5
    <2> QED BY <1>2, <2>2, <2>6
  <1>12. Sized
    <2>1. Small(Zeroed)
      BY FreshNodes, BlankSmall DEF Blank
    <2> QED BY <1>2, <1>11, <2>1 DEF Sized, NoPage
  <1>13. Room(Q)
    <2>1. Used = {}
      BY <1>2 DEF PoolInit, Used, InUse
    <2>2. \A a \in Addr : Q[a] = backend[a].node
      BY <1>2, <1>3, <2>1 DEF Stored, UncachedPages, Cached
    <2> QED BY <1>2, <1>11, <2>2 DEF Room
  <1>14. Spread(Q)
    <2>1. Apart(Q)
      BY <1>4 DEF Apart
    <2> QED BY <1>2, <1>6, <2>1 DEF Spread
  <1> QED BY <1>1, <1>3, <1>9, <1>10, <1>12, <1>13, <1>14 DEF FenceInv, FencesHold, Sound

\* Every step leads to such pages, by an edit of those there were.
LEMMA SoundStep ==
  ASSUME Running, Running', OnlyHotDirty, NEW Q \in [Addr -> NodeT], Sound(Q), [Next]_vars, NoDanglingRef', Fits'
  PROVE  \E P \in [Addr -> NodeT] : Sound(P)' /\ Edit(Q, P)
  <1>1. /\ Stored(Q) /\ Rooted /\ Linked(Q, Live, root_, Halves)
        /\ Fenced(Q, Live, root_, SplitC, SplitR) /\ OnTheWay(Q) /\ Room(Q) /\ Spread(Q)
    BY DEF Sound
  <1>2. PICK P \in [Addr -> NodeT] : Stored(P)' /\ Rooted' /\ Edit(Q, P)
    BY <1>1, NextStored
  <1>3. Linked(P, Live', root_', Halves')
    BY <1>1, <1>2, EditLinked
  <1>4. Linked(P, Live', root_', Halves') <=> Linked(P, Live, root_, Halves)'
    BY DEF Linked
  <1>5. Fenced(P, Live', root_', SplitC', SplitR')
    BY <1>1, <1>2, EditFenced
  <1>6. Fenced(P, Live', root_', SplitC', SplitR') <=> Fenced(P, Live, root_, SplitC, SplitR)'
    BY DEF Fenced, KidFits, HiOf
  <1>7. OnTheWay(P)'
    BY <1>1, <1>2, EditOnTheWay
  <1>8. Room(P)'
    BY <1>1, <1>2, <1>5, EditRoom
  <1>9. Spread(P)'
    BY <1>1, <1>2, EditSpread
  <1> QED BY <1>2, <1>3, <1>4, <1>5, <1>6, <1>7, <1>8, <1>9 DEF Sound

\* A process that runs on has not aborted before.
LEMMA StillRunning ==
  ASSUME ContInv, ContInv', [Next]_vars, pc' # "aborted"
  PROVE  Running /\ Running' /\ OnlyHotDirty
  <1>1. ASSUME pc = "aborted" PROVE FALSE
    <2>1. UNCHANGED vars
      BY <1>1, AbortedStays DEF ContInv
    <2> QED BY <1>1, <2>1 DEF vars, treeVars
  <1> QED BY <1>1 DEF Running, ContInv, PoolInv

\* Every step keeps it.
LEMMA FenceNext == FenceInv /\ [Next]_vars /\ NoDanglingRef' /\ Fits' => FenceInv'
  <1> SUFFICES ASSUME FenceInv, [Next]_vars, NoDanglingRef', Fits' PROVE FenceInv'
    OBVIOUS
  <1>0. ContInv
    BY DEF FenceInv
  <1>1. ContInv'
    BY <1>0, ContNext
  <1>2. CASE pc' = "aborted"
    <2>1. UNCHANGED <<node, backend, adm>>
      BY <1>0, <1>2, AbortKeeps DEF ContInv
    <2>2. Sized'
      BY <2>1 DEF FenceInv, Sized, Small
    <2> QED BY <1>1, <1>2, <2>2 DEF FenceInv, FencesHold
  <1>3. CASE pc' # "aborted"
    <2>1. Running /\ Running' /\ OnlyHotDirty
      BY <1>0, <1>1, <1>3, StillRunning
    <2>2. PICK Q \in [Addr -> NodeT] : Sound(Q)
      BY <2>1 DEF FenceInv, FencesHold, Running
    <2>3. PICK P \in [Addr -> NodeT] : Sound(P)' /\ Edit(Q, P)
      BY <2>1, <2>2, SoundStep
    <2>4. Sized'
      BY <2>1, <2>3, SizedNext DEF FenceInv, Sound
    <2> QED BY <1>1, <2>3, <2>4 DEF FenceInv, FencesHold
  <1> QED BY <1>2, <1>3

\* What the assertion of sample_page compares is right for every child whose page is
\* not being split.
LEMMA FencedChild ==
  ASSUME Running, NEW Q \in [Addr -> NodeT], Stored(Q), Rooted,
         Fenced(Q, Live, root_, SplitC, SplitR), NEW s \in Used, NEW c \in Swizzled(node[s]),
         ~(Splitting /\ c = child)
  PROVE  ParentChildInfo(node[s], c, node[c], remote_address[c])
  <1> DEFINE x == remote_address[s]
             y == remote_address[c]
             i == findIdx(node[s], c)
  <1>1. Wiring /\ c \in Used /\ c \in Slot /\ s \in Slot
    BY RunningFacts DEF Used
  <1>2. /\ x \in Live /\ node[s] \in NodeT /\ SameText(Q[x], node[s])
        /\ \A j \in 1 .. Len(node[s].kids) : Q[x].kids[j] = At(node[s].kids[j], remote_address)
    BY CopyOf
  <1>3. y \in Live /\ node[c] \in NodeT /\ SameText(Q[y], node[c])
    BY <1>1, CopyOf
  <1>4. i \in DOMAIN node[s].kids /\ node[s].kids[i] = c /\ i # 0
    BY <1>1, <1>2, FindIdxFacts DEF Tagged
  <1>5. i \in 1 .. Len(node[s].kids) /\ i \in 1 .. Len(Q[x].kids) /\ Q[x].kids[i] = y
    BY <1>1, <1>2, <1>4, NodeSeqs DEF SameText, At
  <1>6. y # SplitC
    <2>1. CASE pc \in {"sib", "link"}
      <3>1. child \in Used /\ c # child
        BY <2>1, ChildPage DEF Splitting
      <3>2. y # remote_address[child]
        BY <1>1, <3>1, CopyOf
      <3> QED BY <2>1, <3>2 DEF SplitC
    <2>2. CASE pc \notin {"sib", "link"}
      BY <1>3, <2>2, LiveAddrs DEF SplitC
    <2> QED BY <2>1, <2>2
  <1>7. PageOK(Q[x]) /\ KidFits(Q, x, i, SplitC, SplitR) /\ Q[x] \in NodeT
    BY <1>2, <1>5, LiveAddrs DEF Fenced
  <1>8. Q[y].level + 1 = Q[x].level /\ Q[y].lo = KidLo(Q[x], i) /\ Q[y].hi = KidHi(Q[x], i)
    BY <1>5, <1>6, <1>7 DEF KidFits, HiOf
  <1>9. Q[x].type = "inner"
    <2>1. Q[x].type = "leaf" => Len(Q[x].kids) = 0
      BY <1>7 DEF PageOK, Shape
    <2> QED BY <1>5, <1>7, <2>1 DEF PageOK
  <1>10. /\ KidLo(Q[x], i) \in Int /\ KidHi(Q[x], i) \in Int
         /\ Q[x].lo <= KidLo(Q[x], i) /\ KidHi(Q[x], i) <= Q[x].hi /\ Q[x].lo \in Int /\ Q[x].hi \in Int
    BY <1>5, <1>7, <1>9, KidLimits, NodeSeqs
  <1>11. LimitsMatch(node[s], node[c], i)
    BY <1>2, <1>3, <1>8 DEF SameText, KidLo, KidHi, LimitsMatch
  <1>12. /\ node[s].level = node[c].level + 1 /\ node[c].lo >= node[s].lo /\ node[c].hi <= node[s].hi
    BY <1>2, <1>3, <1>8, <1>10 DEF SameText
  <1> QED BY <1>4, <1>11, <1>12 DEF ParentChildInfo

\* For all of them at once.
LEMMA FenceImplies == FenceInv => FenceKeysAgree
  <1> SUFFICES ASSUME FenceInv, Sane, NEW s \in InUseInner, NEW c \in Swizzled(node[s]),
                      ~(Splitting /\ c = child)
               PROVE  ParentChildInfo(node[s], c, node[c], remote_address[c])
    BY DEF FenceKeysAgree
  <1>1. Running /\ s \in Used
    BY DEF Running, FenceInv, ContInv, Sane, InUseInner, Used
  <1>2. PICK Q \in [Addr -> NodeT] : Stored(Q) /\ Rooted /\ Fenced(Q, Live, root_, SplitC, SplitR)
    BY DEF FenceInv, FencesHold, Sane, Sound
  <1> QED BY <1>1, <1>2, FencedChild

\* The limits, the level and the place of every swizzled child are those the assertion
\* of sample_page checks, but for the page whose split its parent has not been told of.
THEOREM FenceKeysSound == Spec /\ []NoDanglingRef /\ []Fits => []FenceKeysAgree
  BY FenceInit, FenceNext, FenceImplies, PTL DEF Spec

\* So the assertion fails on that page only.
THEOREM OnlySplitPagesAssert ==
  Spec /\ []NoDanglingRef /\ []Fits => [][\A s \in Slot : SampleAssert(s) => Splitting /\ s = child]_vars
  <1>1. FenceInv => \A s \in Slot : SampleAssert(s) => Splitting /\ s = child
    <2> SUFFICES ASSUME FenceInv, NEW s \in Slot, SampleAssert(s), ~(Splitting /\ s = child) PROVE FALSE
      OBVIOUS
    <2>1. /\ phase = "sample" /\ s \in HotSlots /\ node[s].parent \in Slot
          /\ findIdx(node[node[s].parent], s) # 0
          /\ ~ParentChildInfo(node[node[s].parent], s, node[s], remote_address[s])
      BY DEF SampleAssert, Sampled, Parent
    <2>2. pc # "aborted"
      BY <2>1 DEF FenceInv, ContInv, WireInv, PcPhase
    <2>3. Running
      BY <2>2 DEF Running, FenceInv, ContInv
    <2>4. PICK Q \in [Addr -> NodeT] : Stored(Q) /\ Rooted /\ Fenced(Q, Live, root_, SplitC, SplitR)
      BY <2>2 DEF FenceInv, FencesHold, Sound
    <2>5. s \in Swizzled(node[node[s].parent])
      <3>1. node[node[s].parent] \in NodeT
        BY <2>1, <2>3, RunningFacts
      <3> QED BY <2>1, <3>1, FindIdxFacts
    <2>6. node[s].parent \in Used
      <3>1. Wiring /\ s \in Used
        BY <2>1, <2>3, RunningFacts DEF HotSlots, Used, InUse
      <3>2. Super \notin Slot /\ NoSlot \notin Slot
        BY SlotAssumption, TreeAssumption
      <3> QED BY <2>1, <3>1, <3>2 DEF Wiring, Anchored, AdmHere, ChildHere, CurHere
    <2> QED BY <2>1, <2>3, <2>4, <2>5, <2>6, FencedChild
  <1> QED BY FenceInit, FenceNext, <1>1, PTL DEF Spec

\* What the types, the shapes and the sizes come to.
LEMMA FenceTypes == FenceInv => TreeTypeOK
  <1> SUFFICES ASSUME FenceInv PROVE TreeTypeOK
    OBVIOUS
  <1>1. TreeTypes /\ Shapes /\ Sized
    BY DEF FenceInv, ContInv, WireInv
  <1>2. ASSUME NEW n \in NodeT, Shape(n), Small(n) PROVE NodeOK(n)
    <2>1. /\ n.type \in {"none", "leaf", "inner"} /\ n.level \in Nat
          /\ n.parent \in Slot \union {NoSlot, Super}
          /\ n.lo \in MinLimit .. MaxLimit /\ n.hi \in MinLimit .. MaxLimit
      BY DEF NodeT
    <2>2. DOMAIN n.data \subseteq Key
      <3>1. PICK K \in SUBSET Key : n.data \in [K -> Val]
        BY DEF NodeT, DataT
      <3> QED BY <3>1
    <2>3. \A i \in DOMAIN n.kids : RefOK(n.kids[i])
      BY NodeSeqs DEF RefOK, Ref
    <2> QED BY <1>2, <2>1, <2>2, <2>3 DEF NodeOK, Shape, Small
  <1>3. \A s \in Slot : NodeOK(node[s])
    BY <1>1, <1>2 DEF TreeTypes, Shapes, Sized
  <1>4. \A a \in Addr : NodeOK(backend[a].node) /\ backend[a].dirty \in BOOLEAN
    <2> SUFFICES ASSUME NEW a \in Addr PROVE NodeOK(backend[a].node) /\ backend[a].dirty \in BOOLEAN
      OBVIOUS
    <2>1. backend[a].node \in NodeT /\ backend[a].dirty \in BOOLEAN
      BY <1>1 DEF TreeTypes
    <2> QED BY <1>1, <1>2, <2>1 DEF Shapes, Sized
  <1>5. NodeOK(adm.node) /\ adm.addr \in Addr
    BY <1>1, <1>2 DEF TreeTypes, Shapes, Sized
  <1>6. cur_offset \in 0 .. BackendPages
    BY <1>1 DEF TreeTypes
  <1>7. RefOK(super) /\ RefOK(right)
    BY <1>1 DEF TreeTypes, RefOK, Ref
  <1> QED BY <1>1, <1>3, <1>4, <1>5, <1>6, <1>7 DEF TreeTypes, TreeTypeOK

\* No inner node ever takes more separators than isFull allows for: insert finds room in
\* the parent of every page it splits, though it tests for it one page earlier and does
\* not test the half it goes on to.
THEOREM TreeTypesSound == Spec /\ []NoDanglingRef /\ []Fits => []TreeTypeOK
  BY FenceInit, FenceNext, FenceTypes, PTL DEF Spec

-----------------------------------------------------------------------------
(* Walks from the root *)

\* The walks Descend follows, one step of it, and the entries it comes to if f is what
\* the rest of it does.
Walks(at) == (0 .. BackendPages) \X DOMAIN at
NextRef(at, k, x) == at[x].kids[lowerBound(at[x], k)]
Reach(f, at, k, w) ==
  IF at[w[2]].type # "inner" \/ w[1] = 0 THEN at[w[2]].data
  ELSE f[<<w[1] - 1, NextRef(at, k, w[2])>>]
Following(f, at, k) == [w \in Walks(at) |-> Reach(f, at, k, w)]
\* No reference leads out of the store.
Closed(at, k) == \A x \in DOMAIN at : at[x].type = "inner" => NextRef(at, k, x) \in DOMAIN at

\* The recursion ends: there is a function that follows it.
LEMMA WalkExists ==
  ASSUME NEW at, NEW k, Closed(at, k)
  PROVE  \E f : f = Following(f, at, k)
  <1> DEFINE V == {at[x].data : x \in DOMAIN at}
             Upto(n) == {f \in [Walks(at) -> V] :
                           \A w \in Walks(at) : w[1] <= n => f[w] = Reach(f, at, k, w)}
             T == {n \in Nat : Upto(n) = {}}
  <1>0. BackendPages \in Nat
    BY AddrAssumption
  <1>1. \A w \in Walks(at) : w[1] \in 0 .. BackendPages /\ w[2] \in DOMAIN at
    BY DEF Walks
  <1>2. \A w \in Walks(at) : at[w[2]].data \in V
    BY <1>1
  <1>3. \A w \in Walks(at) : at[w[2]].type = "inner" /\ w[1] # 0 =>
          /\ <<w[1] - 1, NextRef(at, k, w[2])>> \in Walks(at)
          /\ <<w[1] - 1, NextRef(at, k, w[2])>>[1] = w[1] - 1
    BY <1>0, <1>1 DEF Closed, Walks
  <1>4. T = {}
    <2> SUFFICES ASSUME T # {} PROVE FALSE
      OBVIOUS
    <2>1. PICK n \in T : \A m \in T : n <= m
      BY LeastNumber
    <2>2. CASE n = 0
      <3> DEFINE f == [w \in Walks(at) |-> at[w[2]].data]
      <3>1. f \in [Walks(at) -> V]
        BY <1>2
      <3>2. \A w \in Walks(at) : w[1] <= 0 => w[1] = 0
        BY <1>0, <1>1
      <3>3. \A w \in Walks(at) : w[1] <= 0 => f[w] = Reach(f, at, k, w)
        BY <3>2 DEF Reach
      <3>4. f \in Upto(0)
        BY <3>1, <3>3
      <3> QED BY <2>2, <3>4
    <2>3. CASE n # 0
      <3>1. n \in Nat /\ n - 1 \in Nat /\ n - 1 \notin T
        BY <2>1, <2>3
      <3>2. PICK f \in Upto(n - 1) : TRUE
        BY <3>1
      <3>3. /\ f \in [Walks(at) -> V]
            /\ \A w \in Walks(at) : w[1] <= n - 1 => f[w] = Reach(f, at, k, w)
        BY <3>2
      <3> HIDE DEF T, Upto
      <3> DEFINE g == [w \in Walks(at) |-> IF w[1] = n THEN Reach(f, at, k, w) ELSE f[w]]
      <3>4. \A w \in Walks(at) : Reach(f, at, k, w) \in V
        <4> HIDE DEF V
        <4> QED BY <1>2, <1>3, <3>3 DEF Reach
      <3>5. g \in [Walks(at) -> V]
        <4> HIDE DEF V
        <4> QED BY <3>3, <3>4
      <3>6. \A w \in Walks(at) : w[1] # n => g[w] = f[w]
        OBVIOUS
      <3>7. \A w \in Walks(at) : w[1] = n => g[w] = Reach(f, at, k, w)
        OBVIOUS
      <3> HIDE DEF g
      <3>8. ASSUME NEW w \in Walks(at), w[1] <= n
            PROVE  g[w] = Reach(g, at, k, w)
        <4>1. Reach(g, at, k, w) = Reach(f, at, k, w)
          <5>1. CASE at[w[2]].type # "inner" \/ w[1] = 0
            BY <5>1 DEF Reach
          <5>2. CASE at[w[2]].type = "inner" /\ w[1] # 0
            <6> DEFINE v == <<w[1] - 1, NextRef(at, k, w[2])>>
            <6>1. v \in Walks(at) /\ v[1] = w[1] - 1
              BY <1>3, <5>2
            <6>2. v[1] # n
              BY <1>0, <1>1, <3>1, <3>8, <6>1
            <6>3. g[v] = f[v]
              BY <3>6, <6>1, <6>2
            <6> QED BY <5>2, <6>3 DEF Reach
          <5> QED BY <5>1, <5>2
        <4>2. CASE w[1] = n
          BY <3>7, <4>1, <4>2
        <4>3. CASE w[1] # n
          <5>1. w[1] <= n - 1
            BY <1>0, <1>1, <3>1, <3>8, <4>3
          <5> QED BY <3>3, <3>6, <4>1, <4>3, <5>1
        <4> QED BY <4>2, <4>3
      <3>9. g \in Upto(n)
        BY <3>5, <3>8 DEF Upto
      <3>10. Upto(n) = {}
        BY <2>1 DEF T
      <3> QED BY <3>9, <3>10
    <2> QED BY <2>2, <2>3
  <1>5. PICK f \in Upto(BackendPages) : TRUE
    BY <1>0, <1>4
  <1>6. f \in [Walks(at) -> V] /\ \A w \in Walks(at) : f[w] = Reach(f, at, k, w)
    BY <1>0, <1>1, <1>5
  <1>7. f = Following(f, at, k)
    BY <1>6 DEF Following
  <1> QED BY <1>7

\* A walk through G, in which every page is one level below the last, ends with the
\* entries of a leaf of G.
LEMMA DescendFinds ==
  ASSUME NEW at, NEW k, Closed(at, k), NEW G, G \subseteq DOMAIN at, NEW r \in G,
         NEW lev, \A x \in G : lev[x] \in Nat /\ (at[x].type = "inner" => lev[x] # 0),
         \A x \in G : at[x].type = "inner" => NextRef(at, k, x) \in G /\ lev[NextRef(at, k, x)] + 1 = lev[x],
         lev[r] <= BackendPages
  PROVE  \E x \in G : at[x].type # "inner" /\ Descend(at, k, r) = at[x].data
  <1> DEFINE f == CHOOSE g : g = Following(g, at, k)
             Ends(x, d) == \E y \in G : at[y].type # "inner" /\ d = at[y].data
             T == {n \in Nat : \E w \in Walks(at) : w[2] \in G /\ lev[w[2]] <= w[1] /\ w[1] = n /\ ~Ends(w[2], f[w])}
  <1>0. BackendPages \in Nat
    BY AddrAssumption
  <1>1. Descend(at, k, r) = f[<<BackendPages, r>>]
    BY Zenon DEF Descend, Following, Walks, Reach, NextRef
  <1>2. f = Following(f, at, k)
    BY WalkExists, Zenon
  <1> HIDE DEF f
  <1>3. \A w \in Walks(at) : f[w] = Reach(f, at, k, w)
    BY <1>2 DEF Following
  <1>4. T = {}
    <2> SUFFICES ASSUME T # {} PROVE FALSE
      OBVIOUS
    <2>1. PICK n \in T : \A m \in T : n <= m
      BY LeastNumber
    <2>2. PICK w \in Walks(at) : w[2] \in G /\ lev[w[2]] <= w[1] /\ w[1] = n /\ ~Ends(w[2], f[w])
      BY <2>1
    <2>3. n \in Nat /\ n \in 0 .. BackendPages /\ n - 1 \notin T
      BY <2>1, <2>2 DEF Walks
    <2>4. CASE at[w[2]].type # "inner"
      BY <1>3, <2>2, <2>4 DEF Reach
    <2>5. CASE at[w[2]].type = "inner"
      <3> DEFINE y == NextRef(at, k, w[2])
                 v == <<n - 1, y>>
      <3>1. lev[w[2]] \in Nat /\ lev[w[2]] # 0 /\ y \in G /\ lev[y] + 1 = lev[w[2]] /\ lev[y] \in Nat
        BY <2>2, <2>5
      <3>2. n # 0 /\ n - 1 \in Nat /\ lev[y] <= n - 1 /\ n - 1 \in 0 .. BackendPages
        BY <1>0, <2>2, <2>3, <3>1
      <3>3. f[w] = f[v]
        BY <1>3, <2>2, <2>5, <3>2 DEF Reach
      <3>4. v \in Walks(at) /\ v[1] = n - 1 /\ v[2] = y
        BY <3>1, <3>2 DEF Walks
      <3> HIDE DEF y
      <3>5. Ends(y, f[v])
        BY <2>3, <3>1, <3>2, <3>4
      <3> QED BY <2>2, <3>3, <3>5
    <2> QED BY <2>4, <2>5
  <1> DEFINE u == <<BackendPages, r>>
  <1>5. u \in Walks(at) /\ u[1] = BackendPages /\ u[2] = r
    BY <1>0 DEF Walks
  <1>6. Ends(r, f[u])
    <2> SUFFICES ASSUME ~Ends(r, f[u]) PROVE FALSE
      OBVIOUS
    <2> HIDE DEF u, Ends
    <2>1. BackendPages \in T
      BY <1>0, <1>5
    <2> QED BY <1>4, <2>1
  <1> QED BY <1>1, <1>6

-----------------------------------------------------------------------------
(* What references refer to *)

\* The page that waits in adm is not in the backend.
Waiting(a) == pc \in {"sib", "root"} /\ a = adm.addr
\* n is the copy of page a that counts.
Holder(n, a) ==
  \/ \E s \in Used : n = node[s] /\ a = remote_address[s]
  \/ Waiting(a) /\ n = adm.node
  \/ ~Cached(a) /\ ~Waiting(a) /\ n = backend[a].node
\* A reference that leads to such a copy.
Proper(r) == r \in Used \/ (r \in Live /\ ~Cached(r) /\ ~Waiting(r))

\* There is one, and it says what the page does.
LEMMA HolderFacts ==
  ASSUME Running, NEW Q \in [Addr -> NodeT], Sound(Q), NEW a \in Live, NEW n, Holder(n, a)
  PROVE  /\ n \in NodeT /\ SameText(Q[a], n)
         /\ \A j \in 1 .. Len(n.kids) : Q[a].kids[j] = At(n.kids[j], remote_address)
         /\ \A m : Holder(m, a) => m = n
  <1>1. /\ Stored(Q) /\ a \in Addr /\ remote_address \in [Slot -> Addr] /\ node \in [Slot -> NodeT]
        /\ Used \in SUBSET Slot /\ adm.node \in NodeT /\ backend[a].node \in NodeT
    BY RunningFacts DEF Sound
  <1>2. n \in NodeT /\ Q[a] = Page(n, remote_address)
    <2>1. CASE \E s \in Used : n = node[s] /\ a = remote_address[s]
      BY <1>1, <2>1 DEF Stored, CachedPages
    <2>2. CASE Waiting(a) /\ n = adm.node
      BY <1>1, <2>2 DEF Stored, WaitingPage, Waiting
    <2>3. CASE ~Cached(a) /\ ~Waiting(a) /\ n = backend[a].node
      <3>1. n = Q[a] /\ Bare(n) /\ n \in NodeT
        BY <1>1, <2>3 DEF Stored, UncachedPages, Waiting
      <3> QED BY <1>1, <3>1, BarePage DEF Bare
    <2> QED BY <2>1, <2>2, <2>3 DEF Holder
  <1>3. ~Waiting(a) \/ ~Cached(a)
    BY <1>1 DEF Stored, WaitingPage, Waiting
  <1>4. \A m : Holder(m, a) => m = n
    BY <1>1, <1>3 DEF Holder, Cached, Stored, CachedPages
  <1> QED BY <1>1, <1>2, <1>4, PageFacts

\* What refers to a page in use.
LEMMA Anchors ==
  ASSUME Running, NEW Q \in [Addr -> NodeT], Sound(Q), NEW s \in Used
  PROVE  \/ \E a \in Live : \E n : Holder(n, a) /\ \E j \in 1 .. Len(n.kids) : n.kids[j] = s
         \/ pc # "root" /\ super = s /\ remote_address[s] = root_
         \/ pc = "link" /\ right = s /\ Halves = {remote_address[s]}
  <1> DEFINE Named == \E a \in Live : \E n : Holder(n, a) /\ \E j \in 1 .. Len(n.kids) : n.kids[j] = s
  <1>1. /\ Stored(Q) /\ Rooted /\ Wiring /\ Used \in SUBSET Slot /\ node \in [Slot -> NodeT] /\ adm.node \in NodeT
        /\ TreeTypes /\ s \in Slot
    BY RunningFacts DEF Sound
  <1>2. ASSUME NEW n \in NodeT, s \in Swizzled(n) PROVE \E j \in 1 .. Len(n.kids) : n.kids[j] = s
    BY <1>2, NodeSeqs DEF Swizzled
  <1>3. ASSUME pc \in {"sib", "root"}, s \in Swizzled(adm.node) PROVE Named
    <2>1. adm.addr \in Live /\ Holder(adm.node, adm.addr)
      BY <1>1, <1>3 DEF Stored, WaitingPage, Holder, Waiting
    <2> QED BY <1>1, <1>2, <1>3, <2>1
  <1>4. pc = "root" => cur = Super /\ super = child /\ Swizzled(adm.node) = {child, right} \cap Slot
    BY <1>1 DEF Wiring, CurHere, ChildHere, AdmHere
  <1>5. CASE pc = "sib" /\ s \in Swizzled(adm.node)
    BY <1>3, <1>5
  <1>6. CASE node[s].parent \in Used /\ s \in Swizzled(node[node[s].parent])
    <2> DEFINE p == node[s].parent
    <2>1. p \in Used /\ node[p] \in NodeT /\ s \in Swizzled(node[p])
      BY <1>1, <1>6
    <2> HIDE DEF p
    <2>2. remote_address[p] \in Live /\ Holder(node[p], remote_address[p])
      BY <1>1, <2>1 DEF Stored, CachedPages, Holder
    <2> QED BY <1>2, <2>1, <2>2
  <1>7. CASE super = s
    <2>1. CASE pc = "root"
      <3>1. s \in Swizzled(adm.node)
        BY <1>1, <1>4, <1>7, <2>1
      <3> QED BY <1>3, <2>1, <3>1
    <2>2. CASE pc # "root"
      BY <1>1, <1>7, <2>2 DEF Rooted, At
    <2> QED BY <2>1, <2>2
  <1>8. CASE pc \in {"link", "root"} /\ s = right
    <2>1. CASE pc = "root"
      <3>1. s \in Swizzled(adm.node)
        BY <1>1, <1>4, <1>8, <2>1
      <3> QED BY <1>3, <2>1, <3>1
    <2>2. CASE pc = "link"
      BY <1>1, <1>8, <2>2 DEF Halves, At
    <2> QED BY <1>8, <2>1, <2>2
  <1> HIDE DEF Named
  <1>9. \/ pc = "sib" /\ s \in Swizzled(adm.node)
        \/ node[s].parent \in Used /\ s \in Swizzled(node[node[s].parent])
        \/ super = s
        \/ pc \in {"link", "root"} /\ s = right
    BY <1>1 DEF Wiring, Anchored
  <1> QED BY <1>5, <1>6, <1>7, <1>8, <1>9 DEF Named

\* A page that is named by its address is not cached.
LEMMA NamedUncached ==
  ASSUME Running, NEW Q \in [Addr -> NodeT], Sound(Q), NEW b \in Live,
         \A a \in Live : \A n : Holder(n, a) => \A j \in 1 .. Len(n.kids) : At(n.kids[j], remote_address) = b => n.kids[j] = b,
         super \in Slot => root_ # b \/ pc = "root", right \in Slot => b \notin Halves
  PROVE  ~Cached(b)
  <1> SUFFICES ASSUME Cached(b) PROVE FALSE
    OBVIOUS
  <1>1. PICK s \in Used : remote_address[s] = b
    BY DEF Cached
  <1>2. Used \in SUBSET Slot /\ Live \in SUBSET Addr /\ s \in Slot /\ b \notin Slot
    BY SlotsAreNoAddresses, RunningFacts
  <1>3. At(s, remote_address) = b
    BY <1>1, <1>2 DEF At
  <1>4. CASE \E a \in Live : \E n : Holder(n, a) /\ \E j \in 1 .. Len(n.kids) : n.kids[j] = s
    BY <1>2, <1>3, <1>4
  <1>5. CASE pc # "root" /\ super = s /\ remote_address[s] = root_
    BY <1>1, <1>2, <1>5
  <1>6. CASE pc = "link" /\ right = s /\ Halves = {remote_address[s]}
    BY <1>1, <1>2, <1>6
  <1> QED BY <1>4, <1>5, <1>6, Anchors

\* Every child of a page in the tree is one.
LEMMA KidProper ==
  ASSUME Running, NEW Q \in [Addr -> NodeT], Sound(Q), NEW a \in Live, NEW n, Holder(n, a), NEW i \in 1 .. Len(n.kids)
  PROVE  Proper(n.kids[i]) /\ At(n.kids[i], remote_address) = Q[a].kids[i] /\ i \in 1 .. Len(Q[a].kids)
  <1> DEFINE r == n.kids[i]
             b == Q[a].kids[i]
  <1>1. /\ Stored(Q) /\ Rooted /\ Wiring /\ Linked(Q, Live, root_, Halves) /\ Used \in SUBSET Slot
        /\ Live \in SUBSET Addr /\ \A x \in Addr : x \notin Slot
    BY RunningFacts, SlotsAreNoAddresses DEF Sound
  <1>2. n \in NodeT /\ SameText(Q[a], n) /\ b = At(r, remote_address) /\ i \in 1 .. Len(Q[a].kids)
    BY HolderFacts DEF SameText
  <1>3. b \in Live /\ b # root_ /\ b \notin Halves
    BY <1>1, <1>2 DEF Linked
  <1>4. r \in Ref /\ (r \in Slot => r \in Swizzled(n))
    BY <1>2, NodeSeqs DEF Swizzled
  <1>5. ASSUME r \in Slot PROVE Proper(r)
    <2>1. CASE \E s \in Used : n = node[s] /\ a = remote_address[s]
      BY <1>1, <1>4, <1>5, <2>1 DEF Wiring, Wires, Proper
    <2>2. CASE Waiting(a) /\ n = adm.node
      <3>1. CASE pc = "sib"
        BY <1>1, <1>4, <1>5, <2>2, <3>1 DEF Wiring, AdmHere, Proper
      <3>2. CASE pc = "root"
        BY <1>1, <1>4, <1>5, <2>2, <3>2 DEF Wiring, AdmHere, ChildHere, RightHere, Proper
      <3> QED BY <2>2, <3>1, <3>2 DEF Waiting
    <2>3. CASE n = backend[a].node
      BY <1>1, <1>4, <1>5, <2>3 DEF Stored, UncachedPages, Bare, Untagged
    <2> QED BY <1>2, <2>1, <2>2, <2>3 DEF Holder
  <1>6. CASE r \notin Slot
    <2>1. b = r
      BY <1>2, <1>6 DEF At
    <2>2. ~Waiting(b)
      <3>1. CASE pc = "sib"
        <4>1. right = adm.addr /\ right \notin Slot
          BY <1>1, <3>1 DEF Stored, WaitingPage, Wiring, AdmHere
        <4>2. Halves = {adm.addr}
          BY <3>1, <4>1 DEF Halves, At
        <4> QED BY <1>3, <4>2 DEF Waiting
      <3>2. CASE pc = "root"
        BY <1>1, <1>3, <3>2 DEF Rooted, Waiting
      <3> QED BY <3>1, <3>2 DEF Waiting
    <2>3. ASSUME NEW c \in Live, NEW m, Holder(m, c), NEW j \in 1 .. Len(m.kids), At(m.kids[j], remote_address) = b
          PROVE  m.kids[j] = b
      <3>1. j \in 1 .. Len(Q[c].kids) /\ Q[c].kids[j] = b
        BY <2>3, HolderFacts DEF SameText
      <3>2. c = a /\ i = j
        BY <1>1, <1>2, <3>1, NamedOnce
      <3>3. m = n
        BY <2>3, <3>2, HolderFacts
      <3> QED BY <2>1, <3>2, <3>3
    <2>4. ~Cached(b)
      BY <1>3, <2>3, NamedUncached
    <2> QED BY <1>2, <1>3, <2>1, <2>2, <2>4 DEF Proper
  <1> QED BY <1>2, <1>5, <1>6

\* So is the child of super_root_.
LEMMA SuperProper ==
  ASSUME Running, NEW Q \in [Addr -> NodeT], Sound(Q)
  PROVE  Proper(super)
  <1>1. /\ Stored(Q) /\ Rooted /\ Wiring /\ Linked(Q, Live, root_, Halves) /\ Used \in SUBSET Slot
        /\ Live \in SUBSET Addr /\ \A x \in Addr : x \notin Slot
    BY RunningFacts, SlotsAreNoAddresses DEF Sound
  <1>2. CASE super \in Slot
    BY <1>1, <1>2 DEF Wiring, Wires, Proper
  <1>3. CASE super \notin Slot
    <2>1. pc # "root"
      BY <1>1, <1>3 DEF Wiring, CurHere, ChildHere
    <2>2. super = root_ /\ root_ \in Live /\ root_ \notin Halves
      BY <1>1, <1>3, <2>1 DEF Rooted, At, Linked
    <2>3. ~Waiting(root_)
      <3>1. CASE pc = "sib"
        <4>1. right = adm.addr /\ right \notin Slot
          BY <1>1, <3>1 DEF Stored, WaitingPage, Wiring, AdmHere
        <4>2. Halves = {adm.addr}
          BY <3>1, <4>1 DEF Halves, At
        <4> QED BY <2>2, <4>2 DEF Waiting
      <3> QED BY <2>1, <3>1 DEF Waiting
    <2>4. ASSUME NEW c \in Live, NEW m, Holder(m, c), NEW j \in 1 .. Len(m.kids), At(m.kids[j], remote_address) = root_
          PROVE  m.kids[j] = root_
      <3>1. j \in 1 .. Len(Q[c].kids) /\ Q[c].kids[j] = root_
        BY <2>4, HolderFacts DEF SameText
      <3> QED BY <1>1, <3>1 DEF Linked
    <2>5. ~Cached(root_)
      BY <1>3, <2>2, <2>4, NamedUncached
    <2> QED BY <2>2, <2>3, <2>5 DEF Proper
  <1> QED BY <1>2, <1>3

\* And the half of a split that has its place.
LEMMA RightProper ==
  ASSUME Running, NEW Q \in [Addr -> NodeT], Sound(Q), pc \in {"link", "root"}
  PROVE  Proper(right)
  <1>1. /\ Stored(Q) /\ Rooted /\ Wiring /\ Linked(Q, Live, root_, Halves) /\ Used \in SUBSET Slot
        /\ Live \in SUBSET Addr /\ \A x \in Addr : x \notin Slot
    BY RunningFacts, SlotsAreNoAddresses DEF Sound
  <1>2. CASE right \in Slot
    BY <1>1, <1>2 DEF Wiring, RightHere, Proper
  <1>3. CASE right \notin Slot /\ pc = "link"
    <2>1. Halves = {right} /\ right \in Live /\ right # root_
      BY <1>1, <1>3 DEF Halves, At, Linked
    <2>2. ASSUME NEW c \in Live, NEW m, Holder(m, c), NEW j \in 1 .. Len(m.kids), At(m.kids[j], remote_address) = right
          PROVE  m.kids[j] = right
      <3>1. j \in 1 .. Len(Q[c].kids) /\ Q[c].kids[j] = right
        BY <2>2, HolderFacts DEF SameText
      <3> QED BY <1>1, <2>1, <3>1 DEF Linked
    <2>3. ~Cached(right)
      BY <1>3, <2>1, <2>2, NamedUncached
    <2> QED BY <1>3, <2>1, <2>3 DEF Proper, Waiting
  <1>4. CASE right \notin Slot /\ pc = "root"
    <2>1. Holder(adm.node, root_) /\ root_ \in Live /\ root_ = adm.addr
      BY <1>1, <1>4 DEF Holder, Waiting, Rooted, Linked
    <2>2. Q[root_].kids = <<remote_address[child], right>>
      BY <1>4 DEF Sound, Spread, At
    <2>3. Len(Q[root_].kids) = 2 /\ Q[root_].kids[1] = remote_address[child] /\ Q[root_].kids[2] = right
      BY <2>2
    <2>4. adm.node \in NodeT /\ Len(adm.node.kids) = 2
      BY <2>1, <2>3, HolderFacts DEF SameText
    <2> DEFINE r == adm.node.kids[2]
    <2>5. Proper(r) /\ At(r, remote_address) = right
      BY <2>1, <2>3, <2>4, KidProper
    <2>6. CASE r \in Slot
      <3>1. r \in Swizzled(adm.node)
        BY <2>4, <2>6, NodeSeqs DEF Swizzled
      <3>2. r = child
        BY <1>1, <1>4, <2>6, <3>1 DEF Wiring, AdmHere
      <3>3. Q[root_].kids[1] = Q[root_].kids[2]
        BY <2>3, <2>5, <2>6, <3>2 DEF At
      <3>4. 1 = 2
        BY <1>1, <2>1, <2>3, <3>3, NamedOnce
      <3> QED BY <3>4
    <2>7. CASE r \notin Slot
      BY <2>5, <2>7 DEF At
    <2> QED BY <2>6, <2>7
  <1> QED BY <1>2, <1>3, <1>4

\* The page whose entries a walk for k finds at r: the new half of a split page for the
\* keys that are in it.
Stand(k, r) ==
  IF Splitting /\ r = child /\ k > sep THEN At(right, remote_address) ELSE At(r, remote_address)
Within(n, k) == n.lo < k /\ k <= n.hi

\* The walk reads a copy of that page.
LEMMA StandHolder ==
  ASSUME Running, NEW Q \in [Addr -> NodeT], Sound(Q), NEW k, NEW r, Proper(r)
  PROVE  r \in Ref /\ Stand(k, r) \in Live /\ Holder(PageFor(k)[r], Stand(k, r))
  <1>1. /\ Stored(Q) /\ Wiring /\ Used \in SUBSET Slot /\ Live \in SUBSET Addr /\ \A x \in Addr : x \notin Slot
    BY RunningFacts, SlotsAreNoAddresses DEF Sound
  <1>2. ASSUME NEW x, Proper(x)
        PROVE  x \in Ref /\ At(x, remote_address) \in Live /\ Holder(Contents(x), At(x, remote_address))
    <2>1. CASE x \in Used
      BY <1>1, <2>1 DEF Ref, At, Contents, Holder, Stored, CachedPages
    <2>2. CASE x \in Live /\ ~Cached(x) /\ ~Waiting(x)
      BY <1>1, <2>2 DEF Ref, At, Contents, Holder
    <2> QED BY <1>2, <2>1, <2>2 DEF Proper
  <1>3. PageFor(k)[r] = IF Splitting /\ r = child /\ k > sep THEN RightHalf ELSE Contents(r)
    BY <1>2 DEF PageFor, Ref
  <1>4. CASE ~(Splitting /\ r = child /\ k > sep)
    BY <1>2, <1>3, <1>4 DEF Stand
  <1>5. CASE (Splitting /\ r = child /\ k > sep) /\ pc = "sib"
    <2>1. right = adm.addr /\ right \notin Slot /\ adm.addr \in Live
      BY <1>1, <1>5 DEF Stored, WaitingPage, Wiring, AdmHere
    <2>2. Stand(k, r) = adm.addr /\ PageFor(k)[r] = adm.node
      BY <1>3, <1>5, <2>1 DEF Stand, At, RightHalf
    <2> QED BY <1>2, <1>5, <2>1, <2>2 DEF Holder, Waiting
  <1>6. CASE (Splitting /\ r = child /\ k > sep) /\ pc # "sib"
    <2>1. Proper(right)
      BY <1>6, RightProper DEF Splitting
    <2>2. Stand(k, r) = At(right, remote_address) /\ PageFor(k)[r] = Contents(right)
      BY <1>3, <1>6 DEF Stand, RightHalf
    <2> QED BY <1>2, <2>1, <2>2
  <1> QED BY <1>4, <1>5, <1>6

\* A reference that is the child in hand, and the page of that child, are the same thing.
LEMMA ChildRefs ==
  ASSUME Running, NEW Q \in [Addr -> NodeT], Sound(Q), NEW r, Proper(r), Splitting
  PROVE  r = child <=> At(r, remote_address) = remote_address[child]
  <1>1. /\ Stored(Q) /\ child \in Used /\ Used \in SUBSET Slot /\ Live \in SUBSET Addr /\ \A x \in Addr : x \notin Slot
    BY RunningFacts, SlotsAreNoAddresses DEF Sound, Wiring, ChildHere, Splitting
  <1>2. CASE r \in Used
    BY <1>1, <1>2 DEF At, Stored, CachedPages
  <1>3. CASE r \in Live /\ ~Cached(r)
    BY <1>1, <1>3 DEF At, Cached
  <1> QED BY <1>2, <1>3 DEF Proper

\* Where the limits of a reference hold the key, those of the page do.
LEMMA Enters ==
  ASSUME Running, NEW Q \in [Addr -> NodeT], Sound(Q), NEW k \in Key, NEW r, Proper(r), NEW b,
         b = At(r, remote_address), Q[b].lo < k, k <= HiOf(Q, b, SplitC, SplitR),
         pc = "root" => b # remote_address[child]
  PROVE  /\ Within(Q[Stand(k, r)], k) /\ Q[Stand(k, r)].level = Q[b].level
         /\ pc = "root" => Stand(k, r) = b
  <1>1. /\ b \in Live /\ b \in Addr /\ b # NullAddr /\ k \in Int
    <2>1. k \in Int
      BY TreeAssumption DEF Key
    <2>2. b \in Live
      BY RunningFacts, SlotsAreNoAddresses DEF Proper, Sound, Stored, CachedPages, At
    <2> QED BY <2>1, <2>2, LiveAddrs
  <1>2. CASE ~Splitting \/ r # child
    <2>1. Stand(k, r) = b
      BY <1>2 DEF Stand
    <2>2. b # SplitC
      <3>1. CASE pc \in {"sib", "link"}
        <4>1. Splitting /\ SplitC = remote_address[child]
          BY <3>1 DEF Splitting, SplitC
        <4> QED BY <1>2, <4>1, ChildRefs
      <3>2. CASE pc \notin {"sib", "link"}
        BY <1>1, <3>2 DEF SplitC
      <3> QED BY <3>1, <3>2
    <2> QED BY <2>1, <2>2 DEF HiOf, Within
  <1>3. CASE Splitting /\ r = child
    <2>1. pc \in {"sib", "link"} /\ b = remote_address[child]
      BY <1>3, ChildRefs DEF Splitting
    <2>2. /\ SplitC = b /\ SplitR = At(right, remote_address) /\ sep = Q[b].hi
      BY <2>1 DEF SplitC, SplitR, Sound, OnTheWay
    <2>3. Q[SplitR].lo = Q[b].hi /\ Q[SplitR].level = Q[b].level
      BY <1>1, <2>2 DEF Sound, Fenced
    <2>4. k <= Q[SplitR].hi
      BY <2>2 DEF HiOf
    <2>5. Q[b].hi \in Int
      BY <1>1, NodeSeqs
    <2>6. CASE k > sep
      BY <1>1, <1>3, <2>1, <2>2, <2>3, <2>4, <2>5, <2>6 DEF Stand, Within
    <2>7. CASE ~(k > sep)
      BY <1>1, <1>3, <2>1, <2>2, <2>5, <2>7 DEF Stand, Within
    <2> QED BY <2>6, <2>7
  <1> QED BY <1>2, <1>3

\* The walk begins within the limits of the root.
LEMMA EntersRoot ==
  ASSUME Running, NEW Q \in [Addr -> NodeT], Sound(Q), NEW k \in Key
  PROVE  /\ Within(Q[Stand(k, super)], k) /\ Q[Stand(k, super)].level <= Q[root_].level
         /\ pc = "root" => Stand(k, super) # root_
  <1>1. /\ Rooted /\ Wiring /\ Fenced(Q, Live, root_, SplitC, SplitR) /\ Linked(Q, Live, root_, Halves)
        /\ Live \in SUBSET Addr /\ root_ \in Live
    BY RunningFacts DEF Sound, Linked
  <1>2. k \in Int /\ MinLimit < k /\ k <= MaxLimit
    BY TreeAssumption DEF Key, MinLimit, MaxLimit
  <1>3. \A a \in Addr : Q[a].level \in Nat
    BY DEF NodeT
  <1>4. CASE pc # "root"
    <2>1. At(super, remote_address) = root_
      BY <1>1, <1>4 DEF Rooted
    <2>2. Q[Stand(k, super)].level = Q[root_].level /\ Within(Q[Stand(k, super)], k)
      BY <1>1, <1>2, <1>4, <2>1, SuperProper, Enters DEF Fenced
    <2> QED BY <1>1, <1>3, <1>4, <2>2
  <1>5. CASE pc = "root"
    <2> DEFINE c == remote_address[child]
               y == At(right, remote_address)
    <2>1. super = child /\ super \in Slot
      BY <1>1, <1>5, RunningFacts DEF Wiring, CurHere, ChildHere
    <2>2. Stand(k, super) = IF k > sep THEN y ELSE c
      BY <1>5, <2>1 DEF Stand, At, Splitting
    <2>3. sep = Q[c].hi /\ Q[root_].kids = <<c, y>>
      BY <1>5 DEF Sound, Spread
    <2>4. Len(Q[root_].kids) = 2 /\ Q[root_].kids[1] = c /\ Q[root_].kids[2] = y
      BY <2>3
    <2>5. c \in Live /\ y \in Live /\ c # root_ /\ y # root_
      BY <1>1, <2>4 DEF Linked
    <2>6. SplitC = NullAddr /\ c # NullAddr /\ y # NullAddr /\ root_ # NullAddr
      BY <1>1, <1>5, <2>5, LiveAddrs DEF SplitC
    <2>7. KidFits(Q, root_, 1, SplitC, SplitR) /\ KidFits(Q, root_, 2, SplitC, SplitR)
      BY <1>1, <2>4 DEF Fenced
    <2>8. Q[root_].lo = MinLimit /\ Q[root_].hi = MaxLimit
      BY <1>1, <2>6 DEF Fenced, HiOf
    <2>9. /\ Q[c].level + 1 = Q[root_].level /\ Q[y].level + 1 = Q[root_].level
          /\ Q[c].lo = MinLimit /\ Q[y].hi = MaxLimit /\ Q[y].lo = Q[c].hi
      BY <2>4, <2>6, <2>7, <2>8 DEF KidFits, HiOf, KidLo, KidHi
    <2>10. Q[c].hi \in Int /\ Q[c].level \in Nat /\ Q[y].level \in Nat
      BY <1>1, <1>3, <2>5, NodeSeqs
    <2> HIDE DEF c, y
    <2>11. CASE k > sep
      BY <1>2, <1>5, <2>2, <2>3, <2>5, <2>9, <2>10, <2>11 DEF Within
    <2>12. CASE ~(k > sep)
      BY <1>2, <1>5, <2>2, <2>3, <2>5, <2>9, <2>10, <2>12 DEF Within
    <2> QED BY <2>11, <2>12
  <1> QED BY <1>4, <1>5

\* And it stays within them from page to page.
LEMMA EntersKid ==
  ASSUME Running, NEW Q \in [Addr -> NodeT], Sound(Q), NEW k \in Key, NEW r, Proper(r),
         Within(Q[Stand(k, r)], k), pc = "root" => Stand(k, r) # root_, PageFor(k)[r].type = "inner"
  PROVE  LET x == NextRef(PageFor(k), k, r)
         IN /\ Proper(x) /\ Within(Q[Stand(k, x)], k) /\ Q[Stand(k, x)].level + 1 = Q[Stand(k, r)].level
            /\ pc = "root" => Stand(k, x) # root_
  <1> DEFINE n == PageFor(k)[r]
             a == Stand(k, r)
             i == lowerBound(n, k)
             x == n.kids[i]
             b == At(x, remote_address)
  <1>1. Fenced(Q, Live, root_, SplitC, SplitR) /\ Linked(Q, Live, root_, Halves) /\ Live \in SUBSET Addr
    BY RunningFacts DEF Sound
  <1>2. a \in Live /\ Holder(n, a)
    BY StandHolder
  <1>3. n \in NodeT /\ SameText(Q[a], n)
    BY <1>2, HolderFacts
  <1>4. k \in Int
    BY TreeAssumption DEF Key
  <1>5. i = lowerBound(Q[a], k) /\ Q[a].type = "inner" /\ Q[a] \in NodeT /\ PageOK(Q[a])
    BY <1>1, <1>2, <1>3 DEF SameText, lowerBound, Fenced
  <1>6. i \in 1 .. Len(Q[a].kids) /\ KidLo(Q[a], i) < k /\ k <= KidHi(Q[a], i)
    BY <1>4, <1>5, WalkLimits DEF Within
  <1>7. Proper(x) /\ b = Q[a].kids[i]
    BY <1>2, <1>3, <1>6, KidProper DEF SameText
  <1>8. KidFits(Q, a, i, SplitC, SplitR)
    BY <1>1, <1>2, <1>6 DEF Fenced
  <1>9. Q[b].lo < k /\ k <= HiOf(Q, b, SplitC, SplitR) /\ Q[b].level + 1 = Q[a].level
    BY <1>6, <1>7, <1>8 DEF KidFits
  <1>10. pc = "root" => b # remote_address[child] /\ b # root_
    <2> SUFFICES ASSUME pc = "root" PROVE b # remote_address[child] /\ b # root_
      OBVIOUS
    <2>1. Q[root_].kids = <<remote_address[child], At(right, remote_address)>>
      BY DEF Sound, Spread
    <2>2. Len(Q[root_].kids) = 2 /\ Q[root_].kids[1] = remote_address[child] /\ root_ \in Live
      BY <1>1, <2>1 DEF Linked
    <2>3. a # root_ /\ 1 \in 1 .. Len(Q[root_].kids)
      BY <2>2
    <2>4. b # remote_address[child]
      BY <1>1, <1>2, <1>6, <1>7, <2>2, <2>3, NamedOnce
    <2>5. b # root_
      BY <1>1, <1>2, <1>6, <1>7 DEF Linked
    <2> QED BY <2>4, <2>5
  <1>11. x = NextRef(PageFor(k), k, r)
    BY DEF NextRef
  <1> HIDE DEF x, b, n, a, i
  <1>12. b = At(x, remote_address) /\ a = Stand(k, r)
    BY DEF a, b
  <1>13. /\ Within(Q[Stand(k, x)], k) /\ Q[Stand(k, x)].level = Q[b].level
         /\ pc = "root" => Stand(k, x) = b
    BY <1>7, <1>9, <1>10, <1>12, Enters
  <1> QED BY <1>7, <1>9, <1>10, <1>11, <1>12, <1>13

\* The pages a walk can meet lead to pages.
LEMMA PagesClosed ==
  ASSUME Running, NEW k
  PROVE  DOMAIN PageFor(k) = Ref /\ Closed(PageFor(k), k)
  <1>1. /\ Shapes /\ node \in [Slot -> NodeT] /\ adm.node \in NodeT /\ right \in Ref
        /\ \A a \in Addr : backend[a].node \in NodeT
    BY RunningFacts DEF TreeTypes
  <1>2. \A r \in Ref : Contents(r) \in NodeT /\ Shape(Contents(r))
    BY <1>1 DEF Ref, Contents, Shapes
  <1>3. RightHalf \in NodeT /\ Shape(RightHalf)
    BY <1>1, <1>2 DEF RightHalf, Shapes
  <1>4. DOMAIN PageFor(k) = Ref
    BY DEF PageFor, Ref
  <1>5. \A r \in Ref : PageFor(k)[r] \in NodeT /\ Shape(PageFor(k)[r])
    BY <1>2, <1>3 DEF PageFor, Ref
  <1>6. ASSUME NEW n \in NodeT, Shape(n), n.type = "inner" PROVE n.kids[lowerBound(n, k)] \in Ref
    BY <1>6, LowerBoundRange, NodeSeqs DEF Shape
  <1> QED BY <1>4, <1>5, <1>6 DEF Closed, NextRef

\* A walk for k ends in a leaf whose limits hold k.
LEMMA LeafFound ==
  \A Q \in [Addr -> NodeT] : Running /\ Sound(Q) =>
    \A k \in Key : \E b \in Live : Q[b].type = "leaf" /\ Within(Q[b], k) /\ LeafFor(k) = Q[b].data
  <1> SUFFICES ASSUME NEW Q \in [Addr -> NodeT], Running, Sound(Q), NEW k \in Key
               PROVE  \E b \in Live : Q[b].type = "leaf" /\ Within(Q[b], k) /\ LeafFor(k) = Q[b].data
    OBVIOUS
  <1> DEFINE at == PageFor(k)
             lev == [x \in Ref |-> Q[Stand(k, x)].level]
             G == {x \in Ref : Proper(x) /\ Within(Q[Stand(k, x)], k) /\ (pc = "root" => Stand(k, x) # root_)}
  <1>1. /\ Fenced(Q, Live, root_, SplitC, SplitR) /\ Live \in SUBSET Addr /\ root_ \in Live
        /\ cur_offset \in 2 .. BackendPages /\ BackendPages \in Nat
    BY RunningFacts, AddrAssumption DEF Sound, Linked, TreeTypes
  <1>2. ASSUME NEW x \in G
        PROVE  /\ x \in Ref /\ Stand(k, x) \in Live /\ at[x].type = Q[Stand(k, x)].type
               /\ at[x].data = Q[Stand(k, x)].data
    BY StandHolder, HolderFacts DEF SameText
  <1>3. ASSUME NEW x \in G
        PROVE  lev[x] \in Nat /\ (at[x].type = "inner" => lev[x] # 0) /\ at[x].type \in {"leaf", "inner"}
    <2>1. Stand(k, x) \in Addr /\ Q[Stand(k, x)] \in NodeT /\ PageOK(Q[Stand(k, x)])
      BY <1>1, <1>2 DEF Fenced
    <2> QED BY <1>2, <2>1 DEF NodeT, PageOK
  <1>4. ASSUME NEW x \in G, at[x].type = "inner"
        PROVE  NextRef(at, k, x) \in G /\ lev[NextRef(at, k, x)] + 1 = lev[x]
    <2>1. /\ Proper(NextRef(at, k, x)) /\ Within(Q[Stand(k, NextRef(at, k, x))], k)
          /\ Q[Stand(k, NextRef(at, k, x))].level + 1 = Q[Stand(k, x)].level
          /\ pc = "root" => Stand(k, NextRef(at, k, x)) # root_
      BY <1>4, EntersKid
    <2>2. NextRef(at, k, x) \in Ref
      BY <2>1, StandHolder
    <2> QED BY <2>1, <2>2
  <1>5. super \in G /\ lev[super] <= BackendPages
    <2>1. Proper(super) /\ super \in Ref /\ Stand(k, super) \in Live
      BY SuperProper, StandHolder
    <2>2. /\ Within(Q[Stand(k, super)], k) /\ Q[Stand(k, super)].level <= Q[root_].level
          /\ pc = "root" => Stand(k, super) # root_
      BY EntersRoot
    <2>3. Q[root_].level + 2 <= cur_offset /\ Q[root_].level \in Nat /\ Q[Stand(k, super)].level \in Nat
      <3>1. Q[root_] \in NodeT /\ Q[Stand(k, super)] \in NodeT
        BY <1>1, <2>1
      <3> QED BY <3>1 DEF Sound, Spread, NodeT
    <2> QED BY <1>1, <2>1, <2>2, <2>3
  <1>6. DOMAIN at = Ref /\ Closed(at, k) /\ G \subseteq Ref
    BY PagesClosed
  <1> HIDE DEF at, lev, G
  <1>7. \E x \in G : at[x].type # "inner" /\ Descend(at, k, super) = at[x].data
    BY <1>3, <1>4, <1>5, <1>6, DescendFinds
  <1>8. PICK x \in G : at[x].type # "inner" /\ Descend(at, k, super) = at[x].data
    BY <1>7
  <1>9. LeafFor(k) = at[x].data
    BY <1>8 DEF LeafFor, at
  <1>10. Within(Q[Stand(k, x)], k)
    BY DEF G
  <1> QED BY <1>2, <1>3, <1>8, <1>9, <1>10

\* After a step, too.
LEMMA LeafFoundNext ==
  \A Q \in [Addr -> NodeT] : Running' /\ Sound(Q)' =>
    \A k \in Key : \E b \in Live' : Q[b].type = "leaf" /\ Within(Q[b], k) /\ LeafFor(k)' = Q[b].data
  <1>1. (\A Q \in [Addr -> NodeT] : Running /\ Sound(Q) =>
           \A k \in Key : \E b \in Live : Q[b].type = "leaf" /\ Within(Q[b], k) /\ LeafFor(k) = Q[b].data)'
    BY LeafFound, PTL
  <1> QED BY <1>1

\* There is no other such leaf.
LEMMA OneLeaf ==
  ASSUME Running, NEW Q \in [Addr -> NodeT], Sound(Q), NEW k \in Key, NEW a \in Live, NEW b \in Live,
         Q[a].type = "leaf", Q[b].type = "leaf", Within(Q[a], k), Within(Q[b], k)
  PROVE  a = b
  <1>1. Live \in SUBSET Addr /\ Apart(Q)
    BY RunningFacts DEF Sound, Spread
  <1>2. Q[a].lo \in Int /\ Q[a].hi \in Int /\ Q[b].lo \in Int /\ Q[b].hi \in Int /\ k \in Int
    BY <1>1, NodeSeqs, TreeAssumption DEF Key
  <1>3. a # b => Q[a].hi <= Q[b].lo \/ Q[b].hi <= Q[a].lo
    BY <1>1 DEF Apart
  <1> QED BY <1>2, <1>3 DEF Within

-----------------------------------------------------------------------------
(* What steps do to the dictionary *)

\* The entry for k stays as it is.
SameEntry(k) ==
  /\ k \in DOMAIN LeafFor(k)' <=> k \in DOMAIN LeafFor(k)
  /\ k \in DOMAIN LeafFor(k) => LeafFor(k)'[k] = LeafFor(k)[k]

\* In the leaf, a step changes the entries of that leaf and nothing else.
LEMMA LeafEdit ==
  ASSUME Running, Running', NEW Q \in [Addr -> NodeT], NEW P \in [Addr -> NodeT], Sound(Q), Stored(P)', Edit(Q, P),
         [Next]_vars, pc = "leaf"
  PROVE  /\ cur \in Used /\ remote_address[cur] \in Live /\ Q[remote_address[cur]].type = "leaf"
         /\ Q[remote_address[cur]].data = node[cur].data /\ P[remote_address[cur]].data = node'[cur].data
         /\ \A a \in Live \ {remote_address[cur]} : P[a] = Q[a]
         /\ Live' = Live
  <1> DEFINE x == remote_address[cur]
  <1>1. Stored(Q) /\ Wiring /\ Live \in SUBSET Addr /\ OwnInv /\ Used \in SUBSET Slot
    BY RunningFacts DEF Sound, Running
  <1>2. cur \in Used /\ node[cur].type # "inner" /\ cur # Super
    BY <1>1 DEF Wiring, CurHere
  <1>3. x \in Live /\ SameText(Q[x], node[cur]) /\ cur \in Slot /\ node[cur] \in NodeT
    BY <1>1, <1>2, CopyOf
  <1>4. Q[x].type = "leaf"
    <2>1. PageOK(Q[x])
      BY <1>3 DEF Sound, Fenced
    <2> QED BY <1>2, <1>3, <2>1 DEF PageOK, SameText
  <1>5. Kept(Q, P) \/ Wrote(Q, P)
    BY EditKinds
  <1>6. Live' = Live
    BY <1>5 DEF Kept, Wrote, Live
  <1>7. \A a \in Live \ {x} : P[a] = Q[a]
    <2>1. PICK f : f = [Q[x] EXCEPT !.data = node'[cur].data]
      OBVIOUS
    <2>2. P = Q \/ P = [Q EXCEPT ![x] = f]
      BY <1>1, <1>3, <1>5, <2>1 DEF Kept, Wrote
    <2> HIDE DEF x
    <2> QED BY <1>1, <2>2
  <1>8. P[x].data = node'[cur].data
    <2>1. CASE node' = node /\ P = Q
      BY <1>3, <2>1 DEF SameText
    <2>2. CASE Wrote(Q, P)
      <3>1. PICK d : d = node'[cur].data
        OBVIOUS
      <3>2. Q[x] \in NodeT
        BY <1>1, <1>3
      <3>3. [Q[x] EXCEPT !.data = d].data = d
        BY <3>2 DEF NodeT
      <3>4. P[x] = [Q[x] EXCEPT !.data = d]
        BY <1>1, <1>3, <2>2, <3>1 DEF Wrote
      <3> QED BY <3>1, <3>3, <3>4
    <2>3. CASE LeafStep
      <3>1. \E S : MarkDirty(S)
        BY <2>3 DEF LeafStep, LeafInsert, LeafLookup, LeafUpdate, LeafRemove, LeafScan, LeafCtor, Finish
      <3>2. Used' = Used
        BY <1>1, <3>1, WriteKeepsUsed
      <3>3. remote_address'[cur] = x
        BY <1>2, AddrKept
      <3>4. P[x] = Page(node'[cur], remote_address')
        BY <1>2, <3>2, <3>3 DEF Stored, CachedPages
      <3>5. node' \in [Slot -> NodeT] /\ remote_address' \in [Slot -> Addr]
        BY DEF Running, WireInv, TreeTypes, OwnInv, OwnTypes
      <3> QED BY <1>3, <3>4, <3>5, PageFacts DEF SameText
    <2> QED BY <1>5, <2>1, <2>2, <2>3, LeafOnly DEF Kept
  <1> QED BY <1>2, <1>3, <1>4, <1>6, <1>7, <1>8 DEF SameText

\* The leaf of k before and after a step in a leaf.
LEMMA LeafEntries ==
  ASSUME Running, Running', NEW Q \in [Addr -> NodeT], NEW P \in [Addr -> NodeT], Sound(Q), Sound(P)', Edit(Q, P),
         [Next]_vars, pc = "leaf", NEW k \in Key
  PROVE  /\ Within(Q[remote_address[cur]], k) => LeafFor(k) = node[cur].data /\ LeafFor(k)' = node'[cur].data
         /\ ~Within(Q[remote_address[cur]], k) => LeafFor(k)' = LeafFor(k)
  <1> DEFINE x == remote_address[cur]
  <1>1. Stored(P)'
    BY DEF Sound
  <1>2. /\ x \in Live /\ Q[x].type = "leaf" /\ Q[x].data = node[cur].data /\ P[x].data = node'[cur].data
        /\ \A a \in Live \ {x} : P[a] = Q[a]
        /\ Live' = Live
    BY <1>1, LeafEdit
  <1>3. PICK b \in Live : Q[b].type = "leaf" /\ Within(Q[b], k) /\ LeafFor(k) = Q[b].data
    BY LeafFound
  <1>4. PICK c \in Live : P[c].type = "leaf" /\ Within(P[c], k) /\ LeafFor(k)' = P[c].data
    BY <1>2, LeafFoundNext
  <1>5. Q[c].type = "leaf" /\ Within(Q[c], k)
    <2>1. c \in Addr \cap Live
      BY RunningFacts
    <2> QED BY <1>4, <2>1, LimitsKept DEF Within
  <1>6. b = c
    BY <1>3, <1>4, <1>5, OneLeaf
  <1>7. Within(Q[x], k) <=> b = x
    BY <1>2, <1>3, OneLeaf
  <1> QED BY <1>2, <1>3, <1>4, <1>6, <1>7

\* A split leaves every entry where a walk finds it.
LEMMA HalvedEntry ==
  ASSUME Running, Running', NEW Q \in [Addr -> NodeT], NEW P \in [Addr -> NodeT], Sound(Q), Sound(P)', Halved(Q, P),
         NEW k \in Key
  PROVE  SameEntry(k)
  <1> DEFINE x == remote_address[child]
             y == cur_offset
  <1>1. /\ SplitPage(Q[x], P[x], P[y], sep') /\ Live' = Live \union {y} /\ y \in Addr \ Live
        /\ \A a \in Addr \ {x, y} : P[a] = Q[a]
    BY OneMoreLive DEF Halved
  <1>2. Live \in SUBSET Addr /\ x \in Live /\ x \in Addr
    BY RunningFacts, ChildPage DEF Halved, Sound
  <1>3. sep' \in Key
    <2>1. pc' \in {"sib", "link"}
      BY DEF Halved, Halves
    <2> QED BY <2>1 DEF Running, WireInv, TreeTypes
  <1>4. PICK s \in Key : s = sep'
    BY <1>3
  <1>5. Q[x].lo < s /\ s < Q[x].hi /\ s \in Int /\ k \in Int /\ Q[x].lo \in Int /\ Q[x].hi \in Int
    <2>1. Q[x] \in NodeT /\ P[x] \in NodeT /\ P[y] \in NodeT
      BY <1>1, <1>2
    <2>2. PageOK(Q[x]) /\ Shape(P[x]) /\ Shape(P[y])
      BY <1>1, <1>2, StoredShape DEF Fenced, Sound
    <2> QED BY <1>1, <1>4, <2>1, <2>2, SplitOK, NodeSeqs
  <1>6. PICK b \in Live : Q[b].type = "leaf" /\ Within(Q[b], k) /\ LeafFor(k) = Q[b].data
    BY LeafFound
  <1>7. PICK c \in Live \union {y} : P[c].type = "leaf" /\ Within(P[c], k) /\ LeafFor(k)' = P[c].data
    BY <1>1, LeafFoundNext
  <1> HIDE DEF x, y
  <1>8. CASE c \notin {x, y}
    <2>1. c \in Live /\ P[c] = Q[c]
      BY <1>1, <1>2, <1>7, <1>8
    <2>2. b = c
      BY <1>6, <1>7, <2>1, OneLeaf
    <2> QED BY <1>6, <1>7, <2>1, <2>2 DEF SameEntry
  <1>9. CASE c \in {x, y}
    <2>1. Q[x].type = "leaf" /\ P[x].lo = Q[x].lo /\ P[x].hi = s /\ P[y].lo = s /\ P[y].hi = Q[x].hi
      BY <1>1, <1>4, <1>7, <1>9 DEF SplitPage
    <2>2. Within(Q[x], k) /\ (c = x => k <= s) /\ (c = y => k > s)
      BY <1>5, <1>7, <1>9, <2>1 DEF Within
    <2>3. b = x
      BY <1>2, <1>6, <2>1, <2>2, OneLeaf
    <2>4. /\ P[x].data = Restrict(Q[x].data, {j \in DOMAIN Q[x].data : j <= s})
          /\ P[y].data = Restrict(Q[x].data, {j \in DOMAIN Q[x].data : j > s})
      BY <1>1, <1>4, <2>1 DEF SplitPage, DataHalved
    <2> QED BY <1>6, <1>7, <1>9, <2>2, <2>3, <2>4 DEF SameEntry, Restrict
  <1> QED BY <1>8, <1>9

\* Nothing but the operation in its leaf changes an entry.
LEMMA QuietEntry ==
  ASSUME Running, Running', NEW Q \in [Addr -> NodeT], NEW P \in [Addr -> NodeT], Sound(Q), Sound(P)', Edit(Q, P),
         [Next]_vars, ~LeafStep, NEW k \in Key
  PROVE  SameEntry(k)
  <1>1. CASE pc = "leaf"
    <2>1. node' = node
      BY <1>1, LeafOnly
    <2>2. LeafFor(k)' = LeafFor(k)
      BY <1>1, <2>1, LeafEntries
    <2> QED BY <2>2 DEF SameEntry
  <1>2. CASE Halved(Q, P)
    BY <1>2, HalvedEntry
  <1>3. CASE Kept(Q, P) \/ Joined(Q, P) \/ Grown(Q, P)
    <2>1. PICK b \in Live : Q[b].type = "leaf" /\ Within(Q[b], k) /\ LeafFor(k) = Q[b].data
      BY LeafFound
    <2>2. PICK c \in Live' : P[c].type = "leaf" /\ Within(P[c], k) /\ LeafFor(k)' = P[c].data
      BY LeafFoundNext
    <2>3. Live \in SUBSET Addr /\ Wiring /\ Stored(Q)
      BY RunningFacts DEF Sound
    <2>4. c \in Live /\ P[c] = Q[c]
      <3>1. CASE Kept(Q, P)
        BY <2>2, <3>1 DEF Kept, Live
      <3>2. CASE Joined(Q, P)
        <4>1. cur \in Used /\ node[cur].type = "inner"
          BY <2>3, <3>2 DEF Joined, Wiring, CurHere
        <4>2. Q[remote_address[cur]].type = "inner"
          BY <2>3, <4>1, CopyOf DEF SameText
        <4>3. c # remote_address[cur]
          BY <2>2, <3>2, <4>2 DEF Joined, LinkPage
        <4> QED BY <2>2, <2>3, <3>2, <4>3 DEF Joined, Live
      <3>3. CASE Grown(Q, P)
        <4>1. c # cur_offset /\ Live' = Live \union {cur_offset}
          BY <2>2, <3>3, OneMoreLive DEF Grown, RootPage
        <4> QED BY <2>2, <2>3, <3>3, <4>1 DEF Grown
      <3> QED BY <1>3, <3>1, <3>2, <3>3
    <2>5. b = c
      BY <2>1, <2>2, <2>4, OneLeaf
    <2> QED BY <2>1, <2>2, <2>4, <2>5 DEF SameEntry
  <1> QED BY <1>1, <1>2, <1>3 DEF Edit, Wrote

\* Entries that stay make a dictionary that stays.
LEMMA SameDict ==
  ASSUME \A k \in Key : SameEntry(k)
  PROVE  TreeDict' = TreeDict
  <1> DEFINE D == {x \in Key : x \in DOMAIN LeafFor(x)}
             E == {x \in Key : x \in DOMAIN LeafFor(x)'}
  <1>1. D = E
    BY DEF SameEntry
  <1>2. \A k \in D : LeafFor(k)[k] = LeafFor(k)'[k]
    BY DEF SameEntry
  <1>3. TreeDict = [k \in D |-> LeafFor(k)[k]] /\ TreeDict' = [k \in E |-> LeafFor(k)'[k]]
    BY DEF TreeDict
  <1> HIDE DEF D, E
  <1> QED BY <1>1, <1>2, <1>3

\* The dictionary's keys and values, from the leaves.
LEMMA DictFacts ==
  /\ DOMAIN TreeDict \in SUBSET Key
  /\ \A k \in Key : /\ k \in DOMAIN TreeDict <=> k \in DOMAIN LeafFor(k)
                    /\ k \in DOMAIN TreeDict => TreeDict[k] = LeafFor(k)[k]
  BY DEF TreeDict
LEMMA DictFactsNext ==
  /\ DOMAIN TreeDict' \in SUBSET Key
  /\ \A k \in Key : /\ k \in DOMAIN TreeDict' <=> k \in DOMAIN LeafFor(k)'
                    /\ k \in DOMAIN TreeDict' => TreeDict'[k] = LeafFor(k)'[k]
  BY DEF TreeDict
\* It is a function, whatever the leaves are.
LEMMA DictFunction ==
  /\ TreeDict = [k \in DOMAIN TreeDict |-> TreeDict[k]]
  /\ TreeDict' = [k \in DOMAIN TreeDict' |-> TreeDict'[k]]
  BY DEF TreeDict

\* A call, field by field.
LEMMA CallFields ==
  ASSUME op \in Calls \union {NoCall}
  PROVE  /\ op = [kind |-> op.kind, key |-> op.key, val |-> op.val]
         /\ op.kind # "ctor" => op.key \in Key
         /\ op.kind \in {"insert", "update"} => op.val \in Val
         /\ op.kind \in {"lookup", "remove"} => op.val = NoVal
         /\ op.kind = "scan" => op.val \in ScanLen
         /\ op.kind = "ctor" => op = NoCall
  <1>1. CASE op = NoCall
    BY <1>1 DEF NoCall
  <1>2. CASE op \in [kind : Kinds \cap {"insert", "update"}, key : Key, val : Val]
    BY <1>2
  <1>3. CASE op \in [kind : Kinds \cap {"lookup", "remove"}, key : Key, val : {NoVal}]
    BY <1>3
  <1>4. CASE op \in [kind : Kinds \cap {"scan"}, key : Key, val : ScanLen]
    BY <1>4
  <1> QED BY <1>1, <1>2, <1>3, <1>4 DEF Calls

\* The entries of the leaf an operation has come to are those the dictionary has for it.
LEMMA LeafDict ==
  ASSUME Running, Running', NEW Q \in [Addr -> NodeT], NEW P \in [Addr -> NodeT], Sound(Q), Sound(P)', Edit(Q, P),
         [Next]_vars, LeafStep
  PROVE  LET d == node[cur].data
             e == node'[cur].data
             within == {k \in Key : Within(Q[remote_address[cur]], k)}
         IN /\ DOMAIN d \in SUBSET within /\ DOMAIN e \in SUBSET within
            /\ op.kind # "ctor" => op.key \in within
            /\ \A k \in within : /\ k \in DOMAIN TreeDict <=> k \in DOMAIN d
                                 /\ k \in DOMAIN TreeDict => TreeDict[k] = d[k]
                                 /\ k \in DOMAIN TreeDict' <=> k \in DOMAIN e
                                 /\ k \in DOMAIN TreeDict' => TreeDict'[k] = e[k]
            /\ \A k \in Key \ within : /\ k \in DOMAIN TreeDict' <=> k \in DOMAIN TreeDict
                                       /\ k \in DOMAIN TreeDict' => TreeDict'[k] = TreeDict[k]
  <1> DEFINE x == remote_address[cur]
             d == node[cur].data
             e == node'[cur].data
             within == {k \in Key : Within(Q[x], k)}
  <1>1. pc = "leaf"
    BY DEF LeafStep, LeafInsert, LeafLookup, LeafUpdate, LeafRemove, LeafScan, LeafCtor, Finish
  <1>2. /\ cur \in Used /\ x \in Live /\ Q[x].type = "leaf" /\ Q[x].data = d /\ P[x].data = e /\ Live' = Live
    BY <1>1, LeafEdit DEF Sound
  <1>3. op \in Calls \union {NoCall} /\ x \in Addr /\ cur # Super
    BY <1>1, <1>2, RunningFacts DEF TreeTypes, Wiring, CurHere
  <1>4. DOMAIN d \in SUBSET within
    <2>1. PageOK(Q[x]) /\ Q[x] \in NodeT
      BY <1>2, <1>3 DEF Sound, Fenced
    <2>2. DOMAIN Q[x].data \in SUBSET Key
      BY <2>1, DataOps DEF NodeT
    <2> QED BY <1>2, <2>1, <2>2 DEF PageOK, Within
  <1>5. DOMAIN e \in SUBSET within
    <2>1. P[x].lo = Q[x].lo /\ P[x].hi = Q[x].hi /\ P[x].type = "leaf"
      BY <1>1, <1>2, <1>3, LimitsKept
    <2>2. \A a \in Live' : PageOK(P[a])
      BY DEF Sound, Fenced, PageOK, Shape, Ordered
    <2>3. PageOK(P[x]) /\ P[x] \in NodeT
      BY <1>2, <1>3, <2>2
    <2>4. DOMAIN P[x].data \in SUBSET Key
      BY <2>3, DataOps DEF NodeT
    <2> QED BY <1>2, <2>1, <2>3, <2>4 DEF PageOK, Within
  <1>6. op.kind # "ctor" => op.key \in within
    BY <1>3, CallFields DEF Sound, OnTheWay, Within
  <1>7. \A k \in within : LeafFor(k) = d /\ LeafFor(k)' = e
    BY <1>1, LeafEntries
  <1>8. \A k \in Key \ within : LeafFor(k)' = LeafFor(k)
    BY <1>1, LeafEntries
  <1>9. within \in SUBSET Key
    OBVIOUS
  <1> HIDE DEF within, d, e
  <1>10. \A k \in within : /\ k \in DOMAIN TreeDict <=> k \in DOMAIN d
                           /\ k \in DOMAIN TreeDict => TreeDict[k] = d[k]
                           /\ k \in DOMAIN TreeDict' <=> k \in DOMAIN e
                           /\ k \in DOMAIN TreeDict' => TreeDict'[k] = e[k]
    BY <1>7, <1>9, DictFacts, DictFactsNext
  <1>11. \A k \in Key \ within : /\ k \in DOMAIN TreeDict' <=> k \in DOMAIN TreeDict
                                 /\ k \in DOMAIN TreeDict' => TreeDict'[k] = TreeDict[k]
    BY <1>8, DictFacts, DictFactsNext
  <1> QED BY <1>4, <1>5, <1>6, <1>10, <1>11 DEF within, d, e

\* Two functions with the same domain and the same values.
LEMMA FunctionsEqual ==
  ASSUME NEW f, NEW g, f = [x \in DOMAIN f |-> f[x]], g = [x \in DOMAIN g |-> g[x]], DOMAIN f = DOMAIN g,
         \A x \in DOMAIN f : f[x] = g[x]
  PROVE  f = g
  OBVIOUS

\* f and g have the same entries for the keys of W.
AgreeOn(f, g, W) == \A k \in W : (k \in DOMAIN f <=> k \in DOMAIN g) /\ (k \in DOMAIN f => f[k] = g[k])
IsMap(f) == f = [x \in DOMAIN f |-> f[x]]
\* d and e are the entries that D and E have for W; elsewhere E is D.
Slices(D, E, d, e, W, K) ==
  /\ W \subseteq K /\ IsMap(D) /\ IsMap(E) /\ DOMAIN D \subseteq K /\ DOMAIN E \subseteq K /\ DOMAIN d \subseteq W
  /\ AgreeOn(D, d, W) /\ AgreeOn(E, e, W) /\ AgreeOn(E, D, K \ W)
\* The entry k of f is written.
PutEntry(f, k, v) == [x \in DOMAIN f \union {k} |-> IF x = k THEN v ELSE f[x]]

\* What writing a key does, and not writing.
LEMMA DictWrites ==
  ASSUME NEW D, NEW E, NEW d, NEW e, NEW W, NEW K, Slices(D, E, d, e, W, K), NEW q \in W, NEW v
  PROVE  /\ e = d => E = D
         /\ e = PutEntry(d, q, v) => E = PutEntry(D, q, v)
         /\ e = Restrict(d, DOMAIN d \ {q}) => E = Restrict(D, DOMAIN D \ {q})
  <1> USE DEF Slices
  <1>1. ASSUME e = d PROVE E = D
    <2>1. DOMAIN E = DOMAIN D
      BY <1>1 DEF AgreeOn
    <2>2. \A k \in DOMAIN E : E[k] = D[k]
      BY <1>1 DEF AgreeOn
    <2> QED BY <2>1, <2>2, FunctionsEqual DEF IsMap
  <1>2. ASSUME e = PutEntry(d, q, v)
        PROVE  E = PutEntry(D, q, v)
    <2> DEFINE F == [x \in DOMAIN D \union {q} |-> IF x = q THEN v ELSE D[x]]
    <2>1. DOMAIN e = DOMAIN d \union {q} /\ \A k \in DOMAIN e : e[k] = IF k = q THEN v ELSE d[k]
      BY <1>2 DEF PutEntry
    <2>2. DOMAIN F = DOMAIN D \union {q} /\ \A k \in DOMAIN F : F[k] = IF k = q THEN v ELSE D[k]
      OBVIOUS
    <2>3. F = [x \in DOMAIN F |-> F[x]]
      OBVIOUS
    <2> HIDE DEF F
    <2>4. DOMAIN E = DOMAIN F
      BY <2>1, <2>2 DEF AgreeOn
    <2>5. \A k \in DOMAIN E : E[k] = F[k]
      BY <2>1, <2>2, <2>4 DEF AgreeOn
    <2>6. E = F
      BY <2>3, <2>4, <2>5, FunctionsEqual DEF IsMap
    <2> QED BY <2>6 DEF F, PutEntry
  <1>3. ASSUME e = Restrict(d, DOMAIN d \ {q})
        PROVE  E = Restrict(D, DOMAIN D \ {q})
    <2> DEFINE F == [x \in DOMAIN D \ {q} |-> D[x]]
    <2>1. DOMAIN e = DOMAIN d \ {q} /\ \A k \in DOMAIN e : e[k] = d[k]
      BY <1>3 DEF Restrict
    <2>2. DOMAIN F = DOMAIN D \ {q} /\ \A k \in DOMAIN F : F[k] = D[k]
      OBVIOUS
    <2>3. F = [x \in DOMAIN F |-> F[x]]
      OBVIOUS
    <2> HIDE DEF F
    <2>4. DOMAIN E = DOMAIN F
      BY <2>1, <2>2 DEF AgreeOn
    <2>5. \A k \in DOMAIN E : E[k] = F[k]
      BY <2>1, <2>2, <2>4 DEF AgreeOn
    <2>6. E = F
      BY <2>3, <2>4, <2>5, FunctionsEqual DEF IsMap
    <2> QED BY <2>6 DEF F, Restrict
  <1> QED BY <1>1, <1>2, <1>3

\* The entries of f from k on, and the first n of them.
From(f, k) == {x \in DOMAIN f : k \in DOMAIN f /\ x >= k}
FirstOf(f, k, n) == Restrict(f, {y \in From(f, k) : Cardinality({z \in From(f, k) : z <= y}) <= n})

\* d is what D has for W, and W has no gaps in K.
Slice(D, d, W, K) ==
  /\ K \subseteq Int /\ W \subseteq K /\ \A i, j \in W : \A k \in K : i <= k /\ k <= j => k \in W
  /\ DOMAIN D \subseteq K /\ DOMAIN d \subseteq W /\ IsFiniteSet(DOMAIN D) /\ AgreeOn(D, d, W)

\* What rangeScan copies from a leaf is the beginning of what the dictionary has from
\* that key on: no key of another leaf comes between those of one leaf.
LEMMA ScanRun ==
  ASSUME NEW D, NEW d, NEW W, NEW K, Slice(D, d, W, K), NEW q \in W, NEW num \in Nat
  PROVE  \E n \in 0 .. num : (q \in DOMAIN D /\ num > 0 => n > 0) /\ FirstOf(d, q, num) = FirstOf(D, q, n)
  <1> DEFINE from == {k \in DOMAIN d : q \in DOMAIN d /\ k >= q}
             copied == {k \in from : Cardinality({j \in from : j <= k}) <= num}
             all == {x \in DOMAIN D : q \in DOMAIN D /\ x >= q}
             Run(n) == {y \in all : Cardinality({z \in all : z <= y}) <= n}
  <1> USE DEF Slice, AgreeOn
  <1>0. FirstOf(d, q, num) = Restrict(d, copied) /\ \A n : FirstOf(D, q, n) = Restrict(D, Run(n))
    BY DEF FirstOf, From
  <1>1. from \in SUBSET all /\ from \in SUBSET W /\ all \in SUBSET Int /\ all \in SUBSET K /\ all \in SUBSET DOMAIN D
    OBVIOUS
  <1>2. IsFiniteSet(all) /\ IsFiniteSet(from) /\ Cardinality(from) \in Nat
    <2>1. IsFiniteSet(all)
      BY <1>1, FS_Subset
    <2>2. IsFiniteSet(from)
      BY <1>1, <2>1, FS_Subset
    <2> QED BY <2>1, <2>2, FS_CardinalityType
  <1>3. ASSUME NEW n \in 0 .. num, copied = Run(n) PROVE Restrict(d, copied) = Restrict(D, Run(n))
    <2>1. copied \in SUBSET from
      OBVIOUS
    <2>2. \A x \in copied : d[x] = D[x]
      <3> HIDE DEF copied, from, all, Run
      <3> SUFFICES ASSUME NEW x \in copied PROVE d[x] = D[x]
        OBVIOUS
      <3>1. x \in W /\ x \in DOMAIN D
        BY <1>1, <2>1
      <3> QED BY <3>1
    <2> HIDE DEF copied, from, all, Run
    <2> QED BY <1>3, <2>2 DEF Restrict
  <1>4. CASE q \notin DOMAIN D
    <2>1. all = {} /\ from = {}
      BY <1>4
    <2>2. copied = Run(0)
      BY <2>1
    <2>3. 0 \in 0 .. num
      OBVIOUS
    <2>4. Restrict(d, copied) = Restrict(D, Run(0))
      <3> HIDE DEF copied, Run
      <3> QED BY <1>3, <2>2, <2>3
    <2> HIDE DEF copied, Run
    <2> QED BY <1>0, <1>4, <2>3, <2>4
  <1>5. CASE q \in DOMAIN D
    <2> DEFINE n == IF num <= Cardinality(from) THEN num ELSE Cardinality(from)
    <2>1. q \in from /\ q \in all
      <3>1. q >= q
        <4>1. q \in Int
          OBVIOUS
        <4> HIDE DEF from, all, copied, Run
        <4> QED BY <4>1
      <3>2. q \in DOMAIN d
        BY <1>5
      <3> QED BY <1>5, <3>1, <3>2
    <2>2. from # {} /\ Cardinality(from) # 0
      BY <1>2, <2>1, FS_EmptySet
    <2>3. n \in 0 .. num /\ (num > 0 => n > 0) /\ n <= Cardinality(from)
      <3> HIDE DEF from
      <3> QED BY <1>2, <2>2
    <2>4. ASSUME NEW x \in from, NEW z \in all, z <= x PROVE z \in from
      <3>1. x \in W /\ z \in K /\ q <= z /\ z \in DOMAIN D
        OBVIOUS
      <3>2. z \in W
        BY <2>4, <3>1
      <3>3. z \in DOMAIN d /\ q \in DOMAIN d /\ z >= q
        BY <1>5, <3>1, <3>2
      <3> QED BY <3>3
    <2>5. ASSUME NEW x \in from
          PROVE  /\ {z \in all : z <= x} = {j \in from : j <= x}
                 /\ Cardinality({j \in from : j <= x}) \in Nat
                 /\ Cardinality({j \in from : j <= x}) <= Cardinality(from)
      <3> HIDE DEF from, all
      <3>1. {z \in all : z <= x} = {j \in from : j <= x}
        BY <1>1, <2>4
      <3>2. {j \in from : j <= x} \in SUBSET from
        OBVIOUS
      <3> QED BY <1>2, <3>1, <3>2, FS_Subset, FS_CardinalityType
    <2>6. ASSUME NEW x \in all, x \notin from
          PROVE  Cardinality({z \in all : z <= x}) > Cardinality(from)
      <3> DEFINE S == {z \in all : z <= x}
      <3>1. \A y \in from : y <= x
        <4> SUFFICES ASSUME NEW y \in from, ~(y <= x) PROVE FALSE
          OBVIOUS
        <4> HIDE DEF from, all
        <4>1. x \in Int /\ y \in Int /\ x <= y
          BY <1>1
        <4> QED BY <2>4, <2>6, <4>1
      <3>2. x \in S /\ from \in SUBSET S /\ S \in SUBSET all
        <4> HIDE DEF from, all
        <4>1. x <= x
          BY <1>1
        <4> QED BY <1>1, <3>1, <4>1
      <3> HIDE DEF S, from, all
      <3>3. IsFiniteSet(S) /\ from # S
        BY <1>2, <2>6, <3>2, FS_Subset
      <3>4. Cardinality(from) <= Cardinality(S) /\ Cardinality(from) # Cardinality(S) /\ Cardinality(S) \in Nat
        BY <3>2, <3>3, FS_Subset, FS_CardinalityType
      <3> QED BY <1>2, <3>4 DEF S
    <2>7. copied = Run(n)
      <3> HIDE DEF from, all
      <3>1. ASSUME NEW x \in from
            PROVE  Cardinality({j \in from : j <= x}) <= num <=> Cardinality({z \in all : z <= x}) <= n
        BY SMTT(40), <1>2, <2>5
      <3>2. ASSUME NEW x \in all, x \notin from
            PROVE  ~(Cardinality({z \in all : z <= x}) <= n)
        <4>1. Cardinality({z \in all : z <= x}) > Cardinality(from)
          BY <2>6, <3>2
        <4>2. Cardinality({z \in all : z <= x}) \in Nat
          <5>1. {z \in all : z <= x} \in SUBSET all
            OBVIOUS
          <5> QED BY <1>2, <5>1, FS_Subset, FS_CardinalityType
        <4> HIDE DEF n
        <4> QED BY <1>2, <2>3, <4>1, <4>2
      <3> HIDE DEF n
      <3> QED BY <1>1, <3>1, <3>2
    <2> HIDE DEF n
    <2>8. Restrict(d, copied) = Restrict(D, Run(n))
      BY <1>3, <2>3, <2>7
    <2> HIDE DEF copied, Run
    <2> QED BY <1>0, <2>3, <2>8
  <1> QED BY <1>4, <1>5

\* insert finds room in the leaf, since the walk has split every full page on its way.
LEMMA LeafHasRoom ==
  ASSUME Running, NEW Q \in [Addr -> NodeT], Sound(Q), pc = "leaf", op.kind = "insert"
  PROVE  Cardinality(DOMAIN node[cur].data) < LeafMax
  <1>1. Wiring /\ Stored(Q) /\ Room(Q)
    BY RunningFacts DEF Sound
  <1>2. cur \in Used /\ node[cur].type # "inner" /\ cur # Super
    BY <1>1 DEF Wiring, CurHere
  <1>3. remote_address[cur] \in Live /\ SameText(Q[remote_address[cur]], node[cur])
    BY <1>1, <1>2, CopyOf
  <1>4. Q[remote_address[cur]].type = "leaf"
    <2>1. PageOK(Q[remote_address[cur]])
      BY <1>3 DEF Sound, Fenced
    <2> QED BY <1>2, <1>3, <2>1 DEF PageOK, SameText
  <1>5. Roomy(Q[remote_address[cur]])
    BY <1>1, <1>2 DEF Room
  <1> QED BY <1>3, <1>4, <1>5 DEF Roomy, SameText

\* KVStore counts as LeanStoreTree does.
LEMMA SameCount == \A S : KV!Cardinality(S) = Cardinality(S)
  BY DEF KV!Cardinality, Cardinality

\* A scan the dictionary allows.
LEMMA KVRun ==
  ASSUME NEW k, NEW num, NEW n \in 0 .. num, k \in DOMAIN TreeDict /\ num > 0 => n > 0,
         TreeDict' = TreeDict, KV!Return("scan", k, num, FirstOf(TreeDict, k, n))
  PROVE  KV!RangeScan(k, num)
  <1> DEFINE all == {x \in DOMAIN TreeDict : KV!Has(k) /\ x >= k}
             run == {x \in all : KV!Cardinality({y \in all : y <= x}) <= n}
  <1>1. all = From(TreeDict, k)
    BY DEF From, KV!Has
  <1>2. run = {y \in From(TreeDict, k) : Cardinality({z \in From(TreeDict, k) : z <= y}) <= n}
    BY <1>1, SameCount
  <1>3. FirstOf(TreeDict, k, n) = Restrict(TreeDict, run)
    BY <1>2 DEF FirstOf
  <1>4. FirstOf(TreeDict, k, n) = [x \in run |-> TreeDict[x]]
    BY <1>3 DEF Restrict
  <1>5. KV!Return("scan", k, num, [x \in run |-> TreeDict[x]])
    BY <1>4
  <1>6. KV!Has(k) /\ num > 0 => n > 0
    BY DEF KV!Has
  <1> QED BY <1>5, <1>6 DEF KV!RangeScan

\* The operation in its leaf is the dictionary's.
LEMMA LeafKV ==
  ASSUME Running, Running', NEW Q \in [Addr -> NodeT], NEW P \in [Addr -> NodeT], Sound(Q), Sound(P)', Edit(Q, P),
         [Next]_vars, LeafStep
  PROVE  KV!Next
  <1> DEFINE d == node[cur].data
             e == node'[cur].data
             W == {k \in Key : Within(Q[remote_address[cur]], k)}
             q == op.key
             v == op.val
  <1>1. pc = "leaf"
    BY DEF LeafStep, LeafInsert, LeafLookup, LeafUpdate, LeafRemove, LeafScan, LeafCtor, Finish
  <1>2. op \in Calls \union {NoCall}
    BY RunningFacts DEF TreeTypes
  <1>3. /\ op = [kind |-> op.kind, key |-> q, val |-> v] /\ (op.kind # "ctor" => q \in Key /\ q \in W)
        /\ op.kind \in {"insert", "update"} => v \in Val
        /\ op.kind \in {"lookup", "remove"} => v = NoVal
        /\ op.kind = "scan" => v \in ScanLen
        /\ op.kind = "ctor" => op = NoCall
    BY <1>2, CallFields, LeafDict
  <1>4. /\ DOMAIN d \in SUBSET W /\ W \in SUBSET Key
        /\ DOMAIN TreeDict \in SUBSET Key /\ DOMAIN TreeDict' \in SUBSET Key
        /\ \A k \in W : (k \in DOMAIN TreeDict <=> k \in DOMAIN d) /\ (k \in DOMAIN TreeDict => TreeDict[k] = d[k])
        /\ \A k \in W : (k \in DOMAIN TreeDict' <=> k \in DOMAIN e) /\ (k \in DOMAIN TreeDict' => TreeDict'[k] = e[k])
        /\ \A k \in Key \ W : /\ k \in DOMAIN TreeDict' <=> k \in DOMAIN TreeDict
                              /\ k \in DOMAIN TreeDict' => TreeDict'[k] = TreeDict[k]
    BY LeafDict, DictFacts, DictFactsNext
  <1>5. Inserts(d, e) \/ Updates(d, e) \/ Removes(d, e) \/ Reads(d, e)
    BY LeafEffects
  <1>6. \A i, j \in W : \A k \in Key : i <= k /\ k <= j => k \in W
    <2>1. cur \in Used /\ Stored(Q) /\ Live \in SUBSET Addr
      BY <1>1, RunningFacts DEF Sound, Wiring, CurHere
    <2>2. remote_address[cur] \in Addr
      BY <2>1, CopyOf
    <2>3. Q[remote_address[cur]].lo \in Int /\ Q[remote_address[cur]].hi \in Int
      BY <2>2, NodeSeqs
    <2>4. PICK lo \in Int, hi \in Int : W = {k \in Key : lo < k /\ k <= hi}
      BY <2>3 DEF Within
    <2>5. Key \subseteq Int
      BY TreeAssumption DEF Key
    <2> HIDE DEF W
    <2> QED BY <2>4, <2>5
  <1>7. op.kind = "insert" => Cardinality(DOMAIN d) < LeafMax
    BY <1>1, LeafHasRoom
  <1> HIDE DEF d, e, W, q, v
  <1>8. ASSUME op.kind # "ctor"
        PROVE  /\ e = d => TreeDict' = TreeDict
               /\ e = PutEntry(d, q, v) => TreeDict' = PutEntry(TreeDict, q, v)
               /\ e = Restrict(d, DOMAIN d \ {q}) => TreeDict' = Restrict(TreeDict, DOMAIN TreeDict \ {q})
               /\ q \in DOMAIN TreeDict <=> q \in DOMAIN d
               /\ q \in DOMAIN d => TreeDict[q] = d[q]
    <2>1. q \in W /\ DOMAIN d \subseteq W /\ W \subseteq Key /\ DOMAIN TreeDict \subseteq Key /\ DOMAIN TreeDict' \subseteq Key
      BY <1>3, <1>4, <1>8
    <2>2. AgreeOn(TreeDict, d, W) /\ AgreeOn(TreeDict', e, W) /\ AgreeOn(TreeDict', TreeDict, Key \ W)
      BY <1>4 DEF AgreeOn
    <2>3. IsMap(TreeDict) /\ IsMap(TreeDict')
      BY DictFunction DEF IsMap
    <2>4. Slices(TreeDict, TreeDict', d, e, W, Key)
      BY <2>1, <2>2, <2>3 DEF Slices
    <2>5. /\ e = d => TreeDict' = TreeDict
          /\ e = PutEntry(d, q, v) => TreeDict' = PutEntry(TreeDict, q, v)
          /\ e = Restrict(d, DOMAIN d \ {q}) => TreeDict' = Restrict(TreeDict, DOMAIN TreeDict \ {q})
      BY <2>1, <2>4, DictWrites
    <2> QED BY <1>4, <2>1, <2>5
  <1>9. CASE Inserts(d, e)
    <2>1. op.kind = "insert" /\ q \in Key /\ v \in Val
      BY <1>3, <1>9 DEF Inserts
    <2>2. /\ e = PutEntry(d, q, v)
          /\ ret' = [op |-> op, res |-> q \notin DOMAIN d /\ Cardinality(DOMAIN d) < LeafMax]
      BY <1>7, <1>9, <2>1 DEF Inserts, PutEntry, q, v
    <2>3. (q \notin DOMAIN d /\ Cardinality(DOMAIN d) < LeafMax) = ~KV!Has(q)
      BY <1>7, <1>8, <2>1 DEF KV!Has
    <2>4. ret' = [op |-> [kind |-> "insert", key |-> q, val |-> v], res |-> ~KV!Has(q)]
      BY <1>3, <2>1, <2>2, <2>3
    <2>5. KV!Return("insert", q, v, ~KV!Has(q))
      BY <2>4 DEF KV!Return
    <2>6. TreeDict' = PutEntry(TreeDict, q, v)
      BY <1>8, <2>1, <2>2
    <2>7. KV!Insert(q, v)
      BY <2>5, <2>6 DEF KV!Insert, PutEntry
    <2> QED BY <2>1, <2>7 DEF KV!Next
  <1>10. CASE Updates(d, e)
    <2>1. op.kind = "update" /\ q \in Key /\ v \in Val
      BY <1>3, <1>10 DEF Updates
    <2>2. /\ q \in DOMAIN d => e = PutEntry(d, q, v)
          /\ q \notin DOMAIN d => e = d
          /\ ret' = [op |-> op, res |-> q \in DOMAIN d]
      BY <1>10 DEF Updates, PutEntry, q, v
    <2>3. (q \in DOMAIN d) = KV!Has(q)
      BY <1>8, <2>1 DEF KV!Has
    <2>4. ret' = [op |-> [kind |-> "update", key |-> q, val |-> v], res |-> KV!Has(q)]
      BY <1>3, <2>1, <2>2, <2>3
    <2>5. KV!Return("update", q, v, KV!Has(q))
      BY <2>4 DEF KV!Return
    <2>6. CASE q \in DOMAIN d
      <3>1. TreeDict' = PutEntry(TreeDict, q, v)
        BY <1>8, <2>1, <2>2, <2>6
      <3>2. q \in DOMAIN TreeDict /\ KV!Has(q)
        BY <2>3, <2>6 DEF KV!Has
      <3>3. DOMAIN TreeDict \union {q} = DOMAIN TreeDict
        BY <3>2
      <3>4. TreeDict' = [x \in DOMAIN TreeDict |-> IF x = q THEN v ELSE TreeDict[x]]
        BY <3>1, <3>3 DEF PutEntry
      <3>5. TreeDict' = [TreeDict EXCEPT ![q] = v]
        BY <3>4
      <3>6. KV!Update(q, v)
        BY <2>5, <3>2, <3>5 DEF KV!Update
      <3> QED BY <2>1, <3>6 DEF KV!Next
    <2>7. CASE q \notin DOMAIN d
      <3>1. TreeDict' = TreeDict /\ ~KV!Has(q)
        BY <1>8, <2>1, <2>2, <2>3, <2>7
      <3>2. KV!Update(q, v)
        BY <2>5, <3>1 DEF KV!Update
      <3> QED BY <2>1, <3>2 DEF KV!Next
    <2> QED BY <2>6, <2>7
  <1>11. CASE Removes(d, e)
    <2>1. op.kind = "remove" /\ q \in Key /\ v = NoVal
      BY <1>3, <1>11 DEF Removes
    <2>2. e = Restrict(d, DOMAIN d \ {q}) /\ ret' = [op |-> op, res |-> q \in DOMAIN d]
      BY <1>11 DEF Removes, q
    <2>3. (q \in DOMAIN d) = KV!Has(q)
      BY <1>8, <2>1 DEF KV!Has
    <2>4. ret' = [op |-> [kind |-> "remove", key |-> q, val |-> NoVal], res |-> KV!Has(q)]
      BY <1>3, <2>1, <2>2, <2>3
    <2>5. KV!Return("remove", q, NoVal, KV!Has(q))
      BY <2>4 DEF KV!Return
    <2>6. TreeDict' = Restrict(TreeDict, DOMAIN TreeDict \ {q})
      BY <1>8, <2>1, <2>2
    <2>7. KV!Remove(q)
      BY <2>5, <2>6 DEF KV!Remove, Restrict
    <2> QED BY <2>1, <2>7 DEF KV!Next
  <1>12. CASE Reads(d, e) /\ op.kind = "lookup"
    <2>1. q \in Key /\ v = NoVal /\ op.kind # "ctor"
      BY <1>3, <1>12
    <2>2. e = d /\ ret' = [op |-> op, res |-> IF q \in DOMAIN d THEN d[q] ELSE NoVal]
      BY <1>12 DEF Reads, q
    <2>3. (IF q \in DOMAIN d THEN d[q] ELSE NoVal) = IF KV!Has(q) THEN TreeDict[q] ELSE NoVal
      BY <1>8, <2>1 DEF KV!Has
    <2>4. ret' = [op |-> [kind |-> "lookup", key |-> q, val |-> NoVal], res |-> IF KV!Has(q) THEN TreeDict[q] ELSE NoVal]
      BY <1>3, <1>12, <2>1, <2>2, <2>3
    <2>5. KV!Return("lookup", q, NoVal, IF KV!Has(q) THEN TreeDict[q] ELSE NoVal)
      BY <2>4 DEF KV!Return
    <2>6. TreeDict' = TreeDict
      BY <1>8, <2>1, <2>2
    <2>7. KV!Lookup(q)
      BY <2>5, <2>6 DEF KV!Lookup
    <2> QED BY <2>1, <2>7 DEF KV!Next
  <1>13. CASE Reads(d, e) /\ op.kind = "scan"
    <2>1. q \in Key /\ q \in W /\ v \in ScanLen /\ v \in Nat /\ op.kind # "ctor"
      BY <1>3, <1>13, TreeAssumption
    <2>2. e = d /\ ret' = [op |-> op, res |-> FirstOf(d, q, v)]
      BY <1>13 DEF Reads, q, v, FirstOf, From
    <2>3. Key \subseteq Int /\ IsFiniteSet(Key)
      BY TreeAssumption, FS_Interval DEF Key
    <2>4. IsFiniteSet(DOMAIN TreeDict)
      BY <1>4, <2>3, FS_Subset
    <2>5. PICK n \in 0 .. v :
            (q \in DOMAIN TreeDict /\ v > 0 => n > 0) /\ FirstOf(d, q, v) = FirstOf(TreeDict, q, n)
      <3>1. DOMAIN d \subseteq W /\ W \subseteq Key /\ DOMAIN TreeDict \subseteq Key
        BY <1>4
      <3>2. AgreeOn(TreeDict, d, W)
        BY <1>4 DEF AgreeOn
      <3>3. Slice(TreeDict, d, W, Key)
        BY <1>6, <2>3, <2>4, <3>1, <3>2 DEF Slice
      <3> QED BY <2>1, <3>3, ScanRun
    <2>6. TreeDict' = TreeDict
      BY <1>8, <2>1, <2>2
    <2>7. ret' = [op |-> [kind |-> "scan", key |-> q, val |-> v], res |-> FirstOf(TreeDict, q, n)]
      BY <1>3, <1>13, <2>2, <2>5
    <2>8. KV!Return("scan", q, v, FirstOf(TreeDict, q, n))
      BY <2>7 DEF KV!Return
    <2>9. KV!RangeScan(q, v)
      BY <2>1, <2>5, <2>6, <2>8, KVRun
    <2> QED BY <2>1, <2>9 DEF KV!Next
  <1>14. CASE Reads(d, e) /\ op.kind = "ctor"
    <2>1. e = d /\ ret' = [op |-> op, res |-> TRUE] /\ op = NoCall
      BY <1>3, <1>14 DEF Reads
    <2>2. \A k \in Key : SameEntry(k)
      BY <1>1, <2>1, LeafEntries DEF SameEntry, d, e
    <2>3. TreeDict' = TreeDict
      BY <2>2, SameDict
    <2>4. KV!Constructed
      BY <2>1, <2>3 DEF KV!Constructed, KV!NoCall, NoCall
    <2> QED BY <2>4 DEF KV!Next
  <1> QED BY <1>5, <1>9, <1>10, <1>11, <1>12, <1>13, <1>14 DEF Reads

\* Only a call and the operation in its leaf have a result.
LEMMA RetSteps ==
  ASSUME [Next]_vars
  PROVE  ret' = ret \/ (\E o \in Calls : Begin(o)) \/ LeafStep
  <1>1. CASE VisitHit \/ VisitMiss \/ LoadSibling \/ AdmitLoad
    BY <1>1 DEF VisitHit, VisitMiss, LoadSibling, LoadChild, AdmitLoad
  <1>2. CASE SplitLeaf \/ SplitInner \/ AdmitSib
    BY <1>2 DEF SplitLeaf, SplitInner, AdmitSib
  <1>3. CASE RequestUnpinned \/ PoolStep \/ UNCHANGED vars
    BY <1>3 DEF RequestUnpinned, PoolStep, vars, treeVars
  <1>4. CASE LinkSibling \/ MakeNewRoot \/ AdmitRoot \/ Destroy
    BY <1>4 DEF LinkSibling, MakeNewRoot, AdmitRoot, Destroy
  <1>5. ASSUME NEW s \in Slot, SampleDemote(s) \/ SampleStale(s) \/ SampleOrphan(s) \/ SampleAssert(s)
        PROVE  ret' = ret
    BY <1>5 DEF SampleDemote, SampleStale, SampleOrphan, SampleAssert
  <1> QED BY <1>1, <1>2, <1>3, <1>4, <1>5 DEF Next, TreeStep, LeafStep

\* Every step of the tree is a step of the dictionary, or nothing a caller can see.
LEMMA NextKV ==
  FenceInv /\ [Next]_vars /\ NoDanglingRef' /\ Fits'
    => [Sane /\ Sane' /\ pc # "closed" => KV!Next]_<<TreeDict, ret>>
  <1> SUFFICES ASSUME FenceInv, [Next]_vars, NoDanglingRef', Fits', pc' # "aborted"
               PROVE  KV!Next \/ UNCHANGED <<TreeDict, ret>>
    BY DEF Sane
  <1>1. FenceInv'
    BY FenceNext
  <1>2. Running /\ Running' /\ OnlyHotDirty
    BY <1>1, StillRunning DEF FenceInv
  <1>3. PICK Q \in [Addr -> NodeT] : Sound(Q)
    BY <1>2 DEF FenceInv, FencesHold, Running
  <1>4. PICK P \in [Addr -> NodeT] : Sound(P)' /\ Edit(Q, P)
    BY <1>2, <1>3, SoundStep
  <1>5. CASE LeafStep
    BY <1>2, <1>3, <1>4, <1>5, LeafKV
  <1>6. CASE ~LeafStep
    <2>1. \A k \in Key : SameEntry(k)
      BY <1>2, <1>3, <1>4, <1>6, QuietEntry
    <2>2. TreeDict' = TreeDict
      BY <2>1, SameDict
    <2>3. ASSUME NEW o \in Calls, Begin(o) PROVE KV!Call
      BY <2>2, <2>3 DEF Begin, Pending, NoCall, KV!Call, KV!Pending, KV!NoCall
    <2> QED BY <1>6, <2>2, <2>3, RetSteps DEF KV!Next
  <1> QED BY <1>5, <1>6

\* The constructor's leaf is the empty dictionary.
LEMMA InitKV == Init => KV!Init
  <1> SUFFICES ASSUME Init PROVE KV!Init
    OBVIOUS
  <1>1. FenceInv /\ pc = "visit"
    BY FenceInit DEF Init
  <1>2. Running
    BY <1>1 DEF FenceInv, ContInv, Running
  <1>3. PICK Q \in [Addr -> NodeT] : Sound(Q)
    BY <1>1 DEF FenceInv, FencesHold
  <1>4. Live = {1} /\ 1 \in Addr
    BY SlotsAreNoAddresses DEF Init, Live
  <1>5. Q[1].data = <<>>
    <2>1. Used = {}
      BY DEF Init, PoolInit, Used, InUse
    <2>2. backend[1].node = Q[1]
      BY <1>1, <1>3, <1>4, <2>1 DEF Sound, Stored, UncachedPages, Cached
    <2>3. backend[1] = Image(Leaf(<<>>, MinLimit, MaxLimit), TRUE)
      BY <1>4 DEF Init
    <2> QED BY <2>2, <2>3 DEF Image, WithParent, Leaf
  <1>6. \A k \in Key : LeafFor(k) = <<>>
    BY <1>2, <1>3, <1>4, <1>5, LeafFound
  <1>7. DOMAIN TreeDict = {}
    BY <1>6, DictFacts
  <1>8. TreeDict = <<>>
    <2>1. TreeDict = [k \in {} |-> TreeDict[k]]
      BY <1>7, DictFunction
    <2> QED BY <2>1
  <1>9. ret = KV!Pending
    BY DEF Init, Pending, NoCall, KV!Pending, KV!NoCall
  <1> QED BY <1>8, <1>9 DEF KV!Init

\* The tree implements the dictionary: whatever is swizzled, evicted, reloaded or split,
\* an operation takes effect in its leaf, once, with the result the dictionary gives, and
\* no other step changes anything a caller can see.
THEOREM TreeImplementsKV == Spec /\ []NoDanglingRef /\ []Fits => ImplementsKV
  <1>1. Spec /\ []NoDanglingRef /\ []Fits => []FenceInv
    BY FenceInit, FenceNext, PTL DEF Spec
  <1>2. Spec /\ []NoDanglingRef /\ []Fits => [][Sane /\ Sane' /\ pc # "closed" => KV!Next]_<<TreeDict, ret>>
    BY <1>1, NextKV, PTL DEF Spec
  <1>3. Spec => KV!Init
    BY InitKV, PTL DEF Spec
  <1> QED BY <1>2, <1>3, PTL DEF ImplementsKV

-----------------------------------------------------------------------------
(* After the destructor *)

\* flush_all has left no dirty page.
Flushed == pc = "closed" => \A s \in Slot : ~dirty[s]

\* Nothing runs after the destructor.
LEMMA ClosedStays ==
  ASSUME PcPhase, pc = "closed", [Next]_vars
  PROVE  UNCHANGED vars
  <1>0. phase = "idle"
    BY DEF PcPhase
  <1>1. \A s \in Slot : ~SampleDemote(s) /\ ~SampleStale(s) /\ ~SampleOrphan(s) /\ ~SampleAssert(s)
    BY <1>0 DEF SampleDemote, SampleStale, SampleOrphan, SampleAssert, Sampled
  <1>2. ~PoolStep
    BY <1>0 DEF PoolStep, GetEmptyPage, Allocate, TakeLocal, EvictCool, ProbeFails, SampleExit
  <1>3. ~(VisitHit \/ VisitMiss \/ AdmitLoad \/ LoadSibling \/ SplitLeaf \/ SplitInner \/ AdmitSib)
    BY DEF VisitHit, VisitMiss, AdmitLoad, LoadSibling, SplitLeaf, SplitInner, AdmitSib
  <1>4. ~(RequestUnpinned \/ LinkSibling \/ MakeNewRoot \/ AdmitRoot \/ Destroy)
    BY DEF RequestUnpinned, LinkSibling, MakeNewRoot, AdmitRoot, Destroy
  <1>5. ~(LeafInsert \/ LeafLookup \/ LeafUpdate \/ LeafRemove \/ LeafScan \/ LeafCtor)
    BY DEF LeafInsert, LeafLookup, LeafUpdate, LeafRemove, LeafScan, LeafCtor, Finish
  <1>6. ASSUME NEW o \in Calls PROVE ~Begin(o)
    BY DEF Begin
  <1> QED BY <1>1, <1>2, <1>3, <1>4, <1>5, <1>6 DEF Next, TreeStep

\* Only the destructor closes the tree.
LEMMA CloseSteps ==
  ASSUME [Next]_vars, pc # "closed", pc' = "closed"
  PROVE  Destroy
  <1>1. CASE VisitHit \/ VisitMiss \/ LoadSibling \/ AdmitLoad
    BY <1>1 DEF VisitHit, VisitMiss, LoadSibling, LoadChild, AdmitLoad
  <1>2. CASE SplitLeaf \/ SplitInner \/ AdmitSib
    BY <1>2 DEF SplitLeaf, SplitInner, AdmitSib
  <1>3. CASE RequestUnpinned \/ PoolStep \/ UNCHANGED vars
    BY <1>3 DEF RequestUnpinned, PoolStep, vars, treeVars
  <1>4. CASE LinkSibling \/ MakeNewRoot \/ AdmitRoot \/ Destroy
    BY <1>4 DEF LinkSibling, MakeNewRoot, AdmitRoot
  <1>5. CASE LeafStep
    BY <1>5 DEF LeafStep, LeafInsert, LeafLookup, LeafUpdate, LeafRemove, LeafScan, LeafCtor, Finish
  <1>6. ASSUME NEW o \in Calls, Begin(o) PROVE FALSE
    BY <1>6 DEF Begin
  <1>7. ASSUME NEW s \in Slot, SampleDemote(s) \/ SampleStale(s) \/ SampleOrphan(s) \/ SampleAssert(s)
        PROVE  FALSE
    BY <1>7 DEF SampleDemote, SampleStale, SampleOrphan, SampleAssert
  <1> QED BY <1>1, <1>2, <1>3, <1>4, <1>5, <1>6, <1>7 DEF Next, TreeStep, LeafStep

\* So its flush is the last word.
LEMMA FlushedNext == FenceInv /\ Flushed /\ [Next]_vars => Flushed'
  <1> SUFFICES ASSUME FenceInv, Flushed, [Next]_vars, pc' = "closed" PROVE \A s \in Slot : ~dirty'[s]
    BY DEF Flushed
  <1>1. CASE pc = "closed"
    <2>1. UNCHANGED vars
      BY <1>1, ClosedStays DEF FenceInv, ContInv, WireInv
    <2>2. dirty' = dirty
      BY <2>1 DEF vars, poolVars, pages
    <2> QED BY <1>1, <2>2 DEF Flushed
  <1>2. CASE pc # "closed"
    <2>1. dirty' = [s \in Slot |-> FALSE]
      BY <1>2, CloseSteps DEF Destroy, FlushAll
    <2> QED BY <2>1
  <1> QED BY <1>1, <1>2

\* The pages of the backend, as a tree of their own: nothing they name is in the pool, their
\* limits agree and no key lies within the limits of two leaves.
Remote == [a \in Addr |-> backend[a].node]
RemoteSound ==
  /\ Remote \in [Addr -> NodeT] /\ \A a \in Addr : Shape(Remote[a]) /\ Untagged(Remote[a])
  /\ cur_offset \in 2 .. BackendPages
  /\ Linked(Remote, Live, root_, {}) /\ Fenced(Remote, Live, root_, NullAddr, NullAddr)
  /\ Apart(Remote) /\ Remote[root_].level + 2 <= cur_offset

\* With no dirty page they are the pages of the tree.
LEMMA FlushedRemote ==
  ASSUME FenceInv, Flushed, pc = "closed"
  PROVE  RemoteSound /\ Sound(Remote) /\ Running
  <1>1. Running
    BY DEF Running, FenceInv, ContInv
  <1>2. PICK Q \in [Addr -> NodeT] : Sound(Q)
    BY DEF FenceInv, FencesHold
  <1>3. CachedPages(Q) /\ UncachedPages(Q) /\ Used \in SUBSET Slot
    BY <1>1, <1>2, RunningFacts DEF Sound, Stored
  <1>4. ASSUME NEW a \in Addr PROVE backend[a].node = Q[a]
    <2>1. backend[a].node = Q[a] \/ Cached(a)
      BY <1>3 DEF UncachedPages
    <2>2. ASSUME NEW s \in Used, remote_address[s] = a PROVE backend[a].node = Q[a]
      <3>1. ~dirty[s]
        BY <1>3 DEF Flushed
      <3> QED BY <1>3, <2>2, <3>1 DEF CachedPages
    <2> QED BY <2>1, <2>2 DEF Cached
  <1>5. Remote = Q
    BY <1>4 DEF Remote
  <1>6. Halves = {} /\ SplitC = NullAddr /\ SplitR = NullAddr
    BY DEF Halves, SplitC, SplitR
  <1>7. \A a \in Addr : Shape(Remote[a]) /\ Untagged(Remote[a])
    BY <1>1, RunningFacts DEF Shapes, Remote
  <1>8. cur_offset \in 2 .. BackendPages
    BY <1>1, RunningFacts DEF TreeTypes
  <1>9. Sound(Remote)
    BY <1>2, <1>5
  <1> QED BY <1>1, <1>2, <1>5, <1>6, <1>7, <1>8, <1>9 DEF RemoteSound, Sound, Spread

\* Where its pages are.
LEMMA RemoteFacts ==
  ASSUME RemoteSound
  PROVE  /\ Live \in SUBSET (Addr \ {NullAddr}) /\ root_ \in Live /\ BackendPages \in Nat
         /\ \A x \in Live : Remote[x] \in NodeT /\ PageOK(Remote[x]) /\ Remote[x].level \in Nat
         /\ Remote[root_].level <= BackendPages
         /\ \A k \in Key : Within(Remote[root_], k)
  <1>1. BackendPages \in Nat /\ cur_offset \in 2 .. BackendPages
    BY AddrAssumption DEF RemoteSound
  <1>2. Live \in SUBSET (Addr \ {NullAddr})
    BY <1>1 DEF Live, Addr, NullAddr
  <1>3. root_ \in Live
    BY DEF RemoteSound, Linked
  <1>4. \A x \in Live : Remote[x] \in NodeT /\ PageOK(Remote[x]) /\ Remote[x].level \in Nat
    <2>1. \A x \in Live : Remote[x] \in NodeT /\ PageOK(Remote[x])
      BY <1>2 DEF RemoteSound, Fenced
    <2> QED BY <2>1 DEF NodeT
  <1>5. Remote[root_].level <= BackendPages
    <2>1. Remote[root_].level + 2 <= cur_offset
      BY DEF RemoteSound
    <2> QED BY <1>1, <1>3, <1>4, <2>1
  <1>6. Remote[root_].lo = MinLimit /\ Remote[root_].hi = MaxLimit
    <2>1. root_ # NullAddr
      BY <1>2, <1>3
    <2> QED BY <2>1 DEF RemoteSound, Fenced, HiOf
  <1>7. \A k \in Key : Within(Remote[root_], k)
    BY <1>6, TreeAssumption DEF Within, MinLimit, MaxLimit, Key
  <1> QED BY <1>1, <1>2, <1>3, <1>4, <1>5, <1>7

\* No page of the backend names anything but pages of the backend.
LEMMA RemoteClosed ==
  ASSUME \A a \in Addr : backend[a].node \in NodeT /\ Shape(backend[a].node) /\ Untagged(backend[a].node), NEW k
  PROVE  \A x \in Addr : Remote[x].type = "inner" => NextRef(Remote, k, x) \in Addr
  <1>1. ASSUME NEW n \in NodeT, Shape(n), Untagged(n), n.type = "inner"
        PROVE  n.kids[lowerBound(n, k)] \in Addr
    <2>1. lowerBound(n, k) \in 1 .. Len(n.kids) /\ DOMAIN n.kids = 1 .. Len(n.kids)
      BY <1>1, LowerBoundRange, NodeSeqs DEF Shape
    <2>2. n.kids[lowerBound(n, k)] \in Ref /\ n.kids[lowerBound(n, k)] \notin Slot
      BY <1>1, <2>1, NodeSeqs DEF Untagged, Swizzled
    <2> QED BY <2>2 DEF Ref
  <1> QED BY <1>1 DEF Remote, NextRef

\* From a page whose limits hold k the walk for k goes to another, one level lower.
LEMMA RemoteKid ==
  ASSUME RemoteSound, NEW k \in Key, NEW x \in Live, Within(Remote[x], k), Remote[x].type = "inner"
  PROVE  /\ NextRef(Remote, k, x) \in Live /\ Within(Remote[NextRef(Remote, k, x)], k)
         /\ Remote[NextRef(Remote, k, x)].level + 1 = Remote[x].level
  <1> DEFINE i == lowerBound(Remote[x], k)
  <1>1. k \in Int
    BY TreeAssumption DEF Key
  <1>2. Remote[x] \in NodeT /\ PageOK(Remote[x])
    BY RemoteFacts
  <1>3. i \in 1 .. Len(Remote[x].kids) /\ KidLo(Remote[x], i) < k /\ k <= KidHi(Remote[x], i)
    BY <1>1, <1>2, WalkLimits DEF Within
  <1>4. NextRef(Remote, k, x) = Remote[x].kids[i]
    BY DEF NextRef
  <1> HIDE DEF i
  <1>5. PICK b : b = Remote[x].kids[i]
    OBVIOUS
  <1>6. b \in Live /\ b # NullAddr
    BY <1>3, <1>5, RemoteFacts DEF RemoteSound, Linked
  <1>7. KidFits(Remote, x, i, NullAddr, NullAddr)
    BY <1>3 DEF RemoteSound, Fenced
  <1>8. Remote[b].lo < k /\ k <= Remote[b].hi /\ Remote[b].level + 1 = Remote[x].level
    BY <1>3, <1>5, <1>6, <1>7 DEF KidFits, HiOf
  <1> QED BY <1>4, <1>5, <1>6, <1>8 DEF Within

\* So it ends in a leaf whose limits hold k.
LEMMA RemoteLeaf ==
  ASSUME RemoteSound, NEW k \in Key
  PROVE  \E x \in Live : /\ Remote[x].type = "leaf" /\ Within(Remote[x], k)
                         /\ RemoteLeafFor(k) = Remote[x].data
  <1> DEFINE lev == [a \in Addr |-> Remote[a].level]
             G == {a \in Live : Within(Remote[a], k)}
  <1>1. /\ Live \in SUBSET Addr /\ root_ \in G /\ BackendPages \in Nat
        /\ \A x \in Live : PageOK(Remote[x]) /\ Remote[x].level \in Nat
        /\ Remote[root_].level <= BackendPages /\ DOMAIN Remote = Addr
    BY RemoteFacts DEF Remote
  <1>2. Closed(Remote, k)
    <2>1. \A a \in Addr : backend[a].node \in NodeT /\ Shape(backend[a].node) /\ Untagged(backend[a].node)
      BY DEF RemoteSound, Remote
    <2> QED BY <1>1, <2>1, RemoteClosed DEF Closed
  <1>3. ASSUME NEW x \in G
        PROVE  x \in Addr /\ lev[x] \in Nat /\ (Remote[x].type = "inner" => lev[x] # 0)
    <2>1. x \in Addr /\ lev[x] = Remote[x].level
      BY <1>1
    <2> QED BY <1>1, <2>1 DEF PageOK
  <1>4. ASSUME NEW x \in G, Remote[x].type = "inner"
        PROVE  NextRef(Remote, k, x) \in G /\ lev[NextRef(Remote, k, x)] + 1 = lev[x]
    <2>1. /\ NextRef(Remote, k, x) \in Live /\ Within(Remote[NextRef(Remote, k, x)], k)
          /\ Remote[NextRef(Remote, k, x)].level + 1 = Remote[x].level
      BY <1>4, RemoteKid
    <2> QED BY <1>1, <2>1
  <1>5. G \subseteq DOMAIN Remote /\ lev[root_] <= BackendPages
    BY <1>1
  <1> HIDE DEF lev, G
  <1>6. \E x \in G : Remote[x].type # "inner" /\ Descend(Remote, k, root_) = Remote[x].data
    BY <1>1, <1>2, <1>3, <1>4, <1>5, DescendFinds
  <1> QED BY <1>1, <1>6 DEF G, PageOK, RemoteLeafFor, Remote

\* With no dirty page, a walk of the backend alone finds the leaf a walk of the tree does.
LEMMA FlushedDurable == FenceInv /\ Flushed => FlushDurable
  <1> SUFFICES ASSUME FenceInv, Flushed, pc = "closed", NEW k \in Key
               PROVE  RemoteLeafFor(k) = LeafFor(k)
    BY DEF FlushDurable
  <1>1. RemoteSound /\ Sound(Remote) /\ Running /\ Remote \in [Addr -> NodeT]
    BY FlushedRemote DEF RemoteSound
  <1>2. PICK x \in Live : Remote[x].type = "leaf" /\ Within(Remote[x], k) /\ RemoteLeafFor(k) = Remote[x].data
    BY <1>1, RemoteLeaf
  <1>3. PICK y \in Live : Remote[y].type = "leaf" /\ Within(Remote[y], k) /\ LeafFor(k) = Remote[y].data
    BY <1>1, LeafFound
  <1>4. x = y
    BY <1>1, <1>2, <1>3, OneLeaf
  <1> QED BY <1>2, <1>3, <1>4

\* The destructor loses nothing: from root_, the backend alone has every key's leaf as the
\* tree had it.
THEOREM FlushIsDurable == Spec /\ []NoDanglingRef /\ []Fits => []FlushDurable
  <1>1. Init => Flushed
    BY DEF Init, Flushed
  <1> QED BY <1>1, FenceInit, FenceNext, FlushedNext, FlushedDurable, PTL DEF Spec

-----------------------------------------------------------------------------
(* The sampler has work to do *)

\* Among finitely many there is a highest one.
LEMMA Highest ==
  ASSUME NEW U, IsFiniteSet(U), U # {}, NEW lev \in [U -> Nat]
  PROVE  \E m \in U : \A x \in U : lev[m] >= lev[x]
  <1> DEFINE above(x) == {y \in U : lev[y] > lev[x]}
             N == {Cardinality(above(x)) : x \in U}
  <1>1. \A x \in U : above(x) \in SUBSET U
    OBVIOUS
  <1>2. \A x \in U : IsFiniteSet(above(x)) /\ Cardinality(above(x)) \in Nat
    BY <1>1, FS_Subset, FS_CardinalityType
  <1>3. N \in SUBSET Nat /\ N # {}
    BY <1>2
  <1>4. PICK n \in N : \A k \in N : n <= k
    BY <1>3, LeastNumber
  <1>5. PICK m \in U : n = Cardinality(above(m))
    BY <1>4
  <1>6. ASSUME NEW y \in U, lev[y] > lev[m] PROVE FALSE
    <2>1. lev[y] \in Nat /\ lev[m] \in Nat /\ \A z \in U : lev[z] \in Nat
      OBVIOUS
    <2>2. above(y) \in SUBSET above(m)
      BY <1>6, <2>1
    <2>3. y \in above(m) /\ y \notin above(y)
      BY <1>6, <2>1
    <2>4. Cardinality(above(y)) <= Cardinality(above(m)) /\ Cardinality(above(y)) # Cardinality(above(m))
      <3> HIDE DEF above
      <3> QED BY <1>2, <2>2, <2>3, FS_Subset
    <2>5. Cardinality(above(m)) <= Cardinality(above(y))
      BY <1>4, <1>5
    <2> HIDE DEF above
    <2> QED BY <1>2, <2>4, <2>5
  <1>7. \A x \in U : lev[m] \in Nat /\ lev[x] \in Nat
    OBVIOUS
  <1> QED BY <1>6, <1>7

\* If every page but the root r has another above it and every page but r and p has one
\* below it, of which it is the parent, there is one page on each level from p up.
LEMMA OneChain ==
  ASSUME NEW U, IsFiniteSet(U), NEW lev \in [U -> Nat], NEW par, NEW r, NEW p \in U, lev[p] # 0,
         \A x \in U : x # r => \E y \in U : lev[y] = lev[x] + 1,
         \A x \in U : x # r /\ x # p => \E y \in U : lev[y] + 1 = lev[x] /\ par[y] = x
  PROVE  r \in U /\ Cardinality(U) <= lev[r]
  <1>0. \A x \in U : lev[x] \in Nat
    OBVIOUS
  <1>1. PICK m \in U : \A x \in U : lev[m] >= lev[x]
    BY Highest
  <1>2. m = r
    <2> SUFFICES ASSUME m # r PROVE FALSE
      OBVIOUS
    <2>1. PICK y \in U : lev[y] = lev[m] + 1
      OBVIOUS
    <2> QED BY <1>0, <1>1, <2>1
  <1>3. \A x \in U : x # r => lev[x] < lev[r]
    <2> SUFFICES ASSUME NEW x \in U, x # r PROVE lev[x] < lev[r]
      OBVIOUS
    <2>1. PICK y \in U : lev[y] = lev[x] + 1
      OBVIOUS
    <2> QED BY <1>0, <1>1, <1>2, <2>1
  <1>4. \A x \in U : lev[p] <= lev[x]
    <2> DEFINE N == {lev[x] : x \in U}
    <2>1. N \in SUBSET Nat /\ N # {}
      BY <1>0
    <2>2. PICK n \in N : \A k \in N : n <= k
      BY <2>1, LeastNumber
    <2>3. PICK z \in U : n = lev[z]
      BY <2>2
    <2>4. \A x \in U : lev[z] <= lev[x]
      BY <2>2, <2>3
    <2>5. CASE z # r /\ z # p
      <3>1. PICK y \in U : lev[y] + 1 = lev[z]
        BY <2>5
      <3> QED BY <1>0, <2>4, <3>1
    <2>6. CASE z = r
      <3>1. p = r
        BY <1>0, <1>3, <2>4, <2>6
      <3> QED BY <2>4, <2>6, <3>1
    <2> QED BY <2>4, <2>5, <2>6
  <1>5. ASSUME NEW x \in U, NEW y \in U, lev[x] = lev[y], x # y PROVE FALSE
    <2> DEFINE T == {n \in Nat : \E a, b \in U : a # b /\ lev[a] = n /\ lev[b] = n}
    <2>1. lev[x] \in T
      BY <1>0, <1>5
    <2>2. PICK n \in T : \A k \in T : n <= k
      BY <2>1, LeastNumber
    <2>3. PICK a \in U, b \in U : a # b /\ lev[a] = n /\ lev[b] = n
      BY <2>2
    <2>4. a # r /\ b # r
      BY <1>0, <1>3, <2>3
    <2>5. ASSUME NEW c \in {a, b} PROVE c # p
      <3> SUFFICES ASSUME c = p PROVE FALSE
        OBVIOUS
      <3>1. PICK d \in {a, b} : d # p /\ lev[d] = lev[p]
        BY <2>3, <2>5
      <3>2. PICK y1 \in U : lev[y1] + 1 = lev[d]
        BY <2>3, <2>4, <3>1
      <3> QED BY <1>0, <1>4, <3>1, <3>2
    <2>6. PICK c \in U : lev[c] + 1 = lev[a] /\ par[c] = a
      BY <2>4, <2>5
    <2>7. PICK d \in U : lev[d] + 1 = lev[b] /\ par[d] = b
      BY <2>4, <2>5
    <2>8. c # d /\ lev[c] = n - 1 /\ lev[d] = n - 1 /\ n - 1 \in Nat
      BY <1>0, <2>3, <2>6, <2>7
    <2>9. n - 1 \in T
      BY <2>8
    <2> QED BY <2>2, <2>8, <2>9
  <1> DEFINE I == lev[p] .. lev[r]
  <1>6. lev \in Injection(U, I)
    <2>1. \A x \in U : lev[x] \in I
      BY <1>0, <1>1, <1>2, <1>4
    <2>2. lev \in [U -> I]
      BY <2>1
    <2> QED BY <1>5, <2>2 DEF Injection, IsInjective
  <1>7. r \in U /\ lev[p] \in Nat /\ lev[r] \in Nat /\ lev[p] >= 1 /\ lev[p] <= lev[r]
    BY <1>0, <1>1, <1>2
  <1>8. IsFiniteSet(I) /\ Cardinality(I) = lev[r] - lev[p] + 1
    BY <1>7, FS_Interval
  <1> HIDE DEF I
  <1>9. Cardinality(U) <= Cardinality(I) /\ Cardinality(U) \in Nat
    BY <1>6, <1>8, FS_Injection, FS_CardinalityType
  <1> QED BY <1>7, <1>8, <1>9

\* A swizzled child is one level below.
LEMMA KidLevel ==
  ASSUME Running, NEW Q \in [Addr -> NodeT], Stored(Q), Fenced(Q, Live, root_, SplitC, SplitR),
         NEW s \in Used, NEW c \in Swizzled(node[s])
  PROVE  node[c].level + 1 = node[s].level
  <1> DEFINE x == remote_address[s]
             y == remote_address[c]
             i == findIdx(node[s], c)
  <1>1. Wiring /\ c \in Used /\ c \in Slot /\ s \in Slot
    BY RunningFacts DEF Used
  <1>2. /\ x \in Live /\ node[s] \in NodeT /\ SameText(Q[x], node[s])
        /\ \A j \in 1 .. Len(node[s].kids) : Q[x].kids[j] = At(node[s].kids[j], remote_address)
    BY CopyOf
  <1>3. SameText(Q[y], node[c])
    BY <1>1, CopyOf
  <1>4. i \in DOMAIN node[s].kids /\ node[s].kids[i] = c
    BY <1>1, <1>2, FindIdxFacts DEF Tagged
  <1>5. i \in 1 .. Len(Q[x].kids) /\ Q[x].kids[i] = y
    BY <1>1, <1>2, <1>4, NodeSeqs DEF SameText, At
  <1>6. KidFits(Q, x, i, SplitC, SplitR)
    BY <1>2, <1>5 DEF Fenced
  <1> QED BY <1>2, <1>3, <1>5, <1>6 DEF KidFits, SameText

\* A page in use that is no victim is pinned, hangs from super_root_ or has a swizzled
\* child, which is one level lower.
LEMMA NoVictimKid ==
  ASSUME Running, NEW Q \in [Addr -> NodeT], Stored(Q), Fenced(Q, Live, root_, SplitC, SplitR),
         phase = "sample", \A s \in Slot : ~Victim(s), NEW x \in Used, x # pin, node[x].parent # Super
  PROVE  \E y \in Used : node[y].level + 1 = node[x].level /\ node[y].parent = x
  <1>1. Wiring /\ OwnTypes /\ SlotOwnership /\ x \in Slot /\ node[x] \in NodeT
    BY RunningFacts, CopyOf
  <1>2. x # page
    BY <1>1, SlotAssumption DEF OwnTypes
  <1>3. pos_state[x] = 2
    BY <1>1, <1>2 DEF SlotOwnership, OwnerTagged, Used, InUse
  <1>4. node[x].parent \in Slot \union {NoSlot}
    BY <1>1 DEF NodeT
  <1>5. node[x].bitmap # {}
    BY <1>1, <1>3, <1>4 DEF Victim, Sampled, HotSlots
  <1>6. Wired(node[x]) /\ \A c \in Swizzled(node[x]) : c \in Used /\ node[c].parent = x
    BY <1>1 DEF Wiring, Wires
  <1>7. PICK c \in Swizzled(node[x]) : TRUE
    BY <1>5, <1>6, SwizzledFacts
  <1> QED BY <1>6, <1>7, KidLevel

\* Then there are no more pages in use than the path to the pinned page has, or the
\* halves of a split root.
LEMMA NoVictimFew ==
  ASSUME FenceInv, Sane, phase = "sample", \A s \in Slot : ~Victim(s)
  PROVE  Cardinality(Used) <= Unavailable /\ Cardinality(Used) \in Nat /\ IsFiniteSet(Used)
  <1> DEFINE lev == [s \in Used |-> node[s].level]
             par == [s \in Used |-> node[s].parent]
  <1>1. Running
    BY DEF Running, FenceInv, ContInv, Sane
  <1>2. PICK Q \in [Addr -> NodeT] : Stored(Q) /\ Fenced(Q, Live, root_, SplitC, SplitR)
    BY DEF FenceInv, FencesHold, Sane, Sound
  <1>3. /\ TreeTypes /\ PcPhase /\ Wiring /\ pc \in {"load", "sib", "root"} /\ Used \in SUBSET Slot
        /\ \A s \in Slot : node[s] \in NodeT
    BY <1>1, RunningFacts DEF PcPhase
  <1>4. lev \in [Used -> Nat] /\ \A s \in Used : lev[s] = node[s].level /\ par[s] = node[s].parent
    BY <1>3 DEF NodeT
  <1>5. IsFiniteSet(Used) /\ Cardinality(Used) \in Nat
    BY <1>3, FiniteAssumption, FS_Subset, FS_CardinalityType
  <1> HIDE DEF lev, par
  <1>6. ASSUME NEW x \in Used, x # pin, par[x] # Super
        PROVE  \E y \in Used : lev[y] + 1 = lev[x] /\ par[y] = x
    BY <1>1, <1>2, <1>4, <1>6, NoVictimKid
  <1>7. Contents(super).level \in Nat
    BY <1>3 DEF TreeTypes, Contents, Ref, NodeT
  <1>8. /\ Unavailable \in Nat /\ Unavailable >= 2 /\ Unavailable >= Contents(super).level
    <2> DEFINE h == height_ - 1
    <2>1. h = Contents(super).level /\ h \in Nat
      BY <1>7 DEF height_
    <2> HIDE DEF h
    <2>2. \E m \in {h, 2} : \A n \in {h, 2} : m >= n
      BY <2>1
    <2>3. Unavailable \in {h, 2} /\ \A n \in {h, 2} : Unavailable >= n
      BY <2>2 DEF Unavailable, Max, h
    <2> QED BY <2>1, <2>3
  <1>9. CASE pin # NoSlot
    <2>1. pc = "load" /\ pin = cur /\ cur # Super
      BY <1>3, <1>9 DEF PcPhase
    <2>2. cur \in Used /\ node[cur].type = "inner"
      BY <1>3, <2>1 DEF Wiring, CurHere
    <2>3. lev[cur] # 0
      <3>1. remote_address[cur] \in Live /\ SameText(Q[remote_address[cur]], node[cur])
        BY <1>1, <1>2, <2>2, CopyOf
      <3>2. PageOK(Q[remote_address[cur]])
        BY <1>2, <3>1 DEF Fenced
      <3> QED BY <1>4, <2>2, <3>1, <3>2 DEF PageOK, SameText
    <2>4. \A x \in Used : x # super => node[x].parent \in Used /\ x \in Swizzled(node[node[x].parent])
      BY <1>3, <2>1 DEF Wiring, Anchored
    <2>5. \A x \in Used : x # super => \E y \in Used : lev[y] = lev[x] + 1
      <3> SUFFICES ASSUME NEW x \in Used, x # super PROVE \E y \in Used : lev[y] = lev[x] + 1
        OBVIOUS
      <3>1. node[x].parent \in Used /\ x \in Swizzled(node[node[x].parent])
        BY <2>4
      <3>2. node[x].level + 1 = node[node[x].parent].level
        BY <1>1, <1>2, <3>1, KidLevel
      <3> QED BY <1>4, <3>1, <3>2
    <2>6. \A x \in Used : x # super /\ x # cur => \E y \in Used : lev[y] + 1 = lev[x] /\ par[y] = x
      <3> SUFFICES ASSUME NEW x \in Used, x # super, x # cur
                   PROVE  \E y \in Used : lev[y] + 1 = lev[x] /\ par[y] = x
        OBVIOUS
      <3>1. par[x] # Super
        BY <1>3, <1>4, <2>4, SlotsAreNoAddresses
      <3> QED BY <1>6, <2>1, <3>1
    <2>7. super \in Used /\ Cardinality(Used) <= lev[super]
      BY <1>4, <1>5, <2>2, <2>3, <2>5, <2>6, OneChain
    <2>8. lev[super] = Contents(super).level
      BY <1>3, <1>4, <2>7 DEF Contents
    <2> QED BY <1>5, <1>7, <1>8, <2>7, <2>8
  <1>10. CASE pin = NoSlot
    <2> DEFINE B == {x \in Used : par[x] # Super}
               N == {lev[x] : x \in B}
    <2>1. B = {}
      <3> SUFFICES ASSUME B # {} PROVE FALSE
        OBVIOUS
      <3>1. N \in SUBSET Nat /\ N # {}
        BY <1>4
      <3>2. PICK n \in N : \A k \in N : n <= k
        BY <3>1, LeastNumber
      <3>3. PICK x \in B : n = lev[x]
        BY <3>2
      <3>4. x # pin /\ x \in Slot
        BY <1>3, <1>10, SlotAssumption
      <3>5. PICK y \in Used : lev[y] + 1 = lev[x] /\ par[y] = x
        BY <1>6, <3>4
      <3>6. y \in B
        BY <3>4, <3>5, SlotsAreNoAddresses
      <3>7. lev[y] \in Nat /\ lev[x] \in Nat /\ lev[x] <= lev[y]
        BY <1>4, <3>2, <3>3, <3>5, <3>6
      <3> QED BY <3>5, <3>7
    <2>2. Used \in SUBSET {super, right}
      <3> SUFFICES ASSUME NEW x \in Used, x # super PROVE x = right
        OBVIOUS
      <3>1. node[x].parent = Super
        BY <1>4, <2>1
      <3>2. Super \notin Used
        BY <1>3, SlotsAreNoAddresses
      <3>3. pc = "sib" => \A c \in Swizzled(adm.node) : node[c].parent # Super
        BY <1>3, SlotsAreNoAddresses DEF Wiring, AdmHere, ChildHere
      <3> QED BY <1>3, <3>1, <3>2, <3>3 DEF Wiring, Anchored
    <2>3. IsFiniteSet({super, right}) /\ Cardinality({super, right}) <= 2
      <3>1. IsFiniteSet({super}) /\ Cardinality({super}) = 1
        BY FS_Singleton
      <3>2. IsFiniteSet({super} \union {right}) /\ Cardinality({super} \union {right}) <= 2
        BY <3>1, FS_AddElement
      <3>3. {super} \union {right} = {super, right}
        OBVIOUS
      <3> QED BY <3>2, <3>3
    <2>4. Cardinality(Used) <= 2
      BY <1>5, <2>2, <2>3, FS_Subset, FS_CardinalityType
    <2> QED BY <1>5, <1>8, <2>4
  <1> QED BY <1>9, <1>10

\* A pool that is large enough has more in use when the sampler runs.
LEMMA VictimThere == FenceInv /\ IdleBounded => SamplerFindsVictim
  <1> SUFFICES ASSUME FenceInv, IdleBounded, Sane, phase = "sample", \A s \in Slot : ~Victim(s),
                      Cardinality(Slot) >= Unavailable + num_pages_to_sample + (bucket_num_ - 1) * NUM_ENTRIES
               PROVE  FALSE
    BY DEF SamplerFindsVictim
  <1> DEFINE M == (bucket_num_ - 1) * NUM_ENTRIES
  <1>1. Cardinality(Used) <= Unavailable /\ Cardinality(Used) \in Nat /\ IsFiniteSet(Used)
    BY NoVictimFew
  <1>2. Used \in SUBSET Slot /\ SlotsNotInUse = Slot \ Used /\ Slot \intersect Used = Used
    BY DEF Used, SlotsNotInUse
  <1>3. Cardinality(SlotsNotInUse) = Cardinality(Slot) - Cardinality(Used) /\ Cardinality(Slot) \in Nat
    <2>1. Cardinality(Slot) \in Nat
      BY FiniteAssumption, FS_CardinalityType
    <2>2. Cardinality(Slot \ Used) = Cardinality(Slot) - Cardinality(Slot \cap Used)
      BY FiniteAssumption, FS_Difference, Zenon
    <2> QED BY <1>2, <2>1, <2>2
  <1>4. to_sample \in Nat /\ to_sample > 0 /\ num_pages_to_sample \in Nat /\ M \in Int
    BY TuningAssumption, TableAssumption DEF FenceInv, ContInv, OwnInv, OwnTypes
  <1>5. Cardinality(SlotsNotInUse) <= M + (num_pages_to_sample - to_sample)
    BY DEF IdleBounded
  <1>6. Unavailable \in Nat
    <2>1. TreeTypes
      BY DEF FenceInv, ContInv, WireInv
    <2>2. Contents(super).level \in Nat
      BY <2>1 DEF TreeTypes, Contents, Ref, NodeT
    <2> DEFINE h == height_ - 1
    <2>3. h \in Nat
      BY <2>2 DEF height_
    <2> HIDE DEF h
    <2>4. \E m \in {h, 2} : \A n \in {h, 2} : m >= n
      BY <2>3
    <2>5. Unavailable \in {h, 2}
      BY <2>4 DEF Unavailable, Max, h
    <2> QED BY <2>3, <2>5
  <1> HIDE DEF M
  <1>7. Cardinality(Slot) >= Unavailable + num_pages_to_sample + M
    BY DEF M
  <1> QED BY <1>1, <1>3, <1>4, <1>5, <1>6, <1>7

\* The tree's steps keep the bound on idle slots.
LEMMA TreeIdleNext == FenceInv /\ IdleBounded /\ [Next]_vars => IdleBounded'
  <1>1. FenceInv => ContInv /\ OwnInv
    BY DEF FenceInv, ContInv
  <1> QED BY <1>1, ContPool, IdleNext

\* sample_page is never forced to give up and end the process (exit(0)) in a pool that has
\* room for the pages in the walk's way, the pages one call demotes and those the eviction
\* may have missed: some page in use has no swizzled child, is not pinned and does not
\* hang from super_root_.
THEOREM SamplerHasWork == Spec /\ []NoDanglingRef /\ []Fits => []SamplerFindsVictim
  <1>1. Init => IdleBounded
    BY DEF Init, PoolInit, IdleBounded
  <1> QED BY <1>1, FenceInit, FenceNext, TreeIdleNext, VictimThere, PTL DEF Spec

=============================================================================
