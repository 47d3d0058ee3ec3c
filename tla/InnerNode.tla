------------------------------ MODULE InnerNode ------------------------------
(***************************************************************************)
(* BTreeInner (cache/BtreeNode.h) on its arrays: keys, children and the    *)
(* bitmap of swizzled children of one inner node, from the moment          *)
(* make_new_root fills it.  LeanStoreTree keeps sequences and moves bits   *)
(* with their children; here they are moved by memmove and by shifts and   *)
(* masks of a word, over arrays whose tails keep old entries.              *)
(***************************************************************************)
EXTENDS NodeArrays

CONSTANTS
  MaxKey,       \* keys are 1 .. MaxKey
  Child,        \* the pages below the node
  NoChild,      \* a zeroed reference
  max_entries,
  WordBits      \* bits of the bitmap word, 64

Key == 1 .. MaxKey
MinLimit == 0
MaxLimit == MaxKey + 1

\* BTreeNode assumes it.
InnerAssumption ==
  /\ MaxKey \in Nat /\ NoChild \notin Child
  /\ max_entries \in Nat \ (0 .. 3)
  /\ WordBits \in Nat /\ WordBits > max_entries

VARIABLES
  keys,        \* 0 .. max_entries - 1 -> key, 0 in a zeroed entry
  children,    \* 0 .. max_entries - 1 -> reference: the page, and whether it is tagged
  count,
  bitmap,      \* the bits that are set
  min_limit_, max_limit_,
  below        \* key -> the page whose subtree covers it

node == <<keys, children, count, bitmap, min_limit_, max_limit_>>
vars == <<node, below>>

Ref(c, tagged) == [page |-> c, tag |-> tagged]
NoRefs == [i \in 0 .. max_entries - 1 |-> Ref(NoChild, FALSE)]
NoKeys == [i \in 0 .. max_entries - 1 |-> 0]

-----------------------------------------------------------------------------
(* The word *)

Shr(w, n) == {b - n : b \in {x \in w : x >= n}}
Shl(w, n) == {b + n : b \in {x \in w : x + n < WordBits}}
LowBits(w, n) == {b \in w : b < n}

set_bitmap(w, idx) == w \union {idx}
unset_bitmap(w, idx) == w \ {idx}

\* closest_set: the two distances, WordBits where there is no bit, and the index; 0
\* is an index, so -1 is a result of its own.
tzcnt(w) == CHOOSE b \in w : \A x \in w : b <= x
lzcnt(w) == WordBits - 1 - (CHOOSE b \in w : \A x \in w : b >= x)
RightDistanceBeyond(bit_pos) ==
  LET w == {b \in bitmap : b > bit_pos} IN
  IF w = {} THEN WordBits ELSE tzcnt(w) - bit_pos
RightDistance(bit_pos) ==
  LET w == bitmap \ LowBits(bitmap, bit_pos) IN
  IF w = {} THEN WordBits ELSE tzcnt(w) - bit_pos
LeftDistance(bit_pos) ==
  LET w == LowBits(bitmap, bit_pos) IN
  IF w = {} THEN WordBits ELSE bit_pos - (WordBits - 1 - lzcnt(w))
closest_set(pos) ==
  LET bit_pos == IF pos < WordBits THEN pos ELSE WordBits - 1
      right == RightDistance(bit_pos)
      left == LeftDistance(bit_pos)
  IN
  IF bitmap = {} THEN -1
  ELSE IF right < left /\ pos + right < count + 1 THEN pos + right
  ELSE pos - left

-----------------------------------------------------------------------------
lowerBound(k) == Search(keys, k, count)
isFull == count = max_entries - 1

\* findIdx of a reference; -1 when the node has none like it.
findIdx(r) ==
  LET I == {i \in 0 .. count : children[i] = r} IN
  IF I = {} THEN -1 ELSE CHOOSE i \in I : \A j \in I : i <= j

\* make_new_root: the halves of the old root, the left one cached.
Init ==
  \E sep \in Key, l, r \in Child, tagged \in BOOLEAN :
    /\ l # r
    /\ keys = [NoKeys EXCEPT ![0] = sep]
    /\ children = [NoRefs EXCEPT ![0] = Ref(l, TRUE), ![1] = Ref(r, tagged)]
    /\ count = 1
    /\ bitmap = IF tagged THEN {0, 1} ELSE {0}
    /\ min_limit_ = MinLimit /\ max_limit_ = MaxLimit
    /\ below = [k \in Key |-> IF k <= sep THEN l ELSE r]

Linked == {children[i].page : i \in 0 .. count}
Covered == {k \in Key : InLimits(k, min_limit_, max_limit_)}

\* insert of the separator k and the upper half c of a child that was split at k.
\* The new reference is written at pos and swapped with the one behind it.
ShiftedEarly(pos) == Shl(Shr(bitmap, pos), pos + 1) \union LowBits(bitmap, pos)
Shifted(pos) == Shl(Shr(bitmap, pos + 1), pos + 2) \union LowBits(bitmap, pos + 1)
KeysOpened(pos) == Moved(keys, pos + 1, keys, pos, count - pos + 1)
ChildrenUnswapped(pos, r) ==
  [Moved(children, pos + 1, children, pos, count - pos + 1) EXCEPT ![pos] = r]
ChildrenOpened(pos, r) ==
  LET moved == Moved(children, pos + 1, children, pos, count - pos + 1) IN
  [moved EXCEPT ![pos + 1] = r, ![pos] = moved[pos + 1]]
insert(k, c, tagged) ==
  LET pos == lowerBound(k)
      half == {x \in Covered : below[x] = below[k] /\ x > k}
  IN
  /\ ~isFull
  /\ k < max_limit_ /\ k \in Covered /\ \A i \in 0 .. count - 1 : keys[i] # k
  /\ c \in Child \ Linked
  /\ keys' = [KeysOpened(pos) EXCEPT ![pos] = k]
  /\ children' = ChildrenOpened(pos, Ref(c, tagged))
  /\ bitmap' = IF tagged THEN set_bitmap(Shifted(pos), pos + 1) ELSE Shifted(pos)
  /\ count' = count + 1
  /\ below' = [x \in DOMAIN below |-> IF x \in half THEN c ELSE below[x]]
  /\ UNCHANGED <<min_limit_, max_limit_>>

\* split of a full node; the behaviour goes on with the node or with its sibling.
SiblingBitsShort(stay) == Shr(bitmap, stay)
SiblingBits(stay) == Shr(bitmap, stay + 1)
SiblingCount == count - (count \div 2)
split(goOn) ==
  LET moved == SiblingCount
      stay == count - moved - 1
      sep == keys[stay]
  IN
  /\ isFull
  /\ \/ /\ goOn = "node"
        /\ count' = stay /\ max_limit_' = sep
        /\ bitmap' = LowBits(bitmap, stay + 1)
        /\ below' = [k \in {x \in DOMAIN below : x <= sep} |-> below[k]]
        /\ UNCHANGED <<keys, children, min_limit_>>
     \/ /\ goOn = "sibling"
        /\ keys' = Moved(NoKeys, 0, keys, stay + 1, moved + 1)
        /\ children' = Moved(NoRefs, 0, children, stay + 1, moved + 1)
        /\ count' = moved /\ min_limit_' = sep
        /\ bitmap' = SiblingBits(stay)
        /\ below' = [k \in {x \in DOMAIN below : x > sep} |-> below[k]]
        /\ UNCHANGED max_limit_

\* load_child and swizzling: the child at idx is cached.
swizzling(idx) ==
  /\ idx \in 0 .. count /\ ~children[idx].tag
  /\ children' = [children EXCEPT ![idx].tag = TRUE]
  /\ bitmap' = set_bitmap(bitmap, idx)
  /\ UNCHANGED <<keys, count, min_limit_, max_limit_, below>>

\* unswizzling, of the page c that is being demoted.
unswizzling(c) ==
  LET idx == findIdx(Ref(c, TRUE)) IN
  /\ idx # -1
  /\ children' = [children EXCEPT ![idx].tag = FALSE]
  /\ bitmap' = unset_bitmap(bitmap, idx)
  /\ UNCHANGED <<keys, count, min_limit_, max_limit_, below>>

Next ==
  \/ \E k \in Key, c \in Child, tagged \in BOOLEAN : insert(k, c, tagged)
  \/ \E goOn \in {"node", "sibling"} : split(goOn)
  \/ \E idx \in DOMAIN children : swizzling(idx)
  \/ \E c \in Child : unswizzling(c)

Spec == Init /\ [][Next]_vars

-----------------------------------------------------------------------------
(* Properties *)

\* Type invariant: no operation writes outside an array or sets a bit outside the
\* word.
InnerTypeOK ==
  /\ keys \in [0 .. max_entries - 1 -> Key \union {0}]
  /\ children \in [0 .. max_entries - 1 -> [page : Child \union {NoChild}, tag : BOOLEAN]]
  /\ count \in 0 .. max_entries - 1
  /\ bitmap \subseteq 0 .. WordBits - 1
  /\ DOMAIN below = Covered

\* Every walk comes to the right child: the binary search over the keys, and the
\* child at its position, lead each key of the node to the page that covers it
\* since the splits so far, although insert swaps the new child into place and
\* split copies one key more than the sibling counts.
WalkReachesChild == \A k \in Covered : children[lowerBound(k)].page = below[k]

\* The bitmap marks exactly the swizzled children: no bit is left behind when
\* children move, which the sampler, update_all_parent_ptr and the flush rely on.
BitsMarkSwizzled == bitmap = {i \in 0 .. count : children[i].tag}

\* closest_set, from any child, returns the nearest swizzled child, and of two
\* equally near the left one; never an index outside the children.
ClosestIsNearest ==
  \A pos \in 0 .. count :
    LET Dist(i) == IF i < pos THEN pos - i ELSE i - pos
        c == closest_set(pos)
    IN IF \A i \in 0 .. count : ~children[i].tag THEN c = -1
       ELSE /\ c \in 0 .. count /\ children[c].tag
            /\ \A i \in 0 .. count : children[i].tag =>
                 Dist(c) <= Dist(i) /\ (Dist(c) = Dist(i) => c <= i)

=============================================================================
