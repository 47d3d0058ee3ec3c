---------------------------- MODULE LeanStoreTree ----------------------------
(***************************************************************************)
(* The B+tree over the buffer pool (include/tree/LeanStoreTree.h), with    *)
(* the node operations it calls (cache/BtreeNode.h), the write-back and    *)
(* sampling helpers (cache/NodeWR.h) and the backend.                      *)
(*                                                                         *)
(* A child reference is a backend address, or, once load_child swizzled    *)
(* it, the slot that holds the page.  Tree operations walk down from       *)
(* super_root_; a miss, a split or a new root asks the pool for a slot,    *)
(* and the pool then runs its sampler on whatever half-finished state the  *)
(* tree is in.  pc is the point an operation has reached; every action of  *)
(* this module is one action of BufferPool and what the tree does with it. *)
(*                                                                         *)
(* Data is abstracted: a leaf's sorted pair array is a function from its   *)
(* keys to values, the position lowerBound finds by binary search is       *)
(* counted, the bitmap is the set of its bits (child i is bit i - 1), and  *)
(* the subtree walk of recursive_iterate is replaced by its result: it     *)
(* returns a hot page with an empty bitmap, and each such page can also be *)
(* drawn directly.  next_leaf, which no code reads, is left out.           *)
(***************************************************************************)
EXTENDS BufferPool, SequencesExt

CONSTANTS
  Super,       \* super_root_, the heap node above the root
  MaxKey,      \* keys are 1 .. MaxKey
  Val,         \* values
  Kinds,       \* the operations a client calls
  ScanLen,     \* lengths of range scans
  NoVal,       \* the untouched result of a lookup that finds nothing
  LeafMax,     \* BTreeLeaf::max_entries
  InnerFull    \* BTreeInner::max_entries - 1, the count isFull compares with

Key == 1 .. MaxKey
MinLimit == 0            \* numeric_limits<Key>::min()
MaxLimit == MaxKey + 1   \* numeric_limits<Key>::max()

ASSUME TreeAssumption ==
  /\ Super \notin Slot \union {NoSlot} \union Addr
  /\ Slot \cap Addr = {} /\ NoSlot \notin Addr
  /\ MaxKey \in Nat /\ NoVal \notin Val /\ ScanLen \subseteq Nat
  /\ LeafMax \in Nat \ {0, 1} /\ InnerFull \in Nat \ {0, 1}
  /\ BackendPages > 1

VARIABLES
  node,          \* contents of each slot besides the header fields of BufferPool
  super,         \* super_root_->children[0]
  root_,         \* backend address of the current root
  backend,       \* address -> the page image stored there
  cur_offset,    \* InMemoryBackend's bump pointer, in pages
  pc,            \* where the operation is
  op,            \* the operation and its arguments
  cur,           \* the node the walk stands on: Super or a slot
  retry,         \* the child was just split and is not tested for fullness again
  child,         \* the node being split
  sep,           \* its separator
  right,         \* the new sibling: an address, or a slot once it is cached
  adm,           \* the page image waiting for a slot, and the child index it goes to
  ret            \* the last result returned

walk == <<op, cur, retry>>
split == <<child, sep, right>>
storage == <<backend, cur_offset>>
treeVars == <<node, super, root_, storage, pc, walk, split, adm, ret>>
vars == <<poolVars, treeVars>>

-----------------------------------------------------------------------------
(* Nodes *)

Leaf(data, lo, hi) ==
  [type |-> "leaf", level |-> 0, data |-> data, keys |-> <<>>, kids |-> <<>>,
   bitmap |-> {}, parent |-> NoSlot, lo |-> lo, hi |-> hi]
Inner(level, keys, kids, bitmap, lo, hi) ==
  [type |-> "inner", level |-> level, data |-> <<>>, keys |-> keys, kids |-> kids,
   bitmap |-> bitmap, parent |-> NoSlot, lo |-> lo, hi |-> hi]
Zeroed == [Leaf(<<>>, MinLimit, MinLimit) EXCEPT !.type = "none"]

isFull(n) == IF n.type = "leaf" THEN Cardinality(DOMAIN n.data) = LeafMax
                                ELSE Len(n.keys) = InnerFull

\* BTreeInner::lowerBound, as the position of the child to descend to.
lowerBound(n, k) == 1 + Cardinality({i \in DOMAIN n.keys : n.keys[i] < k})

\* BTreeInner::findIdx: the first child reference equal to r, 0 for -1.
findIdx(n, r) ==
  LET at == {i \in DOMAIN n.kids : n.kids[i] = r} IN IF at = {} THEN 0 ELSE Min(at)

\* BTreeLeaf::split.  The separator is the largest key that stays.
LowerKeys(n) ==
  LET K == DOMAIN n.data IN
  {k \in K : Cardinality({j \in K : j <= k}) <= Cardinality(K) \div 2}
LeafSep(n) == Max(LowerKeys(n))
LeafLeftOldLimit(n) == [n EXCEPT !.data = Restrict(n.data, LowerKeys(n))]
LeafLeft(n) == [n EXCEPT !.data = Restrict(n.data, LowerKeys(n)), !.hi = LeafSep(n)]
LeafRightShort(n) ==
  Leaf(Restrict(n.data, DOMAIN n.data \ (LowerKeys(n) \union {Max(DOMAIN n.data)})),
       LeafSep(n), n.hi)
LeafRight(n) == Leaf(Restrict(n.data, DOMAIN n.data \ LowerKeys(n)), LeafSep(n), n.hi)

\* BTreeInner::split.  m children stay; the key between the halves moves up.
Stay(n) == Len(n.keys) \div 2
InnerSep(n) == n.keys[Stay(n)]
InnerLeftOldBits(n) ==
  LET m == Stay(n) IN
  [n EXCEPT !.keys = SubSeq(n.keys, 1, m - 1), !.kids = SubSeq(n.kids, 1, m),
            !.hi = InnerSep(n)]
InnerLeft(n) ==
  LET m == Stay(n) IN
  [n EXCEPT !.keys = SubSeq(n.keys, 1, m - 1), !.kids = SubSeq(n.kids, 1, m),
            !.bitmap = {i \in n.bitmap : i <= m}, !.hi = InnerSep(n)]
InnerRightSameBits(n) ==
  LET m == Stay(n) IN
  Inner(n.level, SubSeq(n.keys, m + 1, Len(n.keys)), SubSeq(n.kids, m + 1, Len(n.kids)),
        {i \in n.bitmap : i <= m}, InnerSep(n), n.hi)
InnerRight(n) ==
  LET m == Stay(n) IN
  Inner(n.level, SubSeq(n.keys, m + 1, Len(n.keys)), SubSeq(n.kids, m + 1, Len(n.kids)),
        {i - m : i \in {j \in n.bitmap : j > m}}, InnerSep(n), n.hi)

\* BTreeInner::insert: child r goes right of the child that was split.
InnerInsertUnshifted(n, k, r) ==
  LET pos == lowerBound(n, k) IN
  [n EXCEPT !.keys = InsertAt(n.keys, pos, k),
            !.kids = InsertAt(n.kids, pos + 1, r),
            !.bitmap = @ \union (IF r \in Slot THEN {pos + 1} ELSE {})]
InnerInsert(n, k, r) ==
  LET pos == lowerBound(n, k) IN
  [n EXCEPT !.keys = InsertAt(n.keys, pos, k),
            !.kids = InsertAt(n.kids, pos + 1, r),
            !.bitmap = {i \in n.bitmap : i <= pos}
                       \union {i + 1 : i \in {j \in n.bitmap : j > pos}}
                       \union (IF r \in Slot THEN {pos + 1} ELSE {})]

\* Child i becomes the slot s and its bit is set; child i becomes the address a again.
Swizzle(n, i, s) == [n EXCEPT !.kids = [@ EXCEPT ![i] = s], !.bitmap = @ \union {i}]
Unswizzle(n, i, a) == [n EXCEPT !.kids = [@ EXCEPT ![i] = a], !.bitmap = @ \ {i}]
\* parent_ptr is set.
WithParent(n, p) == [n EXCEPT !.parent = p]

\* check_limit_match and check_parent_child_info, what sample_page asserts.
LimitsMatch(p, c, i) ==
  /\ c.lo = IF i = 1 THEN p.lo ELSE p.keys[i - 1]
  /\ c.hi = IF i = Len(p.kids) THEN p.hi ELSE p.keys[i]
ParentChildInfo(p, s, c, a) ==
  /\ p.level = c.level + 1 /\ c.lo >= p.lo /\ c.hi <= p.hi
  /\ \E r \in {s, a} : findIdx(p, r) # 0 /\ LimitsMatch(p, c, findIdx(p, r))

-----------------------------------------------------------------------------
(* The backend *)

\* An image: the page without its parent_ptr and pos_state.
Image(n, d) == [node |-> WithParent(n, NoSlot), dirty |-> d]

\* InMemoryBackend::alloc: Null when the store is full, which no caller tests.
AllocAddr == IF cur_offset < BackendPages THEN cur_offset ELSE NullAddr
AllocOffsetStuck == cur_offset
AllocOffset == IF cur_offset < BackendPages THEN cur_offset + 1 ELSE cur_offset

\* fully_unswizzle
Unswizzled(n) ==
  [n EXCEPT !.kids = [i \in DOMAIN n.kids |-> IF n.kids[i] \in Slot
                                              THEN remote_address[n.kids[i]] ELSE n.kids[i]],
            !.bitmap = {}]

NoPage == [node |-> Zeroed, addr |-> NullAddr, dirty |-> FALSE, idx |-> 0]

-----------------------------------------------------------------------------
(* Construction *)

\* The constructor's walk loads the root and does nothing else.
NoCall == [kind |-> "ctor", key |-> 1, val |-> NoVal]
Pending == [op |-> NoCall, res |-> NoVal]

\* The constructor: an empty leaf is written to the first backend page and
\* super_root_ refers to it; loading it is the constructor's first walk.
Init ==
  /\ PoolInit
  /\ node = [s \in Slot |-> Zeroed]
  /\ super = 1 /\ root_ = 1
  /\ backend = [a \in Addr |-> IF a = 1 THEN Image(Leaf(<<>>, MinLimit, MaxLimit), TRUE)
                                        ELSE Image(Zeroed, FALSE)]
  /\ cur_offset = 2
  /\ pc = "visit"
  /\ op = NoCall
  /\ cur = Super /\ retry = FALSE
  /\ child = NoSlot /\ sep = 0 /\ right = NullAddr
  /\ adm = NoPage
  /\ ret = Pending

-----------------------------------------------------------------------------
(* The walk *)

\* The locals of split_child end with it.
Forget == child' = NoSlot /\ sep' = 0 /\ right' = NullAddr

\* A call of insert, lookup, update, remove or range_scan.
Begin(o) ==
  /\ pc = "idle"
  /\ pc' = "visit"
  /\ op' = o /\ ret' = Pending
  /\ UNCHANGED <<poolVars, node, super, root_, storage, cur, retry, split, adm>>

ChildIdx == IF cur = Super THEN 1 ELSE lowerBound(node[cur], op.key)
ChildRef(i) == IF cur = Super THEN super ELSE node[cur].kids[i]

\* load_child finds the child swizzled: insert splits it first if it is full,
\* every walk else descends to it.
VisitHit ==
  LET c == ChildRef(ChildIdx) IN
  /\ pc = "visit" /\ phase = "idle" /\ c \in Slot
  /\ IF op.kind = "insert" /\ ~retry /\ isFull(node[c])
     THEN pc' = "split" /\ child' = c /\ UNCHANGED <<cur, retry>>
     ELSE /\ pc' = IF node[c].type = "inner" THEN "visit" ELSE "leaf"
          /\ cur' = c /\ retry' = FALSE /\ UNCHANGED child
  /\ UNCHANGED <<poolVars, node, super, root_, storage, op, sep, right, adm, ret>>

\* load_child pins the parent, reads child i from the backend and calls
\* cache_insert.
LoadChild(i) ==
  LET a == ChildRef(i) IN
  /\ a \notin Slot
  /\ RequestPage(IF cur = Super THEN NoSlot ELSE cur)
  /\ pc' = "load"
  /\ adm' = [node |-> backend[a].node, addr |-> a, dirty |-> backend[a].dirty, idx |-> i]
  /\ UNCHANGED <<node, super, root_, storage, walk, split, ret>>

VisitMiss == pc = "visit" /\ LoadChild(ChildIdx)

\* split_child loads the sibling of a leaf it has just linked into the parent.
LoadSibling == pc = "sibling" /\ LoadChild(lowerBound(node[cur], sep) + 1)

\* The end of load_child: the page is hot, the parent refers to the slot and
\* its bit is set.  The walk looks at the child again and finds it.
AdmitLoad ==
  /\ pc = "load"
  /\ CacheInsert(adm.addr, adm.dirty)
  /\ LET loaded == [node EXCEPT ![page] = WithParent(adm.node, cur)] IN
       IF cur = Super
       THEN super' = page /\ node' = loaded
       ELSE /\ node' = [loaded EXCEPT ![cur] = Swizzle(@, adm.idx, page)]
            /\ UNCHANGED super
  /\ pc' = "visit"
  /\ adm' = NoPage /\ Forget
  /\ UNCHANGED <<root_, storage, walk, ret>>

-----------------------------------------------------------------------------
(* Splits *)

\* A full leaf: the upper half goes straight to the backend.
SplitLeaf ==
  LET n == node[child] IN
  /\ pc = "split" /\ n.type = "leaf"
  /\ MarkDirty({child})
  /\ node' = [node EXCEPT ![child] = LeafLeft(n)]
  /\ sep' = LeafSep(n) /\ right' = AllocAddr
  /\ backend' = [backend EXCEPT ![AllocAddr] = Image(LeafRight(n), TRUE)]
  /\ cur_offset' = AllocOffset
  /\ pc' = "link"
  /\ UNCHANGED <<super, root_, walk, child, adm, ret>>

\* A full inner node: the upper half keeps its swizzled children, so it is
\* admitted to the cache and not written; nothing is pinned meanwhile and the
\* children that move still have the old parent_ptr.
SplitInner ==
  LET n == node[child] IN
  /\ pc = "split" /\ n.type = "inner"
  /\ MarkDirty({child})
  /\ node' = [node EXCEPT ![child] = InnerLeft(n)]
  /\ sep' = InnerSep(n) /\ right' = AllocAddr
  /\ adm' = [node |-> InnerRight(n), addr |-> AllocAddr, dirty |-> TRUE, idx |-> 0]
  /\ cur_offset' = AllocOffset
  /\ pc' = "sib"
  /\ UNCHANGED <<super, root_, backend, walk, child, ret>>

\* cache_insert is called for the sibling or for the new root.
RequestUnpinned ==
  /\ pc \in {"sib", "root"}
  /\ RequestPage(NoSlot)
  /\ UNCHANGED treeVars

\* The sibling is cached; update_all_parent_ptr redirects the moved children.
AdmitSib ==
  /\ pc = "sib"
  /\ CacheInsert(adm.addr, adm.dirty)
  /\ LET moved == {adm.node.kids[i] : i \in DOMAIN adm.node.kids} IN
       node' = [s \in Slot |->
                  IF s = page THEN WithParent(adm.node, cur)
                  ELSE IF s \in moved THEN WithParent(node[s], page)
                  ELSE node[s]]
  /\ right' = page
  /\ pc' = "link"
  /\ adm' = NoPage
  /\ UNCHANGED <<super, root_, storage, walk, child, sep, ret>>

\* The parent gets the separator and the sibling; a leaf sibling is then loaded.
LinkSibling ==
  /\ pc = "link" /\ cur # Super
  /\ MarkDirty({cur})
  /\ node' = [node EXCEPT ![cur] = InnerInsert(node[cur], sep, right)]
  /\ IF right \in Slot THEN pc' = "visit" /\ Forget ELSE pc' = "sibling" /\ UNCHANGED split
  /\ retry' = TRUE
  /\ UNCHANGED <<super, root_, storage, op, cur, adm, ret>>

\* make_new_root up to its cache_insert: root_ is redirected at once.
MakeNewRoot ==
  /\ pc = "link" /\ cur = Super
  /\ root_' = AllocAddr
  /\ cur_offset' = AllocOffset
  /\ adm' = [node |-> Inner(node[child].level + 1, <<sep>>, <<child, right>>,
                            {1} \union (IF right \in Slot THEN {2} ELSE {}),
                            MinLimit, MaxLimit),
             addr |-> AllocAddr, dirty |-> TRUE, idx |-> 0]
  /\ pc' = "root"
  /\ UNCHANGED <<poolVars, node, super, backend, walk, split, ret>>

\* The rest of make_new_root.
AdmitRoot ==
  /\ pc = "root"
  /\ CacheInsert(adm.addr, adm.dirty)
  /\ node' = [s \in Slot |->
                IF s = page THEN WithParent(adm.node, Super)
                ELSE IF s \in {child, right} THEN WithParent(node[s], page)
                ELSE node[s]]
  /\ super' = page
  /\ pc' = "visit" /\ retry' = TRUE
  /\ adm' = NoPage /\ Forget
  /\ UNCHANGED <<root_, storage, op, cur, ret>>

-----------------------------------------------------------------------------
(* The leaf operations *)

Put(n, k, v) == [n EXCEPT !.data = [x \in DOMAIN n.data \union {k} |->
                                      IF x = k THEN v ELSE n.data[x]]]

Finish(n, wrote, res) ==
  /\ pc = "leaf"
  /\ MarkDirty(IF wrote THEN {cur} ELSE {})
  /\ node' = [node EXCEPT ![cur] = n]
  /\ ret' = [op |-> op, res |-> res]
  /\ pc' = "idle"
  /\ op' = NoCall /\ cur' = Super
  /\ UNCHANGED <<super, root_, storage, retry, split, adm>>

\* The constructor is done.
LeafCtor == op.kind = "ctor" /\ Finish(node[cur], FALSE, TRUE)

\* insert overwrites the value of a key it finds and then returns false.
LeafInsertClean ==
  op.kind = "insert"
  /\ Finish(Put(node[cur], op.key, op.val), FALSE, op.key \notin DOMAIN node[cur].data)
LeafInsert ==
  LET n == node[cur]
      found == op.key \in DOMAIN n.data
      room == Cardinality(DOMAIN n.data) < LeafMax
  IN op.kind = "insert"
     /\ Finish(IF found \/ room THEN Put(n, op.key, op.val) ELSE n, TRUE, ~found /\ room)

LeafLookup ==
  LET n == node[cur] IN
  op.kind = "lookup"
  /\ Finish(n, FALSE, IF op.key \in DOMAIN n.data THEN n.data[op.key] ELSE NoVal)

LeafUpdate ==
  LET n == node[cur]
      found == op.key \in DOMAIN n.data
  IN op.kind = "update" /\ Finish(IF found THEN Put(n, op.key, op.val) ELSE n, found, found)

LeafRemove ==
  LET n == node[cur]
      found == op.key \in DOMAIN n.data
  IN op.kind = "remove"
     /\ Finish([n EXCEPT !.data = Restrict(@, DOMAIN @ \ {op.key})], found, found)

\* rangeScan copies at most op.val pairs, from op.key on if the key is there,
\* and never leaves the leaf.
LeafScan ==
  LET n == node[cur]
      from == {k \in DOMAIN n.data : op.key \in DOMAIN n.data /\ k >= op.key}
      copied == {k \in from : Cardinality({j \in from : j <= k}) <= op.val}
  IN op.kind = "scan" /\ Finish(n, FALSE, Restrict(n.data, copied))

-----------------------------------------------------------------------------
(* The sampler *)

\* What recursive_iterate can return.
SampledClean(s) == phase = "sample" /\ s \in HotSlots /\ node[s].bitmap = {} /\ ~dirty[s]
Sampled(s) == phase = "sample" /\ s \in HotSlots /\ node[s].bitmap = {}
Parent(s) == node[node[s].parent]

\* The page is written back if it is dirty and enters the cooling table.
Demote(s) ==
  /\ SamplePage(s)
  /\ backend' = IF dirty[s] THEN [backend EXCEPT ![remote_address[s]] = Image(node[s], FALSE)]
                            ELSE backend

\* The normal case: the parent refers to the backend again.
SampleDemote(s) ==
  /\ Sampled(s) /\ node[s].parent \in Slot
  /\ LET i == findIdx(Parent(s), s) IN
       /\ i # 0 /\ ParentChildInfo(Parent(s), s, node[s], remote_address[s])
       /\ Demote(s)
       /\ node' = [node EXCEPT ![node[s].parent] = Unswizzle(@, i, remote_address[s]),
                               ![s] = WithParent(@, NoSlot)]
  /\ UNCHANGED <<super, root_, cur_offset, pc, walk, split, adm, ret>>

\* The parent does not refer to the page: parent_ptr is cleared, and the
\* sampler draws again.
SampleStale(s) ==
  /\ Sampled(s) /\ node[s].parent \in Slot /\ findIdx(Parent(s), s) = 0
  /\ node' = [node EXCEPT ![s] = WithParent(@, NoSlot)]
  /\ UNCHANGED <<poolVars, super, root_, storage, pc, walk, split, adm, ret>>

\* The branch for a page without a parent: nothing refers to it, supposedly.
SampleOrphan(s) ==
  /\ Sampled(s) /\ node[s].parent = NoSlot
  /\ Demote(s)
  /\ UNCHANGED <<node, super, root_, cur_offset, pc, walk, split, adm, ret>>

\* assert(check_parent_child_info(...)) fails and the process aborts.
SampleAssert(s) ==
  /\ Sampled(s) /\ node[s].parent \in Slot
  /\ findIdx(Parent(s), s) # 0
  /\ ~ParentChildInfo(Parent(s), s, node[s], remote_address[s])
  /\ pc' = "aborted" /\ phase' = "exit"
  /\ UNCHANGED <<state, unallocated, pages, local_page_set, table_, page_table, to_sample,
                 page, pin, prev_state, node, super, root_, storage, walk,
                 split, adm, ret>>

PoolStep == GetEmptyPage /\ UNCHANGED treeVars

-----------------------------------------------------------------------------
(* Write-back of the whole pool *)

\* flush_all: every dirty page is written with its children unswizzled.
FlushedLeaves ==
  [a \in Addr |->
     LET S == {s \in Slot : dirty[s] /\ remote_address[s] = a /\ node[s].type = "leaf"} IN
     IF S = {} THEN backend[a] ELSE Image(Unswizzled(node[CHOOSE s \in S : TRUE]), FALSE)]
FlushedBackend ==
  [a \in Addr |->
     LET S == {s \in Slot : dirty[s] /\ remote_address[s] = a} IN
     IF S = {} THEN backend[a] ELSE Image(Unswizzled(node[CHOOSE s \in S : TRUE]), FALSE)]

\* ~LeanStoreTree
Destroy ==
  /\ pc = "idle"
  /\ FlushAll
  /\ backend' = FlushedBackend
  /\ pc' = "closed"
  /\ UNCHANGED <<node, super, root_, cur_offset, walk, split, adm, ret>>

-----------------------------------------------------------------------------
\* Everything the program does between two calls.
TreeStep ==
  \/ VisitHit \/ VisitMiss \/ AdmitLoad \/ LoadSibling
  \/ SplitLeaf \/ SplitInner \/ RequestUnpinned \/ AdmitSib
  \/ LinkSibling \/ MakeNewRoot \/ AdmitRoot
  \/ LeafInsert \/ LeafLookup \/ LeafUpdate \/ LeafRemove \/ LeafScan \/ LeafCtor
  \/ PoolStep
  \/ \E s \in Slot : SampleDemote(s) \/ SampleStale(s) \/ SampleOrphan(s) \/ SampleAssert(s)

Calls ==
  [kind : Kinds \cap {"insert", "update"}, key : Key, val : Val]
    \union [kind : Kinds \cap {"lookup", "remove"}, key : Key, val : {NoVal}]
    \union [kind : Kinds \cap {"scan"}, key : Key, val : ScanLen]

Next == TreeStep \/ (\E o \in Calls : Begin(o)) \/ Destroy

Spec == Init /\ [][Next]_vars

=============================================================================
