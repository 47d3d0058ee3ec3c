---------------------------- MODULE TreeProperties ----------------------------
(***************************************************************************)
(* What has to be true of LeanStoreTree.                                   *)
(*                                                                         *)
(* NoDanglingRef separates the states the code keeps consistent from those *)
(* it cannot recover from: once the sampler has demoted a page that a      *)
(* swizzled reference still names (SampleOrphan; see the violation runs)   *)
(* the process reads and writes recycled memory.  The other properties     *)
(* speak about the behaviour up to that point.                             *)
(***************************************************************************)
EXTENDS LeanStoreTree

InUseInner == {s \in Slot : InUse(s) /\ node[s].type = "inner"}
Swizzled(n) == {n.kids[i] : i \in DOMAIN n.kids} \cap Slot
\* The children that an inner split has moved but not redirected yet.
InTransit == IF pc = "sib" THEN Swizzled(adm.node) ELSE {}
\* Between the split of a child and the update of its parent.
Splitting == pc \in {"sib", "link", "root"}

-----------------------------------------------------------------------------
\* A tagged child value points at a page that is in use: "1 | NodeBase* into
\* cache pool -> just deref" (GlobalAddress.h).  It counts the children of the
\* page that waits for a slot, super_root_'s child and the halves of a split.
NoDanglingRef ==
  /\ \A s \in InUseInner : \A c \in Swizzled(node[s]) : InUse(c)
  /\ \A c \in Swizzled(adm.node) \union ({super} \cap Slot) : InUse(c)
  /\ Splitting => \A c \in {child, right} \cap Slot : InUse(c)

\* The assertion check_parent_child_info of sample_page never fails.
NoAssertFailure == pc # "aborted"

\* The process runs and its pointers are good.
Sane == NoDanglingRef /\ pc # "aborted"

\* Type invariant of the tree's variables.
RefOK(r) == r \in Slot \union Addr
NodeOK(n) ==
  /\ n.type \in {"none", "leaf", "inner"} /\ n.level \in Nat
  /\ DOMAIN n.data \subseteq Key /\ (n.type # "inner" => n.kids = <<>>)
  /\ n.type = "inner" => Len(n.kids) = Len(n.keys) + 1 /\ Len(n.keys) <= InnerFull
  /\ \A i \in DOMAIN n.kids : RefOK(n.kids[i])
  /\ n.bitmap \subseteq DOMAIN n.kids
  /\ n.parent \in Slot \union {NoSlot, Super}
  /\ n.lo \in MinLimit .. MaxLimit /\ n.hi \in MinLimit .. MaxLimit
TreeTypeOK ==
  /\ \A s \in Slot : NodeOK(node[s])
  /\ \A a \in Addr : NodeOK(backend[a].node) /\ backend[a].dirty \in BOOLEAN
  /\ RefOK(super) /\ RefOK(right) /\ root_ \in Addr
  /\ cur_offset \in 0 .. BackendPages
  /\ pc \in {"idle", "visit", "load", "split", "sib", "sibling", "link", "root", "leaf",
             "aborted", "closed"}
  /\ cur \in Slot \union {Super} /\ child \in Slot \union {NoSlot}
  /\ NodeOK(adm.node) /\ adm.addr \in Addr

\* Swizzling is two-way and the bitmap tells the truth about it, so the walk of
\* recursive_iterate and unswizzling find every swizzled child: a set bit is a
\* tagged child, a tagged child's parent_ptr names the parent, and every page
\* in use is the tagged child of the parent it names.  The only exceptions are
\* the pages a split holds in its hands.
SwizzleSound ==
  Sane =>
  /\ \A s \in InUseInner :
       LET n == node[s] IN
       /\ n.bitmap = {i \in DOMAIN n.kids : n.kids[i] \in Slot}
       /\ \A i, j \in n.bitmap : n.kids[i] = n.kids[j] => i = j
       /\ \A c \in Swizzled(n) : node[c].parent = s
  /\ super \in Slot => node[super].parent = Super
  /\ \A s \in {x \in Slot : InUse(x)} \ InTransit :
       \/ /\ node[s].parent \in InUseInner
          /\ s \in Swizzled(node[node[s].parent])
       \/ node[s].parent = Super /\ super = s
       \/ Splitting /\ s = right /\ node[s].parent = cur

\* sample_page's assert(check_parent_child_info(...)) for every swizzled child,
\* except the one whose split its parent does not know of yet.
FenceKeysAgree ==
  Sane =>
  \A s \in InUseInner : \A c \in Swizzled(node[s]) :
    (Splitting /\ c = child) \/ ParentChildInfo(node[s], c, node[c], remote_address[c])

\* A page that is not dirty can be dropped: the backend holds the same page.
\* And nothing in the backend refers to the pool: a slot number written there
\* would be dereferenced after the slot was recycled.
CleanMatchesBackend ==
  Sane =>
  /\ \A s \in Slot : pos_state[s] \in {2, 4} /\ ~dirty[s] =>
       backend[remote_address[s]].node = WithParent(Unswizzled(node[s]), NoSlot)
  /\ \A a \in Addr : backend[a].node.bitmap = {} /\ Swizzled(backend[a].node) = {}

\* The tree keeps to the contract that the theorems about BufferPool assume:
\* each of its steps is a step of PoolNext or leaves the pool alone.  In
\* particular no page is loaded while a hot copy of it exists and only pages
\* in use are dirtied, however splits, misses and evictions follow each other.
PoolContract == [][Sane /\ pc' # "aborted" => PoolNext]_poolVars

-----------------------------------------------------------------------------
(* The dictionary the tree stands for *)

\* The entries a walk for k reaches from r, if at[x] is the page x refers to.  No walk
\* meets more pages than there are.
Descend(at, k, r) ==
  LET reach[w \in (0 .. BackendPages) \X DOMAIN at] ==
        LET n == at[w[2]] IN
        IF n.type # "inner" \/ w[1] = 0 THEN n.data
        ELSE reach[<<w[1] - 1, n.kids[lowerBound(n, k)]>>]
  IN reach[<<BackendPages, r>>]

Contents(r) == IF r \in Slot THEN node[r] ELSE backend[r].node

\* The leaf a walk for k would reach now.  Until the parent knows of a split,
\* the keys above the separator are in the sibling.
RightHalf == IF pc = "sib" THEN adm.node ELSE Contents(right)
PageFor(k) ==
  [r \in Slot \union Addr |->
     IF Splitting /\ r = child /\ k > sep THEN RightHalf ELSE Contents(r)]
LeafFor(k) == Descend(PageFor(k), k, super)
TreeDict == [k \in {x \in Key : x \in DOMAIN LeafFor(x)} |-> LeafFor(k)[k]]

KV == INSTANCE KVStore WITH dict <- TreeDict

\* The tree implements the dictionary: an operation takes effect in its leaf
\* step, with the result the dictionary gives; evictions, reloads and splits
\* change nothing a caller can see.  This is up to the destructor.
ImplementsKV == KV!Init /\ [][Sane /\ Sane' /\ pc # "closed" => KV!Next]_<<TreeDict, ret>>

\* BTree lookup on the backend alone (cache/Btree.h), from root_.
RemoteLeafFor(k) == Descend([a \in Addr |-> backend[a].node], k, root_)

\* After the destructor's flush_all the backend alone holds the dictionary:
\* from root_, every key is found with its last value.
FlushDurable ==
  Sane /\ pc = "closed" => \A k \in Key : RemoteLeafFor(k) = LeafFor(k)

-----------------------------------------------------------------------------
(* The sampler has work to do *)

height_ == Contents(super).level + 1

\* A draw of s ends sample_page's loop.
Victim(s) == Sampled(s) /\ node[s].parent \in Slot \union {NoSlot}

\* The pages that cannot be demoted: the path down to the pinned parent, or
\* the two halves of a split root.
Unavailable == Max({height_ - 1, 2})

\* sample_page's exit(0) is never forced on a pool that holds, besides the
\* pages in the walk's way, the num_pages_to_sample pages one call demotes and
\* what random_evict_to_remote may have missed: it starts at any bucket and may
\* end there, while all others are full.
SamplerFindsVictim ==
  Sane /\ phase = "sample"
    /\ Cardinality(Slot) >= Unavailable + num_pages_to_sample + (bucket_num_ - 1) * NUM_ENTRIES
  => \E s \in Slot : Victim(s)

=============================================================================
