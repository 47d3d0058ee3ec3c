# Verification of caching_dex

caching_dex is a single-threaded port of the LeanStore caching service: a B+tree
whose 1 KB pages live in a backend and are cached in a fixed pool of slots. A
child reference is either a backend address or, tagged ("swizzled"), a pointer
to the slot that holds the page. The program has no locks and no second thread;
what makes it hard is that *every request for a slot runs the eviction code on
whatever half-finished state the tree is in*, and that the sampler that chooses
victims is random, so no test runs the same interleaving twice.

## Inventory

| Part (source) | State | Operations | Called by |
|---|---|---|---|
| `CacheAllocator` (`util/CacheAllocator.h`) | `instance_`, `head_idx_`, the mmapped pool | `initialize`, `allocate`, `random_select`, `reset`, `free` | CacheManager |
| `CacheManager` (`include/cache/LeanStoreCache.h`) | `state`, `local_page_set`, the two tables | `cache_insert`, `get_empty_page`, `sample_page`, `flush_all`, `reset` | LeanStoreTree |
| its admission path (same file) | `IO_FLAG` in the page table | `cache_get`, `cold_to_hot*`, `get_exclusive_node`, `updatest_replace` | nobody |
| `HashTable` (`include/tree/HashTable.h`) | FIFO buckets of cool pages | `insert`, `random_evict_to_remote`, `try_promote_using_value` | CacheManager |
| `PageTable` (`include/tree/PageTable.h`) | chains of buckets: address -> slot | insert, upsert, remove, update, RMW, get, reset | CacheManager, HashTable |
| `BTreeLeaf`, `BTreeInner` (`include/cache/BtreeNode.h`) | pages: header, keys, children, bitmap | search, insert, remove, update, split | LeanStoreTree |
| `NodeWR.h` | scratch pages | `raw_remote_read`, `remote_write`, `recursive_iterate`, `fully_unswizzle`, checks | all |
| `LeanStoreTree` (`include/tree/LeanStoreTree.h`) | `super_root_`, `root_` | five operations, splits, destructor, `reset_buffer_pool` | client |
| `InMemoryBackend` | bytes, `cur_offset_` | `read`, `write`, `alloc` | LeanStoreTree, NodeWR |
| `newbench.cpp` | loop counters | bulk load, mix | `main` |
| `Btree.h` | - | `lookup`, `update`, `insert`, `remove` on the backend | nobody |
| shared by a process | `instance_`, two static distributions, `global_backend_` | constructors, `free` | every tree |

Interaction: an operation walks down from `super_root_`. A miss reads the page
from the backend and calls `cache_insert`; so do the split of an inner node (for
the sibling) and a new root. `cache_insert` calls `get_empty_page`: untouched
slots first (warm-up), then the free list, then the oldest page of some bucket of
the cooling table; when there is none, `sample_page` demotes hot pages: it
unswizzles the page in its parent, writes it back if it is dirty and puts it into
its bucket. A bucket that overflows gives its oldest page to the free list. Cool
pages are never promoted: a miss on a cool page loads a second copy.

Hard behaviours: the sampler running in the middle of a split or a load; several
copies of one page in the cooling table; dirty flags and write-back order;
pointers kept across an eviction; a pool too small to have a victim; the end of
the warm-up; resets between operations; what a second tree inherits from the
first; stale keys in arrays and in the frames of the page table. `PROJECT.json` lists them
as hazards, at their lines, with the properties below.

## Modules

* `BufferPool` - slots and their owners: allocator, cooling table, free list, page
  table and the program counter inside `get_empty_page` (`phase`). Page contents
  are left out. Its client is any program that pins and dirties hot pages only
  and never loads an address that a hot page holds.
* `BufferPoolProofs`, `PageTableProofs`, `BTreeNodeProofs`, `CacheProcessProofs`,
  `AdmissionProofs`, `ServerBtreeProofs` - the theorems about the module of that name and
  the lemmas they rest on (see *Proofs*). `BTreeNodeProofs` is about both types of page.
* `TreeWiringProofs`, `TreeContentsProofs` - the theorems about `LeanStoreTree`: how the
  pages in the pool refer to each other; what is in them and in the backend.
* `LeanStoreTree` - extends `BufferPool` with page contents, the backend, the walk,
  splits, the sampler's treatment of parents and the flush. `pc` is the point
  in the operation; the whole code between two pool interactions is one action.
* `KVStore` - the dictionary that `tree_api` promises.
* `TreeProperties` - the properties of `LeanStoreTree`, among them the refinement
  mapping to `KVStore` (`TreeDict`: the pairs a walk would find now).
* `Newbench` - the benchmark as the tree's client.
* `PageMap`, `PageTable` - the map that `BufferPool` uses the page table as, and the
  chains of buckets that implement it: free frames that keep their old key, overflow
  buckets that are added, emptied, unlinked and freed.
* `NodeArrays`, `LeafNode`, `InnerNode`, `BTreeNode` - the nodes on their arrays, with the
  binary search, the memmoves, the shifts of the bitmap word and `closest_set`.
  `LeanStoreTree` takes leaves for maps and inner nodes for sequences; `BTreeNode`, a page
  of either type, is where that is checked. Each carries, as ghost state, what the calls
  so far amount to (`map`, `below`).
* `CacheProcess` - what the trees of one process share. A page is only the tree it
  belongs to, its `pos_state` and its dirty flag; the rest of the pool is in `BufferPool`.
* `ServerBtree` - extends `TreeProperties` with the operations of `Btree.h`: lookups on
  the backend of a tree at work, all operations on that of a destroyed tree.
* `Admission` - extends `BufferPool` with the admission path, for leaves below one parent
  that is held in memory. Nothing calls this code; the client is one that follows
  the order its comments describe.
* `MCBufferPool`, `MCTree`, `MCNewbench`, `MCPageTable`, `MCBTreeNode`, `MCCacheProcess`,
  `MCServer`, `MCAdmission` - instances for TLC.

Correspondence with the code: `VisitHit`, `VisitMiss`, `AdmitLoad` are
`load_child` in the walk; `SplitLeaf`, `SplitInner`, `AdmitSib`, `LinkSibling`,
`LoadSibling` are `split_child` cut at its page requests; `MakeNewRoot` and
`AdmitRoot` are `make_new_root` cut likewise; `SampleDemote`, `SampleStale`,
`SampleOrphan`, `SampleAssert`, `SampleExit` are the exits of one iteration of
`sample_page`; `RequestPage`, `Allocate`, `TakeLocal`, `EvictCool`, `ProbeFails`,
`CacheInsert` are `cache_insert` and `get_empty_page`. In `PageTable` and `ServerBtree` an
action is one call and keeps its name. In `CacheProcess`, `Open` is the constructors,
`Request`, `WarmUp`, `EvictToRemote`, `SampleDraw` a page request, `Close` the destructor.
In `Admission`, `Promote`, `Forget`, `Miss` are the exits of `cache_get` with what follows
a hit; `Bypass`, `ColdToHot`, `Load`, `LoadRefused`, `TryFails` those of `cold_to_hot*`;
`Replace`, `FillStart`, `FillEnd`, `ReplaceChild`, `ReplaceAborts` are `updatest_replace`.

Abstractions: a leaf is a map; binary searches return the position they compute;
a bitmap is a set of positions; hashes are any function (`BucketOf`); random
draws are a choice. `recursive_iterate` returns a hot page with an empty bitmap,
and every such page can be drawn directly, so its path is not modelled. Counters
for statistics and `next_leaf`, which nothing reads, are left out. `exit(0)` after
1000 vain draws may happen whenever the sampler runs, since draws are random.
In `Admission` every comparison of fence keys may go either way, and a leaf is one value.
`IO_FLAG` in `PageTable` is a value like a page. A seven-bit word stands for the 64-bit
bitmap, `DistSpan` for 2^64; both only have to exceed every index.

Definitions such as `BucketOverfull` or `LeafLeftOldLimit` that no action uses are faulty
variants of the definition that follows them; replacing it by the variant makes the
property it is paired with in `PROJECT.json` fail.

## Properties

Pool: `SlotOwnership` (one owner per slot, named by `pos_state`; a slot in flight
has none), `OnlyHotDirty` (`evict_last`'s assertion; `flush_all` writes no stale
copy), `PageTableAgrees` (the newest copy is indexed; removing an old one never
hides it), `GetPageTerminates`.

Tree: `SwizzleSound` (bitmap, tagged child and `parent_ptr` agree both ways),
`FenceKeysAgree` (what the sampler asserts), `CleanMatchesBackend` (a clean page may
be dropped; no pool pointer in the backend), `FlushDurable` (after the destructor
the backend alone gives every key its last value, read as `Btree.h` does),
`PoolContract` (the tree keeps to the contract the pool's theorems assume),
`ImplementsKV` (results are those of the dictionary, and evictions, reloads and
splits change nothing), `SamplerFindsVictim` (`exit(0)` is never forced on a
pool with room for the pages in the way, `num_pages_to_sample` more, and the frames of all
buckets but one, which an eviction that starts at a random bucket may miss),
`BenchTerminates`, `BackendHoldsAll` (no page gets the Null of a full backend; the code breaks
it, see *Findings*).

Page table: `ImplementsMap` (the chains refine `PageMap`), `CountsEntries` (a bucket is freed
exactly when it is empty), `EntryFoundFirst` (`remove(key)`, which does not test whether a
frame is in use, still hits the entry).

Nodes: `LeafAnswersMap`, `LeafKeysWithinLimits`, `WalkReachesChild` (each key is led to the
child that covers it), `BitsMarkSwizzled`, `ClosestIsNearest`, `NodeTypeOK` (no write
outside an array).

Process: `SelectInPool`, `DynamicPoolHandedOut` (a tree that samples does so in a pool handed
out to the last slot), `PagesGoHome` (one tree's pages never reach another's backend),
`BucketIndexInRange` and `WarmUpFindsSlot` (the only cases in which the bucket assertion
fails and a warm-up request spins).

Server: `LookupFailsSafe` (stale inner pages in the backend lead to a refusal, never to a
wrong answer), `HopsReachLeaf`, `ServerImplementsKV`.

Admission: `FlagWhileLoading` (no `IO_FLAG` stays behind on any failing path),
`AdmissionOwnership`, `PromotionNeverFails`, `WritesAreSeen` (whichever of pool and backend an
update went to, it is lost in two ways only: `updatest_replace` exchanges the leaf's dirty page,
or `flush_all` writes an image of the leaf that a refused load put on the free list; the
history variables `replaced` and `overwritten`, which no action reads, record the leaves that
met with either), `RefusalsLoseNothing` (the second way does not exist; the code breaks it).

The code does not keep references intact in every execution (see *Findings*). The
safety properties therefore speak of behaviour up to that point: they are guarded
by `Sane`, and the runs do not explore beyond a state with a dangling reference
(`CONSTRAINT NoDanglingRef`).

## Runs

| Run | Instance | Distinct states | Shows |
|---|---|---|---|
| `pool` | 4 slots, 4 addresses, 2 buckets of 2 | 233 670 | the pool's safety, and that a page request ends |
| `tree_any` | 3 keys, 2 values, all operations, then inserts with a 4th key; 4 slots | 266 521 | the eight tree properties |
| `newbench` | 6 keys loaded, 1 operation, 4 slots, 2 buckets | 30 854 | the benchmark ends; swizzling, fence keys and the dictionary, with inner splits below the root |
| `page_table` | 5 addresses, 2 values, one chain of 2-frame buckets | 15 113 | the chains are a map |
| `nodes` | leaf of 4 entries over 6 keys; inner node of 5 children | 31 773 | the arrays are what the tree takes them for |
| `process` | 3 trees, of 3, 2 and 1 slots | 16 483 | what survives from one tree to the next |
| `server` | 3 keys, inserts and removals, then 1 operation; 2 nodes | 227 922 | `Btree.h` on a live and on a final backend |
| `admission` | 2 leaves, 3 slots, 2 buckets of 2 | 2 893 870 | the admission path |
| `dangling_ref`, `sampler_assert`, `backend_full`, `refused_load` | small | - | findings |

Bounds. Leaves of two entries and inner nodes of three children are the smallest
for which `split` works, so three keys reach height 3, the fourth splits inner nodes below the
root, and six keys, loaded in order, reach height 4. `MaxKeyLast` bounds `tree_any`: the largest key
comes last, and only inserts of the value all pairs have follow it. Pools are smaller than the tree, so that every walk evicts. With one frame
per bucket an overflow happens on the second demotion; with two, copies of one
page pile up in a bucket. `probing_length` 1 makes the eviction miss a bucket that
is not empty. Except in `backend_full`, `BackendPages` suffices for every page the keys can
need. Five keys on one
chain of two-frame buckets give chains of three, of which the middle one can be emptied;
`ret` is left out of the state TLC compares (`VIEW`), since no step reads it, and at
most one of two addresses carries `IO_FLAG` (`OneLoad`), since one thread loads one page.
A leaf of four and a node of five children leave old entries behind in both halves of
a split; key 0 is among the leaf's keys because a zeroed entry looks like it. Three trees of different
sizes make the static distributions too large and too small; the smallest has no
bucket. In `admission` three slots for two leaves let an older copy of a leaf cool, or lie on the
free list, beside the newer one, and the third copy overflows its bucket; any of the leaves may
start with the dirty flag of a fresh image, which stands until the first write-back. `refused_load` has one slot, which stands for the
one free slot of a larger pool: with a single copy the order of `flush_all`'s writes is no
question. The deadlock check is off where the program stops: at `exit`, after an abort and
after the destructor.

Fairness. `FairPoolSpec` and `FairBenchSpec` assume that the single thread takes
its next step whenever it has one (weak fairness of the loops, of the whole
program). Nothing is assumed of random draws. `newbench` is checked up to a dangling
reference. It runs one operation of the mix; a longer mix is in `backend_full`.

## Findings

With a run each:

1. `dangling_ref`: `split_child` requests the sibling's slot before
   `update_all_parent_ptr`; the sampler may draw a moved child, whose `parent_ptr` names
   the old node. The branch commented "not use in this case since 1 thread only" clears
   `parent_ptr`; drawn again, the child is demoted as if it were the root, while the
   sibling still holds a tagged pointer to it.
2. `sampler_assert`: the sampler may draw the inner node being split;
   its new `max_limit_` disagrees with its parent and the assertion aborts.
3. `backend_full`: `newbench` sizes its backend, commented "big enough to hold the worst case", by
   `key_space` alone, while the mix inserts up to `op_num` new keys, and nobody tests for `alloc`'s
   Null. The run has the formula of `main` with small numbers; the minimum decides the
   size, as it does in the program up to 516 096 keys. The program behaves so: `newbench 1000
   3000000 0 100 0 0 0 0 16 100`, a mix of inserts only, ends with 103 482 leaves and 3 695 inner
   nodes on a backend of 65 536 pages, and with status 0.
4. `refused_load`: a load that is refused leaves its slot on the free list with the dirty
   flag of the image. A leaf is stored with that flag set (`BtreeNode.h`, constructor) until its
   first write-back, so `flush_all` writes the refused image over an update that went to the
   backend later.

Met while modelling, without a run of their own:

5. `reset_buffer_pool` zeroes every slot and both tables and leaves `super_root_` swizzled:
   the next walk starts on a zeroed page.
6. `CacheManager::reset` keeps `local_page_set`; after the next warm-up a slot in use is
   returned as free.
7. `CacheAllocator::initialize` returns early for a second tree and nothing calls `free`:
   its first page request spins. `WarmUpFindsSlot` names this as the only such case.
8. `bucket_num_` is 0 when capacity times cooling ratio is below 1, and the static
   distribution of `random_bucket_idx` keeps the size of the first table: the assertion
   on the index fails. `BucketIndexInRange` names these as the only cases.
9. Two trees open at a time share the `global_backend_` of the later one.
   `CacheProcess` opens one at a time; there `PagesGoHome` holds.
10. `Btree.h`'s `insert` returns -1, documented as "enterring wrong leaf node", for a full
    leaf too.
11. `updatest_replace` may demote, in its own request for a free slot, the page it
    replaces; the assertion in `replace_child` then fails (`ReplaceAborts`).
12. `updatest_replace` does not look at the dirty flag of the page it exchanges: an update that
    has not been written back is lost (`WritesAreSeen` names the case, `replaced`). Nothing
    calls it, and no comment says whether its caller is to flush first.

## Proofs

For every value of the constants allowed by the assumptions below:

| Module | Proved of its specification |
|---|---|
| `BufferPoolProofs` | `PoolTypeOK`, `SlotOwnership`, `OnlyHotDirty`, `PageTableAgrees`; how full the pool is when the sampler runs (`IdleBounded`) |
| `PageTableProofs` | `CountsEntries`, `EntryFoundFirst`, the refinement `ImplementsMap` |
| `BTreeNodeProofs` | `NodeTypeOK`, `LeafAnswersMap`, `LeafKeysWithinLimits`, `WalkReachesChild`, `BitsMarkSwizzled`, `ClosestIsNearest` |
| `CacheProcessProofs` | `ProcessTypeOK`, `SelectInPool`, `DynamicPoolHandedOut`, `PagesGoHome`, `BucketIndexInRange`, `WarmUpFindsSlot` |
| `TreeWiringProofs` | `SwizzleSound`, `SlotOwnership`; no reference dangles unless the sampler demotes a page that a split holds |
| `TreeContentsProofs` | the refinement `ImplementsKV`, `FlushDurable`, `TreeTypeOK`, `CleanMatchesBackend`, `FenceKeysAgree`, `SamplerFindsVictim`, `PoolContract` and with it the pool's properties; the sampler's assertion fails on a page being split only |
| `ServerBtreeProofs` | `LookupFailsSafe`, `HopsReachLeaf`, the refinement `ServerImplementsKV` |
| `AdmissionProofs` | `FlagWhileLoading`, `AdmissionOwnership`, `PromotionNeverFails`, `WritesAreSeen` |

Each module has one inductive invariant, one lemma per action that it is kept, and short
theorems that take the properties from it. The invariants of the nodes were checked with
TLC on the instance of `nodes` before they were proved.

*Pool.* Assumptions: there are finitely many slots, at least one, and `NoSlot` is none; at
least one address, bucket and frame; `BucketOf` maps addresses to buckets; positive probing length and sample count.
`PoolInv` is the conjunction of the four properties. None is inductive alone: ownership
needs the types (a sampled slot is never the one in flight) and exact tags (a slot popped
from a bucket is in no other bucket); cleanness needs ownership (a page is dirtied only
while in use and leaves use only through `SamplePage`, which cleans it); the page table
needs ownership (the copy that is removed is the last in its bucket, so the indexed copy,
which is in front of it or in use, survives). The part about owners alone, `OwnInv`, is
kept by every action that moves a slot whatever the client does, which is what
`AdmissionProofs` uses.

*Page table.* Assumptions: address 0 exists (a zeroed frame carries it), `Null` is no page,
a bucket has fewer frames than its counter has values (`CountWidth`, 2^16, for the 2^32 of
`count_`), hashes are numbers. `TableInv` says of each chain that counts are right, that no overflow bucket is
empty, and, the core, that a frame that carries a key, in use or free, comes after the
key's entry (`EntryFirst`). Since `remove` leaves keys in free frames and inserts reuse
the first free frame, "a key has one entry" is not inductive without it. From it every
loop's first match is the entry, and each call maps to the `PageMap` call with the same
result.

*Nodes.* Assumptions: a leaf has at least 2 entries, an inner node at least 4, the bitmap
word is longer than an inner node; `NoVal` is no value, `NoChild` no page. `Search`, the binary
search, is a recursive function on the window; `SearchFacts` says that on sorted keys it
returns the number of smaller ones. The induction on the width of the window is done by
contradiction from a least failing width (`LeastNumber`, from the well-foundedness of
the naturals). `LeafInv` adds to the types that the entries in use are sorted, within the
limits and exactly the pairs of the map: `find` answering correctly says nothing of where the
next insert writes. `InnerInv` adds sorted separators inside the limits, that no page is
linked twice, that each child covers the keys between its separators, and that bits
are the tags: `WalkReachesChild` is not inductive, because an insert divides the range of
the page it finds, and the search means something only among sorted keys.

*Process.* Assumptions: finitely many trees, each with a positive capacity below
`DistSpan`; a cooling ratio with a positive denominator. `ProcInv` says what a tree inherits:
one tree is open, `global_backend_` is its backend and only its pages are dirty; the
slots below `head_idx_` have owners that were opened; a static distribution was made for
a tree that was opened.

*Admission.* Assumptions: those of the pool; there is a value; `IO_FLAG` is no slot. The pool's
invariant fails here: the flag stands in the page table, `Forget` leaves a
cooling page without an entry and `updatest_replace` a hot one. `AdmInv` keeps `OwnInv`
and says how an entry, the parent's child and the page's state go together; `SeenInv`, on
top of it and for the leaves that are not `Spoiled`, that a dirty page, unless it lies on the free
list, is the hot page the leaf's entry names, and that the last value is where the next access looks. Pages
on the free list have to be left out of the first part: a refused image may be dirty there for
ever, and only `flush_all` makes it matter (finding 4).

*Tree.* Assumptions: those of the pool; slots, addresses, `NoSlot` and `Super` are different
things; a leaf has at least 2 entries and an inner node room for 2 separators, without
which `split` makes no sense; the backend has more than one page; a scan asks for a natural number
of pairs. The theorems have two
hypotheses about the run. `[]NoDanglingRef`: no reference has dangled, as in the runs
(`CONSTRAINT NoDanglingRef`); afterwards the process reads recycled memory (finding 1).
`[]Fits`: `alloc` has never returned its Null, which no caller tests (finding 3).

1. `WireInv` (`TreeWiringProofs`): types, shapes of nodes, the phase of the page request at
   each `pc`, and the wiring in both directions. `SwizzleSound` is not inductive: that a
   parent's tagged child names its parent must be known also of the page that waits for a
   slot, of the children that an inner split has moved and of the pages an operation has
   at hand. The only step that breaks it is a demotion of a page that a split holds; so
   if the sampler spares those (`SplitSpared`) no reference dangles (`OnlyHeldPagesDangle`),
   which names the one cause of finding 1.
2. `ContInv`: there is an assignment `Q` of pages to the addresses given out such that every
   copy, in a slot, in the backend or waiting, is one of `Q`'s pages with its children
   renamed (`Stored`), and `Q` is a forest in which no page is named twice (`Linked`). No
   variable holds `Q`. Each step is one of five edits of it: nothing, a leaf written, a page
   halved, a half joined to its parent, a new root. `CleanMatchesBackend` and `PoolContract` need
   both parts: a page is never loaded while a slot has it because its only name is then
   the slot.
3. `FenceInv`: in `Q`, each child has the limits and level its place in the parent gives, the
   two halves of a split standing together for the page that was split (`Fenced`); the page
   that the walk stands on holds the key of the operation (`OnTheWay`), without which an insertion
   of a separator could land beside the child that was split; and the parent of a page
   that is about to be split, and the leaf an insert comes to, have room (`Room`): `insert`
   splits a full child before it goes there, and the half it goes on to without a test is
   not full. No key lies within the limits of two leaves (`Spread`). `FenceKeysAgree`, `TreeTypeOK`
   and `OnlySplitPagesAssert`, which names the one cause of finding 2, follow.
4. The dictionary. `TreeDict` asks where a walk ends. The recursion of `Descend` is unfolded once:
   a function that follows it exists (`WalkExists`), and a walk in which every page is one level
   below the last comes to a leaf (`DescendFinds`, from a least height at which it would not).
   Every reference leads to the copy of its page that counts: no address is named of which a
   slot has a copy (`Proper`). So a walk for `k` stays on pages whose limits hold `k`, the half of
   an unfinished split included (`Stand`), and ends in the only such leaf. What a step does to
   the dictionary is therefore what its edit does to one leaf: nothing, unless it is the
   operation in its leaf (`QuietEntry`), and there what `KVStore` says (`LeafKV`). That insert never
   finds the leaf full uses `Room`; that a scan, which stops at the end of its leaf, returns
   a run without gaps uses that the limits of a leaf are an interval. `FlushDurable` follows
   the same way: after the flush the backend's pages are `Q`.
5. The sampler. `IdleBounded` says how many slots may be out of use when `sample_page` runs
   (`SamplerStartsFull`): an eviction fails only with an empty free list and at least one bucket
   it saw empty, so the slots not in use lie in the other buckets, and each demotion adds one.
   On the other side, a page without a victim's marks is pinned, hangs from `super_root_` or has a
   swizzled child. So if there is no victim, the pages in use are a chain of one page per level down
   to the pinned one (`OneChain`, by the highest page of a set, `Highest`), or the two halves of a
   split root: at most `Unavailable` pages (`NoVictimFew`), too few for the pool. With several buckets
   the frames the eviction may miss belong in the bound: without them TLC finds the process
   forced to exit with two buckets and four slots, although the probing length covers both.

`Q` quantified in the invariants, not built from the variables, is what keeps recursion over
the tree out of the proofs but for the walk itself. The invariants were checked with TLC, as invariants of the
instance of `tree_any` and of one with five keys inserted in any order, before they were proved.

*Server.* Assumptions: those of the tree; `nodeID` gives each address a number, any number.
The hypotheses are the tree's two. `ServerInv` is one thing before the destructor and
another after it.

1. While the tree is open, `OpenInv` adds to `FenceInv` that the backend is behind `Q`, never
   beside it (`Behind`): a page of it was never written, and then no key is within its limits,
   or is of the type it has in `Q`, and the children it names are pages that `Q` has one level
   lower. So a walk goes down however old the pages on it are, and ends. It may end in
   a wrong leaf; but limits of a leaf that is not out of date are those of `Q`, where no two leaves
   share a key, so the test `rangeValid` refuses the key there (`LookupFailsSafe`). The test is
   what makes the answer right, not the walk: without its upper bound TLC refutes the property.
2. The destructor's flush makes the backend a tree by itself (`RemoteSound`): its pages are linked,
   fenced, one leaf for each key. The servers' writes put one pair into a leaf or take one
   out, and keep that. Each hop of a client goes at least one level down, so the client comes to
   the leaf of its key whatever node each page is on (`HopsReachLeaf`); what a server
   does there changes the one leaf, and so the one entry of `RemoteDict`.

The recursion of a walk, `Follow`, is unfolded once, as for the tree (`TripsExist`, `FollowEnds`).

Only model-checked: liveness, which is outside the prover's reach.

## Not modelled

After a reset of its pool, what a tree does through its swizzled root (finding 5).
Of the admission path: `get_exclusive_node`'s branch for a hot page (with one parent a hot
page is found through its reference), `opportunistic_sample`, the second level of
parents. `HashTable::try_promote` and `check_existence`, `CacheAllocator::is_peer` and
`get_peer_addr`, `recursive_iterate_without_bitmap`: no caller. Two trees open at a
time. The Zipf and uniform generators: floating point; a drawn key is any key. Argument
parsing, statistics. Keys equal to the largest or the smallest value of the type, and with the
latter the clause of `rangeValid` that lets it in. Of `Btree.h`, the address of the leaf that
`update`, `insert` and `remove` hand back through `root`. Of the page table, the assertion of
`update` and the loop of `upsert` that test the `remote_address` of the page they are given:
a page is a value there. In `CacheProcess`, `local_page_set`, which is one for the
thread and outlives reset and `free` (finding 6).

## Plan

Done: the modules and their runs; the proofs about the pool, the page table, the nodes, the
process, the admission path, the tree with its dictionary and its sampler, and the server.
Left: what *Not modelled* lists.
