------------------------------ MODULE BufferPool ------------------------------
(***************************************************************************)
(* The slots of the buffer pool and who owns each of them.                 *)
(*                                                                         *)
(* CacheManager (include/cache/LeanStoreCache.h) hands out the 1 KB slots  *)
(* of the pool that CacheAllocator mmaps: first the untouched ones (warm-  *)
(* up, state = 0), then recycled ones (dynamic phase, state = 1).  A slot  *)
(* that is in use is hot; sample_page demotes hot slots into the cooling   *)
(* table (HashTable: FIFO buckets); the oldest entry of a bucket is evicted *)
(* to serve a request, or moved to the free list local_page_set when its   *)
(* bucket overflows.  page_table_ maps a backend address to the slot that  *)
(* holds its newest copy.                                                  *)
(*                                                                         *)
(* This module keeps what these structures decide about slots.  What is in *)
(* a page, and which hot page may be demoted, belongs to the tree          *)
(* (LeanStoreTree.tla), which extends this module; here the tree is any    *)
(* client that dirties only hot pages and asks for a page that is not hot  *)
(* already.  The program is single-threaded: phase is the program counter  *)
(* inside get_empty_page, and each action is one branch of its loops.      *)
(***************************************************************************)
EXTENDS Integers, Sequences, FiniteSets

CONSTANTS
  Slot,                \* the slots of the pool; page_num_ = Cardinality(Slot)
  NoSlot,              \* nullptr
  BackendPages,        \* pages the backend can hold; page 0 is never allocated
  bucket_num_,         \* buckets of the cooling table
  BucketOf,            \* hash(address) % bucket_num_, any function
  NUM_ENTRIES,         \* frames of one bucket
  probing_length,      \* buckets random_evict_to_remote looks at
  num_pages_to_sample  \* pages demoted when the cooling table has none to give

Addr == 0 .. BackendPages - 1
NullAddr == 0          \* GlobalAddress::Null()
Bucket == 0 .. bucket_num_ - 1

ASSUME SlotAssumption == Slot # {} /\ NoSlot \notin Slot
ASSUME FiniteAssumption == IsFiniteSet(Slot)
ASSUME AddrAssumption == BackendPages \in Nat \ {0}
ASSUME TableAssumption ==
  /\ bucket_num_ \in Nat \ {0} /\ NUM_ENTRIES \in Nat \ {0}
  /\ BucketOf \in [Addr -> Bucket]
ASSUME TuningAssumption ==
  probing_length \in Nat \ {0} /\ num_pages_to_sample \in Nat \ {0}

VARIABLES
  state,           \* 0 = warm-up, 1 = dynamic
  unallocated,     \* slots from head_idx_ on, never handed out by the allocator
  pos_state,       \* 0 remote/zeroed, 1 cool, 2 hot, 3 local, 4 pinned
  remote_address,  \* the backend address in the page's header
  dirty,
  local_page_set,  \* free list, last element is popped first
  table_,          \* bucket -> slots in frame_[0 .. count-1], newest first
  page_table,      \* backend address -> slot or NoSlot
  phase,           \* "idle", "get", "sample", "admit", "exit"
  to_sample,       \* demotions left in sample_multiple_pages
  page,            \* the slot get_empty_page returned, not filled yet
  pin,             \* the parent load_child has pinned, or NoSlot
  prev_state       \* its pos_state before the pin

control == <<phase, to_sample, page, pin, prev_state>>
pages == <<pos_state, remote_address, dirty>>
poolVars == <<state, unallocated, pages, local_page_set, table_, page_table, control>>

-----------------------------------------------------------------------------
(* Helpers *)

HotSlots == {s \in Slot : pos_state[s] = 2}
InUse(s) == pos_state[s] \in {2, 4}

\* CacheAllocator::allocate hands out its last page: the warm-up is over.
LastPageMissed(s) == FALSE
LastPage(s) == unallocated = {s}

\* page_table_->remove_with_lock(key, value): drops the entry only if it
\* still names this slot.
RemoveAnyEntry(pt, a, s) == [pt EXCEPT ![a] = NoSlot]
RemoveEntry(pt, a, s) == IF pt[a] = s THEN [pt EXCEPT ![a] = NoSlot] ELSE pt

\* page_table_->upsert_with_lock(key, value)
Upsert(pt, a, s) == [pt EXCEPT ![a] = s]

\* Bucket::evict_last and the head insertion of Bucket::insert.
Oldest(frames) == frames[Len(frames)]
WithoutOldestUncounted(frames) == frames
WithoutOldest(frames) == SubSeq(frames, 1, Len(frames) - 1)
WithNewest(frames, s) == <<s>> \o frames

\* Bucket::insert has no frame left and evicts first.
BucketOverfull(b) == Len(table_[b]) > NUM_ENTRIES
BucketFull(b) == Len(table_[b]) = NUM_ENTRIES

\* sample_page writes the page back and clears its dirty flag.
CleanedNever(s) == dirty
Cleaned(s) == [dirty EXCEPT ![s] = FALSE]

\* Who holds each slot once the page is admitted: the new page is hot and
\* load_child gives its parent back the state it had.
AdmittedState == [x \in Slot |-> CASE x = pin -> prev_state
                                    [] x # pin /\ x = page -> 2
                                    [] OTHER -> pos_state[x]]

\* The buckets [idx, min(bucket_num_, idx + probing_length)).
Probed(idx) == {b \in Bucket : idx <= b /\ b < idx + probing_length}

InTable(s) == \E b \in Bucket : \E i \in 1 .. Len(table_[b]) : table_[b][i] = s
InFreeList(s) == \E i \in 1 .. Len(local_page_set) : local_page_set[i] = s

-----------------------------------------------------------------------------
PoolInit ==
  /\ state = 0
  /\ unallocated = Slot
  /\ pos_state = [s \in Slot |-> 0]
  /\ remote_address = [s \in Slot |-> NullAddr]
  /\ dirty = [s \in Slot |-> FALSE]
  /\ local_page_set = <<>>
  /\ table_ = [b \in Bucket |-> <<>>]
  /\ page_table = [a \in Addr |-> NoSlot]
  /\ phase = "idle"
  /\ to_sample = 0
  /\ page = NoSlot
  /\ pin = NoSlot
  /\ prev_state = 0

\* Entry of cache_insert.  load_child pins the parent p it fills a child of;
\* split_child and make_new_root, and load_child for the root, pin nothing.
RequestPage(p) ==
  /\ phase = "idle"
  /\ phase' = "get"
  /\ pin' = p
  /\ prev_state' = IF p = NoSlot THEN 0 ELSE pos_state[p]
  /\ pos_state' = IF p = NoSlot THEN pos_state ELSE [pos_state EXCEPT ![p] = 4]
  /\ UNCHANGED <<state, unallocated, remote_address, dirty, local_page_set,
                 table_, page_table, to_sample, page>>

\* Warm-up: CacheAllocator::allocate; the last page ends the warm-up.
Allocate(s) ==
  /\ phase = "get" /\ state = 0 /\ s \in unallocated
  /\ unallocated' = unallocated \ {s}
  /\ state' = IF LastPage(s) THEN 1 ELSE 0
  /\ page' = s
  /\ phase' = "admit"
  /\ UNCHANGED <<pages, local_page_set, table_, page_table, to_sample, pin, prev_state>>

\* Dynamic phase: get_local_page_set pops the free list.
TakeLocal ==
  /\ phase = "get" /\ state = 1 /\ local_page_set # <<>>
  /\ page' = Oldest(local_page_set)
  /\ local_page_set' = WithoutOldest(local_page_set)
  /\ phase' = "admit"
  /\ UNCHANGED <<state, unallocated, pages, table_, page_table, to_sample, pin, prev_state>>

\* random_evict_to_remote starting at bucket idx: the oldest entry of the
\* first probed bucket that is not empty.  The evicted page stays at
\* pos_state 1 until cache_insert overwrites it.
EvictCool(idx) ==
  /\ phase = "get" /\ state = 1 /\ local_page_set = <<>>
  /\ \E b \in Probed(idx) :
       /\ table_[b] # <<>>
       /\ \A c \in Probed(idx) : c < b => table_[c] = <<>>
       /\ LET s == Oldest(table_[b]) IN
            /\ page' = s
            /\ table_' = [table_ EXCEPT ![b] = WithoutOldest(table_[b])]
            /\ page_table' = RemoveEntry(page_table, remote_address[s], s)
  /\ phase' = "admit"
  /\ UNCHANGED <<state, unallocated, pages, local_page_set, to_sample, pin, prev_state>>

\* random_evict_to_remote returns -1: sample_multiple_pages is called.
ProbeFails(idx) ==
  /\ phase = "get" /\ state = 1 /\ local_page_set = <<>>
  /\ \A b \in Probed(idx) : table_[b] = <<>>
  /\ phase' = "sample"
  /\ to_sample' = num_pages_to_sample
  /\ UNCHANGED <<state, unallocated, pages, local_page_set, table_, page_table,
                 page, pin, prev_state>>

\* One sample_page that finds the hot page s: write it back, put it at the
\* front of its bucket, and move the entry a full bucket loses to the free
\* list.  After the last one try_get_empty_page starts over.
SamplePage(s) ==
  LET b == BucketOf[remote_address[s]]
      full == BucketFull(b)
      e == Oldest(table_[b])
  IN
  /\ phase = "sample" /\ s \in HotSlots
  /\ dirty' = Cleaned(s)
  /\ table_' = [table_ EXCEPT ![b] =
                  WithNewest(IF full THEN WithoutOldest(table_[b]) ELSE table_[b], s)]
  /\ pos_state' = [x \in Slot |-> CASE x = s -> 1
                                    [] x # s /\ full /\ x = e -> 3
                                    [] OTHER -> pos_state[x]]
  /\ page_table' = IF full THEN RemoveEntry(page_table, remote_address[e], e)
                           ELSE page_table
  /\ local_page_set' = IF full THEN Append(local_page_set, e) ELSE local_page_set
  /\ to_sample' = to_sample - 1
  /\ phase' = IF to_sample = 1 THEN "get" ELSE "sample"
  /\ UNCHANGED <<state, unallocated, remote_address, page, pin, prev_state>>

\* sample_page drew 1000 slots in vain: exit(0).  Draws are random, so this
\* may happen whatever the pool holds.
SampleExit ==
  /\ phase = "sample"
  /\ phase' = "exit"
  /\ UNCHANGED <<state, unallocated, pages, local_page_set, table_, page_table,
                 to_sample, page, pin, prev_state>>

\* The rest of cache_insert: the page (address a, dirty flag d of the image)
\* is copied into the slot, indexed and, by every caller, made hot; load_child
\* gives its parent back the state it had.
CacheInsert(a, d) ==
  /\ phase = "admit"
  /\ remote_address' = [remote_address EXCEPT ![page] = a]
  /\ dirty' = [dirty EXCEPT ![page] = d]
  /\ pos_state' = AdmittedState
  /\ page_table' = Upsert(page_table, a, page)
  /\ phase' = "idle"
  /\ page' = NoSlot
  /\ pin' = NoSlot
  /\ prev_state' = 0
  /\ UNCHANGED <<state, unallocated, local_page_set, table_, to_sample>>

\* The tree writes the pages S.
MarkDirty(S) ==
  /\ phase = "idle"
  /\ dirty' = [s \in Slot |-> s \in S \/ dirty[s]]
  /\ UNCHANGED <<state, unallocated, pos_state, remote_address, local_page_set,
                 table_, page_table, control>>

\* flush_all: every dirty page is written back.
FlushAll ==
  /\ phase = "idle"
  /\ dirty' = [s \in Slot |-> FALSE]
  /\ UNCHANGED <<state, unallocated, pos_state, remote_address, local_page_set,
                 table_, page_table, control>>

\* The branches of get_empty_page and of the sampler.
GetEmptyPage ==
  \/ \E s \in Slot : Allocate(s)
  \/ TakeLocal
  \/ \E idx \in Bucket : EvictCool(idx)
  \/ \E idx \in Bucket : ProbeFails(idx)
  \/ SampleExit

\* A client that keeps to the contract: it pins and dirties hot pages only and
\* never asks for an address that some hot page holds already.
PoolNext ==
  \/ GetEmptyPage
  \/ \E p \in HotSlots \union {NoSlot} : RequestPage(p)
  \/ \E s \in HotSlots : SamplePage(s)
  \/ \E a \in Addr \ {NullAddr}, d \in BOOLEAN :
       /\ \A s \in Slot : InUse(s) => remote_address[s] # a
       /\ CacheInsert(a, d)
  \/ \E S \in SUBSET HotSlots : MarkDirty(S)
  \/ FlushAll

PoolSpec == PoolInit /\ [][PoolNext]_poolVars

\* The loops inside get_empty_page run to their end: the program takes the
\* next branch whenever there is one.
SamplerStep == SampleExit \/ \E s \in HotSlots : SamplePage(s)
FairPoolSpec == PoolSpec /\ WF_poolVars(GetEmptyPage \/ SamplerStep)

-----------------------------------------------------------------------------
(* Properties *)

\* Type invariant: the fields hold the values the headers declare, a bucket
\* never holds more than NUM_ENTRIES frames, and a slot is in flight exactly
\* between get_empty_page and the end of cache_insert.
PoolTypeOK ==
  /\ state \in {0, 1}
  /\ unallocated \in SUBSET Slot
  /\ pos_state \in [Slot -> 0 .. 4]
  /\ remote_address \in [Slot -> Addr]
  /\ dirty \in [Slot -> BOOLEAN]
  /\ local_page_set \in Seq(Slot)
  /\ table_ \in [Bucket -> Seq(Slot)]
  /\ \A b \in Bucket : Len(table_[b]) <= NUM_ENTRIES
  /\ page_table \in [Addr -> Slot \union {NoSlot}]
  /\ phase \in {"idle", "get", "sample", "admit", "exit"}
  /\ to_sample \in 0 .. num_pages_to_sample
  /\ phase = "sample" => to_sample > 0
  /\ page \in Slot \union {NoSlot} /\ (page # NoSlot <=> phase = "admit")
  /\ pin \in Slot \union {NoSlot} /\ (phase = "idle" => pin = NoSlot)
  /\ prev_state \in 0 .. 4 /\ (pin # NoSlot => prev_state = 2)

\* Every slot has exactly one owner and its pos_state says which: the allocator
\* (0), the cooling table (1), the tree (2, or 4 while pinned) or the free
\* list (3); the slot get_empty_page hands out belongs to nobody, so no page
\* can be filled while some structure still refers to its slot, and no slot is
\* handed out twice.  The warm-up ends with the allocator's last slot.
TableInjective ==
  \A b, c \in Bucket : \A i \in 1 .. Len(table_[b]), j \in 1 .. Len(table_[c]) :
    table_[b][i] = table_[c][j] => b = c /\ i = j
FreeListInjective ==
  \A i, j \in 1 .. Len(local_page_set) :
    local_page_set[i] = local_page_set[j] => i = j
OwnerTagged ==
  \A s \in Slot \ {page} :
    /\ pos_state[s] = 0 <=> s \in unallocated
    /\ pos_state[s] = 1 <=> InTable(s)
    /\ pos_state[s] = 3 <=> InFreeList(s)
    /\ pos_state[s] = 4 <=> s = pin
InFlightUnowned ==
  page # NoSlot => /\ page \notin unallocated \union {pin}
                   /\ ~InTable(page) /\ ~InFreeList(page) /\ ~InUse(page)
WarmUpEnds == state = 0 <=> unallocated # {}
SlotOwnership ==
  TableInjective /\ FreeListInjective /\ OwnerTagged /\ InFlightUnowned /\ WarmUpEnds

\* Only pages in use are dirty: the assertion in Bucket::evict_last holds, and
\* flush_all, which writes back every dirty slot whoever owns it, never
\* overwrites a backend page with a stale copy.
OnlyHotDirty == \A s \in Slot : dirty[s] => InUse(s)

\* page_table_ and the pool agree, whatever copies of a page are still cooling:
\* an address in any hot or cool slot is mapped, to the slot in use if there is
\* one and else to the most recently demoted copy; a mapped slot holds that
\* address.  So removing an old copy never hides a newer one.
CoolInItsBucket ==
  \A b \in Bucket : \A i \in 1 .. Len(table_[b]) :
    BucketOf[remote_address[table_[b][i]]] = b
EntrySound ==
  \A a \in Addr : page_table[a] # NoSlot =>
    LET s == page_table[a] IN
    s # page /\ remote_address[s] = a /\ (InUse(s) \/ InTable(s))
HotIndexed == \A s \in Slot : InUse(s) => page_table[remote_address[s]] = s
NewestCopyIndexed ==
  \A b \in Bucket : \A i \in 1 .. Len(table_[b]) :
    LET t == page_table[remote_address[table_[b][i]]] IN
    t # NoSlot /\ (InUse(t) \/ \E j \in 1 .. i : table_[b][j] = t)
PageTableAgrees ==
  CoolInItsBucket /\ EntrySound /\ HotIndexed /\ NewestCopyIndexed

\* A page request ends: get_empty_page never spins.  It returns a slot, or
\* sample_page gives up and the process exits.
GetPageTerminates == phase = "get" ~> phase \in {"admit", "exit"}

=============================================================================
