----------------------------- MODULE CacheProcess -----------------------------
(***************************************************************************)
(* What trees opened in one process share: the allocator's instance_ and   *)
(* the slots behind it (util/CacheAllocator.h), the static distributions   *)
(* of random_select and random_bucket_idx (tree/HashTable.h), and          *)
(* global_backend_ (cache/NodeWR.h).  Each tree has a backend of its own,  *)
(* named like the tree.                                                    *)
(*                                                                         *)
(* BufferPool models one pool in full.  Here a page is only the tree it    *)
(* belongs to, its pos_state and its dirty flag: the free list and the     *)
(* FIFO order of the cooling table are left out, and one call of           *)
(* sample_multiple_pages demotes any number of pages.  So are two things a *)
(* tree leaves behind: local_page_set, which is one for the thread and     *)
(* which neither reset nor free clears, and the swizzled super_root_ of a  *)
(* tree whose pool was reset, through which it would go on to write into   *)
(* slot 0.                                                                 *)
(***************************************************************************)
EXTENDS Integers, FiniteSets

CONSTANTS
  Tree,               \* the trees the process opens, each once
  None,               \* nullptr
  Capacity,           \* cache_capacity_pages of each tree
  CoolNum, CoolDen,   \* cooling_ratio = CoolNum / CoolDen
  NUM_ENTRIES,        \* frames of a bucket
  DistSpan            \* stands for 2^64, the values of a uint64_t

MaxPages == CHOOSE n \in {Capacity[t] : t \in Tree} : \A t \in Tree : Capacity[t] <= n
SlotIdx == 0 .. MaxPages - 1

ASSUME ProcessAssumption ==
  /\ Tree # {} /\ IsFiniteSet(Tree)
  /\ None \notin Tree /\ None \notin [page_num_ : Nat, head_idx_ : Nat]
  /\ Capacity \in [Tree -> Nat \ {0}]
  /\ CoolNum \in Nat /\ CoolDen \in Nat \ {0} /\ NUM_ENTRIES \in Nat \ {0}
  /\ DistSpan \in Nat \ {0} /\ \A t \in Tree : Capacity[t] < DistSpan

VARIABLES
  instance_,        \* [page_num_, head_idx_], or None
  slot,             \* slot index -> the page in it
  life, state,      \* of each tree: none/open/closed; 0 warm-up, 1 dynamic
  cool,             \* tree -> slots in its cooling table
  global_backend_,
  call,             \* the tree inside get_empty_page, or None
  sampling,         \* that call is inside sample_multiple_pages
  select_span,      \* values of random_select's distribution, 0 before its first use
  bucket_span,      \* the same for random_bucket_idx
  picked,           \* what random_select returned last, or None
  io,               \* <<tree of the page, backend>> of every read and write-back
  fault             \* "none", "assert" or "division"

procVars == <<instance_, slot, life, state, cool, global_backend_, call, sampling,
              select_span, bucket_span, picked, io, fault>>

Zeroed == [tree |-> None, pos_state |-> 0, dirty |-> FALSE]
Hot(t) == [tree |-> t, pos_state |-> 2, dirty |-> FALSE]
Running == call = None /\ fault = "none"

\* HashTable's constructor on cache_capacity * cooling_ratio, cut to an integer.
bucket_num_(t) ==
  LET entry_num == (Capacity[t] * CoolNum) \div CoolDen IN
  IF entry_num % NUM_ENTRIES = 0 THEN entry_num \div NUM_ENTRIES
                                 ELSE entry_num \div NUM_ENTRIES + 1

\* uniform_int_distribution<uint64_t>(0, n - 1): for n = 0 the bound wraps round.
SpanInclusive(n) == n + 1
Span(n) == IF n = 0 THEN DistSpan ELSE n
\* A static is constructed by the first call that reaches it.
Static(span, n) == IF span = 0 THEN Span(n) ELSE span

-----------------------------------------------------------------------------
(* CacheAllocator *)

\* initialize: "if (instance_ != nullptr) return".
Initialized(t) == IF instance_ # None THEN instance_ ELSE [page_num_ |-> Capacity[t], head_idx_ |-> 0]

HasPageUnchecked == TRUE
HasPage == instance_.head_idx_ < instance_.page_num_

LastPageEarly(cur_idx) == cur_idx + 2 = instance_.page_num_
LastPage(cur_idx) == cur_idx = instance_.page_num_ - 1

\* CacheAllocator::reset
PoolKept == instance_
PoolReset == [instance_ EXCEPT !.head_idx_ = 0]

Smaller(m, n) == IF m < n THEN m ELSE n

\* random_select's correction of a draw that is not in the part handed out.
OutsideHandedOut(idx) == idx > instance_.head_idx_
Outside(idx) == idx > instance_.head_idx_ \/ idx >= instance_.page_num_

-----------------------------------------------------------------------------
(* The pages flush_all writes: every dirty slot, whoever owns it *)

FlushNothing == slot
Flushed == [i \in SlotIdx |-> [slot[i] EXCEPT !.dirty = FALSE]]
WrittenBack(S) == {<<slot[i].tree, global_backend_>> : i \in {j \in S : slot[j].dirty}}

-----------------------------------------------------------------------------
(* Actions *)

Init ==
  /\ instance_ = None
  /\ slot = [i \in SlotIdx |-> Zeroed]
  /\ life = [t \in Tree |-> "none"]
  /\ state = [t \in Tree |-> 0]
  /\ cool = [t \in Tree |-> {}]
  /\ global_backend_ = None
  /\ call = None /\ sampling = FALSE
  /\ select_span = 0 /\ bucket_span = 0 /\ picked = None
  /\ io = {} /\ fault = "none"

\* The constructors of CacheManager and of the tree, which loads its root.
Open(t) ==
  /\ Running /\ life[t] = "none"
  /\ instance_' = Initialized(t)
  /\ global_backend_' = t
  /\ life' = [life EXCEPT ![t] = "open"]
  /\ io' = io \union {<<t, t>>}
  /\ call' = t
  /\ UNCHANGED <<slot, state, cool, sampling, select_span, bucket_span, picked, fault>>

\* load_child misses: raw_remote_read, then cache_insert.
Request(t) ==
  /\ Running /\ life[t] = "open"
  /\ io' = io \union {<<t, global_backend_>>}
  /\ call' = t
  /\ UNCHANGED <<instance_, slot, life, state, cool, global_backend_, sampling,
                 select_span, bucket_span, picked, fault>>

\* Warm-up: allocate.  While it returns nullptr the loop runs on and nothing
\* changes.
WarmUp(t) ==
  /\ call = t /\ fault = "none" /\ state[t] = 0 /\ HasPage
  /\ LET cur_idx == instance_.head_idx_ IN
       /\ instance_' = [instance_ EXCEPT !.head_idx_ = cur_idx + 1]
       /\ slot' = [slot EXCEPT ![cur_idx] = Hot(t)]
       /\ state' = IF LastPage(cur_idx) THEN [state EXCEPT ![t] = 1] ELSE state
  /\ call' = None
  /\ UNCHANGED <<life, cool, global_backend_, sampling, select_span, bucket_span, picked,
                 io, fault>>

\* random_evict_to_remote, from the draw of random_bucket_idx: it aborts, or
\* finds a cool page, or finds none, whichever buckets it probes.
EvictToRemote(t) ==
  /\ call = t /\ fault = "none" /\ state[t] = 1 /\ ~sampling
  /\ bucket_span' = Static(bucket_span, bucket_num_(t))
  /\ \E idx \in 0 .. bucket_span' - 1 :
       \/ /\ idx >= bucket_num_(t)
          /\ fault' = "assert"
          /\ UNCHANGED <<slot, cool, call, sampling>>
       \/ /\ idx < bucket_num_(t)
          /\ \/ \E i \in cool[t] :
                  /\ slot' = [slot EXCEPT ![i] = Hot(t)]
                  /\ cool' = [cool EXCEPT ![t] = @ \ {i}]
                  /\ call' = None
                  /\ UNCHANGED sampling
             \/ /\ sampling' = TRUE
                /\ UNCHANGED <<slot, cool, call>>
          /\ UNCHANGED fault
  /\ UNCHANGED <<instance_, life, state, global_backend_, select_span, picked, io>>

\* One draw of sample_page: a hot page, of any tree, is written back and goes to
\* the cooling table of t, or is skipped (it has swizzled children); other
\* pages are skipped.  Afterwards the sampler goes on or returns.
SampleDraw(t) ==
  /\ call = t /\ fault = "none" /\ sampling
  /\ select_span' = Static(select_span, instance_.page_num_)
  /\ LET given == Smaller(instance_.head_idx_, instance_.page_num_) IN
     \E idx \in 0 .. select_span' - 1 :
       \/ /\ Outside(idx) /\ given = 0
          /\ fault' = "division"
          /\ UNCHANGED <<picked, slot, cool, sampling, io>>
       \/ /\ ~Outside(idx) \/ given > 0
          /\ picked' = IF Outside(idx) THEN idx % given ELSE idx
          /\ \/ /\ picked' \in SlotIdx /\ slot[picked'].pos_state = 2
                /\ io' = io \union WrittenBack({picked'})
                /\ slot' = [slot EXCEPT ![picked'].pos_state = 1, ![picked'].dirty = FALSE]
                /\ cool' = [cool EXCEPT ![t] = @ \union {picked'}]
                /\ sampling' \in BOOLEAN
             \/ UNCHANGED <<slot, cool, sampling, io>>
          /\ UNCHANGED fault
  /\ UNCHANGED <<instance_, life, state, global_backend_, call, bucket_span>>

\* The tree writes one of its hot pages.
MarkDirty(t, i) ==
  /\ Running /\ life[t] = "open" /\ slot[i].tree = t /\ slot[i].pos_state = 2
  /\ slot' = [slot EXCEPT ![i].dirty = TRUE]
  /\ UNCHANGED <<instance_, life, state, cool, global_backend_, call, sampling, select_span,
                 bucket_span, picked, io, fault>>

\* reset_buffer_pool, which is CacheManager::reset(flush_dirty).
Reset(t, flush_dirty) ==
  /\ Running /\ life[t] = "open"
  /\ io' = IF flush_dirty THEN io \union WrittenBack(SlotIdx) ELSE io
  /\ state' = [state EXCEPT ![t] = 0]
  /\ instance_' = PoolReset
  /\ slot' = [i \in SlotIdx |-> Zeroed]
  /\ cool' = [cool EXCEPT ![t] = {}]
  /\ UNCHANGED <<life, global_backend_, call, sampling, select_span, bucket_span, picked, fault>>

\* The tree's destructor: flush_all.  Its cooling table is never used again.
Close(t) ==
  /\ Running /\ life[t] = "open"
  /\ io' = io \union WrittenBack(SlotIdx)
  /\ slot' = Flushed
  /\ life' = [life EXCEPT ![t] = "closed"]
  /\ cool' = [cool EXCEPT ![t] = {}]
  /\ UNCHANGED <<instance_, state, global_backend_, call, sampling, select_span, bucket_span,
                 picked, fault>>

\* CacheAllocator::free, between two trees.
Free ==
  /\ Running /\ instance_ # None /\ \A t \in Tree : life[t] # "open"
  /\ instance_' = None
  /\ slot' = [i \in SlotIdx |-> Zeroed]
  /\ picked' = None
  /\ UNCHANGED <<life, state, cool, global_backend_, call, sampling, select_span, bucket_span,
                 io, fault>>

TreeStep(t) ==
  \/ Request(t) \/ WarmUp(t) \/ EvictToRemote(t) \/ SampleDraw(t) \/ Close(t)
  \/ \E i \in SlotIdx : MarkDirty(t, i)
  \/ \E flush_dirty \in BOOLEAN : Reset(t, flush_dirty)

\* One tree at a time, with or without free between two of them.
OpenAlone(t) == (\A u \in Tree : life[u] # "open") /\ Open(t)
Next == Free \/ \E t \in Tree : TreeStep(t) \/ OpenAlone(t)
Spec == Init /\ [][Next]_procVars

-----------------------------------------------------------------------------
(* Properties *)

\* Type invariant.  The allocator never counts past its pool.
ProcessTypeOK ==
  /\ instance_ = None \/ (instance_.page_num_ \in 1 .. MaxPages
                            /\ instance_.head_idx_ \in 0 .. instance_.page_num_)
  /\ slot \in [SlotIdx -> [tree : Tree \union {None}, pos_state : 0 .. 2, dirty : BOOLEAN]]
  /\ state \in [Tree -> {0, 1}] /\ cool \in [Tree -> SUBSET SlotIdx]
  /\ call \in Tree \union {None} /\ (sampling => call # None /\ state[call] = 1)

\* The draw of random_select is defined and lies in the pool, although its
\* distribution keeps the page_num_ of the first pool it was used with.
SelectInPool ==
  /\ fault # "division"
  /\ picked # None => picked < instance_.page_num_

\* A tree that samples and evicts does so in a pool that was handed out to the
\* last slot, whichever tree took the slots and however often it was reset.
DynamicPoolHandedOut ==
  \A t \in Tree : life[t] = "open" /\ state[t] = 1 =>
    /\ instance_.head_idx_ = instance_.page_num_
    /\ \A i \in 0 .. instance_.page_num_ - 1 : slot[i].tree # None

\* A page is read from and written to its own tree's backend: global_backend_ is
\* "the backend" that "NodeWR.h's free-function read/write helpers can find".
PagesGoHome == \A p \in io : p[1] = p[2]

\* random_bucket_idx's assertion, that its draw is a bucket of the table, fails in two
\* cases only: the table has no bucket, or an earlier tree of the process, for
\* which the static distribution was made, had more.
BucketIndexInRange ==
  fault = "assert" =>
    \/ bucket_num_(call) = 0
    \/ \E u \in Tree : life[u] = "closed" /\ bucket_num_(u) > bucket_num_(call)

\* get_empty_page will "loop try_get_empty_page till produce a slot": in the warm-up
\* phase there is one to produce, after any reset, unless the pool was handed to
\* an earlier tree and not freed.
WarmUpFindsSlot ==
  \A t \in Tree : call = t /\ state[t] = 0 =>
    HasPage \/ \E i \in SlotIdx : slot[i].tree \notin {t, None}

=============================================================================
