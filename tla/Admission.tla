------------------------------ MODULE Admission ------------------------------
(***************************************************************************)
(* The part of CacheManager (include/cache/LeanStoreCache.h) kept for the  *)
(* distributed tree: cache_get finds a page through page_table_, promotes  *)
(* it out of the cooling table or leaves IO_FLAG in its place and loads    *)
(* it; cold_to_hot_with_admission may work on the backend and cache        *)
(* nothing; updatest_replace exchanges a cached page for a new image.      *)
(* Nothing in the repository calls these operations yet.  The client here  *)
(* is a walk that has come to a parent it holds in memory and wants one of *)
(* its leaves; it follows the order of the calls the comments describe:    *)
(* cache_get, then get_exclusive_node on a hit or cold_to_hot on a miss,   *)
(* then swizzling.                                                         *)
(*                                                                         *)
(* A leaf's contents are one value.  Fence keys are left out: every check  *)
(* of them, and fit_limits, which compares with members nobody sets, may   *)
(* go either way.                                                          *)
(***************************************************************************)
EXTENDS BufferPool

CONSTANTS
  Val,
  IO_FLAG

LeafAddr == Addr \ {NullAddr}

ASSUME AdmissionAssumption ==
  Val # {} /\ IO_FLAG \notin Slot \union {NoSlot}

VARIABLES
  ref,         \* leaf -> the slot the parent's child is swizzled to, or NoSlot
  has_parent,  \* slot -> parent_ptr names the parent
  val,         \* slot -> the value of the page in it
  backend,     \* leaf -> the image stored: its value and its dirty flag
  at,          \* "idle", "load", "replace" or "aborted"
  job,         \* what the client is doing: the leaf, the operation, the slot to replace
  tried,       \* try_get_empty_page has sampled already
  last,        \* leaf -> the value written last
  overwritten, \* leaves flush_all has written from a slot of the free list
  replaced     \* leaves whose dirty page updatest_replace has exchanged

\* No action reads last or these two; they are kept for the properties.
lossVars == <<overwritten, replaced>>
leafVars == <<ref, has_parent, val, backend>>
admVars == <<leafVars, at, job, tried, last, lossVars>>
allVars == <<poolVars, admVars>>

NoJob == [a |-> NullAddr, kind |-> "none", v |-> NoSlot, slot |-> NoSlot]
Idle == at = "idle" /\ phase = "idle"

\* Bucket::match_value, 0 for -1, and Bucket::remove.
match_valueShort(frames, s) ==
  LET I == {i \in 1 .. Len(frames) - 1 : frames[i] = s} IN
  IF I = {} THEN 0 ELSE CHOOSE i \in I : TRUE
match_value(frames, s) ==
  LET I == {i \in 1 .. Len(frames) : frames[i] = s} IN
  IF I = {} THEN 0 ELSE CHOOSE i \in I : \A j \in I : i <= j
RemoveNone(frames, idx) == frames
RemoveFrame(frames, idx) ==
  [i \in 1 .. Len(frames) - 1 |-> IF i < idx THEN frames[i] ELSE frames[i + 1]]

\* remove_with_lock(global_node, IO_FLAG), which every load that fails runs.
FlagLeft(a) == page_table
FlagRemoved(a) == [page_table EXCEPT ![a] = NoSlot]

\* The image remote_write leaves in the backend.
WrittenNot(a, v) == backend
Written(a, v) == [backend EXCEPT ![a] = [val |-> v, dirty |-> FALSE]]

\* A fresh leaf is stored with its dirty flag set, and the image keeps the flag until
\* the leaf is written back for the first time, from whichever pool; so either flag may
\* stand in the backend when a pool starts.
AdmInit ==
  /\ PoolInit
  /\ ref = [a \in LeafAddr |-> NoSlot]
  /\ has_parent = [s \in Slot |-> FALSE]
  /\ last \in [LeafAddr -> Val]
  /\ val = [s \in Slot |-> NoSlot]
  /\ \E fresh \in SUBSET LeafAddr :
       backend = [a \in LeafAddr |-> [val |-> last[a], dirty |-> a \in fresh]]
  /\ at = "idle" /\ job = NoJob /\ tried = FALSE
  /\ overwritten = {} /\ replaced = {}

-----------------------------------------------------------------------------
(* cache_get *)

\* The child is swizzled: the client updates its leaf.
UpdateHot(a, v) ==
  /\ Idle /\ ref[a] \in Slot
  /\ MarkDirty({ref[a]})
  /\ val' = [val EXCEPT ![ref[a]] = v]
  /\ last' = [last EXCEPT ![a] = v]
  /\ UNCHANGED <<ref, has_parent, backend, at, job, tried, lossVars>>

\* A hit.  get_exclusive_node takes the page out of the cooling table, and
\* swizzling makes it the parent's hot child.
Promote(a) ==
  LET s == page_table[a]
      b == BucketOf[a]
  IN
  /\ Idle /\ ref[a] = NoSlot /\ s \in Slot
  /\ pos_state[s] = 1 /\ match_value(table_[b], s) # 0
  /\ table_' = [table_ EXCEPT ![b] = RemoveFrame(@, match_value(@, s))]
  /\ pos_state' = [pos_state EXCEPT ![s] = 2]
  /\ ref' = [ref EXCEPT ![a] = s]
  /\ has_parent' = [has_parent EXCEPT ![s] = TRUE]
  /\ UNCHANGED <<state, unallocated, remote_address, dirty, local_page_set, page_table,
                 control, val, backend, at, job, tried, last, lossVars>>

\* A hit whose limits do not fit: the page is forgotten, refresh is set.
Forget(a) ==
  /\ Idle /\ ref[a] = NoSlot /\ page_table[a] \in Slot
  /\ page_table' = RemoveEntry(page_table, a, page_table[a])
  /\ UNCHANGED <<state, unallocated, pages, local_page_set, table_, control, admVars>>

\* A miss: insert_io_flag.
Miss(a, kind, v) ==
  /\ Idle /\ ref[a] = NoSlot /\ page_table[a] = NoSlot
  /\ page_table' = [page_table EXCEPT ![a] = IO_FLAG]
  /\ at' = "load" /\ job' = [NoJob EXCEPT !.a = a, !.kind = kind, !.v = v]
  /\ UNCHANGED <<state, unallocated, pages, local_page_set, table_, control, leafVars, tried,
                 last, lossVars>>

-----------------------------------------------------------------------------
(* cold_to_hot and its variants *)

\* Not admitted: the operation runs on a copy of the page, which is written back
\* if the leaf took the update; scans are turned away in the warm-up too.
Bypass ==
  /\ at = "load" /\ phase = "idle" /\ (state = 1 \/ job.kind = "scan")
  /\ \/ /\ job.kind = "update"
        /\ backend' = Written(job.a, job.v)
        /\ last' = [last EXCEPT ![job.a] = job.v]
     \/ UNCHANGED <<backend, last>>
  /\ page_table' = FlagRemoved(job.a)
  /\ at' = "idle" /\ job' = NoJob
  /\ UNCHANGED <<state, unallocated, pages, local_page_set, table_, control, ref, has_parent,
                 val, tried, lossVars>>

\* simple_cold_to_hot calls try_get_empty_page.
ColdToHot ==
  /\ at = "load" /\ RequestPage(NoSlot)
  /\ tried' = FALSE
  /\ UNCHANGED <<leafVars, at, job, last, lossVars>>

\* One pass of try_get_empty_page, or the loop of get_empty_page around it.
GetPage ==
  /\ \/ (at = "replace" \/ ~tried) /\ GetEmptyPage
     \/ at = "load" /\ tried /\ (TakeLocal \/ SampleExit)
  /\ tried' = (tried \/ phase' = "sample")
  /\ UNCHANGED <<leafVars, at, job, last, lossVars>>

\* The sampler has filled no free slot: nullptr, and the load fails.
TryFails ==
  /\ at = "load" /\ tried /\ phase = "get" /\ local_page_set = <<>>
  /\ phase' = "idle"
  /\ page_table' = FlagRemoved(job.a)
  /\ at' = "idle" /\ job' = NoJob
  /\ UNCHANGED <<state, unallocated, pages, local_page_set, table_, to_sample, page, pin,
                 prev_state, leafVars, tried, last, lossVars>>

\* sample_page demotes s: it is written back and its parent, if it has one,
\* refers to the backend again.
Sample(s) ==
  LET a == remote_address[s] IN
  /\ SamplePage(s)
  /\ backend' = IF dirty[s] THEN Written(a, val[s]) ELSE backend
  /\ ref' = IF has_parent[s] THEN [ref EXCEPT ![a] = NoSlot] ELSE ref
  /\ has_parent' = [has_parent EXCEPT ![s] = FALSE]
  /\ UNCHANGED <<val, at, job, tried, last, lossVars>>

\* remote_to_cache; page_table_ then names the slot instead of IO_FLAG and the
\* client swizzles the child.
Load ==
  LET a == job.a IN
  /\ at = "load"
  /\ CacheInsert(a, backend[a].dirty)
  /\ val' = [val EXCEPT ![page] = backend[a].val]
  /\ ref' = [ref EXCEPT ![a] = page]
  /\ has_parent' = [has_parent EXCEPT ![page] = TRUE]
  /\ at' = "idle" /\ job' = NoJob
  /\ UNCHANGED <<backend, tried, last, lossVars>>

\* insert_local_set on a slot into which an image of a has been copied.
ToFreeList(a) ==
  /\ pos_state' = [pos_state EXCEPT ![page] = 3]
  /\ local_page_set' = Append(local_page_set, page)
  /\ phase' = "idle" /\ page' = NoSlot

\* The page that was read has the wrong limits: its slot goes to the free list.
LoadRefused ==
  LET a == job.a IN
  /\ at = "load" /\ phase = "admit"
  /\ remote_address' = [remote_address EXCEPT ![page] = a]
  /\ dirty' = [dirty EXCEPT ![page] = backend[a].dirty]
  /\ val' = [val EXCEPT ![page] = backend[a].val]
  /\ ToFreeList(a)
  /\ page_table' = FlagRemoved(a)
  /\ at' = "idle" /\ job' = NoJob
  /\ UNCHANGED <<state, unallocated, table_, to_sample, pin, prev_state, ref, has_parent,
                 backend, tried, last, lossVars>>

-----------------------------------------------------------------------------
(* updatest_replace *)

\* The client has read the leaf again and wants the image in place of the copy.  The
\* code does not ask whether the copy is dirty.
Replace(a) ==
  /\ Idle /\ ref[a] \in Slot
  /\ at' = "replace" /\ job' = [NoJob EXCEPT !.a = a, !.slot = ref[a]]
  /\ UNCHANGED <<poolVars, leafVars, tried, last, lossVars>>

\* fill_local_page_set
FillStart ==
  /\ at = "replace" /\ local_page_set = <<>> /\ RequestPage(NoSlot)
  /\ UNCHANGED admVars
FillEnd ==
  /\ at = "replace" /\ phase = "admit"
  /\ ToFreeList(job.a)
  /\ UNCHANGED <<state, unallocated, remote_address, dirty, table_, page_table, to_sample,
                 pin, prev_state, admVars>>

\* The rest: replace_child and, as the page table has an entry or not, an update or an
\* insert.  Its asserts want the entry and the parent's child to name cur_node.  The image
\* was read before fill_local_page_set; of this leaf only an older copy, one exchanged
\* while it was dirty, can have been written back in between.
ReplaceChild ==
  LET a == job.a
      s == job.slot
      t == Oldest(local_page_set)
  IN
  /\ at = "replace" /\ phase = "idle" /\ local_page_set # <<>>
  /\ ref[a] = s /\ page_table[a] \in {NoSlot, s}
  /\ local_page_set' = WithoutOldest(local_page_set)
  /\ remote_address' = [remote_address EXCEPT ![t] = a]
  /\ dirty' = [dirty EXCEPT ![t] = backend[a].dirty]
  /\ pos_state' = [pos_state EXCEPT ![t] = 2]
  /\ page_table' = [page_table EXCEPT ![a] = t]
  /\ val' = [val EXCEPT ![t] = backend[a].val]
  /\ ref' = [ref EXCEPT ![a] = t]
  /\ has_parent' = [has_parent EXCEPT ![t] = TRUE, ![s] = FALSE]
  /\ at' = "idle" /\ job' = NoJob
  /\ replaced' = IF dirty[s] THEN replaced \union {a} ELSE replaced
  /\ UNCHANGED <<state, unallocated, table_, control, backend, tried, last, overwritten>>
ReplaceAborts ==
  /\ at = "replace" /\ phase = "idle" /\ local_page_set # <<>>
  /\ ~(ref[job.a] = job.slot /\ page_table[job.a] \in {NoSlot, job.slot})
  /\ at' = "aborted"
  /\ UNCHANGED <<poolVars, leafVars, job, tried, last, lossVars>>

-----------------------------------------------------------------------------
\* flush_all: of several dirty copies of a page the one in the last slot stays, which of
\* them that is is left open.  It does not ask who owns a slot.
Flush ==
  LET stale(a) == {s \in Slot : dirty[s] /\ remote_address[s] = a} IN
  /\ Idle
  /\ FlushAll
  /\ backend' \in {b \in [LeafAddr -> [val : Val, dirty : BOOLEAN]] :
                     \A a \in LeafAddr :
                       IF stale(a) = {} THEN b[a] = backend[a]
                       ELSE \E s \in stale(a) : b[a] = [val |-> val[s], dirty |-> FALSE]}
  /\ overwritten' = overwritten \union
                       {a \in LeafAddr : \E s \in stale(a) : pos_state[s] = 3}
  /\ UNCHANGED <<ref, has_parent, val, at, job, tried, last, replaced>>

AdmNext ==
  \/ \E a \in LeafAddr : Promote(a) \/ Forget(a) \/ Replace(a)
  \/ \E a \in LeafAddr, v \in Val : UpdateHot(a, v) \/ Miss(a, "update", v)
  \/ \E a \in LeafAddr, kind \in {"lookup", "scan"} : Miss(a, kind, NoSlot)
  \/ Bypass \/ ColdToHot \/ GetPage \/ TryFails \/ Load \/ LoadRefused
  \/ \E s \in HotSlots : Sample(s)
  \/ FillStart \/ FillEnd \/ ReplaceChild \/ ReplaceAborts
  \/ Flush

AdmSpec == AdmInit /\ [][AdmNext]_allVars

-----------------------------------------------------------------------------
(* Properties *)

\* The types.
AdmissionTypeOK ==
  /\ ref \in [LeafAddr -> Slot \union {NoSlot}]
  /\ has_parent \in [Slot -> BOOLEAN]
  /\ val \in [Slot -> Val \union {NoSlot}]
  /\ backend \in [LeafAddr -> [val : Val, dirty : BOOLEAN]]
  /\ page_table \in [Addr -> Slot \union {NoSlot, IO_FLAG}]
  /\ \A b \in Bucket : Len(table_[b]) <= NUM_ENTRIES
  /\ at \in {"idle", "load", "replace", "aborted"}

\* IO_FLAG stands in the page table exactly while its page is being loaded.  A
\* flag left behind would be taken for a NodeBase* by the next cache_get, and
\* the asserts that remove it find it.
FlagWhileLoading ==
  \A a \in Addr : page_table[a] = IO_FLAG <=> at = "load" /\ job.a = a

\* One owner for every slot, as in BufferPool, and no bucket beyond its frames,
\* although pages are promoted out of the middle of the cooling table, refused,
\* replaced and put on the free list.
AdmissionOwnership == AdmissionTypeOK /\ SlotOwnership

\* A page the page table finds can be promoted: get_exclusive_node never sends a
\* client back for a page that will not move.
PromotionNeverFails ==
  \A a \in LeafAddr : page_table[a] \in Slot /\ ref[a] = NoSlot /\ Idle =>
    LET s == page_table[a] IN pos_state[s] = 1 /\ match_value(table_[BucketOf[a]], s) # 0

\* The last value written to a leaf is where the next access looks for it: in the
\* swizzled page, else in the page the page table names, else in the backend,
\* whichever of them the write went to.  A clean page repeats the backend.
Seen(a) ==
  LET s == page_table[a] IN
  /\ ref[a] # NoSlot => ref[a] = s /\ InUse(s)
  /\ IF s \in Slot THEN val[s] = last[a] /\ (~dirty[s] => backend[a].val = last[a])
                   ELSE backend[a].val = last[a]

\* There are two ways only in which a leaf's update is lost: updatest_replace has thrown
\* away a dirty page of it, or flush_all has written an image of it that a refused load
\* put on the free list.  Every other leaf shows the last value written.
Spoiled == overwritten \union replaced
WritesAreSeen == \A a \in LeafAddr \ Spoiled : Seen(a)

\* "-1 means failure and retry": a load that fails has cost nothing, so only the dirty
\* pages updatest_replace exchanges may cost a leaf its last value.
RefusalsLoseNothing == \A a \in LeafAddr \ replaced : Seen(a)

=============================================================================
