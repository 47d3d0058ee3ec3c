--------------------------- MODULE BufferPoolProofs ---------------------------
(***************************************************************************)
(* Proofs about BufferPool, for any number of slots, addresses, buckets    *)
(* and frames and any hash function.                                       *)
(*                                                                         *)
(* The four invariants are not inductive one by one: that the page table   *)
(* keeps naming the newest copy needs the one-owner discipline, which      *)
(* needs the types.  Their conjunction PoolInv is inductive; each action   *)
(* gets a lemma that shows it preserves PoolInv, one step per conjunct.    *)
(* The one-owner discipline does not depend on the page table: the actions *)
(* that move a slot preserve OwnInv, of any client (a lemma named ...Own). *)
(***************************************************************************)
EXTENDS BufferPool, SequenceTheorems, FiniteSetTheorems, TLAPS

PoolInv == PoolTypeOK /\ SlotOwnership /\ OnlyHotDirty /\ PageTableAgrees

\* The types of everything but the page table.
OwnTypes ==
  /\ state \in {0, 1}
  /\ unallocated \in SUBSET Slot
  /\ pos_state \in [Slot -> 0 .. 4]
  /\ remote_address \in [Slot -> Addr]
  /\ dirty \in [Slot -> BOOLEAN]
  /\ local_page_set \in Seq(Slot)
  /\ table_ \in [Bucket -> Seq(Slot)]
  /\ \A b \in Bucket : Len(table_[b]) <= NUM_ENTRIES
  /\ phase \in {"idle", "get", "sample", "admit", "exit"}
  /\ to_sample \in 0 .. num_pages_to_sample
  /\ phase = "sample" => to_sample > 0
  /\ page \in Slot \union {NoSlot} /\ (page # NoSlot <=> phase = "admit")
  /\ pin \in Slot \union {NoSlot} /\ (phase = "idle" => pin = NoSlot)
  /\ prev_state \in 0 .. 4 /\ (pin # NoSlot => prev_state = 2)

OwnInv == OwnTypes /\ SlotOwnership

-----------------------------------------------------------------------------
(* The frames of a bucket and the free list as sequences *)

\* Evicting the last frame of a non-empty list leaves the others where they were.
LEMMA WithoutOldestFacts ==
  ASSUME NEW S, NEW q \in Seq(S), q # <<>>
  PROVE  /\ Len(q) \in Nat \ {0} /\ Oldest(q) \in S
         /\ WithoutOldest(q) \in Seq(S)
         /\ Len(WithoutOldest(q)) = Len(q) - 1
         /\ \A i \in 1 .. Len(q) - 1 : WithoutOldest(q)[i] = q[i]
  <1>1. Len(q) \in Nat \ {0} /\ \A i \in 1 .. Len(q) : q[i] \in S
    BY EmptySeq, ElementOfSeq
  <1>2. \A i \in 1 .. Len(q) - 1 : q[i] \in S
    BY <1>1
  <1>3. /\ WithoutOldest(q) \in Seq(S)
        /\ Len(WithoutOldest(q)) = IF 1 <= Len(q) - 1 THEN (Len(q) - 1) - 1 + 1 ELSE 0
        /\ \A i \in 1 .. (Len(q) - 1) - 1 + 1 : WithoutOldest(q)[i] = q[1 + i - 1]
    BY <1>1, <1>2, SubSeqProperties DEF WithoutOldest
  <1>4. Len(WithoutOldest(q)) = Len(q) - 1
    <2>1. \A m \in Nat \ {0} : (IF 1 <= m - 1 THEN (m - 1) - 1 + 1 ELSE 0) = m - 1
      OBVIOUS
    <2> QED BY <1>1, <1>3, <2>1
  <1>5. \A i \in 1 .. Len(q) - 1 : i \in 1 .. (Len(q) - 1) - 1 + 1 /\ 1 + i - 1 = i
    BY <1>1
  <1>6. \A i \in 1 .. Len(q) - 1 : WithoutOldest(q)[i] = q[i]
    BY <1>3, <1>5
  <1>7. Oldest(q) \in S
    BY <1>1 DEF Oldest
  <1> QED BY <1>1, <1>3, <1>4, <1>6, <1>7

\* Bucket::insert puts the new frame first and shifts the others by one.
LEMMA WithNewestFacts ==
  ASSUME NEW S, NEW q \in Seq(S), NEW x \in S
  PROVE  /\ WithNewest(q, x) \in Seq(S)
         /\ Len(WithNewest(q, x)) = Len(q) + 1
         /\ WithNewest(q, x)[1] = x
         /\ \A i \in 1 .. Len(q) : WithNewest(q, x)[i + 1] = q[i]
  BY DEF WithNewest

-----------------------------------------------------------------------------
(* Init, and the actions that move no slot between owners *)

\* The page table is all that PoolTypeOK adds.
LEMMA OwnTypesOf ==
  /\ PoolTypeOK <=> OwnTypes /\ page_table \in [Addr -> Slot \union {NoSlot}]
  /\ PoolTypeOK' <=> OwnTypes' /\ page_table' \in [Addr -> Slot \union {NoSlot}]
  BY DEF PoolTypeOK, OwnTypes

\* A step that leaves every slot to its owner.
LEMMA QuietOwn ==
  ASSUME OwnInv,
         UNCHANGED <<state, unallocated, pos_state, local_page_set, table_, page, pin, prev_state>>,
         remote_address' \in [Slot -> Addr], dirty' \in [Slot -> BOOLEAN],
         to_sample' \in 0 .. num_pages_to_sample,
         phase' \in {"idle", "get", "sample", "admit", "exit"},
         phase' = "sample" => to_sample' > 0,
         phase' = "admit" <=> phase = "admit", phase' = "idle" => pin = NoSlot
  PROVE  OwnInv' /\ \A s \in Slot : InTable(s)' <=> InTable(s)
  <1> USE DEF OwnInv
  <1>1. OwnTypes'
    BY DEF OwnTypes
  <1>2. SlotOwnership'
    BY DEF SlotOwnership, TableInjective, FreeListInjective, OwnerTagged,
           InFlightUnowned, WarmUpEnds, InTable, InFreeList, InUse
  <1> QED BY <1>1, <1>2 DEF InTable

\* The constructor's state satisfies the invariant.
LEMMA InitInv == PoolInit => PoolInv
  <1> SUFFICES ASSUME PoolInit PROVE PoolInv
    OBVIOUS
  <1> USE SlotAssumption, AddrAssumption, TableAssumption, TuningAssumption
  <1>1. PoolTypeOK
    BY DEF PoolInit, PoolTypeOK, Addr, NullAddr, Bucket
  <1>2. SlotOwnership
    BY DEF PoolInit, SlotOwnership, TableInjective, FreeListInjective,
           OwnerTagged, InFlightUnowned, WarmUpEnds, InTable, InFreeList, InUse
  <1>3. OnlyHotDirty
    BY DEF PoolInit, OnlyHotDirty
  <1>4. PageTableAgrees
    BY DEF PoolInit, PageTableAgrees, CoolInItsBucket, EntrySound, HotIndexed,
           NewestCopyIndexed, InUse
  <1> QED BY <1>1, <1>2, <1>3, <1>4 DEF PoolInv

\* Pinning a hot page, or none, before the request.
LEMMA RequestPageInv ==
  ASSUME PoolInv, NEW p \in HotSlots \union {NoSlot}, RequestPage(p)
  PROVE  PoolInv'
  <1> USE SlotAssumption, TuningAssumption DEF PoolInv
  <1>1. PoolTypeOK'
    BY DEF RequestPage, PoolTypeOK, HotSlots
  <1>2. SlotOwnership'
    BY DEF RequestPage, PoolTypeOK, HotSlots, SlotOwnership, TableInjective,
           FreeListInjective, OwnerTagged, InFlightUnowned, WarmUpEnds, InTable,
           InFreeList, InUse
  <1>3. \A s \in Slot : InUse(s)' <=> InUse(s)
    BY DEF RequestPage, PoolTypeOK, HotSlots, InUse
  <1>4. OnlyHotDirty'
    BY <1>3 DEF RequestPage, OnlyHotDirty
  <1>5. PageTableAgrees'
    BY <1>3 DEF RequestPage, PoolTypeOK, PageTableAgrees, CoolInItsBucket, EntrySound,
           HotIndexed, NewestCopyIndexed, InTable
  <1> QED BY <1>1, <1>2, <1>4, <1>5

\* A write by the tree dirties hot pages only.
LEMMA MarkDirtyInv ==
  ASSUME PoolInv, NEW S \in SUBSET HotSlots, MarkDirty(S)
  PROVE  PoolInv'
  <1> USE DEF PoolInv
  <1>1. PoolTypeOK'
    BY DEF MarkDirty, PoolTypeOK, HotSlots, control
  <1>2. SlotOwnership'
    BY DEF MarkDirty, SlotOwnership, TableInjective, FreeListInjective, OwnerTagged,
           InFlightUnowned, WarmUpEnds, InTable, InFreeList, InUse, control
  <1>3. OnlyHotDirty'
    BY DEF MarkDirty, PoolTypeOK, OnlyHotDirty, HotSlots, InUse, control
  <1>4. PageTableAgrees'
    BY DEF MarkDirty, PageTableAgrees, CoolInItsBucket, EntrySound, HotIndexed,
           NewestCopyIndexed, InTable, InUse, control
  <1> QED BY <1>1, <1>2, <1>3, <1>4

\* flush_all only clears dirty flags.
LEMMA FlushAllInv ==
  ASSUME PoolInv, FlushAll
  PROVE  PoolInv'
  <1> USE DEF PoolInv
  <1>1. PoolTypeOK'
    BY DEF FlushAll, PoolTypeOK, control
  <1>2. SlotOwnership'
    BY DEF FlushAll, SlotOwnership, TableInjective, FreeListInjective, OwnerTagged,
           InFlightUnowned, WarmUpEnds, InTable, InFreeList, InUse, control
  <1>3. OnlyHotDirty'
    BY DEF FlushAll, OnlyHotDirty
  <1>4. PageTableAgrees'
    BY DEF FlushAll, PageTableAgrees, CoolInItsBucket, EntrySound, HotIndexed,
           NewestCopyIndexed, InTable, InUse, control
  <1> QED BY <1>1, <1>2, <1>3, <1>4

-----------------------------------------------------------------------------
(* The branches of get_empty_page *)

\* Warm-up takes a slot that nothing refers to.
LEMMA AllocateOwn ==
  ASSUME OwnInv, NEW x \in Slot, Allocate(x)
  PROVE  OwnInv' /\ page' = x /\ pos_state[x] = 0 /\ ~InTable(x) /\ page = NoSlot
  <1> USE SlotAssumption DEF OwnInv
  <1>1. OwnTypes'
    BY DEF Allocate, LastPage, OwnTypes, pages
  <1>2. pos_state[x] = 0 /\ page = NoSlot /\ ~InTable(x)
    BY DEF Allocate, OwnTypes, SlotOwnership, OwnerTagged
  <1>3. TableInjective' /\ FreeListInjective'
    BY DEF Allocate, SlotOwnership, TableInjective, FreeListInjective
  <1>4. WarmUpEnds'
    BY DEF Allocate, LastPage, OwnTypes, SlotOwnership, WarmUpEnds
  <1>5. OwnerTagged'
    BY <1>2 DEF Allocate, SlotOwnership, OwnerTagged, InTable, InFreeList, pages
  <1>6. InFlightUnowned'
    BY <1>2 DEF Allocate, OwnTypes, SlotOwnership, OwnerTagged, InFlightUnowned,
           InTable, InFreeList, InUse, pages
  <1> QED BY <1>1, <1>2, <1>3, <1>4, <1>5, <1>6 DEF SlotOwnership, Allocate

LEMMA AllocateInv ==
  ASSUME PoolInv, NEW x \in Slot, Allocate(x)
  PROVE  PoolInv'
  <1> USE SlotAssumption DEF PoolInv
  <1>1. OwnInv' /\ pos_state[x] = 0 /\ ~InTable(x)
    BY OwnTypesOf, AllocateOwn DEF OwnInv
  <1>2. PoolTypeOK'
    BY <1>1, OwnTypesOf DEF Allocate, OwnInv
  <1>3. OnlyHotDirty'
    BY DEF Allocate, OnlyHotDirty, InUse, pages
  <1>4. EntrySound'
    BY <1>1 DEF Allocate, PageTableAgrees, EntrySound, InTable, InUse, pages
  <1>5. PageTableAgrees'
    BY <1>4 DEF Allocate, PageTableAgrees, CoolInItsBucket, HotIndexed,
           NewestCopyIndexed, InTable, InUse, pages
  <1> QED BY <1>1, <1>2, <1>3, <1>5 DEF OwnInv

\* A slot popped from the free list is in no other structure.
LEMMA TakeLocalOwn ==
  ASSUME OwnInv, TakeLocal
  PROVE  OwnInv' /\ page' \in Slot /\ pos_state[page'] = 3 /\ ~InTable(page') /\ page = NoSlot
  <1> USE SlotAssumption DEF OwnInv
  <1> DEFINE n == Len(local_page_set)
  <1>1. /\ n \in Nat \ {0} /\ local_page_set[n] \in Slot
        /\ page' = local_page_set[n] /\ page = NoSlot
        /\ local_page_set' \in Seq(Slot) /\ Len(local_page_set') = n - 1
        /\ \A i \in 1 .. n - 1 : local_page_set'[i] = local_page_set[i]
    BY WithoutOldestFacts DEF TakeLocal, OwnTypes, Oldest
  <1>2. OwnTypes'
    BY <1>1 DEF TakeLocal, OwnTypes, pages
  <1>3. InFreeList(page') /\ pos_state[page'] = 3
    BY <1>1 DEF InFreeList, SlotOwnership, OwnerTagged
  <1>4. FreeListInjective' /\ \A s \in Slot : InFreeList(s)' <=> InFreeList(s) /\ s # page'
    BY <1>1 DEF SlotOwnership, FreeListInjective, InFreeList
  <1>5. ~InTable(page') /\ page' \notin unallocated /\ page' # pin
    BY <1>1, <1>3 DEF SlotOwnership, OwnerTagged
  <1>6. TableInjective' /\ WarmUpEnds'
    BY DEF TakeLocal, SlotOwnership, TableInjective, WarmUpEnds
  <1>7. OwnerTagged' /\ InFlightUnowned'
    BY <1>1, <1>3, <1>4, <1>5 DEF TakeLocal, SlotOwnership, OwnerTagged, InFlightUnowned, InTable,
           InUse, pages
  <1> QED BY <1>1, <1>2, <1>3, <1>4, <1>5, <1>6, <1>7 DEF SlotOwnership

LEMMA TakeLocalInv ==
  ASSUME PoolInv, TakeLocal
  PROVE  PoolInv'
  <1> USE SlotAssumption DEF PoolInv
  <1>1. OwnInv' /\ pos_state[page'] = 3 /\ ~InTable(page')
    BY OwnTypesOf, TakeLocalOwn DEF OwnInv
  <1>2. PoolTypeOK'
    BY <1>1, OwnTypesOf DEF TakeLocal, OwnInv
  <1>3. OnlyHotDirty'
    BY DEF TakeLocal, OnlyHotDirty, InUse, pages
  <1>4. EntrySound'
    BY <1>1 DEF TakeLocal, PageTableAgrees, EntrySound, InTable, InUse, pages
  <1>5. PageTableAgrees'
    BY <1>4 DEF TakeLocal, PageTableAgrees, CoolInItsBucket, HotIndexed,
           NewestCopyIndexed, InTable, InUse, pages
  <1> QED BY <1>1, <1>2, <1>3, <1>5 DEF OwnInv

\* random_evict_to_remote found nothing: only the control state moves.
LEMMA ProbeFailsInv ==
  ASSUME PoolInv, NEW idx \in Bucket, ProbeFails(idx)
  PROVE  PoolInv'
  <1> USE TuningAssumption DEF PoolInv
  <1>1. PoolTypeOK'
    BY DEF ProbeFails, PoolTypeOK, pages
  <1>2. SlotOwnership' /\ OnlyHotDirty'
    BY DEF ProbeFails, SlotOwnership, TableInjective, FreeListInjective, OwnerTagged,
           InFlightUnowned, WarmUpEnds, InTable, InFreeList, InUse, OnlyHotDirty, pages
  <1>3. PageTableAgrees'
    BY DEF ProbeFails, PageTableAgrees, CoolInItsBucket, EntrySound, HotIndexed,
           NewestCopyIndexed, InTable, InUse, pages
  <1> QED BY <1>1, <1>2, <1>3

\* The process exits.
LEMMA SampleExitInv ==
  ASSUME PoolInv, SampleExit
  PROVE  PoolInv'
  <1> USE DEF PoolInv
  <1>1. PoolTypeOK'
    BY DEF SampleExit, PoolTypeOK, pages
  <1>2. SlotOwnership' /\ OnlyHotDirty'
    BY DEF SampleExit, SlotOwnership, TableInjective, FreeListInjective, OwnerTagged,
           InFlightUnowned, WarmUpEnds, InTable, InFreeList, InUse, OnlyHotDirty, pages
  <1>3. PageTableAgrees'
    BY DEF SampleExit, PageTableAgrees, CoolInItsBucket, EntrySound, HotIndexed,
           NewestCopyIndexed, InTable, InUse, pages
  <1> QED BY <1>1, <1>2, <1>3

\* The evicted slot leaves the table, the other frames stay where they are.
LEMMA EvictCoolOwn ==
  ASSUME OwnInv, NEW idx \in Bucket, EvictCool(idx)
  PROVE  /\ OwnInv' /\ page = NoSlot /\ page' \in Slot /\ InTable(page') /\ pos_state[page'] = 1
         /\ page_table' = RemoveEntry(page_table, remote_address[page'], page')
         /\ \A c \in Bucket : \A i \in 1 .. Len(table_'[c]) :
              /\ i \in 1 .. Len(table_[c]) /\ table_'[c][i] = table_[c][i] /\ table_[c][i] # page'
         /\ \A s \in Slot : InTable(s)' <=> InTable(s) /\ s # page'
         /\ \A c \in Bucket : table_'[c] \in Seq(Slot)
  <1> USE SlotAssumption DEF OwnInv
  <1>1. PICK b \in Bucket :
          /\ table_[b] # <<>> /\ page' = Oldest(table_[b])
          /\ table_' = [table_ EXCEPT ![b] = WithoutOldest(table_[b])]
          /\ page_table' = RemoveEntry(page_table, remote_address[page'], page')
    BY DEF EvictCool, Probed
  <1> DEFINE n == Len(table_[b])
             e == table_[b][n]
  <1>2. /\ n \in Nat \ {0} /\ e \in Slot /\ page' = e /\ page = NoSlot
        /\ table_'[b] \in Seq(Slot) /\ Len(table_'[b]) = n - 1
        /\ \A i \in 1 .. n - 1 : table_'[b][i] = table_[b][i]
        /\ \A c \in Bucket \ {b} : table_'[c] = table_[c]
        /\ remote_address[e] \in Addr
    BY <1>1, WithoutOldestFacts DEF EvictCool, OwnTypes, Oldest
  <1>3. OwnTypes'
    <2>1. table_' \in [Bucket -> Seq(Slot)] /\ \A c \in Bucket : Len(table_'[c]) <= NUM_ENTRIES
      BY <1>1, <1>2, TableAssumption DEF OwnTypes
    <2> QED BY <1>2, <2>1 DEF EvictCool, OwnTypes, pages
  <1>4. InTable(e) /\ pos_state[e] = 1
    BY <1>2 DEF InTable, SlotOwnership, OwnerTagged
  <1>5. \A c \in Bucket : \A i \in 1 .. Len(table_'[c]) :
          /\ i \in 1 .. Len(table_[c]) /\ table_'[c][i] = table_[c][i] /\ table_[c][i] # e
    BY <1>2 DEF SlotOwnership, TableInjective
  <1>6. \A s \in Slot : InTable(s)' <=> InTable(s) /\ s # e
    BY <1>2, <1>5 DEF InTable
  <1>7. SlotOwnership'
    <2>1. TableInjective'
      BY <1>5 DEF SlotOwnership, TableInjective
    <2>2. FreeListInjective' /\ WarmUpEnds'
      BY DEF EvictCool, SlotOwnership, FreeListInjective, WarmUpEnds
    <2>3. OwnerTagged' /\ InFlightUnowned'
      BY <1>2, <1>4, <1>6 DEF EvictCool, SlotOwnership, OwnerTagged, InFlightUnowned,
             InFreeList, InUse, pages
    <2> QED BY <2>1, <2>2, <2>3 DEF SlotOwnership
  <1>8. \A c \in Bucket : table_'[c] \in Seq(Slot)
    BY <1>3 DEF OwnTypes
  <1> HIDE DEF e, n
  <1> QED BY <1>1, <1>2, <1>3, <1>4, <1>5, <1>6, <1>7, <1>8

\* The evicted slot was the oldest of its bucket; the copies that remain are
\* newer, so the entry their address has in the page table is not the one
\* that is removed.
LEMMA EvictCoolInv ==
  ASSUME PoolInv, NEW idx \in Bucket, EvictCool(idx)
  PROVE  PoolInv'
  <1> USE SlotAssumption DEF PoolInv
  <1> DEFINE e == page'
  <1>1. /\ OwnInv' /\ page = NoSlot /\ e \in Slot /\ pos_state[e] = 1 /\ remote_address[e] \in Addr
        /\ page_table' = RemoveEntry(page_table, remote_address[e], e)
        /\ \A c \in Bucket : \A i \in 1 .. Len(table_'[c]) :
             /\ i \in 1 .. Len(table_[c]) /\ table_'[c][i] = table_[c][i] /\ table_[c][i] # e
        /\ \A s \in Slot : InTable(s)' <=> InTable(s) /\ s # e
        /\ \A c \in Bucket : table_'[c] \in Seq(Slot)
    BY OwnTypesOf, EvictCoolOwn DEF OwnInv, PoolTypeOK
  <1> HIDE DEF e
  <1>2. PoolTypeOK'
    <2>1. page_table' \in [Addr -> Slot \union {NoSlot}]
      BY <1>1 DEF PoolTypeOK, RemoveEntry
    <2> QED BY <1>1, <2>1, OwnTypesOf DEF OwnInv
  <1>3. OnlyHotDirty'
    BY DEF EvictCool, OnlyHotDirty, InUse, pages
  <1>4. \A a \in Addr : page_table'[a] = IF page_table[a] = e THEN NoSlot ELSE page_table[a]
    BY <1>1 DEF RemoveEntry, PoolTypeOK, PageTableAgrees, EntrySound
  <1>5. CoolInItsBucket'
    BY <1>1 DEF EvictCool, PageTableAgrees, CoolInItsBucket, pages
  <1>6. EntrySound'
    BY <1>1, <1>4 DEF EvictCool, PoolTypeOK, PageTableAgrees, EntrySound, InUse, pages, e
  <1>7. HotIndexed'
    BY <1>1, <1>4 DEF EvictCool, PoolTypeOK, PageTableAgrees, HotIndexed, InUse, pages
  <1>8. NewestCopyIndexed'
    <2> SUFFICES ASSUME NEW c \in Bucket, NEW i \in 1 .. Len(table_'[c])
                 PROVE  LET u == page_table'[remote_address[table_[c][i]]] IN
                        u # NoSlot /\ (InUse(u) \/ \E j \in 1 .. i : table_'[c][j] = u)
      BY <1>1 DEF EvictCool, NewestCopyIndexed, InUse, pages
    <2> DEFINE t == page_table[remote_address[table_[c][i]]]
    <2>1. i \in 1 .. Len(table_[c]) /\ table_[c][i] \in Slot
          /\ remote_address[table_[c][i]] \in Addr
      BY <1>1, ElementOfSeq DEF PoolTypeOK
    <2>2. t # NoSlot /\ (InUse(t) \/ \E j \in 1 .. i : table_[c][j] = t)
      BY <2>1 DEF PageTableAgrees, NewestCopyIndexed
    <2>3. \A j \in 1 .. i : table_'[c][j] = table_[c][j] /\ table_[c][j] # e
      <3>1. Len(table_'[c]) \in Nat
        BY <1>1
      <3> QED BY <1>1, <3>1
    <2>4. t # e
      BY <1>1, <2>2, <2>3 DEF InUse
    <2> QED BY <1>4, <2>1, <2>2, <2>3, <2>4
  <1> QED BY <1>1, <1>2, <1>3, <1>5, <1>6, <1>7, <1>8 DEF OwnInv, PageTableAgrees

-----------------------------------------------------------------------------
(* The sampler *)

\* The bucket x goes to when it is demoted, whether that is full, and the frame it
\* loses then.
HomeOf(x) == BucketOf[remote_address[x]]
Squeezed(x) == Len(table_[HomeOf(x)]) = NUM_ENTRIES
LeavesFor(x) == table_[HomeOf(x)][Len(table_[HomeOf(x)])]

\* What demoting x does to the pool: x becomes the first frame of its bucket, the other
\* frames move down by one, and the frame that falls out goes to the free list.
DemotedTo(x, b, full, e) ==
  /\ x \in Slot /\ pos_state[x] = 2 /\ page = NoSlot /\ remote_address[x] \in Addr /\ b \in Bucket
  /\ full => e \in Slot /\ InTable(e) /\ pos_state[e] = 1 /\ e # x
  /\ dirty' = [dirty EXCEPT ![x] = FALSE]
  /\ remote_address' = remote_address /\ pin' = pin /\ page' = NoSlot
  /\ page_table' = IF full THEN RemoveEntry(page_table, remote_address[e], e) ELSE page_table
  /\ \A s \in Slot : pos_state'[s] = IF s = x THEN 1 ELSE IF full /\ s = e THEN 3 ELSE pos_state[s]
  /\ \A c \in Bucket : \A i \in 1 .. Len(table_'[c]) :
       \/ c = b /\ i = 1 /\ table_'[c][i] = x
       \/ \E k \in 1 .. Len(table_[c]) :
            /\ table_'[c][i] = table_[c][k] /\ k = (IF c = b THEN i - 1 ELSE i)
            /\ ~(full /\ table_[c][k] = e)
  /\ table_'[b][1] = x
  /\ \A i \in 1 .. Len(table_'[b]) - 1 : table_'[b][i + 1] = table_[b][i]
  /\ \A c \in Bucket \ {b} : table_'[c] = table_[c]
  /\ ~InTable(x) /\ \A s \in Slot : InTable(s)' <=> s = x \/ (InTable(s) /\ ~(full /\ s = e))

Demoted(x) == DemotedTo(x, HomeOf(x), Squeezed(x), LeavesFor(x))

LEMMA SamplePageOwn ==
  ASSUME OwnInv, NEW x \in HotSlots, SamplePage(x)
  PROVE  OwnInv' /\ Demoted(x)
  <1> USE SlotAssumption, TableAssumption DEF OwnInv
  <1> DEFINE b == BucketOf[remote_address[x]]
             n == Len(table_[b])
             full == n = NUM_ENTRIES
             e == table_[b][n]
             kept == IF full THEN WithoutOldest(table_[b]) ELSE table_[b]
             m == IF full THEN n - 1 ELSE n
  <1>1. /\ x \in Slot /\ pos_state[x] = 2 /\ page = NoSlot
        /\ remote_address[x] \in Addr /\ b \in Bucket
        /\ table_[b] \in Seq(Slot) /\ n \in Nat /\ n <= NUM_ENTRIES
    BY DEF HotSlots, SamplePage, OwnTypes
  <1>2. full => table_[b] # <<>>
    BY <1>1, EmptySeq
  <1>3. kept \in Seq(Slot) /\ Len(kept) = m /\ m \in Nat /\ m < NUM_ENTRIES
        /\ \A i \in 1 .. m : i \in 1 .. n /\ kept[i] = table_[b][i]
    <2>1. CASE full
      <3>1. /\ kept = WithoutOldest(table_[b]) /\ m = n - 1 /\ n \in Nat \ {0}
            /\ kept \in Seq(Slot) /\ Len(kept) = n - 1
            /\ \A i \in 1 .. n - 1 : kept[i] = table_[b][i]
        BY <1>1, <1>2, <2>1, WithoutOldestFacts
      <3> HIDE DEF kept, m, n
      <3> QED BY <1>1, <3>1
    <2>2. CASE ~full
      BY <1>1, <2>2
    <2> QED BY <2>1, <2>2
  <1>4. table_' = [table_ EXCEPT ![b] = WithNewest(kept, x)]
    BY DEF SamplePage, BucketFull
  <1>5. /\ table_'[b] \in Seq(Slot) /\ Len(table_'[b]) = m + 1 /\ table_'[b][1] = x
        /\ \A i \in 1 .. m : table_'[b][i + 1] = table_[b][i]
        /\ \A c \in Bucket \ {b} : table_'[c] = table_[c]
    <2>1. table_'[b] = WithNewest(kept, x) /\ \A c \in Bucket \ {b} : table_'[c] = table_[c]
      BY <1>1, <1>4 DEF OwnTypes
    <2>2. /\ WithNewest(kept, x) \in Seq(Slot) /\ Len(WithNewest(kept, x)) = m + 1
          /\ WithNewest(kept, x)[1] = x
          /\ \A i \in 1 .. m : WithNewest(kept, x)[i + 1] = kept[i]
      <3>1. \A q \in Seq(Slot) :
              /\ WithNewest(q, x) \in Seq(Slot) /\ Len(WithNewest(q, x)) = Len(q) + 1
              /\ WithNewest(q, x)[1] = x
              /\ \A i \in 1 .. Len(q) : WithNewest(q, x)[i + 1] = q[i]
        BY <1>1, WithNewestFacts
      <3> HIDE DEF kept, m
      <3> QED BY <1>3, <3>1
    <2> QED BY <1>3, <2>1, <2>2
  <1>6. full => n \in 1 .. n /\ e \in Slot /\ InTable(e) /\ pos_state[e] = 1 /\ e # x
    <2>1. full => n \in 1 .. n /\ e \in Slot
      BY <1>1, ElementOfSeq
    <2>2. full => InTable(e)
      BY <1>1, <2>1 DEF InTable
    <2>3. full => pos_state[e] = 1
      BY <1>1, <2>1, <2>2 DEF SlotOwnership, OwnerTagged
    <2> QED BY <1>1, <2>1, <2>2, <2>3
  <1>7. /\ to_sample \in Nat \ {0} /\ Oldest(table_[b]) = e
        /\ dirty' = [dirty EXCEPT ![x] = FALSE]
        /\ remote_address' = remote_address /\ pin' = pin /\ page' = NoSlot
        /\ unallocated' = unallocated /\ state' = state /\ prev_state' = prev_state
        /\ phase' = IF to_sample = 1 THEN "get" ELSE "sample"
        /\ to_sample' = to_sample - 1
        /\ local_page_set' = IF full THEN Append(local_page_set, e) ELSE local_page_set
        /\ page_table' = IF full THEN RemoveEntry(page_table, remote_address[e], e)
                                 ELSE page_table
    BY <1>1 DEF SamplePage, BucketFull, Cleaned, OwnTypes, Oldest
  <1>8. \A s \in Slot : pos_state'[s] = IF s = x THEN 1
                                        ELSE IF full /\ s = e THEN 3 ELSE pos_state[s]
    BY <1>6 DEF SamplePage, BucketFull, OwnTypes, Oldest
  <1>d. /\ n = Len(table_[b]) /\ e = table_[b][n] /\ m = (IF full THEN n - 1 ELSE n)
        /\ b = BucketOf[remote_address[x]]
    OBVIOUS
  <1> HIDE DEF b, n, full, e, kept, m
  \* Where each frame of the new table comes from.
  <1>11. \A c \in Bucket : \A i \in 1 .. Len(table_'[c]) :
           \/ c = b /\ i = 1 /\ table_'[c][i] = x
           \/ \E k \in 1 .. Len(table_[c]) :
                /\ table_'[c][i] = table_[c][k] /\ k = (IF c = b THEN i - 1 ELSE i)
                /\ ~(full /\ table_[c][k] = e)
    <2> SUFFICES ASSUME NEW c \in Bucket, NEW i \in 1 .. Len(table_'[c]),
                        ~(c = b /\ i = 1)
                 PROVE  \E k \in 1 .. Len(table_[c]) :
                          /\ table_'[c][i] = table_[c][k] /\ k = (IF c = b THEN i - 1 ELSE i)
                          /\ ~(full /\ table_[c][k] = e)
      BY <1>5
    <2>1. CASE c = b
      <3>1. i - 1 \in 1 .. m /\ i - 1 \in 1 .. n /\ i = (i - 1) + 1
        BY <1>3, <1>5, <2>1
      <3>2. table_'[c][i] = table_[b][i - 1]
        BY <1>5, <2>1, <3>1
      <3>3. ~(full /\ table_[b][i - 1] = e)
        <4> SUFFICES ASSUME full, table_[b][i - 1] = table_[b][n]
                     PROVE  FALSE
          BY <1>d
        <4>1. i - 1 \in 1 .. Len(table_[b]) /\ n \in 1 .. Len(table_[b]) /\ i - 1 # n
          BY <1>1, <1>3, <1>6, <1>d, <3>1
        <4> QED BY <1>1, <4>1 DEF SlotOwnership, TableInjective
      <3> QED BY <1>d, <2>1, <3>1, <3>2, <3>3
    <2>2. CASE c # b
      <3>1. table_'[c] = table_[c]
        BY <1>5, <2>2
      <3>2. ~(full /\ table_[c][i] = e)
        BY <1>1, <1>6, <1>d, <2>2, <3>1 DEF SlotOwnership, TableInjective
      <3> QED BY <2>2, <3>1, <3>2
    <2> QED BY <2>1, <2>2
  <1>12. \A c \in Bucket : \A k \in 1 .. Len(table_[c]) :
           \/ full /\ table_[c][k] = e
           \/ \E i \in 1 .. Len(table_'[c]) : table_'[c][i] = table_[c][k]
    <2> SUFFICES ASSUME NEW c \in Bucket, NEW k \in 1 .. Len(table_[c]),
                        ~(full /\ table_[c][k] = e)
                 PROVE  \E i \in 1 .. Len(table_'[c]) : table_'[c][i] = table_[c][k]
      OBVIOUS
    <2>1. CASE c = b
      <3>1. k \in 1 .. m /\ k + 1 \in 1 .. m + 1
        BY <1>1, <1>3, <1>d, <2>1
      <3> QED BY <1>5, <2>1, <3>1
    <2>2. CASE c # b
      BY <1>5, <2>2
    <2> QED BY <2>1, <2>2
  <1>13. ~InTable(x) /\ \A s \in Slot : InTable(s)' <=> s = x \/ (InTable(s) /\ ~(full /\ s = e))
    <2>1. ~InTable(x)
      BY <1>1 DEF SlotOwnership, OwnerTagged
    <2>2. InTable(x)'
      BY <1>1, <1>3, <1>5 DEF InTable
    <2>3. \A s \in Slot : InTable(s)' => s = x \/ (InTable(s) /\ ~(full /\ s = e))
      BY <1>11 DEF InTable
    <2>4. \A s \in Slot : InTable(s) /\ ~(full /\ s = e) => InTable(s)'
      <3> SUFFICES ASSUME NEW s \in Slot, InTable(s), ~(full /\ s = e)
                   PROVE  \E c \in Bucket : \E i \in 1 .. Len(table_'[c]) : table_'[c][i] = s
        BY DEF InTable
      <3> QED BY <1>12 DEF InTable
    <2> QED BY <2>1, <2>2, <2>3, <2>4
  <1>14. \A s \in Slot : InFreeList(s)' <=> InFreeList(s) \/ (full /\ s = e)
    <2>1. CASE full
      <3>1. /\ Len(local_page_set) \in Nat /\ Len(local_page_set') = Len(local_page_set) + 1
            /\ local_page_set'[Len(local_page_set) + 1] = e
            /\ \A i \in 1 .. Len(local_page_set) : local_page_set'[i] = local_page_set[i]
        BY <1>6, <1>7, <2>1 DEF OwnTypes
      <3> QED BY <2>1, <3>1 DEF InFreeList
    <2>2. CASE ~full
      BY <1>7, <2>2 DEF InFreeList
    <2> QED BY <2>1, <2>2
  <1>15. OwnTypes'
    <2>1. table_' \in [Bucket -> Seq(Slot)] /\ \A c \in Bucket : Len(table_'[c]) <= NUM_ENTRIES
      BY <1>1, <1>3, <1>4, <1>5 DEF OwnTypes
    <2>2. pos_state' \in [Slot -> 0 .. 4]
      BY <1>8 DEF SamplePage, OwnTypes
    <2>4. local_page_set' \in Seq(Slot)
      BY <1>6, <1>7 DEF OwnTypes
    <2>5. dirty' \in [Slot -> BOOLEAN]
      BY <1>7 DEF OwnTypes
    <2>6. to_sample' \in 0 .. num_pages_to_sample /\ (phase' = "sample" => to_sample' > 0)
          /\ phase' \in {"get", "sample"}
      BY <1>7, TuningAssumption DEF OwnTypes
    <2> QED BY <1>7, <2>1, <2>2, <2>4, <2>5, <2>6 DEF OwnTypes
  <1>16. TableInjective'
    <2> SUFFICES ASSUME NEW c \in Bucket, NEW d \in Bucket,
                        NEW i \in 1 .. Len(table_'[c]), NEW j \in 1 .. Len(table_'[d]),
                        table_'[c][i] = table_'[d][j]
                 PROVE  c = d /\ i = j
      BY DEF TableInjective
    <2>1. \A f \in Bucket : \A k \in 1 .. Len(table_[f]) : table_[f][k] # x
      BY <1>13 DEF InTable
    <2>2. CASE table_'[c][i] = x
      <3>1. c = b /\ i = 1
        BY <1>11, <2>1, <2>2
      <3>2. table_'[d][j] = x
        BY <2>2
      <3>3. d = b /\ j = 1
        BY <1>11, <2>1, <3>2
      <3> QED BY <3>1, <3>3
    <2>3. CASE table_'[c][i] # x
      <3>1. PICK k \in 1 .. Len(table_[c]) :
              table_'[c][i] = table_[c][k] /\ k = (IF c = b THEN i - 1 ELSE i)
        BY <1>11, <2>3
      <3>2. PICK l \in 1 .. Len(table_[d]) :
              table_'[d][j] = table_[d][l] /\ l = (IF d = b THEN j - 1 ELSE j)
        BY <1>11, <2>3
      <3>3. table_[c][k] = table_[d][l]
        BY <3>1, <3>2
      <3>4. c = d /\ k = l
        BY <3>3 DEF SlotOwnership, TableInjective
      <3> QED BY <3>1, <3>2, <3>4
    <2> QED BY <2>2, <2>3
  <1>17. FreeListInjective'
    <2>1. full => ~InFreeList(e)
      BY <1>1, <1>6 DEF SlotOwnership, OwnerTagged
    <2>2. CASE full
      <3>1. /\ Len(local_page_set) \in Nat /\ Len(local_page_set') = Len(local_page_set) + 1
            /\ local_page_set'[Len(local_page_set) + 1] = e
            /\ \A i \in 1 .. Len(local_page_set) : local_page_set'[i] = local_page_set[i]
        BY <1>6, <1>7, <2>2 DEF OwnTypes
      <3> QED BY <2>1, <2>2, <3>1 DEF SlotOwnership, FreeListInjective, InFreeList
    <2>3. CASE ~full
      BY <1>7, <2>3 DEF SlotOwnership, FreeListInjective
    <2> QED BY <2>2, <2>3
  <1>18. OwnerTagged' /\ InFlightUnowned' /\ WarmUpEnds'
    <2>1. \A s \in Slot : /\ pos_state[s] = 0 <=> s \in unallocated
                          /\ pos_state[s] = 1 <=> InTable(s)
                          /\ pos_state[s] = 3 <=> InFreeList(s)
                          /\ pos_state[s] = 4 <=> s = pin
      BY <1>1 DEF SlotOwnership, OwnerTagged
    <2>2. OwnerTagged'
      BY <1>1, <1>6, <1>7, <1>8, <1>13, <1>14, <2>1 DEF OwnerTagged
    <2> QED BY <1>7, <2>2 DEF InFlightUnowned, WarmUpEnds, SlotOwnership
  <1>20. \A i \in 1 .. Len(table_'[b]) - 1 : table_'[b][i + 1] = table_[b][i]
    BY <1>3, <1>5
  <1>21. Demoted(x)
    <2>1. full => e \in Slot /\ InTable(e) /\ pos_state[e] = 1 /\ e # x
      BY <1>6
    <2>2. DemotedTo(x, b, full, e)
      BY <1>1, <1>5, <1>7, <1>8, <1>11, <1>13, <1>20, <2>1, Zenon DEF DemotedTo
    <2> QED BY <2>2, Zenon DEF Demoted, HomeOf, Squeezed, LeavesFor, b, n, full, e
  <1> QED BY <1>15, <1>16, <1>17, <1>18, <1>21 DEF SlotOwnership

\* Demoting x puts it in front of the older copies of its address, so the
\* entry of that address keeps naming the newest one; the frame an overflowing
\* bucket loses is its oldest and moves to the free list alone.
LEMMA SamplePageInv ==
  ASSUME PoolInv, NEW x \in HotSlots, SamplePage(x)
  PROVE  PoolInv'
  <1> USE SlotAssumption, TableAssumption DEF PoolInv
  <1> DEFINE b == HomeOf(x)
             full == Squeezed(x)
             e == LeavesFor(x)
             n == Len(table_[b])
  <1>0. OwnInv' /\ Demoted(x)
    BY OwnTypesOf, SamplePageOwn DEF OwnInv
  <1>1. /\ x \in Slot /\ pos_state[x] = 2 /\ page = NoSlot
        /\ remote_address[x] \in Addr /\ b \in Bucket /\ b = BucketOf[remote_address[x]]
    BY <1>0 DEF Demoted, DemotedTo, HomeOf
  <1>2. full => /\ e \in Slot /\ pos_state[e] = 1 /\ e # x
                /\ n \in 1 .. Len(table_[b]) /\ e = table_[b][n]
    <2>1. full => n \in 1 .. Len(table_[b]) /\ e = table_[b][n]
      BY <1>1 DEF PoolTypeOK, Squeezed, LeavesFor
    <2> QED BY <1>0, <2>1 DEF Demoted, DemotedTo
  <1>3. dirty' = [dirty EXCEPT ![x] = FALSE] /\ remote_address' = remote_address /\ page' = NoSlot
    BY <1>0 DEF Demoted, DemotedTo
  <1>4. \A s \in Slot : pos_state'[s] = IF s = x THEN 1
                                        ELSE IF full /\ s = e THEN 3 ELSE pos_state[s]
    BY <1>0 DEF Demoted, DemotedTo
  <1>5. /\ \A c \in Bucket : \A i \in 1 .. Len(table_'[c]) :
             \/ c = b /\ i = 1 /\ table_'[c][i] = x
             \/ \E k \in 1 .. Len(table_[c]) :
                  /\ table_'[c][i] = table_[c][k] /\ k = (IF c = b THEN i - 1 ELSE i)
                  /\ ~(full /\ table_[c][k] = e)
        /\ table_'[b][1] = x
        /\ \A i \in 1 .. Len(table_'[b]) - 1 : table_'[b][i + 1] = table_[b][i]
        /\ \A c \in Bucket \ {b} : table_'[c] = table_[c]
    BY <1>0 DEF Demoted, DemotedTo
  <1>6. \A s \in Slot : InTable(s)' <=> s = x \/ (InTable(s) /\ ~(full /\ s = e))
    BY <1>0 DEF Demoted, DemotedTo
  <1>7. page_table' = IF full THEN RemoveEntry(page_table, remote_address[e], e) ELSE page_table
    BY <1>0 DEF Demoted, DemotedTo
  <1>8. \A a \in Addr : page_table'[a] = IF full /\ page_table[a] = e THEN NoSlot
                                                                    ELSE page_table[a]
    BY <1>2, <1>7 DEF RemoveEntry, PoolTypeOK, PageTableAgrees, EntrySound
  <1>9. PoolTypeOK'
    <2>1. page_table' \in [Addr -> Slot \union {NoSlot}]
      BY <1>7 DEF PoolTypeOK, RemoveEntry
    <2> QED BY <1>0, <2>1, OwnTypesOf DEF OwnInv
  <1>d. n = Len(table_[b])
    OBVIOUS
  <1> HIDE DEF b, full, e, n
  <1>10. \A s \in Slot : InUse(s)' <=> InUse(s) /\ s # x
    BY <1>2, <1>4 DEF InUse
  <1>11. OnlyHotDirty'
    BY <1>3, <1>10 DEF PoolTypeOK, OnlyHotDirty
  <1>12. CoolInItsBucket'
    <2> SUFFICES ASSUME NEW c \in Bucket, NEW i \in 1 .. Len(table_'[c])
                 PROVE  BucketOf[remote_address[table_'[c][i]]] = c
      BY <1>3 DEF CoolInItsBucket
    <2>1. CASE c = b /\ i = 1 /\ table_'[c][i] = x
      BY <1>1, <2>1
    <2>2. CASE \E k \in 1 .. Len(table_[c]) : table_'[c][i] = table_[c][k]
      BY <2>2 DEF PageTableAgrees, CoolInItsBucket
    <2> QED BY <1>5, <2>1, <2>2
  <1>13. EntrySound'
    BY <1>1, <1>3, <1>10, <1>8, <1>6 DEF PoolTypeOK, PageTableAgrees, EntrySound
  <1>14. HotIndexed'
    <2> SUFFICES ASSUME NEW s \in Slot, InUse(s)'
                 PROVE  page_table'[remote_address[s]] = s
      BY <1>3 DEF HotIndexed
    <2>1. InUse(s) /\ page_table[remote_address[s]] = s /\ remote_address[s] \in Addr
      BY <1>10 DEF PageTableAgrees, HotIndexed, PoolTypeOK
    <2>2. ~(full /\ s = e)
      BY <1>2, <2>1 DEF InUse
    <2> QED BY <1>8, <2>1, <2>2
  <1>15. NewestCopyIndexed'
    <2> SUFFICES ASSUME NEW c \in Bucket, NEW i \in 1 .. Len(table_'[c])
                 PROVE  LET u == page_table'[remote_address[table_'[c][i]]] IN
                        u # NoSlot /\ (pos_state'[u] \in {2, 4} \/ \E j \in 1 .. i : table_'[c][j] = u)
      BY <1>3 DEF NewestCopyIndexed, InUse
    <2>1. InUse(x) /\ page_table[remote_address[x]] = x
      BY <1>1 DEF InUse, PageTableAgrees, HotIndexed
    <2>2. CASE table_'[c][i] = x
      <3>1. page_table'[remote_address[x]] = x
        BY <1>1, <1>2, <1>8, <2>1
      <3>2. x # NoSlot /\ i \in 1 .. i
        BY <1>1
      <3> QED BY <2>2, <3>1, <3>2
    <2>3. CASE table_'[c][i] # x
      <3>1. PICK k \in 1 .. Len(table_[c]) :
              /\ table_'[c][i] = table_[c][k] /\ k = (IF c = b THEN i - 1 ELSE i)
              /\ ~(full /\ table_[c][k] = e)
        BY <1>5, <2>3
      <3> DEFINE a == remote_address[table_[c][k]]
                 t == page_table[a]
      <3>2. table_[c][k] \in Slot /\ a \in Addr /\ BucketOf[a] = c
        BY <3>1, ElementOfSeq DEF PoolTypeOK, PageTableAgrees, CoolInItsBucket
      <3>3. t # NoSlot /\ t \in Slot /\ (InUse(t) \/ \E j \in 1 .. k : table_[c][j] = t)
        BY <3>2 DEF PageTableAgrees, NewestCopyIndexed, PoolTypeOK
      <3>4. ~(full /\ t = e)
        <4> SUFFICES ASSUME full, t = e
                     PROVE  FALSE
          OBVIOUS
        <4>1. ~InUse(e)
          BY <1>2 DEF InUse
        <4>2. PICK j \in 1 .. k : table_[c][j] = e
          BY <3>3, <4>1
        <4>3. j \in 1 .. Len(table_[c])
          BY <4>2, <3>1
        <4>4. c = b /\ j = n
          <5>1. n \in 1 .. Len(table_[b]) /\ table_[c][j] = table_[b][n]
            BY <1>2, <4>2
          <5> QED BY <1>1, <4>3, <5>1 DEF SlotOwnership, TableInjective
        <4>5. k = n
          BY <1>d, <4>2, <4>4, <3>1
        <4> QED BY <1>2, <3>1, <4>4, <4>5
      <3>5. page_table'[a] = t
        BY <1>8, <3>2, <3>4
      <3>6. CASE InUse(t) /\ t # x
        BY <1>10, <3>1, <3>3, <3>5, <3>6 DEF InUse
      <3>7. CASE t = x
        <4>1. a = remote_address[x]
          BY <1>1, <2>1, <3>2, <3>7 DEF PageTableAgrees, EntrySound
        <4>2. c = b /\ 1 \in 1 .. i /\ table_'[c][1] = x
          BY <1>5, <1>1, <3>2, <4>1
        <4> QED BY <3>1, <3>3, <3>5, <3>7, <4>2
      <3>8. CASE \E j \in 1 .. k : table_[c][j] = t
        <4>1. PICK j \in 1 .. k : table_[c][j] = t
          BY <3>8
        <4>2. CASE c = b
          <5>1. j + 1 \in 1 .. i /\ j \in 1 .. Len(table_'[c]) - 1
            BY <3>1, <4>1, <4>2
          <5>2. table_'[c][j + 1] = t
            BY <1>5, <4>1, <4>2, <5>1
          <5> QED BY <3>1, <3>3, <3>5, <5>1, <5>2
        <4>3. CASE c # b
          BY <1>5, <3>1, <3>3, <3>5, <4>1, <4>3
        <4> QED BY <4>2, <4>3
      <3> QED BY <3>3, <3>6, <3>7, <3>8
    <2> QED BY <2>2, <2>3
  <1> QED BY <1>0, <1>9, <1>11, <1>12, <1>13, <1>14, <1>15 DEF OwnInv, PageTableAgrees

-----------------------------------------------------------------------------
(* The rest of cache_insert *)

\* The slot in flight goes to the tree.
LEMMA CacheInsertOwn ==
  ASSUME OwnInv, NEW a \in Addr, NEW d \in BOOLEAN, CacheInsert(a, d)
  PROVE  /\ OwnInv' /\ page' = NoSlot /\ pin' = NoSlot
         /\ page \in Slot /\ page # pin /\ ~InTable(page) /\ ~InUse(page)
         /\ \A s \in Slot : /\ pos_state'[s] = IF s = page \/ s = pin THEN 2 ELSE pos_state[s]
                            /\ remote_address'[s] = IF s = page THEN a ELSE remote_address[s]
                            /\ dirty'[s] = IF s = page THEN d ELSE dirty[s]
         /\ pin # NoSlot => pos_state[pin] = 4
  <1> USE SlotAssumption DEF OwnInv
  <1>1. /\ page \in Slot /\ page # pin /\ ~InTable(page) /\ ~InFreeList(page)
        /\ page \notin unallocated /\ ~InUse(page) /\ page' = NoSlot /\ pin' = NoSlot
    BY DEF CacheInsert, OwnTypes, SlotOwnership, InFlightUnowned
  <1>2. \A s \in Slot : /\ pos_state'[s] = IF s = page \/ s = pin THEN 2 ELSE pos_state[s]
                        /\ remote_address'[s] = IF s = page THEN a ELSE remote_address[s]
                        /\ dirty'[s] = IF s = page THEN d ELSE dirty[s]
    BY <1>1 DEF CacheInsert, AdmittedState, OwnTypes
  <1>3. pin # NoSlot => pos_state[pin] = 4
    BY <1>1 DEF SlotOwnership, OwnerTagged, OwnTypes
  <1>4. OwnTypes'
    <2>1. /\ pos_state' \in [Slot -> 0 .. 4] /\ remote_address' \in [Slot -> Addr]
          /\ dirty' \in [Slot -> BOOLEAN]
      BY <1>1, <1>2 DEF CacheInsert, AdmittedState, OwnTypes
    <2> QED BY <1>1, <2>1 DEF CacheInsert, OwnTypes
  <1>5. TableInjective' /\ FreeListInjective' /\ WarmUpEnds' /\ InFlightUnowned'
    BY <1>1 DEF CacheInsert, SlotOwnership, TableInjective, FreeListInjective,
           WarmUpEnds, InFlightUnowned
  <1>6. OwnerTagged'
    BY <1>1, <1>2, <1>3 DEF CacheInsert, SlotOwnership, OwnerTagged, InFreeList, InTable
  <1> QED BY <1>1, <1>2, <1>3, <1>4, <1>5, <1>6 DEF SlotOwnership

\* The slot in flight becomes the only page in use with its address, so the
\* page table may map the address to it; older copies keep cooling behind it.
LEMMA CacheInsertInv ==
  ASSUME PoolInv, NEW a \in Addr \ {NullAddr}, NEW d \in BOOLEAN,
         \A s \in Slot : InUse(s) => remote_address[s] # a,
         CacheInsert(a, d)
  PROVE  PoolInv'
  <1> USE SlotAssumption DEF PoolInv
  <1>1. /\ OwnInv' /\ page' = NoSlot /\ pin' = NoSlot
        /\ page \in Slot /\ page # pin /\ ~InTable(page) /\ ~InUse(page)
    BY OwnTypesOf, CacheInsertOwn DEF OwnInv
  <1>2. \A s \in Slot : /\ pos_state'[s] = IF s = page \/ s = pin THEN 2 ELSE pos_state[s]
                        /\ remote_address'[s] = IF s = page THEN a ELSE remote_address[s]
                        /\ dirty'[s] = IF s = page THEN d ELSE dirty[s]
    BY OwnTypesOf, CacheInsertOwn DEF OwnInv
  <1>3. \A c \in Addr : page_table'[c] = IF c = a THEN page ELSE page_table[c]
    BY DEF CacheInsert, Upsert, PoolTypeOK
  <1>4. pin # NoSlot => pos_state[pin] = 4
    BY OwnTypesOf, CacheInsertOwn DEF OwnInv
  <1>5. \A s \in Slot : InUse(s)' <=> InUse(s) \/ s = page
    BY <1>1, <1>2, <1>4 DEF InUse
  <1>6. table_' = table_ /\ \A s \in Slot : InTable(s)' <=> InTable(s)
    BY DEF CacheInsert, InTable
  <1>7. PoolTypeOK'
    <2>1. page_table' \in [Addr -> Slot \union {NoSlot}]
      BY <1>1 DEF CacheInsert, Upsert, PoolTypeOK
    <2> QED BY <1>1, <2>1, OwnTypesOf DEF OwnInv
  <1>8. OnlyHotDirty'
    BY <1>2, <1>5 DEF OnlyHotDirty
  <1>9. \A b \in Bucket : \A i \in 1 .. Len(table_[b]) :
           /\ table_[b][i] \in Slot /\ table_[b][i] # page
           /\ remote_address'[table_[b][i]] = remote_address[table_[b][i]]
           /\ remote_address[table_[b][i]] \in Addr
    <2>1. \A b \in Bucket : \A i \in 1 .. Len(table_[b]) : table_[b][i] \in Slot
      BY ElementOfSeq DEF PoolTypeOK
    <2>2. \A b \in Bucket : \A i \in 1 .. Len(table_[b]) : table_[b][i] # page
      BY <1>1 DEF InTable
    <2> QED BY <1>2, <2>1, <2>2 DEF PoolTypeOK
  <1>10. CoolInItsBucket'
    BY <1>6, <1>9 DEF PageTableAgrees, CoolInItsBucket
  <1>11. EntrySound'
    BY <1>1, <1>2, <1>3, <1>5, <1>6 DEF PoolTypeOK, PageTableAgrees, EntrySound
  <1>12. HotIndexed'
    BY <1>1, <1>2, <1>3, <1>5 DEF PoolTypeOK, PageTableAgrees, HotIndexed
  <1>13. NewestCopyIndexed'
    <2> SUFFICES ASSUME NEW b \in Bucket, NEW i \in 1 .. Len(table_[b])
                 PROVE  LET u == page_table'[remote_address[table_[b][i]]] IN
                        u # NoSlot /\ (pos_state'[u] \in {2, 4} \/ \E j \in 1 .. i : table_[b][j] = u)
      BY <1>6, <1>9 DEF NewestCopyIndexed, InUse
    <2> DEFINE t == page_table[remote_address[table_[b][i]]]
    <2>1. t \in Slot /\ (InUse(t) \/ \E j \in 1 .. i : table_[b][j] = t)
      <3>1. t # NoSlot /\ (InUse(t) \/ \E j \in 1 .. i : table_[b][j] = t)
        BY DEF PageTableAgrees, NewestCopyIndexed
      <3>2. t \in Slot \union {NoSlot}
        BY <1>9 DEF PoolTypeOK
      <3> QED BY <3>1, <3>2
    <2>2. CASE remote_address[table_[b][i]] = a
      <3>1. page_table'[a] = page /\ pos_state'[page] = 2
        BY <1>1, <1>2, <1>3
      <3> QED BY <1>1, <2>2, <3>1
    <2>3. CASE remote_address[table_[b][i]] # a
      <3>1. page_table'[remote_address[table_[b][i]]] = t
        BY <1>3, <1>9, <2>3
      <3>2. InUse(t) => pos_state'[t] \in {2, 4}
        BY <1>5, <2>1 DEF InUse
      <3> QED BY <2>1, <3>1, <3>2
    <2> QED BY <2>2, <2>3
  <1> QED BY <1>1, <1>7, <1>8, <1>10, <1>11, <1>12, <1>13 DEF OwnInv, PageTableAgrees

-----------------------------------------------------------------------------
(* The theorems *)

\* Every branch of get_empty_page, of the sampler and of cache_insert keeps the
\* invariant.
LEMMA NextInv == PoolInv /\ [PoolNext]_poolVars => PoolInv'
  <1> SUFFICES ASSUME PoolInv, [PoolNext]_poolVars PROVE PoolInv'
    OBVIOUS
  <1>1. CASE GetEmptyPage
    BY <1>1, AllocateInv, TakeLocalInv, EvictCoolInv, ProbeFailsInv, SampleExitInv
       DEF GetEmptyPage
  <1>2. CASE \E p \in HotSlots \union {NoSlot} : RequestPage(p)
    BY <1>2, RequestPageInv
  <1>3. CASE \E s \in HotSlots : SamplePage(s)
    BY <1>3, SamplePageInv
  <1>4. CASE \E a \in Addr \ {NullAddr}, d \in BOOLEAN :
               /\ \A s \in Slot : InUse(s) => remote_address[s] # a
               /\ CacheInsert(a, d)
    BY <1>4, CacheInsertInv
  <1>5. CASE \E S \in SUBSET HotSlots : MarkDirty(S)
    BY <1>5, MarkDirtyInv
  <1>6. CASE FlushAll
    BY <1>6, FlushAllInv
  <1>7. CASE UNCHANGED poolVars
    BY <1>7 DEF poolVars, pages, control, PoolInv, PoolTypeOK, SlotOwnership, TableInjective,
           FreeListInjective, OwnerTagged, InFlightUnowned, WarmUpEnds, OnlyHotDirty,
           PageTableAgrees, CoolInItsBucket, EntrySound, HotIndexed, NewestCopyIndexed,
           InTable, InFreeList, InUse
  <1> QED BY <1>1, <1>2, <1>3, <1>4, <1>5, <1>6, <1>7 DEF PoolNext

\* The inductive invariant holds in every reachable state.
THEOREM PoolInvariant == PoolSpec => []PoolInv
  BY InitInv, NextInv, PTL DEF PoolSpec

\* The fields keep their types, no bucket overflows, and a slot is in flight
\* exactly between get_empty_page and the end of cache_insert.
THEOREM PoolTypeCorrect == PoolSpec => []PoolTypeOK
  <1>1. PoolInv => PoolTypeOK
    BY DEF PoolInv
  <1> QED BY <1>1, PoolInvariant, PTL

\* No slot of the pool ever has two owners: get_empty_page hands out a slot
\* that neither the tree, the cooling table nor the free list refers to.
THEOREM OneOwner == PoolSpec => []SlotOwnership
  <1>1. PoolInv => SlotOwnership
    BY DEF PoolInv
  <1> QED BY <1>1, PoolInvariant, PTL

\* The assertion of Bucket::evict_last never fails and flush_all writes back
\* pages in use only.
THEOREM EvictedPagesAreClean == PoolSpec => []OnlyHotDirty
  <1>1. PoolInv => OnlyHotDirty
    BY DEF PoolInv
  <1> QED BY <1>1, PoolInvariant, PTL

\* page_table_ maps every cached address to the newest slot that holds it.
THEOREM PageTableNamesNewest == PoolSpec => []PageTableAgrees
  <1>1. PoolInv => PageTableAgrees
    BY DEF PoolInv
  <1> QED BY <1>1, PoolInvariant, PTL

-----------------------------------------------------------------------------
(* How many pages are in use when the sampler runs *)

SlotsNotInUse == {s \in Slot : ~InUse(s)}
\* What an eviction that found nothing may have missed, and what has been demoted since.
IdleBounded ==
  phase = "sample" =>
    Cardinality(SlotsNotInUse) <= (bucket_num_ - 1) * NUM_ENTRIES + (num_pages_to_sample - to_sample)

\* An eviction looks at one bucket at least; if it finds nothing, every page that is not
\* in use is in the frames of the others.
LEMMA ProbeMisses ==
  ASSUME OwnInv, NEW idx \in Bucket, ProbeFails(idx)
  PROVE  Cardinality(SlotsNotInUse) <= (bucket_num_ - 1) * NUM_ENTRIES
  <1> DEFINE B == Bucket \ {idx}
             E == 1 .. NUM_ENTRIES
             at(s, w) == w[2] <= Len(table_[w[1]]) /\ table_[w[1]][w[2]] = s
             f == [s \in SlotsNotInUse |-> CHOOSE w \in B \X E : at(s, w)]
  <1>1. bucket_num_ \in Nat /\ bucket_num_ >= 1 /\ NUM_ENTRIES \in Nat
    BY TableAssumption
  <1>2. phase = "get" /\ state = 1 /\ local_page_set = <<>> /\ \A b \in Probed(idx) : table_[b] = <<>>
    BY DEF ProbeFails
  <1>3. table_[idx] = <<>> /\ Len(table_[idx]) = 0
    <2>1. idx \in Probed(idx)
      BY <1>1, TuningAssumption DEF Probed, Bucket
    <2>2. table_[idx] = <<>>
      BY <1>2, <2>1
    <2> QED BY <2>2
  <1>4. ASSUME NEW s \in SlotsNotInUse PROVE \E w \in B \X E : at(s, w)
    <2>1. s \in Slot /\ s # page /\ pos_state[s] \in {0, 1, 3}
      <3>1. s \in Slot /\ pos_state[s] \in 0 .. 4 /\ pos_state[s] \notin {2, 4}
        BY <1>4 DEF SlotsNotInUse, InUse, OwnInv, OwnTypes
      <3>2. page = NoSlot
        BY <1>2 DEF OwnInv, OwnTypes
      <3> QED BY <3>1, <3>2, SlotAssumption
    <2>2. pos_state[s] # 0
      BY <1>2, <2>1 DEF OwnInv, SlotOwnership, OwnerTagged, WarmUpEnds
    <2>3. pos_state[s] # 3
      <3>1. Len(local_page_set) = 0
        BY <1>2
      <3> QED BY <2>1, <3>1 DEF OwnInv, SlotOwnership, OwnerTagged, InFreeList
    <2>4. InTable(s)
      BY <2>1, <2>2, <2>3 DEF OwnInv, SlotOwnership, OwnerTagged
    <2>5. PICK b \in Bucket : \E i \in 1 .. Len(table_[b]) : table_[b][i] = s
      BY <2>4 DEF InTable
    <2>6. PICK i \in 1 .. Len(table_[b]) : table_[b][i] = s
      BY <2>5
    <2>7. b # idx
      BY <1>3, <2>6
    <2>8. Len(table_[b]) \in Nat /\ Len(table_[b]) <= NUM_ENTRIES
      BY DEF OwnInv, OwnTypes
    <2>9. i \in E /\ i <= Len(table_[b])
      BY <1>1, <2>8, SMTT(30)
    <2>10. <<b, i>> \in B \X E /\ at(s, <<b, i>>)
      BY <2>6, <2>7, <2>9
    <2> QED BY <2>10
  <1>5. \A s \in SlotsNotInUse : f[s] \in B \X E /\ at(s, f[s])
    BY <1>4
  <1>6. f \in Injection(SlotsNotInUse, B \X E)
    <2>1. f \in [SlotsNotInUse -> B \X E]
      BY <1>5
    <2> HIDE DEF f
    <2>2. ASSUME NEW s \in SlotsNotInUse, NEW t \in SlotsNotInUse, f[s] = f[t] PROVE s = t
      BY <1>5, <2>2, SMTT(30)
    <2> QED BY <2>1, <2>2 DEF Injection, IsInjective
  <1>7. IsFiniteSet(B) /\ Cardinality(B) = bucket_num_ - 1
    <2>1. IsFiniteSet(Bucket) /\ Cardinality(Bucket) = bucket_num_
      BY <1>1, FS_Interval DEF Bucket
    <2> QED BY <2>1, FS_RemoveElement
  <1>8. IsFiniteSet(E) /\ Cardinality(E) = NUM_ENTRIES
    BY <1>1, FS_Interval
  <1>9. IsFiniteSet(B \X E) /\ Cardinality(B \X E) = (bucket_num_ - 1) * NUM_ENTRIES
    <2> HIDE DEF B, E
    <2>1. IsFiniteSet(B \X E) /\ Cardinality(B \X E) = Cardinality(B) * Cardinality(E)
      BY <1>7, <1>8, FS_Product, Zenon
    <2> QED BY <1>7, <1>8, <2>1
  <1> HIDE DEF f, B, E
  <1> QED BY <1>6, <1>9, FS_Injection

\* Each demotion takes one page out of use.
LEMMA DemotionTakesOne ==
  ASSUME OwnInv, NEW s \in HotSlots, SamplePage(s)
  PROVE  Cardinality(SlotsNotInUse') <= Cardinality(SlotsNotInUse) + 1
  <1> DEFINE b == BucketOf[remote_address[s]]
             e == Oldest(table_[b])
  <1>1. /\ phase = "sample"
        /\ pos_state' = [x \in Slot |-> CASE x = s -> 1
                                          [] x # s /\ BucketFull(b) /\ x = e -> 3
                                          [] OTHER -> pos_state[x]]
    BY DEF SamplePage
  <1>2. page = NoSlot
    BY <1>1 DEF OwnInv, OwnTypes
  <1>3. b \in Bucket
    BY TableAssumption DEF OwnInv, OwnTypes, HotSlots
  <1>4. BucketFull(b) => e \in Slot /\ ~InUse(e)
    <2> SUFFICES ASSUME BucketFull(b) PROVE e \in Slot /\ ~InUse(e)
      OBVIOUS
    <2>1. table_[b] \in Seq(Slot) /\ Len(table_[b]) \in Nat \ {0}
      BY <1>3, TableAssumption DEF OwnInv, OwnTypes, BucketFull
    <2>2. Len(table_[b]) \in 1 .. Len(table_[b])
      BY <2>1
    <2>3. e \in Slot /\ InTable(e)
      BY <1>3, <2>1, <2>2, ElementOfSeq DEF Oldest, InTable
    <2>4. e # page
      BY <1>2, <2>3, SlotAssumption
    <2>5. pos_state[e] = 1
      BY <2>3, <2>4 DEF OwnInv, SlotOwnership, OwnerTagged
    <2> QED BY <2>3, <2>5 DEF InUse
  <1> HIDE DEF e, b
  <1>5. SlotsNotInUse' \in SUBSET (SlotsNotInUse \union {s})
    <2> SUFFICES ASSUME NEW x \in Slot, ~(pos_state'[x] \in {2, 4}), x # s PROVE ~InUse(x)
      BY DEF SlotsNotInUse, InUse
    <2>1. CASE BucketFull(b) /\ x = e
      BY <1>4, <2>1
    <2>2. CASE ~(BucketFull(b) /\ x = e)
      BY <1>1, <2>2 DEF InUse
    <2> QED BY <2>1, <2>2
  <1>6. IsFiniteSet(SlotsNotInUse) /\ Cardinality(SlotsNotInUse) \in Nat
    <2>1. SlotsNotInUse \in SUBSET Slot
      BY DEF SlotsNotInUse
    <2> QED BY <2>1, FiniteAssumption, FS_Subset, FS_CardinalityType
  <1>7. /\ IsFiniteSet(SlotsNotInUse \union {s})
        /\ Cardinality(SlotsNotInUse \union {s}) \in Nat
        /\ Cardinality(SlotsNotInUse \union {s}) <= Cardinality(SlotsNotInUse) + 1
    <2>1. /\ IsFiniteSet(SlotsNotInUse \cup {s})
          /\ Cardinality(SlotsNotInUse \cup {s})
               = IF s \in SlotsNotInUse THEN Cardinality(SlotsNotInUse) ELSE Cardinality(SlotsNotInUse) + 1
      BY <1>6, FS_AddElement, Zenon
    <2> QED BY <1>6, <2>1
  <1>8. Cardinality(SlotsNotInUse') \in Nat /\ Cardinality(SlotsNotInUse') <= Cardinality(SlotsNotInUse \union {s})
    BY <1>5, <1>7, FS_Subset, FS_CardinalityType
  <1> QED BY <1>6, <1>7, <1>8

\* Every step keeps the bound.
LEMMA IdleNext == OwnInv /\ IdleBounded /\ [PoolNext]_poolVars => IdleBounded'
  <1> SUFFICES ASSUME OwnInv, IdleBounded, [PoolNext]_poolVars, phase' = "sample"
               PROVE  Cardinality(SlotsNotInUse') <= (bucket_num_ - 1) * NUM_ENTRIES + (num_pages_to_sample - to_sample')
    BY DEF IdleBounded
  <1> DEFINE M == (bucket_num_ - 1) * NUM_ENTRIES
  <1>0. /\ M \in Int /\ num_pages_to_sample \in Nat /\ to_sample \in Nat
        /\ Cardinality(SlotsNotInUse) \in Nat /\ Cardinality(SlotsNotInUse') \in Nat
    <2>1. SlotsNotInUse \in SUBSET Slot /\ SlotsNotInUse' \in SUBSET Slot
      BY DEF SlotsNotInUse
    <2> QED BY <2>1, TableAssumption, TuningAssumption, FiniteAssumption, FS_Subset, FS_CardinalityType
            DEF OwnInv, OwnTypes
  <1>1. ASSUME NEW idx \in Bucket, ProbeFails(idx) PROVE Cardinality(SlotsNotInUse') <= M + (num_pages_to_sample - to_sample')
    <2>1. pos_state' = pos_state /\ to_sample' = num_pages_to_sample
      BY <1>1 DEF ProbeFails, pages
    <2>2. SlotsNotInUse' = SlotsNotInUse
      BY <2>1 DEF SlotsNotInUse, InUse
    <2>3. Cardinality(SlotsNotInUse) <= M
      BY <1>1, ProbeMisses
    <2> HIDE DEF M
    <2> QED BY <1>0, <2>1, <2>2, <2>3
  <1>2. ASSUME NEW s \in HotSlots, SamplePage(s) PROVE Cardinality(SlotsNotInUse') <= M + (num_pages_to_sample - to_sample')
    <2>1. phase = "sample" /\ to_sample' = to_sample - 1
      BY <1>2 DEF SamplePage
    <2>2. Cardinality(SlotsNotInUse') <= Cardinality(SlotsNotInUse) + 1
      BY <1>2, DemotionTakesOne
    <2>3. Cardinality(SlotsNotInUse) <= M + (num_pages_to_sample - to_sample)
      BY <2>1 DEF IdleBounded
    <2> HIDE DEF M
    <2> QED BY <1>0, <2>1, <2>2, <2>3
  <1>3. CASE UNCHANGED poolVars
    <2>1. phase = "sample" /\ to_sample' = to_sample /\ SlotsNotInUse' = SlotsNotInUse
      BY <1>3 DEF poolVars, pages, control, SlotsNotInUse, InUse
    <2> QED BY <2>1 DEF IdleBounded
  <1>4. CASE PoolNext
    <2>1. \A s \in Slot : ~Allocate(s)
      BY DEF Allocate
    <2>2. ~TakeLocal /\ (\A idx \in Bucket : ~EvictCool(idx)) /\ ~SampleExit
      BY DEF TakeLocal, EvictCool, SampleExit
    <2>3. (\A p : ~RequestPage(p)) /\ (\A a, d : ~CacheInsert(a, d))
      BY DEF RequestPage, CacheInsert
    <2>4. (\A S : ~MarkDirty(S)) /\ ~FlushAll
      BY DEF MarkDirty, FlushAll, control
    <2> QED BY <1>1, <1>2, <1>4, <2>1, <2>2, <2>3, <2>4 DEF PoolNext, GetEmptyPage
  <1> QED BY <1>3, <1>4

\* When sample_page runs, all but a bounded number of the slots hold pages in use: what the
\* eviction before it may have missed and what its own call has demoted.
THEOREM SamplerStartsFull == PoolSpec => []IdleBounded
  <1>1. PoolInit => IdleBounded
    BY DEF PoolInit, IdleBounded
  <1>2. PoolInv => OwnInv
    BY OwnTypesOf DEF PoolInv, OwnInv
  <1> QED BY <1>1, <1>2, IdleNext, PoolInvariant, PTL DEF PoolSpec

=============================================================================
