--------------------------- MODULE AdmissionProofs ---------------------------
(***************************************************************************)
(* Proofs about Admission, for any number of slots, leaves, buckets and    *)
(* frames and any hash function.                                           *)
(*                                                                         *)
(* The pool's own invariant does not hold here: IO_FLAG stands in the page *)
(* table, Forget leaves a cooling page that no entry names, and            *)
(* updatest_replace leaves a hot page that neither the parent nor the page *)
(* table refers to.  What stays of it is the one-owner discipline, taken   *)
(* from BufferPoolProofs, and AdmInv adds how an entry, the parent's child *)
(* and the page's state go together.  SeenInv, about the values of the     *)
(* leaves that are not Spoiled, is inductive on top of AdmInv.             *)
(***************************************************************************)
EXTENDS Admission, BufferPoolProofs

AdmTypes == OwnTypes /\ AdmissionTypeOK /\ last \in [LeafAddr -> Val]

\* Where the client is: only a load and a replacement ask for a page.
JobTyped ==
  /\ pin = NoSlot /\ prev_state = 0
  /\ at \in {"idle", "aborted"} => phase = "idle"
  /\ at \in {"load", "replace"} => job.a \in LeafAddr
  /\ at = "load" /\ job.kind = "update" => job.v \in Val
  /\ at = "replace" => job.slot \in Slot

\* A page the page table names holds the address; it is the parent's hot child, or
\* it is cooling and the parent refers to the backend.
EntryAgrees ==
  \A a \in Addr : page_table[a] \in Slot =>
    LET s == page_table[a] IN
    /\ a \in LeafAddr /\ s # page /\ remote_address[s] = a
    /\ \/ pos_state[s] = 2 /\ ref[a] = s
       \/ pos_state[s] = 1 /\ ref[a] = NoSlot
ChildIndexed ==
  \A a \in LeafAddr : ref[a] # NoSlot => page_table[a] = ref[a] /\ has_parent[ref[a]]
ParentRight ==
  \A s \in Slot : has_parent[s] => remote_address[s] \in LeafAddr /\ ref[remote_address[s]] = s
Agreement == EntryAgrees /\ ChildIndexed /\ ParentRight

\* A page that would be written back is a leaf with a value.
DirtyIsLeaf == \A s \in Slot : dirty[s] => remote_address[s] \in LeafAddr /\ val[s] \in Val

AdmInv ==
  /\ AdmTypes /\ SlotOwnership /\ JobTyped /\ FlagWhileLoading
  /\ CoolInItsBucket /\ Agreement /\ DirtyIsLeaf

\* Of a leaf that is not spoiled only the hot page the page table names is dirty, and
\* images on the free list.  The latter are not written unless by flush_all, which
\* spoils the leaf.
DirtyIsCurrent ==
  \A s \in Slot : dirty[s] /\ remote_address[s] \notin Spoiled =>
    \/ pos_state[s] = 2 /\ page_table[remote_address[s]] = s
    \/ pos_state[s] = 3

\* The value part of WritesAreSeen.
ValueSeen ==
  \A a \in LeafAddr \ Spoiled :
    LET s == page_table[a] IN
    IF s \in Slot THEN val[s] = last[a] /\ (~dirty[s] => backend[a].val = last[a])
                  ELSE backend[a].val = last[a]

SeenInv == DirtyIsCurrent /\ ValueSeen

-----------------------------------------------------------------------------
(* Steps that leave the leaves in memory where they are *)

\* Entries may only go away, and only those of pages that are no child of the parent;
\* a slot that is handed out has no entry.
LEMMA AgreementKept ==
  ASSUME AdmInv, UNCHANGED <<pos_state, remote_address, ref, has_parent>>,
         \A a \in Addr : page_table'[a] \in Slot =>
           page_table'[a] = page_table[a] /\ page_table'[a] # page',
         \A a \in LeafAddr : ref[a] # NoSlot => page_table'[a] = page_table[a]
  PROVE  Agreement'
  BY DEF AdmInv, Agreement, EntryAgrees, ChildIndexed, ParentRight, LeafAddr

\* A page on its way out of the pool, of a leaf that is not spoiled, is clean.
LEMMA CoolIsClean ==
  ASSUME AdmInv, SeenInv, NEW a \in LeafAddr, a \notin Spoiled,
         page_table[a] \in Slot, pos_state[page_table[a]] = 1
  PROVE  ~dirty[page_table[a]] /\ backend[a].val = last[a]
  <1>1. remote_address[page_table[a]] = a
    BY DEF AdmInv, Agreement, EntryAgrees, LeafAddr
  <1>2. ~dirty[page_table[a]]
    BY <1>1 DEF SeenInv, DirtyIsCurrent
  <1> QED BY <1>2 DEF SeenInv, ValueSeen

\* An entry that goes away names a cooling page, which is clean: the backend has its value.
LEMMA SeenKept ==
  ASSUME AdmInv, SeenInv,
         UNCHANGED <<pos_state, remote_address, dirty, val, backend, last, lossVars>>,
         \A a \in Addr :
           \/ page_table'[a] = page_table[a]
           \/ /\ page_table'[a] \notin Slot
              /\ page_table[a] \in Slot => pos_state[page_table[a]] = 1
  PROVE  SeenInv'
  <1>0. Spoiled' = Spoiled
    BY DEF Spoiled, lossVars
  <1>1. DirtyIsCurrent'
    <2> SUFFICES ASSUME NEW s \in Slot, dirty[s], remote_address[s] \notin Spoiled, pos_state[s] # 3
                 PROVE  pos_state[s] = 2 /\ page_table'[remote_address[s]] = s
      BY <1>0 DEF DirtyIsCurrent
    <2>1. pos_state[s] = 2 /\ page_table[remote_address[s]] = s
      BY DEF SeenInv, DirtyIsCurrent
    <2>2. remote_address[s] \in Addr
      BY DEF AdmInv, AdmTypes, OwnTypes
    <2> QED BY <2>1, <2>2
  <1>2. ValueSeen'
    <2> SUFFICES ASSUME NEW a \in LeafAddr, a \notin Spoiled
                 PROVE  LET s == page_table'[a] IN
                        IF s \in Slot THEN val[s] = last[a] /\ (~dirty[s] => backend[a].val = last[a])
                                      ELSE backend[a].val = last[a]
      BY <1>0 DEF ValueSeen
    <2>1. CASE page_table'[a] = page_table[a]
      BY <2>1 DEF SeenInv, ValueSeen
    <2>2. CASE page_table'[a] \notin Slot /\ (page_table[a] \in Slot => pos_state[page_table[a]] = 1)
      <3>1. page_table[a] \in Slot => backend[a].val = last[a]
        BY <2>2, CoolIsClean
      <3> QED BY <2>2, <3>1 DEF SeenInv, ValueSeen
    <2> QED BY <2>1, <2>2 DEF LeafAddr
  <1> QED BY <1>1, <1>2 DEF SeenInv

\* The parts of a state that satisfy AdmInv.
LEMMA AdmParts ==
  ASSUME AdmInv
  PROVE  OwnInv /\ IO_FLAG \notin Slot /\ IO_FLAG # NoSlot /\ NoSlot \notin Slot
  BY SlotAssumption, AdmissionAssumption DEF AdmInv, AdmTypes, OwnInv

\* The whole invariant from its parts.
LEMMA AdmFromParts ==
  ASSUME OwnInv', AdmissionTypeOK', last' \in [LeafAddr -> Val], JobTyped', FlagWhileLoading',
         CoolInItsBucket', Agreement', DirtyIsLeaf'
  PROVE  AdmInv'
  BY DEF AdmInv, AdmTypes, OwnInv

\* A step of the client or of get_empty_page that moves no slot and writes no page.
LEMMA QuietAdm ==
  ASSUME AdmInv,
         UNCHANGED <<state, unallocated, pos_state, remote_address, dirty, local_page_set, table_,
                     page, pin, prev_state, leafVars, last, lossVars>>,
         to_sample' \in 0 .. num_pages_to_sample,
         phase' \in {"idle", "get", "sample", "exit"}, phase # "admit",
         phase' = "sample" => to_sample' > 0,
         at' \in {"idle", "load", "replace", "aborted"}, JobTyped', FlagWhileLoading',
         \A a \in Addr :
           \/ page_table'[a] = page_table[a]
           \/ page_table[a] \notin Slot /\ page_table'[a] \notin Slot
           \/ page_table[a] \in Slot /\ pos_state[page_table[a]] = 1 /\ page_table'[a] = NoSlot,
         page_table' \in [Addr -> Slot \union {NoSlot, IO_FLAG}]
  PROVE  AdmInv' /\ (SeenInv => SeenInv')
  <1>1. OwnInv /\ NoSlot \notin Slot
    BY AdmParts
  <1>2. OwnInv'
    BY <1>1, QuietOwn DEF OwnInv, OwnTypes, AdmInv, JobTyped
  <1>3. AdmissionTypeOK' /\ last' \in [LeafAddr -> Val]
    BY DEF AdmInv, AdmTypes, AdmissionTypeOK, leafVars
  <1>4. CoolInItsBucket' /\ DirtyIsLeaf'
    BY DEF AdmInv, CoolInItsBucket, DirtyIsLeaf, leafVars
  <1>5. Agreement'
    <2>1. \A a \in Addr : page_table'[a] \in Slot =>
            page_table'[a] = page_table[a] /\ page_table'[a] # page'
      BY <1>1 DEF AdmInv, Agreement, EntryAgrees
    <2>2. \A a \in LeafAddr : ref[a] # NoSlot => page_table'[a] = page_table[a]
      BY <1>1 DEF AdmInv, AdmTypes, AdmissionTypeOK, Agreement, EntryAgrees, ChildIndexed, LeafAddr
    <2> QED BY <2>1, <2>2, AgreementKept DEF leafVars
  <1>6. SeenInv => SeenInv'
    <2>1. \A a \in Addr : \/ page_table'[a] = page_table[a]
                          \/ /\ page_table'[a] \notin Slot
                             /\ page_table[a] \in Slot => pos_state[page_table[a]] = 1
      BY <1>1
    <2> QED BY <2>1, SeenKept DEF leafVars
  <1> QED BY <1>2, <1>3, <1>4, <1>5, <1>6, AdmFromParts

LEMMA MissAdm ==
  ASSUME AdmInv, NEW a \in LeafAddr, NEW kind, NEW v, kind = "update" => v \in Val, Miss(a, kind, v)
  PROVE  AdmInv' /\ (SeenInv => SeenInv')
  <1>1. OwnInv /\ IO_FLAG \notin Slot /\ IO_FLAG # NoSlot /\ NoSlot \notin Slot
    BY AdmParts
  <1>2. /\ phase = "idle" /\ at = "idle" /\ at' = "load" /\ page_table[a] = NoSlot
        /\ job'.a = a /\ job'.kind = kind /\ job'.v = v
        /\ page_table' = [page_table EXCEPT ![a] = IO_FLAG]
    BY DEF Miss, Idle, NoJob
  <1>3. page_table \in [Addr -> Slot \union {NoSlot, IO_FLAG}] /\ a \in Addr
    BY DEF AdmInv, AdmTypes, AdmissionTypeOK, LeafAddr
  <1>4. JobTyped'
    BY <1>2 DEF Miss, AdmInv, JobTyped, control
  <1>5. FlagWhileLoading'
    BY <1>1, <1>2, <1>3 DEF AdmInv, FlagWhileLoading
  <1> QED BY <1>1, <1>2, <1>3, <1>4, <1>5, QuietAdm
          DEF Miss, pages, control, OwnInv, OwnTypes

LEMMA ForgetAdm ==
  ASSUME AdmInv, NEW a \in LeafAddr, Forget(a)
  PROVE  AdmInv' /\ (SeenInv => SeenInv')
  <1>1. OwnInv /\ IO_FLAG \notin Slot /\ IO_FLAG # NoSlot /\ NoSlot \notin Slot
    BY AdmParts
  <1>2. /\ phase = "idle" /\ at = "idle" /\ UNCHANGED <<at, job>> /\ page_table[a] \in Slot
        /\ page_table' = [page_table EXCEPT ![a] = NoSlot] /\ ref[a] = NoSlot
    BY DEF Forget, Idle, RemoveEntry, admVars
  <1>3. page_table \in [Addr -> Slot \union {NoSlot, IO_FLAG}] /\ a \in Addr
    BY DEF AdmInv, AdmTypes, AdmissionTypeOK, LeafAddr
  <1>4. JobTyped'
    BY <1>2 DEF Forget, AdmInv, JobTyped, control
  <1>5. FlagWhileLoading'
    BY <1>1, <1>2, <1>3 DEF AdmInv, FlagWhileLoading
  <1>6. pos_state[page_table[a]] = 1
    BY <1>1, <1>2, <1>3 DEF AdmInv, Agreement, EntryAgrees
  <1> QED BY <1>1, <1>2, <1>3, <1>4, <1>5, <1>6, QuietAdm
          DEF Forget, pages, control, OwnInv, OwnTypes, admVars

LEMMA ReplaceAdm ==
  ASSUME AdmInv, NEW a \in LeafAddr, Replace(a)
  PROVE  AdmInv' /\ (SeenInv => SeenInv')
  <1>1. OwnInv
    BY AdmParts
  <1>2. /\ phase = "idle" /\ at = "idle" /\ at' = "replace" /\ ref[a] \in Slot
        /\ job'.a = a /\ job'.slot = ref[a]
    BY DEF Replace, Idle, NoJob
  <1>3. UNCHANGED <<poolVars, leafVars, last, lossVars>>
    BY DEF Replace
  <1>4. JobTyped'
    BY <1>2, <1>3 DEF AdmInv, JobTyped, poolVars, control
  <1>5. FlagWhileLoading'
    BY <1>2, <1>3 DEF AdmInv, FlagWhileLoading, poolVars
  <1> QED BY <1>1, <1>2, <1>3, <1>4, <1>5, QuietAdm
          DEF poolVars, pages, control, OwnInv, OwnTypes, AdmInv, AdmTypes, AdmissionTypeOK

LEMMA ReplaceAbortsAdm ==
  ASSUME AdmInv, ReplaceAborts
  PROVE  AdmInv' /\ (SeenInv => SeenInv')
  <1>1. OwnInv
    BY AdmParts
  <1>2. phase = "idle" /\ at = "replace" /\ at' = "aborted" /\ UNCHANGED <<poolVars, leafVars, job, last, lossVars>>
    BY DEF ReplaceAborts
  <1>3. JobTyped' /\ FlagWhileLoading'
    BY <1>2 DEF AdmInv, JobTyped, FlagWhileLoading, poolVars, control
  <1> QED BY <1>1, <1>2, <1>3, QuietAdm
          DEF poolVars, pages, control, OwnInv, OwnTypes, AdmInv, AdmTypes, AdmissionTypeOK

\* cold_to_hot and fill_local_page_set ask for a page.
LEMMA RequestAdm ==
  ASSUME AdmInv, at \in {"load", "replace"}, RequestPage(NoSlot), UNCHANGED <<leafVars, at, job, last, lossVars>>
  PROVE  AdmInv' /\ (SeenInv => SeenInv')
  <1>1. OwnInv
    BY AdmParts
  <1>2. /\ phase = "idle" /\ phase' = "get" /\ pin' = NoSlot /\ prev_state' = 0
        /\ UNCHANGED <<state, unallocated, pos_state, remote_address, dirty, local_page_set,
                       table_, page_table, to_sample, page>>
    BY DEF RequestPage
  <1>3. JobTyped' /\ FlagWhileLoading' /\ pin' = pin /\ prev_state' = prev_state
    BY <1>2 DEF AdmInv, JobTyped, FlagWhileLoading
  <1> QED BY <1>1, <1>2, <1>3, QuietAdm
          DEF OwnInv, OwnTypes, AdmInv, AdmTypes, AdmissionTypeOK

\* random_evict_to_remote fails, or the sampler gives up.
LEMMA ProbeAdm ==
  ASSUME AdmInv, (\E idx \in Bucket : ProbeFails(idx)) \/ SampleExit,
         UNCHANGED <<leafVars, at, job, last, lossVars>>
  PROVE  AdmInv' /\ (SeenInv => SeenInv')
  <1>1. OwnInv
    BY AdmParts
  <1>2. /\ phase \in {"get", "sample"} /\ phase' \in {"sample", "exit"}
        /\ phase' = "sample" => to_sample' = num_pages_to_sample
        /\ phase' = "exit" => to_sample' = to_sample
        /\ UNCHANGED <<state, unallocated, pos_state, remote_address, dirty, local_page_set,
                       table_, page_table, page, pin, prev_state>>
    BY DEF ProbeFails, SampleExit, pages
  <1>3. JobTyped' /\ FlagWhileLoading'
    BY <1>2 DEF AdmInv, JobTyped, FlagWhileLoading
  <1>4. to_sample' \in 0 .. num_pages_to_sample /\ (phase' = "sample" => to_sample' > 0)
    BY <1>1, <1>2, TuningAssumption DEF OwnInv, OwnTypes
  <1> QED BY <1>1, <1>2, <1>3, <1>4, QuietAdm
          DEF OwnInv, OwnTypes, AdmInv, AdmTypes, AdmissionTypeOK

\* try_get_empty_page returns nullptr and the flag is removed.
LEMMA TryFailsAdm ==
  ASSUME AdmInv, TryFails
  PROVE  AdmInv' /\ (SeenInv => SeenInv')
  <1>1. OwnInv /\ IO_FLAG \notin Slot /\ IO_FLAG # NoSlot /\ NoSlot \notin Slot
    BY AdmParts
  <1>2. /\ at = "load" /\ phase = "get" /\ phase' = "idle" /\ at' = "idle" /\ job' = NoJob
        /\ page_table' = [page_table EXCEPT ![job.a] = NoSlot] /\ to_sample' = to_sample
    BY DEF TryFails, FlagRemoved
  <1>3. page_table \in [Addr -> Slot \union {NoSlot, IO_FLAG}] /\ job.a \in Addr
    BY <1>2 DEF AdmInv, AdmTypes, AdmissionTypeOK, LeafAddr, JobTyped
  <1>4. page_table[job.a] = IO_FLAG
    BY <1>2, <1>3 DEF AdmInv, FlagWhileLoading
  <1>5. JobTyped'
    BY <1>2 DEF TryFails, AdmInv, JobTyped
  <1>6. FlagWhileLoading'
    BY <1>1, <1>2, <1>3 DEF AdmInv, FlagWhileLoading
  <1> QED BY <1>1, <1>2, <1>3, <1>4, <1>5, <1>6, QuietAdm
          DEF TryFails, pages, OwnInv, OwnTypes

-----------------------------------------------------------------------------
(* The branches of get_empty_page *)

\* The free slot that is handed out is named by no entry.
LEMMA TakeAdm ==
  ASSUME AdmInv, (\E s \in Slot : Allocate(s)) \/ TakeLocal, UNCHANGED <<leafVars, at, job, last, lossVars>>
  PROVE  AdmInv' /\ (SeenInv => SeenInv')
  <1>1. OwnInv
    BY AdmParts
  <1>2. OwnInv' /\ page' \in Slot /\ pos_state[page'] \in {0, 3}
    BY <1>1, AllocateOwn, TakeLocalOwn
  <1>3. /\ phase = "get" /\ phase' = "admit"
        /\ UNCHANGED <<pos_state, remote_address, dirty, table_, page_table, pin, prev_state>>
    BY DEF Allocate, TakeLocal, pages
  <1>4. JobTyped' /\ FlagWhileLoading'
    BY <1>3 DEF AdmInv, JobTyped, FlagWhileLoading
  <1>5. AdmissionTypeOK' /\ last' \in [LeafAddr -> Val] /\ CoolInItsBucket' /\ DirtyIsLeaf'
    BY <1>3 DEF AdmInv, AdmTypes, AdmissionTypeOK, CoolInItsBucket, DirtyIsLeaf, leafVars
  <1>6. \A a \in Addr : page_table[a] \in Slot => page_table[a] # page'
    BY <1>2 DEF AdmInv, Agreement, EntryAgrees
  <1>7. Agreement'
    BY <1>3, <1>6, AgreementKept DEF leafVars
  <1>8. SeenInv => SeenInv'
    BY <1>3, SeenKept DEF leafVars
  <1> QED BY <1>2, <1>4, <1>5, <1>7, <1>8, AdmFromParts

\* The evicted page was cooling: its entry goes, if it still names the page, and never
\* the flag of the page that is being loaded.
LEMMA EvictAdm ==
  ASSUME AdmInv, NEW idx \in Bucket, EvictCool(idx), UNCHANGED <<leafVars, at, job, last, lossVars>>
  PROVE  AdmInv' /\ (SeenInv => SeenInv')
  <1> DEFINE e == page'
  <1>1. OwnInv /\ IO_FLAG \notin Slot /\ IO_FLAG # NoSlot /\ NoSlot \notin Slot
    BY AdmParts
  <1>2. /\ OwnInv' /\ e \in Slot /\ pos_state[e] = 1
        /\ page_table' = RemoveEntry(page_table, remote_address[e], e)
        /\ \A c \in Bucket : \A i \in 1 .. Len(table_'[c]) :
             i \in 1 .. Len(table_[c]) /\ table_'[c][i] = table_[c][i]
    BY <1>1, EvictCoolOwn
  <1>3. /\ phase = "get" /\ phase' = "admit"
        /\ UNCHANGED <<pos_state, remote_address, dirty, pin, prev_state>>
    BY DEF EvictCool, pages
  <1> HIDE DEF e
  <1>4. page_table \in [Addr -> Slot \union {NoSlot, IO_FLAG}] /\ remote_address[e] \in Addr
    BY <1>1, <1>2 DEF AdmInv, AdmTypes, AdmissionTypeOK, OwnInv, OwnTypes
  <1>5. \A a \in Addr : page_table'[a] = IF page_table[a] = e THEN NoSlot ELSE page_table[a]
    BY <1>2, <1>4 DEF RemoveEntry, AdmInv, Agreement, EntryAgrees
  <1>6. page_table' \in [Addr -> Slot \union {NoSlot, IO_FLAG}]
    BY <1>2, <1>4 DEF RemoveEntry
  <1>7. JobTyped' /\ FlagWhileLoading'
    BY <1>1, <1>2, <1>3, <1>5 DEF AdmInv, JobTyped, FlagWhileLoading
  <1>8. AdmissionTypeOK' /\ last' \in [LeafAddr -> Val] /\ DirtyIsLeaf'
    BY <1>2, <1>3, <1>6 DEF AdmInv, AdmTypes, AdmissionTypeOK, DirtyIsLeaf, leafVars, OwnInv, OwnTypes
  <1>9. CoolInItsBucket'
    BY <1>2, <1>3 DEF AdmInv, CoolInItsBucket
  <1>10. Agreement'
    <2>1. \A a \in Addr : page_table'[a] \in Slot => page_table'[a] = page_table[a] /\ page_table'[a] # page'
      BY <1>1, <1>5 DEF e
    <2>2. \A a \in LeafAddr : ref[a] # NoSlot => page_table[a] # e
      BY <1>1, <1>2 DEF AdmInv, Agreement, EntryAgrees, LeafAddr
    <2> QED BY <1>3, <1>5, <2>1, <2>2, AgreementKept DEF leafVars, LeafAddr
  <1>11. SeenInv => SeenInv'
    <2>1. \A a \in Addr : \/ page_table'[a] = page_table[a]
                          \/ /\ page_table'[a] \notin Slot
                             /\ page_table[a] \in Slot => pos_state[page_table[a]] = 1
      BY <1>1, <1>2, <1>5
    <2> QED BY <1>3, <2>1, SeenKept DEF leafVars
  <1> QED BY <1>2, <1>7, <1>8, <1>9, <1>10, <1>11, AdmFromParts

-----------------------------------------------------------------------------
(* Writes *)

\* The client writes the leaf it has in memory.
LEMMA UpdateHotAdm ==
  ASSUME AdmInv, NEW a \in LeafAddr, NEW v \in Val, UpdateHot(a, v)
  PROVE  AdmInv' /\ (SeenInv => SeenInv')
  <1> DEFINE s == ref[a]
  <1>0. Spoiled' = Spoiled
    BY DEF UpdateHot, Spoiled, lossVars
  <1>1. OwnInv /\ IO_FLAG \notin Slot /\ IO_FLAG # NoSlot /\ NoSlot \notin Slot
    BY AdmParts
  <1>2. /\ phase = "idle" /\ at = "idle" /\ s \in Slot
        /\ dirty' = [x \in Slot |-> x \in {s} \/ dirty[x]]
        /\ val' = [val EXCEPT ![s] = v] /\ last' = [last EXCEPT ![a] = v]
        /\ UNCHANGED <<ref, has_parent, backend, at, job>>
        /\ UNCHANGED <<state, unallocated, pos_state, remote_address, local_page_set,
                       table_, page_table, phase, to_sample, page, pin, prev_state>>
    BY DEF UpdateHot, Idle, MarkDirty, control
  <1>3. dirty \in [Slot -> BOOLEAN] /\ val \in [Slot -> Val \union {NoSlot}] /\ last \in [LeafAddr -> Val]
    BY DEF AdmInv, AdmTypes, AdmissionTypeOK, OwnTypes
  <1>4. page_table[a] = s /\ pos_state[s] = 2 /\ remote_address[s] = a
    BY <1>1, <1>2 DEF AdmInv, Agreement, EntryAgrees, ChildIndexed, LeafAddr
  <1> HIDE DEF s
  <1>5. dirty' \in [Slot -> BOOLEAN] /\ \A x \in Slot : dirty'[x] <=> x = s \/ dirty[x]
    BY <1>2, <1>3
  <1>6. OwnInv'
    BY <1>1, <1>2, <1>5, QuietOwn DEF OwnInv, OwnTypes, AdmInv, JobTyped
  <1>7. AdmissionTypeOK' /\ last' \in [LeafAddr -> Val] /\ JobTyped' /\ FlagWhileLoading'
        /\ CoolInItsBucket'
    BY <1>2, <1>3 DEF AdmInv, AdmTypes, AdmissionTypeOK, JobTyped, FlagWhileLoading, CoolInItsBucket
  <1>8. Agreement'
    BY <1>2 DEF AdmInv, Agreement, EntryAgrees, ChildIndexed, ParentRight
  <1>9. \A x \in Slot : val'[x] = IF x = s THEN v ELSE val[x]
    BY <1>2, <1>3
  <1>10. DirtyIsLeaf'
    BY <1>2, <1>4, <1>5, <1>9 DEF AdmInv, DirtyIsLeaf
  <1>11. ASSUME SeenInv PROVE SeenInv'
    <2>1. DirtyIsCurrent'
      BY <1>0, <1>2, <1>4, <1>5, <1>11 DEF SeenInv, DirtyIsCurrent
    <2>3. ASSUME NEW b \in LeafAddr, b # a, page_table[b] \in Slot PROVE page_table[b] # s
      BY <1>4, <2>3 DEF AdmInv, Agreement, EntryAgrees, LeafAddr
    <2>4. \A b \in LeafAddr : last'[b] = IF b = a THEN v ELSE last[b]
      BY <1>2, <1>3
    <2>5. ValueSeen'
      <3> SUFFICES ASSUME NEW b \in LeafAddr, b \notin Spoiled
                   PROVE  LET x == page_table[b] IN
                          IF x \in Slot
                          THEN val'[x] = last'[b] /\ (~dirty'[x] => backend[b].val = last'[b])
                          ELSE backend[b].val = last'[b]
        BY <1>0, <1>2 DEF ValueSeen
      <3>1. CASE b = a
        BY <1>2, <1>4, <1>5, <1>9, <2>4, <3>1
      <3>2. CASE b # a
        BY <1>5, <1>9, <1>11, <2>3, <2>4, <3>2 DEF SeenInv, ValueSeen
      <3> QED BY <3>1, <3>2
    <2> QED BY <2>1, <2>5 DEF SeenInv
  <1> QED BY <1>6, <1>7, <1>8, <1>10, <1>11, AdmFromParts

\* remote_write leaves an image with the value and a clear dirty flag.
LEMMA WrittenFacts ==
  ASSUME backend \in [LeafAddr -> [val : Val, dirty : BOOLEAN]], NEW a \in LeafAddr, NEW v \in Val
  PROVE  /\ Written(a, v) \in [LeafAddr -> [val : Val, dirty : BOOLEAN]]
         /\ Written(a, v)[a].val = v /\ ~Written(a, v)[a].dirty
         /\ \A b \in LeafAddr : b # a => Written(a, v)[b] = backend[b]
  <1>1. \A d \in BOOLEAN : LET image == [val |-> v, dirty |-> d] IN
          image \in [val : Val, dirty : BOOLEAN] /\ image.val = v /\ (~d => ~image.dirty)
    OBVIOUS
  <1>2. PICK image \in [val : Val, dirty : BOOLEAN] :
          image = [val |-> v, dirty |-> FALSE] /\ image.val = v /\ ~image.dirty
    BY <1>1, Zenon
  <1>3. Written(a, v) = [backend EXCEPT ![a] = image]
    BY <1>2 DEF Written
  <1>4. [backend EXCEPT ![a] = image] \in [LeafAddr -> [val : Val, dirty : BOOLEAN]]
    BY <1>2
  <1>5. [backend EXCEPT ![a] = image][a] = image
    BY <1>2
  <1> QED BY <1>2, <1>3, <1>4, <1>5

\* An operation that was not admitted works on the backend; its leaf is not in memory.
LEMMA BypassAdm ==
  ASSUME AdmInv, Bypass
  PROVE  AdmInv' /\ (SeenInv => SeenInv')
  <1> DEFINE a == job.a
  <1>0. Spoiled' = Spoiled
    BY DEF Bypass, Spoiled, lossVars
  <1>1. OwnInv /\ IO_FLAG \notin Slot /\ IO_FLAG # NoSlot /\ NoSlot \notin Slot
    BY AdmParts
  <1>2. /\ phase = "idle" /\ at = "load" /\ at' = "idle" /\ job' = NoJob
        /\ page_table' = [page_table EXCEPT ![a] = NoSlot]
        /\ UNCHANGED <<ref, has_parent, val>>
        /\ UNCHANGED <<state, unallocated, pos_state, remote_address, dirty, local_page_set,
                       table_, phase, to_sample, page, pin, prev_state>>
    BY DEF Bypass, FlagRemoved, pages, control
  <1>3. a \in LeafAddr /\ a \in Addr
    BY <1>2 DEF AdmInv, JobTyped, LeafAddr
  <1>4. /\ page_table \in [Addr -> Slot \union {NoSlot, IO_FLAG}] /\ last \in [LeafAddr -> Val]
        /\ backend \in [LeafAddr -> [val : Val, dirty : BOOLEAN]]
    BY DEF AdmInv, AdmTypes, AdmissionTypeOK
  <1>5. /\ backend' \in [LeafAddr -> [val : Val, dirty : BOOLEAN]] /\ last' \in [LeafAddr -> Val]
        /\ backend'[a].val = last'[a] \/ (backend'[a] = backend[a] /\ last'[a] = last[a])
        /\ ~backend'[a].dirty \/ backend'[a] = backend[a]
        /\ \A b \in LeafAddr : b # a => backend'[b] = backend[b] /\ last'[b] = last[b]
    <2>1. CASE job.kind = "update" /\ backend' = Written(a, job.v) /\ last' = [last EXCEPT ![a] = job.v]
      <3>1. job.v \in Val
        BY <1>2, <2>1 DEF AdmInv, JobTyped
      <3>2. /\ Written(a, job.v) \in [LeafAddr -> [val : Val, dirty : BOOLEAN]]
            /\ Written(a, job.v)[a].val = job.v /\ ~Written(a, job.v)[a].dirty
            /\ \A b \in LeafAddr : b # a => Written(a, job.v)[b] = backend[b]
        BY <1>3, <1>4, <3>1, WrittenFacts
      <3>3. last' \in [LeafAddr -> Val] /\ last'[a] = job.v /\ \A b \in LeafAddr : b # a => last'[b] = last[b]
        BY <1>3, <1>4, <2>1, <3>1
      <3> QED BY <2>1, <3>2, <3>3
    <2>2. CASE UNCHANGED <<backend, last>>
      BY <1>4, <2>2
    <2> QED BY <2>1, <2>2 DEF Bypass
  <1> HIDE DEF a
  <1>6. \A b \in Addr : page_table'[b] = IF b = a THEN NoSlot ELSE page_table[b]
    BY <1>2, <1>3, <1>4
  <1>7. page_table' \in [Addr -> Slot \union {NoSlot, IO_FLAG}] /\ page_table[a] = IO_FLAG
    BY <1>2, <1>3, <1>4 DEF AdmInv, FlagWhileLoading, a
  <1>8. OwnInv'
    BY <1>1, <1>2, QuietOwn DEF OwnInv, OwnTypes, AdmInv, JobTyped
  <1>9. AdmissionTypeOK' /\ JobTyped' /\ CoolInItsBucket' /\ DirtyIsLeaf'
    BY <1>2, <1>5, <1>7 DEF AdmInv, AdmTypes, AdmissionTypeOK, JobTyped, CoolInItsBucket, DirtyIsLeaf
  <1>10. FlagWhileLoading'
    BY <1>1, <1>2, <1>6 DEF AdmInv, FlagWhileLoading, a
  <1>11. Agreement'
    <2>1. ref[a] = NoSlot
      BY <1>1, <1>3, <1>7 DEF AdmInv, AdmTypes, AdmissionTypeOK, Agreement, ChildIndexed
    <2>2. \A b \in Addr : page_table'[b] \in Slot => page_table'[b] = page_table[b] /\ page_table'[b] # page'
      BY <1>1, <1>2, <1>6 DEF AdmInv, Agreement, EntryAgrees
    <2> QED BY <1>2, <1>6, <2>1, <2>2, AgreementKept DEF LeafAddr
  <1>12. ASSUME SeenInv PROVE SeenInv'
    <2>1. DirtyIsCurrent'
      BY <1>1, <1>2, <1>6, <1>7, <1>12, <1>0 DEF SeenInv, DirtyIsCurrent, AdmInv, AdmTypes, OwnTypes
    <2>3. a \notin Spoiled => backend'[a].val = last'[a]
      BY <1>1, <1>3, <1>5, <1>7, <1>12 DEF SeenInv, ValueSeen
    <2>4. ASSUME NEW b \in LeafAddr, b # a
          PROVE  backend'[b] = backend[b] /\ last'[b] = last[b] /\ page_table'[b] = page_table[b]
      BY <1>5, <1>6, <2>4 DEF LeafAddr
    <2>5. ValueSeen'
      <3> SUFFICES ASSUME NEW b \in LeafAddr, b \notin Spoiled
                   PROVE  LET x == page_table'[b] IN
                          IF x \in Slot
                          THEN val[x] = last'[b] /\ (~dirty[x] => backend'[b].val = last'[b])
                          ELSE backend'[b].val = last'[b]
        BY <1>0, <1>2 DEF ValueSeen
      <3>1. CASE b = a
        BY <1>1, <1>3, <1>6, <2>3, <3>1
      <3>2. CASE b # a
        BY <1>12, <2>4, <3>2 DEF SeenInv, ValueSeen
      <3> QED BY <3>1, <3>2
    <2> QED BY <2>1, <2>5 DEF SeenInv
  <1> QED BY <1>5, <1>8, <1>9, <1>10, <1>11, <1>12, AdmFromParts

\* flush_all writes the dirty pages, which are the newest copies.
LEMMA FlushAdm ==
  ASSUME AdmInv, Flush
  PROVE  AdmInv' /\ (SeenInv => SeenInv')
  <1> DEFINE stale(a) == {s \in Slot : dirty[s] /\ remote_address[s] = a}
  <1>1. OwnInv /\ NoSlot \notin Slot
    BY AdmParts
  <1>2. /\ phase = "idle" /\ at = "idle" /\ dirty' = [s \in Slot |-> FALSE]
        /\ backend' \in [LeafAddr -> [val : Val, dirty : BOOLEAN]]
        /\ UNCHANGED <<ref, has_parent, val, at, job, last>>
        /\ UNCHANGED <<state, unallocated, pos_state, remote_address, local_page_set,
                       table_, page_table, phase, to_sample, page, pin, prev_state>>
    BY DEF Flush, Idle, FlushAll, control
  <1>3. \A a \in LeafAddr :
          IF stale(a) = {} THEN backend'[a] = backend[a]
          ELSE \E s \in stale(a) : backend'[a] = [val |-> val[s], dirty |-> FALSE]
    BY DEF Flush
  <1>4. dirty' \in [Slot -> BOOLEAN] /\ \A s \in Slot : ~dirty'[s]
    BY <1>2
  <1>5. OwnInv'
    BY <1>1, <1>2, <1>4, QuietOwn DEF OwnInv, OwnTypes, AdmInv, JobTyped
  <1>6. AdmissionTypeOK' /\ last' \in [LeafAddr -> Val] /\ JobTyped' /\ FlagWhileLoading'
        /\ CoolInItsBucket' /\ DirtyIsLeaf'
    BY <1>2, <1>4 DEF AdmInv, AdmTypes, AdmissionTypeOK, JobTyped, FlagWhileLoading, CoolInItsBucket,
           DirtyIsLeaf
  <1>7. Agreement'
    BY <1>2 DEF AdmInv, Agreement, EntryAgrees, ChildIndexed, ParentRight
  <1>8. ASSUME SeenInv PROVE SeenInv'
    <2>0. ASSUME NEW a \in LeafAddr, a \notin Spoiled'
          PROVE  a \notin Spoiled /\ \A s \in stale(a) : pos_state[s] # 3
      BY <2>0 DEF Flush, Spoiled
    <2>1. ASSUME NEW a \in LeafAddr, a \notin Spoiled'
          PROVE  /\ page_table[a] \in Slot => val[page_table[a]] = last[a]
                 /\ backend'[a].val = last[a]
      <3>2. page_table[a] \in Slot => val[page_table[a]] = last[a]
        BY <1>8, <2>0, <2>1 DEF SeenInv, ValueSeen
      <3>3. \A s \in stale(a) : page_table[a] = s
        BY <1>8, <2>0, <2>1 DEF SeenInv, DirtyIsCurrent
      <3>4. CASE stale(a) = {}
        <4>1. page_table[a] \in Slot => ~dirty[page_table[a]]
          BY <3>4 DEF AdmInv, Agreement, EntryAgrees, LeafAddr
        <4>2. backend[a].val = last[a]
          BY <1>8, <2>0, <2>1, <4>1 DEF SeenInv, ValueSeen
        <4> QED BY <1>3, <3>2, <3>4, <4>2
      <3>5. CASE stale(a) # {}
        <4>1. PICK s \in stale(a) : backend'[a] = [val |-> val[s], dirty |-> FALSE]
          BY <1>3, <3>5
        <4>2. backend'[a].val = val[s]
          BY <4>1
        <4> QED BY <3>2, <3>3, <4>1, <4>2
      <3> QED BY <3>4, <3>5
    <2>2. DirtyIsCurrent'
      BY <1>4 DEF DirtyIsCurrent
    <2>4. ValueSeen'
      BY <1>2, <2>1 DEF ValueSeen
    <2> QED BY <2>2, <2>4 DEF SeenInv
  <1> QED BY <1>5, <1>6, <1>7, <1>8, AdmFromParts

-----------------------------------------------------------------------------
(* Demotion *)

\* The demoted page stays named by its entry, now as a cooling page, and the parent
\* refers to the backend again; what it held, if it was the newest copy, is written.
LEMMA SampleAdm ==
  ASSUME AdmInv, NEW x \in HotSlots, Sample(x)
  PROVE  AdmInv' /\ (SeenInv => SeenInv')
  <1> DEFINE h == HomeOf(x)
             full == Squeezed(x)
             e == LeavesFor(x)
             ax == remote_address[x]
  <1>0. Spoiled' = Spoiled
    BY DEF Sample, Spoiled, lossVars
  <1>1. OwnInv /\ IO_FLAG \notin Slot /\ IO_FLAG # NoSlot /\ NoSlot \notin Slot
    BY AdmParts
  <1>2. OwnInv' /\ Demoted(x)
    BY <1>1, SamplePageOwn DEF Sample
  <1>3. /\ x \in Slot /\ pos_state[x] = 2 /\ page = NoSlot /\ ax \in Addr /\ h = BucketOf[ax]
        /\ full => e \in Slot /\ pos_state[e] = 1 /\ e # x
        /\ dirty' = [dirty EXCEPT ![x] = FALSE]
        /\ remote_address' = remote_address /\ pin' = pin /\ page' = NoSlot
        /\ page_table' = IF full THEN RemoveEntry(page_table, remote_address[e], e) ELSE page_table
    BY <1>2 DEF Demoted, DemotedTo, HomeOf
  <1>4. \A s \in Slot : pos_state'[s] = IF s = x THEN 1 ELSE IF full /\ s = e THEN 3 ELSE pos_state[s]
    BY <1>2 DEF Demoted, DemotedTo
  <1>5. \A c \in Bucket : \A i \in 1 .. Len(table_'[c]) :
          \/ c = h /\ table_'[c][i] = x
          \/ \E k \in 1 .. Len(table_[c]) : table_'[c][i] = table_[c][k]
    BY <1>2 DEF Demoted, DemotedTo
  <1>6. /\ phase = "sample" /\ phase' \in {"get", "sample"} /\ prev_state' = prev_state
        /\ backend' = IF dirty[x] THEN Written(ax, val[x]) ELSE backend
        /\ ref' = IF has_parent[x] THEN [ref EXCEPT ![ax] = NoSlot] ELSE ref
        /\ has_parent' = [has_parent EXCEPT ![x] = FALSE]
        /\ UNCHANGED <<val, at, job, last>>
    BY DEF Sample, SamplePage
  <1> HIDE DEF h, full, e, ax
  <1>7. /\ page_table \in [Addr -> Slot \union {NoSlot, IO_FLAG}] /\ dirty \in [Slot -> BOOLEAN]
        /\ remote_address \in [Slot -> Addr] /\ ref \in [LeafAddr -> Slot \union {NoSlot}]
        /\ backend \in [LeafAddr -> [val : Val, dirty : BOOLEAN]] /\ has_parent \in [Slot -> BOOLEAN]
    BY DEF AdmInv, AdmTypes, AdmissionTypeOK, OwnTypes
  <1>8. /\ page_table' \in [Addr -> Slot \union {NoSlot, IO_FLAG}]
        /\ \A a \in Addr : page_table'[a] = IF full /\ page_table[a] = e THEN NoSlot ELSE page_table[a]
    BY <1>3, <1>7 DEF RemoveEntry, AdmInv, Agreement, EntryAgrees
  <1>9. /\ \A s \in Slot : dirty'[s] <=> dirty[s] /\ s # x
        /\ \A s \in Slot : has_parent'[s] <=> has_parent[s] /\ s # x
    BY <1>3, <1>6, <1>7
  <1>10. /\ ref' \in [LeafAddr -> Slot \union {NoSlot}]
         /\ \A a \in LeafAddr : ref'[a] = IF ref[a] = x THEN NoSlot ELSE ref[a]
    <2>1. \A a \in LeafAddr : ref[a] = x => has_parent[x] /\ a = ax
      BY <1>1, <1>3 DEF AdmInv, Agreement, EntryAgrees, ChildIndexed, LeafAddr, ax
    <2>2. has_parent[x] => ax \in LeafAddr /\ ref[ax] = x
      BY <1>3 DEF AdmInv, Agreement, ParentRight, ax
    <2> QED BY <1>6, <1>7, <2>1, <2>2
  <1>11. /\ backend' \in [LeafAddr -> [val : Val, dirty : BOOLEAN]]
         /\ dirty[x] => ax \in LeafAddr /\ backend'[ax].val = val[x] /\ ~backend'[ax].dirty
         /\ \A a \in LeafAddr : ~(dirty[x] /\ a = ax) => backend'[a] = backend[a]
    <2>1. CASE dirty[x]
      <3>1. ax \in LeafAddr /\ val[x] \in Val
        BY <1>3, <2>1 DEF AdmInv, DirtyIsLeaf, ax
      <3>2. /\ Written(ax, val[x]) \in [LeafAddr -> [val : Val, dirty : BOOLEAN]]
            /\ Written(ax, val[x])[ax].val = val[x] /\ ~Written(ax, val[x])[ax].dirty
            /\ \A b \in LeafAddr : b # ax => Written(ax, val[x])[b] = backend[b]
        BY <1>7, <3>1, WrittenFacts
      <3> QED BY <1>6, <2>1, <3>1, <3>2
    <2>2. CASE ~dirty[x]
      BY <1>6, <1>7, <2>2
    <2> QED BY <2>1, <2>2
  <1>12. AdmissionTypeOK' /\ last' \in [LeafAddr -> Val]
    <2>1. has_parent' \in [Slot -> BOOLEAN]
      BY <1>6, <1>7
    <2> QED BY <1>2, <1>6, <1>8, <1>10, <1>11, <2>1
            DEF AdmInv, AdmTypes, AdmissionTypeOK, OwnInv, OwnTypes
  <1>13. JobTyped' /\ FlagWhileLoading' /\ DirtyIsLeaf'
    <2>1. JobTyped'
      BY <1>3, <1>6 DEF AdmInv, JobTyped
    <2>2. FlagWhileLoading'
      BY <1>1, <1>3, <1>6, <1>8 DEF AdmInv, FlagWhileLoading
    <2>3. DirtyIsLeaf'
      BY <1>3, <1>6, <1>9 DEF AdmInv, DirtyIsLeaf
    <2> QED BY <2>1, <2>2, <2>3
  <1>14. CoolInItsBucket'
    <2> SUFFICES ASSUME NEW c \in Bucket, NEW i \in 1 .. Len(table_'[c])
                 PROVE  BucketOf[remote_address[table_'[c][i]]] = c
      BY <1>3 DEF CoolInItsBucket
    <2>1. CASE c = h /\ table_'[c][i] = x
      BY <1>3, <2>1 DEF ax
    <2>2. CASE \E k \in 1 .. Len(table_[c]) : table_'[c][i] = table_[c][k]
      BY <2>2 DEF AdmInv, CoolInItsBucket
    <2> QED BY <1>5, <2>1, <2>2
  <1>15. Agreement'
    <2>1. EntryAgrees'
      <3> SUFFICES ASSUME NEW a \in Addr, page_table'[a] \in Slot
                   PROVE  LET s == page_table'[a] IN
                          /\ a \in LeafAddr /\ s # NoSlot /\ remote_address[s] = a
                          /\ \/ pos_state'[s] = 2 /\ ref'[a] = s
                             \/ pos_state'[s] = 1 /\ ref'[a] = NoSlot
        BY <1>3 DEF EntryAgrees
      <3> DEFINE s == page_table[a]
      <3>1. page_table'[a] = s /\ s \in Slot /\ ~(full /\ s = e)
        BY <1>1, <1>8
      <3>2. /\ a \in LeafAddr /\ remote_address[s] = a
            /\ (pos_state[s] = 2 /\ ref[a] = s) \/ (pos_state[s] = 1 /\ ref[a] = NoSlot)
        BY <3>1 DEF AdmInv, Agreement, EntryAgrees
      <3> QED BY <1>1, <1>3, <1>4, <1>10, <3>1, <3>2
    <2>2. ChildIndexed'
      <3> SUFFICES ASSUME NEW a \in LeafAddr, ref'[a] # NoSlot
                   PROVE  page_table'[a] = ref'[a] /\ has_parent'[ref'[a]]
        BY DEF ChildIndexed
      <3>1. ref'[a] = ref[a] /\ ref[a] # x /\ ref[a] \in Slot
        BY <1>7, <1>10
      <3>2. page_table[a] = ref[a] /\ has_parent[ref[a]] /\ pos_state[ref[a]] = 2
        BY <1>1, <3>1 DEF AdmInv, Agreement, EntryAgrees, ChildIndexed, LeafAddr
      <3> QED BY <1>3, <1>8, <1>9, <3>1, <3>2 DEF LeafAddr
    <2>3. ParentRight'
      BY <1>3, <1>9, <1>10 DEF AdmInv, Agreement, ParentRight
    <2> QED BY <2>1, <2>2, <2>3 DEF Agreement
  <1>16. ASSUME SeenInv PROVE SeenInv'
    <2>1. DirtyIsCurrent'
      <3> SUFFICES ASSUME NEW s \in Slot, dirty'[s], remote_address[s] \notin Spoiled
                   PROVE  \/ pos_state'[s] = 2 /\ page_table'[remote_address[s]] = s
                          \/ pos_state'[s] = 3
        BY <1>0, <1>3 DEF DirtyIsCurrent
      <3>1. dirty[s] /\ s # x
        BY <1>9
      <3>2. CASE pos_state[s] = 2 /\ page_table[remote_address[s]] = s
        BY <1>3, <1>4, <1>7, <1>8, <3>1, <3>2
      <3>3. CASE pos_state[s] = 3
        BY <1>3, <1>4, <3>1, <3>3
      <3> QED BY <1>16, <3>1, <3>2, <3>3 DEF SeenInv, DirtyIsCurrent
    <2>4. dirty[x] /\ ax \notin Spoiled => page_table[ax] = x
      BY <1>3, <1>16 DEF SeenInv, DirtyIsCurrent, ax
    <2>6. ValueSeen'
      <3> SUFFICES ASSUME NEW a \in LeafAddr, a \notin Spoiled
                   PROVE  LET s == page_table'[a] IN
                          IF s \in Slot
                          THEN val[s] = last[a] /\ (~dirty'[s] => backend'[a].val = last[a])
                          ELSE backend'[a].val = last[a]
        BY <1>0, <1>6 DEF ValueSeen
      <3>1. a \in Addr
        BY DEF LeafAddr
      <3>2. CASE page_table[a] = x
        <4>1. ax = a
          BY <1>3, <3>1, <3>2 DEF AdmInv, Agreement, EntryAgrees, ax
        <4>2. val[x] = last[a] /\ (~dirty[x] => backend[a].val = last[a])
          BY <1>3, <1>16, <3>2 DEF SeenInv, ValueSeen
        <4>3. backend'[a].val = last[a]
          BY <1>11, <4>1, <4>2
        <4> QED BY <1>3, <1>8, <3>1, <3>2, <4>2, <4>3
      <3>3. CASE page_table[a] # x
        <4>1. backend'[a] = backend[a]
          BY <1>11, <2>4, <3>3
        <4>2. CASE full /\ page_table[a] = e
          <5>1. backend[a].val = last[a] /\ page_table'[a] = NoSlot
            BY <1>3, <1>8, <1>16, <3>1, <4>2, CoolIsClean
          <5> QED BY <1>1, <4>1, <5>1
        <4>3. CASE ~(full /\ page_table[a] = e)
          <5>1. page_table'[a] = page_table[a]
            BY <1>8, <3>1, <4>3
          <5> QED BY <1>9, <1>16, <3>3, <4>1, <5>1 DEF SeenInv, ValueSeen
        <4> QED BY <4>2, <4>3
      <3> QED BY <3>2, <3>3
    <2> QED BY <2>1, <2>6 DEF SeenInv
  <1> QED BY <1>2, <1>12, <1>13, <1>14, <1>15, <1>16, AdmFromParts

-----------------------------------------------------------------------------
(* Filling a slot *)

\* The slot that is being filled is no child of the parent, and nothing names it.
LEMMA InFlightUnnamed ==
  ASSUME AdmInv, phase = "admit"
  PROVE  /\ page \in Slot /\ page # NoSlot /\ ~has_parent[page] /\ ~InTable(page)
         /\ pos_state[page] # 2
         /\ \A a \in Addr : page_table[a] # page
         /\ \A a \in LeafAddr : ref[a] # page
  <1>1. OwnInv /\ NoSlot \notin Slot
    BY AdmParts
  <1>2. page \in Slot /\ page # NoSlot /\ ~InTable(page) /\ pos_state[page] # 2
    BY <1>1 DEF OwnInv, OwnTypes, SlotOwnership, InFlightUnowned, InUse
  <1>3. \A a \in Addr : page_table[a] # page
    BY <1>2 DEF AdmInv, Agreement, EntryAgrees
  <1>4. \A a \in LeafAddr : ref[a] # page
    BY <1>2, <1>3 DEF AdmInv, Agreement, ChildIndexed, LeafAddr
  <1>5. ~has_parent[page]
    BY <1>2, <1>4 DEF AdmInv, Agreement, ParentRight
  <1> QED BY <1>2, <1>3, <1>4, <1>5

\* The page that was read becomes the parent's hot child.
LEMMA LoadAdm ==
  ASSUME AdmInv, Load
  PROVE  AdmInv' /\ (SeenInv => SeenInv')
  <1> DEFINE a == job.a
             p == page
             d == backend[a].dirty
             v == backend[a].val
  <1>0. Spoiled' = Spoiled
    BY DEF Load, Spoiled, lossVars
  <1>1. OwnInv /\ IO_FLAG \notin Slot /\ IO_FLAG # NoSlot /\ NoSlot \notin Slot
    BY AdmParts
  <1>2. /\ at = "load" /\ phase = "admit" /\ CacheInsert(a, d) /\ at' = "idle" /\ job' = NoJob
        /\ val' = [val EXCEPT ![p] = v] /\ ref' = [ref EXCEPT ![a] = p]
        /\ has_parent' = [has_parent EXCEPT ![p] = TRUE]
        /\ page_table' = [page_table EXCEPT ![a] = p]
        /\ phase' = "idle" /\ prev_state' = 0 /\ pin = NoSlot
        /\ UNCHANGED <<backend, last, table_>>
    BY DEF Load, CacheInsert, Upsert, AdmInv, JobTyped
  <1>3. a \in LeafAddr /\ a \in Addr
    BY <1>2 DEF AdmInv, JobTyped, LeafAddr
  <1>4. /\ page_table \in [Addr -> Slot \union {NoSlot, IO_FLAG}] /\ last \in [LeafAddr -> Val]
        /\ backend \in [LeafAddr -> [val : Val, dirty : BOOLEAN]] /\ has_parent \in [Slot -> BOOLEAN]
        /\ val \in [Slot -> Val \union {NoSlot}] /\ ref \in [LeafAddr -> Slot \union {NoSlot}]
        /\ table_ \in [Bucket -> Seq(Slot)]
    BY DEF AdmInv, AdmTypes, AdmissionTypeOK, OwnTypes
  <1>5. v \in Val /\ d \in BOOLEAN
    BY <1>3, <1>4
  <1>6. OwnInv' /\ page' = NoSlot /\ pin' = NoSlot
    BY <1>1, <1>2, <1>3, <1>5, CacheInsertOwn
  <1>7. \A s \in Slot : /\ pos_state'[s] = IF s = p \/ s = pin THEN 2 ELSE pos_state[s]
                        /\ remote_address'[s] = IF s = p THEN a ELSE remote_address[s]
                        /\ dirty'[s] = IF s = p THEN d ELSE dirty[s]
    BY <1>1, <1>2, <1>3, <1>5, CacheInsertOwn
  <1>8. /\ p \in Slot /\ p # NoSlot /\ ~has_parent[p] /\ ~InTable(p) /\ pos_state[p] # 2
        /\ \A b \in Addr : page_table[b] # p
        /\ \A b \in LeafAddr : ref[b] # p
    BY <1>2, InFlightUnnamed
  <1>9. page_table[a] = IO_FLAG /\ ref[a] = NoSlot
    <2>1. page_table[a] = IO_FLAG
      BY <1>2, <1>3 DEF AdmInv, FlagWhileLoading
    <2> QED BY <1>1, <1>3, <1>4, <2>1 DEF AdmInv, Agreement, ChildIndexed
  <1>d. d = backend[a].dirty /\ v = backend[a].val /\ a = job.a /\ p = page
    OBVIOUS
  <1> HIDE DEF a, p, d, v
  <1>10. /\ \A b \in Addr : page_table'[b] = IF b = a THEN p ELSE page_table[b]
         /\ \A b \in LeafAddr : ref'[b] = IF b = a THEN p ELSE ref[b]
         /\ \A s \in Slot : val'[s] = IF s = p THEN v ELSE val[s]
    BY <1>2, <1>3, <1>4, <1>8
  <1>11. \A s \in Slot : has_parent'[s] <=> s = p \/ has_parent[s]
    BY <1>2, <1>4, <1>8
  <1>12. AdmissionTypeOK' /\ last' \in [LeafAddr -> Val] /\ JobTyped'
    <2>1. /\ page_table' \in [Addr -> Slot \union {NoSlot, IO_FLAG}] /\ has_parent' \in [Slot -> BOOLEAN]
          /\ val' \in [Slot -> Val \union {NoSlot}] /\ ref' \in [LeafAddr -> Slot \union {NoSlot}]
      BY <1>2, <1>4, <1>5, <1>8
    <2>2. JobTyped'
      BY <1>2, <1>6 DEF JobTyped
    <2> QED BY <1>2, <1>4, <1>6, <2>1, <2>2 DEF AdmissionTypeOK, OwnInv, OwnTypes
  <1>13. FlagWhileLoading'
    BY <1>1, <1>2, <1>8, <1>10, <1>d DEF AdmInv, FlagWhileLoading
  <1>14. CoolInItsBucket'
    <2>1. \A b \in Bucket : \A i \in 1 .. Len(table_[b]) : table_[b][i] \in Slot /\ table_[b][i] # p
      BY <1>4, <1>8, ElementOfSeq DEF InTable
    <2> QED BY <1>2, <1>7, <2>1 DEF AdmInv, CoolInItsBucket
  <1>15. Agreement'
    <2>1. EntryAgrees'
      <3> SUFFICES ASSUME NEW b \in Addr, page_table'[b] \in Slot
                   PROVE  LET s == page_table'[b] IN
                          /\ b \in LeafAddr /\ s # NoSlot /\ remote_address'[s] = b
                          /\ \/ pos_state'[s] = 2 /\ ref'[b] = s
                             \/ pos_state'[s] = 1 /\ ref'[b] = NoSlot
        BY <1>6 DEF EntryAgrees
      <3>1. CASE b = a
        BY <1>3, <1>7, <1>8, <1>10, <3>1
      <3>2. CASE b # a
        <4>1. page_table'[b] = page_table[b] /\ page_table[b] # p
          BY <1>8, <1>10, <3>2
        <4>2. /\ b \in LeafAddr /\ remote_address[page_table[b]] = b
              /\ \/ pos_state[page_table[b]] = 2 /\ ref[b] = page_table[b]
                 \/ pos_state[page_table[b]] = 1 /\ ref[b] = NoSlot
          BY <4>1 DEF AdmInv, Agreement, EntryAgrees
        <4> QED BY <1>1, <1>2, <1>7, <1>10, <3>2, <4>1, <4>2
      <3> QED BY <3>1, <3>2
    <2>2. ChildIndexed'
      <3> SUFFICES ASSUME NEW b \in LeafAddr, ref'[b] # NoSlot
                   PROVE  page_table'[b] = ref'[b] /\ has_parent'[ref'[b]]
        BY DEF ChildIndexed
      <3>1. b = a \/ (ref'[b] = ref[b] /\ ref[b] \in Slot /\ page_table[b] = ref[b] /\ has_parent[ref[b]])
        BY <1>4, <1>10 DEF AdmInv, Agreement, ChildIndexed
      <3> QED BY <1>3, <1>8, <1>10, <1>11, <3>1 DEF LeafAddr
    <2>3. ParentRight'
      BY <1>3, <1>7, <1>8, <1>9, <1>10, <1>11, <1>1 DEF AdmInv, Agreement, ParentRight
    <2> QED BY <2>1, <2>2, <2>3 DEF Agreement
  <1>16. DirtyIsLeaf'
    BY <1>3, <1>5, <1>7, <1>10 DEF AdmInv, DirtyIsLeaf
  <1>17. ASSUME SeenInv PROVE SeenInv'
    <2>2. DirtyIsCurrent'
      <3> SUFFICES ASSUME NEW s \in Slot, dirty'[s], remote_address'[s] \notin Spoiled
                   PROVE  \/ pos_state'[s] = 2 /\ page_table'[remote_address'[s]] = s
                          \/ pos_state'[s] = 3
        BY <1>0 DEF DirtyIsCurrent
      <3>1. CASE s = p
        BY <1>3, <1>7, <1>10, <3>1
      <3>2. CASE s # p
        <4>1. dirty[s] /\ remote_address'[s] = remote_address[s] /\ remote_address[s] \in Addr
          BY <1>7, <3>2 DEF AdmInv, AdmTypes, OwnTypes
        <4>2. (pos_state[s] = 2 /\ page_table[remote_address[s]] = s) \/ pos_state[s] = 3
          BY <1>17, <4>1 DEF SeenInv, DirtyIsCurrent
        <4>3. pos_state'[s] = pos_state[s]
          BY <1>1, <1>2, <1>7, <3>2
        <4> QED BY <1>1, <1>9, <1>10, <4>1, <4>2, <4>3
      <3> QED BY <3>1, <3>2
    <2>3. ValueSeen'
      <3> SUFFICES ASSUME NEW b \in LeafAddr, b \notin Spoiled
                   PROVE  LET x == page_table'[b] IN
                          IF x \in Slot
                          THEN val'[x] = last[b] /\ (~dirty'[x] => backend[b].val = last[b])
                          ELSE backend[b].val = last[b]
        BY <1>0, <1>2 DEF ValueSeen
      <3>0. b \in Addr
        BY DEF LeafAddr
      <3>1. CASE b = a
        <4>1. v = last[a]
          BY <1>1, <1>3, <1>9, <1>17, <1>d, <3>1 DEF SeenInv, ValueSeen
        <4> QED BY <1>8, <1>10, <1>d, <3>0, <3>1, <4>1
      <3>2. CASE b # a
        <4>1. page_table'[b] = page_table[b] /\ page_table[b] # p
          BY <1>8, <1>10, <3>0, <3>2
        <4> QED BY <1>7, <1>10, <1>17, <4>1 DEF SeenInv, ValueSeen
      <3> QED BY <3>1, <3>2
    <2> QED BY <2>2, <2>3 DEF SeenInv
  <1> QED BY <1>6, <1>12, <1>13, <1>14, <1>15, <1>16, <1>17, AdmFromParts

\* insert_local_set on the slot in flight: the free list owns it now.
LEMMA ToFreeListOwn ==
  ASSUME OwnInv, phase = "admit", pin = NoSlot, NEW a, ToFreeList(a),
         UNCHANGED <<state, unallocated, table_, to_sample, pin, prev_state>>,
         remote_address' \in [Slot -> Addr], dirty' \in [Slot -> BOOLEAN]
  PROVE  /\ OwnInv' /\ page' = NoSlot /\ phase' = "idle"
         /\ \A s \in Slot : pos_state'[s] = IF s = page THEN 3 ELSE pos_state[s]
  <1> USE SlotAssumption DEF OwnInv
  <1>1. /\ page \in Slot /\ page' = NoSlot /\ phase' = "idle"
        /\ page \notin unallocated /\ ~InTable(page) /\ ~InFreeList(page)
    BY DEF ToFreeList, OwnTypes, SlotOwnership, InFlightUnowned
  <1>2. \A s \in Slot : pos_state'[s] = IF s = page THEN 3 ELSE pos_state[s]
    BY <1>1 DEF ToFreeList, OwnTypes
  <1>3. /\ Len(local_page_set) \in Nat /\ Len(local_page_set') = Len(local_page_set) + 1
        /\ local_page_set'[Len(local_page_set) + 1] = page
        /\ \A i \in 1 .. Len(local_page_set) : local_page_set'[i] = local_page_set[i]
        /\ local_page_set' \in Seq(Slot)
    BY <1>1 DEF ToFreeList, OwnTypes
  <1>4. OwnTypes'
    <2>1. pos_state' \in [Slot -> 0 .. 4]
      BY <1>1 DEF ToFreeList, OwnTypes
    <2> QED BY <1>1, <1>3, <2>1 DEF OwnTypes
  <1>5. \A s \in Slot : InFreeList(s)' <=> InFreeList(s) \/ s = page
    BY <1>3 DEF InFreeList
  <1>6. FreeListInjective'
    BY <1>1, <1>3 DEF SlotOwnership, FreeListInjective, InFreeList
  <1>7. TableInjective' /\ WarmUpEnds' /\ InFlightUnowned'
    BY <1>1 DEF SlotOwnership, TableInjective, WarmUpEnds, InFlightUnowned
  <1>8. \A s \in Slot : InTable(s)' <=> InTable(s)
    BY DEF InTable
  <1>9. OwnerTagged'
    BY <1>1, <1>2, <1>5, <1>8 DEF SlotOwnership, OwnerTagged
  <1> QED BY <1>1, <1>2, <1>4, <1>6, <1>7, <1>9 DEF SlotOwnership

\* A slot that goes to the free list, with or without an image copied into it, is
\* named by nothing; the flag of a load that failed is gone.
LEMMA SpareAdm ==
  ASSUME AdmInv, phase = "admit", NEW a \in LeafAddr, ToFreeList(a), at \in {"load", "replace"},
         UNCHANGED <<state, unallocated, table_, to_sample, pin, prev_state, ref, has_parent, backend, last,
                     lossVars>>,
         \/ UNCHANGED <<remote_address, dirty, val>>
         \/ /\ remote_address' = [remote_address EXCEPT ![page] = a]
            /\ dirty' = [dirty EXCEPT ![page] = backend[a].dirty]
            /\ val' = [val EXCEPT ![page] = backend[a].val],
         \/ at = "replace" /\ UNCHANGED <<page_table, at, job>>
         \/ /\ at = "load" /\ a = job.a /\ at' = "idle" /\ job' = NoJob
            /\ page_table' = [page_table EXCEPT ![a] = NoSlot]
  PROVE  AdmInv' /\ (SeenInv => SeenInv')
  <1> DEFINE p == page
             d == backend[a].dirty
  <1>0. Spoiled' = Spoiled
    BY DEF Spoiled, lossVars
  <1>1. OwnInv /\ IO_FLAG \notin Slot /\ IO_FLAG # NoSlot /\ NoSlot \notin Slot
    BY AdmParts
  <1>2. /\ page_table \in [Addr -> Slot \union {NoSlot, IO_FLAG}] /\ dirty \in [Slot -> BOOLEAN]
        /\ backend \in [LeafAddr -> [val : Val, dirty : BOOLEAN]]
        /\ val \in [Slot -> Val \union {NoSlot}] /\ remote_address \in [Slot -> Addr]
        /\ table_ \in [Bucket -> Seq(Slot)] /\ a \in Addr
        /\ ref \in [LeafAddr -> Slot \union {NoSlot}]
    BY DEF AdmInv, AdmTypes, AdmissionTypeOK, OwnTypes, LeafAddr
  <1>3. /\ p \in Slot /\ p # NoSlot /\ ~has_parent[p] /\ ~InTable(p)
        /\ \A b \in Addr : page_table[b] # p
        /\ \A b \in LeafAddr : ref[b] # p
    BY InFlightUnnamed
  <1>4. backend[a].val \in Val /\ d \in BOOLEAN
    BY <1>2
  <1>5. /\ remote_address' \in [Slot -> Addr] /\ dirty' \in [Slot -> BOOLEAN]
        /\ val' \in [Slot -> Val \union {NoSlot}]
    <2>1. CASE UNCHANGED <<remote_address, dirty, val>>
      BY <1>2, <2>1
    <2>2. CASE /\ remote_address' = [remote_address EXCEPT ![page] = a]
               /\ dirty' = [dirty EXCEPT ![page] = backend[a].dirty]
               /\ val' = [val EXCEPT ![page] = backend[a].val]
      <3>1. remote_address' \in [Slot -> Addr]
        BY <1>2, <2>2
      <3>2. dirty' \in [Slot -> BOOLEAN]
        BY <1>2, <1>4, <2>2
      <3>3. val' \in [Slot -> Val \union {NoSlot}]
        BY <1>2, <1>4, <2>2
      <3> QED BY <3>1, <3>2, <3>3
    <2> QED BY <2>1, <2>2
  <1>6. \A s \in Slot : s # p => /\ remote_address'[s] = remote_address[s]
                                 /\ dirty'[s] = dirty[s] /\ val'[s] = val[s]
    BY <1>2
  <1>7. dirty'[p] => (remote_address'[p] = remote_address[p] /\ dirty[p] /\ val'[p] = val[p])
                     \/ (remote_address'[p] = a /\ d /\ val'[p] = backend[a].val)
    BY <1>2, <1>3
  <1>8. OwnInv' /\ page' = NoSlot /\ phase' = "idle"
        /\ \A s \in Slot : pos_state'[s] = IF s = p THEN 3 ELSE pos_state[s]
    BY <1>1, <1>5, ToFreeListOwn DEF AdmInv, JobTyped
  <1>9. at = "load" => page_table[a] = IO_FLAG /\ ref[a] = NoSlot
    <2>1. at = "load" => page_table[a] = IO_FLAG
      BY <1>2 DEF AdmInv, FlagWhileLoading
    <2> QED BY <1>1, <1>2, <2>1 DEF AdmInv, Agreement, ChildIndexed
  <1>d. d = backend[a].dirty /\ p = page
    OBVIOUS
  <1> HIDE DEF p, d
  <1>10. /\ page_table' \in [Addr -> Slot \union {NoSlot, IO_FLAG}]
         /\ \A b \in Addr : page_table'[b] = IF at = "load" /\ b = a THEN NoSlot ELSE page_table[b]
    BY <1>2
  <1>11. AdmissionTypeOK' /\ last' \in [LeafAddr -> Val]
    BY <1>5, <1>8, <1>10 DEF AdmInv, AdmTypes, AdmissionTypeOK, OwnInv, OwnTypes
  <1>12. JobTyped'
    BY <1>8 DEF AdmInv, JobTyped
  <1>13. FlagWhileLoading'
    BY <1>1, <1>10 DEF AdmInv, FlagWhileLoading
  <1>14. CoolInItsBucket'
    <2>1. \A b \in Bucket : \A i \in 1 .. Len(table_[b]) : table_[b][i] \in Slot /\ table_[b][i] # p
      BY <1>2, <1>3, ElementOfSeq DEF InTable
    <2> QED BY <1>6, <2>1 DEF AdmInv, CoolInItsBucket
  <1>15. \A b \in Addr : page_table'[b] \in Slot => page_table'[b] = page_table[b] /\ page_table[b] # p
    BY <1>1, <1>3, <1>10
  <1>16. Agreement'
    <2>1. EntryAgrees'
      <3> SUFFICES ASSUME NEW b \in Addr, page_table'[b] \in Slot
                   PROVE  LET s == page_table'[b] IN
                          /\ b \in LeafAddr /\ s # NoSlot /\ remote_address'[s] = b
                          /\ \/ pos_state'[s] = 2 /\ ref[b] = s
                             \/ pos_state'[s] = 1 /\ ref[b] = NoSlot
        BY <1>8 DEF EntryAgrees
      <3>1. /\ b \in LeafAddr /\ remote_address[page_table[b]] = b
            /\ \/ pos_state[page_table[b]] = 2 /\ ref[b] = page_table[b]
               \/ pos_state[page_table[b]] = 1 /\ ref[b] = NoSlot
        BY <1>15 DEF AdmInv, Agreement, EntryAgrees
      <3> QED BY <1>1, <1>6, <1>8, <1>15, <3>1
    <2>2. ChildIndexed'
      BY <1>9, <1>10 DEF AdmInv, Agreement, ChildIndexed, LeafAddr
    <2>3. ParentRight'
      BY <1>3, <1>6 DEF AdmInv, Agreement, ParentRight
    <2> QED BY <2>1, <2>2, <2>3 DEF Agreement
  <1>17. DirtyIsLeaf'
    <2> SUFFICES ASSUME NEW s \in Slot, dirty'[s]
                 PROVE  remote_address'[s] \in LeafAddr /\ val'[s] \in Val
      BY DEF DirtyIsLeaf
    <2>1. CASE s = p
      BY <1>4, <1>7, <2>1 DEF AdmInv, DirtyIsLeaf
    <2>2. CASE s # p
      BY <1>6, <2>2 DEF AdmInv, DirtyIsLeaf
    <2> QED BY <2>1, <2>2
  <1>18. ASSUME SeenInv PROVE SeenInv'
    <2>5. DirtyIsCurrent'
      <3> SUFFICES ASSUME NEW s \in Slot, dirty'[s], remote_address'[s] \notin Spoiled, s # p
                   PROVE  \/ pos_state'[s] = 2 /\ page_table'[remote_address'[s]] = s
                          \/ pos_state'[s] = 3
        BY <1>0, <1>8 DEF DirtyIsCurrent
      <3>1. dirty[s] /\ remote_address'[s] = remote_address[s] /\ remote_address[s] \in Addr
        BY <1>2, <1>6
      <3>2. (pos_state[s] = 2 /\ page_table[remote_address[s]] = s) \/ pos_state[s] = 3
        BY <1>18, <3>1 DEF SeenInv, DirtyIsCurrent
      <3> QED BY <1>1, <1>8, <1>9, <1>10, <3>1, <3>2
    <2>6. ValueSeen'
      <3> SUFFICES ASSUME NEW b \in LeafAddr, b \notin Spoiled
                   PROVE  LET x == page_table'[b] IN
                          IF x \in Slot
                          THEN val'[x] = last[b] /\ (~dirty'[x] => backend[b].val = last[b])
                          ELSE backend[b].val = last[b]
        BY <1>0 DEF ValueSeen
      <3>0. b \in Addr
        BY DEF LeafAddr
      <3>1. CASE at = "load" /\ b = a
        <4>1. backend[b].val = last[b] /\ page_table'[b] = NoSlot
          BY <1>1, <1>9, <1>10, <1>18, <3>0, <3>1 DEF SeenInv, ValueSeen
        <4> QED BY <1>1, <4>1
      <3>2. CASE ~(at = "load" /\ b = a)
        <4>1. page_table'[b] = page_table[b] /\ page_table[b] # p
          BY <1>3, <1>10, <3>0, <3>2
        <4> QED BY <1>6, <1>18, <4>1 DEF SeenInv, ValueSeen
      <3> QED BY <3>1, <3>2
    <2> QED BY <2>5, <2>6 DEF SeenInv
  <1> QED BY <1>8, <1>11, <1>12, <1>13, <1>14, <1>16, <1>17, <1>18, AdmFromParts

LEMMA LoadRefusedAdm ==
  ASSUME AdmInv, LoadRefused
  PROVE  AdmInv' /\ (SeenInv => SeenInv')
  <1>1. job.a \in LeafAddr
    BY DEF LoadRefused, AdmInv, JobTyped
  <1> QED BY <1>1, SpareAdm DEF LoadRefused, FlagRemoved

LEMMA FillEndAdm ==
  ASSUME AdmInv, FillEnd
  PROVE  AdmInv' /\ (SeenInv => SeenInv')
  <1>1. job.a \in LeafAddr
    BY DEF FillEnd, AdmInv, JobTyped
  <1> QED BY <1>1, SpareAdm DEF FillEnd, admVars, leafVars

-----------------------------------------------------------------------------
(* Promotion *)

\* In a bucket that holds no slot twice match_value finds the frame of a slot.
LEMMA MatchFacts ==
  ASSUME NEW q \in Seq(Slot), \A i, j \in 1 .. Len(q) : q[i] = q[j] => i = j, NEW x
  PROVE  /\ \A i \in 1 .. Len(q) : q[i] = x => match_value(q, x) = i
         /\ match_value(q, x) # 0 => match_value(q, x) \in 1 .. Len(q) /\ q[match_value(q, x)] = x
  <1> DEFINE I == {i \in 1 .. Len(q) : q[i] = x}
  <1>1. match_value(q, x) = IF I = {} THEN 0 ELSE CHOOSE i \in I : \A j \in I : i <= j
    BY DEF match_value
  <1>2. ASSUME NEW k \in I PROVE match_value(q, x) = k
    <2>1. \A j \in I : j = k
      BY <1>2
    <2>2. k <= k
      BY <1>2
    <2>3. \A i \in I : (\A j \in I : i <= j) <=> i = k
      BY <1>2, <2>1, <2>2
    <2>4. (CHOOSE i \in I : \A j \in I : i <= j) = k
      BY <1>2, <2>3
    <2> QED BY <1>1, <1>2, <2>4
  <1>3. \A k \in I : match_value(q, x) = k
    BY <1>2
  <1>4. match_value(q, x) # 0 => I # {}
    BY <1>1
  <1> QED BY <1>3, <1>4

\* Bucket::remove closes the gap.
LEMMA RemoveFrameFacts ==
  ASSUME NEW q \in Seq(Slot), NEW k \in 1 .. Len(q)
  PROVE  /\ RemoveFrame(q, k) \in Seq(Slot) /\ Len(RemoveFrame(q, k)) = Len(q) - 1
         /\ \A i \in 1 .. Len(q) - 1 :
              RemoveFrame(q, k)[i] = IF i < k THEN q[i] ELSE q[i + 1]
  <1> DEFINE r == RemoveFrame(q, k)
             n == Len(q) - 1
  <1>1. Len(q) \in Nat /\ n \in Nat /\ \A i \in 1 .. Len(q) : q[i] \in Slot
    BY LenProperties, ElementOfSeq
  <1>2. \A i \in 1 .. n : i \in 1 .. Len(q) /\ i + 1 \in 1 .. Len(q)
    BY <1>1
  <1>3. r = [i \in 1 .. n |-> IF i < k THEN q[i] ELSE q[i + 1]]
    BY DEF RemoveFrame
  <1> HIDE DEF n, r
  <1>4. r \in [1 .. n -> Slot]
    BY <1>1, <1>2, <1>3
  <1>5. r \in Seq(Slot) /\ Len(r) = n
    BY <1>1, <1>4
  <1> QED BY <1>3, <1>5 DEF n, r

\* The promoted slot leaves its bucket for the tree, the frames behind it move up.
LEMMA PromoteOwn ==
  ASSUME OwnInv, phase = "idle", NEW x \in Slot, NEW b \in Bucket,
         match_value(table_[b], x) # 0,
         table_' = [table_ EXCEPT ![b] = RemoveFrame(@, match_value(@, x))],
         pos_state' = [pos_state EXCEPT ![x] = 2],
         UNCHANGED <<state, unallocated, remote_address, dirty, local_page_set, control>>
  PROVE  /\ OwnInv'
         /\ \A s \in Slot : pos_state'[s] = IF s = x THEN 2 ELSE pos_state[s]
         /\ \A c \in Bucket : \A i \in 1 .. Len(table_'[c]) :
              \E j \in 1 .. Len(table_[c]) : table_'[c][i] = table_[c][j]
  <1> USE SlotAssumption, TableAssumption DEF OwnInv
  <1> DEFINE q == table_[b]
             k == match_value(q, x)
             n == Len(q)
             r == RemoveFrame(q, k)
  <1>1. q \in Seq(Slot) /\ n \in Nat /\ n <= NUM_ENTRIES /\ \A i, j \in 1 .. n : q[i] = q[j] => i = j
    BY DEF OwnTypes, SlotOwnership, TableInjective
  <1>2. k \in 1 .. n /\ q[k] = x
    BY <1>1, MatchFacts
  <1>3. /\ r \in Seq(Slot) /\ Len(r) = n - 1
        /\ \A i \in 1 .. n - 1 : r[i] = IF i < k THEN q[i] ELSE q[i + 1]
    BY <1>1, <1>2, RemoveFrameFacts
  <1>4. table_'[b] = r /\ \A c \in Bucket \ {b} : table_'[c] = table_[c]
    BY DEF OwnTypes
  <1>5. table_' \in [Bucket -> Seq(Slot)]
    BY <1>3 DEF OwnTypes
  <1>d. q = table_[b] /\ n = Len(q)
    OBVIOUS
  <1> HIDE DEF q, k, n, r
  <1>6. InTable(x) /\ pos_state[x] = 1 /\ page = NoSlot /\ page' = NoSlot /\ pin' = pin
    <2>1. page = NoSlot /\ page' = page /\ pin' = pin
      BY DEF OwnTypes, control
    <2>2. InTable(x)
      BY <1>2, <1>d DEF InTable
    <2> QED BY <2>1, <2>2 DEF SlotOwnership, OwnerTagged
  <1>7. \A s \in Slot : pos_state'[s] = IF s = x THEN 2 ELSE pos_state[s]
    BY DEF OwnTypes
  \* Where each frame comes from.
  <1>8. \A c \in Bucket : \A i \in 1 .. Len(table_'[c]) :
          LET j == IF c = b /\ i >= k THEN i + 1 ELSE i IN
          j \in 1 .. Len(table_[c]) /\ table_'[c][i] = table_[c][j] /\ ~(c = b /\ j = k)
    <2> SUFFICES ASSUME NEW c \in Bucket, NEW i \in 1 .. Len(table_'[c])
                 PROVE  LET j == IF c = b /\ i >= k THEN i + 1 ELSE i IN
                        j \in 1 .. Len(table_[c]) /\ table_'[c][i] = table_[c][j] /\ ~(c = b /\ j = k)
      OBVIOUS
    <2>1. CASE c = b
      <3>1. i \in 1 .. n - 1 /\ table_'[c][i] = IF i < k THEN q[i] ELSE q[i + 1]
        BY <1>3, <1>4, <2>1
      <3> QED BY <1>1, <1>2, <1>d, <2>1, <3>1
    <2>2. CASE c # b
      BY <1>4, <2>2
    <2> QED BY <2>1, <2>2
  <1>9. \A c \in Bucket : \A j \in 1 .. Len(table_[c]) :
          table_[c][j] = x \/ \E i \in 1 .. Len(table_'[c]) : table_'[c][i] = table_[c][j]
    <2> SUFFICES ASSUME NEW c \in Bucket, NEW j \in 1 .. Len(table_[c]), table_[c][j] # x
                 PROVE  \E i \in 1 .. Len(table_'[c]) : table_'[c][i] = table_[c][j]
      OBVIOUS
    <2>1. CASE c = b
      <3>1. j \in 1 .. n /\ j # k
        BY <1>2, <1>d, <2>1
      <3>2. CASE j < k
        <4>1. j \in 1 .. n - 1 /\ r[j] = q[j]
          BY <1>1, <1>2, <1>3, <3>1, <3>2
        <4> QED BY <1>3, <1>4, <1>d, <2>1, <4>1
      <3>3. CASE j > k
        <4>1. j - 1 \in 1 .. n - 1 /\ ~(j - 1 < k) /\ (j - 1) + 1 = j
          BY <1>1, <1>2, <3>1, <3>3
        <4>2. r[j - 1] = q[j]
          BY <1>3, <4>1
        <4> QED BY <1>3, <1>4, <1>d, <2>1, <4>1, <4>2
      <3> QED BY <1>1, <1>2, <3>1, <3>2, <3>3
    <2>2. CASE c # b
      BY <1>4, <2>2
    <2> QED BY <2>1, <2>2
  <1>10. TableInjective'
    <2> SUFFICES ASSUME NEW c \in Bucket, NEW d \in Bucket,
                        NEW i \in 1 .. Len(table_'[c]), NEW j \in 1 .. Len(table_'[d]),
                        table_'[c][i] = table_'[d][j]
                 PROVE  c = d /\ i = j
      BY DEF TableInjective
    <2> DEFINE f(e, m) == IF e = b /\ m >= k THEN m + 1 ELSE m
    <2>1. f(c, i) \in 1 .. Len(table_[c]) /\ table_'[c][i] = table_[c][f(c, i)]
      BY <1>8
    <2>2. f(d, j) \in 1 .. Len(table_[d]) /\ table_'[d][j] = table_[d][f(d, j)]
      BY <1>8
    <2>3. c = d /\ f(c, i) = f(d, j)
      <3> HIDE DEF f
      <3> QED BY <2>1, <2>2 DEF SlotOwnership, TableInjective
    <2> QED BY <1>2, <2>3
  <1>11. \A s \in Slot : InTable(s)' <=> InTable(s) /\ s # x
    <2>1. \A s \in Slot : InTable(s)' => InTable(s) /\ s # x
      <3> SUFFICES ASSUME NEW c \in Bucket, NEW i \in 1 .. Len(table_'[c])
                   PROVE  InTable(table_'[c][i]) /\ table_'[c][i] # x
        BY DEF InTable
      <3>1. PICK j \in 1 .. Len(table_[c]) : table_'[c][i] = table_[c][j] /\ ~(c = b /\ j = k)
        BY <1>8
      <3>2. table_[c][j] # x
        BY <1>2, <1>d, <3>1 DEF SlotOwnership, TableInjective
      <3> QED BY <3>1, <3>2 DEF InTable
    <2>2. \A s \in Slot : InTable(s) /\ s # x => InTable(s)'
      BY <1>9 DEF InTable
    <2> QED BY <2>1, <2>2
  <1>12. OwnTypes'
    <2>1. \A c \in Bucket : Len(table_'[c]) <= NUM_ENTRIES
      BY <1>1, <1>3, <1>4 DEF OwnTypes
    <2>2. pos_state' \in [Slot -> 0 .. 4]
      BY DEF OwnTypes
    <2> QED BY <1>5, <2>1, <2>2 DEF OwnTypes, control
  <1>13. FreeListInjective' /\ WarmUpEnds' /\ InFlightUnowned'
    BY <1>6 DEF SlotOwnership, FreeListInjective, WarmUpEnds, InFlightUnowned
  <1>14. OwnerTagged'
    <2>1. \A s \in Slot : InFreeList(s)' <=> InFreeList(s)
      BY DEF InFreeList
    <2> QED BY <1>6, <1>7, <1>11, <2>1 DEF SlotOwnership, OwnerTagged
  <1>15. SlotOwnership'
    BY <1>10, <1>13, <1>14 DEF SlotOwnership
  <1> QED BY <1>7, <1>8, <1>12, <1>15

LEMMA PromoteAdm ==
  ASSUME AdmInv, NEW a \in LeafAddr, Promote(a)
  PROVE  AdmInv' /\ (SeenInv => SeenInv')
  <1> DEFINE x == page_table[a]
             b == BucketOf[a]
  <1>1. OwnInv /\ NoSlot \notin Slot /\ b \in Bucket /\ a \in Addr
    BY AdmParts, TableAssumption DEF LeafAddr
  <1>2. /\ phase = "idle" /\ at = "idle" /\ ref[a] = NoSlot /\ x \in Slot /\ pos_state[x] = 1
        /\ match_value(table_[b], x) # 0
        /\ table_' = [table_ EXCEPT ![b] = RemoveFrame(@, match_value(@, x))]
        /\ pos_state' = [pos_state EXCEPT ![x] = 2]
        /\ ref' = [ref EXCEPT ![a] = x] /\ has_parent' = [has_parent EXCEPT ![x] = TRUE]
        /\ UNCHANGED <<state, unallocated, remote_address, dirty, local_page_set, page_table, control>>
        /\ UNCHANGED <<val, backend, at, job, last>>
    BY DEF Promote, Idle
  <1>3. /\ OwnInv'
        /\ \A s \in Slot : pos_state'[s] = IF s = x THEN 2 ELSE pos_state[s]
        /\ \A c \in Bucket : \A i \in 1 .. Len(table_'[c]) :
             \E j \in 1 .. Len(table_[c]) : table_'[c][i] = table_[c][j]
    BY <1>1, <1>2, PromoteOwn
  <1>4. remote_address[x] = a /\ x # page
    BY <1>1, <1>2 DEF AdmInv, Agreement, EntryAgrees
  <1>d. x = page_table[a]
    OBVIOUS
  <1> HIDE DEF x, b
  <1>5. /\ ref \in [LeafAddr -> Slot \union {NoSlot}] /\ has_parent \in [Slot -> BOOLEAN]
    BY DEF AdmInv, AdmTypes, AdmissionTypeOK
  <1>6. /\ \A c \in LeafAddr : ref'[c] = IF c = a THEN x ELSE ref[c]
        /\ \A s \in Slot : has_parent'[s] <=> s = x \/ has_parent[s]
    BY <1>2, <1>5
  <1>7. AdmissionTypeOK' /\ last' \in [LeafAddr -> Val]
    <2>1. ref' \in [LeafAddr -> Slot \union {NoSlot}] /\ has_parent' \in [Slot -> BOOLEAN]
      BY <1>2, <1>5
    <2> QED BY <1>2, <1>3, <2>1 DEF AdmInv, AdmTypes, AdmissionTypeOK, OwnInv, OwnTypes
  <1>8. JobTyped' /\ FlagWhileLoading' /\ DirtyIsLeaf'
    BY <1>2 DEF AdmInv, JobTyped, FlagWhileLoading, DirtyIsLeaf, control
  <1>9. CoolInItsBucket'
    BY <1>2, <1>3 DEF AdmInv, CoolInItsBucket
  <1>10. Agreement'
    <2>1. EntryAgrees'
      <3> SUFFICES ASSUME NEW c \in Addr, page_table[c] \in Slot
                   PROVE  LET s == page_table[c] IN
                          /\ c \in LeafAddr /\ s # page /\ remote_address[s] = c
                          /\ \/ pos_state'[s] = 2 /\ ref'[c] = s
                             \/ pos_state'[s] = 1 /\ ref'[c] = NoSlot
        BY <1>2 DEF EntryAgrees, control
      <3>1. LET s == page_table[c] IN
            /\ c \in LeafAddr /\ s # page /\ remote_address[s] = c
            /\ (pos_state[s] = 2 /\ ref[c] = s) \/ (pos_state[s] = 1 /\ ref[c] = NoSlot)
        BY DEF AdmInv, Agreement, EntryAgrees
      <3> QED BY <1>2, <1>3, <1>4, <1>6, <1>d, <3>1
    <2>2. ChildIndexed'
      <3> SUFFICES ASSUME NEW c \in LeafAddr, ref'[c] # NoSlot
                   PROVE  page_table[c] = ref'[c] /\ has_parent'[ref'[c]]
        BY <1>2 DEF ChildIndexed
      <3>1. c = a \/ (ref'[c] = ref[c] /\ ref[c] \in Slot /\ page_table[c] = ref[c] /\ has_parent[ref[c]])
        BY <1>5, <1>6 DEF AdmInv, Agreement, ChildIndexed
      <3> QED BY <1>2, <1>6, <1>d, <3>1
    <2>3. ParentRight'
      BY <1>1, <1>2, <1>4, <1>6 DEF AdmInv, Agreement, ParentRight
    <2> QED BY <2>1, <2>2, <2>3 DEF Agreement
  <1>11. ASSUME SeenInv PROVE SeenInv'
    <2>1. Spoiled' = Spoiled
      BY DEF Promote, Spoiled, lossVars
    <2> QED BY <1>2, <1>3, <1>11, <2>1 DEF SeenInv, DirtyIsCurrent, ValueSeen
  <1> QED BY <1>3, <1>7, <1>8, <1>9, <1>10, <1>11, AdmFromParts

-----------------------------------------------------------------------------
(* Replacement *)

\* The last free slot becomes a page in use without being in flight.
LEMMA TakeFreeOwn ==
  ASSUME OwnInv, phase = "idle", local_page_set # <<>>,
         local_page_set' = WithoutOldest(local_page_set),
         pos_state' = [pos_state EXCEPT ![Oldest(local_page_set)] = 2],
         UNCHANGED <<state, unallocated, table_, control>>,
         remote_address' \in [Slot -> Addr], dirty' \in [Slot -> BOOLEAN]
  PROVE  LET t == Oldest(local_page_set) IN
         /\ OwnInv' /\ t \in Slot /\ pos_state[t] = 3 /\ ~InTable(t) /\ page = NoSlot
         /\ \A s \in Slot : pos_state'[s] = IF s = t THEN 2 ELSE pos_state[s]
  <1> USE SlotAssumption DEF OwnInv
  <1> DEFINE n == Len(local_page_set)
             t == Oldest(local_page_set)
  <1>1. /\ n \in Nat \ {0} /\ t \in Slot /\ t = local_page_set[n]
        /\ local_page_set' \in Seq(Slot) /\ Len(local_page_set') = n - 1
        /\ \A i \in 1 .. n - 1 : local_page_set'[i] = local_page_set[i]
    BY WithoutOldestFacts DEF OwnTypes, Oldest
  <1>2. page = NoSlot /\ page' = NoSlot /\ pin' = pin
    BY DEF OwnTypes, control
  <1>3. InFreeList(t)
    BY <1>1 DEF InFreeList
  <1>4. pos_state[t] = 3 /\ ~InTable(t) /\ t \notin unallocated /\ t # pin
    BY <1>1, <1>2, <1>3 DEF SlotOwnership, OwnerTagged
  <1>5. FreeListInjective' /\ \A s \in Slot : InFreeList(s)' <=> InFreeList(s) /\ s # t
    BY <1>1 DEF SlotOwnership, FreeListInjective, InFreeList
  <1>d. t = Oldest(local_page_set)
    OBVIOUS
  <1> HIDE DEF t
  <1>6. \A s \in Slot : pos_state'[s] = IF s = t THEN 2 ELSE pos_state[s]
    BY <1>1, <1>d DEF OwnTypes
  <1>7. OwnTypes'
    <2>1. pos_state' \in [Slot -> 0 .. 4]
      BY <1>1, <1>d DEF OwnTypes
    <2> QED BY <1>1, <2>1 DEF OwnTypes, control
  <1>8. TableInjective' /\ WarmUpEnds' /\ InFlightUnowned'
    BY <1>2 DEF SlotOwnership, TableInjective, WarmUpEnds, InFlightUnowned
  <1>9. \A s \in Slot : InTable(s)' <=> InTable(s)
    BY DEF InTable
  <1>10. OwnerTagged'
    BY <1>2, <1>4, <1>5, <1>6, <1>9 DEF SlotOwnership, OwnerTagged
  <1> QED BY <1>1, <1>2, <1>4, <1>5, <1>6, <1>7, <1>8, <1>10, <1>d DEF SlotOwnership

\* The new copy takes the old one's place in the parent and in the page table; the old
\* one stays behind hot and without a parent; if it was dirty the leaf is spoiled.
LEMMA ReplaceChildAdm ==
  ASSUME AdmInv, ReplaceChild
  PROVE  AdmInv' /\ (SeenInv => SeenInv')
  <1> DEFINE a == job.a
             x == job.slot
             t == Oldest(local_page_set)
             d == backend[a].dirty
             v == backend[a].val
  <1>1. OwnInv /\ IO_FLAG \notin Slot /\ IO_FLAG # NoSlot /\ NoSlot \notin Slot
    BY AdmParts
  <1>2. /\ at = "replace" /\ phase = "idle" /\ local_page_set # <<>> /\ ref[a] = x
        /\ at' = "idle" /\ job' = NoJob
        /\ local_page_set' = WithoutOldest(local_page_set)
        /\ pos_state' = [pos_state EXCEPT ![t] = 2]
        /\ UNCHANGED <<state, unallocated, table_, control>>
        /\ UNCHANGED <<backend, last>>
    BY DEF ReplaceChild
  <1>3. /\ remote_address' = [remote_address EXCEPT ![t] = a]
        /\ dirty' = [dirty EXCEPT ![t] = d]
        /\ page_table' = [page_table EXCEPT ![a] = t]
        /\ val' = [val EXCEPT ![t] = v]
        /\ ref' = [ref EXCEPT ![a] = t]
        /\ has_parent' = [has_parent EXCEPT ![t] = TRUE, ![x] = FALSE]
    BY DEF ReplaceChild
  <1>4. a \in LeafAddr /\ a \in Addr /\ x \in Slot
    BY <1>2 DEF AdmInv, JobTyped, LeafAddr
  <1>5. /\ page_table \in [Addr -> Slot \union {NoSlot, IO_FLAG}] /\ dirty \in [Slot -> BOOLEAN]
        /\ backend \in [LeafAddr -> [val : Val, dirty : BOOLEAN]] /\ has_parent \in [Slot -> BOOLEAN]
        /\ val \in [Slot -> Val \union {NoSlot}] /\ ref \in [LeafAddr -> Slot \union {NoSlot}]
        /\ remote_address \in [Slot -> Addr] /\ table_ \in [Bucket -> Seq(Slot)]
        /\ last \in [LeafAddr -> Val]
    BY DEF AdmInv, AdmTypes, AdmissionTypeOK, OwnTypes
  <1>6. v \in Val /\ d \in BOOLEAN
    BY <1>4, <1>5
  <1>7. t \in Slot
    BY <1>2, WithoutOldestFacts DEF AdmInv, AdmTypes, OwnTypes
  <1>d. d = backend[a].dirty /\ v = backend[a].val /\ a = job.a /\ x = job.slot /\ t = Oldest(local_page_set)
    OBVIOUS
  <1> HIDE DEF a, x, t, d, v
  <1>8. remote_address' \in [Slot -> Addr] /\ dirty' \in [Slot -> BOOLEAN]
    BY <1>3, <1>4, <1>5, <1>6
  <1>9. /\ OwnInv' /\ pos_state[t] = 3 /\ ~InTable(t) /\ page = NoSlot
        /\ \A s \in Slot : pos_state'[s] = IF s = t THEN 2 ELSE pos_state[s]
    BY <1>1, <1>2, <1>8, <1>d, TakeFreeOwn
  <1>10. page_table[a] = x /\ pos_state[x] = 2 /\ remote_address[x] = a /\ t # x
    BY <1>1, <1>2, <1>4, <1>9 DEF AdmInv, Agreement, EntryAgrees, ChildIndexed
  <1>11. /\ \A b \in Addr : page_table[b] # t
         /\ \A b \in LeafAddr : ref[b] # t
         /\ ~has_parent[t]
    <2>1. \A b \in Addr : page_table[b] # t
      BY <1>7, <1>9 DEF AdmInv, Agreement, EntryAgrees
    <2>2. \A b \in LeafAddr : ref[b] # t
      BY <1>1, <1>7, <2>1 DEF AdmInv, Agreement, ChildIndexed, LeafAddr
    <2>3. ~has_parent[t]
      BY <1>7, <2>2 DEF AdmInv, Agreement, ParentRight
    <2> QED BY <2>1, <2>2, <2>3
  <1>12. /\ \A b \in Addr : page_table'[b] = IF b = a THEN t ELSE page_table[b]
         /\ \A b \in LeafAddr : ref'[b] = IF b = a THEN t ELSE ref[b]
         /\ \A s \in Slot : /\ remote_address'[s] = IF s = t THEN a ELSE remote_address[s]
                            /\ dirty'[s] = IF s = t THEN d ELSE dirty[s]
                            /\ val'[s] = IF s = t THEN v ELSE val[s]
    BY <1>3, <1>4, <1>5
  <1>13. \A s \in Slot : has_parent'[s] <=> s = t \/ (has_parent[s] /\ s # x)
    BY <1>3, <1>4, <1>5, <1>7, <1>10
  <1>14. AdmissionTypeOK' /\ last' \in [LeafAddr -> Val] /\ JobTyped'
    <2>1. /\ page_table' \in [Addr -> Slot \union {NoSlot, IO_FLAG}] /\ has_parent' \in [Slot -> BOOLEAN]
          /\ val' \in [Slot -> Val \union {NoSlot}] /\ ref' \in [LeafAddr -> Slot \union {NoSlot}]
      BY <1>3, <1>5, <1>6, <1>7
    <2>2. JobTyped'
      BY <1>2 DEF JobTyped, AdmInv, control
    <2> QED BY <1>2, <1>5, <1>9, <2>1, <2>2 DEF AdmissionTypeOK, OwnInv, OwnTypes
  <1>15. FlagWhileLoading'
    BY <1>1, <1>2, <1>7, <1>12 DEF AdmInv, FlagWhileLoading
  <1>16. CoolInItsBucket'
    <2>1. \A b \in Bucket : \A i \in 1 .. Len(table_[b]) : table_[b][i] \in Slot /\ table_[b][i] # t
      BY <1>5, <1>9, ElementOfSeq DEF InTable
    <2> QED BY <1>2, <1>12, <2>1 DEF AdmInv, CoolInItsBucket
  <1>17. Agreement'
    <2>0. page' = NoSlot
      BY <1>2, <1>9 DEF control
    <2>1. EntryAgrees'
      <3> SUFFICES ASSUME NEW b \in Addr, page_table'[b] \in Slot
                   PROVE  LET s == page_table'[b] IN
                          /\ b \in LeafAddr /\ s # NoSlot /\ remote_address'[s] = b
                          /\ \/ pos_state'[s] = 2 /\ ref'[b] = s
                             \/ pos_state'[s] = 1 /\ ref'[b] = NoSlot
        BY <2>0 DEF EntryAgrees
      <3>1. CASE b = a
        BY <1>1, <1>4, <1>7, <1>9, <1>12, <3>1
      <3>2. CASE b # a
        <4>1. page_table'[b] = page_table[b] /\ page_table[b] # t
          BY <1>11, <1>12, <3>2
        <4>2. /\ b \in LeafAddr /\ remote_address[page_table[b]] = b
              /\ \/ pos_state[page_table[b]] = 2 /\ ref[b] = page_table[b]
                 \/ pos_state[page_table[b]] = 1 /\ ref[b] = NoSlot
          BY <4>1 DEF AdmInv, Agreement, EntryAgrees
        <4> QED BY <1>1, <1>9, <1>12, <3>2, <4>1, <4>2
      <3> QED BY <3>1, <3>2
    <2>2. ChildIndexed'
      <3> SUFFICES ASSUME NEW b \in LeafAddr, ref'[b] # NoSlot
                   PROVE  page_table'[b] = ref'[b] /\ has_parent'[ref'[b]]
        BY DEF ChildIndexed
      <3>1. CASE b = a
        BY <1>4, <1>7, <1>12, <1>13, <3>1
      <3>2. CASE b # a
        <4>1. ref'[b] = ref[b] /\ ref[b] \in Slot /\ page_table[b] = ref[b] /\ has_parent[ref[b]]
          BY <1>5, <1>12, <3>2 DEF AdmInv, Agreement, ChildIndexed
        <4>2. ref[b] # x
          BY <1>10, <3>2, <4>1 DEF AdmInv, Agreement, EntryAgrees, LeafAddr
        <4> QED BY <1>12, <1>13, <3>2, <4>1, <4>2 DEF LeafAddr
      <3> QED BY <3>1, <3>2
    <2>3. ParentRight'
      <3> SUFFICES ASSUME NEW s \in Slot, has_parent'[s]
                   PROVE  remote_address'[s] \in LeafAddr /\ ref'[remote_address'[s]] = s
        BY DEF ParentRight
      <3>1. CASE s = t
        BY <1>4, <1>12, <3>1
      <3>2. CASE s # t
        <4>1. s # x /\ remote_address[s] \in LeafAddr /\ ref[remote_address[s]] = s
          BY <1>13, <3>2 DEF AdmInv, Agreement, ParentRight
        <4> QED BY <1>2, <1>12, <3>2, <4>1
      <3> QED BY <3>1, <3>2
    <2> QED BY <2>1, <2>2, <2>3 DEF Agreement
  <1>18. DirtyIsLeaf'
    BY <1>4, <1>6, <1>12 DEF AdmInv, DirtyIsLeaf
  <1>19. ASSUME SeenInv PROVE SeenInv'
    <2>1. \A b \in Addr : b \notin Spoiled' => b \notin Spoiled /\ (b = a => ~dirty[x])
      BY <1>d DEF ReplaceChild, Spoiled
    <2>2. DirtyIsCurrent'
      <3> SUFFICES ASSUME NEW s \in Slot, dirty'[s], remote_address'[s] \notin Spoiled'
                   PROVE  \/ pos_state'[s] = 2 /\ page_table'[remote_address'[s]] = s
                          \/ pos_state'[s] = 3
        BY DEF DirtyIsCurrent
      <3>1. CASE s = t
        BY <1>4, <1>9, <1>12, <3>1
      <3>2. CASE s # t
        <4>1. dirty[s] /\ remote_address'[s] = remote_address[s] /\ remote_address[s] \in Addr
          BY <1>5, <1>12, <3>2
        <4>2. (pos_state[s] = 2 /\ page_table[remote_address[s]] = s) \/ pos_state[s] = 3
          BY <1>19, <2>1, <4>1 DEF SeenInv, DirtyIsCurrent
        <4>3. pos_state'[s] = pos_state[s]
          BY <1>9, <3>2
        <4>4. remote_address[s] = a => s # x
          BY <2>1, <4>1
        <4> QED BY <1>10, <1>12, <4>1, <4>2, <4>3, <4>4
      <3> QED BY <3>1, <3>2
    <2>3. ValueSeen'
      <3> SUFFICES ASSUME NEW b \in LeafAddr, b \notin Spoiled'
                   PROVE  LET y == page_table'[b] IN
                          IF y \in Slot
                          THEN val'[y] = last[b] /\ (~dirty'[y] => backend[b].val = last[b])
                          ELSE backend[b].val = last[b]
        BY <1>2 DEF ValueSeen
      <3>0. b \in Addr
        BY DEF LeafAddr
      <3>1. CASE b = a
        <4>1. v = last[a]
          BY <1>4, <1>10, <1>19, <1>d, <2>1, <3>1 DEF SeenInv, ValueSeen
        <4> QED BY <1>7, <1>12, <1>d, <3>0, <3>1, <4>1
      <3>2. CASE b # a
        <4>1. page_table'[b] = page_table[b] /\ page_table[b] # t
          BY <1>11, <1>12, <3>0, <3>2
        <4> QED BY <1>12, <1>19, <2>1, <3>0, <4>1 DEF SeenInv, ValueSeen
      <3> QED BY <3>1, <3>2
    <2> QED BY <2>2, <2>3 DEF SeenInv
  <1> QED BY <1>9, <1>14, <1>15, <1>16, <1>17, <1>18, <1>19, AdmFromParts

-----------------------------------------------------------------------------
(* The invariants *)

LEMMA InitAdm ==
  ASSUME AdmInit
  PROVE  AdmInv /\ SeenInv
  <1> USE SlotAssumption, AdmissionAssumption
  <1>1. PoolInv
    BY InitInv DEF AdmInit
  <1>2. OwnTypes /\ SlotOwnership /\ CoolInItsBucket
    BY <1>1, OwnTypesOf DEF PoolInv, PageTableAgrees
  <1>3. /\ page_table = [a \in Addr |-> NoSlot] /\ dirty = [s \in Slot |-> FALSE]
        /\ phase = "idle" /\ pin = NoSlot /\ prev_state = 0
        /\ ref = [a \in LeafAddr |-> NoSlot] /\ has_parent = [s \in Slot |-> FALSE]
        /\ last \in [LeafAddr -> Val] /\ val = [s \in Slot |-> NoSlot] /\ at = "idle"
    BY DEF AdmInit, PoolInit
  <1>b. PICK fresh \in SUBSET LeafAddr :
          backend = [a \in LeafAddr |-> [val |-> last[a], dirty |-> a \in fresh]]
    BY DEF AdmInit
  <1>4. AdmTypes
    <2>1. backend \in [LeafAddr -> [val : Val, dirty : BOOLEAN]]
      BY <1>3, <1>b
    <2> QED BY <1>2, <1>3, <2>1 DEF AdmTypes, AdmissionTypeOK, OwnTypes
  <1>5. JobTyped /\ FlagWhileLoading
    BY <1>3 DEF JobTyped, FlagWhileLoading
  <1>6. Agreement /\ DirtyIsLeaf
    BY <1>3 DEF Agreement, EntryAgrees, ChildIndexed, ParentRight, DirtyIsLeaf
  <1>7. SeenInv
    <2>1. DirtyIsCurrent
      BY <1>3 DEF DirtyIsCurrent
    <2>2. ASSUME NEW a \in LeafAddr PROVE page_table[a] = NoSlot /\ backend[a].val = last[a]
      BY <1>3, <1>b DEF LeafAddr
    <2> QED BY <2>1, <2>2 DEF SeenInv, ValueSeen
  <1> QED BY <1>2, <1>4, <1>5, <1>6, <1>7 DEF AdmInv

\* The branches of get_empty_page under either caller.
LEMMA GetPageAdm ==
  ASSUME AdmInv, GetPage
  PROVE  AdmInv' /\ (SeenInv => SeenInv')
  <1>1. UNCHANGED <<leafVars, at, job, last, lossVars>>
    BY DEF GetPage
  <1>2. CASE (\E s \in Slot : Allocate(s)) \/ TakeLocal
    BY <1>1, <1>2, TakeAdm
  <1>3. CASE \E idx \in Bucket : EvictCool(idx)
    BY <1>1, <1>3, EvictAdm
  <1>4. CASE (\E idx \in Bucket : ProbeFails(idx)) \/ SampleExit
    BY <1>1, <1>4, ProbeAdm
  <1> QED BY <1>2, <1>3, <1>4 DEF GetPage, GetEmptyPage

LEMMA NextAdm == AdmInv /\ [AdmNext]_allVars => AdmInv' /\ (SeenInv => SeenInv')
  <1> SUFFICES ASSUME AdmInv, [AdmNext]_allVars
               PROVE  AdmInv' /\ (SeenInv => SeenInv')
    OBVIOUS
  <1>1. CASE \E a \in LeafAddr : Promote(a) \/ Forget(a) \/ Replace(a)
    BY <1>1, PromoteAdm, ForgetAdm, ReplaceAdm
  <1>2. CASE \E a \in LeafAddr, v \in Val : UpdateHot(a, v) \/ Miss(a, "update", v)
    BY <1>2, UpdateHotAdm, MissAdm
  <1>3. CASE \E a \in LeafAddr, kind \in {"lookup", "scan"} : Miss(a, kind, NoSlot)
    <2>1. PICK a \in LeafAddr, kind \in {"lookup", "scan"} : Miss(a, kind, NoSlot)
      BY <1>3
    <2>2. kind # "update"
      OBVIOUS
    <2> QED BY <2>1, <2>2, MissAdm
  <1>4. CASE ColdToHot \/ FillStart
    <2>1. at \in {"load", "replace"} /\ RequestPage(NoSlot) /\ UNCHANGED <<leafVars, at, job, last, lossVars>>
      BY <1>4 DEF ColdToHot, FillStart, admVars
    <2> QED BY <2>1, RequestAdm
  <1>5. CASE GetPage
    BY <1>5, GetPageAdm
  <1>6. CASE Bypass \/ TryFails \/ Load \/ LoadRefused
    BY <1>6, BypassAdm, TryFailsAdm, LoadAdm, LoadRefusedAdm
  <1>7. CASE \E s \in HotSlots : Sample(s)
    BY <1>7, SampleAdm
  <1>8. CASE FillEnd \/ ReplaceChild \/ ReplaceAborts \/ Flush
    BY <1>8, FillEndAdm, ReplaceChildAdm, ReplaceAbortsAdm, FlushAdm
  <1>9. CASE UNCHANGED allVars
    <2>1. AdmInv'
      BY <1>9 DEF allVars, poolVars, pages, control, admVars, leafVars, AdmInv, AdmTypes, OwnTypes,
             AdmissionTypeOK, SlotOwnership, TableInjective, FreeListInjective, OwnerTagged,
             InFlightUnowned, WarmUpEnds, InTable, InFreeList, InUse, JobTyped, FlagWhileLoading,
             CoolInItsBucket, Agreement, EntryAgrees, ChildIndexed, ParentRight, DirtyIsLeaf
    <2>2. SeenInv => SeenInv'
      BY <1>9 DEF allVars, poolVars, pages, control, admVars, leafVars, SeenInv, DirtyIsCurrent,
             ValueSeen, Spoiled, lossVars
    <2> QED BY <2>1, <2>2
  <1> QED BY <1>1, <1>2, <1>3, <1>4, <1>5, <1>6, <1>7, <1>8, <1>9 DEF AdmNext

\* The invariant of cache_get, cold_to_hot, updatest_replace and the sampler: entry,
\* child and page state agree, and every slot has one owner.
THEOREM AdmInvariant == AdmSpec => []AdmInv
  <1>1. AdmInit => AdmInv
    BY InitAdm
  <1>2. AdmInv /\ [AdmNext]_allVars => AdmInv'
    BY NextAdm
  <1> QED BY <1>1, <1>2, PTL DEF AdmSpec

\* IO_FLAG stands in the page table exactly while its page is being loaded: every
\* way a load can end, the failures included, takes the flag away.
THEOREM FlagGoesWithLoad == AdmSpec => []FlagWhileLoading
  <1>1. AdmInv => FlagWhileLoading
    BY DEF AdmInv
  <1> QED BY <1>1, AdmInvariant, PTL

\* Promotion, refused loads and replacement keep the pool's one-owner discipline and
\* the bound on a bucket.
THEOREM AdmissionKeepsOwners == AdmSpec => []AdmissionOwnership
  <1>1. AdmInv => AdmissionOwnership
    BY DEF AdmInv, AdmTypes, AdmissionOwnership
  <1> QED BY <1>1, AdmInvariant, PTL

\* The page an entry names, if the parent does not refer to it, is a frame of the
\* bucket its address hashes to, and match_value finds it there.
LEMMA EntryPromotes == AdmInv => PromotionNeverFails
  <1> SUFFICES ASSUME AdmInv, NEW a \in LeafAddr, page_table[a] \in Slot, ref[a] = NoSlot, Idle
               PROVE  /\ pos_state[page_table[a]] = 1
                      /\ match_value(table_[BucketOf[a]], page_table[a]) # 0
    BY DEF PromotionNeverFails
  <1> DEFINE s == page_table[a]
             b == BucketOf[a]
  <1>1. OwnInv /\ NoSlot \notin Slot
    BY AdmParts
  <1>2. a \in Addr /\ pos_state[s] = 1 /\ s # page /\ remote_address[s] = a
    BY <1>1 DEF AdmInv, Agreement, EntryAgrees, LeafAddr
  <1>3. InTable(s)
    BY <1>1, <1>2 DEF OwnInv, SlotOwnership, OwnerTagged
  <1>4. PICK c \in Bucket : \E i \in 1 .. Len(table_[c]) : table_[c][i] = s
    BY <1>3 DEF InTable
  <1>5. c = b
    BY <1>2, <1>4 DEF AdmInv, CoolInItsBucket
  <1>6. table_[b] \in Seq(Slot) /\ \A j, k \in 1 .. Len(table_[b]) : table_[b][j] = table_[b][k] => j = k
    BY <1>1, <1>4, <1>5 DEF OwnInv, OwnTypes, SlotOwnership, TableInjective
  <1>7. PICK i \in 1 .. Len(table_[b]) : table_[b][i] = s
    BY <1>4, <1>5
  <1>8. match_value(table_[b], s) = i
    BY <1>6, <1>7, MatchFacts
  <1> QED BY <1>2, <1>7, <1>8

\* A hit in cache_get always succeeds: get_exclusive_node finds the page cooling in
\* its own bucket.
THEOREM HitsCanBePromoted == AdmSpec => []PromotionNeverFails
  BY EntryPromotes, AdmInvariant, PTL

\* An access finds the last value written to the leaf, whether the write went to a page
\* or past the cache to the backend, unless updatest_replace has thrown away a dirty page
\* of the leaf or flush_all has written an image of it from the free list: there is no
\* third way to lose an update, whatever images of fresh leaves the pool started with.
THEOREM LastWriteIsSeen == AdmSpec => []WritesAreSeen
  <1> DEFINE I == AdmInv /\ SeenInv
  <1>1. AdmInit => I
    BY InitAdm
  <1>2. I /\ [AdmNext]_allVars => I'
    BY NextAdm
  <1>3. I => WritesAreSeen
    <2> SUFFICES ASSUME AdmInv, SeenInv, NEW a \in LeafAddr, a \notin Spoiled
                 PROVE  /\ ref[a] # NoSlot => ref[a] = page_table[a] /\ InUse(page_table[a])
                        /\ LET s == page_table[a] IN
                           IF s \in Slot
                           THEN val[s] = last[a] /\ (~dirty[s] => backend[a].val = last[a])
                           ELSE backend[a].val = last[a]
      BY DEF WritesAreSeen, Seen
    <2>1. NoSlot \notin Slot /\ a \in Addr /\ ref[a] \in Slot \union {NoSlot}
      BY AdmParts DEF LeafAddr, AdmInv, AdmTypes, AdmissionTypeOK
    <2>2. ref[a] # NoSlot => ref[a] = page_table[a] /\ pos_state[ref[a]] = 2
      BY <2>1 DEF AdmInv, Agreement, EntryAgrees, ChildIndexed
    <2> QED BY <2>2 DEF SeenInv, ValueSeen, InUse
  <1> QED BY <1>1, <1>2, <1>3, PTL DEF AdmSpec

=============================================================================
