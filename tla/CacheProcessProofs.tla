-------------------------- MODULE CacheProcessProofs --------------------------
(***************************************************************************)
(* Proofs about CacheProcess, for any set of trees, any capacities and any *)
(* cooling ratio.                                                          *)
(*                                                                         *)
(* The properties of CacheProcess are about a tree that inherits what      *)
(* earlier trees of the process left behind.  ProcInv says what that is:   *)
(* one tree is open at a time, and it is the one global_backend_ names and *)
(* the only one with dirty pages; the slots below head_idx_ have owners    *)
(* that were opened; a static distribution was made for some tree that was *)
(* opened.                                                                 *)
(***************************************************************************)
EXTENDS CacheProcess, FiniteSetTheorems, TLAPS

PoolRec == [page_num_ : 1 .. MaxPages, head_idx_ : Nat]
Page == [tree : Tree \union {None}, pos_state : 0 .. 2, dirty : BOOLEAN]

\* The values of the variables.
ProcTypes ==
  /\ instance_ \in PoolRec \union {None}
  /\ slot \in [SlotIdx -> Page]
  /\ life \in [Tree -> {"none", "open", "closed"}]
  /\ state \in [Tree -> {0, 1}]
  /\ cool \in [Tree -> SUBSET SlotIdx]
  /\ call \in Tree \union {None} /\ sampling \in BOOLEAN
  /\ select_span \in Nat /\ bucket_span \in Nat
  /\ picked \in Nat \union {None}
  /\ fault \in {"none", "assert"}

\* One tree is open; it has a pool and the process writes to its backend.  A
\* call runs in it, and only in its dynamic phase does the call sample.
OneOpen ==
  /\ \A t, u \in Tree : life[t] = "open" /\ life[u] = "open" => t = u
  /\ \A t \in Tree : life[t] = "open" => instance_ # None /\ global_backend_ = t
  /\ \A t \in Tree : life[t] = "none" => state[t] = 0
  /\ call # None => life[call] = "open"
  /\ sampling => call # None /\ state[call] = 1

\* The slots below head_idx_ are those that were handed out, to trees that were
\* opened; a dirty page belongs to the tree that is open.
HandedOut ==
  /\ instance_ # None => /\ instance_.head_idx_ <= instance_.page_num_
                         /\ \A i \in 0 .. instance_.head_idx_ - 1 : slot[i].tree # None
  /\ \A i \in SlotIdx : slot[i].tree # None => life[slot[i].tree] # "none"
  /\ \A i \in SlotIdx : slot[i].dirty => slot[i].tree # None /\ life[slot[i].tree] = "open"

\* An open tree is in the dynamic phase once the pool is handed out, unless it
\* found the pool handed out to others.
WarmUpLeavesSlot ==
  \A t \in Tree : life[t] = "open" =>
    IF state[t] = 1 THEN instance_.head_idx_ = instance_.page_num_
    ELSE instance_.head_idx_ = instance_.page_num_ =>
           \E i \in SlotIdx : slot[i].tree \notin {t, None}

\* The last draw was in the pool that is there.
LastDraw == picked # None => instance_ # None /\ picked < instance_.page_num_

\* random_bucket_idx's distribution was made for a tree with a bucket; for a tree
\* without one the first draw aborts.
BucketSpanOfTree ==
  fault = "none" /\ bucket_span # 0 =>
    \E u \in Tree : life[u] # "none" /\ bucket_num_(u) = bucket_span

ProcInv ==
  /\ ProcTypes /\ OneOpen /\ HandedOut /\ WarmUpLeavesSlot /\ LastDraw /\ BucketSpanOfTree
  /\ PagesGoHome /\ BucketIndexInRange

-----------------------------------------------------------------------------
(* Arithmetic *)

\* A non-empty set of numbers has a least one.
LEMMA LeastNat ==
  ASSUME NEW S \in SUBSET Nat, S # {}
  PROVE  \E m \in S : \A n \in S : m <= n
  <1>1. PICK m \in S : \A n \in S : ~(<<n, m>> \in OpToRel(<, Nat))
    BY NatLessThanWellFounded, WFMin
  <1>2. \A n \in S : ~(n < m)
    BY <1>1 DEF OpToRel
  <1> QED BY <1>2

\* Division of naturals.
LEMMA DivMod ==
  ASSUME NEW a \in Nat, NEW b \in Nat \ {0}
  PROVE  a \div b \in Nat /\ a % b \in 0 .. b - 1
  OBVIOUS

\* MaxPages is the largest capacity: the pool of the largest tree.
LEMMA MaxPagesFacts ==
  /\ MaxPages \in Nat \ {0}
  /\ \A t \in Tree : Capacity[t] \in 1 .. MaxPages
  <1> USE ProcessAssumption
  <1> DEFINE S == {Capacity[t] : t \in Tree}
             D == {DistSpan - n : n \in S}
  <1>1. S \in SUBSET (Nat \ {0}) /\ S # {} /\ \A n \in S : n < DistSpan
    OBVIOUS
  <1>2. D \in SUBSET Nat /\ D # {}
    BY <1>1
  <1>3. PICK d \in D : \A e \in D : d <= e
    BY <1>2, LeastNat
  <1>4. PICK n \in S : d = DistSpan - n
    OBVIOUS
  <1>5. \A m \in S : m <= n
    <2> SUFFICES ASSUME NEW m \in S PROVE m <= n
      OBVIOUS
    <2>1. DistSpan - n <= DistSpan - m
      BY <1>3, <1>4
    <2> QED BY <1>1, <2>1
  <1>6. \E k \in S : \A t \in Tree : Capacity[t] <= k
    BY <1>5
  <1>7. MaxPages \in S /\ \A t \in Tree : Capacity[t] <= MaxPages
    BY <1>6 DEF MaxPages
  <1> QED BY <1>1, <1>7

\* The number of buckets of a cooling table is a number.
LEMMA BucketNumType == \A t \in Tree : bucket_num_(t) \in Nat
  <1> USE ProcessAssumption
  <1> SUFFICES ASSUME NEW t \in Tree PROVE bucket_num_(t) \in Nat
    OBVIOUS
  <1> DEFINE product == Capacity[t] * CoolNum
             entry_num == product \div CoolDen
  <1>1. product \in Nat
    OBVIOUS
  <1>2. entry_num \in Nat
    <2> HIDE DEF product
    <2> QED BY <1>1, DivMod
  <1>3. entry_num \div NUM_ENTRIES \in Nat
    <2> HIDE DEF entry_num
    <2> QED BY <1>2, DivMod
  <1>4. bucket_num_(t) \in {entry_num \div NUM_ENTRIES, entry_num \div NUM_ENTRIES + 1}
    BY DEF bucket_num_
  <1> HIDE DEF entry_num
  <1> QED BY <1>3, <1>4

\* A static distribution has at least one value.
LEMMA StaticType ==
  ASSUME NEW span \in Nat, NEW n \in Nat
  PROVE  Static(span, n) \in Nat \ {0}
  BY ProcessAssumption DEF Static, Span

\* What a slot may hold.
LEMMA PageValues ==
  /\ Zeroed \in Page
  /\ \A t \in Tree : Hot(t) \in Page
  /\ \A p \in Page, d \in BOOLEAN : [p EXCEPT !.dirty = d] \in Page
  /\ \A p \in Page : [p EXCEPT !.pos_state = 1, !.dirty = FALSE] \in Page
  <1>1. Zeroed \in Page
    BY DEF Zeroed, Page
  <1>2. \A t \in Tree : Hot(t) \in Page
    BY DEF Hot, Page
  <1>3. \A p \in Page, d \in BOOLEAN : [p EXCEPT !.dirty = d] \in Page
    BY DEF Page
  <1>4. ASSUME NEW p \in Page
        PROVE  [p EXCEPT !.pos_state = 1, !.dirty = FALSE] \in Page
    <2>1. \A n \in 0 .. 2, d \in BOOLEAN : [p EXCEPT !.pos_state = n, !.dirty = d] \in Page
      BY DEF Page
    <2>2. 1 \in 0 .. 2 /\ FALSE \in BOOLEAN
      OBVIOUS
    <2> QED BY <2>1, <2>2, Zenon
  <1> QED BY <1>1, <1>2, <1>3, <1>4

-----------------------------------------------------------------------------
(* Init, and the actions one by one *)

\* Before the first tree is opened.
LEMMA InitProc == Init => ProcInv
  <1> USE ProcessAssumption, MaxPagesFacts DEF ProcInv
  <1> SUFFICES ASSUME Init PROVE ProcInv
    OBVIOUS
  <1>1. ProcTypes
    <2>1. slot \in [SlotIdx -> Page]
      BY PageValues DEF Init
    <2> QED BY <2>1 DEF Init, ProcTypes
  <1>2. OneOpen /\ WarmUpLeavesSlot /\ LastDraw
    BY DEF Init, OneOpen, WarmUpLeavesSlot, LastDraw
  <1>3. HandedOut
    BY DEF Init, HandedOut, Zeroed
  <1>4. BucketSpanOfTree /\ PagesGoHome /\ BucketIndexInRange
    BY DEF Init, BucketSpanOfTree, PagesGoHome, BucketIndexInRange
  <1> QED BY <1>1, <1>2, <1>3, <1>4

\* The constructors: the tree takes over the pool it finds, or makes one.
LEMMA OpenProc ==
  ASSUME ProcInv, NEW t \in Tree, OpenAlone(t)
  PROVE  ProcInv'
  <1> USE ProcessAssumption, MaxPagesFacts DEF ProcInv, OpenAlone
  <1>1. instance_' \in PoolRec /\ instance_' # None
    BY DEF Open, Initialized, ProcTypes, PoolRec
  <1>2. instance_ # None => instance_' = instance_
    BY DEF Open, Initialized
  <1>3. instance_ = None => instance_'.head_idx_ = 0 /\ instance_'.page_num_ = Capacity[t]
    BY DEF Open, Initialized
  <1>4. \A u \in Tree : life'[u] = IF u = t THEN "open" ELSE life[u]
    BY DEF Open, ProcTypes
  <1>5. ProcTypes'
    BY <1>1 DEF Open, ProcTypes
  <1>6. OneOpen'
    BY <1>1, <1>4 DEF Open, Running, OneOpen, ProcTypes
  <1>7. \A i \in SlotIdx : ~slot[i].dirty
    BY DEF ProcTypes, Page, HandedOut, SlotIdx
  <1>8. HandedOut'
    <2>1. /\ instance_'.head_idx_ <= instance_'.page_num_
          /\ \A i \in 0 .. instance_'.head_idx_ - 1 : slot[i].tree # None
      BY <1>2, <1>3 DEF HandedOut
    <2>2. \A i \in SlotIdx : slot[i].tree # None => life'[slot[i].tree] # "none"
      BY <1>4 DEF HandedOut, ProcTypes, Page
    <2> QED BY <1>7, <2>1, <2>2 DEF HandedOut, Open
  <1>9. WarmUpLeavesSlot'
    <2>1. \A u \in Tree : life'[u] = "open" => u = t
      BY <1>4
    <2>2. state'[t] = 0
      BY DEF Open, OneOpen
    <2>3. ASSUME instance_'.head_idx_ = instance_'.page_num_
          PROVE  \E i \in SlotIdx : slot'[i].tree \notin {t, None}
      <3>1. instance_ # None /\ instance_' = instance_
        BY <1>1, <1>2, <1>3, <2>3
      <3>2. 0 \in SlotIdx /\ 0 \in 0 .. instance_.head_idx_ - 1
        BY <1>1, <2>3, <3>1 DEF PoolRec, SlotIdx
      <3>3. slot[0].tree # None /\ life[slot[0].tree] # "none"
        BY <3>1, <3>2 DEF HandedOut
      <3> QED BY <3>2, <3>3 DEF Open
    <2> QED BY <2>1, <2>2, <2>3 DEF WarmUpLeavesSlot
  <1>10. LastDraw'
    BY <1>1, <1>2 DEF Open, LastDraw
  <1>11. BucketSpanOfTree'
    BY <1>4 DEF Open, BucketSpanOfTree
  <1>12. PagesGoHome'
    BY DEF Open, PagesGoHome
  <1>13. BucketIndexInRange'
    BY DEF Open, Running, BucketIndexInRange
  <1> QED BY <1>5, <1>6, <1>8, <1>9, <1>10, <1>11, <1>12, <1>13

\* A miss reads the page from the tree's own backend.
LEMMA RequestProc ==
  ASSUME ProcInv, NEW t \in Tree, Request(t)
  PROVE  ProcInv'
  <1> USE ProcessAssumption DEF ProcInv
  <1>1. global_backend_ = t
    BY DEF Request, OneOpen
  <1>2. PagesGoHome'
    BY <1>1 DEF Request, PagesGoHome
  <1>3. ProcTypes'
    BY DEF Request, ProcTypes
  <1>4. OneOpen'
    BY DEF Request, Running, OneOpen
  <1>5. HandedOut' /\ WarmUpLeavesSlot' /\ LastDraw'
    BY DEF Request, HandedOut, WarmUpLeavesSlot, LastDraw
  <1>6. BucketSpanOfTree' /\ BucketIndexInRange'
    BY DEF Request, Running, BucketSpanOfTree, BucketIndexInRange
  <1> QED BY <1>2, <1>3, <1>4, <1>5, <1>6

\* Warm-up: the slot at head_idx_ is handed out; the last one ends the phase.
LEMMA WarmUpProc ==
  ASSUME ProcInv, NEW t \in Tree, WarmUp(t)
  PROVE  ProcInv'
  <1> USE ProcessAssumption, MaxPagesFacts DEF ProcInv
  <1> DEFINE i0 == instance_.head_idx_
  <1>1. call = t /\ life[t] = "open" /\ instance_ # None /\ instance_ \in PoolRec /\ ~sampling
    BY DEF WarmUp, OneOpen, ProcTypes
  <1>2. i0 \in SlotIdx /\ i0 \in Nat /\ i0 < instance_.page_num_ /\ instance_.page_num_ \in Nat
    BY <1>1 DEF WarmUp, HasPage, PoolRec, SlotIdx
  <1>3. /\ instance_' \in PoolRec /\ instance_' # None
        /\ instance_'.page_num_ = instance_.page_num_ /\ instance_'.head_idx_ = i0 + 1
    BY <1>1, <1>2 DEF WarmUp, PoolRec
  <1>4. \A i \in SlotIdx : slot'[i] = IF i = i0 THEN Hot(t) ELSE slot[i]
    BY <1>2 DEF WarmUp, ProcTypes
  <1>5. state' \in [Tree -> {0, 1}]
        /\ \A u \in Tree : state'[u] = IF u = t /\ i0 = instance_.page_num_ - 1
                                       THEN 1 ELSE state[u]
    BY <1>1 DEF WarmUp, LastPage, ProcTypes
  <1>6. ProcTypes'
    <2>1. slot' \in [SlotIdx -> Page]
      BY PageValues DEF WarmUp, ProcTypes
    <2> QED BY <1>3, <1>5, <2>1 DEF WarmUp, ProcTypes
  <1>7. OneOpen'
    BY <1>1, <1>3, <1>5 DEF WarmUp, OneOpen
  <1>8. HandedOut'
    <2>1. /\ slot'[i0].tree = t /\ ~slot'[i0].dirty
          /\ \A i \in SlotIdx : i # i0 => slot'[i] = slot[i]
      BY <1>2, <1>4 DEF Hot
    <2>2. \A i \in 0 .. instance_'.head_idx_ - 1 :
            i \in SlotIdx /\ (i = i0 \/ i \in 0 .. instance_.head_idx_ - 1)
      BY <1>2, <1>3, <1>1 DEF PoolRec, SlotIdx
    <2>3. \A i \in 0 .. instance_'.head_idx_ - 1 : slot'[i].tree # None
      BY <1>1, <2>1, <2>2 DEF HandedOut
    <2>4. life' = life
      BY DEF WarmUp
    <2>5. instance_'.head_idx_ <= instance_'.page_num_
      BY <1>2, <1>3
    <2>6. \A i \in SlotIdx : slot'[i].tree # None => life'[slot'[i].tree] # "none"
      BY <1>1, <2>1, <2>4 DEF HandedOut
    <2>7. \A i \in SlotIdx : slot'[i].dirty => slot'[i].tree # None /\ life'[slot'[i].tree] = "open"
      BY <1>1, <2>1, <2>4 DEF HandedOut
    <2> QED BY <2>3, <2>5, <2>6, <2>7 DEF HandedOut
  <1>9. WarmUpLeavesSlot'
    <2>1. \A u \in Tree : life'[u] = "open" => u = t
      BY <1>1 DEF WarmUp, OneOpen
    <2>2. IF state'[t] = 1 THEN instance_'.head_idx_ = instance_'.page_num_
                           ELSE instance_'.head_idx_ # instance_'.page_num_
      BY <1>2, <1>3, <1>5 DEF WarmUp
    <2> QED BY <2>1, <2>2 DEF WarmUpLeavesSlot
  <1>10. LastDraw' /\ PagesGoHome'
    BY <1>3 DEF WarmUp, LastDraw, PagesGoHome
  <1>11. BucketSpanOfTree' /\ BucketIndexInRange'
    BY DEF WarmUp, BucketSpanOfTree, BucketIndexInRange
  <1> QED BY <1>6, <1>7, <1>8, <1>9, <1>10, <1>11

\* The open tree's pool is handed out once it is in the dynamic phase.
LEMMA DynamicPool ==
  ASSUME ProcInv, NEW t \in Tree, call = t, state[t] = 1
  PROVE  /\ life[t] = "open" /\ instance_ # None /\ instance_ \in PoolRec
         /\ instance_.head_idx_ = instance_.page_num_
  BY ProcessAssumption DEF ProcInv, ProcTypes, OneOpen, WarmUpLeavesSlot

\* random_evict_to_remote: the assertion fails only for the two reasons named.
LEMMA EvictProc ==
  ASSUME ProcInv, NEW t \in Tree, EvictToRemote(t)
  PROVE  ProcInv'
  <1> USE ProcessAssumption DEF ProcInv
  <1>1. /\ call = t /\ life[t] = "open" /\ state[t] = 1 /\ fault = "none" /\ ~sampling
        /\ instance_ # None /\ instance_ \in PoolRec
        /\ instance_.head_idx_ = instance_.page_num_
    BY DynamicPool DEF EvictToRemote
  <1>2. UNCHANGED <<instance_, life, state, global_backend_, select_span, picked, io>>
    BY DEF EvictToRemote
  <1>3. bucket_span' = Static(bucket_span, bucket_num_(t)) /\ bucket_span' \in Nat
    BY StaticType, BucketNumType DEF EvictToRemote, ProcTypes
  <1>4. PICK idx \in 0 .. bucket_span' - 1 :
          \/ /\ idx >= bucket_num_(t)
             /\ fault' = "assert"
             /\ UNCHANGED <<slot, cool, call, sampling>>
          \/ /\ idx < bucket_num_(t)
             /\ \/ \E i \in cool[t] :
                     /\ slot' = [slot EXCEPT ![i] = Hot(t)]
                     /\ cool' = [cool EXCEPT ![t] = @ \ {i}]
                     /\ call' = None
                     /\ UNCHANGED sampling
                \/ /\ sampling' = TRUE
                   /\ UNCHANGED <<slot, cool, call>>
             /\ UNCHANGED fault
    BY DEF EvictToRemote
  <1>5. /\ slot' \in [SlotIdx -> Page] /\ cool' \in [Tree -> SUBSET SlotIdx]
        /\ call' \in {t, None} /\ (sampling' => call' = t) /\ sampling' \in BOOLEAN
        /\ \A i \in SlotIdx : slot'[i] \in {slot[i], Hot(t)}
    <2>1. CASE UNCHANGED <<slot, cool, call>> /\ sampling' \in {sampling, TRUE}
      BY <1>1, <2>1 DEF ProcTypes
    <2>2. CASE \E i \in cool[t] : /\ slot' = [slot EXCEPT ![i] = Hot(t)]
                                  /\ cool' = [cool EXCEPT ![t] = @ \ {i}]
                                  /\ call' = None
                                  /\ UNCHANGED sampling
      <3>1. PICK i \in SlotIdx : /\ slot' = [slot EXCEPT ![i] = Hot(t)]
                                 /\ cool' = [cool EXCEPT ![t] = @ \ {i}]
        BY <2>2 DEF ProcTypes
      <3>2. slot' \in [SlotIdx -> Page] /\ \A j \in SlotIdx : slot'[j] \in {slot[j], Hot(t)}
        BY <3>1, PageValues DEF ProcTypes
      <3>3. cool' \in [Tree -> SUBSET SlotIdx]
        BY <3>1 DEF ProcTypes
      <3> QED BY <1>1, <2>2, <3>2, <3>3 DEF ProcTypes
    <2> QED BY <1>4, <2>1, <2>2
  <1>6. fault' \in {"none", "assert"}
    BY <1>1, <1>4
  <1>7. ProcTypes'
    BY <1>2, <1>3, <1>5, <1>6 DEF ProcTypes
  <1>8. OneOpen'
    BY <1>1, <1>2, <1>5 DEF OneOpen
  <1>9. \A i \in SlotIdx : \/ slot'[i].tree = slot[i].tree /\ slot'[i].dirty = slot[i].dirty
                           \/ slot'[i].tree = t /\ slot'[i].dirty = FALSE
    BY <1>5 DEF Hot
  <1>10. HandedOut'
    <2>1. \A i \in 0 .. instance_.head_idx_ - 1 : i \in SlotIdx
      BY <1>1, MaxPagesFacts DEF PoolRec, SlotIdx
    <2>2. \A i \in 0 .. instance_.head_idx_ - 1 : slot'[i].tree # None
      BY <1>1, <1>9, <2>1 DEF HandedOut
    <2>3. \A i \in SlotIdx : slot'[i].tree # None => life'[slot'[i].tree] # "none"
      BY <1>1, <1>2, <1>9 DEF HandedOut
    <2>4. \A i \in SlotIdx : slot'[i].dirty => slot'[i].tree # None /\ life'[slot'[i].tree] = "open"
      BY <1>1, <1>2, <1>9 DEF HandedOut
    <2> QED BY <1>1, <1>2, <2>2, <2>3, <2>4 DEF HandedOut
  <1>11. WarmUpLeavesSlot'
    BY <1>1, <1>2 DEF WarmUpLeavesSlot, OneOpen
  <1>12. LastDraw' /\ PagesGoHome'
    BY <1>2 DEF LastDraw, PagesGoHome
  <1>13. \/ bucket_span = 0
         \/ \E u \in Tree : life[u] # "none" /\ bucket_num_(u) = bucket_span
    BY <1>1 DEF BucketSpanOfTree
  <1>14. BucketSpanOfTree'
    <2> SUFFICES ASSUME fault' = "none"
                 PROVE  \E u \in Tree : life[u] # "none" /\ bucket_num_(u) = bucket_span'
      BY <1>2 DEF BucketSpanOfTree
    <2>1. idx < bucket_num_(t) /\ idx \in Nat /\ bucket_num_(t) \in Nat
      BY <1>3, <1>4, BucketNumType
    <2>2. CASE bucket_span = 0
      BY <1>1, <1>3, <2>1, <2>2 DEF Static, Span
    <2>3. CASE bucket_span # 0
      BY <1>3, <1>13, <2>3 DEF Static
    <2> QED BY <2>2, <2>3
  <1>15. BucketIndexInRange'
    <2> SUFFICES ASSUME fault' = "assert", bucket_num_(t) # 0
                 PROVE  \E u \in Tree : life[u] = "closed" /\ bucket_num_(u) > bucket_num_(t)
      BY <1>1, <1>2, <1>4 DEF BucketIndexInRange
    <2>1. idx >= bucket_num_(t) /\ idx < bucket_span' /\ idx \in Nat
      BY <1>1, <1>3, <1>4
    <2>2. CASE bucket_span = 0
      BY <1>3, <2>1, <2>2, BucketNumType DEF Static, Span
    <2>3. CASE bucket_span # 0
      <3>1. PICK u \in Tree : life[u] # "none" /\ bucket_num_(u) = bucket_span
        BY <1>13, <2>3
      <3>2. bucket_span' = bucket_num_(u) /\ bucket_num_(u) > bucket_num_(t)
        BY <1>3, <2>1, <2>3, <3>1, BucketNumType DEF Static
      <3>3. life[u] = "closed"
        BY <1>1, <3>1, <3>2, BucketNumType DEF OneOpen, ProcTypes
      <3> QED BY <3>2, <3>3
    <2> QED BY <2>2, <2>3
  <1> QED BY <1>7, <1>8, <1>10, <1>11, <1>12, <1>14, <1>15

\* What flush_all and the sampler write back goes to its own tree's backend.
LEMMA WrittenBackHome ==
  ASSUME ProcInv, NEW t \in Tree, life[t] = "open", NEW S \in SUBSET SlotIdx
  PROVE  \A p \in WrittenBack(S) : p[1] = p[2]
  <1> SUFFICES ASSUME NEW i \in SlotIdx, slot[i].dirty
               PROVE  slot[i].tree = global_backend_
    BY DEF WrittenBack
  <1>1. slot[i].tree \in Tree /\ life[slot[i].tree] = "open"
    BY DEF ProcInv, HandedOut, ProcTypes, Page
  <1> QED BY <1>1 DEF ProcInv, OneOpen

\* One draw of the sampler: defined, in the pool, and written back at home.
LEMMA SampleProc ==
  ASSUME ProcInv, NEW t \in Tree, SampleDraw(t)
  PROVE  ProcInv'
  <1> USE ProcessAssumption DEF ProcInv
  <1> DEFINE given == Smaller(instance_.head_idx_, instance_.page_num_)
  <1>1. call = t /\ state[t] = 1 /\ sampling /\ fault = "none"
    BY DEF SampleDraw, OneOpen
  <1>2. /\ life[t] = "open" /\ instance_ # None /\ instance_ \in PoolRec
        /\ instance_.head_idx_ = instance_.page_num_
    BY <1>1, DynamicPool
  <1>3. given = instance_.page_num_ /\ given \in Nat \ {0}
    BY <1>2, MaxPagesFacts DEF PoolRec, Smaller
  <1>4. UNCHANGED <<instance_, life, state, global_backend_, call, bucket_span>>
    BY DEF SampleDraw
  <1>5. select_span' \in Nat
    <2>1. instance_.page_num_ \in Nat
      BY <1>3
    <2> QED BY <2>1, StaticType DEF SampleDraw, ProcTypes
  <1>6. PICK idx \in 0 .. select_span' - 1 :
          /\ picked' = IF Outside(idx) THEN idx % given ELSE idx
          /\ \/ /\ picked' \in SlotIdx /\ slot[picked'].pos_state = 2
                /\ io' = io \union WrittenBack({picked'})
                /\ slot' = [slot EXCEPT ![picked'].pos_state = 1, ![picked'].dirty = FALSE]
                /\ cool' = [cool EXCEPT ![t] = @ \union {picked'}]
                /\ sampling' \in BOOLEAN
             \/ UNCHANGED <<slot, cool, sampling, io>>
          /\ UNCHANGED fault
    BY <1>3 DEF SampleDraw
  <1>7. picked' \in Nat /\ picked' < instance_.page_num_
    <2>1. idx \in Nat
      BY <1>5
    <2>2. CASE Outside(idx)
      <3>1. picked' = idx % given
        BY <1>6, <2>2
      <3>2. instance_.page_num_ \in Nat \ {0} /\ picked' = idx % instance_.page_num_
        BY <1>3, <3>1
      <3>3. idx % instance_.page_num_ \in 0 .. instance_.page_num_ - 1
        BY <2>1, <3>2, DivMod
      <3> QED BY <3>2, <3>3
    <2>3. CASE ~Outside(idx)
      BY <1>3, <1>6, <2>1, <2>3 DEF Outside
    <2> QED BY <2>2, <2>3
  <1>8. /\ slot' \in [SlotIdx -> Page] /\ cool' \in [Tree -> SUBSET SlotIdx]
        /\ sampling' \in BOOLEAN /\ PagesGoHome'
        /\ \A i \in SlotIdx : /\ slot'[i].tree = slot[i].tree
                              /\ slot'[i].dirty => slot[i].dirty
    <2>1. CASE UNCHANGED <<slot, cool, sampling, io>>
      BY <2>1 DEF ProcTypes, PagesGoHome
    <2>2. CASE /\ picked' \in SlotIdx
               /\ io' = io \union WrittenBack({picked'})
               /\ slot' = [slot EXCEPT ![picked'].pos_state = 1, ![picked'].dirty = FALSE]
               /\ cool' = [cool EXCEPT ![t] = @ \union {picked'}]
               /\ sampling' \in BOOLEAN
      <3> DEFINE p == [slot[picked'] EXCEPT !.pos_state = 1, !.dirty = FALSE]
      <3>0. slot[picked'] \in Page
        BY <2>2 DEF ProcTypes
      <3>1. p \in Page /\ p.tree = slot[picked'].tree /\ ~p.dirty
        <4>1. p \in Page
          BY <3>0, PageValues
        <4> QED BY <3>0, <4>1 DEF Page
      <3>2. slot' = [slot EXCEPT ![picked'] = p]
        BY <2>2
      <3> HIDE DEF p
      <3>3. slot' \in [SlotIdx -> Page]
        BY <2>2, <3>1, <3>2 DEF ProcTypes
      <3>4. \A i \in SlotIdx : slot'[i] = IF i = picked' THEN p ELSE slot[i]
        BY <3>2 DEF ProcTypes
      <3>5. \A i \in SlotIdx : slot'[i].tree = slot[i].tree /\ (slot'[i].dirty => slot[i].dirty)
        BY <3>1, <3>4
      <3>6. cool' \in [Tree -> SUBSET SlotIdx]
        BY <2>2 DEF ProcTypes
      <3>7. {picked'} \in SUBSET SlotIdx
        BY <2>2
      <3>8. PagesGoHome'
        BY <1>2, <2>2, <3>7, WrittenBackHome DEF PagesGoHome
      <3> QED BY <2>2, <3>3, <3>5, <3>6, <3>8
    <2> QED BY <1>6, <2>1, <2>2
  <1>9. ProcTypes'
    BY <1>4, <1>5, <1>6, <1>7, <1>8 DEF ProcTypes
  <1>10. OneOpen'
    BY <1>1, <1>4 DEF OneOpen
  <1>11. HandedOut'
    <2>1. \A i \in 0 .. instance_.head_idx_ - 1 : i \in SlotIdx
      BY <1>2, MaxPagesFacts DEF PoolRec, SlotIdx
    <2>2. \A i \in 0 .. instance_.head_idx_ - 1 : slot'[i].tree # None
      BY <1>2, <1>8, <2>1 DEF HandedOut
    <2> QED BY <1>2, <1>4, <1>8, <2>2 DEF HandedOut
  <1>12. WarmUpLeavesSlot'
    BY <1>1, <1>2, <1>4 DEF WarmUpLeavesSlot, OneOpen
  <1>13. LastDraw'
    BY <1>2, <1>4, <1>7 DEF LastDraw
  <1>14. BucketSpanOfTree' /\ BucketIndexInRange'
    BY <1>1, <1>4, <1>6 DEF BucketSpanOfTree, BucketIndexInRange
  <1> QED BY <1>8, <1>9, <1>10, <1>11, <1>12, <1>13, <1>14

\* The open tree dirties its own pages.
LEMMA MarkDirtyProc ==
  ASSUME ProcInv, NEW t \in Tree, NEW i \in SlotIdx, MarkDirty(t, i)
  PROVE  ProcInv'
  <1> USE ProcessAssumption DEF ProcInv
  <1> DEFINE p == [slot[i] EXCEPT !.dirty = TRUE]
  <1>1. p \in Page /\ p.tree = slot[i].tree
    BY PageValues DEF ProcTypes, Page
  <1>2. slot' = [slot EXCEPT ![i] = p]
    BY DEF MarkDirty
  <1> HIDE DEF p
  <1>3. \A j \in SlotIdx : slot'[j].tree = slot[j].tree /\ (j # i => slot'[j] = slot[j])
    BY <1>1, <1>2 DEF ProcTypes
  <1>4. ProcTypes'
    <2>1. slot' \in [SlotIdx -> Page]
      BY <1>1, <1>2 DEF ProcTypes
    <2> QED BY <2>1 DEF MarkDirty, ProcTypes
  <1>5. OneOpen' /\ LastDraw' /\ BucketSpanOfTree' /\ PagesGoHome' /\ BucketIndexInRange'
    BY DEF MarkDirty, OneOpen, LastDraw, BucketSpanOfTree, PagesGoHome, BucketIndexInRange
  <1>6. HandedOut'
    <2>1. instance_' = instance_ /\ life' = life /\ slot[i].tree = t /\ life[t] = "open"
      BY DEF MarkDirty
    <2>2. ASSUME instance_ # None, NEW j \in 0 .. instance_.head_idx_ - 1
          PROVE  j \in SlotIdx
      BY <2>2, MaxPagesFacts DEF HandedOut, ProcTypes, PoolRec, SlotIdx
    <2>3. instance_ # None => \A j \in 0 .. instance_.head_idx_ - 1 : slot'[j].tree # None
      BY <1>3, <2>2 DEF HandedOut
    <2> QED BY <1>3, <2>1, <2>3 DEF HandedOut
  <1>7. WarmUpLeavesSlot'
    BY <1>3 DEF MarkDirty, WarmUpLeavesSlot
  <1> QED BY <1>4, <1>5, <1>6, <1>7

\* CacheManager::reset starts the tree over with an empty pool.
LEMMA ResetProc ==
  ASSUME ProcInv, NEW t \in Tree, NEW flush_dirty \in BOOLEAN, Reset(t, flush_dirty)
  PROVE  ProcInv'
  <1> USE ProcessAssumption DEF ProcInv
  <1>1. life[t] = "open" /\ instance_ # None /\ instance_ \in PoolRec /\ call = None /\ ~sampling
    BY DEF Reset, Running, OneOpen, ProcTypes
  <1>2. /\ instance_' \in PoolRec /\ instance_' # None
        /\ instance_'.page_num_ = instance_.page_num_ /\ instance_'.head_idx_ = 0
    BY <1>1, MaxPagesFacts DEF Reset, PoolReset, PoolRec
  <1>3. ProcTypes'
    <2>1. slot' \in [SlotIdx -> Page]
      BY PageValues DEF Reset
    <2> QED BY <1>2, <2>1 DEF Reset, ProcTypes
  <1>4. \A i \in SlotIdx : slot'[i].tree = None /\ ~slot'[i].dirty
    BY DEF Reset, Zeroed
  <1>5. OneOpen'
    BY <1>1, <1>2 DEF Reset, OneOpen, ProcTypes
  <1>6. HandedOut'
    BY <1>2, <1>4, MaxPagesFacts DEF HandedOut, PoolRec
  <1>7. WarmUpLeavesSlot'
    <2>1. \A u \in Tree : life'[u] = "open" => u = t
      BY <1>1 DEF Reset, OneOpen
    <2>2. state'[t] = 0 /\ instance_'.head_idx_ # instance_'.page_num_
      BY <1>2 DEF Reset, ProcTypes, PoolRec
    <2> QED BY <2>1, <2>2 DEF WarmUpLeavesSlot
  <1>8. LastDraw' /\ BucketSpanOfTree' /\ BucketIndexInRange'
    BY <1>2 DEF Reset, Running, LastDraw, BucketSpanOfTree, BucketIndexInRange
  <1>9. PagesGoHome'
    BY <1>1, WrittenBackHome DEF Reset, PagesGoHome
  <1> QED BY <1>3, <1>5, <1>6, <1>7, <1>8, <1>9

\* The destructor leaves no dirty page to the next tree.
LEMMA CloseProc ==
  ASSUME ProcInv, NEW t \in Tree, Close(t)
  PROVE  ProcInv'
  <1> USE ProcessAssumption DEF ProcInv
  <1>1. life[t] = "open" /\ call = None /\ ~sampling /\ fault = "none"
    BY DEF Close, Running, OneOpen
  <1>2. \A u \in Tree : life'[u] = IF u = t THEN "closed" ELSE life[u]
    BY DEF Close, ProcTypes
  <1>3. \A u \in Tree : life'[u] # "open"
    BY <1>1, <1>2 DEF OneOpen
  <1>4. slot' \in [SlotIdx -> Page]
        /\ \A i \in SlotIdx : slot'[i].tree = slot[i].tree /\ ~slot'[i].dirty
    <2>1. \A i \in SlotIdx : /\ [slot[i] EXCEPT !.dirty = FALSE] \in Page
                             /\ [slot[i] EXCEPT !.dirty = FALSE].tree = slot[i].tree
                             /\ ~[slot[i] EXCEPT !.dirty = FALSE].dirty
      BY PageValues DEF ProcTypes, Page
    <2>2. slot' = [i \in SlotIdx |-> [slot[i] EXCEPT !.dirty = FALSE]]
      BY DEF Close, Flushed
    <2> QED BY <2>1, <2>2
  <1>5. ProcTypes'
    BY <1>4 DEF Close, ProcTypes
  <1>6. OneOpen' /\ WarmUpLeavesSlot'
    BY <1>1, <1>2, <1>3 DEF Close, OneOpen, WarmUpLeavesSlot
  <1>7. HandedOut'
    <2>1. ASSUME instance_ # None, NEW j \in 0 .. instance_.head_idx_ - 1
          PROVE  j \in SlotIdx
      BY <2>1, MaxPagesFacts DEF HandedOut, ProcTypes, PoolRec, SlotIdx
    <2>2. instance_ # None => \A j \in 0 .. instance_.head_idx_ - 1 : slot'[j].tree # None
      BY <1>4, <2>1 DEF HandedOut
    <2>3. \A i \in SlotIdx : slot'[i].tree # None => life'[slot'[i].tree] # "none"
      BY <1>2, <1>4 DEF HandedOut, ProcTypes, Page
    <2> QED BY <1>4, <2>2, <2>3 DEF Close, HandedOut
  <1>8. LastDraw' /\ BucketIndexInRange'
    BY <1>1 DEF Close, LastDraw, BucketIndexInRange
  <1>9. BucketSpanOfTree'
    BY <1>2 DEF Close, BucketSpanOfTree
  <1>10. PagesGoHome'
    BY <1>1, WrittenBackHome DEF Close, PagesGoHome
  <1> QED BY <1>5, <1>6, <1>7, <1>8, <1>9, <1>10

\* CacheAllocator::free, between two trees.
LEMMA FreeProc ==
  ASSUME ProcInv, Free
  PROVE  ProcInv'
  <1> USE ProcessAssumption DEF ProcInv
  <1>1. slot' \in [SlotIdx -> Page] /\ \A i \in SlotIdx : slot'[i].tree = None /\ ~slot'[i].dirty
    <2>1. slot' \in [SlotIdx -> Page]
      BY PageValues DEF Free
    <2> QED BY <2>1 DEF Free, Zeroed
  <1>2. ProcTypes'
    BY <1>1 DEF Free, ProcTypes
  <1>3. OneOpen' /\ WarmUpLeavesSlot' /\ LastDraw'
    BY DEF Free, Running, OneOpen, WarmUpLeavesSlot, LastDraw
  <1>4. HandedOut'
    BY <1>1 DEF Free, HandedOut
  <1>5. BucketSpanOfTree' /\ BucketIndexInRange' /\ PagesGoHome'
    BY DEF Free, Running, BucketSpanOfTree, BucketIndexInRange, PagesGoHome
  <1> QED BY <1>2, <1>3, <1>4, <1>5

-----------------------------------------------------------------------------
(* The theorems *)

\* Every step keeps the invariant.
LEMMA NextProc == ProcInv /\ [Next]_procVars => ProcInv'
  <1> SUFFICES ASSUME ProcInv, [Next]_procVars PROVE ProcInv'
    OBVIOUS
  <1>1. CASE Free
    BY <1>1, FreeProc
  <1>2. ASSUME NEW t \in Tree, TreeStep(t) PROVE ProcInv'
    BY <1>2, RequestProc, WarmUpProc, EvictProc, SampleProc, CloseProc, MarkDirtyProc, ResetProc
       DEF TreeStep
  <1>3. ASSUME NEW t \in Tree, OpenAlone(t) PROVE ProcInv'
    BY <1>3, OpenProc
  <1>4. CASE UNCHANGED procVars
    BY <1>4 DEF procVars, ProcInv, ProcTypes, OneOpen, HandedOut, WarmUpLeavesSlot, LastDraw,
           BucketSpanOfTree, PagesGoHome, BucketIndexInRange
  <1> QED BY <1>1, <1>2, <1>3, <1>4 DEF Next

\* The inductive invariant holds in every reachable state.
THEOREM ProcInvariant == Spec => []ProcInv
  BY InitProc, NextProc, PTL DEF Spec

\* The allocator never counts past its pool, and a call that samples is in the
\* dynamic phase.
THEOREM ProcessTypeCorrect == Spec => []ProcessTypeOK
  <1>1. ProcInv => ProcessTypeOK
    <2> SUFFICES ASSUME ProcInv PROVE ProcessTypeOK
      OBVIOUS
    <2>1. instance_ # None => /\ instance_.page_num_ \in 1 .. MaxPages
                              /\ instance_.head_idx_ \in 0 .. instance_.page_num_
      BY MaxPagesFacts DEF ProcInv, ProcTypes, HandedOut, PoolRec
    <2> QED BY <2>1 DEF ProcInv, ProcTypes, OneOpen, ProcessTypeOK, Page
  <1> QED BY <1>1, ProcInvariant, PTL

\* random_select neither divides by zero nor returns a slot outside the pool, for
\* whichever pool its distribution was made.
THEOREM DrawsAreInPool == Spec => []SelectInPool
  <1>1. ProcInv => SelectInPool
    BY DEF ProcInv, ProcTypes, LastDraw, SelectInPool
  <1> QED BY <1>1, ProcInvariant, PTL

\* A tree that samples and evicts has a pool that was handed out to the last slot.
THEOREM DynamicMeansHandedOut == Spec => []DynamicPoolHandedOut
  <1>1. ProcInv => DynamicPoolHandedOut
    <2> SUFFICES ASSUME ProcInv, NEW t \in Tree, life[t] = "open", state[t] = 1
                 PROVE  /\ instance_.head_idx_ = instance_.page_num_
                        /\ \A i \in 0 .. instance_.page_num_ - 1 : slot[i].tree # None
      BY DEF DynamicPoolHandedOut
    <2>1. instance_ # None /\ instance_.head_idx_ = instance_.page_num_
      BY DEF ProcInv, OneOpen, WarmUpLeavesSlot
    <2> QED BY <2>1 DEF ProcInv, HandedOut
  <1> QED BY <1>1, ProcInvariant, PTL

\* Every page is read from and written to the backend of its own tree.
THEOREM OwnBackend == Spec => []PagesGoHome
  <1>1. ProcInv => PagesGoHome
    BY DEF ProcInv
  <1> QED BY <1>1, ProcInvariant, PTL

\* The assertion of random_bucket_idx fails only for a table without buckets or
\* after a tree with more of them.
THEOREM AssertOnlyAfterLargerTable == Spec => []BucketIndexInRange
  <1>1. ProcInv => BucketIndexInRange
    BY DEF ProcInv
  <1> QED BY <1>1, ProcInvariant, PTL

\* get_empty_page finds a slot in the warm-up unless the pool is another tree's.
THEOREM WarmUpServed == Spec => []WarmUpFindsSlot
  <1>1. ProcInv => WarmUpFindsSlot
    <2> SUFFICES ASSUME ProcInv, NEW t \in Tree, call = t, state[t] = 0, ~HasPage
                 PROVE  \E i \in SlotIdx : slot[i].tree \notin {t, None}
      BY DEF WarmUpFindsSlot
    <2>1. life[t] = "open" /\ instance_ # None /\ instance_ \in PoolRec
      BY ProcessAssumption DEF ProcInv, OneOpen, ProcTypes
    <2>2. instance_.head_idx_ = instance_.page_num_
      BY <2>1, MaxPagesFacts DEF ProcInv, HandedOut, HasPage, PoolRec
    <2> QED BY <2>1, <2>2 DEF ProcInv, WarmUpLeavesSlot
  <1> QED BY <1>1, ProcInvariant, PTL

=============================================================================
