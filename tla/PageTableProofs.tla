--------------------------- MODULE PageTableProofs ---------------------------
(***************************************************************************)
(* Proofs about PageTable, for any addresses, pages, table size, bucket    *)
(* size and hash function: the chains stay well formed and the table       *)
(* implements the map PageMap.                                             *)
(*                                                                         *)
(* GoodChain, about one chain, is what every operation keeps.  Its core is *)
(* EntryFirst: a frame that carries a key, free or not, comes after the    *)
(* key's entry.  So a key has one entry, which the first match of every    *)
(* loop is.  The lemmas about Overwrite, Place and Release say what each   *)
(* does to a good chain and to what get finds in it.                       *)
(***************************************************************************)
EXTENDS PageTable, FiniteSetTheorems, SequenceTheorems, TLAPS

FrameT == [page_id_ : Addr, buffer_page_ : Value \union {Null}]
BucketT == [count_ : 0 .. CountWidth - 1, frame : [Entry -> FrameT]]
ChainT == Seq(BucketT) \ {<<>>}

\* The frames of a bucket that hold an entry.
LiveIn(b) == {i \in Entry : b.frame[i].buffer_page_ # Null}

\* count_ is their number, and an overflow bucket has one.
Counted(ch) ==
  \A b \in 1 .. Len(ch) : /\ ch[b].count_ = Cardinality(LiveIn(ch[b]))
                          /\ b > 1 => ch[b].count_ > 0
EntryFirst(ch) ==
  \A key \in Addr : \A p \in LiveFrames(ch, key), q \in NamedFrames(ch, key) : p = q \/ Before(p, q)

GoodChain(ch) == ch \in ChainT /\ Counted(ch) /\ EntryFirst(ch)

TableInv == table_ \in [Head_ -> ChainT] /\ \A b \in Head_ : GoodChain(table_[b])
RetBool == ret.ok \in BOOLEAN

-----------------------------------------------------------------------------
(* Arithmetic and finite sets *)

\* All that matters of the width of count_: a full bucket can be counted.
LEMMA WidthFacts ==
  /\ CountWidth \in Nat /\ num_entry_in_page_bucket \in Nat \ {0}
  /\ num_entry_in_page_bucket <= CountWidth - 1
  /\ 0 \in 0 .. CountWidth - 1 /\ 1 \in 0 .. CountWidth - 1
  <1>1. CountWidth \in Nat
    BY DEF CountWidth
  <1>2. num_entry_in_page_bucket \in 1 .. CountWidth - 1
    BY PageTableAssumption
  <1> QED BY <1>1, <1>2

\* The table has a bucket, and every address a bucket of the table.
LEMMA BucketInTable ==
  bucket_num_ \in Nat \ {0} /\ \A key \in Addr : get_bucket(key) \in Head_
  <1>1. num_entry_in_page_bucket \in Nat \ {0}
    BY WidthFacts
  <1> USE PageTableAssumption
  <1>2. \A e, n \in Nat \ {0} : e \div n \in Nat /\ (e % n = 0 => e \div n # 0)
    OBVIOUS
  <1>3. bucket_num_ \in Nat \ {0}
    BY <1>1, <1>2 DEF bucket_num_
  <1>4. \A h \in Nat, n \in Nat \ {0} : h % n \in 0 .. n - 1
    OBVIOUS
  <1> HIDE DEF bucket_num_
  <1> QED BY <1>3, <1>4 DEF get_bucket, Head_

\* A non-empty set of numbers has a least one.
LEMMA LeastNumber ==
  ASSUME NEW S \in SUBSET Nat, S # {}
  PROVE  \E m \in S : \A n \in S : m <= n
  <1>1. PICK m \in S : \A n \in S : ~(<<n, m>> \in OpToRel(<, Nat))
    BY NatLessThanWellFounded, WFMin
  <1>2. \A n \in S : ~(n < m)
    BY <1>1 DEF OpToRel
  <1> QED BY <1>2

\* The loops meet the frames one after the other: a set of frames has a first one.
LEMMA FirstOfFacts ==
  ASSUME NEW ch \in ChainT, NEW S \in SUBSET Frames(ch), S # {}
  PROVE  FirstOf(S) \in S /\ \A q \in S : FirstOf(S) = q \/ Before(FirstOf(S), q)
  <1>1. \A p \in S : p = <<p[1], p[2]>> /\ p[1] \in Nat /\ p[2] \in Nat
    BY DEF Frames, Entry
  <1>2. PICK m \in {p[1] : p \in S} : \A n \in {p[1] : p \in S} : m <= n
    <2>1. {p[1] : p \in S} \in SUBSET Nat /\ {p[1] : p \in S} # {}
      BY <1>1
    <2> QED BY <2>1, LeastNumber
  <1> DEFINE R == {p \in S : p[1] = m}
  <1>3. PICK k \in {p[2] : p \in R} : \A n \in {p[2] : p \in R} : k <= n
    <2>1. {p[2] : p \in R} \in SUBSET Nat /\ {p[2] : p \in R} # {}
      BY <1>1
    <2> QED BY <2>1, LeastNumber
  <1>4. PICK p \in R : p[2] = k
    OBVIOUS
  <1>5. \A q \in S : p = q \/ Before(p, q)
    <2> SUFFICES ASSUME NEW q \in S PROVE p = q \/ Before(p, q)
      OBVIOUS
    <2>1. p \in S /\ p[1] = m /\ m <= q[1]
      BY <1>2
    <2>2. CASE q[1] # m
      BY <1>1, <2>1, <2>2 DEF Before
    <2>3. CASE q[1] = m
      <3>1. q \in R /\ k <= q[2]
        BY <1>3, <2>3
      <3> QED BY <1>1, <1>4, <2>1, <2>3, <3>1 DEF Before
    <2> QED BY <2>2, <2>3
  <1>6. \E x \in S : \A q \in S : x = q \/ Before(x, q)
    BY <1>5
  <1> QED BY <1>6 DEF FirstOf

\* The frames of a chain.
LEMMA FrameTypes ==
  ASSUME NEW ch \in ChainT, NEW p \in Frames(ch)
  PROVE  /\ p[1] \in 1 .. Len(ch) /\ p[2] \in Entry /\ p = <<p[1], p[2]>>
         /\ ch[p[1]] \in BucketT /\ At(ch, p) \in FrameT
  <1>1. p[1] \in 1 .. Len(ch) /\ p[2] \in Entry /\ p = <<p[1], p[2]>>
    BY DEF Frames
  <1>2. ch[p[1]] \in BucketT
    BY <1>1, ElementOfSeq DEF ChainT
  <1>3. At(ch, p) \in FrameT
    BY <1>1, <1>2 DEF At, BucketT
  <1> QED BY <1>1, <1>2, <1>3

\* A key has one entry, and it is what every loop over the chain stops at.
LEMMA EntryUnique ==
  ASSUME NEW ch \in ChainT, EntryFirst(ch), NEW key \in Addr, NEW p \in LiveFrames(ch, key)
  PROVE  /\ p \in Frames(ch) /\ LiveFrames(ch, key) = {p}
         /\ FirstOf(LiveFrames(ch, key)) = p /\ FirstOf(NamedFrames(ch, key)) = p
         /\ get(ch, key) = At(ch, p).buffer_page_ /\ get(ch, key) # Null
  <1>1. /\ LiveFrames(ch, key) \in SUBSET NamedFrames(ch, key)
        /\ NamedFrames(ch, key) \in SUBSET Frames(ch)
    BY DEF LiveFrames, NamedFrames
  <1>2. \A q \in Frames(ch) : q[1] \in Int /\ q[2] \in Int
    BY DEF Frames, Entry
  <1>3. \A q \in NamedFrames(ch, key) : p = q \/ Before(p, q)
    BY DEF EntryFirst
  <1>4. \A x, y \in Frames(ch) : ~(Before(x, y) /\ Before(y, x))
    BY <1>2 DEF Before
  <1>5. \A q \in LiveFrames(ch, key) : q = p
    BY <1>1, <1>3, <1>4 DEF EntryFirst
  <1>6. LiveFrames(ch, key) = {p}
    BY <1>5
  <1>7. FirstOf(LiveFrames(ch, key)) = p
    BY <1>1, <1>6, FirstOfFacts
  <1>8. FirstOf(NamedFrames(ch, key)) = p
    <2>1. /\ FirstOf(NamedFrames(ch, key)) \in NamedFrames(ch, key)
          /\ FirstOf(NamedFrames(ch, key)) = p \/ Before(FirstOf(NamedFrames(ch, key)), p)
      BY <1>1, FirstOfFacts
    <2> QED BY <1>1, <1>3, <1>4, <2>1
  <1>9. get(ch, key) = At(ch, p).buffer_page_ /\ get(ch, key) # Null
    BY <1>6, <1>7 DEF get, LiveFrames
  <1> QED BY <1>1, <1>6, <1>7, <1>8, <1>9

\* What get finds, without its loop.
LEMMA GetFacts ==
  ASSUME NEW ch \in ChainT, EntryFirst(ch), NEW key \in Addr
  PROVE  /\ get(ch, key) \in Value \union {Null}
         /\ get(ch, key) = Null <=> LiveFrames(ch, key) = {}
         /\ \A p \in Frames(ch) :
              At(ch, p).page_id_ = key /\ At(ch, p).buffer_page_ # Null =>
                p \in LiveFrames(ch, key) /\ get(ch, key) = At(ch, p).buffer_page_
  <1>1. ASSUME NEW p \in Frames(ch) PROVE At(ch, p) \in FrameT
    BY FrameTypes
  <1>2. CASE LiveFrames(ch, key) = {}
    BY <1>2 DEF get, LiveFrames
  <1>3. CASE LiveFrames(ch, key) # {}
    <2>1. PICK p \in LiveFrames(ch, key) : TRUE
      BY <1>3
    <2>2. get(ch, key) # Null /\ get(ch, key) = At(ch, p).buffer_page_ /\ p \in Frames(ch)
      BY <2>1, EntryUnique
    <2>3. get(ch, key) \in Value
      BY <1>1, <2>2 DEF FrameT
    <2>4. ASSUME NEW q \in Frames(ch), At(ch, q).page_id_ = key, At(ch, q).buffer_page_ # Null
          PROVE  q \in LiveFrames(ch, key) /\ get(ch, key) = At(ch, q).buffer_page_
      <3>1. q \in LiveFrames(ch, key)
        BY <2>4 DEF LiveFrames
      <3> QED BY <3>1, EntryUnique
    <2> QED BY <1>3, <2>2, <2>3, <2>4
  <1> QED BY <1>2, <1>3

-----------------------------------------------------------------------------
(* The frames of a chain after an update *)

\* One frame and its bucket's count_ are written.
SetFrame(ch, p, f, c) ==
  [ch EXCEPT ![p[1]] = [count_ |-> c, frame |-> [ch[p[1]].frame EXCEPT ![p[2]] = f]]]

\* What that does to the chain.
Written(ch, p, f, c, new) ==
  /\ new \in ChainT /\ Len(new) = Len(ch)
  /\ \A q \in Frames(ch) : At(new, q) = IF q = p THEN f ELSE At(ch, q)
  /\ \A j \in 1 .. Len(ch) : j # p[1] => new[j] = ch[j]
  /\ new[p[1]].count_ = c
  /\ LiveIn(new[p[1]]) = IF f.buffer_page_ # Null THEN LiveIn(ch[p[1]]) \union {p[2]}
                                                   ELSE LiveIn(ch[p[1]]) \ {p[2]}

LEMMA SetFrameFacts ==
  ASSUME NEW ch \in ChainT, NEW p \in Frames(ch), NEW f \in FrameT, NEW c \in 0 .. CountWidth - 1
  PROVE  Written(ch, p, f, c, SetFrame(ch, p, f, c))
  <1> DEFINE i == p[1]
             fr == [ch[i].frame EXCEPT ![p[2]] = f]
             bucket == [count_ |-> c, frame |-> fr]
             new == SetFrame(ch, p, f, c)
  <1>1. i \in 1 .. Len(ch) /\ p[2] \in Entry /\ p = <<i, p[2]>> /\ ch[i] \in BucketT
    BY FrameTypes
  <1>2. fr \in [Entry -> FrameT] /\ \A k \in Entry : fr[k] = IF k = p[2] THEN f ELSE ch[i].frame[k]
    BY <1>1 DEF BucketT
  <1>3. bucket \in BucketT /\ bucket.count_ = c /\ bucket.frame = fr
    BY <1>2 DEF BucketT
  <1>4. new = [ch EXCEPT ![i] = bucket]
    BY DEF SetFrame
  <1> HIDE DEF i, fr, bucket, new
  <1>5. /\ new \in ChainT /\ Len(new) = Len(ch)
        /\ \A j \in 1 .. Len(ch) : new[j] = IF j = i THEN bucket ELSE ch[j]
    <2>1. i \in 1 .. Len(ch) /\ bucket \in BucketT /\ ch \in Seq(BucketT)
      BY <1>1, <1>3 DEF ChainT
    <2> QED BY <1>4, <2>1, ExceptSeq, EmptySeq DEF ChainT
  <1>6. ASSUME NEW q \in Frames(ch)
        PROVE  At(new, q) = IF q = p THEN f ELSE At(ch, q)
    <2>1. q[1] \in 1 .. Len(ch) /\ q[2] \in Entry /\ q = <<q[1], q[2]>>
      BY FrameTypes
    <2>2. CASE q[1] = i
      <3>1. At(new, q) = fr[q[2]]
        BY <1>3, <1>5, <2>1, <2>2 DEF At
      <3> QED BY <1>1, <1>2, <2>1, <2>2, <3>1 DEF At
    <2>3. CASE q[1] # i
      BY <1>1, <1>5, <2>1, <2>3 DEF At
    <2> QED BY <2>2, <2>3
  <1>7. new[i] = bucket
    BY <1>1, <1>5
  <1>8. LiveIn(new[i]) = IF f.buffer_page_ # Null THEN LiveIn(ch[i]) \union {p[2]}
                                                  ELSE LiveIn(ch[i]) \ {p[2]}
    BY <1>1, <1>2, <1>3, <1>7 DEF LiveIn
  <1> QED BY <1>3, <1>5, <1>6, <1>7, <1>8 DEF i, new, Written

\* The bytes of a released or overwritten frame: the key stays.
Holding(ch, p, v) == [page_id_ |-> At(ch, p).page_id_, buffer_page_ |-> v]

\* Overwrite, Clear and Fill each write one frame.
LEMMA WritesOneFrame ==
  ASSUME NEW ch \in ChainT, NEW p \in Frames(ch), NEW v \in Value \union {Null}
  PROVE  /\ Overwrite(ch, p, v) =
              SetFrame(ch, p, [page_id_ |-> At(ch, p).page_id_, buffer_page_ |-> v], ch[p[1]].count_)
         /\ [ch EXCEPT ![p[1]] = Clear(@, p[2])] =
              SetFrame(ch, p, [page_id_ |-> At(ch, p).page_id_, buffer_page_ |-> Null],
                       (ch[p[1]].count_ - 1) % CountWidth)
  <1> DEFINE i == p[1]
             B == ch[i]
             f(x) == [page_id_ |-> At(ch, p).page_id_, buffer_page_ |-> x]
             fr(x) == [B.frame EXCEPT ![p[2]] = f(x)]
  <1>1. i \in 1 .. Len(ch) /\ p[2] \in Entry /\ B \in BucketT /\ At(ch, p) = B.frame[p[2]]
    BY FrameTypes DEF At
  <1>2. \A x : [B.frame[p[2]] EXCEPT !.buffer_page_ = x] = f(x)
    BY <1>1 DEF BucketT, FrameT
  <1>3. \A x : [B.frame EXCEPT ![p[2]].buffer_page_ = x] = fr(x)
    BY <1>1, <1>2 DEF BucketT
  <1>4. Overwrite(ch, p, v) = SetFrame(ch, p, f(v), B.count_)
    <2>1. [B EXCEPT !.frame = fr(v)] = [count_ |-> B.count_, frame |-> fr(v)]
      BY <1>1 DEF BucketT
    <2>2. Overwrite(ch, p, v) =
            [ch EXCEPT ![i] = [B EXCEPT !.frame = [@ EXCEPT ![p[2]].buffer_page_ = v]]]
      BY DEF Overwrite
    <2> QED BY <1>3, <2>1, <2>2 DEF SetFrame
  <1>5. Clear(B, p[2]) = [count_ |-> (B.count_ - 1) % CountWidth, frame |-> fr(Null)]
    <2>1. Clear(B, p[2]) = [B EXCEPT !.count_ = (@ - 1) % CountWidth,
                                     !.frame = [@ EXCEPT ![p[2]].buffer_page_ = Null]]
      BY DEF Clear
    <2>2. Clear(B, p[2]) = [B EXCEPT !.count_ = (@ - 1) % CountWidth, !.frame = fr(Null)]
      BY <1>3, <2>1
    <2> QED BY <1>1, <2>2 DEF BucketT
  <1> QED BY <1>4, <1>5 DEF SetFrame

LEMMA OverwriteWrites ==
  ASSUME NEW ch \in ChainT, NEW p \in Frames(ch), NEW v \in Value
  PROVE  Overwrite(ch, p, v) = SetFrame(ch, p, Holding(ch, p, v), ch[p[1]].count_)
  BY WritesOneFrame, PageTableAssumption, Zenon DEF Holding

LEMMA PlaceWrites ==
  ASSUME NEW ch \in ChainT, FreeFrames(ch) # {}, NEW key \in Addr, NEW v \in Value,
         FirstFreeFrame(ch) \in Frames(ch)
  PROVE  Place(ch, key, v) =
           SetFrame(ch, FirstFreeFrame(ch), [page_id_ |-> key, buffer_page_ |-> v],
                    (ch[FirstFreeFrame(ch)[1]].count_ + 1) % CountWidth)
  <1> DEFINE p == FirstFreeFrame(ch)
             B == ch[p[1]]
             fr == [B.frame EXCEPT ![p[2]] = [page_id_ |-> key, buffer_page_ |-> v]]
  <1>1. Place(ch, key, v) = [ch EXCEPT ![p[1]] = Fill(B, p[2], key, v)]
    BY DEF Place
  <1>2. B \in BucketT
    BY FrameTypes
  <1>3. Fill(B, p[2], key, v) = [B EXCEPT !.count_ = (@ + 1) % CountWidth, !.frame = fr]
    BY DEF Fill
  <1> HIDE DEF fr
  <1>4. Fill(B, p[2], key, v) = [count_ |-> (B.count_ + 1) % CountWidth, frame |-> fr]
    BY <1>2, <1>3 DEF BucketT
  <1> QED BY <1>1, <1>4 DEF fr, SetFrame

LEMMA ReleaseWrites ==
  ASSUME NEW ch \in ChainT, NEW p \in Frames(ch)
  PROVE  Release(ch, p) =
           LET freed == SetFrame(ch, p, Holding(ch, p, Null), (ch[p[1]].count_ - 1) % CountWidth)
           IN IF freed[p[1]].count_ = 0 /\ p[1] # 1 THEN Unlink(freed, p[1]) ELSE freed
  BY WritesOneFrame, PageTableAssumption, Zenon DEF Release, Holding

-----------------------------------------------------------------------------
(* What the operations do to a good chain *)

\* The entries of a bucket can be counted in count_.
LEMMA LiveInFinite ==
  ASSUME NEW b
  PROVE  /\ IsFiniteSet(LiveIn(b)) /\ Cardinality(LiveIn(b)) \in 0 .. CountWidth - 1
         /\ \A i \in Entry \ LiveIn(b) : Cardinality(LiveIn(b)) + 1 \in 0 .. CountWidth - 1
  <1>0. /\ CountWidth \in Nat /\ num_entry_in_page_bucket \in Nat
        /\ 1 <= num_entry_in_page_bucket /\ num_entry_in_page_bucket <= CountWidth - 1
    BY WidthFacts
  <1>1. IsFiniteSet(Entry) /\ Cardinality(Entry) = num_entry_in_page_bucket
    <2>1. /\ IsFiniteSet(1 .. num_entry_in_page_bucket)
          /\ Cardinality(1 .. num_entry_in_page_bucket) =
               IF 1 > num_entry_in_page_bucket THEN 0 ELSE num_entry_in_page_bucket - 1 + 1
      BY <1>0, FS_Interval
    <2> QED BY <1>0, <2>1 DEF Entry
  <1>2. LiveIn(b) \in SUBSET Entry
    BY DEF LiveIn
  <1>3. /\ IsFiniteSet(LiveIn(b)) /\ Cardinality(LiveIn(b)) <= Cardinality(Entry)
        /\ Cardinality(Entry) = Cardinality(LiveIn(b)) => Entry = LiveIn(b)
    BY <1>1, <1>2, FS_Subset
  <1>4. Cardinality(LiveIn(b)) \in Nat
    BY <1>3, FS_CardinalityType
  <1> QED BY <1>0, <1>1, <1>3, <1>4

\* count_ does not wrap.
LEMMA SmallRemainder == \A n \in 0 .. CountWidth - 1 : n % CountWidth = n
  <1>1. \A w \in Nat \ {0} : \A n \in 0 .. w - 1 : n % w = n
    OBVIOUS
  <1>2. CountWidth \in Nat \ {0}
    BY WidthFacts
  <1> QED BY <1>1, <1>2

\* get finds the same page in two chains with the same entries for the key.
LEMMA GetAgrees ==
  ASSUME NEW ch \in ChainT, EntryFirst(ch), NEW new \in ChainT, EntryFirst(new), NEW key \in Addr,
         \A q \in LiveFrames(ch, key) : \E r \in LiveFrames(new, key) : At(new, r) = At(ch, q),
         LiveFrames(ch, key) = {} => LiveFrames(new, key) = {}
  PROVE  get(new, key) = get(ch, key)
  <1>1. CASE LiveFrames(ch, key) = {}
    BY <1>1, GetFacts
  <1>2. CASE LiveFrames(ch, key) # {}
    <2>1. PICK q \in LiveFrames(ch, key) : TRUE
      BY <1>2
    <2>2. PICK r \in LiveFrames(new, key) : At(new, r) = At(ch, q)
      BY <2>1
    <2>3. get(ch, key) = At(ch, q).buffer_page_
      BY EntryUnique
    <2>4. get(new, key) = At(new, r).buffer_page_
      BY EntryUnique
    <2> QED BY <2>2, <2>3, <2>4
  <1> QED BY <1>1, <1>2

\* update, RMW and upsert exchange the page of an entry.
LEMMA OverwriteGood ==
  ASSUME NEW ch, GoodChain(ch), NEW key \in Addr, NEW p \in LiveFrames(ch, key), NEW v \in Value
  PROVE  /\ GoodChain(Overwrite(ch, p, v))
         /\ \A k \in Addr : get(Overwrite(ch, p, v), k) = IF k = key THEN v ELSE get(ch, k)
  <1> DEFINE new == Overwrite(ch, p, v)
             f == Holding(ch, p, v)
             c == ch[p[1]].count_
  <1>1. ch \in ChainT /\ Counted(ch) /\ EntryFirst(ch)
    BY DEF GoodChain
  <1>2. p \in Frames(ch) /\ At(ch, p).page_id_ = key /\ At(ch, p).buffer_page_ # Null
    BY DEF LiveFrames
  <1>3. /\ p[1] \in 1 .. Len(ch) /\ p[2] \in Entry /\ At(ch, p) \in FrameT
        /\ c \in 0 .. CountWidth - 1 /\ At(ch, p) = ch[p[1]].frame[p[2]]
    BY <1>1, <1>2, FrameTypes DEF BucketT, At
  <1>4. f \in FrameT /\ f.page_id_ = key /\ f.buffer_page_ = v /\ v # Null
    BY <1>2, <1>3, PageTableAssumption DEF FrameT, Holding
  <1>5. new = SetFrame(ch, p, f, c)
    BY <1>1, <1>2, OverwriteWrites
  <1> HIDE DEF new, f, c
  <1>6. /\ new \in ChainT /\ Len(new) = Len(ch)
        /\ \A q \in Frames(ch) : At(new, q) = IF q = p THEN f ELSE At(ch, q)
        /\ \A j \in 1 .. Len(ch) : j # p[1] => new[j] = ch[j]
        /\ new[p[1]].count_ = c
        /\ LiveIn(new[p[1]]) = LiveIn(ch[p[1]]) \union {p[2]}
    <2>1. Written(ch, p, f, c, new)
      BY <1>1, <1>2, <1>3, <1>4, <1>5, SetFrameFacts
    <2> QED BY <1>4, <2>1 DEF Written
  <1>7. Frames(new) = Frames(ch)
    BY <1>6 DEF Frames
  <1>8. \A k \in Addr : /\ LiveFrames(new, k) = LiveFrames(ch, k)
                        /\ NamedFrames(new, k) = NamedFrames(ch, k)
    BY <1>2, <1>4, <1>6, <1>7 DEF LiveFrames, NamedFrames
  <1>9. EntryFirst(new)
    BY <1>1, <1>8 DEF EntryFirst
  <1>10. Counted(new)
    <2>1. LiveIn(new[p[1]]) = LiveIn(ch[p[1]])
      BY <1>2, <1>3, <1>6 DEF LiveIn
    <2> QED BY <1>1, <1>3, <1>6, <2>1 DEF Counted, c
  <1>11. get(new, key) = v
    <2>1. p \in LiveFrames(new, key) /\ At(new, p) = f
      BY <1>2, <1>6, <1>8
    <2> QED BY <1>4, <1>6, <1>9, <2>1, EntryUnique
  <1>12. ASSUME NEW k \in Addr, k # key PROVE get(new, k) = get(ch, k)
    <2>1. \A q \in LiveFrames(ch, k) : q \in Frames(ch) /\ q # p
      BY <1>2, <1>12 DEF LiveFrames
    <2>2. \A q \in LiveFrames(ch, k) : At(new, q) = At(ch, q)
      BY <1>6, <2>1
    <2> QED BY <1>1, <1>6, <1>8, <1>9, <2>2, GetAgrees
  <1> QED BY <1>6, <1>9, <1>10, <1>11, <1>12 DEF GoodChain, new


\* insert and upsert put a new entry into the first free frame ...
LEMMA FillGood ==
  ASSUME NEW ch, GoodChain(ch), NEW key \in Addr, LiveFrames(ch, key) = {}, NEW v \in Value,
         FreeFrames(ch) # {}
  PROVE  /\ GoodChain(Place(ch, key, v))
         /\ \A k \in Addr : get(Place(ch, key, v), k) = IF k = key THEN v ELSE get(ch, k)
  <1> DEFINE new == Place(ch, key, v)
             p == FirstFreeFrame(ch)
             f == [page_id_ |-> key, buffer_page_ |-> v]
             c == (ch[p[1]].count_ + 1) % CountWidth
  <1>1. ch \in ChainT /\ Counted(ch) /\ EntryFirst(ch)
    BY DEF GoodChain
  <1>2. p \in FreeFrames(ch) /\ \A q \in FreeFrames(ch) : p = q \/ Before(p, q)
    <2>1. FreeFrames(ch) \in SUBSET Frames(ch)
      BY DEF FreeFrames
    <2> QED BY <1>1, <2>1, FirstOfFacts DEF FirstFreeFrame
  <1>3. p \in Frames(ch) /\ At(ch, p).buffer_page_ = Null
    BY <1>2 DEF FreeFrames
  <1>4. /\ p[1] \in 1 .. Len(ch) /\ p[2] \in Entry
        /\ At(ch, p) = ch[p[1]].frame[p[2]]
    BY <1>1, <1>3, FrameTypes DEF At
  <1>5. f \in FrameT /\ f.page_id_ = key /\ f.buffer_page_ = v /\ v # Null
    BY PageTableAssumption DEF FrameT
  <1>6. c \in 0 .. CountWidth - 1 /\ c = Cardinality(LiveIn(ch[p[1]]) \union {p[2]}) /\ c > 0
    <2>1. p[2] \in Entry \ LiveIn(ch[p[1]])
      BY <1>3, <1>4 DEF LiveIn
    <2>2. IsFiniteSet(LiveIn(ch[p[1]])) /\ Cardinality(LiveIn(ch[p[1]])) \in 0 .. CountWidth - 1
      BY LiveInFinite
    <2>3. Cardinality(LiveIn(ch[p[1]])) + 1 \in 0 .. CountWidth - 1
      BY <2>1, LiveInFinite
    <2>4. Cardinality(LiveIn(ch[p[1]]) \union {p[2]}) = Cardinality(LiveIn(ch[p[1]])) + 1
      BY <2>1, <2>2, FS_AddElement
    <2>5. ch[p[1]].count_ = Cardinality(LiveIn(ch[p[1]]))
      BY <1>1, <1>4 DEF Counted
    <2>6. c = Cardinality(LiveIn(ch[p[1]])) + 1
      BY <2>2, <2>3, <2>5, SmallRemainder
    <2> QED BY <2>2, <2>3, <2>4, <2>6
  <1>7. new = SetFrame(ch, p, f, c)
    BY <1>1, <1>3, PlaceWrites
  <1> HIDE DEF new, p, f, c
  <1>8. /\ new \in ChainT /\ Len(new) = Len(ch)
        /\ \A q \in Frames(ch) : At(new, q) = IF q = p THEN f ELSE At(ch, q)
        /\ \A j \in 1 .. Len(ch) : j # p[1] => new[j] = ch[j]
        /\ new[p[1]].count_ = c
        /\ LiveIn(new[p[1]]) = LiveIn(ch[p[1]]) \union {p[2]}
    <2>1. Written(ch, p, f, c, new)
      BY <1>1, <1>3, <1>5, <1>6, <1>7, SetFrameFacts
    <2> QED BY <1>5, <2>1 DEF Written
  <1>9. Frames(new) = Frames(ch)
    BY <1>8 DEF Frames
  <1>10. /\ LiveFrames(new, key) = {p}
         /\ \A q \in NamedFrames(new, key) : p = q \/ Before(p, q)
    <2>1. p \in LiveFrames(new, key)
      BY <1>3, <1>5, <1>8, <1>9 DEF LiveFrames
    <2>2. ASSUME NEW q \in NamedFrames(new, key), q # p PROVE q \in FreeFrames(ch)
      BY <1>8, <1>9, <2>2 DEF NamedFrames, FreeFrames, LiveFrames
    <2>3. \A q \in LiveFrames(new, key) : q = p
      <3> SUFFICES ASSUME NEW q \in LiveFrames(new, key), q # p PROVE FALSE
        OBVIOUS
      <3>1. q \in NamedFrames(new, key)
        BY DEF NamedFrames, LiveFrames
      <3> QED BY <1>8, <1>9, <2>2, <3>1 DEF FreeFrames, LiveFrames
    <2> QED BY <1>2, <2>1, <2>2, <2>3
  <1>11. ASSUME NEW k \in Addr, k # key
         PROVE  /\ LiveFrames(new, k) = LiveFrames(ch, k)
                /\ NamedFrames(new, k) \in SUBSET NamedFrames(ch, k)
                /\ \A q \in LiveFrames(ch, k) : At(new, q) = At(ch, q)
    BY <1>3, <1>5, <1>8, <1>9, <1>11 DEF LiveFrames, NamedFrames
  <1>12. EntryFirst(new)
    <2> SUFFICES ASSUME NEW k \in Addr, NEW x \in LiveFrames(new, k), NEW y \in NamedFrames(new, k)
                 PROVE  x = y \/ Before(x, y)
      BY DEF EntryFirst
    <2>1. CASE k = key
      BY <1>10, <2>1
    <2>2. CASE k # key
      BY <1>1, <1>11, <2>2 DEF EntryFirst
    <2> QED BY <2>1, <2>2
  <1>13. Counted(new)
    BY <1>1, <1>4, <1>6, <1>8 DEF Counted
  <1>14. get(new, key) = v
    <2>1. p \in LiveFrames(new, key) /\ At(new, p) = f
      BY <1>3, <1>8, <1>10
    <2> QED BY <1>5, <1>8, <1>12, <2>1, EntryUnique
  <1>15. ASSUME NEW k \in Addr, k # key PROVE get(new, k) = get(ch, k)
    BY <1>1, <1>8, <1>11, <1>12, <1>15, GetAgrees
  <1> QED BY <1>8, <1>12, <1>13, <1>14, <1>15 DEF GoodChain, new

\* ... or into a new bucket at the end of the chain.
LEMMA AppendGood ==
  ASSUME NEW ch, GoodChain(ch), NEW key \in Addr, LiveFrames(ch, key) = {}, NEW v \in Value,
         FreeFrames(ch) = {}
  PROVE  /\ GoodChain(Place(ch, key, v))
         /\ \A k \in Addr : get(Place(ch, key, v), k) = IF k = key THEN v ELSE get(ch, k)
  <1> DEFINE new == Place(ch, key, v)
             f == [page_id_ |-> key, buffer_page_ |-> v]
             zero == [page_id_ |-> 0, buffer_page_ |-> Null]
             fr == [i \in Entry |-> IF i = 1 THEN f ELSE zero]
             B == Fill(ZeroBucket, 1, key, v)
             n == Len(ch)
             p == <<n + 1, 1>>
  <1>1. ch \in ChainT /\ Counted(ch) /\ EntryFirst(ch) /\ ch \in Seq(BucketT) /\ n \in Nat
    BY LenProperties DEF GoodChain, ChainT
  <1>2. /\ f \in FrameT /\ f.page_id_ = key /\ f.buffer_page_ = v /\ v # Null
        /\ zero \in FrameT /\ zero.buffer_page_ = Null
    BY PageTableAssumption DEF FrameT
  <1>3. 1 \in Entry
    BY WidthFacts DEF Entry
  <1>4. B = [count_ |-> 1, frame |-> fr]
    <2>1. [[i \in Entry |-> zero] EXCEPT ![1] = f] = fr
      BY <1>3
    <2>2. B = [ZeroBucket EXCEPT !.count_ = (@ + 1) % CountWidth,
                                 !.frame = [[i \in Entry |-> zero] EXCEPT ![1] = f]]
      BY DEF Fill, ZeroBucket
    <2>3. (0 + 1) % CountWidth = 1
      BY WidthFacts, SmallRemainder
    <2> HIDE DEF fr
    <2> QED BY <2>1, <2>2, <2>3 DEF ZeroBucket
  <1>5. new = Append(ch, B)
    BY DEF Place
  <1> HIDE DEF zero, f, B
  <1>6. fr \in [Entry -> FrameT] /\ fr[1] = f /\ \A i \in Entry : i # 1 => fr[i] = zero
    BY <1>2, <1>3
  <1> HIDE DEF fr
  <1>7. B \in BucketT /\ B.count_ = 1 /\ B.frame = fr
    BY <1>4, <1>6, WidthFacts DEF BucketT
  <1>8. /\ new \in ChainT /\ Len(new) = n + 1
        /\ \A j \in 1 .. n : new[j] = ch[j]
        /\ new[n + 1] = B
    <2>1. /\ new \in Seq(BucketT) /\ Len(new) = n + 1 /\ new[n + 1] = B
          /\ \A j \in 1 .. n : new[j] = ch[j]
      BY <1>1, <1>5, <1>7, AppendProperties
    <2> QED BY <1>1, <2>1, EmptySeq DEF ChainT
  <1> HIDE DEF new, n
  <1>9. /\ Frames(ch) \in SUBSET Frames(new) /\ p \in Frames(new)
        /\ \A q \in Frames(ch) : At(new, q) = At(ch, q)
        /\ \A q \in Frames(new) : q \notin Frames(ch) =>
             q[1] = n + 1 /\ q[2] \in Entry /\ q = <<q[1], q[2]>>
    BY <1>1, <1>3, <1>8 DEF Frames, At, n
  <1>10. /\ At(new, p) = f
         /\ \A q \in Frames(new) : q \notin Frames(ch) /\ q # p => At(new, q) = zero
    BY <1>6, <1>7, <1>8, <1>9 DEF At
  <1>11. \A q \in Frames(ch) : q[1] \in 1 .. n /\ q[2] \in Entry /\ q # p
    BY <1>1 DEF Frames, n
  <1>12. \A q \in Frames(ch) : \A r \in Frames(new) : r \notin Frames(ch) => Before(q, r)
    BY <1>1, <1>9, <1>11 DEF Before
  <1>13. /\ LiveFrames(new, key) = {p}
         /\ \A q \in NamedFrames(new, key) : p = q \/ Before(p, q)
    <2>1. p \in LiveFrames(new, key)
      BY <1>2, <1>9, <1>10 DEF LiveFrames
    <2>2. \A q \in NamedFrames(new, key) : q \notin Frames(ch)
      BY <1>9 DEF NamedFrames, FreeFrames, LiveFrames
    <2>3. \A q \in LiveFrames(new, key) : q = p
      <3> SUFFICES ASSUME NEW q \in LiveFrames(new, key), q # p PROVE FALSE
        OBVIOUS
      <3>1. q \in NamedFrames(new, key) /\ q \in Frames(new) /\ At(new, q).buffer_page_ # Null
        BY DEF NamedFrames, LiveFrames
      <3> QED BY <1>2, <1>10, <2>2, <3>1
    <2>4. ASSUME NEW q \in NamedFrames(new, key), q # p PROVE Before(p, q)
      <3>1. q[1] = n + 1 /\ q[2] \in Entry /\ q = <<q[1], q[2]>>
        BY <1>9, <2>2 DEF NamedFrames
      <3>2. q[2] \in Nat /\ q[2] > 1
        BY <2>4, <3>1 DEF Entry
      <3> QED BY <1>1, <3>1, <3>2 DEF Before
    <2> QED BY <2>1, <2>3, <2>4
  <1>14. ASSUME NEW k \in Addr, k # key
         PROVE  /\ LiveFrames(new, k) = LiveFrames(ch, k)
                /\ \A q \in NamedFrames(new, k) : q \in NamedFrames(ch, k) \/ q \notin Frames(ch)
                /\ \A q \in LiveFrames(ch, k) : At(new, q) = At(ch, q) /\ q \in Frames(ch)
    <2>1. \A q \in LiveFrames(new, k) : q \in Frames(ch)
      BY <1>2, <1>9, <1>10, <1>14 DEF LiveFrames
    <2> QED BY <1>9, <2>1 DEF LiveFrames, NamedFrames
  <1>15. EntryFirst(new)
    <2> SUFFICES ASSUME NEW k \in Addr, NEW x \in LiveFrames(new, k), NEW y \in NamedFrames(new, k)
                 PROVE  x = y \/ Before(x, y)
      BY DEF EntryFirst
    <2>1. CASE k = key
      BY <1>13, <2>1
    <2>2. CASE k # key
      <3>1. x \in LiveFrames(ch, k) /\ x \in Frames(ch) /\ y \in Frames(new)
        BY <1>14, <2>2 DEF NamedFrames
      <3>2. CASE y \in NamedFrames(ch, k)
        BY <1>1, <3>1, <3>2 DEF EntryFirst
      <3>3. CASE y \notin Frames(ch)
        BY <1>12, <3>1, <3>3
      <3> QED BY <1>14, <2>2, <3>2, <3>3
    <2> QED BY <2>1, <2>2
  <1>16. Counted(new)
    <2>1. LiveIn(B) = {1}
      BY <1>2, <1>3, <1>6, <1>7 DEF LiveIn
    <2>2. B.count_ = Cardinality(LiveIn(B)) /\ B.count_ > 0
      BY <1>7, <2>1, FS_Singleton
    <2> QED BY <1>1, <1>8, <2>2 DEF Counted, n
  <1>17. get(new, key) = v
    <2>1. p \in LiveFrames(new, key)
      BY <1>13
    <2> QED BY <1>2, <1>8, <1>10, <1>15, <2>1, EntryUnique
  <1>18. ASSUME NEW k \in Addr, k # key PROVE get(new, k) = get(ch, k)
    BY <1>1, <1>8, <1>14, <1>15, <1>18, GetAgrees
  <1> QED BY <1>8, <1>15, <1>16, <1>17, <1>18 DEF GoodChain, new

LEMMA PlaceGood ==
  ASSUME NEW ch, GoodChain(ch), NEW key \in Addr, LiveFrames(ch, key) = {}, NEW v \in Value
  PROVE  /\ GoodChain(Place(ch, key, v))
         /\ \A k \in Addr : get(Place(ch, key, v), k) = IF k = key THEN v ELSE get(ch, k)
  BY FillGood, AppendGood

\* The frames of a chain without the bucket b, and where they were.
Was(b, q) == IF q[1] < b THEN q ELSE <<q[1] + 1, q[2]>>

\* Unlinking an empty overflow bucket changes nothing for the other entries.
LEMMA UnlinkGood ==
  ASSUME NEW ch \in ChainT, EntryFirst(ch), NEW b \in 2 .. Len(ch), LiveIn(ch[b]) = {},
         \A j \in 1 .. Len(ch) : j # b => /\ ch[j].count_ = Cardinality(LiveIn(ch[j]))
                                          /\ j > 1 => ch[j].count_ > 0
  PROVE  /\ GoodChain(Unlink(ch, b))
         /\ \A k \in Addr : get(Unlink(ch, b), k) = get(ch, k)
  <1> DEFINE new == Unlink(ch, b)
             n == Len(ch)
  <1>1. ch \in Seq(BucketT) /\ n \in Nat /\ n >= 2 /\ b \in Nat /\ b >= 2 /\ b <= n
    BY LenProperties DEF ChainT
  <1>2. \A j \in 1 .. n : ch[j] \in BucketT
    BY <1>1, ElementOfSeq
  <1>3. /\ new \in Seq(BucketT) /\ Len(new) = n - 1
        /\ \A j \in 1 .. n - 1 : new[j] = IF j < b THEN ch[j] ELSE ch[j + 1]
    <2>1. new \in [1 .. n - 1 -> BucketT]
      BY <1>1, <1>2 DEF Unlink
    <2>2. Len(new) = n - 1 /\ new \in Seq(BucketT)
      BY <1>1, <2>1, LenProperties, SeqDef
    <2> QED BY <2>2 DEF Unlink
  <1>4. new \in ChainT
    BY <1>1, <1>3, EmptySeq DEF ChainT
  <1> HIDE DEF new, n
  <1>5. ASSUME NEW q \in Frames(new)
        PROVE  /\ q[1] \in 1 .. n - 1 /\ q[2] \in Entry /\ q = <<q[1], q[2]>>
               /\ Was(b, q) \in Frames(ch) /\ Was(b, q)[1] # b /\ At(new, q) = At(ch, Was(b, q))
    <2>1. q[1] \in 1 .. n - 1 /\ q[2] \in Entry /\ q = <<q[1], q[2]>>
      BY <1>3 DEF Frames
    <2>2. CASE q[1] < b
      BY <1>1, <1>3, <2>1, <2>2 DEF Was, Frames, At, n
    <2>3. CASE ~(q[1] < b)
      BY <1>1, <1>3, <2>1, <2>3 DEF Was, Frames, At, n
    <2> QED BY <2>1, <2>2, <2>3
  <1>6. ASSUME NEW q \in Frames(ch), q[1] # b
        PROVE  \E r \in Frames(new) : Was(b, r) = q
    <2>1. q[1] \in 1 .. n /\ q[2] \in Entry /\ q = <<q[1], q[2]>>
      BY DEF Frames, n
    <2>2. CASE q[1] < b
      <3>1. q \in Frames(new) /\ Was(b, q) = q
        BY <1>1, <1>3, <2>1, <2>2 DEF Was, Frames
      <3> QED BY <3>1
    <2>3. CASE q[1] > b
      <3>1. <<q[1] - 1, q[2]>> \in Frames(new) /\ Was(b, <<q[1] - 1, q[2]>>) = q
        BY <1>1, <1>3, <2>1, <2>3 DEF Was, Frames
      <3> QED BY <3>1
    <2> QED BY <1>1, <1>6, <2>1, <2>2, <2>3
  <1>7. ASSUME NEW x \in Frames(new), NEW y \in Frames(new)
        PROVE  /\ Was(b, x) = Was(b, y) => x = y
               /\ Before(Was(b, x), Was(b, y)) => Before(x, y)
    <2>1. /\ x[1] \in Nat /\ x[2] \in Nat /\ x = <<x[1], x[2]>>
          /\ y[1] \in Nat /\ y[2] \in Nat /\ y = <<y[1], y[2]>>
      BY <1>1, <1>5 DEF Entry
    <2>2. \A z \in {x, y} : /\ Was(b, z)[2] = z[2]
                            /\ z[1] < b => Was(b, z)[1] = z[1]
                            /\ ~(z[1] < b) => Was(b, z)[1] = z[1] + 1
      BY <2>1 DEF Was
    <2>3. Was(b, x)[1] = Was(b, y)[1] => x[1] = y[1]
      BY <1>1, <2>1, <2>2
    <2>4. Was(b, x)[1] < Was(b, y)[1] => x[1] < y[1]
      BY <1>1, <2>1, <2>2
    <2> QED BY <2>1, <2>2, <2>3, <2>4 DEF Before
  <1>8. ASSUME NEW k \in Addr, NEW q \in Frames(new)
        PROVE  /\ q \in LiveFrames(new, k) <=> Was(b, q) \in LiveFrames(ch, k)
               /\ q \in NamedFrames(new, k) <=> Was(b, q) \in NamedFrames(ch, k)
    BY <1>5 DEF LiveFrames, NamedFrames
  <1>9. ASSUME NEW k \in Addr, NEW q \in LiveFrames(ch, k)
        PROVE  \E r \in LiveFrames(new, k) : Was(b, r) = q
    <2>1. q \in Frames(ch) /\ At(ch, q).buffer_page_ # Null /\ q[2] \in Entry
      BY DEF LiveFrames, Frames
    <2>2. q[1] # b
      BY <2>1 DEF LiveIn, At
    <2> QED BY <1>6, <1>8, <2>1, <2>2
  <1>10. EntryFirst(new)
    <2> SUFFICES ASSUME NEW k \in Addr, NEW x \in LiveFrames(new, k), NEW y \in NamedFrames(new, k)
                 PROVE  x = y \/ Before(x, y)
      BY DEF EntryFirst
    <2>1. x \in Frames(new) /\ y \in Frames(new)
      BY DEF LiveFrames, NamedFrames
    <2>2. Was(b, x) = Was(b, y) \/ Before(Was(b, x), Was(b, y))
      BY <1>8, <2>1 DEF EntryFirst
    <2> QED BY <1>7, <2>1, <2>2
  <1>11. Counted(new)
    <2> SUFFICES ASSUME NEW j \in 1 .. n - 1
                 PROVE  new[j].count_ = Cardinality(LiveIn(new[j])) /\ (j > 1 => new[j].count_ > 0)
      BY <1>3 DEF Counted
    <2>1. CASE j < b
      BY <1>1, <1>3, <2>1 DEF n
    <2>2. CASE ~(j < b)
      <3>1. j + 1 \in 1 .. Len(ch) /\ j + 1 # b /\ j + 1 > 1 /\ new[j] = ch[j + 1]
        BY <1>1, <1>3, <2>2 DEF n
      <3> QED BY <3>1
    <2> QED BY <2>1, <2>2
  <1>12. ASSUME NEW k \in Addr PROVE get(new, k) = get(ch, k)
    <2>1. \A q \in LiveFrames(ch, k) : \E r \in LiveFrames(new, k) : At(new, r) = At(ch, q)
      BY <1>5, <1>9 DEF LiveFrames
    <2>2. \A r \in LiveFrames(new, k) : Was(b, r) \in LiveFrames(ch, k)
      BY <1>8 DEF LiveFrames
    <2> QED BY <1>4, <1>10, <2>1, <2>2, GetAgrees
  <1> QED BY <1>4, <1>10, <1>11, <1>12 DEF GoodChain, new

\* remove takes an entry out, and with it a bucket that is left empty.
LEMMA ReleaseGood ==
  ASSUME NEW ch, GoodChain(ch), NEW key \in Addr, NEW p \in LiveFrames(ch, key)
  PROVE  /\ GoodChain(Release(ch, p))
         /\ \A k \in Addr : get(Release(ch, p), k) = IF k = key THEN Null ELSE get(ch, k)
  <1> DEFINE f == Holding(ch, p, Null)
             c == (ch[p[1]].count_ - 1) % CountWidth
             freed == SetFrame(ch, p, f, c)
  <1>1. ch \in ChainT /\ Counted(ch) /\ EntryFirst(ch)
    BY DEF GoodChain
  <1>2. p \in Frames(ch) /\ At(ch, p).page_id_ = key /\ At(ch, p).buffer_page_ # Null
    BY DEF LiveFrames
  <1>3. /\ p[1] \in 1 .. Len(ch) /\ p[2] \in Entry /\ At(ch, p) \in FrameT
        /\ At(ch, p) = ch[p[1]].frame[p[2]]
    BY <1>1, <1>2, FrameTypes DEF At
  <1>4. f \in FrameT /\ f.page_id_ = key /\ f.buffer_page_ = Null
    BY <1>2, <1>3 DEF FrameT, Holding
  <1>5. c \in 0 .. CountWidth - 1 /\ c = Cardinality(LiveIn(ch[p[1]]) \ {p[2]})
    <2>1. p[2] \in LiveIn(ch[p[1]])
      BY <1>2, <1>3 DEF LiveIn
    <2>2. IsFiniteSet(LiveIn(ch[p[1]])) /\ Cardinality(LiveIn(ch[p[1]])) \in 0 .. CountWidth - 1
      BY LiveInFinite
    <2>3. /\ Cardinality(LiveIn(ch[p[1]]) \ {p[2]}) = Cardinality(LiveIn(ch[p[1]])) - 1
          /\ IsFiniteSet(LiveIn(ch[p[1]]) \ {p[2]})
      BY <2>1, <2>2, FS_RemoveElement
    <2>4. Cardinality(LiveIn(ch[p[1]]) \ {p[2]}) \in Nat
      BY <2>3, FS_CardinalityType
    <2>5. ch[p[1]].count_ = Cardinality(LiveIn(ch[p[1]]))
      BY <1>1, <1>3 DEF Counted
    <2>6. Cardinality(LiveIn(ch[p[1]])) - 1 \in 0 .. CountWidth - 1
      <3>1. CountWidth \in Nat
        BY WidthFacts
      <3> QED BY <2>2, <2>3, <2>4, <3>1
    <2> QED BY <2>3, <2>5, <2>6, SmallRemainder
  <1>6. Release(ch, p) = IF freed[p[1]].count_ = 0 /\ p[1] # 1 THEN Unlink(freed, p[1]) ELSE freed
    BY <1>1, <1>2, ReleaseWrites
  <1> HIDE DEF f, c
  <1>7. /\ freed \in ChainT /\ Len(freed) = Len(ch)
        /\ \A q \in Frames(ch) : At(freed, q) = IF q = p THEN f ELSE At(ch, q)
        /\ \A j \in 1 .. Len(ch) : j # p[1] => freed[j] = ch[j]
        /\ freed[p[1]].count_ = c
        /\ LiveIn(freed[p[1]]) = LiveIn(ch[p[1]]) \ {p[2]}
    <2>1. Written(ch, p, f, c, freed)
      BY <1>1, <1>2, <1>4, <1>5, SetFrameFacts
    <2> QED BY <1>4, <2>1 DEF Written
  <1> HIDE DEF freed
  <1>8. Frames(freed) = Frames(ch)
    BY <1>7 DEF Frames
  <1>9. /\ LiveFrames(freed, key) = {}
        /\ \A k \in Addr : LiveFrames(freed, k) \in SUBSET LiveFrames(ch, k)
        /\ \A k \in Addr : NamedFrames(freed, k) = NamedFrames(ch, k)
    <2>1. LiveFrames(ch, key) = {p}
      BY <1>1, EntryUnique
    <2> QED BY <1>2, <1>4, <1>7, <1>8, <2>1 DEF LiveFrames, NamedFrames
  <1>10. ASSUME NEW k \in Addr, k # key
         PROVE  /\ LiveFrames(freed, k) = LiveFrames(ch, k)
                /\ \A q \in LiveFrames(ch, k) : At(freed, q) = At(ch, q)
    <2>1. \A q \in Frames(ch) : At(ch, q).page_id_ = k => At(freed, q) = At(ch, q)
      BY <1>2, <1>7, <1>10
    <2>2. \A q \in LiveFrames(ch, k) : q \in LiveFrames(freed, k) /\ At(freed, q) = At(ch, q)
      BY <1>8, <2>1 DEF LiveFrames
    <2> QED BY <1>9, <2>2
  <1>11. EntryFirst(freed)
    BY <1>1, <1>9 DEF EntryFirst
  <1>12. \A k \in Addr : get(freed, k) = IF k = key THEN Null ELSE get(ch, k)
    <2>1. get(freed, key) = Null
      BY <1>7, <1>9, <1>11, GetFacts
    <2>2. ASSUME NEW k \in Addr, k # key PROVE get(freed, k) = get(ch, k)
      BY <1>1, <1>7, <1>10, <1>11, <2>2, GetAgrees
    <2> QED BY <2>1, <2>2
  <1>13. \A j \in 1 .. Len(freed) : /\ freed[j].count_ = Cardinality(LiveIn(freed[j]))
                                    /\ j > 1 /\ j # p[1] => freed[j].count_ > 0
    BY <1>1, <1>3, <1>5, <1>7 DEF Counted
  <1>14. CASE c = 0 /\ p[1] # 1
    <2>1. p[1] \in 2 .. Len(freed) /\ Release(ch, p) = Unlink(freed, p[1])
      BY <1>3, <1>6, <1>7, <1>14
    <2>2. LiveIn(freed[p[1]]) = {}
      BY <1>3, <1>7, <1>13, <1>14, LiveInFinite, FS_EmptySet
    <2> QED BY <1>7, <1>11, <1>12, <1>13, <2>1, <2>2, UnlinkGood
  <1>15. CASE ~(c = 0 /\ p[1] # 1)
    <2>1. Release(ch, p) = freed
      BY <1>6, <1>7, <1>15
    <2>2. Counted(freed)
      BY <1>5, <1>7, <1>13, <1>15 DEF Counted
    <2> QED BY <1>7, <1>11, <1>12, <2>1, <2>2 DEF GoodChain
  <1> QED BY <1>14, <1>15

-----------------------------------------------------------------------------
(* The operations *)

\* The chain an operation works on, and the entry it finds there.
LEMMA ChainFacts ==
  ASSUME TableInv, NEW key \in Addr
  PROVE  /\ GoodChain(Chain(key)) /\ MapOf[key] = get(Chain(key), key)
         /\ MapOf[key] = Null <=> LiveFrames(Chain(key), key) = {}
  <1>1. GoodChain(Chain(key))
    BY BucketInTable DEF Chain, TableInv
  <1>2. MapOf[key] = get(Chain(key), key)
    BY DEF MapOf
  <1> QED BY <1>1, <1>2, GetFacts DEF GoodChain

\* The entry of a key, whichever way an operation looks for it.
LEMMA EntryFound ==
  ASSUME TableInv, NEW key \in Addr, MapOf[key] # Null
  PROVE  /\ FirstOf(LiveFrames(Chain(key), key)) \in LiveFrames(Chain(key), key)
         /\ LiveFrames(Chain(key), key) = {FirstOf(LiveFrames(Chain(key), key))}
         /\ FirstOf(NamedFrames(Chain(key), key)) = FirstOf(LiveFrames(Chain(key), key))
         /\ MapOf[key] = At(Chain(key), FirstOf(LiveFrames(Chain(key), key))).buffer_page_
  <1>1. /\ GoodChain(Chain(key)) /\ MapOf[key] = get(Chain(key), key)
        /\ LiveFrames(Chain(key), key) # {}
    BY ChainFacts
  <1>2. PICK p \in LiveFrames(Chain(key), key) : TRUE
    BY <1>1
  <1> QED BY <1>1, <1>2, EntryUnique DEF GoodChain

\* remove(key, value) and RMW look for a pair: the key's entry, or nothing.
LEMMA PairFound ==
  ASSUME TableInv, NEW key \in Addr, NEW value \in Value
  PROVE  /\ PairFrames(Chain(key), key, value) = {} <=> MapOf[key] # value
         /\ MapOf[key] = value =>
              FirstOf(PairFrames(Chain(key), key, value)) \in LiveFrames(Chain(key), key)
  <1> DEFINE ch == Chain(key)
             pair == PairFrames(ch, key, value)
  <1>1. GoodChain(ch) /\ (MapOf[key] = Null <=> LiveFrames(ch, key) = {})
    BY ChainFacts
  <1>2. value # Null
    BY PageTableAssumption
  <1>3. pair = {p \in LiveFrames(ch, key) : At(ch, p).buffer_page_ = value}
    BY <1>2 DEF PairFrames, NamedFrames, LiveFrames
  <1>4. CASE LiveFrames(ch, key) = {}
    BY <1>1, <1>2, <1>3, <1>4
  <1>5. CASE LiveFrames(ch, key) # {}
    <2>1. PICK p : LiveFrames(ch, key) = {p} /\ MapOf[key] = At(ch, p).buffer_page_
      BY <1>1, <1>5, EntryFound
    <2>2. CASE MapOf[key] = value
      <3>1. pair # {} /\ pair \in SUBSET Frames(ch)
        BY <1>3, <2>1, <2>2 DEF LiveFrames
      <3>2. FirstOf(pair) \in pair
        BY <1>1, <3>1, FirstOfFacts DEF GoodChain
      <3> QED BY <1>3, <2>2, <3>1, <3>2
    <2>3. CASE MapOf[key] # value
      BY <1>3, <2>1, <2>3
    <2> QED BY <2>2, <2>3
  <1> QED BY <1>4, <1>5

\* An operation that puts a good chain in place changes the map where the chain changed.
LEMMA WriteChain ==
  ASSUME TableInv, NEW key \in Addr, NEW new, GoodChain(new), NEW v,
         \A k \in Addr : get(new, k) = IF k = key THEN v ELSE get(Chain(key), k),
         Write(key, new)
  PROVE  TableInv' /\ MapOf' = [MapOf EXCEPT ![key] = v]
  <1>1. get_bucket(key) \in Head_ /\ \A k \in Addr : get_bucket(k) \in Head_
    BY BucketInTable
  <1>2. table_ \in [Head_ -> ChainT] /\ new \in ChainT
    BY DEF TableInv, GoodChain
  <1>3. table_' = [table_ EXCEPT ![get_bucket(key)] = new]
    BY DEF Write
  <1>4. \A b \in Head_ : table_'[b] = IF b = get_bucket(key) THEN new ELSE table_[b]
    BY <1>1, <1>2, <1>3
  <1>5. TableInv'
    <2>1. table_' \in [Head_ -> ChainT]
      BY <1>1, <1>2, <1>3
    <2>2. \A b \in Head_ : GoodChain(table_'[b])
      BY <1>4 DEF TableInv
    <2> QED BY <2>1, <2>2 DEF TableInv
  <1>6. \A k \in Addr : get(table_'[get_bucket(k)], k) =
                          IF k = key THEN v ELSE get(table_[get_bucket(k)], k)
    BY <1>1, <1>4 DEF Chain
  <1>7. MapOf' = [MapOf EXCEPT ![key] = v]
    BY <1>6 DEF MapOf, Chain
  <1> QED BY <1>5, <1>7

\* The table is as before.
LEMMA KeepTable ==
  ASSUME TableInv, UNCHANGED table_
  PROVE  TableInv' /\ MapOf' = MapOf
  BY DEF TableInv, MapOf, Chain

LEMMA InsertImplements ==
  ASSUME TableInv, NEW key \in Addr, NEW value \in Value, Insert(key, value)
  PROVE  TableInv' /\ Map!Insert(key, value) /\ ret'.op = "insert"
  <1>1. /\ GoodChain(Chain(key)) /\ MapOf[key] = get(Chain(key), key)
        /\ MapOf[key] = Null <=> LiveFrames(Chain(key), key) = {}
    BY ChainFacts
  <1>2. CASE MapOf[key] # Null
    <2>1. UNCHANGED table_ /\ Return("insert", <<key, value>>, FALSE, MapOf[key])
      BY <1>1, <1>2 DEF Insert
    <2>2. TableInv' /\ MapOf' = MapOf
      BY <2>1, KeepTable
    <2> QED BY <1>2, <2>1, <2>2 DEF Map!Insert, Map!Return, Map!Has, Return
  <1>3. CASE MapOf[key] = Null
    <2>1. /\ Write(key, Place(Chain(key), key, value))
          /\ Return("insert", <<key, value>>, TRUE, value)
      BY <1>1, <1>3 DEF Insert
    <2>2. TableInv' /\ MapOf' = [MapOf EXCEPT ![key] = value]
      BY <1>1, <1>3, <2>1, PlaceGood, WriteChain
    <2> QED BY <1>3, <2>1, <2>2 DEF Map!Insert, Map!Return, Map!Has, Map!Set, Return
  <1> QED BY <1>2, <1>3

LEMMA UpsertImplements ==
  ASSUME TableInv, NEW key \in Addr, NEW value \in Value, Upsert(key, value)
  PROVE  TableInv' /\ Map!Upsert(key, value) /\ ret'.op = "upsert"
  <1>1. /\ GoodChain(Chain(key)) /\ MapOf[key] = get(Chain(key), key)
        /\ MapOf[key] = Null <=> LiveFrames(Chain(key), key) = {}
    BY ChainFacts
  <1>2. CASE MapOf[key] # Null
    <2>1. /\ Write(key, Overwrite(Chain(key), FirstOf(LiveFrames(Chain(key), key)), value))
          /\ Return("upsert", <<key, value>>, FALSE, MapOf[key])
      BY <1>1, <1>2 DEF Upsert
    <2>2. FirstOf(LiveFrames(Chain(key), key)) \in LiveFrames(Chain(key), key)
      BY <1>2, EntryFound
    <2>3. TableInv' /\ MapOf' = [MapOf EXCEPT ![key] = value]
      BY <1>1, <2>1, <2>2, OverwriteGood, WriteChain
    <2> QED BY <1>2, <2>1, <2>3 DEF Map!Upsert, Map!Return, Map!Has, Map!Set, Return
  <1>3. CASE MapOf[key] = Null
    <2>1. /\ Write(key, Place(Chain(key), key, value))
          /\ Return("upsert", <<key, value>>, TRUE, value)
      BY <1>1, <1>3 DEF Upsert
    <2>2. TableInv' /\ MapOf' = [MapOf EXCEPT ![key] = value]
      BY <1>1, <1>3, <2>1, PlaceGood, WriteChain
    <2> QED BY <1>3, <2>1, <2>2 DEF Map!Upsert, Map!Return, Map!Has, Map!Set, Return
  <1> QED BY <1>2, <1>3

LEMMA UpdateImplements ==
  ASSUME TableInv, NEW key \in Addr, NEW value \in Value, Update(key, value)
  PROVE  TableInv' /\ Map!Update(key, value) /\ ret'.op = "update"
  <1>1. /\ GoodChain(Chain(key)) /\ MapOf[key] = get(Chain(key), key)
        /\ MapOf[key] = Null <=> LiveFrames(Chain(key), key) = {}
    BY ChainFacts
  <1>2. CASE MapOf[key] # Null
    <2>1. /\ Write(key, Overwrite(Chain(key), FirstOf(LiveFrames(Chain(key), key)), value))
          /\ Return("update", <<key, value>>, TRUE, MapOf[key])
      BY <1>1, <1>2 DEF Update
    <2>2. FirstOf(LiveFrames(Chain(key), key)) \in LiveFrames(Chain(key), key)
      BY <1>2, EntryFound
    <2>3. TableInv' /\ MapOf' = [MapOf EXCEPT ![key] = value]
      BY <1>1, <2>1, <2>2, OverwriteGood, WriteChain
    <2> QED BY <1>2, <2>1, <2>3 DEF Map!Update, Map!Return, Map!Has, Map!Set, Return
  <1>3. CASE MapOf[key] = Null
    <2>1. UNCHANGED table_ /\ Return("update", <<key, value>>, FALSE, Null)
      BY <1>1, <1>3 DEF Update
    <2>2. TableInv' /\ MapOf' = MapOf
      BY <2>1, KeepTable
    <2> QED BY <1>3, <2>1, <2>2 DEF Map!Update, Map!Return, Map!Has, Return
  <1> QED BY <1>2, <1>3

LEMMA RMWImplements ==
  ASSUME TableInv, NEW key \in Addr, NEW value \in Value, NEW old_value \in Value,
         RMW(key, value, old_value)
  PROVE  TableInv' /\ Map!RMW(key, value, old_value) /\ ret'.op = "RMW"
  <1>1. GoodChain(Chain(key))
    BY ChainFacts
  <1>2. CASE MapOf[key] = old_value
    <2>1. /\ FirstOf(PairFrames(Chain(key), key, old_value)) \in LiveFrames(Chain(key), key)
          /\ PairFrames(Chain(key), key, old_value) # {}
      BY <1>2, PairFound
    <2>2. /\ Write(key, Overwrite(Chain(key), FirstOf(PairFrames(Chain(key), key, old_value)), value))
          /\ Return("RMW", <<key, value, old_value>>, TRUE, Null)
      BY <2>1 DEF RMW
    <2>3. TableInv' /\ MapOf' = [MapOf EXCEPT ![key] = value]
      BY <1>1, <2>1, <2>2, OverwriteGood, WriteChain
    <2> QED BY <1>2, <2>2, <2>3 DEF Map!RMW, Map!Return, Map!Set, Return
  <1>3. CASE MapOf[key] # old_value
    <2>1. UNCHANGED table_ /\ Return("RMW", <<key, value, old_value>>, FALSE, Null)
      BY <1>3, PairFound DEF RMW
    <2>2. TableInv' /\ MapOf' = MapOf
      BY <2>1, KeepTable
    <2> QED BY <1>3, <2>1, <2>2 DEF Map!RMW, Map!Return, Return
  <1> QED BY <1>2, <1>3

LEMMA RemovePairImplements ==
  ASSUME TableInv, NEW key \in Addr, NEW value \in Value, RemovePair(key, value)
  PROVE  TableInv' /\ Map!RemovePair(key, value) /\ ret'.op = "remove_pair"
  <1>1. GoodChain(Chain(key))
    BY ChainFacts
  <1>2. CASE MapOf[key] = value
    <2>1. /\ FirstOf(PairFrames(Chain(key), key, value)) \in LiveFrames(Chain(key), key)
          /\ PairFrames(Chain(key), key, value) # {}
      BY <1>2, PairFound
    <2>2. /\ Write(key, Release(Chain(key), FirstOf(PairFrames(Chain(key), key, value))))
          /\ Return("remove_pair", <<key, value>>, TRUE, Null)
      BY <2>1 DEF RemovePair
    <2>3. TableInv' /\ MapOf' = [MapOf EXCEPT ![key] = Null]
      BY <1>1, <2>1, <2>2, ReleaseGood, WriteChain
    <2> QED BY <1>2, <2>2, <2>3 DEF Map!RemovePair, Map!Return, Map!Set, Return
  <1>3. CASE MapOf[key] # value
    <2>1. UNCHANGED table_ /\ Return("remove_pair", <<key, value>>, FALSE, Null)
      BY <1>3, PairFound DEF RemovePair
    <2>2. TableInv' /\ MapOf' = MapOf
      BY <2>1, KeepTable
    <2> QED BY <1>3, <2>1, <2>2 DEF Map!RemovePair, Map!Return, Return
  <1> QED BY <1>2, <1>3

LEMMA CheckAndRemoveImplements ==
  ASSUME TableInv, NEW key \in Addr, CheckAndRemove(key)
  PROVE  TableInv' /\ Map!CheckAndRemove(key) /\ ret'.op = "check_and_remove"
  <1>1. GoodChain(Chain(key)) /\ MapOf[key] = get(Chain(key), key)
    BY ChainFacts
  <1>2. CASE MapOf[key] # Null
    <2>1. FirstOf(NamedFrames(Chain(key), key)) \in LiveFrames(Chain(key), key)
      BY <1>2, EntryFound
    <2>2. /\ Write(key, Release(Chain(key), FirstOf(NamedFrames(Chain(key), key))))
          /\ Return("check_and_remove", <<key>>, TRUE, Null)
      BY <1>1, <1>2 DEF CheckAndRemove
    <2>3. TableInv' /\ MapOf' = [MapOf EXCEPT ![key] = Null]
      BY <1>1, <2>1, <2>2, ReleaseGood, WriteChain
    <2> QED BY <1>2, <2>2, <2>3 DEF Map!CheckAndRemove, Map!Return, Map!Has, Map!Set, Return
  <1>3. CASE MapOf[key] = Null
    <2>1. UNCHANGED table_ /\ Return("check_and_remove", <<key>>, FALSE, Null)
      BY <1>1, <1>3 DEF CheckAndRemove
    <2>2. TableInv' /\ MapOf' = MapOf
      BY <2>1, KeepTable
    <2>3. MapOf = [MapOf EXCEPT ![key] = Null]
      BY <1>3 DEF MapOf
    <2> QED BY <1>3, <2>1, <2>2, <2>3 DEF Map!CheckAndRemove, Map!Return, Map!Has, Map!Set, Return
  <1> QED BY <1>2, <1>3

LEMMA GetImplements ==
  ASSUME TableInv, NEW key \in Addr, Get(key)
  PROVE  TableInv' /\ Map!Get(key) /\ ret'.op = "get"
  <1>1. MapOf[key] = get(Chain(key), key)
    BY ChainFacts
  <1>2. UNCHANGED table_ /\ Return("get", <<key>>, MapOf[key] # Null, MapOf[key])
    BY <1>1 DEF Get
  <1>3. TableInv' /\ MapOf' = MapOf
    BY <1>2, KeepTable
  <1> QED BY <1>2, <1>3 DEF Map!Get, Map!Return, Map!Has, Return

\* The constructor and reset: every chain is one zeroed bucket.
LEMMA EmptyGood == GoodChain(<<ZeroBucket>>) /\ \A key \in Addr : get(<<ZeroBucket>>, key) = Null
  <1> DEFINE ch == <<ZeroBucket>>
  <1>1. ZeroBucket \in BucketT
    BY PageTableAssumption, WidthFacts DEF ZeroBucket, BucketT, FrameT
  <1>2. ch \in ChainT /\ Len(ch) = 1 /\ ch[1] = ZeroBucket
    BY <1>1 DEF ChainT
  <1> HIDE DEF ch
  <1>3. \A p \in Frames(ch) : At(ch, p).buffer_page_ = Null
    BY <1>2 DEF Frames, At, ZeroBucket
  <1>4. \A key \in Addr : LiveFrames(ch, key) = {}
    BY <1>3 DEF LiveFrames
  <1>5. Counted(ch)
    <2>1. LiveIn(ZeroBucket) = {} /\ ZeroBucket.count_ = 0
      BY DEF LiveIn, ZeroBucket
    <2> QED BY <1>2, <2>1, FS_EmptySet DEF Counted
  <1>6. EntryFirst(ch)
    BY <1>4 DEF EntryFirst
  <1>7. \A key \in Addr : get(ch, key) = Null
    BY <1>4 DEF get
  <1> QED BY <1>2, <1>5, <1>6, <1>7 DEF GoodChain, ch

LEMMA EmptyTableGood ==
  table_ = EmptyTable => TableInv /\ MapOf = [key \in Addr |-> Null]
  <1> SUFFICES ASSUME table_ = EmptyTable PROVE TableInv /\ MapOf = [key \in Addr |-> Null]
    OBVIOUS
  <1>1. \A b \in Head_ : table_[b] = <<ZeroBucket>>
    BY DEF EmptyTable
  <1>2. TableInv
    BY <1>1, EmptyGood DEF EmptyTable, TableInv, GoodChain
  <1>3. \A key \in Addr : get(Chain(key), key) = Null
    BY <1>1, BucketInTable, EmptyGood DEF Chain
  <1> QED BY <1>2, <1>3 DEF MapOf

LEMMA ResetImplements ==
  ASSUME Reset
  PROVE  TableInv' /\ Map!Reset /\ ret'.op = "reset"
  <1>1. table_' = EmptyTable /\ Return("reset", <<>>, TRUE, Null)
    BY DEF Reset
  <1>2. \A b \in Head_ : table_'[b] = <<ZeroBucket>>
    BY <1>1 DEF EmptyTable
  <1>3. TableInv'
    BY <1>1, <1>2, EmptyGood DEF EmptyTable, TableInv, GoodChain
  <1>4. \A key \in Addr : get(Chain(key)', key) = Null
    BY <1>2, BucketInTable, EmptyGood DEF Chain
  <1>5. MapOf' = [key \in Addr |-> Null]
    BY <1>4 DEF MapOf
  <1> QED BY <1>1, <1>3, <1>5 DEF Map!Reset, Map!Return, Return

-----------------------------------------------------------------------------
(* The specification *)

\* A step of the table keeps the chains good and is a step of the map.
LEMMA NextImplements ==
  ASSUME TableInv, Next
  PROVE  TableInv' /\ Map!Next
  <1>1. ASSUME NEW key \in Addr, CheckAndRemove(key) PROVE TableInv' /\ Map!Next
    BY <1>1, CheckAndRemoveImplements DEF Map!Next, Map!Called
  <1>2. ASSUME NEW key \in Addr, Get(key) PROVE TableInv' /\ Map!Next
    BY <1>2, GetImplements DEF Map!Next, Map!Called
  <1>3. ASSUME NEW key \in Addr, NEW value \in Value, Insert(key, value)
        PROVE  TableInv' /\ Map!Next
    BY <1>3, InsertImplements DEF Map!Next, Map!Called
  <1>4. ASSUME NEW key \in Addr, NEW value \in Value, Upsert(key, value)
        PROVE  TableInv' /\ Map!Next
    BY <1>4, UpsertImplements DEF Map!Next, Map!Called
  <1>5. ASSUME NEW key \in Addr, NEW value \in Value, Update(key, value)
        PROVE  TableInv' /\ Map!Next
    BY <1>5, UpdateImplements DEF Map!Next, Map!Called
  <1>6. ASSUME NEW key \in Addr, NEW value \in Value, RemovePair(key, value)
        PROVE  TableInv' /\ Map!Next
    BY <1>6, RemovePairImplements DEF Map!Next, Map!Called
  <1>7. ASSUME NEW key \in Addr, NEW value \in Value, NEW old_value \in Value,
               RMW(key, value, old_value)
        PROVE  TableInv' /\ Map!Next
    BY <1>7, RMWImplements DEF Map!Next, Map!Called
  <1>8. ASSUME Reset PROVE TableInv' /\ Map!Next
    BY <1>8, ResetImplements DEF Map!Next, Map!Called
  <1> QED BY <1>1, <1>2, <1>3, <1>4, <1>5, <1>6, <1>7, <1>8 DEF Next

\* What a call returns first is a bool.
LEMMA RetTyped ==
  ASSUME Next
  PROVE  ret'.ok \in BOOLEAN
  <1>1. ASSUME NEW op, NEW args, NEW ok \in BOOLEAN, NEW value, Return(op, args, ok, value)
        PROVE  ret'.ok \in BOOLEAN
    BY <1>1 DEF Return
  <1>2. ASSUME NEW key \in Addr, CheckAndRemove(key) PROVE ret'.ok \in BOOLEAN
    BY <1>1, <1>2 DEF CheckAndRemove
  <1>3. ASSUME NEW key \in Addr, Get(key) PROVE ret'.ok \in BOOLEAN
    BY <1>1, <1>3 DEF Get
  <1>4. ASSUME NEW key \in Addr, NEW value \in Value,
               Insert(key, value) \/ Upsert(key, value) \/ Update(key, value) \/ RemovePair(key, value)
        PROVE  ret'.ok \in BOOLEAN
    BY <1>1, <1>4 DEF Insert, Upsert, Update, RemovePair
  <1>5. ASSUME NEW key \in Addr, NEW value \in Value, NEW old_value \in Value,
               RMW(key, value, old_value)
        PROVE  ret'.ok \in BOOLEAN
    BY <1>1, <1>5 DEF RMW
  <1>6. ASSUME Reset PROVE ret'.ok \in BOOLEAN
    BY <1>1, <1>6 DEF Reset
  <1> QED BY <1>2, <1>3, <1>4, <1>5, <1>6 DEF Next

\* Init, every operation and stuttering keep every chain of the table good: typed,
\* counted, and with a key's entry before any free frame that still carries the key.
THEOREM TableInvariant == Spec => [](TableInv /\ RetBool)
  <1>1. Init => TableInv /\ RetBool
    BY EmptyTableGood DEF Init, RetBool
  <1>2. TableInv /\ RetBool /\ [Next]_vars => TableInv' /\ RetBool'
    <2>1. CASE Next
      BY <2>1, NextImplements, RetTyped DEF RetBool
    <2>2. CASE UNCHANGED vars
      BY <2>2, KeepTable DEF vars, RetBool
    <2> QED BY <2>1, <2>2
  <1> QED BY <1>1, <1>2, PTL DEF Spec

\* count_ is the number of entries of its bucket, in every chain of every table.
THEOREM CountsAreRight == Spec => []CountsEntries
  <1>1. TableInv /\ RetBool => CountsEntries
    <2> SUFFICES ASSUME TableInv, RetBool PROVE CountsEntries
      OBVIOUS
    <2>1. DOMAIN table_ = Head_
      BY DEF TableInv
    <2>2. ASSUME NEW ch \in Chains
          PROVE  /\ GoodChain(ch) /\ ch \in ChainT /\ Len(ch) > 0
                 /\ DOMAIN ch = 1 .. Len(ch) /\ \A b \in 1 .. Len(ch) : ch[b] \in BucketT
      <3>1. GoodChain(ch) /\ ch \in ChainT /\ ch \in Seq(BucketT) /\ ch # <<>>
        BY DEF Chains, TableInv, GoodChain, ChainT
      <3> QED BY <3>1, LenProperties, EmptySeq, ElementOfSeq
    <2>3. PageTableTypeOK
      BY <2>1, <2>2 DEF PageTableTypeOK, RetBool, BucketT, FrameT
    <2>4. ASSUME NEW ch \in Chains, NEW b \in DOMAIN ch
          PROVE  /\ ch[b].count_ = Cardinality({i \in Entry : ch[b].frame[i].buffer_page_ # Null})
                 /\ b > 1 => ch[b].count_ > 0
      BY <2>2 DEF GoodChain, Counted, LiveIn
    <2> QED BY <2>3, <2>4 DEF CountsEntries
  <1> QED BY <1>1, TableInvariant, PTL

\* The first frame that carries a key that is in the table is the key's entry, its
\* only one: remove(key) clears the right frame.
THEOREM EntryIsFoundFirst == Spec => []EntryFoundFirst
  <1>1. TableInv => EntryFoundFirst
    <2> SUFFICES ASSUME TableInv, NEW key \in Addr, LiveFrames(Chain(key), key) # {}
                 PROVE  LiveFrames(Chain(key), key) = {FirstOf(NamedFrames(Chain(key), key))}
      BY DEF EntryFoundFirst
    <2>1. MapOf[key] # Null
      BY ChainFacts
    <2> QED BY <2>1, EntryFound
  <1> QED BY <1>1, TableInvariant, PTL

\* The page table implements the map PageMap: every call returns and does what the
\* map's call does, for any addresses, pages, capacity, bucket size and hash.
THEOREM TableIsMap == Spec => ImplementsMap
  <1>1. Init => Map!Init
    BY EmptyTableGood DEF Init, Map!Init
  <1>2. TableInv /\ [Next]_vars => [Map!Next]_<<MapOf, ret>>
    <2>1. CASE Next
      BY <2>1, NextImplements
    <2>2. CASE UNCHANGED vars
      BY <2>2, KeepTable DEF vars
    <2> QED BY <2>1, <2>2
  <1>3. Spec => []TableInv
    BY TableInvariant, PTL
  <1> QED BY <1>1, <1>2, <1>3, PTL DEF Spec, ImplementsMap, Map!Spec

=============================================================================
