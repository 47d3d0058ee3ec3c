------------------------------ MODULE PageTable ------------------------------
(***************************************************************************)
(* The page table (include/tree/PageTable.h): an array of buckets, each    *)
(* the head of a chain of overflow buckets.  A frame whose buffer_page_ is *)
(* nullptr is free but keeps the page_id_ of the page it last held, or the *)
(* 0 of the memset; a bucket other than the head is unlinked and freed     *)
(* when count_ says that it is empty.  Every operation walks the chain of  *)
(* one head bucket.  Callers pass pages or IO_FLAG, never nullptr.         *)
(***************************************************************************)
EXTENDS Integers, Sequences, FiniteSets

CONSTANTS
  Addr,                      \* backend addresses; 0 is GlobalAddress::Null()
  Value,                     \* pages, and IO_FLAG
  Null,                      \* nullptr
  entry_num,                 \* the capacity the table is built for
  num_entry_in_page_bucket,  \* frames of a bucket, 3 in the code
  HashOf                     \* hash(address), any function

\* The constructor rounds the number of buckets up.
bucket_num_ ==
  IF entry_num % num_entry_in_page_bucket = 0
  THEN entry_num \div num_entry_in_page_bucket
  ELSE entry_num \div num_entry_in_page_bucket + 1

Head_ == 0 .. bucket_num_ - 1
Entry == 1 .. num_entry_in_page_bucket
CountWidth == 65536  \* stands for the 2^32 of count_: no bucket comes near either

ASSUME PageTableAssumption ==
  /\ 0 \in Addr /\ Null \notin Value /\ entry_num \in Nat \ {0}
  /\ num_entry_in_page_bucket \in 1 .. CountWidth - 1
  /\ HashOf \in [Addr -> Nat]

VARIABLES
  table_,  \* head bucket -> its chain, the head first
  ret      \* the last call and what it returned

vars == <<table_, ret>>

-----------------------------------------------------------------------------
(* Chains *)

get_bucket(key) == HashOf[key] % bucket_num_

\* A bucket after memset.
ZeroBucket == [count_ |-> 0, frame |-> [i \in Entry |-> [page_id_ |-> 0, buffer_page_ |-> Null]]]

Frames(ch) == (1 .. Len(ch)) \X Entry
At(ch, p) == ch[p[1]].frame[p[2]]

\* The order in which the loops meet the frames.
Before(p, q) == p[1] < q[1] \/ (p[1] = q[1] /\ p[2] < q[2])
FirstOf(S) == CHOOSE p \in S : \A q \in S : p = q \/ Before(p, q)

FreeFrames(ch) == {p \in Frames(ch) : At(ch, p).buffer_page_ = Null}
NamedFrames(ch, key) == {p \in Frames(ch) : At(ch, p).page_id_ = key}
LiveFrames(ch, key) ==
  {p \in Frames(ch) : At(ch, p).page_id_ = key /\ At(ch, p).buffer_page_ # Null}
PairFrames(ch, key, value) == {p \in NamedFrames(ch, key) : At(ch, p).buffer_page_ = value}

get(ch, key) ==
  LET live == LiveFrames(ch, key) IN
  IF live = {} THEN Null ELSE At(ch, FirstOf(live)).buffer_page_

Overwrite(ch, p, value) == [ch EXCEPT ![p[1]].frame[p[2]].buffer_page_ = value]

\* The frame that receives a new entry.
LastFreeFrame(ch) ==
  CHOOSE p \in FreeFrames(ch) : \A q \in FreeFrames(ch) : p = q \/ Before(q, p)
FirstFreeFrame(ch) == FirstOf(FreeFrames(ch))

Fill(b, i, key, value) ==
  [b EXCEPT !.count_ = (@ + 1) % CountWidth,
            !.frame[i] = [page_id_ |-> key, buffer_page_ |-> value]]

\* The second half of insert and of upsert: a free frame, else a new bucket.
Place(ch, key, value) ==
  IF FreeFrames(ch) # {}
  THEN LET p == FirstFreeFrame(ch) IN [ch EXCEPT ![p[1]] = Fill(@, p[2], key, value)]
  ELSE Append(ch, Fill(ZeroBucket, 1, key, value))

\* prev_bucket->next_ = cur_bucket->next_: the successors move up.
UnlinkTail(ch, b) == SubSeq(ch, 1, b - 1)
Unlink(ch, b) == [i \in 1 .. Len(ch) - 1 |-> IF i < b THEN ch[i] ELSE ch[i + 1]]

\* The body of both removes.
Clear(b, i) == [b EXCEPT !.count_ = (@ - 1) % CountWidth, !.frame[i].buffer_page_ = Null]
ReleaseUncounted(ch, p) == Overwrite(ch, p, Null)
Release(ch, p) ==
  LET freed == [ch EXCEPT ![p[1]] = Clear(@, p[2])] IN
  IF freed[p[1]].count_ = 0 /\ p[1] # 1 THEN Unlink(freed, p[1]) ELSE freed

-----------------------------------------------------------------------------
(* Operations, with their _with_lock wrappers *)

Chain(key) == table_[get_bucket(key)]
Write(key, ch) == table_' = [table_ EXCEPT ![get_bucket(key)] = ch]
Return(op, args, ok, value) ==
  ret' = [op |-> op, args |-> args, ok |-> ok, value |-> value]

\* insert, and insert_io_flag when value is IO_FLAG.
Insert(key, value) ==
  LET ch == Chain(key) IN
  IF LiveFrames(ch, key) # {}
  THEN UNCHANGED table_ /\ Return("insert", <<key, value>>, FALSE, get(ch, key))
  ELSE Write(key, Place(ch, key, value)) /\ Return("insert", <<key, value>>, TRUE, value)

Upsert(key, value) ==
  LET ch == Chain(key)
      live == LiveFrames(ch, key)
  IN IF live # {}
     THEN /\ Write(key, Overwrite(ch, FirstOf(live), value))
          /\ Return("upsert", <<key, value>>, FALSE, get(ch, key))
     ELSE Write(key, Place(ch, key, value)) /\ Return("upsert", <<key, value>>, TRUE, value)

\* remove(key, value)
RemovePair(key, value) ==
  LET ch == Chain(key)
      at == PairFrames(ch, key, value)
  IN IF at = {}
     THEN UNCHANGED table_ /\ Return("remove_pair", <<key, value>>, FALSE, Null)
     ELSE Write(key, Release(ch, FirstOf(at))) /\ Return("remove_pair", <<key, value>>, TRUE, Null)

\* check_and_remove: remove(key), which takes the first frame that carries the
\* key, free or not, once get has found the key.
CheckAndRemove(key) ==
  LET ch == Chain(key) IN
  IF get(ch, key) = Null
  THEN UNCHANGED table_ /\ Return("check_and_remove", <<key>>, FALSE, Null)
  ELSE /\ Write(key, Release(ch, FirstOf(NamedFrames(ch, key))))
       /\ Return("check_and_remove", <<key>>, TRUE, Null)

Get(key) ==
  LET value == get(Chain(key), key) IN
  UNCHANGED table_ /\ Return("get", <<key>>, value # Null, value)

\* update and upsert expect the page to carry the key as its remote_address, and stop on an
\* assertion or spin if it does not.  A value here has no address: the callers pass pages
\* of the key, or IO_FLAG.
Update(key, value) ==
  LET ch == Chain(key)
      live == LiveFrames(ch, key)
  IN IF live = {}
     THEN UNCHANGED table_ /\ Return("update", <<key, value>>, FALSE, Null)
     ELSE /\ Write(key, Overwrite(ch, FirstOf(live), value))
          /\ Return("update", <<key, value>>, TRUE, get(ch, key))

RMW(key, value, old_value) ==
  LET ch == Chain(key)
      at == PairFrames(ch, key, old_value)
  IN IF at = {}
     THEN UNCHANGED table_ /\ Return("RMW", <<key, value, old_value>>, FALSE, Null)
     ELSE Write(key, Overwrite(ch, FirstOf(at), value)) /\ Return("RMW", <<key, value, old_value>>, TRUE, Null)

EmptyTable == [b \in Head_ |-> <<ZeroBucket>>]

Reset == table_' = EmptyTable /\ Return("reset", <<>>, TRUE, Null)

Init ==
  /\ table_ = EmptyTable
  /\ ret = [op |-> "reset", args |-> <<>>, ok |-> TRUE, value |-> Null]

Next ==
  \/ \E key \in Addr : CheckAndRemove(key) \/ Get(key)
  \/ \E key \in Addr, value \in Value :
       \/ Insert(key, value) \/ Upsert(key, value) \/ Update(key, value)
       \/ RemovePair(key, value)
       \/ \E old_value \in Value : RMW(key, value, old_value)
  \/ Reset

Spec == Init /\ [][Next]_vars

-----------------------------------------------------------------------------
(* Properties *)

Chains == {table_[b] : b \in Head_}

\* The types.
PageTableTypeOK ==
  /\ DOMAIN table_ = Head_
  /\ \A ch \in Chains :
       /\ Len(ch) > 0
       /\ \A b \in DOMAIN ch :
            /\ ch[b].count_ \in 0 .. CountWidth - 1
            /\ ch[b].frame \in [Entry -> [page_id_ : Addr, buffer_page_ : Value \union {Null}]]
  /\ ret.ok \in BOOLEAN

\* The chains are well formed, and count_ is the number of entries in the bucket, so
\* remove frees a bucket exactly when it holds none: no live entry is freed with
\* it, no empty overflow bucket stays in the chain, and the head is never freed.
CountsEntries ==
  /\ PageTableTypeOK
  /\ \A ch \in Chains : \A b \in DOMAIN ch :
    /\ ch[b].count_ = Cardinality({i \in Entry : ch[b].frame[i].buffer_page_ # Null})
    /\ b > 1 => ch[b].count_ > 0

\* remove(key) does not look at buffer_page_: it is right only because a free
\* frame that still carries a key never precedes the key's entry, whatever
\* was removed, unlinked and inserted before; and a key has one entry.
EntryFoundFirst ==
  \A key \in Addr :
    LET ch == Chain(key) IN
    LiveFrames(ch, key) # {} => LiveFrames(ch, key) = {FirstOf(NamedFrames(ch, key))}

\* The table is a map: every operation returns and does to the map what PageMap
\* says, however the chains have grown, shrunk and kept stale keys.
MapOf == [key \in Addr |-> get(Chain(key), key)]
Map == INSTANCE PageMap WITH map <- MapOf
ImplementsMap == Map!Spec

=============================================================================
