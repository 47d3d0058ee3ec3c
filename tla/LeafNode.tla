------------------------------ MODULE LeafNode ------------------------------
(***************************************************************************)
(* BTreeLeaf (cache/BtreeNode.h) on its array: the sorted pairs, count and *)
(* the limits of one leaf.  LeanStoreTree takes a leaf to be a map; this   *)
(* module is where that is checked.  Entries from count on are left as     *)
(* earlier operations wrote them, so a search that runs past count finds   *)
(* keys that were removed or moved away, and zeroes that look like key 0.  *)
(***************************************************************************)
EXTENDS NodeArrays

CONSTANTS
  MaxKey,       \* keys are 0 .. MaxKey
  Val,
  NoVal,        \* the bytes of a zeroed payload, and the result of a miss
  max_entries

Key == 0 .. MaxKey
MinLimit == 0
MaxLimit == MaxKey + 1

ASSUME LeafAssumption ==
  MaxKey \in Nat /\ NoVal \notin Val /\ max_entries \in Nat \ {0, 1}

VARIABLES
  data,    \* 0 .. max_entries - 1 -> pair
  count,
  min_limit_, max_limit_,
  map      \* what the calls so far amount to: the pairs the leaf should hold

vars == <<data, count, min_limit_, max_limit_, map>>

Pair(k, v) == [first |-> k, second |-> v]
NoEntries == [i \in 0 .. max_entries - 1 |-> Pair(0, NoVal)]

lowerBound(k) == Search([i \in DOMAIN data |-> data[i].first], k, count)
isFull == count = max_entries

\* insert finds the leaf full.
NoRoomLate == count > max_entries
NoRoom == count >= max_entries

\* The test all operations share: the position holds the key and is in use.
Holds(pos, k) == pos < count /\ data[pos].first = k

find(k) == LET pos == lowerBound(k) IN IF Holds(pos, k) THEN data[pos].second ELSE NoVal

\* rangeScan: the pairs copied to the caller's buffer.
CopyWhole(pos, num) == num
CopyCount(pos, num) == IF count - pos < num THEN count - pos ELSE num
rangeScan(k, num) ==
  LET pos == lowerBound(k) IN
  IF Holds(pos, k) THEN [i \in 0 .. CopyCount(pos, num) - 1 |-> data[pos + i]] ELSE <<>>

Init ==
  /\ data = NoEntries /\ count = 0
  /\ min_limit_ = MinLimit /\ max_limit_ = MaxLimit
  /\ map = <<>>

Mapped(k, v) == [x \in DOMAIN map \union {k} |-> IF x = k THEN v ELSE map[x]]
Without(K) == [x \in DOMAIN map \ K |-> map[x]]

\* insert of a key that is there overwrites its value; a full leaf refuses a new one.
insert(k, v) ==
  LET pos == lowerBound(k)
      opened == [Moved(data, pos + 1, data, pos, count - pos) EXCEPT ![pos] = Pair(k, v)]
  IN
  /\ CASE count = 0 -> data' = [data EXCEPT ![0] = Pair(k, v)] /\ count' = 1
       [] count > 0 /\ Holds(pos, k) -> data' = [data EXCEPT ![pos].second = v] /\ count' = count
       [] count > 0 /\ ~Holds(pos, k) /\ NoRoom -> UNCHANGED <<data, count>>
       [] OTHER -> data' = opened /\ count' = count + 1
  /\ map' = IF k \in DOMAIN map \/ Cardinality(DOMAIN map) < max_entries
            THEN Mapped(k, v) ELSE map
  /\ UNCHANGED <<min_limit_, max_limit_>>

\* The entries behind a removed one move down; the last stays where it was, too.
ClosedShort(pos) == Moved(data, pos, data, pos + 1, count - pos - 2)
Closed(pos) == Moved(data, pos, data, pos + 1, count - pos - 1)
remove(k) ==
  LET pos == lowerBound(k) IN
  /\ IF count > 0 /\ Holds(pos, k)
     THEN data' = Closed(pos) /\ count' = count - 1
     ELSE UNCHANGED <<data, count>>
  /\ map' = Without({k})
  /\ UNCHANGED <<min_limit_, max_limit_>>

update(k, v) ==
  LET pos == lowerBound(k) IN
  /\ data' = IF Holds(pos, k) THEN [data EXCEPT ![pos].second = v] ELSE data
  /\ map' = IF k \in DOMAIN map THEN Mapped(k, v) ELSE map
  /\ UNCHANGED <<count, min_limit_, max_limit_>>

\* split of a full leaf; the behaviour goes on with the leaf or with its sibling,
\* whose page was zeroed.
Sep(stay) == data[stay - 1].first
\* The sibling takes the leaf's upper limit before the leaf's own is lowered.
SiblingMaxLate(sep) == sep
SiblingMax(sep) == max_limit_
split(goOn) ==
  LET moved == count - (count \div 2)
      stay == count - moved
      sep == Sep(stay)
  IN
  /\ isFull
  /\ \/ /\ goOn = "leaf"
        /\ count' = stay /\ max_limit_' = sep
        /\ map' = Without({k \in Key : k > sep})
        /\ UNCHANGED <<data, min_limit_>>
     \/ /\ goOn = "sibling"
        /\ data' = Moved(NoEntries, 0, data, stay, moved)
        /\ count' = moved /\ min_limit_' = sep /\ max_limit_' = SiblingMax(sep)
        /\ map' = Without({k \in Key : k <= sep})

Next ==
  \/ \E k \in Key : /\ InLimits(k, min_limit_, max_limit_)
                    /\ remove(k) \/ \E v \in Val : insert(k, v) \/ update(k, v)
  \/ \E goOn \in {"leaf", "sibling"} : split(goOn)

Spec == Init /\ [][Next]_vars

-----------------------------------------------------------------------------
(* Properties *)

\* Type invariant: no operation writes outside the array.
LeafTypeOK ==
  /\ data \in [0 .. max_entries - 1 -> [first : Key, second : Val \union {NoVal}]]
  /\ count \in 0 .. max_entries
  /\ min_limit_ \in Key /\ max_limit_ \in Key \union {MaxLimit}

\* The leaf is the map the tree takes it for: find, with its binary search over an
\* array with old entries behind count, answers for every key as the map does.
FindAnswersMap ==
  \A k \in Key : find(k) = IF k \in DOMAIN map THEN map[k] ELSE NoVal

\* rangeScan copies the num smallest pairs from k on, in order, or as many as the
\* leaf has, and never an entry behind count.
ScanAnswersMap ==
  \A k \in Key, num \in 0 .. max_entries + 1 :
    LET from == {x \in DOMAIN map : k \in DOMAIN map /\ x >= k}
        out == rangeScan(k, num)
        wanted == {x \in from : Cardinality({y \in from : y <= x}) <= num}
    IN /\ Cardinality(DOMAIN out) = Cardinality(wanted)
       /\ \A x \in wanted :
            out[Cardinality({y \in from : y < x})] = Pair(x, map[x])

\* Every key of a leaf lies within its limits, whatever halves it is left with: the
\* parent's separator, both limits and the entries agree.
KeysWithinLimits ==
  /\ count = Cardinality(DOMAIN map)
  /\ \A i \in 0 .. count - 1 : InLimits(data[i].first, min_limit_, max_limit_)

=============================================================================
