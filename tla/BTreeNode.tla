------------------------------ MODULE BTreeNode ------------------------------
(***************************************************************************)
(* A page of cache/BtreeNode.h: a header with type, count and limits, and  *)
(* behind it the arrays of a leaf (LeafNode) or of an inner node           *)
(* (InnerNode), according to type.  It never changes its type.             *)
(***************************************************************************)
EXTENDS LeafNode

CONSTANTS InnerMaxKey, inner_max_entries, Child, NoChild, WordBits

VARIABLES type, keys, children, bitmap, below

Inner == INSTANCE InnerNode WITH MaxKey <- InnerMaxKey, max_entries <- inner_max_entries

ASSUME InnerNodeAssumption == Inner!InnerAssumption

NodeInit ==
  \/ /\ type = "leaf" /\ Init
     /\ keys = Inner!NoKeys /\ children = Inner!NoRefs /\ bitmap = {} /\ below = <<>>
  \/ /\ type = "inner" /\ Inner!Init
     /\ data = NoEntries /\ map = <<>>

NodeNext ==
  /\ \/ type = "leaf" /\ Next /\ UNCHANGED <<keys, children, bitmap, below>>
     \/ type = "inner" /\ Inner!Next /\ UNCHANGED <<data, map>>
  /\ UNCHANGED type

NodeSpec == NodeInit /\ [][NodeNext]_<<vars, Inner!vars, type>>

-----------------------------------------------------------------------------
(* Properties *)

\* Type invariant: no operation of a leaf or of an inner node writes outside an
\* array or sets a bit outside the word.
NodeTypeOK == IF type = "leaf" THEN LeafTypeOK ELSE Inner!InnerTypeOK

\* A leaf is the map the tree takes it for: find, with its binary search over an
\* array with old entries behind count, answers for every key as the map does.
\* So does rangeScan: the num smallest pairs from k on, in order, or as many as the
\* leaf has, and never an entry behind count.
LeafAnswersMap == type = "leaf" => FindAnswersMap /\ ScanAnswersMap

\* Every key of a leaf lies within its limits, whatever halves it is left with: the
\* parent's separator, both limits and the entries agree.
LeafKeysWithinLimits == type = "leaf" => KeysWithinLimits

\* Every walk comes to the right child: the binary search over the keys, and the
\* child at its position, lead each key of the node to the page that covers it
\* since the splits so far, although insert swaps the new child into place and
\* split copies one key more than the sibling counts.
WalkReachesChild == type = "inner" => Inner!WalkReachesChild

\* The bitmap marks exactly the swizzled children: no bit is left behind when
\* children move, which the sampler, update_all_parent_ptr and the flush rely on.
BitsMarkSwizzled == type = "inner" => Inner!BitsMarkSwizzled

\* closest_set, from any child, returns the nearest swizzled child, and of two
\* equally near the left one; never an index outside the children.
ClosestIsNearest == type = "inner" => Inner!ClosestIsNearest

=============================================================================
