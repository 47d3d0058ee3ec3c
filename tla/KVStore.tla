------------------------------- MODULE KVStore -------------------------------
(***************************************************************************)
(* What tree_api (include/TreeAPI.h) promises its caller: an ordered       *)
(* dictionary whose operations take effect one at a time.  Everything a    *)
(* caller of LeanStoreTree can observe is the result it gets; pages, slots *)
(* and splits are invisible.                                               *)
(***************************************************************************)
EXTENDS Integers, FiniteSets

CONSTANTS Key, Val, NoVal, ScanLen

VARIABLES
  dict,   \* a function from the keys present to their values
  ret     \* the last call and its result

Has(k) == k \in DOMAIN dict
Return(kind, k, v, res) ==
  LET op == [kind |-> kind, key |-> k, val |-> v] IN
  ret'.op = op /\ ret' = [op |-> op, res |-> res]

Insert(k, v) ==
  /\ dict' = [x \in DOMAIN dict \union {k} |-> IF x = k THEN v ELSE dict[x]]
  /\ Return("insert", k, v, ~Has(k))

Lookup(k) ==
  /\ UNCHANGED dict
  /\ Return("lookup", k, NoVal, IF Has(k) THEN dict[k] ELSE NoVal)

Update(k, v) ==
  /\ dict' = IF Has(k) THEN [dict EXCEPT ![k] = v] ELSE dict
  /\ Return("update", k, v, Has(k))

Remove(k) ==
  /\ dict' = [x \in DOMAIN dict \ {k} |-> dict[x]]
  /\ Return("remove", k, NoVal, Has(k))

\* A scan may stop early, but what it returns is a gap-free run of pairs that
\* starts at k, and it is empty only if k is absent or nothing was asked for.
RangeScan(k, num) ==
  LET from == {x \in DOMAIN dict : Has(k) /\ x >= k} IN
  /\ UNCHANGED dict
  /\ \E n \in 0 .. num :
       LET run == {x \in from : Cardinality({y \in from : y <= x}) <= n} IN
       /\ Has(k) /\ num > 0 => n > 0
       /\ Return("scan", k, num, [x \in run |-> dict[x]])

NoCall == [kind |-> "ctor", key |-> 1, val |-> NoVal]
Pending == [op |-> NoCall, res |-> NoVal]

\* A call is under way; the constructor ends.
Call == UNCHANGED dict /\ ret' = Pending
Constructed == UNCHANGED dict /\ ret' = [op |-> NoCall, res |-> TRUE]

Init == dict = <<>> /\ ret = Pending

Next ==
  Call \/ Constructed \/ \E k \in Key :
    \/ \E v \in Val : Insert(k, v) \/ Update(k, v)
    \/ Lookup(k) \/ Remove(k)
    \/ \E num \in ScanLen : RangeScan(k, num)

Spec == Init /\ [][Next]_<<dict, ret>>

=============================================================================
