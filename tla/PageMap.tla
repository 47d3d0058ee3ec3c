------------------------------- MODULE PageMap -------------------------------
(***************************************************************************)
(* What PageTable (include/tree/PageTable.h) promises CacheManager and     *)
(* HashTable: a map from backend addresses to buffer pages, "to give the   *)
(* ground truth of page ID".  BufferPool uses the page table as this map.  *)
(* ret is the call and what it returned: ok, and the value handed back     *)
(* through the caller's reference where there is one.                      *)
(***************************************************************************)
CONSTANTS Addr, Value, Null

VARIABLES map, ret

Return(op, args, ok, value) ==
  /\ ret'.args = args
  /\ ret' = [op |-> op, args |-> args, ok |-> ok, value |-> value]
Has(key) == map[key] # Null
Set(key, value) == map' = [map EXCEPT ![key] = value]

Insert(key, value) ==
  /\ Return("insert", <<key, value>>, ~Has(key), IF Has(key) THEN map[key] ELSE value)
  /\ IF Has(key) THEN UNCHANGED map ELSE Set(key, value)
Upsert(key, value) ==
  /\ Return("upsert", <<key, value>>, ~Has(key), IF Has(key) THEN map[key] ELSE value)
  /\ Set(key, value)
RemovePair(key, value) ==
  /\ Return("remove_pair", <<key, value>>, map[key] = value, Null)
  /\ IF map[key] = value THEN Set(key, Null) ELSE UNCHANGED map
CheckAndRemove(key) == Return("check_and_remove", <<key>>, Has(key), Null) /\ Set(key, Null)
Get(key) == Return("get", <<key>>, Has(key), map[key]) /\ UNCHANGED map
Update(key, value) ==
  /\ Return("update", <<key, value>>, Has(key), map[key])
  /\ IF Has(key) THEN Set(key, value) ELSE UNCHANGED map
RMW(key, value, old_value) ==
  /\ Return("RMW", <<key, value, old_value>>, map[key] = old_value, Null)
  /\ IF map[key] = old_value THEN Set(key, value) ELSE UNCHANGED map
Reset == Return("reset", <<>>, TRUE, Null) /\ map' = [key \in Addr |-> Null]

Init ==
  /\ map = [key \in Addr |-> Null]
  /\ ret = [op |-> "reset", args |-> <<>>, ok |-> TRUE, value |-> Null]

\* The call is compared first: it alone is evaluated on a step of the table.
Called(op) == ret'.op = op

Next ==
  \/ Called("get") /\ \E key \in Addr : Get(key)
  \/ Called("check_and_remove") /\ \E key \in Addr : CheckAndRemove(key)
  \/ Called("insert") /\ \E key \in Addr, value \in Value : Insert(key, value)
  \/ Called("upsert") /\ \E key \in Addr, value \in Value : Upsert(key, value)
  \/ Called("update") /\ \E key \in Addr, value \in Value : Update(key, value)
  \/ Called("remove_pair") /\ \E key \in Addr, value \in Value : RemovePair(key, value)
  \/ Called("RMW") /\ \E key \in Addr, value, old_value \in Value : RMW(key, value, old_value)
  \/ Called("reset") /\ Reset

Spec == Init /\ [][Next]_<<map, ret>>

=============================================================================
