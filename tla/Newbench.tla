------------------------------- MODULE Newbench -------------------------------
(***************************************************************************)
(* The benchmark (test/newbench.cpp) as the tree's client: it bulk-loads   *)
(* the keys 1 .. key_space in order, runs op_num operations of the mix and *)
(* lets the tree be destroyed.  Keys drawn from the Zipf generator are any *)
(* key of the loaded range, and the mix is any sequence of operations.     *)
(***************************************************************************)
EXTENDS TreeProperties

CONSTANTS
  key_space,
  op_num,
  scan_len,
  min_pages,      \* 64 * 1024 in the program
  keys_per_page,  \* 8
  slack_pages     \* 1024

ASSUME NewbenchAssumption ==
  /\ key_space \in Nat /\ op_num \in Nat /\ key_space + op_num <= MaxKey
  /\ scan_len \in ScanLen /\ 2 .. MaxKey + 7 \subseteq Val

\* The backend is of the size main gives it.  op_num does not enter.
backend_pages == Max({min_pages, key_space \div keys_per_page + slack_pages})
ASSUME BackendAssumption ==
  /\ min_pages \in Nat /\ keys_per_page \in Nat \ {0} /\ slack_pages \in Nat
  /\ BackendPages = backend_pages

VARIABLES
  i,              \* the next key to load
  ops,            \* operations of the mix issued so far
  insert_cursor   \* the next key an insert of the mix uses

driver == <<i, ops, insert_cursor>>

BenchInit == Init /\ i = 1 /\ ops = 0 /\ insert_cursor = key_space + 1

\* tree.insert(i, i + 1)
BulkInsert ==
  /\ i <= key_space
  /\ Begin([kind |-> "insert", key |-> i, val |-> i + 1])
  /\ i' = i + 1
  /\ UNCHANGED <<ops, insert_cursor>>

\* One iteration of the mixed workload.  The arguments of
\* tree.insert(insert_cursor++, insert_cursor) are evaluated in either order.
MixedOp ==
  /\ i > key_space /\ ops < op_num
  /\ \/ /\ \E key \in 1 .. key_space :
             \/ Begin([kind |-> "lookup", key |-> key, val |-> NoVal])
             \/ Begin([kind |-> "update", key |-> key, val |-> key + 7])
             \/ Begin([kind |-> "remove", key |-> key, val |-> NoVal])
             \/ Begin([kind |-> "scan", key |-> key, val |-> scan_len])
        /\ UNCHANGED insert_cursor
     \/ /\ \E v \in {insert_cursor, insert_cursor + 1} :
             Begin([kind |-> "insert", key |-> insert_cursor, val |-> v])
        /\ insert_cursor' = insert_cursor + 1
  /\ ops' = ops + 1
  /\ UNCHANGED i

\* main returns.
Return == i > key_space /\ ops = op_num /\ Destroy /\ UNCHANGED driver

BenchNext == (TreeStep /\ UNCHANGED driver) \/ BulkInsert \/ MixedOp \/ Return

BenchSpec == BenchInit /\ [][BenchNext]_<<vars, driver>>

\* The program is one thread: it takes its next step whenever it has one.  The
\* sampler's random draws are the exception: a draw that ends the loop comes
\* within 1000 draws, by demoting a page or by giving up.
FairBenchSpec == BenchSpec /\ WF_<<vars, driver>>(BenchNext)

-----------------------------------------------------------------------------
\* The benchmark ends: every operation returns and main runs to its end, or the
\* sampler gives up and the process exits.  No walk, split or page request
\* loops for ever.
BenchTerminates == <>(pc = "closed" \/ phase = "exit")

\* "Backend big enough to hold the worst case": whatever the mix, no page of the tree
\* gets the Null that alloc returns when the backend is full.
BackendHoldsAll == root_ # NullAddr /\ (pc \in {"sib", "link", "root"} => right # NullAddr)

=============================================================================
