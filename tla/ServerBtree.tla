----------------------------- MODULE ServerBtree -----------------------------
(***************************************************************************)
(* The operations a memory server runs on the pages of the backend         *)
(* (include/cache/Btree.h): the walk follows the children as long as they  *)
(* are on the server's own node and asks the leaf whether the key is in    *)
(* its range.  They bypass the buffer pool: lookup is judged on the live   *)
(* backend, whose pages may be older than the pool's; the operations that  *)
(* write run once the tree is destroyed and the backend holds everything.  *)
(*                                                                         *)
(* Nothing in the repository calls them.  A client is any that starts at   *)
(* the root or at an address a lookup has handed it.                       *)
(***************************************************************************)
EXTENDS TreeProperties

CONSTANTS
  nodeID,        \* the node of each address; InMemoryBackend has node 0 only
  MaxServerOps   \* bound on the operations after the tree's end

ASSUME ServerAssumption == nodeID \in [Addr -> Nat] /\ MaxServerOps \in Nat

VARIABLES
  srv,      \* the last operation and its result, in the dictionary's terms
  code,     \* what it returned
  srv_ops   \* operations so far

serverVars == <<srv, code, srv_ops>>

rangeValidBelow(n, k) == k > n.lo
rangeValidStrict(n, k) == k > n.lo /\ k < n.hi
\* The code lets the lowest key of the type into the leaf whose min_limit_ it is; Key has
\* no such key.
rangeValid(n, k) == k > n.lo /\ k <= n.hi

\* Where n steps of next lead from x, fewer if they end.  No walk meets more pages than
\* there are.
Follow(next, n, x) ==
  LET go[w \in (0 .. BackendPages) \X DOMAIN next] ==
        LET y == next[w[2]] IN
        IF w[1] = 0 \/ y = w[2] THEN w[2] ELSE go[<<w[1] - 1, y>>]
  IN go[<<n, x>>]

\* The loop of an operation started at a: from an inner node of its own node to the
\* child; it stops at any other page.
Turn(a, k) ==
  [x \in Addr |-> LET n == backend[x].node IN
                  IF n.type # "inner" \/ nodeID[x] # nodeID[a] THEN x ELSE n.kids[lowerBound(n, k)]]
Walk(a, k) == Follow(Turn(a, k), BackendPages, a)

\* The code all four share: 0 not a leaf of this node, -1 the wrong leaf, else 1
\* if the key is there and 2 if not.
Code(a, k) ==
  LET x == Walk(a, k)
      n == backend[x].node
  IN CASE nodeID[x] # nodeID[a] -> 0
       [] nodeID[x] = nodeID[a] /\ ~rangeValid(n, k) -> -1
       [] OTHER -> IF k \in DOMAIN n.data THEN 1 ELSE 2

\* The addresses a client reaches that starts at the root and goes on wherever
\* a lookup returns 0 and g_result.
Hop(k) == [a \in Addr |-> IF Code(a, k) = 0 THEN Walk(a, k) ELSE a]
Hops(k) == {Follow(Hop(k), n, root_) : n \in 0 .. BackendPages}

-----------------------------------------------------------------------------
(* Operations *)

Answer(kind, k, v, res, c) ==
  /\ pc = "closed" /\ srv_ops < MaxServerOps
  /\ srv' = [op |-> [kind |-> kind, key |-> k, val |-> v], res |-> res]
  /\ code' = c
  /\ srv_ops' = srv_ops + 1
  /\ UNCHANGED <<poolVars, node, super, root_, cur_offset, pc, walk, split, adm, ret>>

SetPage(a, n, d) == backend' = [backend EXCEPT ![a] = [node |-> n, dirty |-> d]]

lookup(a, k) ==
  LET c == Code(a, k) IN
  /\ Answer("lookup", k, NoVal, IF c = 1 THEN backend[Walk(a, k)].node.data[k] ELSE NoVal, c)
  /\ UNCHANGED backend

\* The pair lowerBound finds gets the value if it is the key's.  update, insert and remove
\* also hand the leaf's address to the caller, through root; no client here reads it.
OverwriteAny(n, k, v) ==
  LET above == {j \in DOMAIN n.data : j >= k} IN
  IF above = {} THEN n ELSE Put(n, Min(above), v)
Overwrite(n, k, v) == IF k \in DOMAIN n.data THEN Put(n, k, v) ELSE n
update(a, k, v) ==
  LET c == Code(a, k)
      x == Walk(a, k)
  IN /\ Answer("update", k, v, c = 1, c)
     /\ IF c \in {1, 2} THEN SetPage(x, Overwrite(backend[x].node, k, v), backend[x].dirty)
                        ELSE UNCHANGED backend

\* A full leaf is refused like a wrong one.
Insertable(n) == Cardinality(DOMAIN n.data) < LeafMax
insert(a, k, v) ==
  LET c == Code(a, k)
      x == Walk(a, k)
      room == Insertable(backend[x].node)
  IN IF c \in {1, 2} /\ room
     THEN /\ Answer("insert", k, v, c = 2, IF c = 2 THEN 1 ELSE 2)
          /\ SetPage(x, Put(backend[x].node, k, v), TRUE)
     ELSE Answer("insert", k, v, FALSE, IF c = 0 THEN 0 ELSE -1) /\ UNCHANGED backend

remove(a, k) ==
  LET c == Code(a, k)
      x == Walk(a, k)
      n == backend[x].node
  IN /\ Answer("remove", k, NoVal, c = 1, c)
     /\ IF c = 1 THEN SetPage(x, [n EXCEPT !.data = Restrict(@, DOMAIN @ \ {k})], TRUE)
                 ELSE UNCHANGED backend

ServerInit == Init /\ srv = Pending /\ code = 0 /\ srv_ops = 0

ServerStep ==
  \E k \in Key : \E a \in Hops(k) :
    lookup(a, k) \/ remove(a, k) \/ \E v \in Val : insert(a, k, v) \/ update(a, k, v)

ServerNext == (Next /\ UNCHANGED serverVars) \/ ServerStep
ServerSpec == ServerInit /\ [][ServerNext]_<<vars, serverVars>>

-----------------------------------------------------------------------------
(* Properties *)

DirtyInPool(a) == \E s \in Slot : InUse(s) /\ dirty[s] /\ remote_address[s] = a

\* A lookup on the live backend fails safe: whatever inner pages on its way are
\* out of date, the leaf it ends in either refuses the key or, unless the pool
\* holds a newer version of that very leaf, gives the tree's answer.
LookupFailsSafe ==
  Sane /\ pc # "closed" =>
  \A k \in Key : \A a \in Hops(k) :
    LET x == Walk(a, k) IN
    Code(a, k) \in {1, 2} /\ ~DirtyInPool(x) =>
      IF k \in DOMAIN TreeDict THEN Code(a, k) = 1 /\ backend[x].node.data[k] = TreeDict[k]
                               ELSE Code(a, k) = 2

RemoteDict == [k \in {x \in Key : x \in DOMAIN RemoteLeafFor(x)} |-> RemoteLeafFor(k)[k]]

\* After the destructor a client that goes on wherever it is sent comes to the
\* leaf of its key: no lookup ends in a wrong leaf, on any number of nodes.
HopsReachLeaf ==
  Sane /\ pc = "closed" =>
  \A k \in Key : \E a \in Hops(k) :
    Code(a, k) \in {1, 2} /\ (Code(a, k) = 1 <=> k \in DOMAIN RemoteDict)

RemoteKV == INSTANCE KVStore WITH dict <- RemoteDict, ret <- srv

\* The operations on the backend are the dictionary's, except that they may be
\* refused: with 0 or -1 nothing changes.
ServerImplementsKV ==
  [][Sane /\ pc = "closed" =>
       RemoteKV!Next \/ (code' \in {0, -1} /\ UNCHANGED RemoteDict)]_<<RemoteDict, serverVars>>

=============================================================================
