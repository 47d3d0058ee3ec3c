-------------------------- MODULE ServerBtreeProofs --------------------------
(***************************************************************************)
(* Proofs about the operations a memory server runs on the backend.        *)
(*                                                                         *)
(* While the tree is open, the backend has old versions of its pages.      *)
(* Behind(Q) says what of them is still true: a page that was written has  *)
(* the type it has now, and an old inner page names pages that are one     *)
(* level below it now, though perhaps not the right ones.  So a walk       *)
(* goes down and ends, and if the leaf it ends in is not itself out of     *)
(* date and its limits hold the key, it is the one leaf of the key         *)
(* (OneLeaf).  From the destructor on the backend's pages are the tree     *)
(* (RemoteSound), and the server's writes keep them one.                   *)
(***************************************************************************)
EXTENDS ServerBtree, TreeContentsProofs

-----------------------------------------------------------------------------
(* Following references *)

\* The trips Follow makes, and one turn of it if f is what the rest of it does.
Trips(next) == (0 .. BackendPages) \X DOMAIN next
Trip(f, next, w) ==
  IF w[1] = 0 \/ next[w[2]] = w[2] THEN w[2] ELSE f[<<w[1] - 1, next[w[2]]>>]
Tripping(f, next) == [w \in Trips(next) |-> Trip(f, next, w)]

\* next stays in S, and in its part G.
Leads(next, S, G) == next \in [S -> S] /\ G \subseteq S /\ \A x \in G : next[x] \in G
\* It goes down by lev until it stays where it is.
Sinks(next, S, G, lev) ==
  Leads(next, S, G) /\ \A x \in G : lev[x] \in Nat /\ (next[x] = x \/ lev[next[x]] < lev[x])

\* The recursion ends: there is a function that follows it.
LEMMA TripsExist ==
  ASSUME NEW S, NEW next \in [S -> S]
  PROVE  \E f : f = Tripping(f, next)
  <1> DEFINE Upto(n) == {f \in [Trips(next) -> S] :
                           \A w \in Trips(next) : w[1] <= n => f[w] = Trip(f, next, w)}
             T == {n \in Nat : Upto(n) = {}}
  <1>0. BackendPages \in Nat
    BY AddrAssumption
  <1>1. \A w \in Trips(next) : w[1] \in 0 .. BackendPages /\ w[2] \in S /\ next[w[2]] \in S
    BY DEF Trips
  <1>2. \A w \in Trips(next) : w[1] # 0 =>
          /\ <<w[1] - 1, next[w[2]]>> \in Trips(next)
          /\ <<w[1] - 1, next[w[2]]>>[1] = w[1] - 1
    BY <1>0, <1>1 DEF Trips
  <1>3. T = {}
    <2> SUFFICES ASSUME T # {} PROVE FALSE
      OBVIOUS
    <2>1. PICK n \in T : \A m \in T : n <= m
      BY LeastNumber
    <2>2. CASE n = 0
      <3> DEFINE f == [w \in Trips(next) |-> w[2]]
      <3>1. f \in [Trips(next) -> S]
        BY <1>1
      <3>2. \A w \in Trips(next) : w[1] <= 0 => w[1] = 0
        BY <1>0, <1>1
      <3>3. \A w \in Trips(next) : w[1] <= 0 => f[w] = Trip(f, next, w)
        BY <3>2 DEF Trip
      <3>4. f \in Upto(0)
        BY <3>1, <3>3
      <3> QED BY <2>2, <3>4
    <2>3. CASE n # 0
      <3>1. n \in Nat /\ n - 1 \in Nat /\ n - 1 \notin T
        BY <2>1, <2>3
      <3>2. PICK f \in Upto(n - 1) : TRUE
        BY <3>1
      <3>3. /\ f \in [Trips(next) -> S]
            /\ \A w \in Trips(next) : w[1] <= n - 1 => f[w] = Trip(f, next, w)
        BY <3>2
      <3> HIDE DEF T, Upto
      <3> DEFINE g == [w \in Trips(next) |-> IF w[1] = n THEN Trip(f, next, w) ELSE f[w]]
      <3>4. \A w \in Trips(next) : Trip(f, next, w) \in S
        BY <1>1, <1>2, <3>3 DEF Trip
      <3>5. g \in [Trips(next) -> S]
        BY <3>3, <3>4
      <3>6. \A w \in Trips(next) : w[1] # n => g[w] = f[w]
        OBVIOUS
      <3>7. \A w \in Trips(next) : w[1] = n => g[w] = Trip(f, next, w)
        OBVIOUS
      <3> HIDE DEF g
      <3>8. ASSUME NEW w \in Trips(next), w[1] <= n
            PROVE  g[w] = Trip(g, next, w)
        <4>1. Trip(g, next, w) = Trip(f, next, w)
          <5>1. CASE w[1] = 0
            BY <5>1 DEF Trip
          <5>2. CASE w[1] # 0
            <6> DEFINE v == <<w[1] - 1, next[w[2]]>>
            <6>1. v \in Trips(next) /\ v[1] = w[1] - 1
              BY <1>2, <5>2
            <6>2. v[1] # n
              BY <1>0, <1>1, <3>1, <3>8, <6>1
            <6>3. g[v] = f[v]
              BY <3>6, <6>1, <6>2
            <6> QED BY <5>2, <6>3 DEF Trip
          <5> QED BY <5>1, <5>2
        <4>2. CASE w[1] = n
          BY <3>7, <4>1, <4>2
        <4>3. CASE w[1] # n
          <5>1. w[1] <= n - 1
            BY <1>0, <1>1, <3>1, <3>8, <4>3
          <5> QED BY <3>3, <3>6, <4>1, <4>3, <5>1
        <4> QED BY <4>2, <4>3
      <3>9. g \in Upto(n)
        BY <3>5, <3>8 DEF Upto
      <3>10. n \notin T
        BY <3>9 DEF T
      <3> QED BY <2>1, <3>10
    <2> QED BY <2>2, <2>3
  <1>4. PICK f \in Upto(BackendPages) : TRUE
    BY <1>0, <1>3
  <1>5. f \in [Trips(next) -> S] /\ \A w \in Trips(next) : f[w] = Trip(f, next, w)
    BY <1>0, <1>1, <1>4
  <1>6. f = Tripping(f, next)
    BY <1>5 DEF Tripping
  <1> QED BY <1>6

\* One turn of it.
LEMMA FollowTurn ==
  ASSUME NEW S, NEW next \in [S -> S], NEW n \in 0 .. BackendPages, NEW x \in S
  PROVE  Follow(next, n, x) = IF n = 0 \/ next[x] = x THEN x ELSE Follow(next, n - 1, next[x])
  <1> DEFINE f == CHOOSE g : g = Tripping(g, next)
  <1>0. BackendPages \in Nat
    BY AddrAssumption
  <1>1. \A m, y : Follow(next, m, y) = f[<<m, y>>]
    BY Zenon DEF Follow, Tripping, Trips, Trip
  <1>2. f = Tripping(f, next)
    BY TripsExist, Zenon
  <1> HIDE DEF f
  <1>3. \A w \in Trips(next) : f[w] = Trip(f, next, w)
    BY <1>2 DEF Tripping
  <1> DEFINE w == <<n, x>>
  <1>4. w \in Trips(next) /\ w[1] = n /\ w[2] = x
    BY DEF Trips
  <1> HIDE DEF w
  <1>5. f[w] = IF n = 0 \/ next[x] = x THEN x ELSE f[<<n - 1, next[x]>>]
    BY <1>3, <1>4 DEF Trip
  <1> QED BY <1>1, <1>5 DEF w

\* Where next stays in G, so does Follow.
LEMMA FollowIn ==
  ASSUME NEW next, NEW S, NEW G, Leads(next, S, G), NEW n \in 0 .. BackendPages, NEW x \in G
  PROVE  Follow(next, n, x) \in G
  <1> DEFINE T == {m \in Nat : m <= BackendPages /\ \E y \in G : Follow(next, m, y) \notin G}
  <1>0. BackendPages \in Nat /\ next \in [S -> S] /\ G \subseteq S /\ \A y \in G : next[y] \in G
    BY AddrAssumption DEF Leads
  <1>1. T = {}
    <2> SUFFICES ASSUME T # {} PROVE FALSE
      OBVIOUS
    <2>1. PICK m \in T : \A j \in T : m <= j
      BY LeastNumber
    <2>2. PICK y \in G : Follow(next, m, y) \notin G
      BY <2>1
    <2>3. m \in 0 .. BackendPages /\ m - 1 \notin T
      BY <1>0, <2>1
    <2>4. Follow(next, m, y) = IF m = 0 \/ next[y] = y THEN y ELSE Follow(next, m - 1, next[y])
      BY <1>0, <2>2, <2>3, FollowTurn
    <2>5. m # 0 /\ Follow(next, m - 1, next[y]) \notin G
      BY <2>2, <2>4
    <2>6. m - 1 \in Nat /\ m - 1 <= BackendPages
      BY <1>0, <2>3, <2>5
    <2> QED BY <1>0, <2>2, <2>3, <2>5, <2>6
  <1>2. n \in Nat /\ n <= BackendPages
    BY <1>0
  <1> QED BY <1>1, <1>2

\* Where next goes down, Follow ends, given the turns for it.
LEMMA FollowEnds ==
  ASSUME NEW next, NEW S, NEW G, NEW lev, Sinks(next, S, G, lev), NEW n \in 0 .. BackendPages, NEW x \in G,
         lev[x] <= n
  PROVE  LET y == Follow(next, n, x) IN y \in G /\ next[y] = y /\ (y = x \/ lev[y] < lev[x])
  <1> DEFINE Good(x0, y) == y \in G /\ next[y] = y /\ (y = x0 \/ lev[y] < lev[x0])
             T == {m \in Nat : m <= BackendPages /\ \E y \in G : lev[y] <= m /\ ~Good(y, Follow(next, m, y))}
  <1>0. /\ BackendPages \in Nat /\ next \in [S -> S] /\ G \subseteq S
        /\ \A y \in G : next[y] \in G /\ lev[y] \in Nat /\ (next[y] = y \/ lev[next[y]] < lev[y])
    BY AddrAssumption DEF Sinks, Leads
  <1>1. T = {}
    <2> SUFFICES ASSUME T # {} PROVE FALSE
      OBVIOUS
    <2>1. PICK m \in T : \A j \in T : m <= j
      BY LeastNumber
    <2>2. PICK y \in G : lev[y] <= m /\ ~Good(y, Follow(next, m, y))
      BY <2>1
    <2>3. m \in 0 .. BackendPages /\ m \in Nat /\ m - 1 \notin T
      BY <1>0, <2>1
    <2>4. Follow(next, m, y) = IF m = 0 \/ next[y] = y THEN y ELSE Follow(next, m - 1, next[y])
      BY <1>0, <2>2, <2>3, FollowTurn
    <2> DEFINE z == next[y]
    <2>5. next[y] # y
      BY <2>2, <2>4
    <2>6. z \in G /\ lev[y] \in Nat /\ lev[z] \in Nat /\ lev[z] < lev[y]
      BY <1>0, <2>2, <2>5
    <2>7. m # 0 /\ m - 1 \in Nat /\ m - 1 <= BackendPages /\ lev[z] <= m - 1
      BY <1>0, <2>2, <2>3, <2>6
    <2>8. Follow(next, m, y) = Follow(next, m - 1, z)
      BY <2>4, <2>5, <2>7
    <2> HIDE DEF z
    <2>9. Good(z, Follow(next, m - 1, z))
      BY <2>3, <2>6, <2>7
    <2> DEFINE e == Follow(next, m - 1, z)
    <2>10. e \in G /\ next[e] = e /\ (e = z \/ lev[e] < lev[z]) /\ lev[e] \in Nat
      BY <1>0, <2>9
    <2> HIDE DEF e
    <2>11. Good(y, e)
      BY <2>6, <2>10
    <2> QED BY <2>2, <2>8, <2>11 DEF e
  <1>2. n \in Nat /\ n <= BackendPages
    BY <1>0
  <1>3. Good(x, Follow(next, n, x))
    BY <1>1, <1>2
  <1> QED BY <1>3

-----------------------------------------------------------------------------
(* Walks on the backend *)

\* No page of the backend refers to the pool.
Tidy == \A a \in Addr : backend[a].node \in NodeT /\ Shape(backend[a].node) /\ Untagged(backend[a].node)

\* One turn of the loop.
LEMMA TurnFacts ==
  ASSUME Tidy, NEW a, NEW k
  PROVE  /\ Turn(a, k) \in [Addr -> Addr]
         /\ \A x \in Addr :
              /\ Remote[x].type # "inner" \/ nodeID[x] # nodeID[a] => Turn(a, k)[x] = x
              /\ Remote[x].type = "inner" /\ nodeID[x] = nodeID[a] => Turn(a, k)[x] = NextRef(Remote, k, x)
  <1>1. \A x \in Addr : Remote[x].type = "inner" => NextRef(Remote, k, x) \in Addr
    BY RemoteClosed DEF Tidy
  <1>2. \A x \in Addr : Remote[x] = backend[x].node
    BY DEF Remote
  <1>3. Turn(a, k) = [x \in Addr |-> IF Remote[x].type # "inner" \/ nodeID[x] # nodeID[a] THEN x
                                     ELSE NextRef(Remote, k, x)]
    BY <1>2 DEF Turn, NextRef
  <1> QED BY <1>1, <1>3

\* A walk stays in the store, and where pages of G lead to G, in G.
LEMMA WalkIn ==
  ASSUME Tidy, NEW a, NEW k, NEW G, G \subseteq Addr, a \in G,
         \A x \in G : Remote[x].type = "inner" => NextRef(Remote, k, x) \in G
  PROVE  Leads(Turn(a, k), Addr, G) /\ Walk(a, k) \in G
  <1>1. Leads(Turn(a, k), Addr, G)
    BY TurnFacts DEF Leads
  <1>2. BackendPages \in 0 .. BackendPages
    BY AddrAssumption
  <1> QED BY <1>1, <1>2, FollowIn DEF Walk

\* If each page is lower than the last, it ends at a page that is not an inner node, or on
\* another node and lower than where it began.
LEMMA WalkEnds ==
  ASSUME Tidy, NEW a, NEW k, NEW G, G \subseteq Addr, a \in G, NEW lev, lev[a] <= BackendPages,
         \A x \in G : lev[x] \in Nat,
         \A x \in G : Remote[x].type = "inner" =>
           NextRef(Remote, k, x) \in G /\ lev[NextRef(Remote, k, x)] < lev[x]
  PROVE  LET x == Walk(a, k) IN
         /\ x \in G /\ (x = a \/ lev[x] < lev[a])
         /\ nodeID[x] = nodeID[a] => Remote[x].type # "inner"
  <1> DEFINE next == Turn(a, k)
  <1>1. Leads(next, Addr, G)
    BY WalkIn
  <1>2. \A x \in G : next[x] = x \/ lev[next[x]] < lev[x]
    BY TurnFacts
  <1>3. Sinks(next, Addr, G, lev)
    BY <1>1, <1>2 DEF Sinks
  <1>4. BackendPages \in 0 .. BackendPages
    BY AddrAssumption
  <1> DEFINE x == Walk(a, k)
  <1>5. x \in G /\ next[x] = x /\ (x = a \/ lev[x] < lev[a])
    <2>1. x = Follow(next, BackendPages, a)
      BY DEF Walk
    <2> HIDE DEF x, next
    <2> QED BY <1>3, <1>4, <2>1, FollowEnds
  <1> HIDE DEF x
  <1>6. ASSUME nodeID[x] = nodeID[a], Remote[x].type = "inner" PROVE FALSE
    <2>1. next[x] = NextRef(Remote, k, x)
      BY <1>5, <1>6, TurnFacts
    <2>2. lev[NextRef(Remote, k, x)] < lev[x] /\ lev[x] \in Nat
      BY <1>5, <1>6
    <2> QED BY <1>5, <2>1, <2>2
  <1> QED BY <1>5, <1>6 DEF x

\* The client goes from page to page, too.
LEMMA HopFacts ==
  ASSUME Tidy, NEW k
  PROVE  /\ Hop(k) \in [Addr -> Addr]
         /\ \A a \in Addr : Hop(k)[a] = IF Code(a, k) = 0 THEN Walk(a, k) ELSE a
  <1>1. \A x \in Addr : Remote[x].type = "inner" => NextRef(Remote, k, x) \in Addr
    BY RemoteClosed DEF Tidy
  <1>2. \A a \in Addr : Walk(a, k) \in Addr
    BY <1>1, WalkIn
  <1> QED BY <1>2 DEF Hop

\* Where walks do not leave G, neither does the client.
LEMMA HopsIn ==
  ASSUME Tidy, NEW k, NEW G, G \subseteq Addr, root_ \in G, \A a \in G : Walk(a, k) \in G
  PROVE  Leads(Hop(k), Addr, G) /\ Hops(k) \subseteq G
  <1>1. Leads(Hop(k), Addr, G)
    <2>1. \A a \in G : Hop(k)[a] \in G
      BY HopFacts
    <2> QED BY <2>1, HopFacts DEF Leads
  <1>2. \A n \in 0 .. BackendPages : Follow(Hop(k), n, root_) \in G
    BY <1>1, FollowIn
  <1> QED BY <1>1, <1>2 DEF Hops

\* What a code says.
LEMMA CodeFacts ==
  ASSUME NEW a, NEW k
  PROVE  LET x == Walk(a, k) IN
         /\ Code(a, k) = 0 <=> nodeID[x] # nodeID[a]
         /\ Code(a, k) = -1 <=> nodeID[x] = nodeID[a] /\ ~rangeValid(backend[x].node, k)
         /\ Code(a, k) \in {1, 2} <=> nodeID[x] = nodeID[a] /\ rangeValid(backend[x].node, k)
         /\ Code(a, k) \in {1, 2} => (Code(a, k) = 1 <=> k \in DOMAIN backend[x].node.data)
  BY DEF Code

-----------------------------------------------------------------------------
(* The backend while the tree is open *)

\* n may be out of date: the page was never written, or has kept its type and names pages
\* one level below it.
Older(n, a, Q) ==
  /\ n.type = "none" => n.lo = n.hi
  /\ n.type # "none" =>
       /\ a \in Live /\ ~Waiting(a) /\ n.type = Q[a].type
       /\ \A i \in 1 .. Len(n.kids) : n.kids[i] \in Live /\ Q[n.kids[i]].level + 1 = Q[a].level
Behind(Q) == \A a \in Addr : Older(backend[a].node, a, Q)

\* A page that waits for a slot is new.
LEMMA WaitingSteps ==
  ASSUME Running, [Next]_vars, NEW a, Waiting(a)'
  PROVE  Waiting(a) \/ a \notin Live
  <1>0. pc' \in {"sib", "root"} /\ a = adm'.addr
    BY DEF Waiting
  <1>1. ASSUME SplitInner \/ MakeNewRoot PROVE a \notin Live
    <2>1. a = AllocAddr /\ cur_offset \in Nat
      BY <1>0, <1>1, RunningFacts, AddrAssumption DEF SplitInner, MakeNewRoot, TreeTypes
    <2> QED BY <2>1 DEF AllocAddr, Live, NullAddr
  <1>2. ASSUME UNCHANGED <<pc, adm>> PROVE Waiting(a)
    BY <1>0, <1>2 DEF Waiting
  <1>3. CASE VisitHit \/ VisitMiss \/ LoadSibling \/ AdmitLoad
    BY <1>0, <1>3 DEF VisitHit, VisitMiss, LoadSibling, LoadChild, AdmitLoad
  <1>4. CASE SplitLeaf \/ AdmitSib \/ LinkSibling \/ AdmitRoot \/ Destroy
    BY <1>0, <1>4 DEF SplitLeaf, AdmitSib, LinkSibling, AdmitRoot, Destroy
  <1>5. CASE RequestUnpinned \/ PoolStep \/ UNCHANGED vars
    BY <1>2, <1>5 DEF RequestUnpinned, PoolStep, vars, treeVars
  <1>6. CASE LeafStep
    BY <1>0, <1>6 DEF LeafStep, LeafInsert, LeafLookup, LeafUpdate, LeafRemove, LeafScan, LeafCtor, Finish
  <1>7. ASSUME NEW o \in Calls, Begin(o) PROVE FALSE
    BY <1>0, <1>7 DEF Begin
  <1>8. ASSUME NEW s \in Slot, SampleDemote(s) \/ SampleStale(s) \/ SampleOrphan(s)
        PROVE  UNCHANGED <<pc, adm>>
    BY <1>8 DEF SampleDemote, SampleStale, SampleOrphan
  <1>9. ASSUME NEW s \in Slot, SampleAssert(s) PROVE FALSE
    BY <1>0, <1>9 DEF SampleAssert
  <1> QED BY <1>1, <1>2, <1>3, <1>4, <1>5, <1>6, <1>7, <1>8, <1>9 DEF Next, TreeStep, LeafStep

\* Only these steps write to the backend.
LEMMA BackendWriters ==
  ASSUME [Next]_vars
  PROVE  backend' = backend \/ SplitLeaf \/ Destroy \/ \E s \in Slot : SampleDemote(s) \/ SampleOrphan(s)
  <1>1. CASE VisitHit \/ VisitMiss \/ LoadSibling \/ AdmitLoad
    BY <1>1 DEF VisitHit, VisitMiss, LoadSibling, LoadChild, AdmitLoad, storage
  <1>2. CASE SplitInner \/ AdmitSib \/ LinkSibling \/ MakeNewRoot \/ AdmitRoot
    BY <1>2 DEF SplitInner, AdmitSib, LinkSibling, MakeNewRoot, AdmitRoot, storage
  <1>3. CASE RequestUnpinned \/ PoolStep \/ UNCHANGED vars
    BY <1>3 DEF RequestUnpinned, PoolStep, vars, treeVars, storage
  <1>4. CASE LeafStep
    BY <1>4 DEF LeafStep, LeafInsert, LeafLookup, LeafUpdate, LeafRemove, LeafScan, LeafCtor, Finish, storage
  <1>5. ASSUME NEW o \in Calls, Begin(o) PROVE backend' = backend
    BY <1>5 DEF Begin, storage
  <1>6. ASSUME NEW s \in Slot, SampleStale(s) \/ SampleAssert(s) PROVE backend' = backend
    BY <1>6 DEF SampleStale, SampleAssert, storage
  <1> QED BY <1>1, <1>2, <1>3, <1>4, <1>5, <1>6 DEF Next, TreeStep, LeafStep

\* What a step writes is the page as it is then.
LEMMA BackendSteps ==
  ASSUME Running, Running', OnlyHotDirty, NEW Q \in [Addr -> NodeT], NEW P \in [Addr -> NodeT], Sound(Q), Sound(P)',
         [Next]_vars, NoDanglingRef', Fits', NEW a \in Addr
  PROVE  backend'[a] = backend[a] \/ (a \in Live' /\ backend'[a].node = P[a] /\ ~Waiting(a)')
  <1>1. CachedPages(Q) /\ WaitingPage(Q) /\ CachedPages(P)' /\ UncachedPages(P)'
    BY DEF Sound, Stored
  <1>2. backend \in [Addr -> [node : NodeT, dirty : BOOLEAN]] /\ cur_offset \in Nat /\ Used \in SUBSET Slot
    BY RunningFacts, AddrAssumption DEF TreeTypes
  <1>3. backend'[a].node = P[a] \/ Cached(a)' \/ Waiting(a)'
    BY <1>1 DEF UncachedPages, Waiting
  <1>4. CASE SplitLeaf
    <2>1. /\ backend' = [backend EXCEPT ![AllocAddr] = Image(LeafRight(node[child]), TRUE)]
          /\ right' = AllocAddr /\ pc' = "link" /\ cur_offset' = AllocOffset /\ MarkDirty({child})
      BY <1>4 DEF SplitLeaf
    <2>2. AllocAddr # NullAddr
      BY <2>1 DEF Fits, Splitting
    <2>3. AllocAddr \in Addr \ Live /\ AllocAddr \in Live'
      <3>1. AllocAddr = cur_offset /\ cur_offset \in Addr \ Live /\ cur_offset' = cur_offset + 1 /\ cur_offset \in Nat \ {0}
        BY <2>1, <2>2, AllocFresh
      <3> QED BY <3>1 DEF Live
    <2>4. Used' = Used /\ remote_address' = remote_address
      BY <2>1, WriteKeepsUsed DEF Running, MarkDirty
    <2>5. ~Waiting(a)'
      BY <2>1 DEF Waiting
    <2>6. CASE a # AllocAddr
      BY <1>2, <2>1, <2>6
    <2>7. CASE a = AllocAddr
      <3>1. ~Cached(a)'
        BY <1>1, <2>3, <2>4, <2>7 DEF Cached, CachedPages
      <3> QED BY <1>3, <2>3, <2>5, <2>7, <3>1
    <2> QED BY <2>6, <2>7
  <1>5. ASSUME NEW s \in Slot, SampleDemote(s) \/ SampleOrphan(s)
        PROVE  backend'[a] = backend[a] \/ (a \in Live' /\ backend'[a].node = P[a] /\ ~Waiting(a)')
    <2>1. /\ SamplePage(s) /\ UNCHANGED <<cur_offset, pc, adm>>
          /\ backend' = IF dirty[s] THEN [backend EXCEPT ![remote_address[s]] = Image(node[s], FALSE)]
                                    ELSE backend
      BY <1>5 DEF SampleDemote, SampleOrphan, Demote
    <2>2. s \in Used /\ Used' = Used \ {s} /\ remote_address' = remote_address
      BY <2>1, DemoteTakesUsed DEF Running
    <2>3. remote_address[s] \in Live /\ Live' = Live
      BY <1>1, <2>1, <2>2 DEF CachedPages, Live
    <2>4. CASE a # remote_address[s]
      BY <1>2, <2>1, <2>4
    <2>5. CASE a = remote_address[s]
      <3>1. ~Cached(a)'
        BY <1>1, <2>2, <2>5 DEF Cached, CachedPages
      <3>2. ~Waiting(a)'
        <4>1. Cached(a)
          BY <2>2, <2>5 DEF Cached
        <4> QED BY <1>1, <2>1, <4>1 DEF Waiting, WaitingPage
      <3> QED BY <1>3, <2>3, <2>5, <3>1, <3>2
    <2> QED BY <2>4, <2>5
  <1>6. CASE Destroy
    <2>1. /\ FlushAll /\ backend' = FlushedBackend /\ pc' = "closed" /\ UNCHANGED cur_offset
      BY <1>6 DEF Destroy
    <2>2. ~Waiting(a)' /\ Live' = Live
      BY <2>1 DEF Waiting, Live
    <2>3. \A s \in Slot : ~dirty'[s]
      BY <2>1 DEF FlushAll
    <2>4. Cached(a)' => backend'[a].node = P[a]
      <3>1. Used' \in SUBSET Slot
        BY DEF Used
      <3> QED BY <1>1, <2>3, <3>1 DEF Cached, CachedPages
    <2>5. CASE \E s \in Slot : dirty[s] /\ remote_address[s] = a
      <3>1. a \in Live
        BY <1>1, <2>5 DEF OnlyHotDirty, Used, CachedPages
      <3> QED BY <1>3, <2>2, <2>4, <3>1
    <2>6. CASE ~\E s \in Slot : dirty[s] /\ remote_address[s] = a
      <3>1. {s \in Slot : dirty[s] /\ remote_address[s] = a} = {}
        BY <2>6
      <3>2. FlushedBackend[a] = backend[a]
        BY <3>1 DEF FlushedBackend
      <3> QED BY <2>1, <3>2
    <2> QED BY <2>5, <2>6
  <1> QED BY <1>4, <1>5, <1>6, BackendWriters

\* No page changes its type or its level.
LEMMA LevelsKept ==
  ASSUME Running, NEW Q \in [Addr -> NodeT], NEW P \in [Addr -> NodeT], Edit(Q, P), NEW a \in Live
  PROVE  a \in Live' /\ P[a].type = Q[a].type /\ P[a].level = Q[a].level
  <1>1. Live \in SUBSET Addr /\ cur_offset \in Nat
    BY RunningFacts, AddrAssumption DEF TreeTypes
  <1>2. a \in Live'
    <2>1. cur_offset' = cur_offset \/ cur_offset' = cur_offset + 1
      BY DEF Edit, Kept, Wrote, Halved, Joined, Grown
    <2> QED BY <1>1, <2>1 DEF Live
  <1>3. CASE pc = "split" /\ a = remote_address[child]
    <2>1. Kept(Q, P) \/ Halved(Q, P)
      BY <1>3 DEF Edit, Wrote, Joined, Grown
    <2> QED BY <1>2, <1>3, <2>1 DEF Kept, Halved, SplitPage
  <1>4. CASE ~(pc = "split" /\ a = remote_address[child])
    BY <1>1, <1>2, <1>4, LimitsKept
  <1> QED BY <1>3, <1>4

\* A page that is written anew is not out of date.
LEMMA NewNotOlder ==
  \A P \in [Addr -> NodeT], a \in Addr :
    Running /\ Sound(P) /\ a \in Live /\ ~Waiting(a) => Older(P[a], a, P)
  <1> SUFFICES ASSUME NEW P \in [Addr -> NodeT], NEW a \in Addr, Running, Sound(P), a \in Live, ~Waiting(a)
               PROVE  Older(P[a], a, P)
    OBVIOUS
  <1>1. PageOK(P[a])
    BY DEF Sound, Fenced
  <1>2. P[a].type # "none"
    BY <1>1 DEF PageOK
  <1>3. ASSUME NEW i \in 1 .. Len(P[a].kids) PROVE P[a].kids[i] \in Live /\ P[P[a].kids[i]].level + 1 = P[a].level
    BY DEF Sound, Linked, Fenced, KidFits
  <1> QED BY <1>2, <1>3 DEF Older

\* After a step, too.
LEMMA NewNotOlderNext ==
  \A P \in [Addr -> NodeT], a \in Addr :
    Running' /\ Sound(P)' /\ a \in Live' /\ ~Waiting(a)' => Older(P[a], a, P)'
  <1>1. (\A P \in [Addr -> NodeT], a \in Addr :
           Running /\ Sound(P) /\ a \in Live /\ ~Waiting(a) => Older(P[a], a, P))'
    BY NewNotOlder, PTL
  <1> QED BY <1>1

\* What was true of old versions stays true.
LEMMA BehindNext ==
  ASSUME Running, Running', OnlyHotDirty, NEW Q \in [Addr -> NodeT], NEW P \in [Addr -> NodeT], Sound(Q), Behind(Q),
         Sound(P)', Edit(Q, P), [Next]_vars, NoDanglingRef', Fits'
  PROVE  Behind(P)'
  <1> SUFFICES ASSUME NEW a \in Addr PROVE Older(backend[a].node, a, P)'
    BY DEF Behind
  <1>1. CASE backend'[a] = backend[a]
    <2> DEFINE n == backend[a].node
    <2>1. Older(n, a, Q)
      BY DEF Behind
    <2>2. backend'[a].node = n
      BY <1>1
    <2>3. CASE n.type = "none"
      BY <2>1, <2>2, <2>3 DEF Older
    <2>4. CASE n.type # "none"
      <3>1. a \in Live /\ ~Waiting(a) /\ n.type = Q[a].type
        BY <2>1, <2>4 DEF Older
      <3>2. ~Waiting(a)'
        BY <3>1, WaitingSteps
      <3>3. a \in Live' /\ n.type = P[a].type /\ P[a].level = Q[a].level
        BY <3>1, LevelsKept
      <3>4. ASSUME NEW i \in 1 .. Len(n.kids)
            PROVE  n.kids[i] \in Live' /\ P[n.kids[i]].level + 1 = P[a].level
        <4>1. n.kids[i] \in Live /\ Q[n.kids[i]].level + 1 = Q[a].level
          BY <2>1, <2>4 DEF Older
        <4> QED BY <3>3, <4>1, LevelsKept
      <3> QED BY <2>2, <2>4, <3>2, <3>3, <3>4 DEF Older
    <2> QED BY <2>3, <2>4
  <1>2. CASE a \in Live' /\ backend'[a].node = P[a] /\ ~Waiting(a)'
    <2>1. Older(P[a], a, P)'
      BY <1>2, NewNotOlderNext
    <2> QED BY <1>2, <2>1 DEF Older
  <1> QED BY <1>1, <1>2, BackendSteps

\* At first the backend has an empty leaf and pages that were never written.
LEMMA BehindInit ==
  ASSUME Init, NEW Q \in [Addr -> NodeT], Sound(Q)
  PROVE  Behind(Q)
  <1>1. /\ PoolInit /\ pc = "visit" /\ cur_offset = 2
        /\ backend = [a \in Addr |-> IF a = 1 THEN Image(Leaf(<<>>, MinLimit, MaxLimit), TRUE)
                                              ELSE Image(Zeroed, FALSE)]
    BY DEF Init
  <1>2. Live = {1} /\ 1 \in Addr /\ Used = {}
    BY <1>1, SlotsAreNoAddresses DEF Live, PoolInit, Used, InUse
  <1>3. ASSUME NEW a \in Addr, a # 1 PROVE backend[a].node.type = "none" /\ backend[a].node.lo = backend[a].node.hi
    <2>1. backend[a] = Image(Zeroed, FALSE)
      BY <1>1, <1>3
    <2>2. Zeroed.type = "none" /\ Zeroed.lo = Zeroed.hi /\ Zeroed \in NodeT
      BY FreshNodes, BlankFacts DEF Blank, Zeroed, Leaf
    <2>3. SameText(WithParent(Zeroed, NoSlot), Zeroed)
      BY <2>2 DEF WithParent, SameText, NodeT
    <2> QED BY <2>1, <2>2, <2>3 DEF Image, SameText
  <1>4. backend[1].node = Q[1] /\ backend[1].node.kids = <<>> /\ backend[1].node.type = "leaf"
    <2>1. backend[1] = Image(Leaf(<<>>, MinLimit, MaxLimit), TRUE)
      BY <1>1, <1>2
    <2>2. backend[1].node = Q[1]
      BY <1>1, <1>2 DEF Sound, Stored, UncachedPages, Cached
    <2> QED BY <2>1, <2>2 DEF Image, WithParent, Leaf
  <1>5. ASSUME NEW a \in Addr PROVE Older(backend[a].node, a, Q)
    <2>1. CASE a = 1
      <3>1. ~Waiting(a) /\ a \in Live
        BY <1>1, <1>2, <2>1 DEF Waiting
      <3>2. Len(backend[a].node.kids) = 0
        BY <1>4, <2>1
      <3> QED BY <1>4, <2>1, <3>1, <3>2 DEF Older
    <2>2. CASE a # 1
      BY <1>3, <2>2 DEF Older
    <2> QED BY <2>1, <2>2
  <1> QED BY <1>5 DEF Behind

\* What is true of the tree and its backend while it is open.
OpenInv == ContInv /\ Sized /\ (pc # "aborted" => \E Q \in [Addr -> NodeT] : Sound(Q) /\ Behind(Q))

\* What the tree's own theorems know of it.
LEMMA OpenFences == OpenInv => FenceInv
  BY DEF OpenInv, FenceInv, FencesHold

\* A new tree: one page was never written, the root is as it was.
LEMMA OpenInit == Init => OpenInv
  <1> SUFFICES ASSUME Init PROVE OpenInv
    OBVIOUS
  <1>1. FenceInv /\ pc = "visit"
    BY FenceInit DEF Init
  <1>2. PICK Q \in [Addr -> NodeT] : Sound(Q)
    BY <1>1 DEF FenceInv, FencesHold
  <1>3. Behind(Q)
    BY <1>2, BehindInit
  <1> QED BY <1>1, <1>2, <1>3 DEF FenceInv, OpenInv

\* Every step of the tree keeps it.
LEMMA OpenNext == OpenInv /\ [Next]_vars /\ NoDanglingRef' /\ Fits' => OpenInv'
  <1> SUFFICES ASSUME OpenInv, [Next]_vars, NoDanglingRef', Fits' PROVE OpenInv'
    OBVIOUS
  <1>1. FenceInv /\ FenceInv'
    BY OpenFences, FenceNext
  <1>2. CASE pc' = "aborted"
    BY <1>1, <1>2 DEF FenceInv, OpenInv
  <1>3. CASE pc' # "aborted"
    <2>1. Running /\ Running' /\ OnlyHotDirty
      BY <1>1, <1>3, StillRunning DEF FenceInv
    <2>2. PICK Q \in [Addr -> NodeT] : Sound(Q) /\ Behind(Q)
      BY <2>1 DEF OpenInv, Running
    <2>3. PICK P \in [Addr -> NodeT] : Sound(P)' /\ Edit(Q, P)
      BY <2>1, <2>2, SoundStep
    <2>4. Behind(P)'
      BY <2>1, <2>2, <2>3, BehindNext
    <2> QED BY <1>1, <2>3, <2>4 DEF FenceInv, OpenInv
  <1> QED BY <1>2, <1>3

\* The backend's pages are nodes.
LEMMA OpenTidy ==
  ASSUME Running
  PROVE  Tidy
  BY RunningFacts DEF Tidy, Shapes

\* Of an old inner page, too, a child is one level lower.
LEMMA OldKid ==
  ASSUME Running, NEW Q \in [Addr -> NodeT], Behind(Q), NEW x \in Live, Remote[x].type = "inner", NEW k
  PROVE  LET y == NextRef(Remote, k, x) IN y \in Live /\ Q[y].level + 1 = Q[x].level
  <1>1. x \in Addr /\ Live \in SUBSET Addr
    BY RunningFacts
  <1>2. Remote[x] = backend[x].node /\ backend[x].node \in NodeT /\ Shape(backend[x].node)
    BY <1>1, OpenTidy DEF Tidy, Remote
  <1>3. lowerBound(Remote[x], k) \in 1 .. Len(Remote[x].kids)
    BY <1>2, LowerBoundRange, NodeSeqs DEF Shape
  <1>4. Older(Remote[x], x, Q)
    BY <1>1, <1>2 DEF Behind
  <1> QED BY <1>3, <1>4 DEF Older, NextRef

\* So walks go down, and a page that is not inner and has room for a key is a leaf.
LEMMA OldWalk ==
  ASSUME Running, NEW Q \in [Addr -> NodeT], Sound(Q), Behind(Q), NEW k \in Key, NEW a \in Hops(k)
  PROVE  LET x == Walk(a, k) IN
         Code(a, k) \in {1, 2} => x \in Live /\ backend[x].node.type = "leaf" /\ Within(backend[x].node, k)
                                  /\ ~Waiting(x) /\ Q[x].type = "leaf"
  <1> DEFINE G == {b \in Live : Q[b].level <= Q[root_].level}
             lev == [b \in Live |-> Q[b].level]
             x == Walk(a, k)
  <1>0. k \in Int
    BY TreeAssumption DEF Key
  <1>1. Tidy /\ Live \in SUBSET Addr /\ cur_offset \in Nat /\ cur_offset <= BackendPages /\ BackendPages \in Nat
    BY OpenTidy, RunningFacts, AddrAssumption DEF TreeTypes
  <1>2. root_ \in Live /\ Q[root_].level + 2 <= cur_offset /\ \A b \in Live : Q[b].level \in Nat
    BY <1>1 DEF Sound, Linked, Spread, NodeT
  <1>3. G \subseteq Addr /\ root_ \in G /\ \A b \in G : lev[b] = Q[b].level /\ lev[b] \in Nat /\ lev[b] <= BackendPages
    BY <1>1, <1>2
  <1>4. ASSUME NEW b \in G, Remote[b].type = "inner"
        PROVE  NextRef(Remote, k, b) \in G /\ lev[NextRef(Remote, k, b)] < lev[b]
    <2>1. NextRef(Remote, k, b) \in Live /\ Q[NextRef(Remote, k, b)].level + 1 = Q[b].level
      BY <1>4, OldKid
    <2> QED BY <1>2, <2>1
  <1>5. G \subseteq Live
    OBVIOUS
  <1> HIDE DEF G, lev
  <1>6. \A b \in G : Walk(b, k) \in G
    BY <1>1, <1>3, <1>4, WalkIn
  <1>7. a \in G
    BY <1>1, <1>3, <1>6, HopsIn
  <1>8. x \in G /\ (nodeID[x] = nodeID[a] => Remote[x].type # "inner")
    BY <1>1, <1>3, <1>4, <1>7, WalkEnds
  <1>9. x \in Live /\ x \in Addr
    BY <1>1, <1>5, <1>8
  <1> HIDE DEF x
  <1>10. Remote[x] = backend[x].node /\ backend[x].node \in NodeT /\ Older(backend[x].node, x, Q)
    BY <1>1, <1>9 DEF Remote, Tidy, Behind
  <1>11. ASSUME Code(a, k) \in {1, 2}
         PROVE  backend[x].node.type = "leaf" /\ Within(backend[x].node, k) /\ ~Waiting(x) /\ Q[x].type = "leaf"
    <2>1. nodeID[x] = nodeID[a] /\ rangeValid(backend[x].node, k)
      BY <1>11, CodeFacts DEF x
    <2>2. Within(backend[x].node, k)
      BY <2>1 DEF rangeValid, Within
    <2>3. backend[x].node.lo # backend[x].node.hi
      <3>1. backend[x].node.lo \in Int /\ backend[x].node.hi \in Int
        BY <1>10 DEF NodeT
      <3> QED BY <1>0, <2>2, <3>1 DEF Within
    <2>4. backend[x].node.type \in {"none", "leaf", "inner"}
      BY <1>10 DEF NodeT
    <2> QED BY <1>8, <1>10, <2>1, <2>2, <2>3, <2>4 DEF Older
  <1> QED BY <1>9, <1>11 DEF x

\* A lookup on the live backend gives the tree's answer or none.
LEMMA OpenLookups == OpenInv /\ pc # "closed" => LookupFailsSafe
  <1> SUFFICES ASSUME OpenInv, pc # "aborted", NEW k \in Key, NEW a \in Hops(k),
                      Code(a, k) \in {1, 2}, ~DirtyInPool(Walk(a, k))
               PROVE  LET x == Walk(a, k) IN
                      IF k \in DOMAIN TreeDict THEN Code(a, k) = 1 /\ backend[x].node.data[k] = TreeDict[k]
                                               ELSE Code(a, k) = 2
    BY DEF LookupFailsSafe, Sane
  <1> DEFINE x == Walk(a, k)
  <1>1. Running
    BY DEF OpenInv, ContInv, Running
  <1>2. PICK Q \in [Addr -> NodeT] : Sound(Q) /\ Behind(Q)
    BY DEF OpenInv
  <1>3. /\ x \in Live /\ Within(backend[x].node, k)
        /\ ~Waiting(x) /\ Q[x].type = "leaf"
    BY <1>1, <1>2, OldWalk
  <1>4. backend[x].node = Q[x]
    <2>1. x \in Addr /\ Used \in SUBSET Slot
      BY <1>1, <1>3, RunningFacts
    <2>2. CASE Cached(x)
      <3>1. PICK s \in Used : remote_address[s] = x
        BY <2>2 DEF Cached
      <3>2. ~dirty[s]
        BY <2>1, <3>1 DEF DirtyInPool, Used
      <3> QED BY <1>2, <3>1, <3>2 DEF Sound, Stored, CachedPages
    <2>3. CASE ~Cached(x)
      BY <1>2, <1>3, <2>1, <2>3 DEF Sound, Stored, UncachedPages, Waiting
    <2> QED BY <2>2, <2>3
  <1> HIDE DEF x
  <1>5. PICK b \in Live : Q[b].type = "leaf" /\ Within(Q[b], k) /\ LeafFor(k) = Q[b].data
    BY <1>1, <1>2, LeafFound
  <1>6. b = x
    BY <1>1, <1>2, <1>3, <1>4, <1>5, OneLeaf
  <1>7. LeafFor(k) = backend[x].node.data
    BY <1>4, <1>5, <1>6
  <1>8. Code(a, k) = 1 <=> k \in DOMAIN backend[x].node.data
    BY CodeFacts DEF x
  <1>9. /\ k \in DOMAIN TreeDict <=> k \in DOMAIN LeafFor(k)
        /\ k \in DOMAIN TreeDict => TreeDict[k] = LeafFor(k)[k]
    BY DictFacts
  <1> QED BY <1>7, <1>8, <1>9 DEF x

-----------------------------------------------------------------------------
(* The backend after the destructor *)

\* The pages on the way to k's leaf.
Path(k) == {b \in Live : Within(Remote[b], k) /\ Remote[b].level <= Remote[root_].level}

\* Such a backend lets walks go down.
LEMMA RemoteTidy ==
  ASSUME RemoteSound
  PROVE  Tidy
  BY DEF RemoteSound, Remote, Tidy

\* Where it begins, and what its pages are.
LEMMA PathFacts ==
  ASSUME RemoteSound, NEW k \in Key
  PROVE  /\ Path(k) \subseteq Addr /\ Path(k) \subseteq Live /\ root_ \in Path(k) /\ BackendPages \in Nat
         /\ \A b \in Path(k) : /\ Remote[b] \in NodeT /\ PageOK(Remote[b]) /\ Remote[b] = backend[b].node
                               /\ Remote[b].level \in Nat /\ Remote[b].level <= BackendPages
  <1>1. /\ Live \in SUBSET Addr /\ root_ \in Live /\ BackendPages \in Nat
        /\ \A x \in Live : Remote[x] \in NodeT /\ PageOK(Remote[x]) /\ Remote[x].level \in Nat
        /\ Remote[root_].level <= BackendPages /\ Within(Remote[root_], k)
    BY RemoteFacts
  <1>2. \A x \in Live : Remote[x] = backend[x].node
    BY <1>1 DEF Remote
  <1>3. root_ \in Path(k)
    BY <1>1 DEF Path
  <1>4. \A b \in Path(k) : b \in Live /\ Remote[b].level <= Remote[root_].level
    BY DEF Path
  <1>5. \A b \in Path(k) : Remote[b].level <= BackendPages
    BY <1>1, <1>4
  <1> QED BY <1>1, <1>2, <1>3, <1>4, <1>5

\* A walk stays on it and, if it does not come to another node, ends in the leaf.
LEMMA PathWalk ==
  ASSUME RemoteSound, NEW k \in Key, NEW a \in Path(k)
  PROVE  LET x == Walk(a, k) IN
         /\ x \in Path(k) /\ (x = a \/ Remote[x].level < Remote[a].level)
         /\ nodeID[x] = nodeID[a] => Remote[x].type = "leaf"
         /\ rangeValid(backend[x].node, k)
  <1> DEFINE G == Path(k)
             lev == [b \in Path(k) |-> Remote[b].level]
             x == Walk(a, k)
  <1>1. /\ Tidy /\ G \subseteq Addr /\ G \subseteq Live
        /\ \A b \in G : lev[b] = Remote[b].level /\ lev[b] \in Nat /\ lev[b] <= BackendPages
    BY RemoteTidy, PathFacts
  <1>2. ASSUME NEW b \in G, Remote[b].type = "inner"
        PROVE  NextRef(Remote, k, b) \in G /\ lev[NextRef(Remote, k, b)] < lev[b]
    <2> DEFINE y == NextRef(Remote, k, b)
    <2>1. b \in Live /\ Within(Remote[b], k) /\ Remote[b].level <= Remote[root_].level
      BY DEF Path
    <2>2. y \in Live /\ Within(Remote[y], k) /\ Remote[y].level + 1 = Remote[b].level
      BY <1>2, <2>1, RemoteKid
    <2>3. root_ \in Live /\ \A c \in Live : Remote[c].level \in Nat
      BY RemoteFacts
    <2> HIDE DEF y
    <2>4. Remote[y].level < Remote[b].level /\ Remote[y].level <= Remote[root_].level
      BY <2>1, <2>2, <2>3
    <2>5. y \in G
      BY <2>2, <2>4 DEF Path
    <2>6. lev[y] < lev[b]
      BY <2>4, <2>5
    <2> QED BY <2>5, <2>6 DEF y
  <1>3. lev[a] <= BackendPages /\ a \in G /\ \A b \in G : lev[b] = Remote[b].level
    BY <1>1
  <1> HIDE DEF G, lev
  <1>4. /\ x \in G /\ (x = a \/ lev[x] < lev[a])
        /\ nodeID[x] = nodeID[a] => Remote[x].type # "inner"
    BY <1>1, <1>2, <1>3, WalkEnds
  <1> HIDE DEF x
  <1>5. x \in Path(k)
    BY <1>4 DEF G
  <1>6. Within(Remote[x], k) /\ Remote[x] = backend[x].node /\ PageOK(Remote[x])
    BY <1>5, PathFacts DEF Path
  <1>7. rangeValid(backend[x].node, k)
    BY <1>6 DEF Within, rangeValid
  <1>8. nodeID[x] = nodeID[a] => Remote[x].type = "leaf"
    BY <1>4, <1>6 DEF PageOK
  <1> QED BY <1>3, <1>4, <1>5, <1>7, <1>8 DEF x

\* So does the client.
LEMMA PathHops ==
  ASSUME RemoteSound, NEW k \in Key
  PROVE  Leads(Hop(k), Addr, Path(k)) /\ Hops(k) \subseteq Path(k)
  BY RemoteTidy, PathFacts, PathWalk, HopsIn

\* A client that goes on as long as it is sent on has come to the leaf.
LEMMA PathEnds ==
  ASSUME RemoteSound, NEW k \in Key
  PROVE  \E a \in Hops(k) : Code(a, k) \in {1, 2}
  <1> DEFINE lev == [b \in Path(k) |-> Remote[b].level]
             next == Hop(k)
             y == Follow(next, BackendPages, root_)
  <1>1. /\ Leads(next, Addr, Path(k)) /\ root_ \in Path(k) /\ BackendPages \in Nat
        /\ \A b \in Path(k) : lev[b] = Remote[b].level /\ lev[b] \in Nat /\ lev[b] <= BackendPages
    BY PathFacts, PathHops
  <1>2. ASSUME NEW b \in Path(k) PROVE next[b] = b \/ lev[next[b]] < lev[b]
    <2>1. next[b] = b \/ next[b] = Walk(b, k)
      BY RemoteTidy, PathFacts, HopFacts
    <2>2. Walk(b, k) \in Path(k) /\ (Walk(b, k) = b \/ Remote[Walk(b, k)].level < Remote[b].level)
      BY PathWalk
    <2> QED BY <1>1, <2>1, <2>2
  <1>3. lev[root_] <= BackendPages /\ BackendPages \in 0 .. BackendPages
    BY <1>1
  <1> HIDE DEF lev, next
  <1>4. Sinks(next, Addr, Path(k), lev)
    BY <1>1, <1>2 DEF Sinks
  <1>5. y \in Path(k) /\ next[y] = y
    BY <1>1, <1>3, <1>4, FollowEnds
  <1>6. y \in Hops(k)
    BY <1>3 DEF Hops, next
  <1> HIDE DEF y
  <1>7. next[y] = IF Code(y, k) = 0 THEN Walk(y, k) ELSE y
    BY <1>5, RemoteTidy, PathFacts, HopFacts DEF next
  <1>8. Code(y, k) # 0
    <2> SUFFICES ASSUME Code(y, k) = 0 PROVE FALSE
      OBVIOUS
    <2>1. Walk(y, k) = y
      BY <1>5, <1>7
    <2>2. nodeID[Walk(y, k)] # nodeID[y]
      BY CodeFacts
    <2> QED BY <2>1, <2>2
  <1>9. rangeValid(backend[Walk(y, k)].node, k)
    BY <1>5, PathWalk
  <1>10. Code(y, k) \in {1, 2}
    BY <1>8, <1>9, CodeFacts
  <1> QED BY <1>6, <1>10

\* A page its codes 1 and 2 are about is k's leaf.
LEMMA PathLeaf ==
  ASSUME RemoteSound, NEW k \in Key, NEW a \in Hops(k), Code(a, k) \in {1, 2}
  PROVE  LET x == Walk(a, k) IN
         x \in Live /\ x \in Addr /\ Remote[x].type = "leaf" /\ Within(Remote[x], k) /\ Remote[x] = backend[x].node
  <1>1. a \in Path(k)
    BY PathHops
  <1>2. nodeID[Walk(a, k)] = nodeID[a]
    BY CodeFacts
  <1>3. Walk(a, k) \in Path(k) /\ Remote[Walk(a, k)].type = "leaf"
    BY <1>1, <1>2, PathWalk
  <1> QED BY <1>3, PathFacts DEF Path

\* There is no other.
LEMMA RemoteOneLeaf ==
  ASSUME RemoteSound, NEW k \in Key, NEW a \in Live, NEW b \in Live, Remote[a].type = "leaf", Remote[b].type = "leaf",
         Within(Remote[a], k), Within(Remote[b], k)
  PROVE  a = b
  <1>1. Remote[a].lo \in Int /\ Remote[a].hi \in Int /\ Remote[b].lo \in Int /\ Remote[b].hi \in Int /\ k \in Int
    <2>1. Remote[a] \in NodeT /\ Remote[b] \in NodeT
      BY RemoteFacts
    <2> QED BY <2>1, TreeAssumption, NodeSeqs DEF Key
  <1>2. a # b => Remote[a].hi <= Remote[b].lo \/ Remote[b].hi <= Remote[a].lo
    BY DEF RemoteSound, Apart
  <1> QED BY <1>1, <1>2 DEF Within

\* Its entries are what RemoteDict has for k.
LEMMA RemoteEntries ==
  \A k \in Key, x \in Live : RemoteSound /\ Remote[x].type = "leaf" /\ Within(Remote[x], k) => RemoteLeafFor(k) = Remote[x].data
  <1> SUFFICES ASSUME RemoteSound, NEW k \in Key, NEW x \in Live, Remote[x].type = "leaf", Within(Remote[x], k)
               PROVE  RemoteLeafFor(k) = Remote[x].data
    OBVIOUS
  <1>1. PICK b \in Live : Remote[b].type = "leaf" /\ Within(Remote[b], k) /\ RemoteLeafFor(k) = Remote[b].data
    BY RemoteLeaf
  <1> QED BY <1>1, RemoteOneLeaf

\* The same after a step.
LEMMA RemoteEntriesNext ==
  \A k \in Key, x \in Live' :
    RemoteSound' /\ Remote'[x].type = "leaf" /\ Within(Remote'[x], k) => RemoteLeafFor(k)' = Remote'[x].data
  <1>1. (\A k \in Key, x \in Live :
          RemoteSound /\ Remote[x].type = "leaf" /\ Within(Remote[x], k) => RemoteLeafFor(k) = Remote[x].data)'
    BY RemoteEntries, PTL
  <1> QED BY <1>1 DEF Within

\* The dictionary of the backend, from its leaves.
LEMMA RemoteDictFacts ==
  /\ IsMap(RemoteDict) /\ DOMAIN RemoteDict \subseteq Key
  /\ \A k \in Key : /\ k \in DOMAIN RemoteDict <=> k \in DOMAIN RemoteLeafFor(k)
                    /\ k \in DOMAIN RemoteDict => RemoteDict[k] = RemoteLeafFor(k)[k]
  BY DEF RemoteDict, IsMap

\* The same after a step.
LEMMA RemoteDictFactsNext ==
  /\ IsMap(RemoteDict') /\ DOMAIN RemoteDict' \subseteq Key
  /\ \A k \in Key : /\ k \in DOMAIN RemoteDict' <=> k \in DOMAIN RemoteLeafFor(k)'
                    /\ k \in DOMAIN RemoteDict' => RemoteDict'[k] = RemoteLeafFor(k)'[k]
  BY DEF RemoteDict, IsMap

\* Clients find it.
LEMMA ClosedHops == RemoteSound => HopsReachLeaf
  <1> SUFFICES ASSUME RemoteSound, NEW k \in Key
               PROVE  \E a \in Hops(k) : Code(a, k) \in {1, 2} /\ (Code(a, k) = 1 <=> k \in DOMAIN RemoteDict)
    BY DEF HopsReachLeaf
  <1>1. PICK a \in Hops(k) : Code(a, k) \in {1, 2}
    BY PathEnds
  <1> DEFINE x == Walk(a, k)
  <1>2. x \in Live /\ Remote[x].type = "leaf" /\ Within(Remote[x], k) /\ Remote[x] = backend[x].node
    BY <1>1, PathLeaf
  <1>3. RemoteLeafFor(k) = backend[x].node.data
    BY <1>2, RemoteEntries
  <1> QED BY <1>1, <1>3, CodeFacts, RemoteDictFacts

-----------------------------------------------------------------------------
(* The operations on it *)

\* What an operation leaves alone.
LEMMA AnswerKeeps ==
  ASSUME NEW kind, NEW k, NEW v, NEW res, NEW c, Answer(kind, k, v, res, c)
  PROVE  /\ pc = "closed" /\ pc' = "closed" /\ UNCHANGED <<root_, cur_offset>> /\ code' = c
         /\ srv' = [op |-> [kind |-> kind, key |-> k, val |-> v], res |-> res]
         /\ PcPhase => PcPhase'
  <1>1. /\ pc = "closed" /\ UNCHANGED <<poolVars, root_, cur_offset, pc, walk>> /\ code' = c
        /\ srv' = [op |-> [kind |-> kind, key |-> k, val |-> v], res |-> res]
    BY DEF Answer
  <1>2. UNCHANGED <<phase, pin, cur, pc>>
    BY <1>1 DEF poolVars, control, walk
  <1> QED BY <1>1, <1>2 DEF PcPhase

\* Where nothing is written, the pages and the dictionary stay.
LEMMA ReadKeeps ==
  ASSUME RemoteSound, UNCHANGED <<backend, root_, cur_offset>>
  PROVE  RemoteSound' /\ RemoteDict' = RemoteDict
  <1>1. Remote' = Remote /\ Live' = Live
    BY DEF Remote, Live
  <1>2. RemoteSound'
    BY <1>1 DEF RemoteSound, Apart
  <1>3. \A k : RemoteLeafFor(k)' = RemoteLeafFor(k)
    BY DEF RemoteLeafFor
  <1> QED BY <1>2, <1>3 DEF RemoteDict

\* A leaf of which only the entries have changed.
LEMMA Framed ==
  ASSUME NEW n \in NodeT, NEW o \in NodeT, SameFrame(n, o)
  PROVE  n = [o EXCEPT !.data = n.data]
  <1> DEFINE e == [o EXCEPT !.data = n.data]
  <1>1. /\ e \in NodeT /\ e.data = n.data /\ e.type = o.type /\ e.level = o.level /\ e.keys = o.keys
        /\ e.kids = o.kids /\ e.lo = o.lo /\ e.hi = o.hi /\ e.bitmap = o.bitmap /\ e.parent = o.parent
    BY DEF NodeT
  <1> HIDE DEF e
  <1>2. n = e
    BY <1>1, NodeFields DEF SameFrame, SameText
  <1> QED BY <1>2 DEF e

\* An operation in k's leaf writes that leaf and keeps the pages sound.
LEMMA WriteKeeps ==
  ASSUME RemoteSound, DOMAIN backend = Addr, UNCHANGED <<root_, cur_offset>>, NEW k \in Key, NEW x \in Live, x \in Addr,
         Remote[x].type = "leaf", Within(Remote[x], k), NEW n \in NodeT, SameFrame(n, backend[x].node),
         DOMAIN n.data \subseteq DOMAIN backend[x].node.data \union {k}, NEW d, SetPage(x, n, d)
  PROVE  /\ RemoteSound' /\ DOMAIN backend' = Addr
         /\ Slices(RemoteDict, RemoteDict', backend[x].node.data, n.data, {j \in Key : Within(Remote[x], j)}, Key)
  <1> DEFINE Q == Remote
             P == Remote'
             o == backend[x].node
             W == {j \in Key : Within(Remote[x], j)}
  <1>1. /\ Q \in [Addr -> NodeT] /\ \A a \in Addr : Shape(Q[a]) /\ Untagged(Q[a])
        /\ Linked(Q, Live, root_, {}) /\ Fenced(Q, Live, root_, NullAddr, NullAddr)
        /\ Live' = Live /\ Live \in SUBSET (Addr \ {NullAddr}) /\ Q[x] = o /\ PageOK(o)
    BY RemoteFacts DEF RemoteSound, Live, Remote
  <1>2. /\ DOMAIN backend' = Addr /\ backend'[x].node = n
        /\ \A a \in Addr \ {x} : backend'[a] = backend[a]
    BY DEF SetPage
  <1>3. P \in [Addr -> NodeT] /\ P[x] = n /\ \A a \in Addr \ {x} : P[a] = Q[a]
    <2>1. \A a \in Addr : P[a] = backend'[a].node /\ Q[a] = backend[a].node
      BY DEF Remote
    <2>2. P = [a \in Addr |-> backend'[a].node]
      BY DEF Remote
    <2>3. \A a \in Addr : P[a] \in NodeT
      BY <1>1, <1>2, <2>1
    <2> QED BY <1>2, <2>1, <2>2, <2>3
  <1>4. \A a \in Addr : P[a].type = Q[a].type /\ P[a].level = Q[a].level /\ P[a].kids = Q[a].kids
                        /\ P[a].lo = Q[a].lo /\ P[a].hi = Q[a].hi /\ Shape(P[a]) /\ Untagged(P[a])
    BY <1>1, <1>3 DEF SameFrame, Shape, Untagged, Swizzled
  <1>5. n = [o EXCEPT !.data = n.data]
    BY <1>1, Framed
  <1>6. P = [Q EXCEPT ![x] = [@ EXCEPT !.data = n.data]]
    <2> DEFINE R == [Q EXCEPT ![x] = [@ EXCEPT !.data = n.data]]
    <2>1. \A a \in Addr : R[a] = P[a]
      BY <1>1, <1>3, <1>5
    <2> QED BY <1>1, <1>3, <2>1
  <1>7. o.data \in DataT /\ n.data \in DataT /\ DOMAIN o.data \subseteq Key /\ DOMAIN n.data \subseteq Key
    <2>1. o \in NodeT
      BY <1>1
    <2> QED BY <2>1, DataOps DEF NodeT
  <1>8. DOMAIN o.data \subseteq W /\ k \in W /\ DOMAIN n.data \subseteq W
    BY <1>1, <1>7 DEF PageOK, Within
  <1>9. Fenced(P, Live, root_, NullAddr, NullAddr)
    <2>1. \A j \in DOMAIN n.data : Q[x].lo < j /\ j <= Q[x].hi
      BY <1>8 DEF Within
    <2> HIDE DEF P, Q, o
    <2> QED BY <1>1, <1>3, <1>6, <2>1, WriteFenced
  <1>10. Linked(P, Live, root_, {})
    <2>1. Live \in SUBSET Addr
      BY <1>1
    <2> HIDE DEF P, Q
    <2> QED BY <1>1, <1>3, <1>4, <2>1, SameKidsLinked
  <1>11. RemoteSound'
    <2>1. Apart(Remote)'
      <3>1. Apart(Remote) /\ Live \in SUBSET Addr
        BY <1>1 DEF RemoteSound
      <3> QED BY <1>1, <1>4, <3>1 DEF Apart
    <2>2. root_ \in Addr /\ Q[root_].level + 2 <= cur_offset /\ cur_offset \in 2 .. BackendPages
      BY <1>1 DEF RemoteSound, Linked
    <2>3. P[root_].level + 2 <= cur_offset
      BY <1>4, <2>2
    <2> QED BY <1>1, <1>3, <1>4, <1>9, <1>10, <2>1, <2>2, <2>3 DEF RemoteSound
  <1> HIDE DEF o
  <1>12. ASSUME NEW j \in W
         PROVE  RemoteLeafFor(j) = o.data /\ RemoteLeafFor(j)' = n.data
    <2>1. j \in Key /\ Within(Remote[x], j) /\ x \in Live' /\ Within(Remote'[x], j)
      BY <1>1, <1>4 DEF Within
    <2>2. RemoteLeafFor(j) = Remote[x].data
      BY <2>1, RemoteEntries
    <2>3. RemoteLeafFor(j)' = Remote'[x].data
      BY <1>4, <1>11, <2>1, RemoteEntriesNext
    <2> QED BY <1>1, <1>3, <2>2, <2>3
  <1>13. ASSUME NEW j \in Key \ W
         PROVE  RemoteLeafFor(j)' = RemoteLeafFor(j)
    <2>1. PICK b \in Live : Remote[b].type = "leaf" /\ Within(Remote[b], j) /\ RemoteLeafFor(j) = Remote[b].data
      BY RemoteLeaf
    <2>2. b # x /\ b \in Addr
      BY <1>1, <2>1
    <2>3. Remote'[b] = Remote[b] /\ b \in Live'
      BY <1>1, <1>3, <2>2
    <2>4. RemoteLeafFor(j)' = Remote'[b].data
      BY <1>11, <2>1, <2>3, RemoteEntriesNext
    <2> QED BY <2>1, <2>3, <2>4
  <1>14. W \subseteq Key
    OBVIOUS
  <1> HIDE DEF W, P, Q
  <1>15. AgreeOn(RemoteDict, o.data, W)
    BY <1>12, <1>14, RemoteDictFacts DEF AgreeOn
  <1>16. AgreeOn(RemoteDict', n.data, W)
    BY <1>12, <1>14, RemoteDictFactsNext DEF AgreeOn
  <1>17. AgreeOn(RemoteDict', RemoteDict, Key \ W)
    BY <1>13, RemoteDictFacts, RemoteDictFactsNext DEF AgreeOn
  <1>18. Slices(RemoteDict, RemoteDict', o.data, n.data, W, Key)
    BY <1>8, <1>14, <1>15, <1>16, <1>17, RemoteDictFacts, RemoteDictFactsNext DEF Slices
  <1> QED BY <1>2, <1>11, <1>18 DEF o, W

\* An operation is the dictionary's, or it is refused.
Served ==
  /\ RemoteSound' /\ DOMAIN backend' = Addr
  /\ RemoteKV!Next \/ (code' \in {0, -1} /\ UNCHANGED RemoteDict)

\* A refusal.
LEMMA ServeNone ==
  ASSUME RemoteSound, DOMAIN backend = Addr, UNCHANGED <<backend, root_, cur_offset>>, code' \in {0, -1}
  PROVE  Served
  BY ReadKeeps DEF Served

\* Which codes there are, and what 1 and 2 say.
LEMMA ServeCode ==
  ASSUME RemoteSound, NEW k \in Key, NEW a \in Hops(k)
  PROVE  /\ Code(a, k) \in {0, -1, 1, 2}
         /\ Code(a, k) \in {1, 2} => /\ Code(a, k) = 1 <=> RemoteKV!Has(k)
                                     /\ k \in DOMAIN backend[Walk(a, k)].node.data <=> RemoteKV!Has(k)
                                     /\ RemoteKV!Has(k) => RemoteDict[k] = backend[Walk(a, k)].node.data[k]
  <1>1. Code(a, k) \in {0, -1, 1, 2}
    BY DEF Code
  <1>2. ASSUME Code(a, k) \in {1, 2}
        PROVE  /\ Code(a, k) = 1 <=> RemoteKV!Has(k)
               /\ k \in DOMAIN backend[Walk(a, k)].node.data <=> RemoteKV!Has(k)
               /\ RemoteKV!Has(k) => RemoteDict[k] = backend[Walk(a, k)].node.data[k]
    <2> DEFINE x == Walk(a, k)
    <2>1. x \in Live /\ Remote[x].type = "leaf" /\ Within(Remote[x], k) /\ Remote[x] = backend[x].node
      BY <1>2, PathLeaf
    <2>2. RemoteLeafFor(k) = backend[x].node.data
      BY <2>1, RemoteEntries
    <2>3. Code(a, k) = 1 <=> k \in DOMAIN backend[x].node.data
      BY <1>2, CodeFacts
    <2> QED BY <2>2, <2>3, RemoteDictFacts DEF RemoteKV!Has
  <1> QED BY <1>1, <1>2

\* What writing k's leaf does to the dictionary.
Writes(a, k, n, d, v) ==
  LET o == backend[Walk(a, k)].node IN
  /\ Code(a, k) \in {1, 2} /\ SetPage(Walk(a, k), n, d)
  /\ n = o \/ (v \in Val /\ n = Put(o, k, v)) \/ n = [o EXCEPT !.data = Restrict(@, DOMAIN @ \ {k})]

\* Such a write keeps the tree and changes the dictionary as it changes the leaf.
LEMMA ServeWrite ==
  ASSUME RemoteSound, DOMAIN backend = Addr, UNCHANGED <<root_, cur_offset>>, NEW k \in Key, NEW a \in Hops(k),
         NEW n, NEW d, NEW v, Writes(a, k, n, d, v)
  PROVE  LET o == backend[Walk(a, k)].node IN
         /\ RemoteSound' /\ DOMAIN backend' = Addr
         /\ n = o => RemoteDict' = RemoteDict
         /\ n = Put(o, k, v) => RemoteDict' = PutEntry(RemoteDict, k, v)
         /\ n = [o EXCEPT !.data = Restrict(@, DOMAIN @ \ {k})] =>
              RemoteDict' = Restrict(RemoteDict, DOMAIN RemoteDict \ {k})
  <1> DEFINE x == Walk(a, k)
             o == backend[x].node
             W == {j \in Key : Within(Remote[x], j)}
  <1>1. x \in Live /\ x \in Addr /\ Remote[x].type = "leaf" /\ Within(Remote[x], k) /\ Remote[x] = o
    BY PathLeaf DEF Writes
  <1>2. o \in NodeT
    BY <1>1 DEF RemoteSound
  <1> HIDE DEF x
  <1>3. Put(o, k, v).data = PutEntry(o.data, k, v)
    BY <1>2 DEF Put, PutEntry, NodeT
  <1>4. [o EXCEPT !.data = Restrict(@, DOMAIN @ \ {k})].data = Restrict(o.data, DOMAIN o.data \ {k})
    BY <1>2 DEF NodeT
  <1>5. n \in NodeT /\ SameFrame(n, o)
    <2>1. n = o \/ (v \in Val /\ n = Put(o, k, v)) \/ n = [o EXCEPT !.data = Restrict(@, DOMAIN @ \ {k})]
      BY DEF x, Writes
    <2>2. SameFrame(o, o)
      BY DEF SameFrame
    <2> HIDE DEF o
    <2> QED BY <1>2, <2>1, <2>2, LeafWrites
  <1>6. DOMAIN n.data \subseteq DOMAIN o.data \union {k}
    BY <1>3, <1>4 DEF PutEntry, Restrict, x, Writes
  <1>7. /\ RemoteSound' /\ DOMAIN backend' = Addr
        /\ Slices(RemoteDict, RemoteDict', o.data, n.data, W, Key)
    BY <1>1, <1>5, <1>6, WriteKeeps DEF x, Writes
  <1>8. k \in W
    BY <1>1
  <1> HIDE DEF W, o
  <1>9. /\ n.data = o.data => RemoteDict' = RemoteDict
        /\ n.data = PutEntry(o.data, k, v) => RemoteDict' = PutEntry(RemoteDict, k, v)
        /\ n.data = Restrict(o.data, DOMAIN o.data \ {k}) =>
             RemoteDict' = Restrict(RemoteDict, DOMAIN RemoteDict \ {k})
    BY <1>7, <1>8, DictWrites
  <1> QED BY <1>3, <1>4, <1>7, <1>9 DEF x, o

\* lookup reads the leaf of the key or is refused.
LEMMA ServeLookup ==
  ASSUME RemoteSound, DOMAIN backend = Addr, NEW k \in Key, NEW a \in Hops(k), lookup(a, k)
  PROVE  Served
  <1> DEFINE c == Code(a, k)
             res == IF c = 1 THEN backend[Walk(a, k)].node.data[k] ELSE NoVal
  <1>1. /\ backend' = backend /\ UNCHANGED <<root_, cur_offset>> /\ code' = c
        /\ srv' = [op |-> [kind |-> "lookup", key |-> k, val |-> NoVal], res |-> res]
    BY AnswerKeeps DEF lookup
  <1>2. RemoteSound' /\ RemoteDict' = RemoteDict /\ DOMAIN backend' = Addr
    BY <1>1, ReadKeeps
  <1>3. CASE c \in {1, 2}
    <2>1. res = IF RemoteKV!Has(k) THEN RemoteDict[k] ELSE NoVal
      BY <1>3, ServeCode
    <2> HIDE DEF res
    <2>2. RemoteKV!Lookup(k)
      BY <1>1, <1>2, <2>1 DEF RemoteKV!Lookup, RemoteKV!Return
    <2> QED BY <1>2, <2>2 DEF Served, RemoteKV!Next
  <1>4. CASE c \notin {1, 2}
    BY <1>1, <1>2, <1>4, ServeCode DEF Served
  <1> QED BY <1>3, <1>4

\* insert adds or overwrites the pair, unless refused: a full leaf is, too.
LEMMA ServeInsert ==
  ASSUME RemoteSound, DOMAIN backend = Addr, NEW k \in Key, NEW a \in Hops(k), NEW v \in Val, insert(a, k, v)
  PROVE  Served
  <1> DEFINE c == Code(a, k)
             o == backend[Walk(a, k)].node
  <1>1. CASE c \in {1, 2} /\ Insertable(o)
    <2>1. /\ Answer("insert", k, v, c = 2, IF c = 2 THEN 1 ELSE 2) /\ SetPage(Walk(a, k), Put(o, k, v), TRUE)
      BY <1>1 DEF insert
    <2>2. /\ UNCHANGED <<root_, cur_offset>>
          /\ srv' = [op |-> [kind |-> "insert", key |-> k, val |-> v], res |-> c = 2]
      BY <2>1, AnswerKeeps
    <2>3. RemoteSound' /\ DOMAIN backend' = Addr /\ RemoteDict' = PutEntry(RemoteDict, k, v)
      <3>1. Writes(a, k, Put(o, k, v), TRUE, v)
        BY <1>1, <2>1 DEF Writes
      <3> HIDE DEF c
      <3> QED BY <2>2, <3>1, ServeWrite
    <2>4. (c = 2) = ~RemoteKV!Has(k)
      BY <1>1, ServeCode
    <2> HIDE DEF c
    <2>5. RemoteKV!Return("insert", k, v, ~RemoteKV!Has(k))
      BY <2>2, <2>4 DEF RemoteKV!Return
    <2>6. RemoteKV!Insert(k, v)
      BY <2>3, <2>5 DEF RemoteKV!Insert, PutEntry
    <2> QED BY <2>3, <2>6 DEF Served, RemoteKV!Next
  <1>2. CASE ~(c \in {1, 2} /\ Insertable(o))
    <2>1. Answer("insert", k, v, FALSE, IF c = 0 THEN 0 ELSE -1) /\ backend' = backend
      BY <1>2 DEF insert
    <2>2. UNCHANGED <<root_, cur_offset>> /\ code' \in {0, -1}
      BY <2>1, AnswerKeeps
    <2> QED BY <2>1, <2>2, ServeNone
  <1> QED BY <1>1, <1>2

\* update overwrites the pair if there is one.
LEMMA ServeUpdate ==
  ASSUME RemoteSound, DOMAIN backend = Addr, NEW k \in Key, NEW a \in Hops(k), NEW v \in Val, update(a, k, v)
  PROVE  Served
  <1> DEFINE c == Code(a, k)
             x == Walk(a, k)
             o == backend[x].node
  <1>1. Answer("update", k, v, c = 1, c)
    BY DEF update
  <1>2. /\ UNCHANGED <<root_, cur_offset>> /\ code' = c
        /\ srv' = [op |-> [kind |-> "update", key |-> k, val |-> v], res |-> c = 1]
    BY <1>1, AnswerKeeps
  <1>3. CASE c \in {1, 2}
    <2>1. SetPage(x, Overwrite(o, k, v), backend[x].dirty)
      BY <1>3 DEF update
    <2>2. (c = 1 <=> RemoteKV!Has(k)) /\ (k \in DOMAIN o.data <=> RemoteKV!Has(k))
      BY <1>3, ServeCode
    <2>3. RemoteKV!Return("update", k, v, RemoteKV!Has(k))
      <3>1. (c = 1) = RemoteKV!Has(k)
        BY <2>2 DEF RemoteKV!Has
      <3> HIDE DEF c
      <3> QED BY <1>2, <3>1 DEF RemoteKV!Return
    <2>4. CASE RemoteKV!Has(k)
      <3>1. SetPage(x, Put(o, k, v), backend[x].dirty)
        BY <2>1, <2>2, <2>4 DEF Overwrite
      <3>2. RemoteSound' /\ DOMAIN backend' = Addr /\ RemoteDict' = PutEntry(RemoteDict, k, v)
        BY <1>2, <1>3, <3>1, ServeWrite DEF Writes
      <3>3. DOMAIN RemoteDict \union {k} = DOMAIN RemoteDict
        BY <2>4 DEF RemoteKV!Has
      <3>4. RemoteDict' = [y \in DOMAIN RemoteDict |-> IF y = k THEN v ELSE RemoteDict[y]]
        BY <3>2, <3>3 DEF PutEntry
      <3>5. RemoteDict' = [RemoteDict EXCEPT ![k] = v]
        BY <3>4
      <3>6. RemoteKV!Update(k, v)
        BY <2>3, <2>4, <3>5 DEF RemoteKV!Update
      <3> QED BY <3>2, <3>6 DEF Served, RemoteKV!Next
    <2>5. CASE ~RemoteKV!Has(k)
      <3>1. SetPage(x, o, backend[x].dirty)
        BY <2>1, <2>2, <2>5 DEF Overwrite
      <3>2. RemoteSound' /\ DOMAIN backend' = Addr /\ RemoteDict' = RemoteDict
        BY <1>2, <1>3, <3>1, ServeWrite DEF Writes
      <3>3. RemoteKV!Update(k, v)
        BY <2>3, <2>5, <3>2 DEF RemoteKV!Update
      <3> QED BY <3>2, <3>3 DEF Served, RemoteKV!Next
    <2> QED BY <2>4, <2>5
  <1>4. CASE c \notin {1, 2}
    <2>1. backend' = backend
      BY <1>4 DEF update
    <2>2. code' \in {0, -1}
      BY <1>2, <1>4, ServeCode
    <2> QED BY <1>2, <2>1, <2>2, ServeNone
  <1> QED BY <1>3, <1>4

\* remove takes the pair out if there is one.
LEMMA ServeRemove ==
  ASSUME RemoteSound, DOMAIN backend = Addr, NEW k \in Key, NEW a \in Hops(k), remove(a, k)
  PROVE  Served
  <1> DEFINE c == Code(a, k)
             x == Walk(a, k)
             o == backend[x].node
  <1>1. Answer("remove", k, NoVal, c = 1, c)
    BY DEF remove
  <1>2. /\ UNCHANGED <<root_, cur_offset>> /\ code' = c
        /\ srv' = [op |-> [kind |-> "remove", key |-> k, val |-> NoVal], res |-> c = 1]
    BY <1>1, AnswerKeeps
  <1>3. CASE c = 1
    <2>1. SetPage(x, [o EXCEPT !.data = Restrict(@, DOMAIN @ \ {k})], TRUE)
      BY <1>3 DEF remove
    <2>2. /\ RemoteSound' /\ DOMAIN backend' = Addr
          /\ RemoteDict' = Restrict(RemoteDict, DOMAIN RemoteDict \ {k})
      BY <1>2, <1>3, <2>1, ServeWrite DEF Writes
    <2>3. (c = 1) = RemoteKV!Has(k)
      BY <1>3, ServeCode
    <2>4. RemoteKV!Remove(k)
      BY <1>2, <2>2, <2>3 DEF RemoteKV!Remove, RemoteKV!Return, Restrict
    <2> QED BY <2>2, <2>4 DEF Served, RemoteKV!Next
  <1>4. CASE c = 2
    <2>1. backend' = backend
      BY <1>4 DEF remove
    <2>2. RemoteSound' /\ RemoteDict' = RemoteDict /\ DOMAIN backend' = Addr
      BY <1>2, <2>1, ReadKeeps
    <2>3. (c = 1) = RemoteKV!Has(k) /\ ~RemoteKV!Has(k)
      <3>1. c # 1 /\ ~RemoteKV!Has(k)
        BY <1>4, ServeCode
      <3> HIDE DEF c
      <3> QED BY <3>1 DEF RemoteKV!Has
    <2>4. DOMAIN RemoteDict \ {k} = DOMAIN RemoteDict
      BY <2>3 DEF RemoteKV!Has
    <2>5. RemoteDict' = [y \in DOMAIN RemoteDict \ {k} |-> RemoteDict[y]]
      BY <2>2, <2>4, RemoteDictFacts DEF IsMap
    <2>6. RemoteKV!Remove(k)
      BY <1>2, <2>3, <2>5 DEF RemoteKV!Remove, RemoteKV!Return
    <2> QED BY <2>2, <2>6 DEF Served, RemoteKV!Next
  <1>5. CASE c \notin {1, 2}
    <2>1. backend' = backend
      BY <1>5 DEF remove
    <2>2. code' \in {0, -1}
      BY <1>2, <1>5, ServeCode
    <2> QED BY <1>2, <2>1, <2>2, ServeNone
  <1> QED BY <1>3, <1>4, <1>5

-----------------------------------------------------------------------------
(* The theorems *)

\* Before and after the destructor.
ServerInv ==
  IF pc = "closed" THEN PcPhase /\ RemoteSound /\ DOMAIN backend = Addr ELSE OpenInv

\* It holds of a new tree.
LEMMA ServerInvInit == ServerInit => ServerInv
  <1> SUFFICES ASSUME ServerInit PROVE ServerInv
    OBVIOUS
  <1>1. Init /\ pc # "closed"
    BY DEF ServerInit, Init
  <1> QED BY <1>1, OpenInit DEF ServerInv

\* The destructor's flush leaves a tree in the backend.
LEMMA ClosingRemote == FenceInv /\ Flushed /\ pc = "closed" => PcPhase /\ RemoteSound /\ DOMAIN backend = Addr
  <1> SUFFICES ASSUME FenceInv, Flushed, pc = "closed" PROVE PcPhase /\ RemoteSound /\ DOMAIN backend = Addr
    OBVIOUS
  <1>1. RemoteSound /\ Running
    BY FlushedRemote
  <1>2. PcPhase /\ TreeTypes
    BY <1>1, RunningFacts
  <1> QED BY <1>1, <1>2 DEF TreeTypes

\* The tree's steps keep it, the end of the destructor's flush included.
LEMMA ServerInvTree == ServerInv /\ [Next]_vars /\ NoDanglingRef' /\ Fits' => ServerInv'
  <1> SUFFICES ASSUME ServerInv, [Next]_vars, NoDanglingRef', Fits' PROVE ServerInv'
    OBVIOUS
  <1>1. CASE pc = "closed"
    <2>1. PcPhase /\ RemoteSound /\ DOMAIN backend = Addr
      BY <1>1 DEF ServerInv
    <2>2. UNCHANGED vars
      BY <1>1, <2>1, ClosedStays
    <2>3. pc' = "closed" /\ UNCHANGED <<backend, root_, cur_offset, phase, pin, cur>>
      BY <1>1, <2>2 DEF vars, treeVars, storage, walk, poolVars, control
    <2>4. RemoteSound'
      BY <2>1, <2>3, ReadKeeps
    <2>5. PcPhase'
      BY <1>1, <2>1, <2>3 DEF PcPhase
    <2> QED BY <2>1, <2>3, <2>4, <2>5 DEF ServerInv
  <1>2. CASE pc # "closed"
    <2>1. OpenInv /\ OpenInv'
      BY <1>2, OpenNext DEF ServerInv
    <2>2. CASE pc' = "closed"
      <3>1. FenceInv /\ FenceInv' /\ Flushed
        BY <1>2, <2>1, OpenFences, FenceNext DEF Flushed
      <3>2. Flushed'
        BY <3>1, FlushedNext
      <3>3. (PcPhase /\ RemoteSound /\ DOMAIN backend = Addr)'
        <4>1. (FenceInv /\ Flushed /\ pc = "closed" => PcPhase /\ RemoteSound /\ DOMAIN backend = Addr)'
          BY ClosingRemote, PTL
        <4> QED BY <2>2, <3>1, <3>2, <4>1
      <3> QED BY <2>2, <3>3 DEF ServerInv
    <2>3. CASE pc' # "closed"
      BY <2>1, <2>3 DEF ServerInv
    <2> QED BY <2>2, <2>3
  <1> QED BY <1>1, <1>2

\* The server's operations keep it and are the dictionary's.
LEMMA ServerSteps == ServerInv /\ ServerStep => ServerInv' /\ Served
  <1> SUFFICES ASSUME ServerInv, NEW k \in Key, NEW a \in Hops(k),
                      lookup(a, k) \/ remove(a, k) \/ \E v \in Val : insert(a, k, v) \/ update(a, k, v)
               PROVE  ServerInv' /\ Served
    BY DEF ServerStep
  <1>1. pc = "closed" /\ pc' = "closed" /\ (PcPhase => PcPhase')
    <2>1. \E kind, v, res, c : Answer(kind, k, v, res, c)
      BY DEF lookup, remove, insert, update
    <2> QED BY <2>1, AnswerKeeps
  <1>2. PcPhase /\ RemoteSound /\ DOMAIN backend = Addr
    BY <1>1 DEF ServerInv
  <1>3. Served
    BY <1>2, ServeLookup, ServeInsert, ServeUpdate, ServeRemove
  <1> QED BY <1>1, <1>2, <1>3 DEF ServerInv, Served

\* Every step keeps it.
LEMMA ServerInvNext == ServerInv /\ [ServerNext]_<<vars, serverVars>> /\ NoDanglingRef' /\ Fits' => ServerInv'
  <1>1. [ServerNext]_<<vars, serverVars>> => [Next]_vars \/ ServerStep
    BY DEF ServerNext
  <1> QED BY <1>1, ServerInvTree, ServerSteps

\* While the tree is open, a lookup a server runs on the backend gives the tree's answer
\* or refuses, unless the pool holds a newer version of that leaf: however old the
\* inner pages on its way are, a wrong leaf does not have the key within its limits.
THEOREM ServerLookupsSafe == ServerSpec /\ []NoDanglingRef /\ []Fits => []LookupFailsSafe
  <1>1. ServerInv => LookupFailsSafe
    BY OpenLookups DEF ServerInv, LookupFailsSafe
  <1> QED BY <1>1, ServerInvInit, ServerInvNext, PTL DEF ServerSpec

\* After the destructor a client that goes on wherever lookups send it comes to the leaf of
\* its key, however the pages are spread over the nodes, and whatever servers write.
THEOREM ServerHopsEnd == ServerSpec /\ []NoDanglingRef /\ []Fits => []HopsReachLeaf
  <1>1. ServerInv => HopsReachLeaf
    BY ClosedHops DEF ServerInv, HopsReachLeaf
  <1> QED BY <1>1, ServerInvInit, ServerInvNext, PTL DEF ServerSpec

\* And the operations that are not refused are the dictionary's, on what the backend holds.
THEOREM ServerIsKV == ServerSpec /\ []NoDanglingRef /\ []Fits => ServerImplementsKV
  <1>1. ServerInv /\ [ServerNext]_<<vars, serverVars>>
          => [Sane /\ pc = "closed" =>
                RemoteKV!Next \/ (code' \in {0, -1} /\ UNCHANGED RemoteDict)]_<<RemoteDict, serverVars>>
    <2> SUFFICES ASSUME ServerInv, [ServerNext]_<<vars, serverVars>>, pc = "closed"
                 PROVE  \/ RemoteKV!Next \/ (code' \in {0, -1} /\ UNCHANGED RemoteDict)
                        \/ UNCHANGED <<RemoteDict, serverVars>>
      OBVIOUS
    <2>1. CASE ServerStep
      BY <2>1, ServerSteps DEF Served
    <2>2. CASE [Next]_vars /\ UNCHANGED serverVars
      <3>1. PcPhase /\ RemoteSound
        BY DEF ServerInv
      <3>2. UNCHANGED vars
        BY <2>2, <3>1, ClosedStays
      <3>3. UNCHANGED <<backend, root_, cur_offset>>
        BY <3>2 DEF vars, treeVars, storage
      <3>4. RemoteDict' = RemoteDict
        BY <3>1, <3>3, ReadKeeps
      <3> QED BY <2>2, <3>4
    <2> QED BY <2>1, <2>2 DEF ServerNext
  <1> QED BY <1>1, ServerInvInit, ServerInvNext, PTL DEF ServerSpec, ServerImplementsKV
=============================================================================
