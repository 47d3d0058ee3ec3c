----------------------------- MODULE NodeArrays -----------------------------
(***************************************************************************)
(* What the leaves and the inner nodes of cache/BtreeNode.h have in        *)
(* common: C arrays, numbered from 0, of which only the first count        *)
(* entries are meant, and the binary search over them.                     *)
(***************************************************************************)
EXTENDS Integers, FiniteSets

\* memmove and memcpy of n entries; a write past the end makes the array longer.
Moved(to, dst, from, src, n) ==
  [i \in DOMAIN to \union dst .. dst + n - 1 |->
     IF i \in dst .. dst + n - 1 THEN from[src + i - dst] ELSE to[i]]

\* lowerBound(k) on the first count entries of the array keys: the loop, from the
\* state in which it holds lower and upper.
Search(keys, k, count) ==
  LET loop[r \in (0 .. count) \X (0 .. count)] ==
        LET lower == r[1]
            upper == r[2]
            mid == (upper - lower) \div 2 + lower
        IN
        IF lower >= upper THEN lower
        ELSE IF k = keys[mid] THEN mid
        ELSE IF k > keys[mid] THEN loop[<<mid + 1, upper>>]
        ELSE loop[<<lower, mid>>]
  IN loop[<<0, count>>]

\* rangeValid: a node covers (min, max], and the lowest key of all if it is its min.
InLimits(k, min, max) == (k = 0 /\ k = min) \/ (k > min /\ k <= max)

=============================================================================
