-------------------------------- MODULE MCTree --------------------------------
(* Instances of LeanStoreTree for TLC: any client. *)
EXTENDS TreeProperties, TLC

MCBucketOf == [a \in Addr |-> a % bucket_num_]
Symmetry == Permutations(Slot) \union Permutations(Val)

\* Any sequence of calls on all keys but the largest.  From the call that inserts the largest
\* on, calls are inserts of the value that all pairs have.
MaxKeyLast ==
  op # NoCall /\ (op.key = MaxKey \/ MaxKey \in DOMAIN TreeDict) =>
    op.kind = "insert" /\ \A k \in DOMAIN TreeDict : TreeDict[k] = op.val

=============================================================================
