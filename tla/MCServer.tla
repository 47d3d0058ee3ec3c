------------------------------- MODULE MCServer -------------------------------
(* Instances of ServerBtree for TLC. *)
EXTENDS ServerBtree, TLC

MCBucketOf == [a \in Addr |-> a % bucket_num_]
SlotSymmetry == Permutations(Slot)

\* Every third page is on a second node.
MCNodeID == [a \in Addr |-> IF a % 3 = 0 THEN 1 ELSE 0]

=============================================================================
