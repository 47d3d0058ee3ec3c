----------------------------- MODULE MCBTreeNode -----------------------------
(* Instance of BTreeNode for TLC. *)
EXTENDS BTreeNode, TLC

Symmetry == Permutations(Child)

=============================================================================
