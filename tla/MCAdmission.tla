----------------------------- MODULE MCAdmission -----------------------------
(* Instances of Admission for TLC. *)
EXTENDS Admission, TLC

MCBucketOf == [a \in Addr |-> a % bucket_num_]
Symmetry == Permutations(Slot) \union Permutations(Val)

=============================================================================
