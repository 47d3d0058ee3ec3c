------------------------------ MODULE MCNewbench ------------------------------
(* Instances of Newbench for TLC. *)
EXTENDS Newbench

MCBucketOf == [a \in Addr |-> a % bucket_num_]

=============================================================================
