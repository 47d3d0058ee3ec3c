----------------------------- MODULE MCBufferPool -----------------------------
(* Instance of BufferPool for TLC. *)
EXTENDS BufferPool

MCBucketOf == [a \in Addr |-> a % bucket_num_]

=============================================================================
