---------------------------- MODULE MCCacheProcess ----------------------------
(* Instances of CacheProcess for TLC. *)
EXTENDS CacheProcess, TLC

CONSTANTS t1, t2, t3

\* Pools of three sizes, opened in any order.
Unequal == (t1 :> 3) @@ (t2 :> 2) @@ (t3 :> 1)

=============================================================================
