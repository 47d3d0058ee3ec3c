----------------------------- MODULE MCPageTable -----------------------------
(* Instance of PageTable for TLC. *)
EXTENDS PageTable

CONSTANT IO_FLAG

MCHashOf == [a \in Addr |-> a]

\* No step depends on ret: states that differ in it only are the same.
ChainsOnly == table_

\* One page is loaded at a time; 0, which a zeroed frame carries, or another.
OneLoad == {key \in Addr : MapOf[key] = IO_FLAG} \in {{}, {0}, {1}}

=============================================================================
