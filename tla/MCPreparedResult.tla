-------------------------- MODULE MCPreparedResult --------------------------
(* Small instances of PreparedResult for TLC. *)
EXTENDS PreparedResult, TLC

CONSTANTS a, b

(* One value has two rows, the other none; an unparameterised query has 3.  *)
MCParams == {a, b}
MCAnswer == (a :> 2) @@ (b :> 0) @@ (NULL :> 3)
MCFetchSizes == {-1, 1, 3}

=============================================================================
