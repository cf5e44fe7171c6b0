----------------------------- MODULE MCPolitics -----------------------------
(* Small instances of Politics. *)
EXTENDS Politics, TLC
Symmetry == Permutations(Txn)
OneWorld == [c \in Country |-> 1]
=============================================================================
