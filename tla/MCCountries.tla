----------------------------- MODULE MCCountries ----------------------------
(* Small instances of Countries. *)
EXTENDS Countries, TLC

Symmetry == Permutations(Player) \cup Permutations(Code) \cup Permutations(Txn)
=============================================================================
