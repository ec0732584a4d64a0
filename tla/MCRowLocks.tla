---------------------------- MODULE MCRowLocks ----------------------------
(* TLC instances of RowLocks. *)
EXTENDS RowLocks, TLC

Symmetry == Permutations(User) \cup Permutations(Handler) \cup Permutations(Txn \ Handler)
=============================================================================
