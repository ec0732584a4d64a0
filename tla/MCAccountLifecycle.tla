------------------------ MODULE MCAccountLifecycle ------------------------
(* TLC instances of AccountLifecycle: symmetry of users, sessions, stamps. *)
EXTENDS AccountLifecycle, TLC

Symmetry == Permutations(User) \cup Permutations(Txn) \cup Permutations(Stamp)
=============================================================================
