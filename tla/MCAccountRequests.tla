------------------------- MODULE MCAccountRequests -------------------------
(* TLC instances of AccountRequests. *)
EXTENDS AccountRequests, TLC

Symmetry == Permutations(User) \cup Permutations(Request)
              \cup Permutations(Name) \cup Permutations(Dni)
=============================================================================
