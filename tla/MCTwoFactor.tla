---------------------------- MODULE MCTwoFactor ----------------------------
(* TLC instances of TwoFactor. *)
EXTENDS TwoFactor, TLC

Symmetry == Permutations(Key) \cup Permutations(Request)
              \cup Permutations(Spelling)
=============================================================================
