--------------------------- MODULE MCRegistration ---------------------------
(* TLC instances of Registration. *)
EXTENDS Registration, TLC

Symmetry ==
  Permutations(Mailbox) \cup Permutations(Request) \cup Permutations(Code)
=============================================================================
