------------------------------ MODULE MCVault ------------------------------
(* TLC instances of Vault. *)
EXTENDS Vault, TLC

CONSTANTS v1, v2, k1, k2, p1, p2

\* The old settings; a new key and pepper; a pepper forgotten.
MCConf == {[key |-> k1, pepper |-> p1], [key |-> k2, pepper |-> p2],
           [key |-> k1, pepper |-> Null]}

\* A national id, and a blank one with a phone number, which a process without
\* a pepper refuses after the first field has its audit row.
MCSubmissions ==
  {[dni |-> v1, phone_number |-> Absent, date_of_birth |-> Absent],
   [dni |-> Null, phone_number |-> v2, date_of_birth |-> Absent]}

Symmetry == Permutations(User) \cup Permutations(Request)
=============================================================================
