--------------------------- MODULE AccountContract ---------------------------
(***************************************************************************)
(* What the manager promises of an account (the docstrings of managers.py  *)
(* and "POST me/anonymize/" of docs/contracts/USERS_CONTRACT.md), without  *)
(* tables, transactions or querysets: an account is absent, alive, deleted *)
(* or closed (dead, and cleared of what anonymize() clears), as a whole;   *)
(* one operation moves a set of accounts at once, or none of them; nothing *)
(* leads out of a closed account, and only a live account can be removed   *)
(* for good.  AccountLifecycle implements it while its callers take turns. *)
(***************************************************************************)
CONSTANT User

VARIABLE state

State == {"absent", "alive", "deleted", "closed"}

TypeOK == state \in [User -> State]

Init == state \in [User -> {"absent", "alive"}]

\* The accounts of S, all of them in one of the states "from", go to "to".
Move(S, from, to) ==
  /\ S # {} /\ \A u \in S : state[u] \in from
  /\ state' = [u \in User |-> IF u \in S THEN to ELSE state[u]]

Create(u)  == Move({u}, {"absent"}, "alive")
Delete(S)  == Move(S, {"alive"}, "deleted")
Restore(S) == Move(S, {"deleted"}, "alive")
Close(S)   == Move(S, {"alive", "deleted"}, "closed")
Purge(S)   == Move(S, {"alive"}, "absent")

Next == \/ \E u \in User : Create(u)
        \/ \E S \in SUBSET User :
              Delete(S) \/ Restore(S) \/ Close(S) \/ Purge(S)

Spec == Init /\ [][Next]_state
=============================================================================
