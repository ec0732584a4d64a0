------------------------------ MODULE RowLocks ------------------------------
(***************************************************************************)
(* Who waits for whom when account operations overlap on a database with   *)
(* row locks.  A transaction locks every row it writes and keeps the locks *)
(* until it ends; delete() and restore() write the profiles, the vaults    *)
(* and the users of all their targets, in this order; anonymize() first    *)
(* writes profile, vault and user of one target after the other and then   *)
(* runs delete() over all of them; hard_delete() deletes satellites before *)
(* users; the change form of the administration writes a user and then,    *)
(* inline, its profile; any other save() writes one row and commits.       *)
(*                                                                         *)
(* Left out: values.  Which targets a statement finds depends on what has  *)
(* been committed by then (AccountLifecycle), so here it finds any of them *)
(* and locks them in any order.  Left out too: waits for the entries of    *)
(* unique indexes, which take two transactions that write the same value,  *)
(* and for rows that are only referenced (the form's log entry).           *)
(* External: the locks and the rollback of a transaction by the database.  *)
(***************************************************************************)
EXTENDS Integers

CONSTANTS User, Txn,
          Handler, \* transactions of API requests, on the caller's account
          Null

\* The tables in the order of the statements; 4 is past the last.
Profile == 1
Secret  == 2
UserRow == 3
Table == {Profile, Secret, UserRow}

Row == [table: Table, user: User]
\* restore() and hard_delete() lock as delete() does; a form that changes the
\* user alone is a save.
Operation == {"delete", "anonymize", "save", "form"}
Running == [op: Operation, on: SUBSET User, stage: 1..4,
            todo: SUBSET User,      \* instances anonymize() has yet to write
            turn: User \cup {Null}] \* the one it is writing

ASSUME HandlerAssumption == Handler \subseteq Txn

ASSUME NullAssumption == Null \notin User \cup Row \cup Running

VARIABLES txn,  \* transactions that run
          held, \* rows each has locked
          want  \* the row each waits for

vars == <<txn, held, want>>

TypeOK ==
  /\ txn \in [Txn -> Running \cup {Null}]
  /\ held \in [Txn -> SUBSET Row]
  /\ want \in [Txn -> Row \cup {Null}]
  \* No transaction is at its end in the middle of an instance.
  /\ \A t \in Txn : txn[t] # Null /\ txn[t].stage = 4 => txn[t].turn = Null

Init ==
  /\ txn = [t \in Txn |-> Null]
  /\ held = [t \in Txn |-> {}]
  /\ want = [t \in Txn |-> Null]

-----------------------------------------------------------------------------
\* anonymize() loads its targets once; those already anonymised are skipped
\* (if all are, what it locks is what delete() locks).
Begin(t, op, on, stage, todo) ==
  /\ txn[t] = Null /\ on # {}
  /\ todo \subseteq on /\ (todo # {} <=> op = "anonymize")
  /\ t \in Handler => op \in {"anonymize", "save"}
  /\ t \in Handler \/ op \in {"save", "form"} => \E u \in User : on = {u}
  /\ op \in {"delete", "anonymize"} => stage = Profile
  /\ op = "form" => stage = UserRow
  /\ txn' = [txn EXCEPT ![t] = [op |-> op, on |-> on, stage |-> stage,
                                todo |-> todo, turn |-> Null]]
  /\ UNCHANGED <<held, want>>

\* The loop of anonymize() takes its next instance ...
NextInstance(t, u) ==
  /\ txn[t] # Null /\ txn[t].turn = Null /\ u \in txn[t].todo
  /\ txn' = [txn EXCEPT ![t].turn = u, ![t].todo = @ \ {u}]
  /\ UNCHANGED <<held, want>>

\* ... and writes profile, vault and user of it, each with its save().
LoopTable_UserFirst(stage) == 4 - stage
LoopTable(stage) == stage

\* The rows the current statement of t may lock.
Statement(t) ==
  LET x == txn[t] IN
  IF x.turn # Null
  THEN {[table |-> LoopTable(x.stage), user |-> x.turn]}
  ELSE {[table |-> x.stage, user |-> u] : u \in x.on}

Unlocked(row) == \A s \in Txn : row \notin held[s]

\* A save() is over with its row, a form with the profile, which it writes
\* after the user.  An UPDATE goes on.
Later(x) ==
  CASE x.op = "save" \/ (x.op = "form" /\ x.stage = Profile) -> 4
    [] x.op = "form" /\ x.stage # Profile -> Profile
    [] OTHER -> x.stage

\* In the loop of anonymize(), after the user comes the next instance, or
\* self.delete().
Locked_NeverLast(x) ==
  [x EXCEPT !.stage = IF x.turn = Null THEN Later(x) ELSE @ + 1]
Locked(x) ==
  CASE x.turn = Null -> [x EXCEPT !.stage = Later(x)]
    [] x.turn # Null /\ x.stage = UserRow ->
         [x EXCEPT !.turn = Null, !.stage = Profile]
    [] OTHER -> [x EXCEPT !.stage = @ + 1]

Take(t, row) ==
  /\ held' = [held EXCEPT ![t] = @ \cup {row}]
  /\ txn' = [txn EXCEPT ![t] = Locked(@)]
  /\ want' = [want EXCEPT ![t] = Null]

\* A row is locked at once, or the transaction waits for it ...
Lock(t, row) ==
  /\ txn[t] # Null /\ want[t] = Null /\ txn[t].stage # 4
  /\ txn[t].turn # Null \/ txn[t].todo = {}
  /\ row \in Statement(t) \ held[t]
  /\ IF Unlocked(row) THEN Take(t, row)
     ELSE want' = [want EXCEPT ![t] = row] /\ UNCHANGED <<txn, held>>

\* ... until nobody holds it.
Acquire(t) == want[t] # Null /\ Unlocked(want[t]) /\ Take(t, want[t])

\* An UPDATE has found all its targets.
EndStatement(t) ==
  /\ txn[t] # Null /\ want[t] = Null /\ txn[t].stage # 4
  /\ txn[t].op \in {"delete", "anonymize"}
  /\ txn[t].turn = Null /\ txn[t].todo = {}
  /\ txn' = [txn EXCEPT ![t].stage = @ + 1]
  /\ UNCHANGED <<held, want>>

Free(t) ==
  /\ txn' = [txn EXCEPT ![t] = Null]
  /\ held' = [held EXCEPT ![t] = {}]
  /\ want' = [want EXCEPT ![t] = Null]

Commit(t) ==
  txn[t] # Null /\ txn[t].stage = 4 /\ Free(t)

\* A statement fails, or the database picks t to end a deadlock.
Rollback(t) == txn[t] # Null /\ Free(t)

Next ==
  \E t \in Txn :
    \/ \E op \in Operation, on, todo \in SUBSET User, stage \in Table :
          Begin(t, op, on, stage, todo)
    \/ \E u \in User : NextInstance(t, u)
    \/ \E row \in Row : Lock(t, row)
    \/ Acquire(t) \/ EndStatement(t) \/ Commit(t) \/ Rollback(t)

Spec == Init /\ [][Next]_vars

-----------------------------------------------------------------------------
\* Every member of D waits for a row that a member of D holds.
Deadlocked(D) ==
  \A t \in D : want[t] # Null /\ \E s \in D : want[t] \in held[s]

Bulk(t) == \E u, v \in txn[t].on : u # v

\* A change form that meets an operation on all the rows of its account.
FormAgainst(s, t) ==
  /\ txn[s].op = "form" /\ txn[t].op \in {"delete", "anonymize"}
  /\ txn[s].on \subseteq txn[t].on

\* However many transactions overlap, a deadlock takes two bulk operations, or
\* a change form and another operation on its account: everything else writes
\* the rows of any one account in the same order.  Owners who close their
\* accounts (me/anonymize) or save a row while one bulk operation runs are
\* never the reason that a transaction is lost, nor are two forms.
DeadlockNeedsBulkOrForm ==
  \A D \in SUBSET Txn :
    D # {} /\ Deadlocked(D) =>
      \E s, t \in D : s # t /\ ((Bulk(s) /\ Bulk(t)) \/ FormAgainst(s, t))
=============================================================================
