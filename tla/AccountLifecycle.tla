-------------------------- MODULE AccountLifecycle --------------------------
(***************************************************************************)
(* The life of an account in the database: creation with its two satellite *)
(* rows, soft deletion, restoration, anonymisation and physical deletion   *)
(* (users/managers.py, users/signals.py), run by concurrent transactions.  *)
(*                                                                         *)
(* A bulk operation is a queryset method: its target set is a QUERY, not a *)
(* list of rows, and every SQL statement it issues evaluates that query    *)
(* again.  A transaction's writes stay in "dirty" until it commits; a row  *)
(* with an uncommitted write is locked against every other transaction.    *)
(*                                                                         *)
(* Abstractions: one UPDATE statement, or the three row writes of one turn *)
(* of the anonymize() loop, is one step; a statement that finds a target   *)
(* row locked waits; personal data is one Boolean per row.  "pii" speaks   *)
(* of the columns anonymize() names and of no others: of the user its      *)
(* names, e-mail, username and password; of the profile its bio, avatar,   *)
(* last_activity_at, consent and registration_data; of the vault its       *)
(* encrypted columns and their indexes.  What else a row may hold of the   *)
(* person (last_ip_address, suspension_reason, the two addresses) is not   *)
(* in the model, because no operation here touches it.                     *)
(***************************************************************************)
EXTENDS Naturals, FiniteSets

CONSTANTS User,       \* account identifiers (uuid4)
          Txn,        \* database sessions that may run an operation
          Stamp,      \* values timezone.now() may return
          Null,       \* SQL NULL
          NoRow,      \* no such row
          Clean,      \* this transaction has not written this row
          Isolation,  \* "serial" (callers take turns) | "read_committed"
          Lookups,    \* how a caller narrows the queryset, see Lookup
          Ops         \* the operations that run

OpName == {"create", "delete", "restore", "anonymize", "hard_delete", "save"}

ASSUME StampAssumption == Null \notin Stamp
ASSUME IsolationAssumption == Isolation \in {"serial", "read_committed"}
ASSUME LookupsAssumption == Lookups \subseteq {"id", "identity", "dead"}
ASSUME OpsAssumption == Ops \subseteq OpName

(***************************************************************************)
(* Rows.  is_anonymized is a column of the user row; in a satellite it is  *)
(* constantly FALSE.                                                       *)
(***************************************************************************)
Table == {"user", "profile", "secret"}
Row == [pii: BOOLEAN, anonymized: BOOLEAN, deleted: Stamp \cup {Null}]

ASSUME RowAssumption == /\ NoRow \notin Row /\ Clean \notin Row
                        /\ NoRow # Clean

NewRow(pii) == [pii |-> pii, anonymized |-> FALSE, deleted |-> Null]

VARIABLES db,      \* committed rows: db[table][user]
          dirty,   \* uncommitted writes: dirty[txn][table][user]
          pc,      \* where each transaction is
          call,    \* the operation it runs and the queryset it was given
          now,     \* the deleted_at value its UPDATEs write
          inst,    \* model instances it read earlier and still holds
          issued   \* identifiers already handed out

vars == <<db, dirty, pc, call, now, inst, issued>>

PC == {"idle", "fetch", "loop", "profiles", "secrets", "users", "collect",
       "purge", "insert_user", "insert_profile", "insert_secret", "write",
       "commit"}

Call == [op: OpName, mgr: {"objects", "audit"},
         by: {"id", "identity", "dead"}, ids: SUBSET User, tab: Table]

NoCall == [op |-> "delete", mgr |-> "objects", by |-> "id", ids |-> {},
           tab |-> "user"]
NoInst == [u \in User |-> NoRow]
NoWrites == [tab \in Table |-> [u \in User |-> Clean]]

TypeOK ==
  /\ db \in [Table -> [User -> Row \cup {NoRow}]]
  /\ dirty \in [Txn -> [Table -> [User -> Row \cup {NoRow, Clean}]]]
  /\ pc \in [Txn -> PC]
  /\ call \in [Txn -> Call]
  /\ now \in [Txn -> Stamp \cup {Null}]
  /\ inst \in [Txn -> [User -> Row \cup {NoRow}]]
  /\ issued \subseteq User

(***************************************************************************)
(* Initially some accounts exist, alive, with or without personal data in  *)
(* their satellites.                                                       *)
(***************************************************************************)
Init ==
  /\ issued \in SUBSET User
  /\ \E p, s \in [User -> BOOLEAN] :
        db = [tab \in Table |-> [u \in User |->
                IF u \notin issued THEN NoRow
                ELSE NewRow(CASE tab = "user" -> TRUE
                              [] tab = "profile" -> p[u]
                              [] tab = "secret" -> s[u])]]
  /\ dirty = [t \in Txn |-> NoWrites]
  /\ pc = [t \in Txn |-> "idle"]
  /\ call = [t \in Txn |-> NoCall]
  /\ now = [t \in Txn |-> Null]
  /\ inst = [t \in Txn |-> NoInst]

-----------------------------------------------------------------------------
(***************************************************************************)
(* What a transaction sees and may lock.                                   *)
(***************************************************************************)
View(t, tab, u) == IF dirty[t][tab][u] = Clean THEN db[tab][u]
                                               ELSE dirty[t][tab][u]

Unlocked(t, tab, u) == \A o \in Txn \ {t} : dirty[o][tab][u] = Clean

AllUnlocked(t, u) == \A tab \in Table : Unlocked(t, tab, u)

\* CustomUserManager.get_queryset hides dead rows; AuditManager shows all.
Visible_All(mgr, row) == row # NoRow
Visible(mgr, row) == row # NoRow /\ (mgr = "objects" => row.deleted = Null)

\* The filter the caller chained: by primary key, by an attribute that
\* anonymisation rewrites (email, is_anonymized), or .dead().
Lookup(by, row) == CASE by = "id" -> TRUE
                     [] by = "identity" -> row.pii
                     [] by = "dead" -> row.deleted # Null

Selected(t) == {u \in call[t].ids : /\ Visible(call[t].mgr, View(t, "user", u))
                                    /\ Lookup(call[t].by, View(t, "user", u))}

Restorable_All(row) == TRUE
Restorable(row) == ~row.anonymized

Targets(t) == IF call[t].op = "restore"
              THEN {u \in Selected(t) : Restorable(View(t, "user", u))}
              ELSE Selected(t)

Goto(t, label) == pc' = [pc EXCEPT ![t] = label]

-----------------------------------------------------------------------------
(***************************************************************************)
(* A caller starts an operation.  Under "serial" nobody starts one while   *)
(* another's is under way.  That is a hypothesis about the callers and not *)
(* something a database gives: hard_delete() collects before its atomic    *)
(* block begins, and a handler reads and saves in separate transactions.   *)
(***************************************************************************)
MayBegin(t) ==
  /\ pc[t] = "idle"
  /\ Isolation = "serial" => \A o \in Txn : pc[o] = "idle"

\* AuditQuerySet.hard_delete raises NotImplementedError.
HardDeletable_Any(mgr) == TRUE
HardDeletable(mgr) == mgr = "objects"

Start(t, op, mgr, by, ids, tab) ==
  /\ op \in Ops
  /\ by \in Lookups
  /\ MayBegin(t)
  /\ call' = [call EXCEPT ![t] = [op |-> op, mgr |-> mgr, by |-> by,
                                  ids |-> ids, tab |-> tab]]

BeginDelete(t, mgr, by, ids) ==
  /\ Start(t, "delete", mgr, by, ids, "user")
  /\ \E s \in Stamp : now' = [now EXCEPT ![t] = s]
  /\ Goto(t, "profiles")
  /\ UNCHANGED <<db, dirty, inst, issued>>

BeginRestore(t, mgr, by, ids) ==
  /\ Start(t, "restore", mgr, by, ids, "user")
  /\ now' = [now EXCEPT ![t] = Null]
  /\ Goto(t, "profiles")
  /\ UNCHANGED <<db, dirty, inst, issued>>

BeginAnonymize(t, mgr, by, ids) ==
  /\ Start(t, "anonymize", mgr, by, ids, "user")
  /\ Goto(t, "fetch")
  /\ UNCHANGED <<db, dirty, now, inst, issued>>

BeginHardDelete(t, mgr, by, ids) ==
  /\ HardDeletable(mgr)
  /\ Start(t, "hard_delete", mgr, by, ids, "user")
  /\ Goto(t, "collect")
  /\ UNCHANGED <<db, dirty, now, inst, issued>>

BeginCreate(t, u) ==
  /\ u \notin issued
  /\ Start(t, "create", "objects", "id", {u}, "user")
  /\ issued' = issued \cup {u}
  /\ Goto(t, "insert_user")
  /\ UNCHANGED <<db, dirty, now, inst>>

\* A handler is about to read one of its caller's rows and save it later.
BeginSave(t, tab, u) ==
  /\ Start(t, "save", "objects", "id", {u}, tab)
  /\ Goto(t, "fetch")
  /\ UNCHANGED <<db, dirty, now, inst, issued>>

Begin(t) ==
  \/ \E mgr \in {"objects", "audit"}, by \in Lookups, ids \in SUBSET User :
        /\ ids # {}
        /\ \/ BeginDelete(t, mgr, by, ids)
           \/ BeginRestore(t, mgr, by, ids)
           \/ BeginAnonymize(t, mgr, by, ids)
           \/ BeginHardDelete(t, mgr, by, ids)
  \/ \E u \in User : \/ BeginCreate(t, u)
                     \/ \E tab \in Table : BeginSave(t, tab, u)

-----------------------------------------------------------------------------
(***************************************************************************)
(* delete() and restore(): one UPDATE per table, satellites first, each    *)
(* evaluating the target set anew.                                         *)
(***************************************************************************)
\* Two faulty forms: a flag for a timestamp, the vault left out.
Stamped_Flag(tab, row, value) == [row EXCEPT !.deleted = TRUE]
Stamped_NotSecret(tab, row, value) ==
  IF tab = "secret" THEN row ELSE [row EXCEPT !.deleted = value]
Stamped(tab, row, value) == [row EXCEPT !.deleted = value]

UpdateTable(t, tab, from, to) ==
  /\ pc[t] = from
  /\ \A u \in Targets(t) : Unlocked(t, tab, u)
  /\ dirty' = [dirty EXCEPT ![t][tab] = [u \in User |->
        IF u \in Targets(t) /\ View(t, tab, u) # NoRow
        THEN Stamped(tab, View(t, tab, u), now[t])
        ELSE dirty[t][tab][u]]]
  /\ Goto(t, to)
  /\ UNCHANGED <<db, call, now, inst, issued>>

UpdateProfiles(t) == UpdateTable(t, "profile", "profiles", "secrets")
UpdateSecrets(t) == UpdateTable(t, "secret", "secrets", "users")
UpdateUsers(t) == UpdateTable(t, "user", "users", "commit")

-----------------------------------------------------------------------------
(***************************************************************************)
(* anonymize(): read every selected user, rewrite them one by one, then    *)
(* soft-delete whatever the SAME queryset selects by then.                 *)
(***************************************************************************)
FetchAnonymize(t) ==
  /\ pc[t] = "fetch" /\ call[t].op = "anonymize"
  /\ inst' = [inst EXCEPT ![t] = [u \in User |->
                IF u \in Selected(t) THEN View(t, "user", u) ELSE NoRow]]
  /\ Goto(t, "loop")
  /\ UNCHANGED <<db, dirty, call, now, issued>>

\* What the loop does to a row: its named columns are cleared or rewritten.
\* A faulty form of it: the vault forgotten.
Erased_KeepsSecret(tab, row) ==
  [row EXCEPT !.pii = (tab = "secret" /\ row.pii),
              !.anonymized = (tab = "user")]
Erased(tab, row) == [row EXCEPT !.pii = FALSE, !.anonymized = (tab = "user")]

\* The user row is written in full from the instance read by FetchAnonymize;
\* the satellites are read here, if there are any.  A user purged meanwhile
\* is inserted again, and post_save gives it fresh satellites.
AnonymizeOne(t, u) ==
  /\ pc[t] = "loop" /\ inst[t][u] # NoRow
  /\ inst' = [inst EXCEPT ![t][u] = NoRow]
  /\ IF inst[t][u].anonymized
     THEN UNCHANGED dirty
     ELSE /\ AllUnlocked(t, u)
          /\ dirty' = [dirty EXCEPT ![t] = [tab \in Table |->
                [dirty[t][tab] EXCEPT ![u] =
                   IF tab = "user" THEN Erased("user", inst[t][u])
                   ELSE IF View(t, "user", u) = NoRow THEN NewRow(FALSE)
                   ELSE IF View(t, tab, u) = NoRow THEN @
                   ELSE Erased(tab, View(t, tab, u))]]]
  /\ UNCHANGED <<db, pc, call, now, issued>>

FinalDelete_Skipped(t) == Goto(t, "commit")
FinalDelete(t) == Goto(t, "profiles")

FinishLoop(t) ==
  /\ pc[t] = "loop" /\ inst[t] = NoInst
  /\ \E s \in Stamp : now' = [now EXCEPT ![t] = s]
  /\ FinalDelete(t)
  /\ UNCHANGED <<db, dirty, call, inst, issued>>

-----------------------------------------------------------------------------
(***************************************************************************)
(* hard_delete(): Django collects the selected rows, then, in an atomic    *)
(* block, deletes them and their satellites by primary key, whatever has   *)
(* been committed to them in between.                                      *)
(***************************************************************************)
Collect(t) ==
  /\ pc[t] = "collect"
  /\ inst' = [inst EXCEPT ![t] = [u \in User |->
                IF u \in Selected(t) THEN View(t, "user", u) ELSE NoRow]]
  /\ Goto(t, "purge")
  /\ UNCHANGED <<db, dirty, call, now, issued>>

Purge(t) ==
  LET gone == {u \in User : inst[t][u] # NoRow} IN
  /\ pc[t] = "purge"
  /\ \A u \in gone : AllUnlocked(t, u)
  /\ dirty' = [dirty EXCEPT ![t] = [tab \in Table |-> [u \in User |->
                IF u \in gone THEN NoRow ELSE dirty[t][tab][u]]]]
  /\ Goto(t, "commit")
  /\ UNCHANGED <<db, call, now, inst, issued>>

-----------------------------------------------------------------------------
(***************************************************************************)
(* create_user(): the user row, then the post_save receiver's two rows.    *)
(* registration_data may or may not carry something personal.              *)
(***************************************************************************)
Insert(t, tab, from, to, row) ==
  /\ pc[t] = from
  /\ \A u \in call[t].ids : Unlocked(t, tab, u)
  /\ dirty' = [dirty EXCEPT ![t][tab] =
                 [u \in User |-> IF u \in call[t].ids THEN row
                                 ELSE dirty[t][tab][u]]]
  /\ Goto(t, to)
  /\ UNCHANGED <<db, call, now, inst, issued>>

InsertUser(t) ==
  Insert(t, "user", "insert_user", "insert_profile", NewRow(TRUE))
InsertProfile(t) == \E pii \in BOOLEAN :
  Insert(t, "profile", "insert_profile", "insert_secret", NewRow(pii))
InsertSecret(t) ==
  Insert(t, "secret", "insert_secret", "commit", NewRow(FALSE))

-----------------------------------------------------------------------------
(***************************************************************************)
(* A request handler's save(): the row is read once, changed in memory and *)
(* written back in full.  Authentication only admits a live user.          *)
(***************************************************************************)
FetchSave(t, u) ==
  /\ pc[t] = "fetch" /\ call[t].op = "save" /\ u \in Selected(t)
  /\ inst' = [inst EXCEPT ![t][u] = View(t, call[t].tab, u)]
  /\ Goto(t, "write")
  /\ UNCHANGED <<db, dirty, call, now, issued>>

\* save() UPDATEs by primary key; when no row matches it INSERTs, which
\* succeeds for a user row only (a satellite's foreign key dangles).
WriteSave(t, u) ==
  LET tab == call[t].tab IN
  /\ pc[t] = "write" /\ inst[t][u] # NoRow
  /\ AllUnlocked(t, u)
  /\ tab # "user" => View(t, "user", u) # NoRow
  /\ dirty' = [dirty EXCEPT ![t] = [k \in Table |-> [dirty[t][k] EXCEPT ![u] =
        IF k = tab THEN [inst[t][u] EXCEPT !.pii = TRUE]
        ELSE IF View(t, "user", u) = NoRow THEN NewRow(FALSE)
        ELSE dirty[t][k][u]]]]
  /\ inst' = [inst EXCEPT ![t] = NoInst]
  /\ Goto(t, "commit")
  /\ UNCHANGED <<db, call, now, issued>>

-----------------------------------------------------------------------------
(***************************************************************************)
(* The end of transaction.atomic().                                        *)
(***************************************************************************)
Merged(t) == [tab \in Table |-> [u \in User |-> View(t, tab, u)]]

End(t, rows) ==
  /\ db' = rows
  /\ dirty' = [dirty EXCEPT ![t] = NoWrites]
  /\ Goto(t, "idle")
  /\ call' = [call EXCEPT ![t] = NoCall]
  /\ now' = [now EXCEPT ![t] = Null]
  /\ inst' = [inst EXCEPT ![t] = NoInst]
  /\ UNCHANGED issued

Commit(t) == pc[t] = "commit" /\ End(t, Merged(t))

\* Any statement may fail: the exception leaves the atomic block.
RolledBack_KeepsWrites(t) == Merged(t)
RolledBack(t) == db

Rollback(t) == pc[t] # "idle" /\ End(t, RolledBack(t))

Step(t) ==
  \/ Begin(t)
  \/ UpdateProfiles(t) \/ UpdateSecrets(t) \/ UpdateUsers(t)
  \/ FetchAnonymize(t) \/ (\E u \in User : AnonymizeOne(t, u)) \/ FinishLoop(t)
  \/ Collect(t) \/ Purge(t)
  \/ InsertUser(t) \/ InsertProfile(t) \/ InsertSecret(t)
  \/ \E u \in User : FetchSave(t, u) \/ WriteSave(t, u)
  \/ Commit(t) \/ Rollback(t)

Next == \E t \in Txn : Step(t)

Spec == Init /\ [][Next]_vars

-----------------------------------------------------------------------------
(***************************************************************************)
(* Properties.  All speak of committed rows, what other sessions can read. *)
(***************************************************************************)

\* A user row has both satellites, and no satellite survives its user: the
\* promise of the post_save receiver and of the cascade, whatever fails.
SatellitesComplete ==
  \A u \in User, tab \in Table : db["user"][u] = NoRow <=> db[tab][u] = NoRow

\* Once is_anonymized is visible, every column anonymize() clears is clear in
\* all three rows (its steps 1-3).
AnonymizedIsErased ==
  \A u \in User, tab \in Table :
    /\ db["user"][u] # NoRow
    /\ db["user"][u].anonymized
    /\ db[tab][u] # NoRow
    => ~db[tab][u].pii

\* "Executes a soft delete at the end": an anonymised user is never visible
\* through the default manager.
AnonymizedIsDead ==
  \A u \in User :
    /\ db["user"][u] # NoRow
    /\ db["user"][u].anonymized
    => db["user"][u].deleted # Null

\* The three rows of an account carry the same deleted_at: delete()
\* propagates its timestamp, restore() clears all of them.
DeletionPropagated ==
  \A u \in User, tab \in Table :
    /\ db["user"][u] # NoRow
    /\ db[tab][u] # NoRow
    => db[tab][u].deleted = db["user"][u].deleted

\* Anonymisation is irreversible: a committed step never clears the flag,
\* never fills again what was cleared, and never removes the row.
AnonymizationIsFinal ==
  [][\A u \in User :
       db["user"][u] # NoRow /\ db["user"][u].anonymized =>
         /\ db'["user"][u] # NoRow
         /\ db'["user"][u].anonymized
         /\ \A tab \in Table : ~db'[tab][u].pii]_vars

\* Rows are physically removed only by a hard_delete() that has found them
\* alive: no rollback, no other operation and no hard_delete() of history
\* does it, whatever overlaps.  (Found, not removed, alive: a delete()
\* committed after the rows were collected does not save them.)
PurgedWereLive ==
  [][\A u \in User :
       db["user"][u] # NoRow /\ db'["user"][u] = NoRow =>
         \E t \in Txn : /\ pc[t] = "commit" /\ call[t].op = "hard_delete"
                        /\ inst[t][u] # NoRow
                        /\ inst[t][u].deleted = Null]_vars

-----------------------------------------------------------------------------
(***************************************************************************)
(* The contract.  An account counts as alive, deleted or closed only when  *)
(* its three rows agree; anything else is "torn", which the contract does  *)
(* not know.                                                               *)
(***************************************************************************)
StateOf(u) ==
  LET row == db["user"][u]
      whole == \A tab \in Table : db[tab][u] # NoRow
      agreed == \A tab \in Table : db[tab][u].deleted = row.deleted
      erased == \A tab \in Table : ~db[tab][u].pii IN
  CASE \A tab \in Table : db[tab][u] = NoRow -> "absent"
    [] whole /\ agreed /\ ~row.anonymized ->
         IF row.deleted = Null THEN "alive" ELSE "deleted"
    [] whole /\ agreed /\ row.anonymized /\ erased /\ row.deleted # Null ->
         "closed"
    [] OTHER -> "torn"

Contract == INSTANCE AccountContract WITH state <- [u \in User |-> StateOf(u)]

\* When callers take turns every commit is one operation of the contract, on
\* all of the accounts it selects or on none, whatever statement fails: no
\* account is torn, a closed one stays closed, a deleted one is not removed.
ImplementsContract == Contract!Spec
=============================================================================
