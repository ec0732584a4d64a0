------------------------------- MODULE Vault -------------------------------
(***************************************************************************)
(* Identity data in the encrypted vault: PATCH me/secrets, the whole-row   *)
(* save of me/2fa/setup and the erasure of anonymize(), over the columns   *)
(* <field>_encrypted and <field>_index of UserSecret, while MASTER_KEY and *)
(* ENCRYPTION_PEPPER are being changed.                                    *)
(*                                                                         *)
(* The settings belong to a PROCESS: during a deployment, or its rollback, *)
(* processes with old and with new settings serve requests side by side,   *)
(* so a request runs under any configuration of Conf, but under one.  A    *)
(* request works on the vault row as it read it, audits each supplied      *)
(* field with a commit of its own and saves the whole row at the end.      *)
(*                                                                         *)
(* External: Fernet and HMAC.  A ciphertext is what went in and the key, a *)
(* digest is what went in and the pepper: equal digests mean equal inputs  *)
(* and equal peppers.  The callers are verified and have stepped up.       *)
(***************************************************************************)
EXTENDS Integers

CONSTANTS User, Request, Value,
          Key, Pepper,
          Conf,        \* configurations processes run with
          Submissions, \* bodies of PATCH me/secrets
          Absent,      \* the body lacks a field
          Null

Field == {"dni", "phone_number", "date_of_birth"}

\* SENSITIVE_FIELDS is walked in this order.
Earlier == [dni |-> {}, phone_number |-> {"dni"},
            date_of_birth |-> {"dni", "phone_number"}]

Indexed == {"dni", "phone_number"}

Cipher == [value: Value, key: Key]
Digest == [value: Value, pepper: Pepper]
Cell == [encrypted: Cipher \cup {Null}, index: Digest \cup {Null}]
Clear == [encrypted |-> Null, index |-> Null]
Row == [Field -> Cell]
Blank == [f \in Field |-> Clear]
Body == [Field -> Value \cup {Null, Absent}]
Flight == [op: {"secrets", "setup"}, at: {"load", "write"}, u: User,
           conf: Conf, row: Row, body: Body]
Entry == [u: User, field: Field, value: Value \cup {Null}]

\* A setting may be missing; nothing looks before the first use.
ASSUME ConfAssumption ==
  Conf \subseteq [key: Key \cup {Null}, pepper: Pepper \cup {Null}]

\* The serializer refuses a body without any of the fields.
ASSUME SubmissionsAssumption ==
  \A b \in Submissions : b \in Body /\ \E f \in Field : b[f] # Absent

ASSUME NullAssumption ==
  Null \notin Value \cup Key \cup Pepper \cup Cipher \cup Digest \cup Flight

ASSUME AbsentAssumption == Absent \notin Value \cup {Null}

VARIABLES vault,  \* the UserSecret table
          closed, \* anonymised accounts
          audit,  \* UserSecretAudit rows, with the value they were written for
          req

vars == <<vault, closed, audit, req>>

TypeOK ==
  /\ vault \in [User -> Row]
  /\ closed \subseteq User
  /\ audit \subseteq Entry
  /\ req \in [Request -> Flight \cup {Null}]

Init ==
  /\ vault = [u \in User |-> Blank]
  /\ closed = {} /\ audit = {}
  /\ req = [r \in Request |-> Null]

-----------------------------------------------------------------------------
At(r, at) == req[r] # Null /\ req[r].at = at
Leave(r) == req' = [req EXCEPT ![r] = Null]

Nothing == [f \in Field |-> Absent]

Arrive(r, op, u, conf, body) ==
  /\ req[r] = Null /\ u \notin closed
  /\ body \in IF op = "secrets" THEN Submissions ELSE {Nothing}
  /\ req' = [req EXCEPT ![r] = [op |-> op, at |-> "load", u |-> u,
               conf |-> conf, row |-> Blank, body |-> body]]
  /\ UNCHANGED <<vault, closed, audit>>

\* request.user.secrets.
Load(r) ==
  /\ At(r, "load")
  /\ req' = [req EXCEPT ![r].at = "write", ![r].row = vault[req[r].u]]
  /\ UNCHANGED <<vault, closed, audit>>

-----------------------------------------------------------------------------
(* set_sensitive_data(f, v): ciphertext and blind index, or neither.       *)
Encrypted(v, conf) ==
  IF v = Null THEN Null ELSE [value |-> v, key |-> conf.key]

BlindIndex(v, conf) ==
  IF v = Null THEN Null ELSE [value |-> v, pepper |-> conf.pepper]

Sealed_KeepsIndex(f, v, conf, cell) ==
  [encrypted |-> Encrypted(v, conf),
   index |-> IF f \in Indexed /\ v # Null THEN BlindIndex(v, conf)
             ELSE cell.index]
Sealed(f, v, conf, cell) ==
  [encrypted |-> Encrypted(v, conf),
   index |-> IF f \in Indexed THEN BlindIndex(v, conf) ELSE cell.index]

\* A missing key raises, and so does a missing pepper where an index is due.
CanSeal_Partly(f, v, conf) == v # Null => conf.key # Null
CanSeal(f, v, conf) ==
  v # Null => /\ conf.key # Null
              /\ f \in Indexed => conf.pepper # Null

\* f is the next field of the body.
Turn(r, f) ==
  /\ At(r, "write") /\ req[r].op = "secrets"
  /\ req[r].body[f] # Absent
  /\ \A g \in Earlier[f] : req[r].body[g] = Absent

Audited_FirstOnly(r, f, v) ==
  IF Earlier[f] = {} THEN {[u |-> req[r].u, field |-> f, value |-> v]} ELSE {}
Audited(r, f, v) == {[u |-> req[r].u, field |-> f, value |-> v]}

\* One turn of the loop: the instance is changed, the audit row committed.
WriteField(r, f) ==
  LET v == req[r].body[f] c == req[r].conf IN
  /\ Turn(r, f) /\ CanSeal(f, v, c)
  /\ req' = [req EXCEPT ![r].row[f] = Sealed(f, v, c, @),
                        ![r].body[f] = Absent]
  /\ audit' = audit \cup Audited(r, f, v)
  /\ UNCHANGED <<vault, closed>>

RefuseField(r, f) ==
  /\ Turn(r, f) /\ ~CanSeal(f, req[r].body[f], req[r].conf)
  /\ Leave(r)
  /\ UNCHANGED <<vault, closed, audit>>

\* save() of the whole instance meets the unique index on dni_index.
Taken_Never(r) == FALSE
Taken(r) ==
  LET i == req[r].row["dni"].index IN
  i # Null /\ \E u \in User \ {req[r].u} : vault[u]["dni"].index = i

\* It comes after the loop, or after setup_2fa has encrypted its recovery
\* codes, which have no column but need a key.
Save(r) ==
  /\ At(r, "write") /\ req[r].body = Nothing
  /\ vault' = IF \/ Taken(r)
                 \/ req[r].op = "setup" /\ req[r].conf.key = Null
              THEN vault ELSE [vault EXCEPT ![req[r].u] = req[r].row]
  /\ Leave(r)
  /\ UNCHANGED <<closed, audit>>

-----------------------------------------------------------------------------
\* anonymize(), one transaction.
Anonymize(u) ==
  /\ u \notin closed
  /\ vault' = [vault EXCEPT ![u] = Blank]
  /\ closed' = closed \cup {u}
  /\ UNCHANGED <<audit, req>>

\* The worker dies.
Crash(r) ==
  /\ req[r] # Null
  /\ Leave(r)
  /\ UNCHANGED <<vault, closed, audit>>

Next ==
  \/ \E r \in Request, u \in User, c \in Conf :
        \/ Arrive(r, "setup", u, c, Nothing)
        \/ \E b \in Submissions : Arrive(r, "secrets", u, c, b)
  \/ \E r \in Request :
        \/ Load(r) \/ Save(r) \/ Crash(r)
        \/ \E f \in Field : WriteField(r, f) \/ RefuseField(r, f)
  \/ \E u \in User : Anonymize(u)

Spec == Init /\ [][Next]_vars

-----------------------------------------------------------------------------
\* A column and its blind index are two halves of one write: both NULL or
\* neither, the index made from the value that is stored, and both under the
\* settings of one process, also when stale rows are written back, settings
\* change and one of them is missing.
IndexMatchesValue ==
  \A u \in User, f \in Indexed :
    LET c == vault[u][f] IN
    /\ c.encrypted = Null <=> c.index = Null
    /\ c.index # Null =>
         /\ c.index.value = c.encrypted.value
         /\ [key |-> c.encrypted.key, pepper |-> c.index.pepper] \in Conf

\* dni_index is unique so that one national id belongs to one account.  That
\* survives a change of MASTER_KEY but not one of ENCRYPTION_PEPPER: two
\* accounts hold the same id only if different peppers indexed it.
OneHolder ==
  \A u, w \in User :
    LET a == vault[u]["dni"] b == vault[w]["dni"] IN
    u # w /\ a.encrypted # Null /\ b.encrypted # Null
      /\ a.encrypted.value = b.encrypted.value
      => a.index.pepper # b.index.pepper

\* "Append-only record of changes to a user's secret vault": whatever is in a
\* column was submitted for that field by that user, and has an audit row, also
\* after refused and interrupted requests and after stale rows are saved.
StoredIsAnnounced ==
  \A u \in User, f \in Field :
    LET c == vault[u][f].encrypted IN
    c # Null => [u |-> u, field |-> f, value |-> c.value] \in audit
=============================================================================
