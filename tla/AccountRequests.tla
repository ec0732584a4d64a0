-------------------------- MODULE AccountRequests --------------------------
(***************************************************************************)
(* The authenticated API on existing accounts: PATCH me, me/profile and    *)
(* me/secrets, POST me/2fa/setup, verify and me/anonymize (users/views.py, *)
(* serializers/, services.py) as requests of several steps.  Every request *)
(* works on model INSTANCES: the user row is read when the request is      *)
(* authenticated, a satellite when the handler first touches it, and       *)
(* save() writes every column back from that instance unless it is given   *)
(* update_fields.  Outside anonymize() each statement commits by itself.   *)
(*                                                                         *)
(* Abstractions: "closed" stands for is_anonymized and deleted_at, which   *)
(* every step of these handlers writes together; the vault's identity data *)
(* is the one field with a unique index, dni (Vault has the others); the   *)
(* profile is one Boolean, TRUE while it holds personal data; step-up is   *)
(* granted; the transaction of anonymize() is one step (its statements     *)
(* interleave in AccountLifecycle).  External: the ORM's save() and the    *)
(* unique indexes.                                                         *)
(***************************************************************************)
EXTENDS Naturals, FiniteSets, FiniteSetsExt

CONSTANTS User, Request,
          Name,      \* mailboxes
          Spelling,  \* the ways an address of one may be written
          Dni,       \* national ids
          Null,
          Ops,       \* the handlers that run
          Apart,     \* pairs of them that do not overlap on one account
          Crashes,   \* whether a worker may die in the middle of a request
          MaxAudits  \* bound: vault writes audited, of a user and of any two

Op == {"me", "profile", "secrets", "setup", "verify", "anonymize"}

ASSUME OpsAssumption == Ops \subseteq Op /\ Apart \subseteq SUBSET Op
ASSUME SpellingAssumption ==
  "lower" \in Spelling /\ Spelling \subseteq {"lower", "mixed"}
ASSUME BoundsAssumption == Crashes \in BOOLEAN /\ MaxAudits \in Nat

Email == [name: Name, spelling: Spelling]
Anon(u) == [anon |-> u]

ASSUME DistinctAssumption == Null \notin Dni
ASSUME RequestAssumption == IsFiniteSet(Request)

UserRow == [email: Email \cup {Anon(u) : u \in User}, verified: BOOLEAN,
            closed: BOOLEAN]
VaultRow == [dni: Dni \cup {Null}, otp: BOOLEAN, key: BOOLEAN]
Empty == [dni |-> Null, otp |-> FALSE, key |-> FALSE]

VARIABLES users,   \* the user table
          profile, \* the UserProfile table
          vault,   \* the UserSecret table
          audits,  \* UserSecretAudit rows with action UPDATE, per user
          req,     \* requests in flight
          changes  \* history: commits that changed the dni column, per user

vars == <<users, profile, vault, audits, req, changes>>

Place == {"vault", "profile", "audit", "save", "mark", "clear", "validate",
          "confirm"}
Flight == [op: Op, at: Place, u: User, usr: UserRow \cup {Null}, vlt: VaultRow,
           email: Email \cup {Null}, dni: Dni \cup {Null}]

TypeOK ==
  /\ users \in [User -> UserRow]
  /\ profile \in [User -> BOOLEAN]
  /\ vault \in [User -> VaultRow]
  /\ audits \in [User -> 0..MaxAudits]
  /\ req \in [Request -> Flight \cup {Null}]
  /\ changes \in [User -> 0..(MaxAudits + 2)]

\* Registered accounts: a lower-case address of one's own, a pending code.
Init ==
  /\ users \in [User -> {[email |-> [name |-> n, spelling |-> "lower"],
                          verified |-> FALSE, closed |-> FALSE] :
                          n \in Name}]
  /\ \A u, v \in User : u # v => users[u].email # users[v].email
  /\ profile = [u \in User |-> FALSE]
  /\ vault = [u \in User |-> [Empty EXCEPT !.otp = TRUE]]
  /\ audits = [u \in User |-> 0]
  /\ req = [r \in Request |-> Null]
  /\ changes = [u \in User |-> 0]

-----------------------------------------------------------------------------
At(r, op, at) == req[r] # Null /\ req[r].op = op /\ req[r].at = at
Go(r, at) == req' = [req EXCEPT ![r].at = at]
Leave(r) == req' = [req EXCEPT ![r] = Null]

First(op) == CASE op = "me" -> "validate"
               [] op = "profile" -> "profile"
               [] op = "anonymize" -> "confirm"
               [] OTHER -> "vault"

\* The handlers that use more of the user they read than whose row it is.
UsesUser == {"me", "verify", "anonymize"}

\* Authentication and POST verify only find live users; two handlers ask for
\* a verified one.
Admitted(op, u) ==
  /\ ~users[u].closed
  /\ op \in {"secrets", "anonymize"} => users[u].verified

\* Requests overlap freely, except those the instance keeps apart.
MayOverlap(op, u) ==
  \A r \in Request : req[r] # Null /\ req[r].u = u => {req[r].op, op} \notin Apart

Audited(u) == audits[u] + Cardinality({r \in Request :
                 req[r] # Null /\ req[r].u = u /\ req[r].op = "secrets"})

Arrive(r, op, u, email, dni) ==
  /\ op \in Ops /\ req[r] = Null
  /\ MayOverlap(op, u) /\ Admitted(op, u)
  /\ op = "secrets" => /\ Audited(u) < MaxAudits
                       /\ \A v \in User \ {u} : Audited(u) + Audited(v) < MaxAudits
  /\ req' = [req EXCEPT ![r] = [op |-> op, at |-> First(op), u |-> u,
                usr |-> IF op \in UsesUser THEN users[u] ELSE Null,
                vlt |-> Empty, email |-> email, dni |-> dni]]
  /\ UNCHANGED <<users, profile, vault, audits, changes>>

\* request.user.secrets: the vault row is read once per request.
LoadVault(r, at) ==
  /\ req[r] # Null /\ req[r].at = "vault"
  /\ req' = [req EXCEPT ![r].at = at, ![r].vlt = vault[req[r].u]]
  /\ UNCHANGED <<users, profile, vault, audits, changes>>

-----------------------------------------------------------------------------
\* PATCH me.  The serializer's uniqueness check sees live users only ...
ValidateMe(r) ==
  /\ At(r, "me", "validate")
  /\ IF \E v \in User \ {req[r].u} :
          ~users[v].closed /\ users[v].email = req[r].email
     THEN Leave(r) ELSE Go(r, "save")
  /\ UNCHANGED <<users, profile, vault, audits, changes>>

\* ... the database sees all of them and refuses a duplicate.
EmailTaken(u, email) == \E v \in User \ {u} : users[v].email = email

SavedUser_ForgetsFlags(r) ==
  [req[r].usr EXCEPT !.email = req[r].email, !.verified = FALSE]
SavedUser(r) == [req[r].usr EXCEPT !.email = req[r].email]

SaveMe(r) ==
  LET u == req[r].u IN
  /\ At(r, "me", "save")
  /\ users' = IF EmailTaken(u, req[r].email) THEN users
              ELSE [users EXCEPT ![u] = SavedUser(r)]
  /\ Leave(r)
  /\ UNCHANGED <<profile, vault, audits, changes>>

-----------------------------------------------------------------------------
\* PATCH me/profile: the profile is read and saved whole, with or without
\* something personal in its biography; a purged profile cannot be saved.
LoadProfile(r) ==
  /\ At(r, "profile", "profile")
  /\ Go(r, "save")
  /\ UNCHANGED <<users, profile, vault, audits, changes>>

SaveProfile(r, personal) ==
  /\ At(r, "profile", "save")
  /\ profile' = [profile EXCEPT ![req[r].u] = personal]
  /\ Leave(r)
  /\ UNCHANGED <<users, vault, audits, changes>>

-----------------------------------------------------------------------------
\* A full save of a vault instance; changes counts a little past its bound.
Changed(u, row) ==
  IF row.dni = vault[u].dni THEN changes
  ELSE [changes EXCEPT ![u] = IF @ > MaxAudits + 1 THEN @ ELSE @ + 1]

StoreVault(u, row) ==
  /\ vault' = [vault EXCEPT ![u] = row]
  /\ changes' = Changed(u, row)

DniTaken(u, dni) == dni # Null /\ \E v \in User \ {u} : vault[v].dni = dni

\* PATCH me/secrets: the audit row is created first ...
AuditSecrets_Skipped(r) == Go(r, "save") /\ UNCHANGED audits
AuditSecrets(r) ==
  /\ audits' = [audits EXCEPT ![req[r].u] = @ + 1]
  /\ Go(r, "save")

WriteSecrets(r) ==
  /\ At(r, "secrets", "audit")
  /\ AuditSecrets(r)
  /\ UNCHANGED <<users, profile, vault, changes>>

\* ... then the instance is saved, unless the unique index refuses it.
SaveSecrets(r) ==
  LET u == req[r].u IN
  /\ At(r, "secrets", "save")
  /\ IF DniTaken(u, req[r].dni) THEN UNCHANGED <<vault, changes>>
     ELSE StoreVault(u, [req[r].vlt EXCEPT !.dni = req[r].dni])
  /\ Leave(r)
  /\ UNCHANGED <<users, profile, audits>>

\* POST me/2fa/setup saves the vault instance too.
SaveSetup(r) ==
  LET u == req[r].u IN
  /\ At(r, "setup", "save")
  /\ IF DniTaken(u, req[r].vlt.dni) THEN UNCHANGED <<vault, changes>>
     ELSE StoreVault(u, [req[r].vlt EXCEPT !.key = TRUE])
  /\ Leave(r)
  /\ UNCHANGED <<users, profile, audits>>

-----------------------------------------------------------------------------
\* POST verify: the code is checked on the instance, then the flag and the
\* code columns are written by two saves restricted to them.
RejectCode(r) ==
  /\ At(r, "verify", "vault")
  /\ Leave(r)
  /\ UNCHANGED <<users, profile, vault, audits, changes>>

Marked_FullSave(r) ==
  [users EXCEPT ![req[r].u] = [req[r].usr EXCEPT !.verified = TRUE]]
Marked(r) == [users EXCEPT ![req[r].u].verified = TRUE]

MarkVerified(r) ==
  /\ At(r, "verify", "mark")
  /\ IF req[r].vlt.otp
     THEN users' = Marked(r) /\ Go(r, "clear")
     ELSE UNCHANGED users /\ Leave(r)
  /\ UNCHANGED <<profile, vault, audits, changes>>

ClearCode(r) ==
  /\ At(r, "verify", "clear")
  /\ vault' = [vault EXCEPT ![req[r].u].otp = FALSE]
  /\ Leave(r)
  /\ UNCHANGED <<users, profile, audits, changes>>

-----------------------------------------------------------------------------
\* POST me/anonymize: the text typed is lower-cased before it is compared
\* with the stored address as it is.
Lower(email) == [email EXCEPT !.spelling = "lower"]
Confirmed(r) == Lower(req[r].email) = req[r].usr.email

\* anonymize() on the user's own row, through the live-rows manager: the vault
\* is cleared without a row in the audit trail.
Erased(u, row) == Empty
Closed_NullEmail(u, row) == [row EXCEPT !.email = Null, !.closed = TRUE]
Closed(u, row) == [row EXCEPT !.email = Anon(u), !.closed = TRUE]

Anonymize(r) ==
  LET u == req[r].u IN
  /\ At(r, "anonymize", "confirm") /\ Confirmed(r)
  /\ IF users[u].closed THEN UNCHANGED <<users, profile, vault, changes>>
     ELSE /\ users' = [users EXCEPT ![u] = Closed(u, users[u])]
          /\ profile' = [profile EXCEPT ![u] = FALSE]
          /\ StoreVault(u, Erased(u, vault[u]))
  /\ Leave(r)
  /\ UNCHANGED audits

RefuseAnonymize(r) ==
  /\ At(r, "anonymize", "confirm") /\ ~Confirmed(r)
  /\ Leave(r)
  /\ UNCHANGED <<users, profile, vault, audits, changes>>

-----------------------------------------------------------------------------
\* The worker dies between two steps.
Crash(r) ==
  /\ Crashes /\ req[r] # Null
  /\ Leave(r)
  /\ UNCHANGED <<users, profile, vault, audits, changes>>

Next ==
  \/ \E r \in Request, u \in User, email \in Email :
        \E op \in {"me", "anonymize"} : Arrive(r, op, u, email, Null)
  \/ \E r \in Request, u \in User :
        \/ \E dni \in Dni \cup {Null} :
              Arrive(r, "secrets", u, Null, dni)
        \/ \E op \in {"profile", "setup", "verify"} :
              Arrive(r, op, u, Null, Null)
  \/ \E r \in Request :
        \/ req[r] # Null /\ LoadVault(r, CASE req[r].op = "secrets" -> "audit"
                                           [] req[r].op = "setup" -> "save"
                                           [] OTHER -> "mark")
        \/ ValidateMe(r) \/ SaveMe(r)
        \/ LoadProfile(r) \/ \E personal \in BOOLEAN : SaveProfile(r, personal)
        \/ WriteSecrets(r) \/ SaveSecrets(r) \/ SaveSetup(r)
        \/ RejectCode(r) \/ MarkVerified(r) \/ ClearCode(r)
        \/ Anonymize(r) \/ RefuseAnonymize(r) \/ Crash(r)

Spec == Init /\ [][Next]_vars

-----------------------------------------------------------------------------
\* "This cannot be undone": a closed account stays closed, under no address
\* of its own and with nothing in its profile or its vault, whatever its
\* owner's other requests still do, as long as no request that saves a whole
\* instance overlaps the closing.
ClosedIsFinal ==
  [][\A u \in User : users[u].closed =>
       /\ users'[u].closed /\ users'[u].email = Anon(u)
       /\ ~profile'[u] /\ vault'[u] = Empty]_vars

\* is_verified is read-only in the API.  One request takes it away all the
\* same: a PATCH me that read the user before a POST verify wrote it, and
\* saves what it read.  No other step does, whatever overlaps and crashes.
VerifiedIsKept ==
  [][\A u \in User : users[u].verified /\ ~users'[u].verified =>
       \E r \in Request : /\ At(r, "me", "save") /\ req'[r] = Null
                          /\ req[r].u = u /\ ~req[r].usr.verified]_vars

\* Every change of the identity data was announced in the audit trail before
\* it is committed, but the one that closing the account makes.
Closings(u) == IF users[u].closed THEN 1 ELSE 0
ChangesAreAudited == \A u \in User : changes[u] <= audits[u] + Closings(u)
=============================================================================
