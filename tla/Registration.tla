---------------------------- MODULE Registration ----------------------------
(***************************************************************************)
(* From POST register to a verified account: UserViewSet.register,         *)
(* VerificationService.initialize_verification_flow and verify_account,    *)
(* the verification_code_issued signal and POST verify.                    *)
(*                                                                         *)
(* register runs in one transaction, and the signal is sent INSIDE it: the *)
(* receiver has the code before the account exists for anybody else, and a *)
(* receiver that raises undoes the registration.  A code issued again by   *)
(* the host, and each of the three writes of verify, commits by itself; a  *)
(* worker may die between any two steps.                                   *)
(*                                                                         *)
(* An account is known by its address.  A code is any of a small set, so   *)
(* two issues may carry the same one and a mistyped code may be right.     *)
(* External: the receiver and the host, which issues a code again, deletes *)
(* accounts softly and restores them.                                      *)
(***************************************************************************)
EXTENDS Integers

CONSTANTS Mailbox, Request, Code,
          TTL,      \* VERIFICATION_OTP_TTL_MINUTES, in ticks
          MaxTime,  \* bound on the clock
          None

ASSUME TimeAssumption == TTL \in Nat \ {0} /\ MaxTime \in Nat

Time == 0..MaxTime
Issue == [m: Mailbox, code: Code, expires: 0..(MaxTime + TTL)]
Flight == [op: {"register", "reissue", "verify"},
           at: {"insert", "issue", "announce", "commit",
                "check", "mark", "clear", "audit"},
           m: Mailbox, code: Code \cup {None}, issue: Issue \cup {None}]
Proof == [code: Code, time: Time]

\* How a caller types an address: as it is stored, or with other capitals.
Spelling == {"stored", "other"}

ASSUME NoneAssumption == None \notin Code \cup Issue \cup Flight \cup Proof

VARIABLES clock,
          registered, \* addresses of committed accounts
          dead,       \* those with deleted_at
          verified,   \* those with is_verified
          otp,        \* verification_otp_* of the vault, None when NULL
          audited,    \* accounts with a VERIFY row in UserSecretAudit
          mail,       \* issues the receiver was given
          req,        \* requests in flight
          stored,     \* history: issues that were committed
          proof       \* history: the code last accepted for an account

vars ==
  <<clock, registered, dead, verified, otp, audited, mail, req, stored, proof>>

TypeOK ==
  /\ clock \in Time
  /\ registered \subseteq Mailbox
  /\ dead \subseteq registered
  /\ verified \subseteq registered
  /\ otp \in [Mailbox -> Issue \cup {None}]
  /\ audited \subseteq verified
  /\ mail \subseteq Issue
  /\ req \in [Request -> Flight \cup {None}]
  /\ stored \subseteq Issue
  /\ proof \in [Mailbox -> Proof \cup {None}]

Init ==
  /\ clock = 0
  /\ registered = {} /\ dead = {} /\ verified = {} /\ audited = {}
  /\ otp = [m \in Mailbox |-> None]
  /\ mail = {} /\ stored = {}
  /\ req = [r \in Request |-> None]
  /\ proof = [m \in Mailbox |-> None]

-----------------------------------------------------------------------------
At(r, op, at) == req[r] # None /\ req[r].op = op /\ req[r].at = at
Go(r, at) == req' = [req EXCEPT ![r].at = at]
Leave(r) == req' = [req EXCEPT ![r] = None]

Begin(r, op, at, m, code) ==
  /\ req[r] = None
  /\ req' = [req EXCEPT ![r] =
       [op |-> op, at |-> at, m |-> m, code |-> code, issue |-> None]]
  /\ UNCHANGED <<clock, registered, dead, verified, otp, audited, mail, stored, proof>>

-----------------------------------------------------------------------------
(* Both lookups, register's and verify's, go through the manager that      *)
(* hides soft-deleted accounts and compare the address as it was typed.    *)
Known(m, spelling) == m \in registered \ dead /\ spelling = "stored"

(* register: past the lookup the address is put in lower case, and the     *)
(* insert meets the unique index, which knows every account and waits for  *)
(* another insert that is not yet committed.                               *)
Register(r, m, spelling) ==
  ~Known(m, spelling) /\ Begin(r, "register", "insert", m, None)

Inserted(r) == req[r] # None /\ req[r].op = "register" /\ req[r].at # "insert"

Collides_Never(r) == FALSE
Collides(r) == req[r].m \in registered

InsertAccount(r) ==
  /\ At(r, "register", "insert")
  /\ \A o \in Request \ {r} : Inserted(o) => req[o].m # req[r].m
  /\ IF Collides(r) THEN Leave(r) ELSE Go(r, "issue")
  /\ UNCHANGED <<clock, registered, dead, verified, otp, audited, mail, stored, proof>>

\* initialize_verification_flow, called again by the host.
Reissue(r, m) == m \in registered /\ Begin(r, "reissue", "issue", m, None)

\* The code and its expiry are written, in the registration's transaction or,
\* when issued again, at once ...
NewIssue_TooLong(r, c) ==
  [m |-> req[r].m, code |-> c, expires |-> clock + 60 * TTL]
NewIssue(r, c) == [m |-> req[r].m, code |-> c, expires |-> clock + TTL]

IssueCode(r, c) ==
  LET i == NewIssue(r, c) IN
  /\ req[r] # None /\ req[r].at = "issue"
  /\ req' = [req EXCEPT ![r].at = "announce", ![r].issue = i]
  /\ IF req[r].op = "reissue"
     THEN otp' = [otp EXCEPT ![i.m] = i] /\ stored' = stored \cup {i}
     ELSE UNCHANGED <<otp, stored>>
  /\ UNCHANGED <<clock, registered, dead, verified, audited, mail, proof>>

\* ... then the signal is sent.  A receiver that raises ends the request.
Raised_Swallowed(r) == Go(r, "commit")
Raised(r) == Leave(r)

Announce(r) ==
  /\ req[r] # None /\ req[r].at = "announce"
  /\ \/ /\ mail' = mail \cup {req[r].issue}
        /\ IF req[r].op = "register" THEN Go(r, "commit") ELSE Leave(r)
     \/ /\ req[r].op = "register"
        /\ mail' \in {mail, mail \cup {req[r].issue}}
        /\ Raised(r)
  /\ UNCHANGED <<clock, registered, dead, verified, otp, audited, stored, proof>>

CommitAccount(r) ==
  LET m == req[r].m IN
  /\ At(r, "register", "commit")
  /\ registered' = registered \cup {m}
  /\ verified' = verified \ {m}
  /\ otp' = [otp EXCEPT ![m] = req[r].issue]
  /\ stored' = stored \cup {req[r].issue}
  /\ Leave(r)
  /\ UNCHANGED <<clock, dead, audited, mail, proof>>

-----------------------------------------------------------------------------
(* verify: the account is looked up by its address, then the code compared *)
(* with the vault.                                                         *)
Verify(r, m, spelling, c) ==
  Known(m, spelling) /\ Begin(r, "verify", "check", m, c)

Expired_Never(i) == FALSE
Expired(i) == clock > i.expires

Matches(r) == LET i == otp[req[r].m] IN
  i # None /\ ~Expired(i) /\ i.code = req[r].code

CheckCode(r) ==
  /\ At(r, "verify", "check")
  /\ IF Matches(r)
     THEN /\ Go(r, "mark")
          /\ proof' = [proof EXCEPT ![req[r].m] =
                         [code |-> req[r].code, time |-> clock]]
     ELSE Leave(r) /\ UNCHANGED proof
  /\ UNCHANGED <<clock, registered, dead, verified, otp, audited, mail, stored>>

\* Two saves restricted to their columns, and the audit row.
MarkVerified_NotSaved(r) == verified
MarkVerified(r) == verified \cup {req[r].m}

SaveUser(r) ==
  /\ At(r, "verify", "mark")
  /\ verified' = MarkVerified(r)
  /\ Go(r, "clear")
  /\ UNCHANGED <<clock, registered, dead, otp, audited, mail, stored, proof>>

SaveVault(r) ==
  /\ At(r, "verify", "clear")
  /\ otp' = [otp EXCEPT ![req[r].m] = None]
  /\ Go(r, "audit")
  /\ UNCHANGED <<clock, registered, dead, verified, audited, mail, stored, proof>>

Audit(r) ==
  /\ At(r, "verify", "audit")
  /\ audited' = audited \cup {req[r].m}
  /\ Leave(r)
  /\ UNCHANGED <<clock, registered, dead, verified, otp, mail, stored, proof>>

-----------------------------------------------------------------------------
\* The host, with the manager's delete() and restore().
SoftDelete(m) ==
  /\ m \in registered \ dead
  /\ dead' = dead \cup {m}
  /\ UNCHANGED <<clock, registered, verified, otp, audited, mail, req, stored, proof>>

Restore(m) ==
  /\ m \in dead
  /\ dead' = dead \ {m}
  /\ UNCHANGED <<clock, registered, verified, otp, audited, mail, req, stored, proof>>

\* The worker dies; an open transaction is rolled back.
Crash(r) ==
  /\ req[r] # None
  /\ Leave(r)
  /\ UNCHANGED <<clock, registered, dead, verified, otp, audited, mail, stored, proof>>

Tick ==
  /\ clock < MaxTime
  /\ clock' = clock + 1
  /\ UNCHANGED <<registered, dead, verified, otp, audited, mail, req, stored, proof>>

Next ==
  \/ \E r \in Request, m \in Mailbox :
        \/ Reissue(r, m)
        \/ \E spelling \in Spelling :
              \/ Register(r, m, spelling)
              \/ \E c \in Code : Verify(r, m, spelling, c)
  \/ \E m \in Mailbox : SoftDelete(m) \/ Restore(m)
  \/ \E r \in Request :
        \/ InsertAccount(r) \/ Announce(r) \/ CommitAccount(r)
        \/ CheckCode(r) \/ SaveUser(r) \/ SaveVault(r) \/ Audit(r)
        \/ Crash(r)
        \/ \E c \in Code : IssueCode(r, c)
  \/ Tick

Spec == Init /\ [][Next]_vars

-----------------------------------------------------------------------------
\* Whatever fails on the way, an account that is not verified has a code on
\* record: register commits both or neither, and verify spends the code only
\* after it has set the flag.
UnverifiedHasCode == \A m \in registered \ verified : otp[m] # None

\* "This signal carries the only readable copy": every account that exists was
\* announced with a code that was stored for it (a receiver is connected, and
\* one that raises undoes the registration).
AccountsAreAnnounced ==
  \A m \in registered : \E i \in mail \cap stored : i.m = m

\* "A verification code expires": a verified account presented a code issued
\* to it, not later than that code's expiry, also when codes were issued
\* again or another request verified it meanwhile.
VerifiedInTime ==
  \A m \in verified : /\ proof[m] # None
                      /\ \E i \in stored : /\ i.m = m
                                           /\ i.code = proof[m].code
                                           /\ proof[m].time <= i.expires

\* A second registration of an address, validated before the first one
\* committed, typed with other capitals, or while the account is deleted,
\* does not touch the account: verification is never taken away.
VerifiedForGood == [][verified \subseteq verified']_vars
=============================================================================
