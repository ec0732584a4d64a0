------------------------- MODULE Registration_proofs -------------------------
(***************************************************************************)
(* Theorems about Registration, for any addresses, codes, lifetimes and    *)
(* number of requests.                                                     *)
(*                                                                         *)
(* What a request has established must last until it uses it: that nobody  *)
(* holds the address whose insert it has made, that the code it will       *)
(* commit was announced, that the code it accepted was in time.  FlightOK  *)
(* says so of every request in flight.                                     *)
(***************************************************************************)
EXTENDS Registration, TLAPS

\* The code last accepted for m was issued to it and in time.
ProofOK(m) ==
  /\ proof[m] # None
  /\ \E i \in stored : /\ i.m = m
                       /\ i.code = proof[m].code
                       /\ proof[m].time <= i.expires

\* A registration that has made its insert.
Past(x) == x.op = "register" /\ x.at # "insert"

FlightOK(x) ==
  /\ x.op = "register" => x.at \in {"insert", "issue", "announce", "commit"}
  /\ x.op = "reissue" => x.at \in {"issue", "announce"} /\ x.m \in registered
  /\ x.op = "verify" => /\ x.at \in {"check", "mark", "clear", "audit"}
                        /\ x.m \in registered /\ x.code \in Code
  /\ Past(x) => x.m \notin registered
  /\ x.at \in {"announce", "commit"} => x.issue \in Issue /\ x.issue.m = x.m
  /\ x.at = "commit" => x.issue \in mail
  /\ x.op = "reissue" /\ x.at = "announce" => x.issue \in stored
  /\ x.at \in {"mark", "clear", "audit"} => ProofOK(x.m)
  /\ x.at \in {"clear", "audit"} => x.m \in verified

RequestsOK ==
  /\ \A r \in Request : req[r] # None => FlightOK(req[r])
  /\ \A r, o \in Request :
       r # o /\ req[r] # None /\ req[o] # None /\ Past(req[r]) /\ Past(req[o])
         => req[r].m # req[o].m

AccountsOK ==
  /\ UnverifiedHasCode
  /\ AccountsAreAnnounced
  /\ \A m \in verified : ProofOK(m)
  /\ \A m \in Mailbox : otp[m] # None => otp[m] \in stored /\ otp[m].m = m

IInv == TypeOK /\ AccountsOK /\ RequestsOK

LEMMA InitInvariant == Init => IInv
<1> SUFFICES ASSUME Init PROVE IInv
  OBVIOUS
<1>1. TypeOK
  BY TimeAssumption DEF Init, TypeOK, Time
<1>2. AccountsOK /\ RequestsOK
  BY DEF Init, AccountsOK, RequestsOK, UnverifiedHasCode, AccountsAreAnnounced
<1> QED
  BY <1>1, <1>2 DEF IInv

-----------------------------------------------------------------------------
\* What the requests have established lasts while the accounts, the flags, the
\* mail and the issues on record only grow.
LEMMA RequestsAdvance ==
  ASSUME IInv, NEW r \in Request, NEW x \in Flight \cup {None},
         req' = [req EXCEPT ![r] = x],
         x # None => FlightOK(x)',
         \A o \in Request \ {r} : x # None /\ Past(x) /\ req[o] # None /\ Past(req[o])
                                    => req[o].m # x.m,
         registered \subseteq registered', verified \subseteq verified',
         mail \subseteq mail', stored \subseteq stored',
         \A o \in Request \ {r} : req[o] # None /\ Past(req[o])
                                    => req[o].m \notin registered',
         \A m \in Mailbox : ProofOK(m) => ProofOK(m)'
  PROVE  RequestsOK'
<1>1. \A s \in Request : req'[s] = IF s = r THEN x ELSE req[s]
  BY DEF IInv, TypeOK
<1>2. ASSUME NEW s \in Request, req'[s] # None PROVE FlightOK(req[s])'
  <2>1. CASE s = r
    <3>1. FlightOK(x)' /\ req'[s] = x
      BY <1>1, <1>2, <2>1
    <3> QED
      BY <3>1 DEF FlightOK, ProofOK, Past
  <2>2. CASE s # r
    <3> DEFINE y == req[s]
    <3>1. req'[s] = y /\ y # None /\ y \in Flight
      BY <1>1, <1>2, <2>2 DEF IInv, TypeOK
    <3>2. FlightOK(y)
      BY <3>1 DEF IInv, RequestsOK
    <3>3. y.m \in Mailbox
      BY <3>1 DEF Flight
    <3>4. Past(y) => y.m \notin registered'
      BY <2>2, <3>1
    <3>5. y.at \in {"mark", "clear", "audit"} => ProofOK(y.m)'
      <4>1. y.at \in {"mark", "clear", "audit"} => ProofOK(y.m)
        BY <3>2 DEF FlightOK
      <4>2. \A m \in Mailbox : ProofOK(m) =>
              /\ proof'[m] # None
              /\ \E i \in stored' : /\ i.m = m
                                    /\ i.code = proof'[m].code
                                    /\ proof'[m].time <= i.expires
        BY DEF ProofOK
      <4> QED
        BY <3>1, <3>3, <4>1, <4>2 DEF ProofOK
    <3> QED
      BY <3>1, <3>2, <3>4, <3>5 DEF FlightOK, Past
  <2> QED
    BY <2>1, <2>2
<1>3. ASSUME NEW s \in Request, NEW o \in Request, s # o,
             req'[s] # None, req'[o] # None, Past(req'[s]), Past(req'[o])
      PROVE  req'[s].m # req'[o].m
  BY <1>1, <1>3 DEF IInv, RequestsOK
<1> QED
  BY <1>2, <1>3 DEF RequestsOK, Past

\* A request moves and nothing else does.
LEMMA QuietStep ==
  ASSUME IInv, NEW r \in Request, NEW x \in Flight \cup {None},
         req' = [req EXCEPT ![r] = x],
         x # None => FlightOK(x),
         \A o \in Request \ {r} : x # None /\ Past(x) /\ req[o] # None /\ Past(req[o])
                                    => req[o].m # x.m,
         UNCHANGED <<clock, registered, dead, verified, otp, audited, mail, stored, proof>>
  PROVE  IInv'
<1>1. TypeOK'
  BY DEF IInv, TypeOK
<1>2. AccountsOK'
  BY DEF IInv, AccountsOK, UnverifiedHasCode, AccountsAreAnnounced, ProofOK
<1>3. x # None => FlightOK(x)'
  BY DEF FlightOK, ProofOK, Past
<1>4. \A m \in Mailbox : ProofOK(m) => ProofOK(m)'
  BY DEF ProofOK
<1>5. \A o \in Request \ {r} : req[o] # None /\ Past(req[o])
        => req[o].m \notin registered'
  BY DEF IInv, RequestsOK, FlightOK
<1>6. RequestsOK'
  <2>1. registered \subseteq registered' /\ verified \subseteq verified'
        /\ mail \subseteq mail' /\ stored \subseteq stored'
    OBVIOUS
  <2> QED
    BY <1>3, <1>4, <1>5, <2>1, RequestsAdvance
<1> QED
  BY <1>1, <1>2, <1>6 DEF IInv

LEMMA LeaveKeeps ==
  ASSUME IInv, NEW r \in Request, Leave(r),
         UNCHANGED <<clock, registered, dead, verified, otp, audited, mail, stored, proof>>
  PROVE  IInv'
  BY QuietStep DEF Leave

LEMMA InsertAccountKeeps ==
  ASSUME IInv, NEW r \in Request, InsertAccount(r)
  PROVE  IInv'
<1>1. CASE Collides(r)
  BY <1>1, LeaveKeeps DEF InsertAccount
<1>2. CASE ~Collides(r)
  <2>1. req[r] \in Flight /\ req[r] # None /\ req[r].op = "register"
        /\ FlightOK(req[r])
    BY DEF IInv, TypeOK, RequestsOK, InsertAccount, At
  <2>2. PICK x \in Flight : x = [req[r] EXCEPT !.at = "issue"]
    BY <2>1 DEF Flight
  <2>3. req' = [req EXCEPT ![r] = x] /\ x.m = req[r].m
        /\ x.at = "issue" /\ x.op = "register"
    BY <1>2, <2>1, <2>2 DEF InsertAccount, Go, Flight
  <2>4. FlightOK(x)
    BY <1>2, <2>3 DEF FlightOK, Past, Collides
  <2>5. \A o \in Request \ {r} : x # None /\ Past(x) /\ req[o] # None /\ Past(req[o])
                                   => req[o].m # x.m
    BY <2>3 DEF InsertAccount, Inserted, Past
  <2>6. UNCHANGED <<clock, registered, dead, verified, otp, audited, mail, stored, proof>>
    BY DEF InsertAccount
  <2>7. x \in Flight \cup {None}
    OBVIOUS
  <2> QED
    BY <2>3, <2>4, <2>5, <2>6, <2>7, QuietStep
<1> QED
  BY <1>1, <1>2

LEMMA IssueCodeKeeps ==
  ASSUME IInv, NEW r \in Request, NEW c \in Code, IssueCode(r, c)
  PROVE  IInv'
<1>1. /\ req[r] \in Flight /\ req[r] # None /\ req[r].at = "issue"
      /\ FlightOK(req[r])
  BY DEF IInv, TypeOK, RequestsOK, IssueCode
<1>2. PICK i \in Issue : i = NewIssue(r, c) /\ i.m = req[r].m
  <2>1. req[r].m \in Mailbox /\ clock + TTL \in 0..(MaxTime + TTL)
    BY <1>1, TimeAssumption DEF IInv, TypeOK, Time, Flight
  <2>2. NewIssue(r, c) \in Issue /\ NewIssue(r, c).m = req[r].m
    BY <2>1 DEF NewIssue, Issue
  <2> QED
    BY <2>2
<1>3. PICK x \in Flight : /\ x = [req[r] EXCEPT !.at = "announce", !.issue = i]
                          /\ x.at = "announce" /\ x.issue = i
                          /\ x.op = req[r].op /\ x.m = req[r].m
  <2> DEFINE y == [req[r] EXCEPT !.at = "announce", !.issue = i]
  <2>1. /\ y \in Flight /\ y.at = "announce" /\ y.issue = i
        /\ y.op = req[r].op /\ y.m = req[r].m
    BY <1>1, <1>2 DEF Flight
  <2> QED
    BY <2>1
<1>4. req' = [req EXCEPT ![r] = x] /\ i # None
  BY <1>2, <1>3, NoneAssumption DEF IssueCode
<1>5. req[r].op \in {"register", "reissue"}
  BY <1>1 DEF FlightOK, Flight
<1>6. Past(req[r]) <=> Past(x)
  BY <1>1, <1>3 DEF Past
<1>7. \A o \in Request \ {r} : x # None /\ Past(x) /\ req[o] # None /\ Past(req[o])
                                => req[o].m # x.m
  BY <1>1, <1>3, <1>6 DEF IInv, RequestsOK
<1>10. x \in Flight \cup {None}
  OBVIOUS
<1>8. CASE req[r].op = "register"
  <2>1. UNCHANGED <<clock, registered, dead, verified, otp, audited, mail, stored, proof>>
    BY <1>8 DEF IssueCode
  <2>2. FlightOK(x)
    BY <1>1, <1>2, <1>3, <1>6, <1>8 DEF FlightOK
  <2> QED
    BY <1>4, <1>7, <1>10, <2>1, <2>2, QuietStep
<1>9. CASE req[r].op = "reissue"
  <2>1. /\ otp' = [otp EXCEPT ![i.m] = i] /\ stored' = stored \cup {i}
        /\ UNCHANGED <<clock, registered, dead, verified, audited, mail, proof>>
    BY <1>2, <1>9 DEF IssueCode
  <2>2. TypeOK'
    BY <1>2, <1>3, <1>4, <2>1 DEF IInv, TypeOK
  <2>3. \A m \in Mailbox : otp'[m] = IF m = i.m THEN i ELSE otp[m]
    BY <2>1 DEF IInv, TypeOK
  <2>4. \A m : ProofOK(m) => ProofOK(m)'
    BY <2>1 DEF ProofOK
  <2>5. AccountsOK'
    <3>1. UnverifiedHasCode'
      BY <1>2, <1>4, <2>1, <2>3 DEF IInv, AccountsOK, UnverifiedHasCode, TypeOK
    <3>2. AccountsAreAnnounced'
      BY <2>1 DEF IInv, AccountsOK, AccountsAreAnnounced
    <3>3. \A m \in Mailbox : otp'[m] # None => otp'[m] \in stored' /\ otp'[m].m = m
      BY <1>2, <2>1, <2>3 DEF IInv, AccountsOK
    <3>4. \A m \in verified' : ProofOK(m)'
      BY <2>1, <2>4 DEF IInv, AccountsOK
    <3> QED
      BY <3>1, <3>2, <3>3, <3>4 DEF AccountsOK
  <2>6. FlightOK(x)'
    <3>1. req[r].m \in registered
      BY <1>1, <1>9 DEF FlightOK
    <3> QED
      BY <1>2, <1>3, <1>9, <2>1, <3>1 DEF FlightOK, Past
  <2>7. RequestsOK'
    <3>1. \A o \in Request \ {r} : req[o] # None /\ Past(req[o])
            => req[o].m \notin registered'
      BY <2>1 DEF IInv, RequestsOK, FlightOK
    <3>2. registered \subseteq registered' /\ verified \subseteq verified'
          /\ mail \subseteq mail' /\ stored \subseteq stored'
      BY <2>1
    <3>3. \A m \in Mailbox : ProofOK(m) => ProofOK(m)'
      BY <2>4
    <3> QED
      BY <1>4, <1>7, <1>10, <2>6, <3>1, <3>2, <3>3, RequestsAdvance
  <2> QED
    BY <2>2, <2>5, <2>7 DEF IInv
<1> QED
  BY <1>5, <1>8, <1>9

\* Go changes the place a request has reached and nothing else of it.
LEMMA GoMoves ==
  ASSUME IInv, NEW r \in Request, req[r] # None,
         NEW at \in {"issue", "announce", "commit", "mark", "clear", "audit"},
         Go(r, at)
  PROVE  \E x \in Flight \cup {None} :
           /\ x # None /\ req' = [req EXCEPT ![r] = x]
           /\ x.at = at /\ x.op = req[r].op /\ x.m = req[r].m
           /\ x.code = req[r].code /\ x.issue = req[r].issue
<1> DEFINE y == [req[r] EXCEPT !.at = at]
<1>1. req[r] \in Flight
  BY DEF IInv, TypeOK
<1>2. /\ y \in Flight /\ y.at = at /\ y.op = req[r].op /\ y.m = req[r].m
      /\ y.code = req[r].code /\ y.issue = req[r].issue
  BY <1>1 DEF Flight
<1>3. y # None
  BY <1>2, NoneAssumption
<1> QED
  BY <1>2, <1>3 DEF Go

\* The mailbox fills and the request that announced its code moves on or ends.
LEMMA AnnounceKeeps ==
  ASSUME IInv, NEW r \in Request, Announce(r)
  PROVE  IInv'
<1> DEFINE x0 == req[r]
<1>1. x0 \in Flight /\ x0 # None /\ x0.at = "announce" /\ FlightOK(x0)
  BY DEF IInv, TypeOK, RequestsOK, Announce
<1>2. x0.issue \in Issue /\ x0.issue.m = x0.m
  BY <1>1 DEF FlightOK
<1>3. /\ mail \subseteq mail' /\ mail' \subseteq Issue
      /\ UNCHANGED <<clock, registered, dead, verified, otp, audited, stored, proof>>
  BY <1>2 DEF Announce, IInv, TypeOK
<1>4. \/ Leave(r)
      \/ x0.op = "register" /\ Go(r, "commit") /\ x0.issue \in mail'
  BY DEF Announce, Raised
<1>5. PICK x \in Flight \cup {None} :
        /\ req' = [req EXCEPT ![r] = x]
        /\ x # None => /\ x.at = "commit" /\ x.op = "register" /\ x.m = x0.m
                       /\ x.issue = x0.issue /\ x0.op = "register" /\ x.issue \in mail'
  <2>1. CASE Leave(r)
    BY <2>1 DEF Leave
  <2>2. CASE x0.op = "register" /\ Go(r, "commit") /\ x0.issue \in mail'
    BY <1>1, <2>2, GoMoves
  <2> QED
    BY <1>4, <2>1, <2>2
<1>6. x # None => FlightOK(x)'
  BY <1>1, <1>2, <1>3, <1>5 DEF FlightOK, Past
<1>7. \A o \in Request \ {r} : x # None /\ Past(x) /\ req[o] # None /\ Past(req[o])
                                 => req[o].m # x.m
  BY <1>1, <1>5 DEF IInv, RequestsOK, Past
<1>8. \A o \in Request \ {r} : req[o] # None /\ Past(req[o])
                                 => req[o].m \notin registered'
  BY <1>3 DEF IInv, RequestsOK, FlightOK
<1>9. \A m \in Mailbox : ProofOK(m) => ProofOK(m)'
  BY <1>3 DEF ProofOK
<1>10. RequestsOK'
  <2>1. registered \subseteq registered' /\ verified \subseteq verified'
        /\ stored \subseteq stored'
    BY <1>3
  <2> QED
    BY <1>3, <1>5, <1>6, <1>7, <1>8, <1>9, <2>1, RequestsAdvance
<1>11. AccountsOK'
  BY <1>3 DEF IInv, AccountsOK, UnverifiedHasCode, AccountsAreAnnounced, ProofOK
<1>12. TypeOK'
  BY <1>3, <1>5 DEF IInv, TypeOK
<1> QED
  BY <1>10, <1>11, <1>12 DEF IInv

\* The registration commits: the account exists, unverified and with its code.
LEMMA CommitAccountKeeps ==
  ASSUME IInv, NEW r \in Request, CommitAccount(r)
  PROVE  IInv'
<1> DEFINE n == req[r].m
           i == req[r].issue
<1>1. /\ req[r] \in Flight /\ req[r] # None /\ req[r].at = "commit"
      /\ req[r].op = "register" /\ FlightOK(req[r])
  BY DEF IInv, TypeOK, RequestsOK, CommitAccount, At
<1>2. n \in Mailbox /\ n \notin registered /\ i \in Issue /\ i.m = n /\ i \in mail
      /\ i # None
  BY <1>1, NoneAssumption DEF FlightOK, Past, Flight
<1>3. verified' = verified
  BY <1>2 DEF CommitAccount, IInv, TypeOK
<1>4. /\ registered' = registered \cup {n} /\ stored' = stored \cup {i}
      /\ otp' = [otp EXCEPT ![n] = i] /\ req' = [req EXCEPT ![r] = None]
      /\ UNCHANGED <<clock, dead, audited, mail, proof>>
  BY DEF CommitAccount, Leave
<1>5. TypeOK'
  BY <1>2, <1>3, <1>4 DEF IInv, TypeOK
<1>6. \A m \in Mailbox : otp'[m] = IF m = n THEN i ELSE otp[m]
  BY <1>4 DEF IInv, TypeOK
<1>7. \A m \in Mailbox : ProofOK(m) => ProofOK(m)'
  BY <1>4 DEF ProofOK
<1>8. AccountsOK'
  <2>1. UnverifiedHasCode'
    BY <1>2, <1>3, <1>4, <1>6 DEF IInv, AccountsOK, UnverifiedHasCode, TypeOK
  <2>2. AccountsAreAnnounced'
    <3> SUFFICES ASSUME NEW m \in registered'
                 PROVE  \E j \in mail' \cap stored' : j.m = m
      BY DEF AccountsAreAnnounced
    <3>1. CASE m = n
      BY <1>2, <1>4, <3>1
    <3>2. CASE m # n
      BY <1>4, <3>2 DEF IInv, AccountsOK, AccountsAreAnnounced
    <3> QED
      BY <3>1, <3>2
  <2>3. \A m \in verified' : ProofOK(m)'
    BY <1>3, <1>7 DEF IInv, AccountsOK, TypeOK
  <2>4. \A m \in Mailbox : otp'[m] # None => otp'[m] \in stored' /\ otp'[m].m = m
    BY <1>2, <1>4, <1>6 DEF IInv, AccountsOK
  <2> QED
    BY <2>1, <2>2, <2>3, <2>4 DEF AccountsOK
<1>9. RequestsOK'
  <2>1. \A o \in Request \ {r} : req[o] # None /\ Past(req[o])
                                   => req[o].m \notin registered'
    <3> SUFFICES ASSUME NEW o \in Request \ {r}, req[o] # None, Past(req[o])
                 PROVE  req[o].m \notin registered'
      OBVIOUS
    <3>1. req[o].m \notin registered
      BY DEF IInv, RequestsOK, FlightOK
    <3>2. Past(req[r])
      BY <1>1 DEF Past
    <3>3. req[o].m # n
      BY <1>1, <3>2 DEF IInv, RequestsOK
    <3> QED
      BY <1>4, <3>1, <3>3
  <2>2. registered \subseteq registered' /\ verified \subseteq verified'
        /\ mail \subseteq mail' /\ stored \subseteq stored'
    BY <1>3, <1>4
  <2>3. None \in Flight \cup {None} /\ req' = [req EXCEPT ![r] = None]
    BY <1>4
  <2> QED
    BY <1>7, <2>1, <2>2, <2>3, RequestsAdvance
<1> QED
  BY <1>5, <1>8, <1>9 DEF IInv

-----------------------------------------------------------------------------
\* The code presented is compared with the vault, and what it proves is noted.
LEMMA CheckCodeKeeps ==
  ASSUME IInv, NEW r \in Request, CheckCode(r)
  PROVE  IInv'
<1>1. CASE ~Matches(r)
  BY <1>1, LeaveKeeps DEF CheckCode
<1>2. CASE Matches(r)
  <2>1. /\ req[r] \in Flight /\ req[r] # None /\ req[r].at = "check"
        /\ req[r].op = "verify" /\ FlightOK(req[r])
    BY DEF IInv, TypeOK, RequestsOK, CheckCode, At
  <2>2. PICK n \in Mailbox : n = req[r].m /\ n \in registered /\ req[r].code \in Code
    BY <2>1 DEF FlightOK, Flight
  <2>3. PICK i \in stored : i.m = n /\ i.code = req[r].code /\ clock <= i.expires
    <3> DEFINE j == otp[n]
    <3>1. j # None /\ ~(clock > j.expires) /\ j.code = req[r].code
      BY <1>2, <2>2 DEF Matches, Expired
    <3>2. j \in Issue /\ j \in stored /\ j.m = n
      BY <2>2, <3>1 DEF IInv, TypeOK, AccountsOK
    <3>3. clock \in Int /\ j.expires \in Int
      BY <3>2, TimeAssumption DEF IInv, TypeOK, Time, Issue
    <3> QED
      BY <3>1, <3>2, <3>3
  <2>4. /\ proof' = [proof EXCEPT ![n] = [code |-> req[r].code, time |-> clock]]
        /\ Go(r, "mark")
        /\ UNCHANGED <<clock, registered, dead, verified, otp, audited, mail, stored>>
    BY <1>2, <2>2 DEF CheckCode
  <2>5. [code |-> req[r].code, time |-> clock] \in Proof
    BY <2>2 DEF IInv, TypeOK, Proof
  <2>6. [code |-> req[r].code, time |-> clock] # None
    BY <2>5, NoneAssumption
  <2>7. ProofOK(n)'
    <3>1. proof'[n] = [code |-> req[r].code, time |-> clock]
      BY <2>2, <2>4 DEF IInv, TypeOK
    <3>2. proof'[n] # None /\ proof'[n].code = i.code /\ proof'[n].time <= i.expires
      BY <2>3, <2>6, <3>1
    <3>3. i \in stored' /\ i.m = n
      BY <2>3, <2>4
    <3> QED
      BY <3>2, <3>3 DEF ProofOK
  <2>8. \A m \in Mailbox : ProofOK(m) => ProofOK(m)'
    <3> SUFFICES ASSUME NEW m \in Mailbox, ProofOK(m) PROVE ProofOK(m)'
      OBVIOUS
    <3>1. CASE m = n
      BY <2>7, <3>1 DEF ProofOK
    <3>2. CASE m # n
      <4>1. proof'[m] = proof[m]
        BY <2>4, <3>2 DEF IInv, TypeOK
      <4> QED
        BY <2>4, <4>1 DEF ProofOK
    <3> QED
      BY <3>1, <3>2
  <2>9. PICK x \in Flight \cup {None} :
          /\ x # None /\ req' = [req EXCEPT ![r] = x]
          /\ x.at = "mark" /\ x.op = req[r].op /\ x.m = n
          /\ x.code = req[r].code /\ x.issue = req[r].issue
    BY <2>1, <2>2, <2>4, GoMoves
  <2>10. FlightOK(x)'
    <3>1. ProofOK(x.m)'
      BY <2>7, <2>9 DEF ProofOK
    <3> QED
      BY <2>1, <2>2, <2>4, <2>9, <3>1 DEF FlightOK, Past
  <2>11. TypeOK'
    BY <2>4, <2>5, <2>9 DEF IInv, TypeOK
  <2>12. AccountsOK'
    BY <2>4, <2>8 DEF IInv, AccountsOK, UnverifiedHasCode, AccountsAreAnnounced, TypeOK
  <2>13. RequestsOK'
    <3>1. \A o \in Request \ {r} : req[o] # None /\ Past(req[o])
                                     => req[o].m \notin registered'
      BY <2>4 DEF IInv, RequestsOK, FlightOK
    <3>2. registered \subseteq registered' /\ verified \subseteq verified'
          /\ mail \subseteq mail' /\ stored \subseteq stored'
      BY <2>4
    <3>3. \A o \in Request \ {r} : x # None /\ Past(x) /\ req[o] # None /\ Past(req[o])
                                     => req[o].m # x.m
      BY <2>1, <2>9 DEF Past
    <3> QED
      BY <2>8, <2>9, <2>10, <3>1, <3>2, <3>3, RequestsAdvance
  <2> QED
    BY <2>11, <2>12, <2>13 DEF IInv
<1> QED
  BY <1>1, <1>2

\* The flag, saved by a request whose code was accepted.
LEMMA SaveUserKeeps ==
  ASSUME IInv, NEW r \in Request, SaveUser(r)
  PROVE  IInv'
<1>1. /\ req[r] \in Flight /\ req[r] # None /\ req[r].at = "mark"
      /\ req[r].op = "verify" /\ FlightOK(req[r])
  BY DEF IInv, TypeOK, RequestsOK, SaveUser, At
<1>2. PICK n \in Mailbox : n = req[r].m /\ n \in registered /\ ProofOK(n)
  BY <1>1 DEF FlightOK, Flight
<1>3. /\ verified' = verified \cup {n} /\ Go(r, "clear")
      /\ UNCHANGED <<clock, registered, dead, otp, audited, mail, stored, proof>>
  BY <1>2 DEF SaveUser, MarkVerified
<1>4. PICK x \in Flight \cup {None} :
        /\ x # None /\ req' = [req EXCEPT ![r] = x]
        /\ x.at = "clear" /\ x.op = req[r].op /\ x.m = n
        /\ x.code = req[r].code /\ x.issue = req[r].issue
  BY <1>1, <1>2, <1>3, GoMoves
<1>5. \A m \in Mailbox : ProofOK(m) => ProofOK(m)'
  BY <1>3 DEF ProofOK
<1>6. FlightOK(x)'
  BY <1>1, <1>2, <1>3, <1>4 DEF FlightOK, Past, ProofOK
<1>7. TypeOK'
  BY <1>2, <1>3, <1>4 DEF IInv, TypeOK
<1>8. AccountsOK'
  <2>1. UnverifiedHasCode'
    BY <1>3 DEF IInv, AccountsOK, UnverifiedHasCode
  <2>2. AccountsAreAnnounced'
    BY <1>3 DEF IInv, AccountsOK, AccountsAreAnnounced
  <2>3. \A m \in verified' : ProofOK(m)'
    BY <1>2, <1>3, <1>5 DEF IInv, AccountsOK, TypeOK
  <2>4. \A m \in Mailbox : otp'[m] # None => otp'[m] \in stored' /\ otp'[m].m = m
    BY <1>3 DEF IInv, AccountsOK
  <2> QED
    BY <2>1, <2>2, <2>3, <2>4 DEF AccountsOK
<1>9. RequestsOK'
  <2>1. \A o \in Request \ {r} : req[o] # None /\ Past(req[o])
                                   => req[o].m \notin registered'
    BY <1>3 DEF IInv, RequestsOK, FlightOK
  <2>2. registered \subseteq registered' /\ verified \subseteq verified'
        /\ mail \subseteq mail' /\ stored \subseteq stored'
    BY <1>3
  <2>3. \A o \in Request \ {r} : x # None /\ Past(x) /\ req[o] # None /\ Past(req[o])
                                   => req[o].m # x.m
    BY <1>1, <1>4 DEF Past
  <2> QED
    BY <1>4, <1>5, <1>6, <2>1, <2>2, <2>3, RequestsAdvance
<1> QED
  BY <1>7, <1>8, <1>9 DEF IInv

\* The spent code, cleared after the flag: the account needs it no more.
LEMMA SaveVaultKeeps ==
  ASSUME IInv, NEW r \in Request, SaveVault(r)
  PROVE  IInv'
<1>1. /\ req[r] \in Flight /\ req[r] # None /\ req[r].at = "clear"
      /\ req[r].op = "verify" /\ FlightOK(req[r])
  BY DEF IInv, TypeOK, RequestsOK, SaveVault, At
<1>2. PICK n \in Mailbox : n = req[r].m /\ n \in registered /\ n \in verified /\ ProofOK(n)
  BY <1>1 DEF FlightOK, Flight
<1>3. /\ otp' = [otp EXCEPT ![n] = None] /\ Go(r, "audit")
      /\ UNCHANGED <<clock, registered, dead, verified, audited, mail, stored, proof>>
  BY <1>2 DEF SaveVault
<1>4. PICK x \in Flight \cup {None} :
        /\ x # None /\ req' = [req EXCEPT ![r] = x]
        /\ x.at = "audit" /\ x.op = req[r].op /\ x.m = n
        /\ x.code = req[r].code /\ x.issue = req[r].issue
  BY <1>1, <1>2, <1>3, GoMoves
<1>5. \A m \in Mailbox : ProofOK(m) => ProofOK(m)'
  BY <1>3 DEF ProofOK
<1>6. FlightOK(x)'
  BY <1>1, <1>2, <1>3, <1>4 DEF FlightOK, Past, ProofOK
<1>7. TypeOK'
  BY <1>2, <1>3, <1>4 DEF IInv, TypeOK
<1>8. \A m \in Mailbox : otp'[m] = IF m = n THEN None ELSE otp[m]
  BY <1>3 DEF IInv, TypeOK
<1>9. AccountsOK'
  <2>1. UnverifiedHasCode'
    BY <1>2, <1>3, <1>8 DEF IInv, AccountsOK, UnverifiedHasCode, TypeOK
  <2>2. AccountsAreAnnounced'
    BY <1>3 DEF IInv, AccountsOK, AccountsAreAnnounced
  <2>3. \A m \in verified' : ProofOK(m)'
    BY <1>3, <1>5 DEF IInv, AccountsOK, TypeOK
  <2>4. \A m \in Mailbox : otp'[m] # None => otp'[m] \in stored' /\ otp'[m].m = m
    BY <1>3, <1>8 DEF IInv, AccountsOK
  <2> QED
    BY <2>1, <2>2, <2>3, <2>4 DEF AccountsOK
<1>10. RequestsOK'
  <2>1. \A o \in Request \ {r} : req[o] # None /\ Past(req[o])
                                   => req[o].m \notin registered'
    BY <1>3 DEF IInv, RequestsOK, FlightOK
  <2>2. registered \subseteq registered' /\ verified \subseteq verified'
        /\ mail \subseteq mail' /\ stored \subseteq stored'
    BY <1>3
  <2>3. \A o \in Request \ {r} : x # None /\ Past(x) /\ req[o] # None /\ Past(req[o])
                                   => req[o].m # x.m
    BY <1>1, <1>4 DEF Past
  <2> QED
    BY <1>4, <1>5, <1>6, <2>1, <2>2, <2>3, RequestsAdvance
<1> QED
  BY <1>7, <1>9, <1>10 DEF IInv

\* The audit row of a verification, last of the three writes.
LEMMA AuditKeeps ==
  ASSUME IInv, NEW r \in Request, Audit(r)
  PROVE  IInv'
<1>1. /\ req[r] \in Flight /\ req[r] # None /\ req[r].at = "audit" /\ FlightOK(req[r])
  BY DEF IInv, TypeOK, RequestsOK, Audit, At
<1>2. req[r].m \in verified
  BY <1>1 DEF FlightOK
<1>3. /\ audited' = audited \cup {req[r].m} /\ req' = [req EXCEPT ![r] = None]
      /\ UNCHANGED <<clock, registered, dead, verified, otp, mail, stored, proof>>
  BY DEF Audit, Leave
<1>4. TypeOK'
  BY <1>2, <1>3 DEF IInv, TypeOK
<1>5. AccountsOK'
  BY <1>3 DEF IInv, AccountsOK, UnverifiedHasCode, AccountsAreAnnounced, ProofOK
<1>6. RequestsOK'
  <2>1. \A o \in Request \ {r} : req[o] # None /\ Past(req[o])
                                   => req[o].m \notin registered'
    BY <1>3 DEF IInv, RequestsOK, FlightOK
  <2>2. registered \subseteq registered' /\ verified \subseteq verified'
        /\ mail \subseteq mail' /\ stored \subseteq stored'
    BY <1>3
  <2>3. \A m \in Mailbox : ProofOK(m) => ProofOK(m)'
    BY <1>3 DEF ProofOK
  <2>4. None \in Flight \cup {None} /\ req' = [req EXCEPT ![r] = None]
    BY <1>3
  <2> QED
    BY <2>1, <2>2, <2>3, <2>4, RequestsAdvance
<1> QED
  BY <1>4, <1>5, <1>6 DEF IInv

-----------------------------------------------------------------------------
\* What no request reads: the clock, and which accounts are deleted.
LEMMA ElsewhereKeeps ==
  ASSUME IInv, clock' \in Time, dead' \subseteq registered,
         UNCHANGED <<registered, verified, otp, audited, mail, req, stored, proof>>
  PROVE  IInv'
<1>1. TypeOK'
  BY DEF IInv, TypeOK
<1>2. AccountsOK'
  BY DEF IInv, AccountsOK, UnverifiedHasCode, AccountsAreAnnounced, ProofOK
<1>3. RequestsOK'
  BY DEF IInv, RequestsOK, FlightOK, ProofOK, Past
<1> QED
  BY <1>1, <1>2, <1>3 DEF IInv

LEMMA NextInvariant == IInv /\ [Next]_vars => IInv'
<1> SUFFICES ASSUME IInv, [Next]_vars PROVE IInv'
  OBVIOUS
<1>1. ASSUME NEW r \in Request, NEW m \in Mailbox, Reissue(r, m) PROVE IInv'
  <2>1. m \in registered /\ Begin(r, "reissue", "issue", m, None)
    BY <1>1 DEF Reissue
  <2> DEFINE y == [op |-> "reissue", at |-> "issue", m |-> m, code |-> None,
                   issue |-> None]
  <2>2. y \in Flight /\ FlightOK(y) /\ ~Past(y)
    BY <2>1 DEF Flight, FlightOK, Past
  <2>3. req' = [req EXCEPT ![r] = y] /\ y \in Flight \cup {None}
    BY <2>1, <2>2 DEF Begin
  <2>4. UNCHANGED <<clock, registered, dead, verified, otp, audited, mail, stored, proof>>
    BY <2>1 DEF Begin
  <2> HIDE DEF y
  <2> QED
    BY <2>2, <2>3, <2>4, QuietStep
<1>2. ASSUME NEW r \in Request, NEW m \in Mailbox, NEW spelling \in Spelling,
             Register(r, m, spelling)
      PROVE  IInv'
  <2>1. Begin(r, "register", "insert", m, None)
    BY <1>2 DEF Register
  <2> DEFINE y == [op |-> "register", at |-> "insert", m |-> m, code |-> None,
                   issue |-> None]
  <2>2. y \in Flight /\ FlightOK(y) /\ ~Past(y)
    BY DEF Flight, FlightOK, Past
  <2>3. req' = [req EXCEPT ![r] = y] /\ y \in Flight \cup {None}
    BY <2>1, <2>2 DEF Begin
  <2>4. UNCHANGED <<clock, registered, dead, verified, otp, audited, mail, stored, proof>>
    BY <2>1 DEF Begin
  <2> HIDE DEF y
  <2> QED
    BY <2>2, <2>3, <2>4, QuietStep
<1>3. ASSUME NEW r \in Request, NEW m \in Mailbox, NEW spelling \in Spelling,
             NEW c \in Code, Verify(r, m, spelling, c)
      PROVE  IInv'
  <2>1. m \in registered /\ Begin(r, "verify", "check", m, c)
    BY <1>3 DEF Verify, Known
  <2> DEFINE y == [op |-> "verify", at |-> "check", m |-> m, code |-> c,
                   issue |-> None]
  <2>2. y \in Flight /\ FlightOK(y) /\ ~Past(y)
    BY <2>1 DEF Flight, FlightOK, Past
  <2>3. req' = [req EXCEPT ![r] = y] /\ y \in Flight \cup {None}
    BY <2>1, <2>2 DEF Begin
  <2>4. UNCHANGED <<clock, registered, dead, verified, otp, audited, mail, stored, proof>>
    BY <2>1 DEF Begin
  <2> HIDE DEF y
  <2> QED
    BY <2>2, <2>3, <2>4, QuietStep
<1>4. ASSUME NEW m \in Mailbox, SoftDelete(m) \/ Restore(m) PROVE IInv'
  <2>1. dead' \subseteq registered
    BY <1>4 DEF SoftDelete, Restore, IInv, TypeOK
  <2>2. UNCHANGED <<clock, registered, verified, otp, audited, mail, req, stored, proof>>
    BY <1>4 DEF SoftDelete, Restore
  <2> QED
    BY <2>1, <2>2, ElsewhereKeeps DEF IInv, TypeOK
<1>5. ASSUME NEW r \in Request, Crash(r) PROVE IInv'
  BY <1>5, LeaveKeeps DEF Crash
<1>6. CASE Tick
  <2>1. clock' \in Time
    BY <1>6, TimeAssumption DEF Tick, IInv, TypeOK, Time
  <2>2. dead' \subseteq registered
        /\ UNCHANGED <<registered, verified, otp, audited, mail, req, stored, proof>>
    BY <1>6 DEF Tick, IInv, TypeOK
  <2> QED
    BY <2>1, <2>2, ElsewhereKeeps
<1>7. CASE UNCHANGED vars
  <2>1. clock' \in Time /\ dead' \subseteq registered
        /\ UNCHANGED <<registered, verified, otp, audited, mail, req, stored, proof>>
    BY <1>7 DEF vars, IInv, TypeOK
  <2> QED
    BY <2>1, ElsewhereKeeps
<1> QED
  BY <1>1, <1>2, <1>3, <1>4, <1>5, <1>6, <1>7, InsertAccountKeeps, IssueCodeKeeps,
     AnnounceKeeps, CommitAccountKeeps, CheckCodeKeeps, SaveUserKeeps, SaveVaultKeeps,
     AuditKeeps DEF Next

LEMMA Invariance == Spec => []IInv
<1> QED
  BY InitInvariant, NextInvariant, PTL DEF Spec

-----------------------------------------------------------------------------
\* The accounts, their codes and the requests stay in their ranges; in
\* particular a VERIFY row belongs to an account that is verified.
THEOREM TypeInvariant == Spec => []TypeOK
<1>1. IInv => TypeOK
  BY DEF IInv
<1> QED
  BY <1>1, Invariance, PTL

\* However registrations, reissues and verifications interleave, fail and
\* crash, an unverified account keeps a code (register, verify_account).
THEOREM UnverifiedKeepACode == Spec => []UnverifiedHasCode
<1>1. IInv => UnverifiedHasCode
  BY DEF IInv, AccountsOK
<1> QED
  BY <1>1, Invariance, PTL

\* No account exists whose code was not handed to the receiver
\* (initialize_verification_flow inside register's transaction).
THEOREM EveryAccountIsAnnounced == Spec => []AccountsAreAnnounced
<1>1. IInv => AccountsAreAnnounced
  BY DEF IInv, AccountsOK
<1> QED
  BY <1>1, Invariance, PTL

\* A verified account presented a code issued to it, in time (verify_account).
THEOREM VerificationIsInTime == Spec => []VerifiedInTime
<1>1. IInv => VerifiedInTime
  BY DEF IInv, AccountsOK, VerifiedInTime, ProofOK
<1> QED
  BY <1>1, Invariance, PTL

\* Nothing takes the verification of an account away (register, verify).
THEOREM VerificationIsForGood == Spec => VerifiedForGood
<1>1. IInv /\ [Next]_vars => [verified \subseteq verified']_vars
  <2> SUFFICES ASSUME IInv, Next PROVE verified \subseteq verified'
    BY DEF vars
  <2>1. ASSUME NEW r \in Request, CommitAccount(r) PROVE verified \subseteq verified'
    <3>1. req[r] # None /\ Past(req[r]) /\ FlightOK(req[r])
      BY <2>1 DEF IInv, TypeOK, RequestsOK, CommitAccount, At, Past
    <3>2. req[r].m \notin registered
      BY <3>1 DEF FlightOK
    <3> QED
      BY <2>1, <3>2 DEF CommitAccount, IInv, TypeOK
  <2> QED
    BY <2>1 DEF Next, Begin, Register, Reissue, Verify, InsertAccount, IssueCode,
       Announce, CheckCode, SaveUser, MarkVerified, SaveVault, Audit, SoftDelete,
       Restore, Crash, Tick
<1> QED
  BY <1>1, Invariance, PTL DEF Spec, VerifiedForGood
=============================================================================
