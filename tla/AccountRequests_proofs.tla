----------------------- MODULE AccountRequests_proofs -----------------------
(***************************************************************************)
(* Theorems about AccountRequests, for any users, addresses, national ids  *)
(* and any finite number of requests.                                      *)
(*                                                                         *)
(* A handler saves the instance it read, which others may have written     *)
(* since.  IInv needs no hypothesis; each theorem then names the pairs of  *)
(* handlers that must not overlap on one account for its property, and no  *)
(* others.                                                                 *)
(***************************************************************************)
EXTENDS AccountRequests, FiniteSetTheorems, TLAPS

\* The handlers that save a whole instance read earlier.
Savers == {"me", "profile", "secrets", "setup"}

Places(op) ==
  CASE op = "me" -> {"validate", "save"}
    [] op = "profile" -> {"profile", "save"}
    [] op = "secrets" -> {"vault", "audit", "save"}
    [] op = "setup" -> {"vault", "save"}
    [] op = "verify" -> {"vault", "mark", "clear"}
    [] op = "anonymize" -> {"confirm"}

\* A request in flight was made by a live user and is where its handler goes.
FlightOK(x) ==
  /\ x.op \in Ops /\ x.at \in Places(x.op)
  /\ x.op = "me" => x.usr \in UserRow /\ ~x.usr.closed /\ x.email \in Email

RequestsOK ==
  /\ \A r \in Request : req[r] # Null => FlightOK(req[r])
  /\ \A r, s \in Request :
       r # s /\ req[r] # Null /\ req[s] # Null /\ req[r].u = req[s].u
         => {req[r].op, req[s].op} \notin Apart

\* The PATCH me/secrets of u that have yet to write their audit row, and those
\* that have yet to save.
Waits(x, u) ==
  x # Null /\ x.op = "secrets" /\ x.u = u /\ x.at \in {"vault", "audit"}
Saves(x, u) ==
  x # Null /\ x.op = "secrets" /\ x.u = u /\ x.at = "save"
Waiting(u) == {r \in Request : Waits(req[r], u)}
Saving(u) == {r \in Request : Saves(req[r], u)}

AuditsOK == \A u \in User : audits[u] + Cardinality(Waiting(u)) <= MaxAudits

IInv ==
  /\ TypeOK
  /\ \A u \in User : ~users[u].closed => users[u].email \in Email
  /\ RequestsOK
  /\ AuditsOK

-----------------------------------------------------------------------------
\* Counting: what a step adds to a finite set or takes from it.
LEMMA CountSub ==
  ASSUME NEW S, NEW T, IsFiniteSet(S), T \subseteq S
  PROVE  /\ IsFiniteSet(T) /\ Cardinality(T) \in Nat /\ Cardinality(S) \in Nat
         /\ Cardinality(T) <= Cardinality(S)
  BY FS_Subset, FS_CardinalityType

LEMMA CountAdd ==
  ASSUME NEW S, NEW T, NEW e, IsFiniteSet(S), T \subseteq S \cup {e}
  PROVE  /\ Cardinality(T) \in Nat /\ Cardinality(S) \in Nat
         /\ Cardinality(T) <= Cardinality(S) + 1
<1>1. /\ IsFiniteSet(S \cup {e}) /\ Cardinality(S) \in Nat
      /\ Cardinality(S \cup {e}) <= Cardinality(S) + 1
  BY FS_AddElement, FS_CardinalityType
<1>2. Cardinality(T) \in Nat /\ Cardinality(S \cup {e}) \in Nat
      /\ Cardinality(T) <= Cardinality(S \cup {e})
  BY <1>1, CountSub
<1> QED
  BY <1>1, <1>2

LEMMA CountRemove ==
  ASSUME NEW S, NEW T, NEW e \in S, IsFiniteSet(S), T \subseteq S \ {e}
  PROVE  /\ Cardinality(T) \in Nat /\ Cardinality(S) \in Nat
         /\ Cardinality(T) + 1 <= Cardinality(S)
<1>1. /\ IsFiniteSet(S \ {e}) /\ Cardinality(S) \in Nat
      /\ Cardinality(S \ {e}) = Cardinality(S) - 1
  BY FS_RemoveElement, FS_CardinalityType
<1>2. Cardinality(T) \in Nat /\ Cardinality(T) <= Cardinality(S \ {e})
  BY <1>1, CountSub
<1> QED
  BY <1>1, <1>2

LEMMA FiniteCounts ==
  ASSUME NEW u
  PROVE  /\ IsFiniteSet(Waiting(u)) /\ Cardinality(Waiting(u)) \in Nat
         /\ IsFiniteSet(Saving(u)) /\ Cardinality(Saving(u)) \in Nat
<1>1. Waiting(u) \subseteq Request /\ Saving(u) \subseteq Request
  BY DEF Waiting, Saving
<1> QED
  BY <1>1, RequestAssumption, CountSub

\* A request that moves without beginning to wait or to save leaves fewer of
\* both, or as many.
LEMMA WaitingShrinks ==
  ASSUME NEW r \in Request, NEW x, NEW u, req' = [req EXCEPT ![r] = x],
         req \in [Request -> Flight \cup {Null}],
         Waits(x, u) => Waits(req[r], u)
  PROVE  /\ Cardinality(Waiting(u)') \in Nat
         /\ Cardinality(Waiting(u)') <= Cardinality(Waiting(u))
<1>1. Waiting(u)' \subseteq Waiting(u)
  BY DEF Waiting, Waits
<1> QED
  BY <1>1, FiniteCounts, CountSub

LEMMA SavingShrinks ==
  ASSUME NEW r \in Request, NEW x, NEW u, req' = [req EXCEPT ![r] = x],
         req \in [Request -> Flight \cup {Null}],
         Saves(x, u) => Saves(req[r], u)
  PROVE  /\ Cardinality(Saving(u)') \in Nat
         /\ Cardinality(Saving(u)') <= Cardinality(Saving(u))
<1>1. Saving(u)' \subseteq Saving(u)
  BY DEF Saving, Saves
<1> QED
  BY <1>1, FiniteCounts, CountSub

-----------------------------------------------------------------------------
LEMMA InitInvariant == Init => IInv
<1> SUFFICES ASSUME Init PROVE IInv
  OBVIOUS
<1>1. ASSUME NEW u \in User PROVE users[u] \in UserRow /\ users[u].email \in Email
  <2> PICK n \in Name : users[u] = [email |-> [name |-> n, spelling |-> "lower"],
                                   verified |-> FALSE, closed |-> FALSE]
    BY DEF Init
  <2> PICK e \in Email : e = [name |-> n, spelling |-> "lower"]
    BY SpellingAssumption DEF Email
  <2>1. users[u] = [email |-> e, verified |-> FALSE, closed |-> FALSE]
    OBVIOUS
  <2> QED
    BY <2>1 DEF UserRow
<1>2. TypeOK
  <2>1. users \in [User -> UserRow]
    BY <1>1 DEF Init
  <2>2. vault \in [User -> VaultRow]
    BY DEF Init, VaultRow, Empty
  <2>3. audits \in [User -> 0..MaxAudits] /\ changes \in [User -> 0..(MaxAudits + 2)]
    BY BoundsAssumption DEF Init
  <2> QED
    BY <2>1, <2>2, <2>3 DEF Init, TypeOK
<1>3. RequestsOK
  BY DEF Init, RequestsOK
<1>4. AuditsOK
  <2> SUFFICES ASSUME NEW u \in User
               PROVE  audits[u] + Cardinality(Waiting(u)) <= MaxAudits
    BY DEF AuditsOK
  <2>1. Waiting(u) = {}
    BY DEF Init, Waiting, Waits
  <2>2. Cardinality(Waiting(u)) = 0
    BY <2>1, FS_EmptySet
  <2> QED
    BY <2>2, BoundsAssumption DEF Init
<1> QED
  BY <1>1, <1>2, <1>3, <1>4 DEF IInv

\* A request in flight moves: it stays the request it was.
LEMMA RequestsAdvance ==
  ASSUME IInv, NEW r \in Request, req[r] # Null, NEW x \in Flight \cup {Null},
         req' = [req EXCEPT ![r] = x],
         x # Null => FlightOK(x) /\ x.op = req[r].op /\ x.u = req[r].u
  PROVE  RequestsOK'
<1>1. \A s \in Request : req'[s] = IF s = r THEN x ELSE req[s]
  BY DEF IInv, TypeOK
<1>2. ASSUME NEW s \in Request, req'[s] # Null PROVE FlightOK(req'[s])
  BY <1>1, <1>2 DEF IInv, RequestsOK
<1>3. ASSUME NEW s \in Request, NEW o \in Request, s # o, req'[s] # Null, req'[o] # Null,
             req'[s].u = req'[o].u
      PROVE  {req'[s].op, req'[o].op} \notin Apart
  <2>1. /\ req[s] # Null /\ req'[s].op = req[s].op /\ req'[s].u = req[s].u
        /\ req[o] # Null /\ req'[o].op = req[o].op /\ req'[o].u = req[o].u
    BY <1>1, <1>3
  <2> QED
    BY <1>3, <2>1 DEF IInv, RequestsOK
<1> QED
  BY <1>2, <1>3 DEF RequestsOK, FlightOK

LEMMA AuditsKept ==
  ASSUME IInv, NEW r \in Request, NEW x, req' = [req EXCEPT ![r] = x],
         UNCHANGED audits, \A u \in User : Waits(x, u) => Waits(req[r], u)
  PROVE  AuditsOK'
<1> SUFFICES ASSUME NEW u \in User
             PROVE  audits'[u] + Cardinality(Waiting(u)') <= MaxAudits
  BY DEF AuditsOK, Waiting
<1>1. /\ Cardinality(Waiting(u)') \in Nat
      /\ Cardinality(Waiting(u)') <= Cardinality(Waiting(u))
  BY WaitingShrinks DEF IInv, TypeOK
<1>2. audits[u] \in Nat /\ audits[u] + Cardinality(Waiting(u)) <= MaxAudits
  BY DEF IInv, TypeOK, AuditsOK
<1> QED
  BY <1>1, <1>2, FiniteCounts, BoundsAssumption

\* A request in flight moves and the tables stay as they are.
LEMMA QuietStep ==
  ASSUME IInv, NEW r \in Request, req[r] # Null, NEW x \in Flight \cup {Null},
         req' = [req EXCEPT ![r] = x],
         x # Null => FlightOK(x) /\ x.op = req[r].op /\ x.u = req[r].u,
         \A u \in User : Waits(x, u) => Waits(req[r], u),
         UNCHANGED <<users, profile, vault, audits, changes>>
  PROVE  IInv'
<1>2. RequestsOK'
  BY RequestsAdvance
<1>3. AuditsOK'
  BY AuditsKept
<1> QED
  BY <1>2, <1>3 DEF IInv, TypeOK

LEMMA LeaveKeeps ==
  ASSUME IInv, NEW r \in Request, req[r] # Null, Leave(r),
         UNCHANGED <<users, profile, vault, audits, changes>>
  PROVE  IInv'
  BY QuietStep DEF Leave, Waits

\* A request leaves after writing the tables.
LEMMA WriteAndLeave ==
  ASSUME IInv, NEW r \in Request, req[r] # Null, Leave(r),
         users' \in [User -> UserRow], profile' \in [User -> BOOLEAN],
         vault' \in [User -> VaultRow], changes' \in [User -> 0..(MaxAudits + 2)],
         \A u \in User : ~users'[u].closed => users'[u].email \in Email,
         UNCHANGED audits
  PROVE  IInv'
<1>1. RequestsOK'
  BY RequestsAdvance DEF Leave
<1>2. AuditsOK'
  BY AuditsKept DEF Leave, Waits
<1> QED
  BY <1>1, <1>2 DEF IInv, TypeOK, Leave

\* StoreVault counts up to its bound.
LEMMA ChangedType ==
  ASSUME TypeOK, NEW u, NEW row
  PROVE  Changed(u, row) \in [User -> 0..(MaxAudits + 2)]
<1>1. \A v \in User : changes[v] \in 0..(MaxAudits + 2)
  BY DEF TypeOK
<1>2. u \in User => (IF changes[u] > MaxAudits + 1 THEN changes[u] ELSE changes[u] + 1)
                      \in 0..(MaxAudits + 2)
  BY <1>1, BoundsAssumption
<1> QED
  BY <1>2 DEF Changed, TypeOK

LEMMA StoreVaultKeeps ==
  ASSUME IInv, NEW r \in Request, req[r] # Null, Leave(r),
         NEW u \in User, NEW row \in VaultRow,
         \/ StoreVault(u, row)
         \/ UNCHANGED <<vault, changes>>,
         UNCHANGED <<users, profile, audits>>
  PROVE  IInv'
<1>1. vault' \in [User -> VaultRow] /\ changes' \in [User -> 0..(MaxAudits + 2)]
  BY ChangedType DEF StoreVault, IInv, TypeOK
<1> QED
  BY <1>1, WriteAndLeave DEF IInv, TypeOK

-----------------------------------------------------------------------------
\* A request arrives with the row its authentication read.
LEMMA ArriveKeeps ==
  ASSUME IInv, NEW r \in Request, NEW op \in Op, NEW u \in User,
         NEW email \in Email \cup {Null}, op = "me" => email \in Email,
         NEW dni \in Dni \cup {Null}, Arrive(r, op, u, email, dni)
  PROVE  IInv'
<1>1. ~users[u].closed /\ users[u] \in UserRow /\ users[u].email \in Email /\ op \in Ops
  BY DEF Arrive, Admitted, IInv, TypeOK
<1>2. Empty \in VaultRow /\ First(op) \in Place /\ First(op) \in Places(op)
  BY DEF Empty, VaultRow, First, Place, Places, Op
<1> PICK usr \in UserRow \cup {Null} : usr = IF op \in UsesUser THEN users[u] ELSE Null
  BY <1>1
<1> PICK x \in Flight : x = [op |-> op, at |-> First(op), u |-> u, usr |-> usr,
                             vlt |-> Empty, email |-> email, dni |-> dni]
  BY <1>1, <1>2 DEF Flight
<1>3. req' = [req EXCEPT ![r] = x] /\ req[r] = Null
      /\ UNCHANGED <<users, profile, vault, audits, changes>>
  BY DEF Arrive
<1>4. \A s \in Request : req'[s] = IF s = r THEN x ELSE req[s]
  BY <1>3 DEF IInv, TypeOK
<1>5. FlightOK(x)
  BY <1>1, <1>2 DEF FlightOK, UsesUser
<1>6. \A o \in Request : req[o] # Null /\ req[o].u = x.u => {req[o].op, x.op} \notin Apart
  BY DEF Arrive, MayOverlap
<1>7. RequestsOK'
  <2>1. ASSUME NEW s \in Request, req'[s] # Null PROVE FlightOK(req'[s])
    BY <1>4, <1>5, <2>1 DEF IInv, RequestsOK
  <2>2. ASSUME NEW s \in Request, NEW o \in Request, s # o, req'[s] # Null, req'[o] # Null,
               req'[s].u = req'[o].u
        PROVE  {req'[s].op, req'[o].op} \notin Apart
    <3>1. CASE s = r
      <4>1. req'[s] = x /\ req'[o] = req[o] /\ req[o] # Null
        BY <1>4, <2>2, <3>1
      <4>2. {req[o].op, x.op} \notin Apart
        BY <1>6, <2>2, <4>1
      <4> QED
        BY <4>1, <4>2
    <3>2. CASE o = r
      BY <1>4, <1>6, <2>2, <3>2
    <3>3. CASE s # r /\ o # r
      BY <1>4, <2>2, <3>3 DEF IInv, RequestsOK
    <3> QED
      BY <3>1, <3>2, <3>3
  <2> QED
    BY <2>1, <2>2 DEF RequestsOK, FlightOK
<1>8. AuditsOK'
  <2> SUFFICES ASSUME NEW v \in User
               PROVE  audits[v] + Cardinality(Waiting(v)') <= MaxAudits
    BY <1>3 DEF AuditsOK, Waiting
  <2>1. audits[v] \in Nat /\ audits[v] + Cardinality(Waiting(v)) <= MaxAudits
    BY DEF IInv, TypeOK, AuditsOK
  <2>2. CASE Waits(x, v)
    <3> DEFINE All == {s \in Request : req[s] # Null /\ req[s].u = u /\ req[s].op = "secrets"}
    <3>1. v = u /\ audits[u] + Cardinality(All) < MaxAudits
      BY <2>2 DEF Waits, Arrive, Audited
    <3>2. IsFiniteSet(All)
      BY RequestAssumption, CountSub
    <3>3. Waiting(v)' \subseteq All \cup {r}
      BY <1>4, <3>1 DEF Waiting, Waits
    <3>4. /\ Cardinality(Waiting(v)') \in Nat /\ Cardinality(All) \in Nat
          /\ Cardinality(Waiting(v)') <= Cardinality(All) + 1
      BY <3>2, <3>3, CountAdd
    <3> QED
      BY <2>1, <3>1, <3>4, BoundsAssumption
  <2>3. CASE ~Waits(x, v)
    <3>1. /\ Cardinality(Waiting(v)') \in Nat
          /\ Cardinality(Waiting(v)') <= Cardinality(Waiting(v))
      BY <1>3, <2>3, WaitingShrinks DEF IInv, TypeOK
    <3> QED
      BY <2>1, <3>1, FiniteCounts, BoundsAssumption
  <2> QED
    BY <2>2, <2>3
<1> QED
  BY <1>3, <1>7, <1>8 DEF IInv, TypeOK

\* A request goes on to another place of its handler.
LEMMA GoKeeps ==
  ASSUME IInv, NEW r \in Request, req[r] # Null, NEW at \in Place,
         at \in Places(req[r].op), Go(r, at),
         \A u \in User : Waits([req[r] EXCEPT !.at = at], u) => Waits(req[r], u),
         UNCHANGED <<users, profile, vault, audits, changes>>
  PROVE  IInv'
<1> PICK y \in Flight : y = req[r] /\ FlightOK(y)
  BY DEF IInv, TypeOK, RequestsOK
<1> PICK x \in Flight : x = [y EXCEPT !.at = at]
  BY DEF Flight
<1>1. x.op = y.op /\ x.at = at /\ x.usr = y.usr /\ x.u = y.u /\ x.email = y.email
  BY DEF Flight
<1>2. FlightOK(x)
  BY <1>1 DEF FlightOK
<1>3. req' = [req EXCEPT ![r] = x]
  BY DEF Go, IInv, TypeOK
<1> QED
  BY <1>1, <1>2, <1>3, QuietStep

\* request.user.secrets.
LEMMA LoadVaultKeeps ==
  ASSUME IInv, NEW r \in Request, req[r] # Null,
         LoadVault(r, CASE req[r].op = "secrets" -> "audit"
                        [] req[r].op = "setup" -> "save"
                        [] OTHER -> "mark")
  PROVE  IInv'
<1> PICK y \in Flight : y = req[r] /\ FlightOK(y) /\ y.at = "vault"
  BY DEF LoadVault, IInv, TypeOK, RequestsOK
<1> PICK at \in {"audit", "save", "mark"} :
        at = CASE y.op = "secrets" -> "audit" [] y.op = "setup" -> "save" [] OTHER -> "mark"
  OBVIOUS
<1>1. y.u \in User /\ vault[y.u] \in VaultRow
  BY DEF Flight, IInv, TypeOK
<1> PICK x \in Flight : x = [y EXCEPT !.at = at, !.vlt = vault[y.u]]
  BY <1>1 DEF Flight, Place
<1>2. x.op = y.op /\ x.at = at /\ x.usr = y.usr /\ x.u = y.u /\ x.email = y.email
  BY DEF Flight
<1>3. y.op \in {"secrets", "setup", "verify"}
  BY OpsAssumption DEF FlightOK, Places, Op
<1>4. FlightOK(x)
  BY <1>2, <1>3 DEF FlightOK, Places
<1>5. req' = [req EXCEPT ![r] = x] /\ UNCHANGED <<users, profile, vault, audits, changes>>
  BY DEF LoadVault, IInv, TypeOK
<1>6. \A u \in User : Waits(x, u) => Waits(req[r], u)
  BY <1>2 DEF Waits
<1> QED
  BY <1>2, <1>4, <1>5, <1>6, QuietStep

LEMMA ValidateMeKeeps == ASSUME IInv, NEW r \in Request, ValidateMe(r) PROVE IInv'
<1>1. req[r] # Null /\ req[r] \in Flight /\ req[r].op = "me"
  BY DEF ValidateMe, At, IInv, TypeOK
<1>2. CASE Go(r, "save")
  <2>1. \A u \in User : ~Waits([req[r] EXCEPT !.at = "save"], u)
    BY <1>1 DEF Waits, Flight
  <2> QED
    BY <1>1, <1>2, <2>1, GoKeeps DEF ValidateMe, Place, Places
<1>3. CASE Leave(r)
  BY <1>1, <1>3, LeaveKeeps DEF ValidateMe
<1> QED
  BY <1>2, <1>3 DEF ValidateMe

\* The row saved is the instance's, still live, under the new address.
LEMMA SaveMeKeeps == ASSUME IInv, NEW r \in Request, SaveMe(r) PROVE IInv'
<1> PICK y \in Flight : y = req[r] /\ y # Null /\ FlightOK(y) /\ y.op = "me"
  BY DEF SaveMe, At, IInv, TypeOK, RequestsOK
<1>1. y.u \in User /\ y.usr \in UserRow /\ y.email \in Email
  BY DEF Flight, FlightOK
<1> PICK row \in UserRow : row = [y.usr EXCEPT !.email = y.email]
  BY <1>1 DEF UserRow
<1>2. row.email \in Email /\ row.closed = y.usr.closed
  BY <1>1 DEF UserRow
<1>3. users' = users \/ users' = [users EXCEPT ![y.u] = row]
  BY DEF SaveMe, SavedUser
<1>4. /\ users' \in [User -> UserRow]
      /\ \A u \in User : ~users'[u].closed => users'[u].email \in Email
  BY <1>2, <1>3 DEF IInv, TypeOK
<1> QED
  BY <1>4, WriteAndLeave DEF SaveMe, IInv, TypeOK

LEMMA LoadProfileKeeps == ASSUME IInv, NEW r \in Request, LoadProfile(r) PROVE IInv'
<1>1. req[r] # Null /\ req[r] \in Flight /\ req[r].op = "profile"
  BY DEF LoadProfile, At, IInv, TypeOK
<1>2. \A u \in User : ~Waits([req[r] EXCEPT !.at = "save"], u)
  BY <1>1 DEF Waits, Flight
<1> QED
  BY <1>1, <1>2, GoKeeps DEF LoadProfile, Place, Places

LEMMA SaveProfileKeeps ==
  ASSUME IInv, NEW r \in Request, NEW personal \in BOOLEAN, SaveProfile(r, personal)
  PROVE  IInv'
<1>1. profile' \in [User -> BOOLEAN]
  BY DEF SaveProfile, IInv, TypeOK
<1> QED
  BY <1>1, WriteAndLeave DEF SaveProfile, At, IInv, TypeOK

\* The audit row written takes the place of a request waiting to write it.
LEMMA WriteSecretsKeeps == ASSUME IInv, NEW r \in Request, WriteSecrets(r) PROVE IInv'
<1> PICK y \in Flight : y = req[r] /\ y # Null /\ FlightOK(y)
                        /\ y.op = "secrets" /\ y.at = "audit"
  BY DEF WriteSecrets, At, IInv, TypeOK, RequestsOK
<1> PICK x \in Flight : x = [y EXCEPT !.at = "save"]
  BY DEF Flight, Place
<1>1. x.op = y.op /\ x.at = "save" /\ x.usr = y.usr /\ x.u = y.u /\ y.u \in User
  BY DEF Flight
<1>2. req' = [req EXCEPT ![r] = x] /\ audits' = [audits EXCEPT ![y.u] = @ + 1]
      /\ UNCHANGED <<users, profile, vault, changes>>
  BY DEF WriteSecrets, AuditSecrets, Go, IInv, TypeOK
<1>3. FlightOK(x)
  BY <1>1 DEF FlightOK, Places
<1>4. RequestsOK'
  BY <1>1, <1>2, <1>3, RequestsAdvance
<1>5. ASSUME NEW u \in User
      PROVE  /\ audits'[u] \in 0..MaxAudits
             /\ audits'[u] + Cardinality(Waiting(u)') <= MaxAudits
  <2>1. audits[u] \in Nat /\ audits[u] + Cardinality(Waiting(u)) <= MaxAudits
    BY DEF IInv, TypeOK, AuditsOK
  <2>2. audits'[u] = IF u = y.u THEN audits[u] + 1 ELSE audits[u]
    BY <1>2 DEF IInv, TypeOK
  <2>3. CASE u = y.u
    <3>1. r \in Waiting(u) /\ Waiting(u)' \subseteq Waiting(u) \ {r}
      BY <1>1, <1>2, <2>3 DEF Waiting, Waits, IInv, TypeOK
    <3>2. /\ Cardinality(Waiting(u)') \in Nat /\ Cardinality(Waiting(u)) \in Nat
          /\ Cardinality(Waiting(u)') + 1 <= Cardinality(Waiting(u))
      BY <3>1, FiniteCounts, CountRemove
    <3> QED
      BY <2>1, <2>2, <2>3, <3>2, BoundsAssumption
  <2>4. CASE u # y.u
    <3>1. Waits(x, u) => Waits(req[r], u)
      BY <1>1 DEF Waits
    <3>2. /\ Cardinality(Waiting(u)') \in Nat
          /\ Cardinality(Waiting(u)') <= Cardinality(Waiting(u))
      BY <1>2, <3>1, WaitingShrinks DEF IInv, TypeOK
    <3> QED
      BY <2>1, <2>2, <2>4, <3>2, FiniteCounts, BoundsAssumption
  <2> QED
    BY <2>3, <2>4
<1>6. audits' \in [User -> 0..MaxAudits]
  BY <1>2, <1>5 DEF IInv, TypeOK
<1>7. AuditsOK'
  BY <1>5 DEF AuditsOK, Waiting
<1> QED
  BY <1>2, <1>4, <1>6, <1>7 DEF IInv, TypeOK

LEMMA SaveSecretsKeeps == ASSUME IInv, NEW r \in Request, SaveSecrets(r) PROVE IInv'
<1> PICK y \in Flight : y = req[r] /\ y # Null
  BY DEF SaveSecrets, At, IInv, TypeOK
<1>1. y.u \in User /\ y.vlt \in VaultRow /\ y.dni \in Dni \cup {Null}
  BY DEF Flight
<1> PICK row \in VaultRow : row = [y.vlt EXCEPT !.dni = y.dni]
  BY <1>1 DEF VaultRow
<1>2. StoreVault(y.u, row) \/ UNCHANGED <<vault, changes>>
  BY DEF SaveSecrets
<1> QED
  BY <1>1, <1>2, StoreVaultKeeps DEF SaveSecrets

LEMMA SaveSetupKeeps == ASSUME IInv, NEW r \in Request, SaveSetup(r) PROVE IInv'
<1> PICK y \in Flight : y = req[r] /\ y # Null
  BY DEF SaveSetup, At, IInv, TypeOK
<1>1. y.u \in User /\ y.vlt \in VaultRow
  BY DEF Flight
<1> PICK row \in VaultRow : row = [y.vlt EXCEPT !.key = TRUE]
  BY <1>1 DEF VaultRow
<1>2. StoreVault(y.u, row) \/ UNCHANGED <<vault, changes>>
  BY DEF SaveSetup
<1> QED
  BY <1>1, <1>2, StoreVaultKeeps DEF SaveSetup

LEMMA MarkVerifiedKeeps == ASSUME IInv, NEW r \in Request, MarkVerified(r) PROVE IInv'
<1> PICK y \in Flight : y = req[r] /\ y # Null /\ FlightOK(y) /\ y.op = "verify"
  BY DEF MarkVerified, At, IInv, TypeOK, RequestsOK
<1>1. CASE y.vlt.otp
  <2> PICK x \in Flight : x = [y EXCEPT !.at = "clear"]
    BY DEF Flight, Place
  <2>1. x.op = "verify" /\ x.at = "clear" /\ x.u = y.u
    BY DEF Flight
  <2>2. req' = [req EXCEPT ![r] = x] /\ users' = [users EXCEPT ![y.u].verified = TRUE]
        /\ UNCHANGED <<profile, vault, audits, changes>>
    BY <1>1 DEF MarkVerified, Marked, Go, IInv, TypeOK
  <2>3. FlightOK(x)
    BY <2>1 DEF FlightOK, Places
  <2>4. RequestsOK'
    BY <2>1, <2>2, <2>3, RequestsAdvance
  <2>5. AuditsOK'
    BY <2>1, <2>2, AuditsKept DEF Waits
  <2>6. ASSUME NEW u \in User
        PROVE  /\ users'[u] \in UserRow
               /\ ~users'[u].closed => users'[u].email \in Email
    <3> PICK old \in UserRow : old = users[u]
      BY DEF IInv, TypeOK
    <3> PICK new \in UserRow : new = [old EXCEPT !.verified = TRUE]
      BY DEF UserRow
    <3>1. new.closed = old.closed /\ new.email = old.email
      BY DEF UserRow
    <3>2. users'[u] = IF u = y.u THEN new ELSE old
      BY <2>2 DEF IInv, TypeOK
    <3> QED
      BY <3>1, <3>2 DEF IInv
  <2>7. users' \in [User -> UserRow]
    BY <2>2, <2>6 DEF IInv, TypeOK
  <2> QED
    BY <2>2, <2>4, <2>5, <2>6, <2>7 DEF IInv, TypeOK
<1> QED
  BY <1>1, LeaveKeeps DEF MarkVerified

LEMMA ClearCodeKeeps == ASSUME IInv, NEW r \in Request, ClearCode(r) PROVE IInv'
<1>1. vault' \in [User -> VaultRow]
  <2>1. \A row \in VaultRow : [row EXCEPT !.otp = FALSE] \in VaultRow
    BY DEF VaultRow
  <2> QED
    BY <2>1 DEF ClearCode, IInv, TypeOK
<1> QED
  BY <1>1, WriteAndLeave DEF ClearCode, At, IInv, TypeOK

LEMMA AnonymizeKeeps == ASSUME IInv, NEW r \in Request, Anonymize(r) PROVE IInv'
<1> PICK y \in Flight : y = req[r] /\ y # Null
  BY DEF Anonymize, At, IInv, TypeOK
<1>1. CASE ~users[y.u].closed
  <2>1. y.u \in User /\ users[y.u] \in UserRow
    BY DEF Flight, IInv, TypeOK
  <2>a. /\ Closed(y.u, users[y.u]) \in UserRow
        /\ Closed(y.u, users[y.u]).closed
    <3> PICK e \in Email \cup {Anon(v) : v \in User} : e = Anon(y.u)
      BY <2>1
    <3> QED
      BY <2>1 DEF Closed, UserRow
  <2> PICK row \in UserRow : row = Closed(y.u, users[y.u]) /\ row.closed
    BY <2>a
  <2>2. users' = [users EXCEPT ![y.u] = row] /\ profile' = [profile EXCEPT ![y.u] = FALSE]
        /\ vault' = [vault EXCEPT ![y.u] = Empty] /\ changes' = Changed(y.u, Empty)
    BY <1>1 DEF Anonymize, Erased, StoreVault
  <2>3. Empty \in VaultRow
    BY DEF Empty, VaultRow
  <2>4. /\ users' \in [User -> UserRow] /\ profile' \in [User -> BOOLEAN]
        /\ vault' \in [User -> VaultRow] /\ changes' \in [User -> 0..(MaxAudits + 2)]
        /\ \A u \in User : ~users'[u].closed => users'[u].email \in Email
    BY <2>2, <2>3, ChangedType DEF IInv, TypeOK
  <2> QED
    BY <2>4, WriteAndLeave DEF Anonymize, IInv, TypeOK
<1> QED
  BY <1>1, LeaveKeeps DEF Anonymize

LEMMA NextInvariant == IInv /\ [Next]_vars => IInv'
<1> SUFFICES ASSUME IInv, [Next]_vars PROVE IInv'
  OBVIOUS
<1>1. ASSUME NEW r \in Request, NEW u \in User, NEW email \in Email,
             NEW op \in {"me", "anonymize"}, Arrive(r, op, u, email, Null)
      PROVE  IInv'
  BY <1>1, ArriveKeeps DEF Op
<1>2. ASSUME NEW r \in Request, NEW u \in User, NEW dni \in Dni \cup {Null},
             NEW op \in {"secrets", "profile", "setup", "verify"},
             Arrive(r, op, u, Null, dni)
      PROVE  IInv'
  BY <1>2, ArriveKeeps DEF Op
<1>3. ASSUME NEW r \in Request, req[r] # Null, Leave(r),
             UNCHANGED <<users, profile, vault, audits, changes>>
      PROVE  IInv'
  BY <1>3, LeaveKeeps
<1>4. CASE UNCHANGED vars
  BY <1>4 DEF vars, IInv, TypeOK, RequestsOK, AuditsOK, Waiting
<1>5. ASSUME NEW r \in Request,
             \/ req[r] # Null /\ LoadVault(r, CASE req[r].op = "secrets" -> "audit"
                                                [] req[r].op = "setup" -> "save"
                                                [] OTHER -> "mark")
             \/ ValidateMe(r) \/ SaveMe(r)
             \/ LoadProfile(r) \/ \E personal \in BOOLEAN : SaveProfile(r, personal)
             \/ WriteSecrets(r) \/ SaveSecrets(r) \/ SaveSetup(r)
             \/ RejectCode(r) \/ MarkVerified(r) \/ ClearCode(r)
             \/ Anonymize(r) \/ RefuseAnonymize(r) \/ Crash(r)
      PROVE  IInv'
  BY <1>3, <1>5, LoadVaultKeeps, ValidateMeKeeps, SaveMeKeeps, LoadProfileKeeps,
     SaveProfileKeeps, WriteSecretsKeeps, SaveSecretsKeeps, SaveSetupKeeps,
     MarkVerifiedKeeps, ClearCodeKeeps, AnonymizeKeeps
     DEF RejectCode, RefuseAnonymize, Crash, At
<1> QED
  BY <1>1, <1>2, <1>4, <1>5 DEF Next

\* Rows, requests and counters stay in their ranges; the number of audited
\* vault writes keeps to its bound whatever requests are still to write one.
THEOREM TypeInvariant == Spec => []TypeOK
<1>1. IInv => TypeOK
  BY DEF IInv
<1> QED
  BY <1>1, InitInvariant, NextInvariant, PTL DEF Spec

-----------------------------------------------------------------------------
(***************************************************************************)
(* What the steps of other requests leave of what a request relies on.     *)
(***************************************************************************)

\* A request keeps its handler and its account from its arrival, which finds
\* the account live, to its end.
Arrives(r) ==
  /\ req[r] = Null /\ ~users[req'[r].u].closed
  /\ req'[r].op = "setup" => req'[r].at = "vault"
  /\ UNCHANGED <<users, profile, vault, audits, changes>>

LEMMA OpsStay ==
  ASSUME IInv, [Next]_vars, NEW r \in Request, req'[r] # Null
  PROVE  \/ req[r] # Null /\ req'[r].op = req[r].op /\ req'[r].u = req[r].u
         \/ Arrives(r)
<1> DEFINE Goal == \/ req[r] # Null /\ req'[r].op = req[r].op /\ req'[r].u = req[r].u
                   \/ Arrives(r)
<1>1. ASSUME NEW s \in Request, NEW op \in Op, NEW u \in User, NEW email, NEW dni,
             Arrive(s, op, u, email, dni)
      PROVE  Goal
  <2>1. \A q \in Request : q # s => req'[q] = req[q]
    BY <1>1 DEF Arrive, IInv, TypeOK
  <2>2. CASE r = s
    <3>1. req'[r].op = op /\ req'[r].u = u /\ req'[r].at = First(op) /\ req[r] = Null
      BY <1>1, <2>2 DEF Arrive, IInv, TypeOK
    <3>2. First("setup") = "vault"
      BY DEF First
    <3> QED
      BY <1>1, <3>1, <3>2 DEF Arrive, Admitted, Arrives
  <2> QED
    BY <2>1, <2>2
\* Any other action moves one request within its handler, or ends it.
<1>2. ASSUME NEW s \in Request, NEW x, req' = [req EXCEPT ![s] = x],
             x = Null \/ (req[s] # Null /\ x.op = req[s].op /\ x.u = req[s].u)
      PROVE  Goal
  <2>1. \A q \in Request : req'[q] = IF q = s THEN x ELSE req[q]
    BY <1>2 DEF IInv, TypeOK
  <2> QED
    BY <1>2, <2>1
<1>3. ASSUME NEW s \in Request, Leave(s) PROVE Goal
  BY <1>2, <1>3 DEF Leave
<1>4. ASSUME NEW s \in Request, req[s] # Null, NEW at, Go(s, at) PROVE Goal
  <2> PICK y \in Flight : y = req[s]
    BY <1>4 DEF IInv, TypeOK
  <2>1. req' = [req EXCEPT ![s] = [y EXCEPT !.at = at]]
    BY <1>4 DEF Go, IInv, TypeOK
  <2> QED
    BY <1>2, <1>4, <2>1 DEF Flight
<1>5. ASSUME NEW s \in Request, req[s] # Null, NEW at, LoadVault(s, at) PROVE Goal
  <2> PICK y \in Flight : y = req[s]
    BY <1>5 DEF IInv, TypeOK
  <2>1. req' = [req EXCEPT ![s] = [y EXCEPT !.at = at, !.vlt = vault[y.u]]]
    BY <1>5 DEF LoadVault, IInv, TypeOK
  <2> QED
    BY <1>2, <1>5, <2>1 DEF Flight
<1>6. CASE UNCHANGED vars
  BY <1>6 DEF vars
<1>7. ASSUME NEW s \in Request,
             ValidateMe(s) \/ LoadProfile(s) \/ WriteSecrets(s) \/ MarkVerified(s)
      PROVE  Goal
  BY <1>3, <1>4, <1>7 DEF ValidateMe, LoadProfile, WriteSecrets, AuditSecrets, MarkVerified, At
<1>8. ASSUME NEW s \in Request,
             \/ SaveMe(s) \/ \E personal \in BOOLEAN : SaveProfile(s, personal)
             \/ SaveSecrets(s) \/ SaveSetup(s) \/ RejectCode(s) \/ ClearCode(s)
             \/ Anonymize(s) \/ RefuseAnonymize(s) \/ Crash(s)
      PROVE  Goal
  BY <1>3, <1>8 DEF SaveMe, SaveProfile, SaveSecrets, SaveSetup, RejectCode, ClearCode,
     Anonymize, RefuseAnonymize, Crash
<1> QED
  BY <1>1, <1>5, <1>6, <1>7, <1>8 DEF Next, Op

\* Only POST me/anonymize closes an account, and only PATCH me opens one.
LEMMA ClosingSteps ==
  ASSUME IInv, [Next]_vars, NEW u \in User, users'[u].closed # users[u].closed
  PROVE  \E r \in Request :
           /\ req[r] # Null /\ req[r].u = u /\ req'[r] = Null
           /\ \/ req[r].op = "anonymize" /\ users'[u].closed
              \/ req[r].op = "me" /\ users[u].closed
<1> PICK old \in UserRow : old = users[u]
  BY DEF IInv, TypeOK
<1>1. users'[u] # users[u]
  OBVIOUS
<1>2. ASSUME NEW r \in Request, SaveMe(r)
      PROVE  req[r] # Null /\ req[r].u = u /\ req'[r] = Null /\ req[r].op = "me"
             /\ users[u].closed
  <2> PICK y \in Flight : y = req[r] /\ y # Null /\ FlightOK(y) /\ y.op = "me"
    BY <1>2 DEF SaveMe, At, IInv, TypeOK, RequestsOK
  <2>1. y.usr \in UserRow /\ ~y.usr.closed
    BY DEF FlightOK
  <2>2. ~[y.usr EXCEPT !.email = y.email].closed
    BY <2>1 DEF UserRow
  <2>3. \/ users' = users
        \/ users' = [users EXCEPT ![y.u] = [y.usr EXCEPT !.email = y.email]]
    BY <1>2 DEF SaveMe, SavedUser
  <2>4. u = y.u /\ ~users'[u].closed
    BY <1>1, <2>2, <2>3 DEF IInv, TypeOK
  <2>5. old.closed \in BOOLEAN
    BY DEF UserRow
  <2>6. req'[r] = Null
    BY <1>2 DEF SaveMe, Leave, IInv, TypeOK
  <2>7. users'[u].closed \in BOOLEAN
    <3>1. users'[u] \in UserRow
      BY NextInvariant DEF IInv, TypeOK
    <3> QED
      BY <3>1 DEF UserRow
  <2> QED
    BY <2>4, <2>5, <2>6, <2>7
<1>3. ASSUME NEW r \in Request, MarkVerified(r) PROVE FALSE
  <2>1. users'[u] = old \/ users'[u] = [old EXCEPT !.verified = TRUE]
    BY <1>3 DEF MarkVerified, Marked, IInv, TypeOK
  <2> QED
    BY <2>1 DEF UserRow
<1>4. ASSUME NEW r \in Request, Anonymize(r)
      PROVE  req[r] # Null /\ req[r].u = u /\ req'[r] = Null /\ req[r].op = "anonymize"
             /\ users'[u].closed
  <2>1. u = req[r].u /\ users'[u] = Closed(u, old)
    BY <1>1, <1>4 DEF Anonymize, IInv, TypeOK
  <2>2. Closed(u, old).closed
    BY DEF Closed, UserRow
  <2>3. req'[r] = Null
    BY <1>4 DEF Anonymize, Leave, IInv, TypeOK
  <2> QED
    BY <1>4, <2>1, <2>2, <2>3 DEF Anonymize, At
<1> QED
  BY <1>1, <1>2, <1>3, <1>4
     DEF Next, vars, Arrive, LoadVault, ValidateMe, LoadProfile, SaveProfile,
     WriteSecrets, SaveSecrets, SaveSetup, RejectCode, ClearCode, RefuseAnonymize, Crash

\* Handlers that no closing overlaps serve a live account to their end.
Live(ops) ==
  \A r \in Request : req[r] # Null /\ req[r].op \in ops => ~users[req[r].u].closed

LEMMA LiveStep ==
  ASSUME NEW ops, \A op \in ops : {op, "anonymize"} \in Apart,
         IInv, Live(ops), [Next]_vars
  PROVE  Live(ops)'
<1> SUFFICES ASSUME NEW r \in Request, req'[r] # Null, req'[r].op \in ops,
                    users'[req'[r].u].closed
             PROVE  FALSE
  BY DEF Live
<1>1. CASE Arrives(r)
  BY <1>1 DEF Arrives
<1>2. CASE req[r] # Null /\ req'[r].op = req[r].op /\ req'[r].u = req[r].u
  <2>1. ~users[req[r].u].closed /\ req[r].u \in User /\ req[r].op \in ops
    BY <1>2 DEF Live, IInv, TypeOK, Flight
  <2>2. PICK s \in Request : /\ req[s] # Null /\ req[s].u = req[r].u /\ req'[s] = Null
                             /\ req[s].op = "anonymize"
    BY <1>2, <2>1, ClosingSteps
  <2>3. {req[r].op, req[s].op} \notin Apart
    BY <1>2, <2>2 DEF IInv, RequestsOK
  <2> QED
    BY <2>1, <2>2, <2>3
<1> QED
  BY <1>1, <1>2, OpsStay
-----------------------------------------------------------------------------
(***************************************************************************)
(* The audit trail.  A PATCH me/secrets that is about to save has its row  *)
(* in the trail already; a setup saves the dni it read, which is the one   *)
(* stored as long as no request that changes it overlaps.                  *)
(***************************************************************************)
ChangesOK ==
  \A u \in User : changes[u] + Cardinality(Saving(u)) <= audits[u] + Closings(u)

DniOK ==
  \A r \in Request : At(r, "setup", "save") => vault[req[r].u].dni = req[r].vlt.dni

\* A setup that is to save was so before, or has just read the vault.
LEMMA SetupStays ==
  ASSUME IInv, [Next]_vars, NEW r \in Request, At(r, "setup", "save")'
  PROVE  \/ req'[r] = req[r]
         \/ vault' = vault /\ req'[r].vlt = vault[req'[r].u]
<1> DEFINE Goal == \/ req'[r] = req[r]
                   \/ vault' = vault /\ req'[r].vlt = vault[req'[r].u]
<1>1. ASSUME NEW s \in Request, NEW op \in Op, NEW u \in User, NEW email, NEW dni,
             Arrive(s, op, u, email, dni)
      PROVE  Goal
  <2>1. CASE s = r
    <3>1. req'[r].op = op /\ req'[r].at = First(op)
      BY <1>1, <2>1 DEF Arrive, IInv, TypeOK
    <3>2. First("setup") = "vault"
      BY DEF First
    <3> QED
      BY <3>1, <3>2 DEF At
  <2> QED
    BY <1>1, <2>1 DEF Arrive, IInv, TypeOK
<1>2. ASSUME NEW s \in Request, Leave(s) PROVE Goal
  BY <1>2 DEF Leave, At, IInv, TypeOK
<1>3. ASSUME NEW s \in Request, req[s] # Null, req[s].op # "setup", NEW at, Go(s, at)
      PROVE  Goal
  <2> PICK y \in Flight : y = req[s]
    BY <1>3 DEF IInv, TypeOK
  <2>1. req' = [req EXCEPT ![s] = [y EXCEPT !.at = at]]
    BY <1>3 DEF Go, IInv, TypeOK
  <2> QED
    BY <1>3, <2>1 DEF At, Flight, IInv, TypeOK
<1>4. ASSUME NEW s \in Request, req[s] # Null, NEW at, LoadVault(s, at) PROVE Goal
  <2> PICK y \in Flight : y = req[s]
    BY <1>4 DEF IInv, TypeOK
  <2>1. req' = [req EXCEPT ![s] = [y EXCEPT !.at = at, !.vlt = vault[y.u]]]
        /\ vault' = vault
    BY <1>4 DEF LoadVault, IInv, TypeOK
  <2> QED
    BY <2>1 DEF Flight, IInv, TypeOK
<1>5. CASE UNCHANGED vars
  BY <1>5 DEF vars
<1>6. ASSUME NEW s \in Request,
             ValidateMe(s) \/ LoadProfile(s) \/ WriteSecrets(s) \/ MarkVerified(s)
      PROVE  Goal
  BY <1>2, <1>3, <1>6 DEF ValidateMe, LoadProfile, WriteSecrets, AuditSecrets, MarkVerified, At
<1>7. ASSUME NEW s \in Request,
             \/ SaveMe(s) \/ \E personal \in BOOLEAN : SaveProfile(s, personal)
             \/ SaveSecrets(s) \/ SaveSetup(s) \/ RejectCode(s) \/ ClearCode(s)
             \/ Anonymize(s) \/ RefuseAnonymize(s) \/ Crash(s)
      PROVE  Goal
  BY <1>2, <1>7 DEF SaveMe, SaveProfile, SaveSecrets, SaveSetup, RejectCode, ClearCode,
     Anonymize, RefuseAnonymize, Crash
<1> QED
  BY <1>1, <1>4, <1>5, <1>6, <1>7 DEF Next, Op

\* The save of a setup leaves the dni that is stored.
LEMMA SetupKeepsDni ==
  ASSUME IInv, DniOK, NEW r \in Request, SaveSetup(r)
  PROVE  /\ UNCHANGED <<audits, changes>>
         /\ \A u \in User : vault'[u].dni = vault[u].dni
<1> PICK y \in Flight : y = req[r] /\ y # Null
  BY DEF SaveSetup, At, IInv, TypeOK
<1>1. y.vlt \in VaultRow /\ y.u \in User /\ vault[y.u].dni = y.vlt.dni
  BY DEF Flight, DniOK, SaveSetup
<1> PICK row \in VaultRow : row = [y.vlt EXCEPT !.key = TRUE]
  BY <1>1 DEF VaultRow
<1>2. row.dni = vault[y.u].dni
  BY <1>1 DEF VaultRow
<1>3. StoreVault(y.u, row) \/ UNCHANGED <<vault, changes>>
  BY DEF SaveSetup
<1> QED
  BY <1>2, <1>3 DEF SaveSetup, StoreVault, Changed, IInv, TypeOK

\* Apart from setups, PATCH me/secrets and POST me/anonymize alone change a dni.
LEMMA DniSteps ==
  ASSUME IInv, DniOK, [Next]_vars, NEW u \in User, vault'[u].dni # vault[u].dni
  PROVE  \E r \in Request : /\ req[r] # Null /\ req[r].u = u
                            /\ req[r].op \in {"secrets", "anonymize"}
<1>1. vault'[u] # vault[u]
  OBVIOUS
<1>2. ASSUME NEW r \in Request, SaveSecrets(r)
      PROVE  req[r] # Null /\ req[r].u = u /\ req[r].op = "secrets"
  BY <1>1, <1>2 DEF SaveSecrets, StoreVault, At, IInv, TypeOK
<1>3. ASSUME NEW r \in Request, SaveSetup(r) PROVE FALSE
  BY <1>3, SetupKeepsDni
<1>4. ASSUME NEW r \in Request, ClearCode(r) PROVE FALSE
  <2> PICK old \in VaultRow : old = vault[u]
    BY DEF IInv, TypeOK
  <2>1. vault'[u] = old \/ vault'[u] = [old EXCEPT !.otp = FALSE]
    BY <1>4 DEF ClearCode, IInv, TypeOK
  <2> QED
    BY <2>1 DEF VaultRow
<1>5. ASSUME NEW r \in Request, Anonymize(r)
      PROVE  req[r] # Null /\ req[r].u = u /\ req[r].op = "anonymize"
  BY <1>1, <1>5 DEF Anonymize, StoreVault, At, IInv, TypeOK
<1> QED
  BY <1>1, <1>2, <1>3, <1>4, <1>5
     DEF Next, vars, Arrive, LoadVault, ValidateMe, SaveMe, LoadProfile, SaveProfile,
     WriteSecrets, RejectCode, MarkVerified, RefuseAnonymize, Crash

LEMMA DniStep ==
  ASSUME {{"setup", "secrets"}, {"setup", "anonymize"}} \subseteq Apart,
         IInv, DniOK, [Next]_vars
  PROVE  DniOK'
<1> SUFFICES ASSUME NEW r \in Request, At(r, "setup", "save")'
             PROVE  vault'[req'[r].u].dni = req'[r].vlt.dni
  BY DEF DniOK, At
<1>1. CASE req'[r] = req[r]
  <2>1. At(r, "setup", "save") /\ req[r].u \in User
    BY <1>1 DEF At, IInv, TypeOK, Flight
  <2>2. ASSUME NEW s \in Request, req[s] # Null, req[s].u = req[r].u,
               req[s].op \in {"secrets", "anonymize"}
        PROVE  FALSE
    <3>1. {req[r].op, req[s].op} \notin Apart
      BY <2>1, <2>2 DEF At, IInv, RequestsOK
    <3> QED
      BY <2>1, <2>2, <3>1 DEF At
  <2>3. vault'[req[r].u].dni = vault[req[r].u].dni
    BY <2>1, <2>2, DniSteps
  <2> QED
    BY <1>1, <2>1, <2>3 DEF DniOK
<1>2. CASE vault' = vault /\ req'[r].vlt = vault[req'[r].u]
  BY <1>2
<1> QED
  BY <1>1, <1>2, SetupStays

\* A closed account stays closed under a closing that no PATCH me overlaps.
LEMMA ClosedStays ==
  ASSUME IInv, Live({"me"}), [Next]_vars, NEW u \in User, users[u].closed
  PROVE  users'[u].closed
  BY ClosingSteps DEF Live

LEMMA QuietChanges ==
  ASSUME IInv, ChangesOK, NEW r \in Request, NEW x, req' = [req EXCEPT ![r] = x],
         \A u \in User : Saves(x, u) => Saves(req[r], u), UNCHANGED <<audits, changes>>,
         \A u \in User : users[u].closed => users'[u].closed
  PROVE  ChangesOK'
<1> SUFFICES ASSUME NEW u \in User
             PROVE  changes'[u] + Cardinality(Saving(u)') <= audits'[u] + Closings(u)'
  BY DEF ChangesOK, Saving, Closings
<1>1. /\ Cardinality(Saving(u)') \in Nat
      /\ Cardinality(Saving(u)') <= Cardinality(Saving(u))
  BY SavingShrinks DEF IInv, TypeOK
<1>2. /\ changes[u] \in Nat /\ audits[u] \in Nat
      /\ changes[u] + Cardinality(Saving(u)) <= audits[u] + Closings(u)
      /\ Closings(u) \in Nat /\ Closings(u)' \in Nat /\ Closings(u) <= Closings(u)'
  BY DEF IInv, TypeOK, ChangesOK, Closings
<1> QED
  BY <1>1, <1>2, FiniteCounts

\* The row written makes room for the save.
LEMMA WriteSecretsChanges ==
  ASSUME IInv, ChangesOK, NEW r \in Request, WriteSecrets(r) PROVE ChangesOK'
<1> PICK y \in Flight : y = req[r] /\ y # Null
  BY DEF WriteSecrets, At, IInv, TypeOK
<1> PICK x \in Flight : x = [y EXCEPT !.at = "save"]
  BY DEF Flight, Place
<1>1. req' = [req EXCEPT ![r] = x] /\ audits' = [audits EXCEPT ![y.u] = @ + 1]
      /\ UNCHANGED changes /\ x.u = y.u
  BY DEF WriteSecrets, AuditSecrets, Go, IInv, TypeOK, Flight
<1> SUFFICES ASSUME NEW u \in User
             PROVE  changes'[u] + Cardinality(Saving(u)') <= audits'[u] + Closings(u)
  BY DEF ChangesOK, Saving, Closings, WriteSecrets, SaveSecrets
<1>2. /\ changes[u] \in Nat /\ audits[u] \in Nat
      /\ changes[u] + Cardinality(Saving(u)) <= audits[u] + Closings(u)
      /\ Closings(u) \in Nat
      /\ audits'[u] = IF u = y.u THEN audits[u] + 1 ELSE audits[u]
  BY <1>1 DEF IInv, TypeOK, ChangesOK, Closings
<1>3. CASE u = y.u
  <2>1. Saving(u)' \subseteq Saving(u) \cup {r}
    BY <1>1 DEF Saving, Saves, IInv, TypeOK
  <2>2. /\ Cardinality(Saving(u)') \in Nat
        /\ Cardinality(Saving(u)') <= Cardinality(Saving(u)) + 1
    BY <2>1, FiniteCounts, CountAdd
  <2> QED
    BY <1>1, <1>2, <1>3, <2>2, FiniteCounts
<1>4. CASE u # y.u
  <2>1. Saves(x, u) => Saves(req[r], u)
    BY <1>1, <1>4 DEF Saves
  <2>2. /\ Cardinality(Saving(u)') \in Nat
        /\ Cardinality(Saving(u)') <= Cardinality(Saving(u))
    BY <1>1, <2>1, SavingShrinks DEF IInv, TypeOK
  <2> QED
    BY <1>1, <1>2, <1>4, <2>2, FiniteCounts
<1> QED
  BY <1>3, <1>4

\* ... and the save uses it up.
LEMMA SaveSecretsChanges ==
  ASSUME IInv, ChangesOK, NEW r \in Request, SaveSecrets(r) PROVE ChangesOK'
<1> PICK y \in Flight : y = req[r] /\ y # Null /\ y.op = "secrets" /\ y.at = "save"
  BY DEF SaveSecrets, At, IInv, TypeOK
<1>1. req' = [req EXCEPT ![r] = Null] /\ UNCHANGED audits
  BY DEF SaveSecrets, Leave
<1> SUFFICES ASSUME NEW u \in User
             PROVE  changes'[u] + Cardinality(Saving(u)') <= audits'[u] + Closings(u)
  BY DEF ChangesOK, Saving, Closings, WriteSecrets, SaveSecrets
<1>2. /\ changes[u] \in Nat /\ audits[u] \in Nat
      /\ changes[u] + Cardinality(Saving(u)) <= audits[u] + Closings(u)
      /\ Closings(u) \in Nat
  BY DEF IInv, TypeOK, ChangesOK, Closings
<1>3. CASE u = y.u
  <2>1. r \in Saving(u) /\ Saving(u)' \subseteq Saving(u) \ {r}
    BY <1>1, <1>3 DEF Saving, Saves, IInv, TypeOK
  <2>2. /\ Cardinality(Saving(u)') \in Nat
        /\ Cardinality(Saving(u)') + 1 <= Cardinality(Saving(u))
    BY <2>1, FiniteCounts, CountRemove
  <2>3. changes'[u] \in {changes[u], changes[u] + 1}
    BY DEF SaveSecrets, StoreVault, Changed, IInv, TypeOK
  <2> QED
    BY <1>1, <1>2, <2>2, <2>3, FiniteCounts
<1>4. CASE u # y.u
  <2>1. /\ Cardinality(Saving(u)') \in Nat
        /\ Cardinality(Saving(u)') <= Cardinality(Saving(u))
    BY <1>1, SavingShrinks DEF IInv, TypeOK, Saves
  <2>2. changes'[u] = changes[u]
    BY <1>4 DEF SaveSecrets, StoreVault, Changed, IInv, TypeOK
  <2> QED
    BY <1>1, <1>2, <2>1, <2>2, FiniteCounts
<1> QED
  BY <1>3, <1>4

\* Closing an account counts for the change it makes.
LEMMA AnonymizeChanges ==
  ASSUME IInv, ChangesOK, NEW r \in Request, Anonymize(r) PROVE ChangesOK'
<1> PICK y \in Flight : y = req[r] /\ y # Null
  BY DEF Anonymize, At, IInv, TypeOK
<1>1. req' = [req EXCEPT ![r] = Null] /\ UNCHANGED audits
  BY DEF Anonymize, Leave
<1>2. CASE users[y.u].closed
  <2>1. UNCHANGED <<users, audits, changes>>
    BY <1>2 DEF Anonymize
  <2> QED
    BY <1>1, <2>1, QuietChanges DEF Saves
<1>3. CASE ~users[y.u].closed
  <2> SUFFICES ASSUME NEW u \in User
               PROVE  changes'[u] + Cardinality(Saving(u)') <= audits'[u] + Closings(u)'
    BY DEF ChangesOK, Saving, Closings
  <2>1. /\ Cardinality(Saving(u)') \in Nat
        /\ Cardinality(Saving(u)') <= Cardinality(Saving(u))
    BY <1>1, SavingShrinks DEF IInv, TypeOK, Saves
  <2>2. /\ changes[u] \in Nat /\ audits[u] \in Nat
        /\ changes[u] + Cardinality(Saving(u)) <= audits[u] + Closings(u)
    BY DEF IInv, TypeOK, ChangesOK
  <2>3. users' = [users EXCEPT ![y.u] = Closed(y.u, users[y.u])]
        /\ StoreVault(y.u, Empty)
    BY <1>3 DEF Anonymize, Erased
  <2>4. CASE u = y.u
    <3> PICK old \in UserRow : old = users[u]
      BY DEF IInv, TypeOK
    <3>1. Closed(u, old).closed
      BY DEF Closed, UserRow
    <3>2. Closings(u) = 0 /\ Closings(u)' = 1
      BY <1>3, <2>3, <2>4, <3>1 DEF Closings, IInv, TypeOK
    <3>3. changes'[u] \in {changes[u], changes[u] + 1}
      BY <2>3 DEF StoreVault, Changed, IInv, TypeOK
    <3> QED
      BY <1>1, <2>1, <2>2, <3>2, <3>3, FiniteCounts
  <2>5. CASE u # y.u
    <3>1. changes'[u] = changes[u] /\ Closings(u)' = Closings(u) /\ Closings(u) \in Nat
      BY <2>3, <2>5 DEF StoreVault, Changed, Closings, IInv, TypeOK
    <3> QED
      BY <1>1, <2>1, <2>2, <3>1, FiniteCounts
  <2> QED
    BY <2>4, <2>5
<1> QED
  BY <1>2, <1>3

LEMMA ChangesStep ==
  ASSUME IInv, ChangesOK, DniOK, Live({"me"}), [Next]_vars
  PROVE  ChangesOK'
<1> USE ClosedStays
<1>1. ASSUME NEW r \in Request, NEW u \in User, NEW email, NEW dni, NEW op \in Op,
             Arrive(r, op, u, email, dni)
      PROVE  ChangesOK'
  <2> DEFINE x == [op |-> op, at |-> First(op), u |-> u,
                   usr |-> IF op \in UsesUser THEN users[u] ELSE Null,
                   vlt |-> Empty, email |-> email, dni |-> dni]
  <2>1. \A v \in User : ~Saves(x, v)
    BY DEF Saves, First
  <2> QED
    BY <1>1, <2>1, QuietChanges DEF Arrive
<1>2. ASSUME NEW r \in Request, Leave(r), UNCHANGED <<audits, changes>> PROVE ChangesOK'
  BY <1>2, QuietChanges DEF Leave, Saves
<1>3. ASSUME NEW r \in Request, NEW x \in Flight, req[r] # Null, x.op = req[r].op,
             req' = [req EXCEPT ![r] = x], req[r].op = "secrets" => x.at = "audit",
             UNCHANGED <<audits, changes>>
      PROVE  ChangesOK'
  <2>1. \A v \in User : ~Saves(x, v)
    BY <1>3 DEF Saves
  <2> QED
    BY <1>3, <2>1, QuietChanges
<1>4. ASSUME NEW r \in Request, NEW at \in Place, req[r] # Null, Go(r, at),
             req[r].op # "secrets", UNCHANGED <<audits, changes>>
      PROVE  ChangesOK'
  <2> PICK y \in Flight : y = req[r]
    BY <1>4 DEF IInv, TypeOK
  <2> PICK x \in Flight : x = [y EXCEPT !.at = at]
    BY DEF Flight
  <2>1. req' = [req EXCEPT ![r] = x] /\ x.op = y.op
    BY <1>4 DEF Go, IInv, TypeOK, Flight
  <2> QED
    BY <1>3, <1>4, <2>1
<1>5. ASSUME NEW r \in Request, req[r] # Null,
             LoadVault(r, CASE req[r].op = "secrets" -> "audit"
                            [] req[r].op = "setup" -> "save"
                            [] OTHER -> "mark")
      PROVE  ChangesOK'
  <2> PICK y \in Flight : y = req[r]
    BY <1>5 DEF IInv, TypeOK
  <2> PICK at \in Place : at = CASE y.op = "secrets" -> "audit" [] y.op = "setup" -> "save"
                                 [] OTHER -> "mark"
    BY DEF Place
  <2>1. y.u \in User /\ vault[y.u] \in VaultRow
    BY DEF Flight, IInv, TypeOK
  <2> PICK x \in Flight : x = [y EXCEPT !.at = at, !.vlt = vault[y.u]]
    BY <2>1 DEF Flight
  <2>2. req' = [req EXCEPT ![r] = x] /\ UNCHANGED <<audits, changes>>
    BY <1>5 DEF LoadVault, IInv, TypeOK
  <2>3. x.op = y.op /\ x.at = at
    BY DEF Flight
  <2> QED
    BY <1>3, <1>5, <2>2, <2>3
<1>6. ASSUME NEW r \in Request, WriteSecrets(r) PROVE ChangesOK'
  BY <1>6, WriteSecretsChanges
<1>7. ASSUME NEW r \in Request, SaveSecrets(r) PROVE ChangesOK'
  BY <1>7, SaveSecretsChanges
<1>8. ASSUME NEW r \in Request, SaveSetup(r) PROVE ChangesOK'
  BY <1>2, <1>8, SetupKeepsDni DEF SaveSetup
<1>9. ASSUME NEW r \in Request, MarkVerified(r) PROVE ChangesOK'
  BY <1>9, <1>2, <1>4 DEF MarkVerified, At, Place
<1>10. CASE UNCHANGED vars
  BY <1>10 DEF vars, ChangesOK, Saving, Closings
<1>11. ASSUME NEW r \in Request, ValidateMe(r) \/ LoadProfile(r) PROVE ChangesOK'
  BY <1>11, <1>2, <1>4 DEF ValidateMe, LoadProfile, At, Place
<1>12. ASSUME NEW r \in Request,
              \/ SaveMe(r) \/ \E personal \in BOOLEAN : SaveProfile(r, personal)
              \/ RejectCode(r) \/ ClearCode(r) \/ RefuseAnonymize(r) \/ Crash(r)
       PROVE  ChangesOK'
  BY <1>12, <1>2 DEF SaveMe, SaveProfile, RejectCode, ClearCode, RefuseAnonymize, Crash
<1>13. ASSUME NEW r \in Request, Anonymize(r) PROVE ChangesOK'
  BY <1>13, AnonymizeChanges
<1> QED
  BY <1>1, <1>5, <1>6, <1>7, <1>8, <1>9, <1>10, <1>11, <1>12, <1>13 DEF Next, Op

\* Every change of the identity data that a request commits has its row in the
\* trail by then, but the one that closing the account makes, which has none.
\* It needs a 2FA setup, which saves the identity data it read, to overlap
\* neither PATCH me/secrets nor the closing, and PATCH me, which would open the
\* account for a second closing, not to overlap the closing
\* (UserSecretSerializer.update, UserViewSet.setup_2fa, anonymize).
THEOREM TrailPrecedesChanges ==
  ASSUME {{"setup", "secrets"}, {"setup", "anonymize"}, {"me", "anonymize"}}
            \subseteq Apart
  PROVE  Spec => []ChangesAreAudited
<1> DEFINE TInv == IInv /\ ChangesOK /\ DniOK /\ Live({"me"})
<1>1. Init => TInv
  <2> SUFFICES ASSUME Init PROVE TInv
    OBVIOUS
  <2>1. ASSUME NEW u \in User
        PROVE  changes[u] + Cardinality(Saving(u)) <= audits[u] + Closings(u)
    <3>1. Saving(u) = {}
      BY DEF Init, Saving, Saves
    <3>2. Cardinality(Saving(u)) = 0
      BY <3>1, FS_EmptySet
    <3> QED
      BY <3>2 DEF Init, Closings
  <2> QED
    BY <2>1, InitInvariant DEF Init, ChangesOK, DniOK, At, Live
<1>2. TInv /\ [Next]_vars => TInv'
  <2> SUFFICES ASSUME TInv, [Next]_vars PROVE TInv'
    OBVIOUS
  <2>1. IInv' /\ ChangesOK' /\ DniOK'
    BY NextInvariant, ChangesStep, DniStep
  <2>2. Live({"me"})'
    BY LiveStep
  <2> QED
    BY <2>1, <2>2
<1>3. TInv => ChangesAreAudited
  <2> SUFFICES ASSUME TInv, NEW u \in User
               PROVE  changes[u] <= audits[u] + Closings(u)
    BY DEF ChangesAreAudited
  <2>1. changes[u] \in Nat /\ audits[u] \in Nat /\ Closings(u) \in Nat
    BY DEF IInv, TypeOK, Closings
  <2> QED
    BY <2>1, FiniteCounts DEF ChangesOK
<1> QED
  BY <1>1, <1>2, <1>3, PTL DEF Spec

-----------------------------------------------------------------------------
(***************************************************************************)
(* Closing an account.  A request that saves a whole instance puts what it *)
(* read back into a closed account; no closing overlapping it, it serves a *)
(* live one to its end.                                                    *)
(***************************************************************************)
Final(u) == /\ users[u].closed /\ users[u].email = Anon(u)
            /\ ~profile[u] /\ vault[u] = Empty

ClosedOK == \A u \in User : users[u].closed => Final(u)

LEMMA ClosedStep ==
  ASSUME IInv, Live(Savers), ClosedOK, [Next]_vars,
         NEW u \in User, users[u].closed \/ users'[u].closed
  PROVE  Final(u)'
<1>1. CASE UNCHANGED <<users, profile, vault>>
  BY <1>1 DEF ClosedOK, Final
<1>2. ASSUME NEW r \in Request, SaveMe(r) PROVE Final(u)'
  <2> PICK y \in Flight : y = req[r] /\ y # Null /\ FlightOK(y) /\ y.op = "me"
    BY <1>2 DEF SaveMe, At, IInv, TypeOK, RequestsOK
  <2>1. y.usr \in UserRow /\ ~y.usr.closed /\ ~users[y.u].closed
    BY DEF FlightOK, Live, Savers
  <2>2. ~[y.usr EXCEPT !.email = y.email].closed
    BY <2>1 DEF UserRow
  <2>3. \/ users' = users
        \/ users' = [users EXCEPT ![y.u] = [y.usr EXCEPT !.email = y.email]]
    BY <1>2 DEF SaveMe, SavedUser
  <2>4. u # y.u /\ users'[u] = users[u]
    BY <2>1, <2>2, <2>3 DEF IInv, TypeOK
  <2> QED
    BY <1>2, <2>4 DEF ClosedOK, Final, SaveMe
<1>3. ASSUME NEW r \in Request, NEW personal \in BOOLEAN, SaveProfile(r, personal)
      PROVE  Final(u)'
  <2>1. ~users[req[r].u].closed
    BY <1>3 DEF SaveProfile, At, Savers, Live
  <2> QED
    BY <1>3, <2>1 DEF SaveProfile, ClosedOK, Final, IInv, TypeOK
<1>4. ASSUME NEW r \in Request, SaveSecrets(r) \/ SaveSetup(r) PROVE Final(u)'
  <2>1. ~users[req[r].u].closed
    BY <1>4 DEF SaveSecrets, SaveSetup, At, Savers, Live
  <2>2. UNCHANGED <<users, profile>>
    BY <1>4 DEF SaveSecrets, SaveSetup
  <2>3. u # req[r].u => vault'[u] = vault[u]
    BY <1>4 DEF SaveSecrets, SaveSetup, StoreVault, IInv, TypeOK
  <2> QED
    BY <2>1, <2>2, <2>3 DEF ClosedOK, Final
<1>5. ASSUME NEW r \in Request, MarkVerified(r) PROVE Final(u)'
  <2> PICK old \in UserRow : old = users[u]
    BY DEF IInv, TypeOK
  <2>1. users'[u] = old \/ users'[u] = [old EXCEPT !.verified = TRUE]
    BY <1>5 DEF MarkVerified, Marked, IInv, TypeOK
  <2>2. users'[u].closed = old.closed /\ users'[u].email = old.email
    BY <2>1 DEF UserRow
  <2> QED
    BY <1>5, <2>2 DEF MarkVerified, ClosedOK, Final
<1>6. ASSUME NEW r \in Request, ClearCode(r) PROVE Final(u)'
  <2>1. [Empty EXCEPT !.otp = FALSE] = Empty
    <3>1. \A row \in VaultRow : ~row.otp => [row EXCEPT !.otp = FALSE] = row
      BY DEF VaultRow
    <3>2. Empty \in VaultRow /\ ~Empty.otp
      BY DEF Empty, VaultRow
    <3> QED
      BY <3>1, <3>2
  <2>2. UNCHANGED <<users, profile>>
        /\ vault'[u] \in {vault[u], [vault[u] EXCEPT !.otp = FALSE]}
    BY <1>6 DEF ClearCode, IInv, TypeOK
  <2> QED
    BY <2>1, <2>2 DEF ClosedOK, Final
<1>7. ASSUME NEW r \in Request, Anonymize(r) PROVE Final(u)'
  <2>1. CASE u = req[r].u /\ ~users[u].closed
    <3> PICK old \in UserRow : old = users[u]
      BY DEF IInv, TypeOK
    <3>1. Closed(u, old).closed /\ Closed(u, old).email = Anon(u)
      BY DEF Closed, UserRow
    <3> QED
      BY <1>7, <2>1, <3>1 DEF Anonymize, StoreVault, Erased, Final, IInv, TypeOK
  <2>2. CASE u # req[r].u \/ users[u].closed
    BY <1>7, <2>2 DEF Anonymize, StoreVault, ClosedOK, Final, IInv, TypeOK
  <2> QED
    BY <2>1, <2>2
<1> QED
  BY <1>1, <1>2, <1>3, <1>4, <1>5, <1>6, <1>7
     DEF Next, vars, Arrive, LoadVault, ValidateMe, LoadProfile, WriteSecrets,
     RejectCode, RefuseAnonymize, Crash

\* "This cannot be undone": a closed account stays closed, under no address of
\* its own, its profile and its vault empty, while the closing overlaps none of
\* the handlers that save whole instances; they may overlap each other, and
\* verifications anything.  f_resurrected_by_me shows the hypothesis is needed
\* (UserViewSet.anonymize_account, me, me_profile, me_secrets, setup_2fa).
THEOREM ClosingIsFinal ==
  ASSUME \A op \in Savers : {op, "anonymize"} \in Apart
  PROVE  Spec => ClosedIsFinal
<1> DEFINE CInv == IInv /\ ClosedOK /\ Live(Savers)
<1>1. Init => CInv
  BY InitInvariant DEF Init, ClosedOK, Live
<1>2. CInv /\ [Next]_vars => CInv'
  <2> SUFFICES ASSUME CInv, [Next]_vars PROVE CInv'
    OBVIOUS
  <2>1. IInv' /\ ClosedOK'
    BY NextInvariant, ClosedStep DEF ClosedOK, Final
  <2>2. Live(Savers)'
    BY LiveStep
  <2> QED
    BY <2>1, <2>2
<1>3. CInv /\ [Next]_vars =>
        [\A u \in User : users[u].closed =>
           /\ users'[u].closed /\ users'[u].email = Anon(u)
           /\ ~profile'[u] /\ vault'[u] = Empty]_vars
  BY ClosedStep DEF Final
<1> QED
  BY <1>1, <1>2, <1>3, PTL DEF Spec, ClosedIsFinal

\* Of all the requests that overlap, fail and crash, the only one that takes
\* is_verified away is a PATCH me that read the user before the verification
\* and saves it after (UserViewSet.me, verify_email, UserSerializer).
THEOREM VerificationIsKept == Spec => VerifiedIsKept
<1>1. IInv /\ [Next]_vars =>
        [\A u \in User : users[u].verified /\ ~users'[u].verified =>
            \E r \in Request : /\ At(r, "me", "save") /\ req'[r] = Null
                               /\ req[r].u = u /\ ~req[r].usr.verified]_vars
  <2> SUFFICES ASSUME IInv, [Next]_vars, NEW u \in User,
                      users[u].verified, ~users'[u].verified
               PROVE  \E r \in Request : /\ At(r, "me", "save") /\ req'[r] = Null
                                         /\ req[r].u = u /\ ~req[r].usr.verified
    OBVIOUS
  <2> PICK old \in UserRow : old = users[u]
    BY DEF IInv, TypeOK
  <2>1. users'[u] # users[u]
    OBVIOUS
  <2>2. ASSUME NEW r \in Request, SaveMe(r)
        PROVE  /\ At(r, "me", "save") /\ req'[r] = Null
               /\ req[r].u = u /\ ~req[r].usr.verified
    <3> PICK y \in Flight : y = req[r] /\ y # Null /\ FlightOK(y) /\ y.op = "me"
      BY <2>2 DEF SaveMe, At, IInv, TypeOK, RequestsOK
    <3>1. u = y.u /\ users'[u] = [y.usr EXCEPT !.email = y.email] /\ y.usr \in UserRow
      BY <2>1, <2>2 DEF SaveMe, SavedUser, FlightOK, IInv, TypeOK
    <3>2. ~y.usr.verified
      BY <3>1 DEF UserRow
    <3>3. req'[r] = Null
      BY <2>2 DEF SaveMe, Leave, IInv, TypeOK
    <3> QED
      BY <2>2, <3>1, <3>2, <3>3 DEF SaveMe
  <2>3. ASSUME NEW r \in Request, MarkVerified(r) PROVE FALSE
    <3>1. users'[u] \in {old, [old EXCEPT !.verified = TRUE]}
      BY <2>3 DEF MarkVerified, Marked, IInv, TypeOK
    <3> QED
      BY <3>1 DEF UserRow
  <2>4. ASSUME NEW r \in Request, Anonymize(r) PROVE FALSE
    <3>1. users'[u] \in {old, Closed(u, old)}
      BY <2>4 DEF Anonymize, IInv, TypeOK
    <3> QED
      BY <3>1 DEF Closed, UserRow
  <2> QED
    BY <2>1, <2>2, <2>3, <2>4
       DEF Next, vars, Arrive, LoadVault, ValidateMe, LoadProfile, SaveProfile,
       WriteSecrets, SaveSecrets, SaveSetup, RejectCode, ClearCode, RefuseAnonymize, Crash
<1> QED
  BY <1>1, InitInvariant, NextInvariant, PTL DEF Spec, VerifiedIsKept
=============================================================================
