-------------------------- MODULE TwoFactor_proofs --------------------------
(***************************************************************************)
(* Theorems about TwoFactor, for any keys, spellings, workers, lifetimes   *)
(* and number of requests.                                                 *)
(*                                                                         *)
(* Nothing in the code keeps two requests of one account apart, and the    *)
(* run f_setup_race shows what that costs.  The theorem about the stored   *)
(* key asks for the four overlaps that do the damage to be kept out        *)
(* (Harmful) and allows every other one; the one about the cache allows    *)
(* all.                                                                    *)
(***************************************************************************)
EXTENDS TwoFactor, TLAPS

InFlight(r, op) == req[r] # None /\ req[r].op = op

\* What holds of every request in flight, whatever overlaps.
FlightOK(x) ==
  /\ x.op = "setup" => x.at \in {"auth", "save", "reply"}
  /\ x.op = "activate" => x.at \in {"auth", "verify", "enable"}
  /\ x.op = "activate" /\ x.at # "enable" => x.token \in Token
  /\ x.op = "secrets" => x.at \in {"auth", "save"} /\ x.key \in drawn \cup {None}
  /\ x.op \in {"me", "anonymize"} => x.at = "auth"
  /\ x.at \in {"reply", "verify", "enable"} => x.key \in drawn
  /\ x.at = "enable" => x.key \in confirmed
  /\ x.op = "setup" /\ x.at = "save" => ~x.enabled

RequestsOK == \A r \in Request : req[r] # None => FlightOK(req[r])

IInv == TypeOK /\ RequestsOK

LEMMA InitInvariant == Init => IInv
<1> SUFFICES ASSUME Init PROVE IInv
  OBVIOUS
<1>1. clock \in Time
  BY TimeAssumption DEF Init, Time
<1>2. /\ used \in [Worker -> [Token -> 0..(MaxTime + UsedTTL) \cup {None}]]
      /\ accepted \in [Token -> Time \cup {None}]
  BY DEF Init
<1>3. req \in [Request -> Flight \cup {None}] /\ RequestsOK
  BY DEF Init, RequestsOK
<1> QED
  BY <1>1, <1>2, <1>3 DEF Init, IInv, TypeOK

-----------------------------------------------------------------------------
\* One request moves; keys drawn and confirmed only grow.
LEMMA RequestsAdvance ==
  ASSUME IInv, NEW r \in Request, NEW x \in Flight \cup {None},
         req' = [req EXCEPT ![r] = x],
         x # None => FlightOK(x)',
         drawn \subseteq drawn', confirmed \subseteq confirmed'
  PROVE  RequestsOK' /\ req' \in [Request -> Flight \cup {None}]
<1>1. \A s \in Request : req'[s] = IF s = r THEN x ELSE req[s]
  BY DEF IInv, TypeOK
<1>2. ASSUME NEW s \in Request, req'[s] # None PROVE FlightOK(req[s])'
  <2>1. CASE s = r
    <3>1. FlightOK(x)' /\ req'[s] = x
      BY <1>1, <1>2, <2>1
    <3> QED
      BY <3>1 DEF FlightOK
  <2>2. CASE s # r
    <3>1. req'[s] = req[s] /\ FlightOK(req[s])
      BY <1>1, <1>2, <2>2 DEF IInv, RequestsOK
    <3> QED
      BY <3>1 DEF FlightOK
  <2> QED
    BY <2>1, <2>2
<1> QED
  BY <1>2 DEF RequestsOK, IInv, TypeOK

\* One request moves and nothing else does.
LEMMA QuietStep ==
  ASSUME IInv, NEW r \in Request, NEW x \in Flight \cup {None},
         req' = [req EXCEPT ![r] = x], x # None => FlightOK(x),
         UNCHANGED <<clock, drawn, key, enabled, closed, used, shown, confirmed, accepted>>
  PROVE  IInv'
<1>1. x # None => FlightOK(x)'
  BY DEF FlightOK
<1>2. drawn \subseteq drawn' /\ confirmed \subseteq confirmed'
  OBVIOUS
<1>3. RequestsOK' /\ req' \in [Request -> Flight \cup {None}]
  BY <1>1, <1>2, RequestsAdvance
<1> QED
  BY <1>3 DEF IInv, TypeOK

LEMMA LeaveKeeps ==
  ASSUME IInv, NEW r \in Request, Leave(r),
         UNCHANGED <<clock, drawn, key, enabled, closed, used, shown, confirmed, accepted>>
  PROVE  IInv'
  BY QuietStep DEF Leave

LEMMA ArriveKeeps ==
  ASSUME IInv, NEW r \in Request, NEW op \in Op, NEW b \in Worker \cup {None},
         NEW tok \in Token \cup {None}, op = "activate" => tok \in Token,
         Arrive(r, op, b, tok)
  PROVE  IInv'
<1>a. (op \in {"setup", "me"} /\ enabled) \in BOOLEAN
  OBVIOUS
<1> PICK x \in Flight : x = [op |-> op, at |-> "auth", backend |-> b,
           enabled |-> op \in {"setup", "me"} /\ enabled, key |-> None, token |-> tok]
  BY <1>a DEF Flight
<1>1. FlightOK(x)
  BY DEF FlightOK
<1>2. req' = [req EXCEPT ![r] = x]
  BY DEF Arrive, account, cache
<1>3. UNCHANGED <<clock, drawn, key, enabled, closed, used, shown, confirmed, accepted>>
  BY DEF Arrive, account, cache
<1> QED
  BY <1>1, <1>2, <1>3, QuietStep

LEMMA GuardSetupKeeps == ASSUME IInv, NEW r \in Request, GuardSetup(r) PROVE IInv'
<1>1. CASE MaySetUp(r)
  <2> PICK y \in Flight : y = req[r] /\ FlightOK(y) /\ y.at = "auth" /\ y.op = "setup"
                          /\ ~y.enabled
    BY <1>1 DEF GuardSetup, At, MaySetUp, IInv, TypeOK, RequestsOK, account, cache
  <2> PICK x \in Flight : x = [y EXCEPT !.at = "save"]
    BY DEF Flight
  <2>1. FlightOK(x)
    BY DEF FlightOK, Flight
  <2>2. req' = [req EXCEPT ![r] = x]
    BY <1>1 DEF GuardSetup, IInv, TypeOK, account, cache
  <2> QED
    BY <2>1, <2>2, QuietStep DEF GuardSetup, account, cache
<1> QED
  BY <1>1, LeaveKeeps DEF GuardSetup, account, cache

LEMMA SaveSetupKeeps ==
  ASSUME IInv, NEW r \in Request, NEW k \in Key, SaveSetup(r, k) PROVE IInv'
<1> PICK y \in Flight : y = req[r] /\ FlightOK(y) /\ y.at = "save" /\ y.op = "setup"
  BY DEF SaveSetup, At, IInv, TypeOK, RequestsOK
<1> PICK x \in Flight : x = [y EXCEPT !.at = "reply", !.key = k]
  BY DEF Flight
<1>1. drawn' = drawn \cup {k} /\ UNCHANGED confirmed
  BY DEF SaveSetup, account, cache
<1>2. FlightOK(x)'
  BY <1>1 DEF FlightOK, Flight
<1>3. req' = [req EXCEPT ![r] = x]
  BY DEF SaveSetup, IInv, TypeOK, account, cache
<1>4. RequestsOK' /\ req' \in [Request -> Flight \cup {None}]
  BY <1>1, <1>2, <1>3, RequestsAdvance
<1> QED
  BY <1>4 DEF IInv, TypeOK, SaveSetup, account, cache

LEMMA ReplyKeeps == ASSUME IInv, NEW r \in Request, Reply(r) PROVE IInv'
<1>1. req[r].key \in drawn
  BY DEF Reply, At, IInv, RequestsOK, FlightOK
<1>2. RequestsOK' /\ req' \in [Request -> Flight \cup {None}]
  BY RequestsAdvance DEF Reply, Leave, account, cache
<1> QED
  BY <1>1, <1>2 DEF IInv, TypeOK, Reply, account, cache

LEMMA LookUpTokenKeeps == ASSUME IInv, NEW r \in Request, LookUpToken(r) PROVE IInv'
<1>1. CASE ~(key = None \/ IsUsed(req[r].backend, req[r].token))
  <2> PICK y \in Flight : y = req[r] /\ FlightOK(y) /\ y.at = "auth" /\ y.op = "activate"
    BY DEF LookUpToken, At, IInv, TypeOK, RequestsOK
  <2>1. key \in drawn /\ key \in Key
    BY <1>1 DEF IInv, TypeOK
  <2> PICK x \in Flight : x = [y EXCEPT !.at = "verify", !.key = key]
    BY <2>1 DEF Flight
  <2>2. FlightOK(x)
    BY <2>1 DEF FlightOK, Flight
  <2>3. req' = [req EXCEPT ![r] = x]
    BY <1>1 DEF LookUpToken, IInv, TypeOK, account, cache
  <2> QED
    BY <2>2, <2>3, QuietStep DEF LookUpToken, account, cache
<1> QED
  BY <1>1, LeaveKeeps DEF LookUpToken, account, cache

\* An accepted token is remembered where it was looked up.
LEMMA AcceptTokenKeeps == ASSUME IInv, NEW r \in Request, AcceptToken(r) PROVE IInv'
<1> PICK y \in Flight : y = req[r] /\ FlightOK(y) /\ y.at = "verify" /\ y.op = "activate"
  BY DEF AcceptToken, Accepts, At, IInv, TypeOK, RequestsOK
<1> PICK x \in Flight : x = [y EXCEPT !.at = "enable", !.backend = None, !.token = None]
  BY DEF Flight
<1>1. y.token.key = y.key /\ y.key \in drawn
  BY DEF AcceptToken, Accepts, Verifies, FlightOK
<1>2. confirmed' = confirmed \cup {y.key} /\ UNCHANGED drawn
  BY <1>1 DEF AcceptToken, account, cache
<1>3. FlightOK(x)'
  BY <1>1, <1>2 DEF FlightOK, Flight
<1>4. req' = [req EXCEPT ![r] = x]
  BY DEF AcceptToken, IInv, TypeOK, account, cache
<1>5. RequestsOK' /\ req' \in [Request -> Flight \cup {None}]
  BY <1>2, <1>3, <1>4, RequestsAdvance
<1>6. used' \in [Worker -> [Token -> 0..(MaxTime + UsedTTL) \cup {None}]]
  <2>1. clock + UsedTTL \in 0..(MaxTime + UsedTTL)
    BY TimeAssumption DEF IInv, TypeOK, Time
  <2> QED
    BY <2>1 DEF AcceptToken, Remembered, IInv, TypeOK, account, cache
<1>7. accepted' \in [Token -> Time \cup {None}]
  BY DEF AcceptToken, IInv, TypeOK, account, cache
<1> QED
  BY <1>1, <1>2, <1>5, <1>6, <1>7 DEF IInv, TypeOK, AcceptToken, account, cache

LEMMA LoadSecretsKeeps == ASSUME IInv, NEW r \in Request, LoadSecrets(r) PROVE IInv'
<1> PICK y \in Flight : y = req[r] /\ FlightOK(y) /\ y.op = "secrets"
  BY DEF LoadSecrets, At, IInv, TypeOK, RequestsOK
<1>1. key \in drawn \cup {None} /\ key \in Key \cup {None}
  BY DEF IInv, TypeOK
<1> PICK x \in Flight : x = [y EXCEPT !.at = "save", !.key = key]
  BY <1>1 DEF Flight
<1>2. FlightOK(x)
  BY <1>1 DEF FlightOK, Flight
<1>3. req' = [req EXCEPT ![r] = x]
  BY DEF LoadSecrets, IInv, TypeOK
<1>4. UNCHANGED <<clock, drawn, key, enabled, closed, used, shown, confirmed, accepted>>
  BY DEF LoadSecrets, account, cache
<1> QED
  BY <1>2, <1>3, <1>4, QuietStep

\* The last step of the other writers of the account.
LEMMA OtherSaveKeeps ==
  ASSUME IInv, NEW r \in Request, SaveSecrets(r) \/ SaveMe(r) \/ Anonymize(r)
  PROVE  IInv'
<1>1. Leave(r) /\ UNCHANGED <<clock, drawn, used, shown, confirmed, accepted>>
  BY DEF SaveSecrets, SaveMe, Anonymize, cache
<1>2. RequestsOK' /\ req' \in [Request -> Flight \cup {None}]
  BY <1>1, RequestsAdvance DEF Leave
<1>3. key' \in drawn \cup {None}
  BY DEF SaveSecrets, SaveMe, Anonymize, At, IInv, TypeOK, RequestsOK, FlightOK
<1>4. enabled' \in BOOLEAN
  BY DEF SaveSecrets, SaveMe, Anonymize, At, IInv, TypeOK, Flight
<1>5. closed' \in BOOLEAN
  BY DEF SaveSecrets, SaveMe, Anonymize, IInv, TypeOK
<1> QED
  BY <1>1, <1>2, <1>3, <1>4, <1>5 DEF IInv, TypeOK

LEMMA TickKeeps == ASSUME IInv, Tick PROVE IInv'
<1>1. clock' \in Time
  BY TimeAssumption DEF Tick, IInv, TypeOK, Time, account, cache
<1>2. RequestsOK'
  BY DEF Tick, IInv, RequestsOK, FlightOK, account, cache
<1> QED
  BY <1>1, <1>2 DEF IInv, TypeOK, Tick, account, cache

LEMMA NextInvariant == IInv /\ [Next]_vars => IInv'
<1> SUFFICES ASSUME IInv, [Next]_vars PROVE IInv'
  OBVIOUS
<1>1. ASSUME NEW r \in Request, NEW op \in Op \ {"activate"}, Arrive(r, op, None, None)
      PROVE  IInv'
  BY <1>1, ArriveKeeps
<1>2. ASSUME NEW r \in Request, NEW w \in Worker, NEW tok \in Token,
             Arrive(r, "activate", Slot(w), tok)
      PROVE  IInv'
  <2>1. Slot(w) \in Worker /\ "activate" \in Op
    BY DEF Slot, Op
  <2> QED
    BY <1>2, <2>1, ArriveKeeps
<1>3. ASSUME NEW r \in Request, GuardSetup(r) PROVE IInv'
  BY <1>3, GuardSetupKeeps
<1>4. ASSUME NEW r \in Request, LookUpToken(r) PROVE IInv'
  BY <1>4, LookUpTokenKeeps
<1>5. ASSUME NEW r \in Request, AcceptToken(r) PROVE IInv'
  BY <1>5, AcceptTokenKeeps
<1>6. ASSUME NEW r \in Request, RefuseToken(r) PROVE IInv'
  BY <1>6, LeaveKeeps DEF RefuseToken, account, cache
<1>7. ASSUME NEW r \in Request, Reply(r) PROVE IInv'
  BY <1>7, ReplyKeeps
<1>8. ASSUME NEW r \in Request, Enable(r) PROVE IInv'
  <2>1. RequestsOK' /\ req' \in [Request -> Flight \cup {None}]
    BY <1>8, RequestsAdvance DEF Enable, Leave, account, cache
  <2> QED
    BY <1>8, <2>1 DEF IInv, TypeOK, Enable, account, cache
<1>9. ASSUME NEW r \in Request, Crash(r) PROVE IInv'
  BY <1>9, LeaveKeeps DEF Crash, account, cache
<1>10. ASSUME NEW r \in Request, NEW k \in Key, SaveSetup(r, k) PROVE IInv'
  BY <1>10, SaveSetupKeeps
<1>14. ASSUME NEW r \in Request, LoadSecrets(r) PROVE IInv'
  BY <1>14, LoadSecretsKeeps
<1>15. ASSUME NEW r \in Request, SaveSecrets(r) \/ SaveMe(r) \/ Anonymize(r) PROVE IInv'
  BY <1>15, OtherSaveKeeps
<1>11. CASE Deactivate
  BY <1>11 DEF Deactivate, IInv, TypeOK, RequestsOK, FlightOK, account, cache
<1>12. CASE Tick
  BY <1>12, TickKeeps
<1>13. CASE UNCHANGED vars
  BY <1>13 DEF vars, account, cache, IInv, TypeOK, RequestsOK, FlightOK
<1> QED
  BY <1>1, <1>2, <1>3, <1>4, <1>5, <1>6, <1>7, <1>8, <1>9, <1>10, <1>11, <1>12,
     <1>13, <1>14, <1>15 DEF Next

\* Requests, keys, tokens and cache entries stay in their ranges; a key is
\* shown or confirmed only if setup_2fa drew it.
THEOREM TypeInvariant == Spec => []TypeOK
<1>1. IInv => TypeOK
  BY DEF IInv
<1> QED
  BY <1>1, InitInvariant, NextInvariant, PTL DEF Spec

-----------------------------------------------------------------------------
(***************************************************************************)
(* The stored key.  Four overlaps let a request write the key or the flag  *)
(* by what it read too early; without them what was read still holds.      *)
(***************************************************************************)

\* A setup beside an activation, beside a PATCH me/secrets that writes the old
\* key back, or beside a PATCH me that writes the flag back; a PATCH me beside
\* the closure.
Harmful == {{"setup", "activate"}, {"setup", "secrets"}, {"setup", "me"},
            {"me", "anonymize"}}

KeptApart ==
  \A r, s \in Request :
    r # s /\ req[r] # None /\ req[s] # None => {req[r].op, req[s].op} \notin Apart

\* A request keeps its handler from its arrival to its end.
LEMMA OpsStay ==
  ASSUME IInv, [Next]_vars, NEW r \in Request, req'[r] # None
  PROVE  \/ req[r] # None /\ req'[r].op = req[r].op
         \/ /\ req[r] = None
            /\ \A s \in Request \ {r} :
                 /\ req'[s] = req[s]
                 /\ req[s] # None => {req[s].op, req'[r].op} \notin Apart
<1> DEFINE Goal == \/ req[r] # None /\ req'[r].op = req[r].op
                   \/ /\ req[r] = None
                      /\ \A s \in Request \ {r} :
                           /\ req'[s] = req[s]
                           /\ req[s] # None => {req[s].op, req'[r].op} \notin Apart
<1>1. ASSUME NEW s \in Request, NEW op, NEW b, NEW tok, Arrive(s, op, b, tok)
      PROVE  Goal
  <2>1. \A q \in Request : q # s => req'[q] = req[q]
    BY <1>1 DEF Arrive, IInv, TypeOK
  <2>2. CASE r = s
    <3>1. req'[r].op = op /\ req[r] = None
      BY <1>1, <2>2 DEF Arrive, IInv, TypeOK
    <3> QED
      BY <1>1, <2>1, <2>2, <3>1 DEF Arrive
  <2> QED
    BY <2>1, <2>2
\* Any other action moves one request within its handler, or ends it.
<1>2. ASSUME NEW s \in Request, NEW x, req' = [req EXCEPT ![s] = x],
             x = None \/ (req[s] # None /\ x.op = req[s].op)
      PROVE  Goal
  <2>1. \A q \in Request : req'[q] = IF q = s THEN x ELSE req[q]
    BY <1>2 DEF IInv, TypeOK
  <2> QED
    BY <1>2, <2>1
<1>3. ASSUME NEW s \in Request, Leave(s) PROVE Goal
  BY <1>2, <1>3 DEF Leave
<1>4. ASSUME NEW s \in Request, GuardSetup(s) \/ LookUpToken(s) \/ LoadSecrets(s)
                                \/ AcceptToken(s)
      PROVE  Goal
  <2> PICK y \in Flight : y = req[s]
    BY <1>4 DEF GuardSetup, LookUpToken, LoadSecrets, AcceptToken, Accepts, At, IInv, TypeOK
  <2>1. y # None
    BY NoneAssumption
  <2>2. CASE Leave(s)
    BY <1>3, <2>2
  <2>3. CASE req' = [req EXCEPT ![s] = [y EXCEPT !.at = "save"]]
    BY <1>2, <2>1, <2>3 DEF Flight
  <2>4. CASE req' = [req EXCEPT ![s] = [y EXCEPT !.at = "verify", !.key = key]]
    BY <1>2, <2>1, <2>4 DEF Flight
  <2>5. CASE req' = [req EXCEPT ![s] = [y EXCEPT !.at = "save", !.key = key]]
    BY <1>2, <2>1, <2>5 DEF Flight
  <2>6. CASE req' = [req EXCEPT ![s] = [y EXCEPT !.at = "enable", !.backend = None,
                                                 !.token = None]]
    BY <1>2, <2>1, <2>6 DEF Flight
  <2>7. \/ Leave(s)
        \/ req' = [req EXCEPT ![s] = [y EXCEPT !.at = "save"]]
        \/ req' = [req EXCEPT ![s] = [y EXCEPT !.at = "verify", !.key = key]]
        \/ req' = [req EXCEPT ![s] = [y EXCEPT !.at = "save", !.key = key]]
        \/ req' = [req EXCEPT ![s] = [y EXCEPT !.at = "enable", !.backend = None,
                                               !.token = None]]
    BY <1>4 DEF GuardSetup, LookUpToken, LoadSecrets, AcceptToken, IInv, TypeOK
  <2> QED
    BY <2>2, <2>3, <2>4, <2>5, <2>6, <2>7
<1>5. ASSUME NEW s \in Request, NEW k \in Key, SaveSetup(s, k) PROVE Goal
  <2> PICK y \in Flight : y = req[s]
    BY <1>5 DEF SaveSetup, At, IInv, TypeOK
  <2>1. y # None
    BY NoneAssumption
  <2>2. req' = [req EXCEPT ![s] = [y EXCEPT !.at = "reply", !.key = k]]
    BY <1>5 DEF SaveSetup, IInv, TypeOK
  <2> QED
    BY <1>2, <2>1, <2>2 DEF Flight
<1>6. CASE UNCHANGED req
  BY <1>6
<1> QED
  BY <1>1, <1>3, <1>4, <1>5, <1>6
     DEF Next, vars, Reply, RefuseToken, Enable, SaveSecrets, SaveMe, Anonymize, Crash,
         Deactivate, Tick

LEMMA KeptApartStep ==
  IInv /\ KeptApart /\ [Next]_vars => KeptApart'
<1> SUFFICES ASSUME IInv, KeptApart, [Next]_vars,
                    NEW r \in Request, NEW s \in Request, r # s,
                    req'[r] # None, req'[s] # None
             PROVE  {req'[r].op, req'[s].op} \notin Apart
  BY DEF KeptApart
<1>1. CASE req[r] # None /\ req[s] # None
  BY <1>1, OpsStay DEF KeptApart
<1>2. CASE req[r] = None
  <2>1. req'[s] = req[s] /\ {req[s].op, req'[r].op} \notin Apart
    BY <1>2, OpsStay
  <2> QED
    BY <2>1
<1>3. CASE req[s] = None
  <2>1. req'[r] = req[r] /\ {req[r].op, req'[s].op} \notin Apart
    BY <1>3, OpsStay
  <2> QED
    BY <2>1
<1> QED
  BY <1>1, <1>2, <1>3

KeyOK ==
  /\ enabled /\ ~closed => key \in confirmed
  /\ \A r \in Request :
       /\ InFlight(r, "setup") /\ ~req[r].enabled => ~enabled \/ closed
       /\ InFlight(r, "activate") /\ req[r].at \in {"verify", "enable"}
            => req[r].key = key \/ closed
       /\ InFlight(r, "secrets") /\ req[r].at = "save" => req[r].key = key \/ closed
       /\ InFlight(r, "me") => ~closed /\ (req[r].enabled => key \in confirmed)

\* A request that KeyOK says nothing wrong about.
Harmless(x) ==
  /\ x.op = "setup" /\ ~x.enabled => ~enabled \/ closed
  /\ x.op = "activate" /\ x.at \in {"verify", "enable"} => x.key = key \/ closed
  /\ x.op = "secrets" /\ x.at = "save" => x.key = key \/ closed
  /\ x.op = "me" => ~closed /\ (x.enabled => key \in confirmed)

LEMMA KeyStep ==
  ASSUME Harmful \subseteq Apart, IInv, KeyOK, KeptApart, [Next]_vars
  PROVE  KeyOK'
\* What the hypothesis says of a request in flight.
<1>a. ASSUME NEW r \in Request, NEW s \in Request, NEW p, NEW o, {o, p} \in Harmful,
             o # p, InFlight(r, o)
      PROVE  ~InFlight(s, p)
  <2>1. {o, p} \in Apart
    BY <1>a
  <2> QED
    BY <1>a, <2>1 DEF KeptApart, InFlight
\* One request leaves, or moves without touching the account.
<1>q. ASSUME NEW r \in Request, NEW x, x # None => Harmless(x),
             req' = [req EXCEPT ![r] = x],
             UNCHANGED <<key, enabled, closed>>, confirmed \subseteq confirmed'
      PROVE  KeyOK'
  <2>1. \A s \in Request : req'[s] = IF s = r THEN x ELSE req[s]
    BY <1>q DEF IInv, TypeOK
  <2> QED
    BY <1>q, <2>1 DEF KeyOK, InFlight, Harmless
<1>h. ASSUME NEW r \in Request, req[r] # None PROVE Harmless(req[r])
  BY <1>h DEF KeyOK, InFlight, Harmless
<1>1. ASSUME NEW r \in Request, Leave(r), UNCHANGED <<key, enabled, closed, confirmed>>
      PROVE  KeyOK'
  BY <1>1, <1>q DEF Leave
<1>2. ASSUME NEW r \in Request, NEW op \in Op, NEW b \in Worker \cup {None},
             NEW tok \in Token \cup {None}, Arrive(r, op, b, tok)
      PROVE  KeyOK'
  <2> DEFINE x == [op |-> op, at |-> "auth", backend |-> b,
                   enabled |-> op \in {"setup", "me"} /\ enabled, key |-> None, token |-> tok]
  <2>1. req' = [req EXCEPT ![r] = x] /\ UNCHANGED <<key, enabled, closed, confirmed>>
    BY <1>2 DEF Arrive, account
  <2>2. ~closed /\ (enabled => key \in confirmed)
    BY <1>2 DEF Arrive, KeyOK
  <2>3. Harmless(x)
    BY <2>2 DEF Harmless
  <2> HIDE DEF x
  <2> QED
    BY <2>1, <2>3, <1>q
<1>3. ASSUME NEW r \in Request, GuardSetup(r) PROVE KeyOK'
  <2>0. UNCHANGED <<key, enabled, closed, confirmed>>
    BY <1>3 DEF GuardSetup, account
  <2>1. CASE MaySetUp(r)
    <3> PICK y \in Flight : y = req[r] /\ y.op = "setup" /\ Harmless(y)
      BY <1>3, <1>h DEF GuardSetup, At, IInv, TypeOK
    <3> PICK x \in Flight : x = [y EXCEPT !.at = "save"]
      BY DEF Flight
    <3>1. req' = [req EXCEPT ![r] = x]
      BY <1>3, <2>1 DEF GuardSetup, IInv, TypeOK
    <3>2. Harmless(x)
      BY DEF Flight, Harmless
    <3> QED
      BY <3>1, <3>2, <2>0, <1>q
  <2>2. CASE ~MaySetUp(r)
    BY <1>3, <2>0, <2>2, <1>1 DEF GuardSetup
  <2> QED
    BY <2>1, <2>2
\* A setup that got this far read the user without 2FA: it has none now.
<1>4. ASSUME NEW r \in Request, NEW k \in Key, SaveSetup(r, k) PROVE KeyOK'
  <2> PICK y \in Flight : y = req[r] /\ y.op = "setup" /\ InFlight(r, "setup")
    BY <1>4 DEF SaveSetup, At, IInv, TypeOK, InFlight
  <2>1. ~enabled \/ closed
    BY <1>4 DEF SaveSetup, At, IInv, RequestsOK, FlightOK, KeyOK, InFlight
  <2> PICK x \in Flight : x = [y EXCEPT !.at = "reply", !.key = k]
    BY DEF Flight
  <2>2. req' = [req EXCEPT ![r] = x] /\ UNCHANGED <<enabled, closed>>
    BY <1>4 DEF SaveSetup, IInv, TypeOK
  <2>3. \A s \in Request, p \in {"activate", "secrets", "me"} : ~InFlight(s, p)
    <3>1. \A p \in {"activate", "secrets", "me"} : {"setup", p} \in Harmful /\ p # "setup"
      BY DEF Harmful
    <3> QED
      BY <3>1, <1>a
  <2>4. x.op = "setup"
    BY DEF Flight
  <2>5. \A s \in Request : req'[s] = IF s = r THEN x ELSE req[s]
    BY <2>2 DEF IInv, TypeOK
  <2>6. \A s \in Request, p \in {"activate", "secrets", "me"} : ~InFlight(s, p)'
    BY <2>3, <2>4, <2>5 DEF InFlight
  <2> QED
    BY <2>1, <2>2, <2>6 DEF KeyOK
<1>5. ASSUME NEW r \in Request, LookUpToken(r) PROVE KeyOK'
  <2>0. UNCHANGED <<key, enabled, closed, confirmed>>
    BY <1>5 DEF LookUpToken, account
  <2>1. CASE ~(key = None \/ IsUsed(req[r].backend, req[r].token))
    <3> PICK y \in Flight : y = req[r] /\ y.op = "activate"
      BY <1>5 DEF LookUpToken, At, IInv, TypeOK
    <3>1. key \in Key
      BY <2>1 DEF IInv, TypeOK
    <3> PICK x \in Flight : x = [y EXCEPT !.at = "verify", !.key = key]
      BY <3>1 DEF Flight
    <3>2. req' = [req EXCEPT ![r] = x]
      BY <1>5, <2>1 DEF LookUpToken, IInv, TypeOK
    <3>3. Harmless(x)
      BY DEF Flight, Harmless
    <3> QED
      BY <3>2, <3>3, <2>0, <1>q
  <2>2. CASE key = None \/ IsUsed(req[r].backend, req[r].token)
    BY <1>5, <2>0, <2>2, <1>1 DEF LookUpToken
  <2> QED
    BY <2>1, <2>2
<1>6. ASSUME NEW r \in Request, AcceptToken(r) PROVE KeyOK'
  <2> PICK y \in Flight : y = req[r] /\ y.op = "activate" /\ y.at = "verify" /\ Harmless(y)
    BY <1>6, <1>h DEF AcceptToken, Accepts, At, IInv, TypeOK
  <2> PICK x \in Flight : x = [y EXCEPT !.at = "enable", !.backend = None, !.token = None]
    BY DEF Flight
  <2>1. req' = [req EXCEPT ![r] = x] /\ UNCHANGED <<key, enabled, closed>>
        /\ confirmed \subseteq confirmed'
    BY <1>6 DEF AcceptToken, IInv, TypeOK
  <2>2. Harmless(x)
    BY DEF Flight, Harmless
  <2> QED
    BY <2>1, <2>2, <1>q
\* The key that accepted the token is still the stored one.
<1>7. ASSUME NEW r \in Request, Enable(r) PROVE KeyOK'
  <2>1. key \in confirmed \/ closed
    BY <1>7 DEF Enable, At, IInv, RequestsOK, FlightOK, KeyOK, InFlight
  <2>2. \A s \in Request : ~InFlight(s, "setup")
    <3>1. {"activate", "setup"} \in Harmful /\ InFlight(r, "activate")
      BY <1>7 DEF Harmful, InFlight, Enable, At
    <3> QED
      BY <3>1, <1>a
  <2>3. \A s \in Request : req'[s] = IF s = r THEN None ELSE req[s]
    BY <1>7 DEF Enable, Leave, IInv, TypeOK
  <2>4. UNCHANGED <<key, closed, confirmed>>
    BY <1>7 DEF Enable
  <2> QED
    BY <2>1, <2>2, <2>3, <2>4 DEF KeyOK, InFlight
\* The key a PATCH me/secrets read is still the stored one, and so is the flag
\* a PATCH me read as good as the stored one.
<1>8. ASSUME NEW r \in Request, LoadSecrets(r) PROVE KeyOK'
  <2> PICK y \in Flight : y = req[r] /\ y.op = "secrets"
    BY <1>8 DEF LoadSecrets, At, IInv, TypeOK
  <2>1. key \in Key \cup {None}
    BY DEF IInv, TypeOK
  <2> PICK x \in Flight : x = [y EXCEPT !.at = "save", !.key = key]
    BY <2>1 DEF Flight
  <2>2. req' = [req EXCEPT ![r] = x] /\ UNCHANGED <<key, enabled, closed, confirmed>>
    BY <1>8 DEF LoadSecrets, IInv, TypeOK, account
  <2>3. Harmless(x)
    BY DEF Flight, Harmless
  <2> QED
    BY <2>2, <2>3, <1>q
<1>9. ASSUME NEW r \in Request, SaveSecrets(r) PROVE KeyOK'
  <2>1. req[r].key = key \/ closed
    BY <1>9 DEF SaveSecrets, At, KeyOK, InFlight
  <2>2. \A s \in Request : req'[s] = IF s = r THEN None ELSE req[s]
    BY <1>9 DEF SaveSecrets, Leave, IInv, TypeOK
  <2>3. key' = req[r].key /\ UNCHANGED <<enabled, closed, confirmed>>
    BY <1>9 DEF SaveSecrets
  <2> QED
    BY <2>1, <2>2, <2>3 DEF KeyOK, InFlight
<1>10. ASSUME NEW r \in Request, SaveMe(r) PROVE KeyOK'
  <2>1. InFlight(r, "me") /\ ~closed /\ (req[r].enabled => key \in confirmed)
    BY <1>10 DEF SaveMe, At, KeyOK, InFlight
  <2>2. \A s \in Request : ~InFlight(s, "setup")
    <3>1. {"me", "setup"} \in Harmful
      BY DEF Harmful
    <3> QED
      BY <2>1, <3>1, <1>a
  <2>3. \A s \in Request : req'[s] = IF s = r THEN None ELSE req[s]
    BY <1>10 DEF SaveMe, Leave, IInv, TypeOK
  <2>4. enabled' = req[r].enabled /\ ~closed' /\ UNCHANGED <<key, confirmed>>
    BY <1>10 DEF SaveMe
  <2> QED
    BY <2>1, <2>2, <2>3, <2>4 DEF KeyOK, InFlight
<1>11. ASSUME NEW r \in Request, Anonymize(r) PROVE KeyOK'
  <2>1. \A s \in Request : ~InFlight(s, "me")
    <3>1. {"anonymize", "me"} \in Harmful /\ InFlight(r, "anonymize")
      BY <1>11 DEF Harmful, InFlight, Anonymize, At
    <3> QED
      BY <3>1, <1>a
  <2>2. \A s \in Request : req'[s] = IF s = r THEN None ELSE req[s]
    BY <1>11 DEF Anonymize, Leave, IInv, TypeOK
  <2>3. closed'
    BY <1>11 DEF Anonymize
  <2> QED
    BY <2>1, <2>2, <2>3 DEF KeyOK, InFlight
<1>12. CASE Deactivate
  BY <1>12 DEF Deactivate, KeyOK, InFlight
<1>13. CASE Tick
  BY <1>13 DEF Tick, KeyOK, InFlight, account
<1>14. CASE UNCHANGED vars
  BY <1>14 DEF vars, account, KeyOK, InFlight
<1>15. ASSUME NEW r \in Request, RefuseToken(r) \/ Reply(r) \/ Crash(r) PROVE KeyOK'
  BY <1>15, <1>1 DEF RefuseToken, Reply, Crash, account
<1>16. ASSUME NEW r \in Request, NEW op \in Op \ {"activate"}, Arrive(r, op, None, None)
       PROVE  KeyOK'
  BY <1>16, <1>2
<1>17. ASSUME NEW r \in Request, NEW w \in Worker, NEW tok \in Token,
              Arrive(r, "activate", Slot(w), tok)
       PROVE  KeyOK'
  <2>1. Slot(w) \in Worker /\ "activate" \in Op
    BY DEF Slot, Op
  <2> QED
    BY <1>17, <2>1, <1>2
<1> QED
  BY <1>3, <1>4, <1>5, <1>6, <1>7, <1>8, <1>9, <1>10, <1>11, <1>12, <1>13, <1>14,
     <1>15, <1>16, <1>17 DEF Next

\* While 2FA is active on a live account the stored key is one that accepted a
\* token, whatever setups, activations, PATCH me/secrets, PATCH me, closures,
\* crashes and the administrator do, provided the instance keeps the four
\* overlaps of Harmful apart (UserViewSet.setup_2fa, activate_2fa, me, secrets,
\* anonymize_account).
THEOREM ActiveKeys ==
  ASSUME Harmful \subseteq Apart
  PROVE  Spec => []ActiveKeyIsConfirmed
<1>1. Init => KeyOK /\ KeptApart
  BY DEF Init, KeyOK, KeptApart, InFlight
<1>2. KeyOK => ActiveKeyIsConfirmed
  BY DEF KeyOK, ActiveKeyIsConfirmed
<1>3. IInv /\ KeyOK /\ KeptApart /\ [Next]_vars => KeyOK'
  BY KeyStep
<1> QED
  BY <1>1, <1>2, <1>3, InitInvariant, NextInvariant, KeptApartStep, PTL DEF Spec

-----------------------------------------------------------------------------
(***************************************************************************)
(* The anti-replay cache.  An entry lasts UsedTTL from the last time its   *)
(* token was accepted, so an absent one means the minute is over.          *)
(***************************************************************************)

Backend == CHOOSE x \in Worker : TRUE

CacheOK ==
  /\ \A tok \in Token : accepted[tok] # None =>
       /\ Backend \in Worker
       /\ \/ used[Backend][tok] = accepted[tok] + UsedTTL
          \/ used[Backend][tok] = None /\ clock >= accepted[tok] + UsedTTL
  /\ \A r \in Request : InFlight(r, "activate") /\ req[r].at # "enable"
       => Backend \in Worker /\ req[r].backend = Backend

LEMMA CacheStep ==
  ASSUME SharedCache, IInv, CacheOK, [Next]_vars
  PROVE  CacheOK'
\* The cache and the clock stand still.
<1>q. ASSUME NEW r \in Request, NEW x,
             x # None /\ x.op = "activate" /\ x.at # "enable"
               => Backend \in Worker /\ x.backend = Backend,
             req' = [req EXCEPT ![r] = x], UNCHANGED cache
      PROVE  CacheOK'
  <2>1. \A s \in Request : req'[s] = IF s = r THEN x ELSE req[s]
    BY <1>q DEF IInv, TypeOK
  <2> QED
    BY <1>q, <2>1 DEF CacheOK, InFlight, cache
<1>1. ASSUME NEW r \in Request, Leave(r), UNCHANGED cache PROVE CacheOK'
  BY <1>1, <1>q DEF Leave
<1>2. ASSUME NEW r \in Request, NEW op \in Op \ {"activate"}, Arrive(r, op, None, None)
      PROVE  CacheOK'
  <2> DEFINE x == [op |-> op, at |-> "auth", backend |-> None,
                   enabled |-> op \in {"setup", "me"} /\ enabled, key |-> None,
                   token |-> None]
  <2>1. req' = [req EXCEPT ![r] = x] /\ UNCHANGED cache
    BY <1>2 DEF Arrive
  <2>2. x.op # "activate"
    OBVIOUS
  <2> HIDE DEF x
  <2> QED
    BY <2>1, <2>2, <1>q
<1>3. ASSUME NEW r \in Request, NEW w \in Worker, NEW tok \in Token,
             Arrive(r, "activate", Slot(w), tok)
      PROVE  CacheOK'
  <2> DEFINE x == [op |-> "activate", at |-> "auth", backend |-> Slot(w),
                   enabled |-> "activate" \in {"setup", "me"} /\ enabled, key |-> None,
                   token |-> tok]
  <2>1. req' = [req EXCEPT ![r] = x] /\ UNCHANGED cache
    BY <1>3 DEF Arrive
  <2>2. Backend \in Worker /\ x.backend = Backend
    BY DEF Slot, Backend
  <2> HIDE DEF x
  <2> QED
    BY <2>1, <2>2, <1>q
<1>4. ASSUME NEW r \in Request, GuardSetup(r) PROVE CacheOK'
  <2>0. UNCHANGED cache
    BY <1>4 DEF GuardSetup
  <2>1. CASE MaySetUp(r)
    <3> PICK y \in Flight : y = req[r] /\ y.op = "setup"
      BY <1>4 DEF GuardSetup, At, IInv, TypeOK
    <3> PICK x \in Flight : x = [y EXCEPT !.at = "save"]
      BY DEF Flight
    <3>1. req' = [req EXCEPT ![r] = x]
      BY <1>4, <2>1 DEF GuardSetup, IInv, TypeOK
    <3>2. x.op # "activate"
      BY DEF Flight
    <3> QED
      BY <3>1, <3>2, <2>0, <1>q
  <2>2. CASE ~MaySetUp(r)
    BY <1>4, <2>0, <2>2, <1>1 DEF GuardSetup
  <2> QED
    BY <2>1, <2>2
<1>5. ASSUME NEW r \in Request, NEW k \in Key, SaveSetup(r, k) PROVE CacheOK'
  <2> PICK y \in Flight : y = req[r] /\ y.op = "setup"
    BY <1>5 DEF SaveSetup, At, IInv, TypeOK
  <2> PICK x \in Flight : x = [y EXCEPT !.at = "reply", !.key = k]
    BY DEF Flight
  <2>1. req' = [req EXCEPT ![r] = x] /\ UNCHANGED cache
    BY <1>5 DEF SaveSetup, IInv, TypeOK, cache
  <2>2. x.op # "activate"
    BY DEF Flight
  <2> QED
    BY <2>1, <2>2, <1>q
<1>6. ASSUME NEW r \in Request, LoadSecrets(r) PROVE CacheOK'
  <2> PICK y \in Flight : y = req[r] /\ y.op = "secrets"
    BY <1>6 DEF LoadSecrets, At, IInv, TypeOK
  <2>1. key \in Key \cup {None}
    BY DEF IInv, TypeOK
  <2> PICK x \in Flight : x = [y EXCEPT !.at = "save", !.key = key]
    BY <2>1 DEF Flight
  <2>2. req' = [req EXCEPT ![r] = x] /\ UNCHANGED cache
    BY <1>6 DEF LoadSecrets, IInv, TypeOK
  <2>3. x.op # "activate"
    BY DEF Flight
  <2> QED
    BY <2>2, <2>3, <1>q
\* A request looks its token up, and later writes it, in the one backend.
<1>7. ASSUME NEW r \in Request, LookUpToken(r) PROVE CacheOK'
  <2>0. UNCHANGED cache
    BY <1>7 DEF LookUpToken
  <2>1. CASE ~(key = None \/ IsUsed(req[r].backend, req[r].token))
    <3> PICK y \in Flight : y = req[r] /\ Backend \in Worker /\ y.backend = Backend
      BY <1>7 DEF LookUpToken, At, IInv, TypeOK, CacheOK, InFlight
    <3>1. key \in Key
      BY <2>1 DEF IInv, TypeOK
    <3> PICK x \in Flight : x = [y EXCEPT !.at = "verify", !.key = key]
      BY <3>1 DEF Flight
    <3>2. req' = [req EXCEPT ![r] = x]
      BY <1>7, <2>1 DEF LookUpToken, IInv, TypeOK
    <3>3. x.backend = Backend
      BY DEF Flight
    <3> QED
      BY <3>2, <3>3, <2>0, <1>q
  <2>2. CASE key = None \/ IsUsed(req[r].backend, req[r].token)
    BY <1>7, <2>0, <2>2, <1>1 DEF LookUpToken
  <2> QED
    BY <2>1, <2>2
<1>8. ASSUME NEW r \in Request, AcceptToken(r) PROVE CacheOK'
  <2> PICK y \in Flight : /\ y = req[r] /\ y.op = "activate" /\ y.token \in Token
                          /\ Backend \in Worker /\ y.backend = Backend
    BY <1>8 DEF AcceptToken, Accepts, At, IInv, TypeOK, RequestsOK, FlightOK, CacheOK,
                InFlight
  <2> PICK x \in Flight : x = [y EXCEPT !.at = "enable", !.backend = None, !.token = None]
    BY DEF Flight
  <2>1. \A s \in Request : req'[s] = IF s = r THEN x ELSE req[s]
    BY <1>8 DEF AcceptToken, IInv, TypeOK
  <2>2. x.at = "enable"
    BY DEF Flight
  <2>3. \A tok \in Token :
          used'[Backend][tok] = IF tok = y.token THEN clock + UsedTTL
                                ELSE used[Backend][tok]
    BY <1>8 DEF AcceptToken, Remembered, IInv, TypeOK
  <2>4. \A tok \in Token :
          accepted'[tok] = IF tok = y.token THEN clock ELSE accepted[tok]
    BY <1>8 DEF AcceptToken, IInv, TypeOK
  <2>5. UNCHANGED clock
    BY <1>8 DEF AcceptToken
  <2>6. ASSUME NEW tok \in Token, accepted'[tok] # None
        PROVE  \/ used'[Backend][tok] = accepted'[tok] + UsedTTL
               \/ used'[Backend][tok] = None /\ clock' >= accepted'[tok] + UsedTTL
    BY <2>3, <2>4, <2>5, <2>6 DEF CacheOK
  <2>7. ASSUME NEW s \in Request, InFlight(s, "activate")', req'[s].at # "enable"
        PROVE  req'[s].backend = Backend
    BY <2>1, <2>2, <2>7 DEF CacheOK, InFlight
  <2> QED
    BY <2>6, <2>7 DEF CacheOK
<1>9. ASSUME NEW r \in Request,
             RefuseToken(r) \/ Reply(r) \/ Enable(r) \/ SaveSecrets(r) \/ SaveMe(r)
               \/ Anonymize(r) \/ Crash(r)
      PROVE  CacheOK'
  BY <1>9, <1>1 DEF RefuseToken, Reply, Enable, SaveSecrets, SaveMe, Anonymize, Crash
<1>10. CASE Deactivate
  BY <1>10 DEF Deactivate, CacheOK, InFlight, cache
\* An entry goes when its time is up, and none comes.
<1>11. CASE Tick
  <2>1. ASSUME NEW tok \in Token, accepted'[tok] # None
        PROVE  /\ Backend \in Worker
               /\ \/ used'[Backend][tok] = accepted'[tok] + UsedTTL
                  \/ used'[Backend][tok] = None /\ clock' >= accepted'[tok] + UsedTTL
    <3>1. accepted'[tok] = accepted[tok] /\ accepted[tok] # None
      BY <1>11, <2>1 DEF Tick
    <3>2. accepted[tok] \in Nat /\ clock \in Nat /\ UsedTTL \in Nat /\ clock' = clock + 1
      BY <1>11, <3>1, TimeAssumption DEF IInv, TypeOK, Time, Tick
    <3>3. /\ Backend \in Worker
          /\ \/ used[Backend][tok] = accepted[tok] + UsedTTL
             \/ used[Backend][tok] = None /\ clock >= accepted[tok] + UsedTTL
      BY <3>1 DEF CacheOK
    <3>4. used'[Backend][tok] =
            IF used[Backend][tok] = clock + 1 THEN None ELSE used[Backend][tok]
      BY <1>11, <3>3 DEF Tick
    <3> QED
      BY <3>1, <3>2, <3>3, <3>4
  <2>2. UNCHANGED req
    BY <1>11 DEF Tick
  <2> QED
    BY <2>1, <2>2 DEF CacheOK, InFlight
<1>12. CASE UNCHANGED vars
  BY <1>12 DEF vars, cache, CacheOK, InFlight
<1> QED
  BY <1>2, <1>3, <1>4, <1>5, <1>6, <1>7, <1>8, <1>9, <1>10, <1>11, <1>12 DEF Next

LEMMA OnlyLookUpVerifies ==
  ASSUME IInv, Next, NEW r \in Request, req[r] # None, req[r].at = "auth",
         req'[r] # None, req'[r].at = "verify"
  PROVE  \E s \in Request : LookUpToken(s)
<1>0. \A s \in Request : Leave(s) => req'[r] = IF s = r THEN None ELSE req[r]
  BY DEF Leave, IInv, TypeOK
<1>1. ASSUME NEW s \in Request, NEW op, NEW b, NEW tok, Arrive(s, op, b, tok) PROVE FALSE
  BY <1>1 DEF Arrive, IInv, TypeOK
<1>2. ASSUME NEW s \in Request, NEW x, req' = [req EXCEPT ![s] = x], x.at # "verify"
      PROVE  FALSE
  BY <1>2 DEF IInv, TypeOK
<1>3. ASSUME NEW s \in Request, GuardSetup(s) \/ LoadSecrets(s) \/ AcceptToken(s),
             ~Leave(s)
      PROVE  FALSE
  <2> PICK y \in Flight : y = req[s]
    BY <1>3 DEF GuardSetup, LoadSecrets, AcceptToken, Accepts, At, IInv, TypeOK
  <2>1. CASE req' = [req EXCEPT ![s] = [y EXCEPT !.at = "save"]]
    BY <1>2, <2>1 DEF Flight
  <2>2. CASE req' = [req EXCEPT ![s] = [y EXCEPT !.at = "save", !.key = key]]
    BY <1>2, <2>2 DEF Flight
  <2>3. CASE req' = [req EXCEPT ![s] = [y EXCEPT !.at = "enable", !.backend = None,
                                                 !.token = None]]
    BY <1>2, <2>3 DEF Flight
  <2> QED
    BY <1>3, <2>1, <2>2, <2>3 DEF GuardSetup, LoadSecrets, AcceptToken, IInv, TypeOK
<1>4. ASSUME NEW s \in Request, NEW k \in Key, SaveSetup(s, k) PROVE FALSE
  <2> PICK y \in Flight : y = req[s]
    BY <1>4 DEF SaveSetup, At, IInv, TypeOK
  <2>1. req' = [req EXCEPT ![s] = [y EXCEPT !.at = "reply", !.key = k]]
    BY <1>4 DEF SaveSetup, IInv, TypeOK
  <2> QED
    BY <1>2, <2>1 DEF Flight
<1>5. ASSUME NEW s \in Request, Leave(s) PROVE FALSE
  BY <1>0, <1>5
<1>6. ASSUME UNCHANGED req PROVE FALSE
  BY <1>6
<1> QED
  BY <1>1, <1>3, <1>4, <1>5, <1>6
     DEF Next, Reply, RefuseToken, Enable, SaveSecrets, SaveMe, Anonymize, Crash,
         Deactivate, Tick

\* With one cache for all workers, a request that looks a token up within
\* UsedTTL of its acceptance is refused on every worker, whatever overlaps and
\* crashes; an acceptance that races another one only renews the minute
\* (verify_2fa).
THEOREM RefusedOnEveryWorker ==
  ASSUME SharedCache
  PROVE  Spec => RefusedForAMinute
<1>1. Init => CacheOK
  BY DEF Init, CacheOK, InFlight
<1>2. IInv /\ CacheOK /\ [Next]_vars => CacheOK'
  BY CacheStep
<1>3. IInv /\ CacheOK /\ [Next]_vars =>
        [\A r \in Request :
           /\ At(r, "activate", "auth") /\ At(r, "activate", "verify")'
           /\ accepted[req[r].token] # None
           => clock >= accepted[req[r].token] + UsedTTL]_vars
  <2> SUFFICES ASSUME IInv, CacheOK, Next, NEW r \in Request,
                      At(r, "activate", "auth"), At(r, "activate", "verify")',
                      accepted[req[r].token] # None
               PROVE  clock >= accepted[req[r].token] + UsedTTL
    BY DEF vars
  <2>1. LookUpToken(r) /\ ~IsUsed(req[r].backend, req[r].token)
    <3>1. req[r] # None /\ req'[r] # None /\ req[r].at = "auth" /\ req'[r].at = "verify"
          /\ req[r].op = "activate"
      BY DEF At
    <3>2. PICK s \in Request : LookUpToken(s)
      BY <3>1, OnlyLookUpVerifies
    <3>3. s = r
      BY <3>1, <3>2 DEF LookUpToken, Leave, IInv, TypeOK
    <3>4. ~IsUsed(req[r].backend, req[r].token)
      BY <3>1, <3>2, <3>3 DEF LookUpToken, Leave, IInv, TypeOK
    <3> QED
      BY <3>2, <3>3, <3>4
  <2>2. req[r].token \in Token /\ used[Backend][req[r].token] = None
    BY <2>1 DEF LookUpToken, IsUsed, At, InFlight, IInv, RequestsOK, FlightOK, CacheOK
  <2>3. accepted[req[r].token] \in Nat /\ UsedTTL \in Nat
    BY <2>2, TimeAssumption DEF IInv, TypeOK, Time
  <2>4. accepted[req[r].token] + UsedTTL # None
    BY <2>3, NoneAssumption
  <2> QED
    BY <2>2, <2>4 DEF CacheOK
<1> QED
  BY <1>1, <1>2, <1>3, InitInvariant, NextInvariant, PTL DEF Spec, RefusedForAMinute
=============================================================================
