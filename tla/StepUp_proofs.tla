---------------------------- MODULE StepUp_proofs ----------------------------
(***************************************************************************)
(* Proof that an admitted caller's user entered the right password within  *)
(* the window in force, for any number of users, clients, workers and      *)
(* concurrent requests, with a shared or a per-process cache.              *)
(*                                                                         *)
(* The property is not inductive: it says nothing of timestamps that are   *)
(* not fresh now and may become so when the window is widened.  StampBound *)
(* bounds EVERY timestamp, stored or in flight: it is older than the       *)
(* user's last correct password, up to the life of one request.            *)
(***************************************************************************)
EXTENDS StepUp, TLAPS

Bounded(age, u) == since[u] <= age + MaxFlight

StampBound ==
  /\ \A c \in Client : sess[c] # None => Bounded(sess[c], Owner[c])
  /\ \A w \in Worker, u \in User :
        cache[w][u] # None => Bounded(cache[w][u].age, u)
  /\ \A r \in Request : req[r] # None =>
        /\ since[Owner[req[r].client]] <= req[r].fly
        /\ req[r].stage = "cached" =>
              Bounded(req[r].stamp, Owner[req[r].client])

(* A worker's cache backend is one of the workers' backends.               *)
LEMMA SlotType == \A w \in Worker : Slot(w) \in Worker
  BY DEF Slot

(* Saturating ages stay ages, and ageing keeps a bound between two of them *)
LEMMA OlderAge ==
  /\ \A a \in Age : Older(a) \in Age
  /\ \A a, b \in Age : a <= b + MaxFlight => Older(a) <= Older(b) + MaxFlight
  /\ \A a \in Age, n \in Nat : a <= n => Older(a) <= n + 1
  BY TimeAssumption DEF Older, Age

(* A request that reaches its cache write, or grows older, stays one.      *)
LEMMA FlightCached ==
  ASSUME NEW f \in Flight
  PROVE  [f EXCEPT !.stage = "cached", !.stamp = 0] \in Flight
<1> DEFINE g == [f EXCEPT !.stage = "cached"]
<1>1. g \in Flight
  BY DEF Flight
<1>2. 0 \in Age
  BY TimeAssumption DEF Age
<1>3. [g EXCEPT !.stamp = 0] \in Flight
  BY <1>1, <1>2 DEF Flight
<1> QED
  BY <1>3

LEMMA FlightOlder ==
  ASSUME NEW f \in Flight, f.fly < MaxFlight
  PROVE  [f EXCEPT !.fly = @ + 1, !.stamp = Older(@)] \in Flight
<1>1. f.fly \in 0..MaxFlight /\ f.stamp \in Age
  BY DEF Flight
<1>2. f.fly + 1 \in 0..MaxFlight /\ Older(f.stamp) \in Age
  BY <1>1, OlderAge, TimeAssumption
<1> DEFINE g == [f EXCEPT !.fly = f.fly + 1]
<1>3. g \in Flight /\ g.stamp = f.stamp
  BY <1>2 DEF Flight
<1>4. [g EXCEPT !.stamp = Older(f.stamp)] \in Flight
  BY <1>2, <1>3 DEF Flight
<1> QED
  BY <1>3, <1>4 DEF Flight

(* Types: every step keeps every variable in its range.                    *)
THEOREM TypeInvariant == Spec => []TypeOK
<1>1. Init => TypeOK
  BY TimeAssumption, LimitAssumption DEF Init, TypeOK, Age
<1>2. TypeOK /\ [Next]_vars => TypeOK'
  <2> SUFFICES ASSUME TypeOK, [Next]_vars PROVE TypeOK'
    OBVIOUS
  <2> USE DEF TypeOK
  <2>1. ASSUME NEW r \in Request, NEW c \in Client, NEW w \in Worker,
               NEW correct \in BOOLEAN, CheckPassword(r, c, w, correct)
        PROVE TypeOK'
    <3>1. [stage |-> "checked", client |-> c, worker |-> w,
           session |-> c \in live, fly |-> 0, stamp |-> 0] \in Flight
      BY TimeAssumption DEF Flight, Age
    <3>2. req' \in [Request -> Flight \cup {None}]
      BY <2>1, <3>1 DEF CheckPassword
    <3>3. since' \in [User -> Age]
      BY <2>1, TimeAssumption, ClientsAssumption DEF CheckPassword, Age
    <3>4. fails' \in [User -> 0..FailureLimit]
      <4>1. Owner[c] \in User /\ fails[Owner[c]] \in 0..FailureLimit
        BY ClientsAssumption
      <4>2. CASE fails' = fails
        BY <4>2
      <4>3. CASE /\ fails[Owner[c]] # FailureLimit
                 /\ fails' = [fails EXCEPT ![Owner[c]] = @ + 1]
        BY <4>1, <4>3, LimitAssumption
      <4> QED
        BY <2>1, <4>2, <4>3 DEF CheckPassword
    <3> QED
      BY <2>1, <3>2, <3>3, <3>4 DEF CheckPassword
  <2>2. ASSUME NEW r \in Request, GrantCache(r)
        PROVE TypeOK'
    <3>1. [age |-> 0, left |-> window] \in Entry
      BY TimeAssumption DEF Entry, Age
    <3>2. cache' \in [Worker -> [User -> Entry \cup {None}]]
      BY <2>2, <3>1, SlotType, ClientsAssumption, NoneAssumption
      DEF GrantCache, CacheKey, Flight
    <3>3. req[r] \in Flight
      BY <2>2 DEF GrantCache
    <3>4. [req[r] EXCEPT !.stage = "cached", !.stamp = 0] \in Flight
      BY <3>3, FlightCached
    <3>5. req' \in [Request -> Flight \cup {None}]
      BY <2>2, <3>4 DEF GrantCache
    <3> QED
      BY <2>2, <3>2, <3>5 DEF GrantCache
  <2>3. ASSUME NEW r \in Request, SaveSession(r)
        PROVE TypeOK'
    <3>1. req[r] \in Flight
      BY <2>3 DEF SaveSession
    <3> QED
      BY <2>3, <3>1 DEF SaveSession, Flight
  <2>4. ASSUME NEW r \in Request, Crash(r)
        PROVE TypeOK'
    BY <2>4 DEF Crash
  <2>5. ASSUME NEW c \in Client, Login(c)
        PROVE TypeOK'
    BY <2>5 DEF Login
  <2>6. ASSUME NEW c \in Client, Logout(c)
        PROVE TypeOK'
    <3>1. ASSUME NEW r \in Request, req[r] # None
          PROVE [req[r] EXCEPT !.session = FALSE] \in Flight
      BY <3>1 DEF Flight
    <3>2. req' \in [Request -> Flight \cup {None}]
      BY <2>6, <3>1 DEF Logout
    <3> QED
      BY <2>6, <3>2 DEF Logout
  <2>7. ASSUME NEW c \in Client, NEW w \in Worker, Revoke(c, w)
        PROVE TypeOK'
    BY <2>7, SlotType, ClientsAssumption DEF Revoke, RevokedSessions, CacheKey
  <2>8. ASSUME NEW w \in Worker, NEW u \in User, Evict(w, u)
        PROVE TypeOK'
    BY <2>8 DEF Evict
  <2>9. ASSUME NEW u \in User, Unlock(u)
        PROVE TypeOK'
    BY <2>9, LimitAssumption DEF Unlock
  <2>10. ASSUME NEW n \in Windows, SetWindow(n)
         PROVE TypeOK'
    BY <2>10 DEF SetWindow
  <2>11. ASSUME Tick
         PROVE TypeOK'
    <3>1. sess' \in [Client -> Age \cup {None}]
      BY <2>11, OlderAge DEF Tick
    <3>2. ASSUME NEW w \in Worker, NEW u \in User, cache[w][u] # None,
                 cache[w][u].left # 1
          PROVE [age |-> Older(cache[w][u].age), left |-> cache[w][u].left - 1]
                  \in Entry
      BY <3>2, OlderAge, TimeAssumption DEF Entry
    <3>3. cache' \in [Worker -> [User -> Entry \cup {None}]]
      BY <2>11, <3>2 DEF Tick
    <3>4. ASSUME NEW r \in Request, req[r] # None
          PROVE [req[r] EXCEPT !.fly = @ + 1, !.stamp = Older(@)] \in Flight
      <4>1. req[r] \in Flight /\ req[r].fly < MaxFlight
        BY <2>11, <3>4 DEF Tick
      <4> QED
        BY <4>1, FlightOlder
    <3>5. req' \in [Request -> Flight \cup {None}]
      BY <2>11, <3>4 DEF Tick
    <3>6. since' \in [User -> Age]
      BY <2>11, OlderAge DEF Tick
    <3> QED
      BY <2>11, <3>1, <3>3, <3>5, <3>6 DEF Tick
  <2>12. CASE UNCHANGED vars
    BY <2>12 DEF vars
  <2> QED
    BY <2>1, <2>2, <2>3, <2>4, <2>5, <2>6, <2>7, <2>8, <2>9, <2>10, <2>11,
       <2>12 DEF Next
<1> QED
  BY <1>1, <1>2, PTL DEF Spec

-----------------------------------------------------------------------------
(* The inductive invariant holds initially, is kept by every step, and     *)
(* implies the property.                                                   *)
LEMMA InitStampBound == Init => StampBound
  BY NoneAssumption DEF Init, StampBound

LEMMA StepStampBound ==
  ASSUME TypeOK, TypeOK', StampBound, [Next]_vars
  PROVE  StampBound'
<1> USE DEF TypeOK, Bounded, Age
<1> USE TimeAssumption, ClientsAssumption, NoneAssumption
<1>1. ASSUME NEW r \in Request, NEW c \in Client, NEW w \in Worker,
             NEW correct \in BOOLEAN, CheckPassword(r, c, w, correct)
      PROVE StampBound'
  <2>1. \A u \in User : since'[u] <= since[u]
    BY <1>1 DEF CheckPassword
  <2>2. ASSUME req' # req
        PROVE /\ since'[Owner[c]] = 0
              /\ req'[r].stage = "checked" /\ req'[r].fly = 0
              /\ req'[r].client = c
              /\ \A q \in Request \ {r} : req'[q] = req[q]
    BY <1>1, <2>2 DEF CheckPassword, Accepts
  <2> QED
    BY <1>1, <2>1, <2>2 DEF CheckPassword, StampBound, Flight, Entry
<1>2. ASSUME NEW r \in Request, GrantCache(r)
      PROVE StampBound'
  <2>1. /\ req[r] \in Flight
        /\ since[Owner[req[r].client]] <= MaxFlight
    BY <1>2 DEF GrantCache, StampBound, Flight
  <2>2. ASSUME NEW w \in Worker, NEW u \in User, cache'[w][u] # None
        PROVE since'[u] <= cache'[w][u].age + MaxFlight
    <3>1. CASE cache'[w][u] = cache[w][u]
      BY <1>2, <2>2, <3>1 DEF GrantCache, StampBound
    <3>2. CASE u = Owner[req[r].client] /\ cache'[w][u].age = 0
      BY <1>2, <2>1, <3>2 DEF GrantCache
    <3> QED
      BY <1>2, <3>1, <3>2, SlotType DEF GrantCache, CacheKey
  <2>3. ASSUME NEW q \in Request, req'[q] # None
        PROVE /\ since[Owner[req'[q].client]] <= req'[q].fly
              /\ req'[q].stage = "cached" =>
                    since[Owner[req'[q].client]]
                      <= req'[q].stamp + MaxFlight
    <3>1. CASE q # r
      BY <1>2, <2>3, <3>1 DEF GrantCache, StampBound
    <3>2. CASE q = r
      <4>1. /\ req'[r].client = req[r].client /\ req'[r].fly = req[r].fly
            /\ req'[r].stamp = 0
        BY <1>2, <2>1, <2>3, <3>2 DEF GrantCache, Flight
      <4> QED
        BY <1>2, <2>1, <3>2, <4>1 DEF GrantCache, StampBound
    <3> QED
      BY <3>1, <3>2
  <2> QED
    BY <1>2, <2>2, <2>3 DEF GrantCache, StampBound
<1>3. ASSUME NEW r \in Request, SaveSession(r)
      PROVE StampBound'
  BY <1>3 DEF SaveSession, StampBound, Flight
<1>4. ASSUME NEW r \in Request, Crash(r)
      PROVE StampBound'
  BY <1>4 DEF Crash, StampBound
<1>5. ASSUME NEW c \in Client, Login(c)
      PROVE StampBound'
  BY <1>5 DEF Login, StampBound
<1>6. ASSUME NEW c \in Client, Logout(c)
      PROVE StampBound'
  <2>1. ASSUME NEW q \in Request, req'[q] # None
        PROVE /\ req[q] # None
              /\ req'[q].client = req[q].client /\ req'[q].fly = req[q].fly
              /\ req'[q].stage = req[q].stage /\ req'[q].stamp = req[q].stamp
    BY <1>6, <2>1 DEF Logout, Flight
  <2> QED
    BY <1>6, <2>1 DEF Logout, StampBound
<1>7. ASSUME NEW c \in Client, NEW w \in Worker, Revoke(c, w)
      PROVE StampBound'
  BY <1>7, SlotType DEF Revoke, RevokedSessions, CacheKey, StampBound
<1>8. ASSUME NEW w \in Worker, NEW u \in User, Evict(w, u)
      PROVE StampBound'
  BY <1>8 DEF Evict, StampBound
<1>9. ASSUME NEW u \in User, Unlock(u)
      PROVE StampBound'
  BY <1>9 DEF Unlock, StampBound
<1>10. ASSUME NEW n \in Windows, SetWindow(n)
       PROVE StampBound'
  BY <1>10 DEF SetWindow, StampBound
<1>11. ASSUME Tick
       PROVE StampBound'
  <2>1. \A a, b \in Age : a <= b + MaxFlight => Older(a) <= Older(b) + MaxFlight
    BY OlderAge
  <2>2. \A u \in User : since[u] \in Age /\ since'[u] = Older(since[u])
    BY <1>11 DEF Tick
  <2>3. ASSUME NEW c \in Client, sess'[c] # None
        PROVE since'[Owner[c]] <= sess'[c] + MaxFlight
    <3>1. sess[c] # None /\ sess[c] \in Age /\ sess'[c] = Older(sess[c])
      BY <1>11, <2>3 DEF Tick
    <3> QED
      BY <2>1, <2>2, <3>1 DEF StampBound
  <2>4. ASSUME NEW w \in Worker, NEW u \in User, cache'[w][u] # None
        PROVE since'[u] <= cache'[w][u].age + MaxFlight
    <3>0. cache'[w][u] =
            IF cache[w][u] = None \/ cache[w][u].left = 1 THEN None
            ELSE [age |-> Older(cache[w][u].age), left |-> cache[w][u].left - 1]
      BY <1>11 DEF Tick
    <3>1. cache[w][u] # None /\ cache[w][u] \in Entry
      <4>1. cache[w][u] \in Entry \cup {None}
        OBVIOUS
      <4> QED
        BY <2>4, <3>0, <4>1
    <3>2. cache'[w][u] = [age |-> Older(cache[w][u].age),
                          left |-> cache[w][u].left - 1]
      BY <2>4, <3>0
    <3>3. cache[w][u].age \in Age /\ cache'[w][u].age = Older(cache[w][u].age)
      BY <3>1, <3>2 DEF Entry
    <3> QED
      BY <2>1, <2>2, <3>1, <3>3 DEF StampBound
  <2>5. ASSUME NEW r \in Request, req'[r] # None
        PROVE /\ since'[Owner[req'[r].client]] <= req'[r].fly
              /\ req'[r].stage = "cached" =>
                    since'[Owner[req'[r].client]]
                      <= req'[r].stamp + MaxFlight
    <3>1. /\ req[r] # None /\ req[r] \in Flight
          /\ req'[r].client = req[r].client /\ req'[r].stage = req[r].stage
          /\ req'[r].fly = req[r].fly + 1
          /\ req'[r].stamp = Older(req[r].stamp)
      BY <1>11, <2>5 DEF Tick, Flight
    <3>2. /\ req[r].client \in Client /\ req[r].fly \in Nat
          /\ req[r].stamp \in Age
      BY <3>1 DEF Flight
    <3>3. since'[Owner[req'[r].client]] <= req'[r].fly
      BY <2>2, <3>1, <3>2, OlderAge DEF StampBound
    <3>4. req[r].stage = "cached" =>
            since[Owner[req[r].client]] <= req[r].stamp + MaxFlight
      BY <3>1 DEF StampBound
    <3> QED
      BY <2>1, <2>2, <3>1, <3>2, <3>3, <3>4
  <2> QED
    BY <2>3, <2>4, <2>5 DEF StampBound
<1>12. CASE UNCHANGED vars
  BY <1>12 DEF vars, StampBound
<1> QED
  BY <1>1, <1>2, <1>3, <1>4, <1>5, <1>6, <1>7, <1>8, <1>9, <1>10, <1>11,
     <1>12 DEF Next

LEMMA StampBoundSuffices == TypeOK /\ StampBound => GrantNeedsRecentPassword
<1> SUFFICES ASSUME TypeOK, StampBound,
                    NEW c \in Client, NEW w \in Worker, Granted(c, w)
             PROVE  since[Owner[c]] <= window + MaxFlight
  BY DEF GrantNeedsRecentPassword
<1> USE ClientsAssumption, TimeAssumption DEF TypeOK, Age
<1>1. CASE Fresh(sess[c])
  BY <1>1 DEF Fresh, StampBound, Bounded
<1>2. CASE Fresh(Cached(w, Owner[c]))
  <2>1. /\ Slot(w) \in Worker /\ cache[Slot(w)][Owner[c]] # None
        /\ cache[Slot(w)][Owner[c]].age <= window
    BY <1>2, SlotType DEF Fresh, Cached, CacheKey
  <2>2. cache[Slot(w)][Owner[c]].age \in 0..MaxAge
    BY <2>1 DEF Entry
  <2> QED
    BY <2>1, <2>2 DEF StampBound, Bounded
<1> QED
  BY <1>1, <1>2 DEF Granted

(* Whoever is admitted has a user who entered the right password within    *)
(* the window in force, up to the life of a request: is_granted in         *)
(* users/step_up.py, for every value of the constants.                     *)
THEOREM StepUpSafety == Spec => []GrantNeedsRecentPassword
<1>1. Spec => []TypeOK
  BY TypeInvariant
<1>2. Init => StampBound
  BY InitStampBound
<1>3. TypeOK /\ TypeOK' /\ StampBound /\ [Next]_vars => StampBound'
  BY StepStampBound
<1>4. TypeOK /\ StampBound => GrantNeedsRecentPassword
  BY StampBoundSuffices
<1> QED
  BY <1>1, <1>2, <1>3, <1>4, PTL DEF Spec

-----------------------------------------------------------------------------
(***************************************************************************)
(* Who becomes admitted.                                                   *)
(***************************************************************************)

\* A timestamp is in a session that exists, and a request will only save into
\* one: without it a Login could find the timestamp of an earlier session.
SessionsAreLive ==
  /\ \A c \in Client : sess[c] # None => c \in live
  /\ \A r \in Request : req[r] # None /\ req[r].session => req[r].client \in live

LEMMA StepSessionsAreLive ==
  ASSUME TypeOK, SessionsAreLive, [Next]_vars
  PROVE  SessionsAreLive'
<1> USE NoneAssumption DEF TypeOK
<1>1. ASSUME NEW r \in Request, NEW c \in Client, NEW w \in Worker,
             NEW correct \in BOOLEAN, CheckPassword(r, c, w, correct)
      PROVE SessionsAreLive'
  <2>1. \A q \in Request : \/ req'[q] = req[q]
                           \/ req'[q].session = (c \in live) /\ req'[q].client = c
    BY <1>1 DEF CheckPassword
  <2> QED
    BY <1>1, <2>1 DEF CheckPassword, SessionsAreLive
<1>2. ASSUME NEW r \in Request, GrantCache(r)
      PROVE SessionsAreLive'
  <2>1. ASSUME NEW q \in Request, req'[q] # None
        PROVE /\ req[q] # None /\ req'[q].session = req[q].session
              /\ req'[q].client = req[q].client
    BY <1>2, <2>1 DEF GrantCache, Flight
  <2> QED
    BY <1>2, <2>1 DEF GrantCache, SessionsAreLive
<1>3. ASSUME NEW r \in Request, SaveSession(r)
      PROVE SessionsAreLive'
  <2>1. req[r] \in Flight
    BY <1>3 DEF SaveSession
  <2>2. \A d \in Client : sess'[d] # None => d \in live
    BY <1>3, <2>1 DEF SaveSession, SessionsAreLive, Flight
  <2> QED
    BY <1>3, <2>2 DEF SaveSession, SessionsAreLive
<1>4. ASSUME NEW r \in Request, Crash(r)
      PROVE SessionsAreLive'
  BY <1>4 DEF Crash, SessionsAreLive
<1>5. ASSUME NEW c \in Client, Login(c)
      PROVE SessionsAreLive'
  BY <1>5 DEF Login, SessionsAreLive
<1>6. ASSUME NEW c \in Client, Logout(c)
      PROVE SessionsAreLive'
  <2>1. ASSUME NEW q \in Request, req'[q] # None
        PROVE /\ req[q] # None /\ req'[q].client = req[q].client
              /\ req'[q].session => req[q].session /\ req[q].client # c
    BY <1>6, <2>1 DEF Logout, Flight
  <2>2. \A d \in Client : sess'[d] # None => d # c /\ sess[d] # None
    BY <1>6 DEF Logout
  <2> QED
    BY <1>6, <2>1, <2>2 DEF Logout, SessionsAreLive
<1>7. ASSUME NEW c \in Client, NEW w \in Worker, Revoke(c, w)
      PROVE SessionsAreLive'
  BY <1>7 DEF Revoke, SessionsAreLive
<1>8. ASSUME NEW w \in Worker, NEW u \in User, Evict(w, u)
      PROVE SessionsAreLive'
  BY <1>8 DEF Evict, SessionsAreLive
<1>9. ASSUME NEW u \in User, Unlock(u)
      PROVE SessionsAreLive'
  BY <1>9 DEF Unlock, SessionsAreLive
<1>10. ASSUME NEW n \in Windows, SetWindow(n)
       PROVE SessionsAreLive'
  BY <1>10 DEF SetWindow, SessionsAreLive
<1>11. ASSUME Tick
       PROVE SessionsAreLive'
  <2>1. ASSUME NEW q \in Request, req'[q] # None
        PROVE /\ req[q] # None /\ req'[q].session = req[q].session
              /\ req'[q].client = req[q].client
    BY <1>11, <2>1 DEF Tick, Flight
  <2>2. \A d \in Client : sess'[d] # None => sess[d] # None
    BY <1>11 DEF Tick
  <2>3. live' = live
    BY <1>11 DEF Tick
  <2> QED
    BY <2>1, <2>2, <2>3 DEF SessionsAreLive
<1>12. CASE UNCHANGED vars
  BY <1>12 DEF vars, SessionsAreLive
<1> QED
  BY <1>1, <1>2, <1>3, <1>4, <1>5, <1>6, <1>7, <1>8, <1>9, <1>10, <1>11,
     <1>12 DEF Next

\* The step leaves both of c's timestamps gone or at least as old, and the
\* window no wider.
NoFresher(c, w) ==
  /\ window' <= window
  /\ c \in live' /\ sess'[c] # None =>
       c \in live /\ sess[c] # None /\ sess[c] <= sess'[c]
  /\ cache'[Slot(w)][Owner[c]] # None =>
       /\ cache[Slot(w)][Owner[c]] # None
       /\ cache[Slot(w)][Owner[c]].age <= cache'[Slot(w)][Owner[c]].age

LEMMA NoFresherAdmitsNobody ==
  ASSUME TypeOK, TypeOK', NEW c \in Client, NEW w \in Worker,
         NoFresher(c, w), Granted(c, w)'
  PROVE  Granted(c, w)
<1>1. /\ window \in Nat /\ window' \in Nat
      /\ sess[c] \in Age \cup {None} /\ sess'[c] \in Age \cup {None}
  BY TimeAssumption DEF TypeOK
<1>2. /\ cache[Slot(w)][Owner[c]] \in Entry \cup {None}
      /\ cache'[Slot(w)][Owner[c]] \in Entry \cup {None}
  BY SlotType, ClientsAssumption DEF TypeOK
<1>3. CASE c \in live' /\ sess'[c] # None /\ sess'[c] <= window'
  BY <1>1, <1>3, TimeAssumption DEF NoFresher, Granted, Fresh, Age
<1>4. CASE /\ cache'[Slot(w)][Owner[c]] # None
           /\ cache'[Slot(w)][Owner[c]].age <= window'
  <2>1. /\ cache[Slot(w)][Owner[c]] # None
        /\ cache[Slot(w)][Owner[c]].age <= cache'[Slot(w)][Owner[c]].age
        /\ window' <= window
    BY <1>4 DEF NoFresher
  <2>2. /\ cache[Slot(w)][Owner[c]].age \in Age
        /\ cache'[Slot(w)][Owner[c]].age \in Age
    BY <1>2, <1>4, <2>1 DEF Entry
  <2>3. cache[Slot(w)][Owner[c]].age <= window
    BY <1>1, <1>4, <2>1, <2>2, TimeAssumption DEF Age
  <2>4. Cached(w, Owner[c]) = cache[Slot(w)][Owner[c]].age
    BY <2>1 DEF Cached, CacheKey
  <2> QED
    BY <2>2, <2>3, <2>4, NoneAssumption DEF Granted, Fresh
<1> QED
  BY <1>3, <1>4 DEF Granted, Fresh, Cached, CacheKey, Slot

\* Of the steps, only a grant, a session save and a wider window make a
\* timestamp fresher.
LEMMA StepAdmits ==
  ASSUME TypeOK, TypeOK', SessionsAreLive, [Next]_vars,
         NEW c \in Client, NEW w \in Worker
  PROVE  \/ NoFresher(c, w) \/ window' > window
         \/ \E r \in Request : /\ GrantCache(r) \/ SaveSession(r)
                               /\ Owner[req[r].client] = Owner[c]
<1> DEFINE Reauth == \E r \in Request : /\ GrantCache(r) \/ SaveSession(r)
                                        /\ Owner[req[r].client] = Owner[c]
<1>0. /\ window \in Nat /\ window' \in Nat
      /\ sess[c] \in Age \cup {None} /\ \A a \in Age : a <= a
      /\ Slot(w) \in Worker /\ Owner[c] \in User
      /\ cache[Slot(w)][Owner[c]] \in Entry \cup {None}
  BY SlotType, ClientsAssumption, TimeAssumption DEF TypeOK, Age
<1>1. ASSUME UNCHANGED <<window, live>>,
             sess'[c] = sess[c] \/ sess'[c] = None,
             \/ cache'[Slot(w)][Owner[c]] = cache[Slot(w)][Owner[c]]
             \/ cache'[Slot(w)][Owner[c]] = None
      PROVE  NoFresher(c, w)
  BY <1>0, <1>1 DEF NoFresher, Entry
<1>2. ASSUME NEW r \in Request, NEW d \in Client, NEW v \in Worker,
             NEW correct \in BOOLEAN, CheckPassword(r, d, v, correct)
      PROVE  NoFresher(c, w)
  BY <1>1, <1>2 DEF CheckPassword
<1>3. ASSUME NEW r \in Request, GrantCache(r) PROVE NoFresher(c, w) \/ Reauth
  <2>3. CASE Owner[req[r].client] = Owner[c]
    BY <1>3, <2>3
  <2>4. CASE Owner[req[r].client] # Owner[c]
    <3>1. cache'[Slot(w)][Owner[c]] = cache[Slot(w)][Owner[c]]
      BY <1>0, <1>3, <2>4 DEF GrantCache, CacheKey, TypeOK
    <3> QED
      BY <1>1, <1>3, <3>1 DEF GrantCache
  <2> QED
    BY <2>3, <2>4
<1>4. ASSUME NEW r \in Request, SaveSession(r) PROVE NoFresher(c, w) \/ Reauth
  <2>2. CASE req[r].client = c
    BY <1>4, <2>2
  <2>3. CASE req[r].client # c
    <3>1. sess'[c] = sess[c]
      BY <1>4, <2>3 DEF SaveSession, TypeOK
    <3> QED
      BY <1>1, <1>4, <3>1 DEF SaveSession
  <2> QED
    BY <2>2, <2>3
<1>5. ASSUME NEW r \in Request, Crash(r) PROVE NoFresher(c, w)
  BY <1>1, <1>5 DEF Crash
<1>6. ASSUME NEW d \in Client, Login(d) PROVE NoFresher(c, w)
  <2>1. sess[c] # None => c \in live
    BY DEF SessionsAreLive
  <2> QED
    BY <1>0, <1>6, <2>1 DEF Login, NoFresher, Entry
<1>7. ASSUME NEW d \in Client, Logout(d) PROVE NoFresher(c, w)
  <2>1. sess'[c] = sess[c] \/ sess'[c] = None
    BY <1>7 DEF Logout, TypeOK
  <2> QED
    BY <1>0, <1>7, <2>1 DEF Logout, NoFresher, Entry
<1>8. ASSUME NEW d \in Client, NEW v \in Worker, Revoke(d, v) PROVE NoFresher(c, w)
  <2>1. sess'[c] = sess[c] \/ sess'[c] = None
    BY <1>8 DEF Revoke
  <2>2. \/ cache'[Slot(w)][Owner[c]] = cache[Slot(w)][Owner[c]]
        \/ cache'[Slot(w)][Owner[c]] = None
    BY <1>0, <1>8 DEF Revoke, CacheKey, TypeOK
  <2> QED
    BY <1>1, <1>8, <2>1, <2>2 DEF Revoke
<1>9. ASSUME NEW v \in Worker, NEW u \in User, Evict(v, u) PROVE NoFresher(c, w)
  <2>1. \/ cache'[Slot(w)][Owner[c]] = cache[Slot(w)][Owner[c]]
        \/ cache'[Slot(w)][Owner[c]] = None
    BY <1>0, <1>9 DEF Evict, TypeOK
  <2> QED
    BY <1>1, <1>9, <2>1 DEF Evict
<1>10. ASSUME NEW u \in User, Unlock(u) PROVE NoFresher(c, w)
  BY <1>1, <1>10 DEF Unlock
<1>11. ASSUME NEW n \in Windows, SetWindow(n) PROVE NoFresher(c, w) \/ window' > window
  <2>1. CASE window' <= window
    BY <1>0, <1>11, <2>1 DEF SetWindow, NoFresher, Entry
  <2> QED
    BY <1>0, <2>1
<1>12. ASSUME Tick PROVE NoFresher(c, w)
  <2>1. \A a \in Age : a <= Older(a)
    BY TimeAssumption DEF Age, Older
  <2>2. sess'[c] = IF sess[c] = None THEN None ELSE Older(sess[c])
    BY <1>12 DEF Tick
  <2>3. cache'[Slot(w)][Owner[c]] # None =>
          /\ cache[Slot(w)][Owner[c]] # None
          /\ cache'[Slot(w)][Owner[c]].age = Older(cache[Slot(w)][Owner[c]].age)
    <3>1. ASSUME NEW v \in Worker, NEW u \in User, cache'[v][u] # None
          PROVE  cache[v][u] # None /\ cache'[v][u].age = Older(cache[v][u].age)
      <4>1. cache'[v][u] =
              IF cache[v][u] = None \/ cache[v][u].left = 1 THEN None
              ELSE [age |-> Older(cache[v][u].age), left |-> cache[v][u].left - 1]
        BY <1>12 DEF Tick
      <4>2. cache[v][u] # None
        BY <3>1, <4>1
      <4>3. cache'[v][u] =
              [age |-> Older(cache[v][u].age), left |-> cache[v][u].left - 1]
        BY <3>1, <4>1
      <4> QED
        BY <4>2, <4>3
    <3>2. Slot(w) \in Worker /\ Owner[c] \in User
      BY <1>0
    <3> QED
      BY <3>1, <3>2
  <2>4. window' = window /\ live' = live
    BY <1>12 DEF Tick
  <2>5. cache[Slot(w)][Owner[c]] # None => cache[Slot(w)][Owner[c]].age \in Age
    BY <1>0 DEF Entry
  <2> QED
    BY <1>0, <2>1, <2>2, <2>3, <2>4, <2>5 DEF NoFresher
<1>13. CASE UNCHANGED vars
  BY <1>1, <1>13 DEF vars
<1> QED
  BY <1>2, <1>3, <1>4, <1>5, <1>6, <1>7, <1>8, <1>9, <1>10, <1>11, <1>12,
     <1>13 DEF Next

\* Nobody becomes admitted except by the cache write or the session save of a
\* reauth of the same user, or because the operator widened the window: no
\* login, crash, logout, revocation, eviction or passing of time admits anyone,
\* with a shared or a per-process cache and whatever requests are in flight.
THEOREM OnlyReauthAdmits == Spec => AdmittedOnlyByReauth
<1>1. Spec => []TypeOK
  BY TypeInvariant
<1>2. Init => SessionsAreLive
  BY DEF Init, SessionsAreLive
<1>3. TypeOK /\ SessionsAreLive /\ [Next]_vars => SessionsAreLive'
  BY StepSessionsAreLive
<1>4. TypeOK /\ TypeOK' /\ SessionsAreLive /\ [Next]_vars =>
        [\A c \in Client, w \in Worker :
           ~Granted(c, w) /\ Granted(c, w)' =>
             \/ window' > window
             \/ \E r \in Request : /\ GrantCache(r) \/ SaveSession(r)
                                   /\ Owner[req[r].client] = Owner[c]]_vars
  BY StepAdmits, NoFresherAdmitsNobody
<1> QED
  BY <1>1, <1>2, <1>3, <1>4, PTL DEF Spec, AdmittedOnlyByReauth

-----------------------------------------------------------------------------
(***************************************************************************)
(* Who stays admitted.                                                     *)
(***************************************************************************)

\* The timestamp a reauth has yet to save is no older than the reauth.
StampInFlight ==
  \A r \in Request :
    req[r] # None /\ req[r].stage = "cached" => req[r].stamp <= req[r].fly

LEMMA StepStampInFlight ==
  ASSUME TypeOK, StampInFlight, [Next]_vars
  PROVE  StampInFlight'
<1> USE NoneAssumption DEF TypeOK
<1>1. ASSUME NEW r \in Request, NEW c \in Client, NEW w \in Worker,
             NEW correct \in BOOLEAN, CheckPassword(r, c, w, correct)
      PROVE StampInFlight'
  <2>1. \A q \in Request : req'[q] = req[q] \/ req'[q].stage = "checked"
    BY <1>1 DEF CheckPassword
  <2> QED
    BY <2>1 DEF StampInFlight
<1>2. ASSUME NEW r \in Request, GrantCache(r)
      PROVE StampInFlight'
  <2>1. req[r] \in Flight
    BY <1>2 DEF GrantCache
  <2>2. \A q \in Request : \/ req'[q] = req[q] \/ req'[q] = None
                           \/ req'[q] = [req[r] EXCEPT !.stage = "cached", !.stamp = 0]
    BY <1>2 DEF GrantCache
  <2>3. /\ [req[r] EXCEPT !.stage = "cached", !.stamp = 0].stamp = 0
        /\ [req[r] EXCEPT !.stage = "cached", !.stamp = 0].fly = req[r].fly
        /\ 0 <= req[r].fly
    BY <2>1, TimeAssumption DEF Flight
  <2> QED
    BY <2>2, <2>3 DEF StampInFlight
<1>3. ASSUME NEW r \in Request, SaveSession(r) \/ Crash(r)
      PROVE StampInFlight'
  BY <1>3 DEF SaveSession, Crash, StampInFlight
<1>4. ASSUME NEW c \in Client, Logout(c)
      PROVE StampInFlight'
  <2>1. ASSUME NEW q \in Request, req'[q] # None
        PROVE /\ req[q] # None /\ req'[q].stage = req[q].stage
              /\ req'[q].stamp = req[q].stamp /\ req'[q].fly = req[q].fly
    BY <1>4, <2>1 DEF Logout, Flight
  <2> QED
    BY <2>1 DEF StampInFlight
<1>5. ASSUME Tick
      PROVE StampInFlight'
  <2>1. ASSUME NEW q \in Request, req'[q] # None, req'[q].stage = "cached"
        PROVE  req'[q].stamp <= req'[q].fly
    <3>1. /\ req[q] # None /\ req[q] \in Flight
          /\ req'[q].stage = req[q].stage
          /\ req'[q].stamp = Older(req[q].stamp)
          /\ req'[q].fly = req[q].fly + 1
      BY <1>5, <2>1 DEF Tick, Flight
    <3>2. /\ req[q].stamp \in Nat /\ req[q].fly \in Nat
          /\ req[q].stamp <= req[q].fly
      BY <2>1, <3>1, TimeAssumption DEF Flight, Age, StampInFlight
    <3>3. Older(req[q].stamp) <= req[q].stamp + 1
      BY <3>2, TimeAssumption DEF Older
    <3>4. Older(req[q].stamp) \in Nat
      BY <3>2, TimeAssumption DEF Older
    <3> QED
      BY <3>1, <3>2, <3>3, <3>4
  <2> QED
    BY <2>1 DEF StampInFlight
<1>6. ASSUME req' = req PROVE StampInFlight'
  BY <1>6 DEF StampInFlight
<1>7. \A c \in Client : Login(c) => req' = req
  BY DEF Login
<1>8. \A c \in Client, w \in Worker : Revoke(c, w) => req' = req
  BY DEF Revoke
<1>9. \A w \in Worker, u \in User : Evict(w, u) => req' = req
  BY DEF Evict
<1>10. \A u \in User : Unlock(u) => req' = req
  BY DEF Unlock
<1>11. \A n \in Windows : SetWindow(n) => req' = req
  BY DEF SetWindow
<1>12. UNCHANGED vars => req' = req
  BY DEF vars
<1> QED
  BY <1>1, <1>2, <1>3, <1>4, <1>5, <1>6, <1>7, <1>8, <1>9, <1>10, <1>11, <1>12
  DEF Next

\* Neither store is emptied or aged for c on w, and the window is no narrower.
Kept(c, w) ==
  /\ window <= window'
  /\ c \in live => c \in live'
  /\ \/ sess'[c] = sess[c]
     \/ c \in live' /\ Fresh(sess[c])'
  /\ \/ cache'[Slot(w)][Owner[c]] = cache[Slot(w)][Owner[c]]
     \/ Fresh(Cached(w, Owner[c]))'

LEMMA KeptStaysAdmitted ==
  ASSUME TypeOK, TypeOK', NEW c \in Client, NEW w \in Worker,
         Kept(c, w), Granted(c, w)
  PROVE  Granted(c, w)'
<1>1. /\ window \in Nat /\ window' \in Nat /\ window <= window'
      /\ sess[c] \in Age \cup {None}
      /\ cache[Slot(w)][Owner[c]] \in Entry \cup {None}
  BY SlotType, ClientsAssumption, TimeAssumption DEF TypeOK, Kept
<1>2. CASE c \in live /\ sess[c] # None /\ sess[c] <= window
  <2>1. sess[c] \in Nat /\ sess[c] <= window'
    BY <1>1, <1>2, TimeAssumption DEF Age
  <2> QED
    BY <1>2, <2>1 DEF Kept, Granted, Fresh
<1>3. CASE /\ cache[Slot(w)][Owner[c]] # None
           /\ cache[Slot(w)][Owner[c]].age <= window
  <2>1. /\ cache[Slot(w)][Owner[c]].age \in Age
        /\ cache[Slot(w)][Owner[c]].age <= window'
    BY <1>1, <1>3, TimeAssumption DEF Entry, Age
  <2> QED
    BY <1>3, <2>1, NoneAssumption DEF Kept, Granted, Fresh, Cached, CacheKey, Slot
<1> QED
  BY <1>2, <1>3 DEF Granted, Fresh, Cached, CacheKey, Slot

LEMMA StepKeepsAccess ==
  ASSUME \A n \in Windows : MaxFlight <= n,
         TypeOK, TypeOK', SessionsAreLive, StampInFlight, [Next]_vars,
         NEW c \in Client, NEW w \in Worker
  PROVE  \/ Kept(c, w) \/ window' < window \/ Tick \/ Logout(c)
         \/ Evict(Slot(w), Owner[c])
         \/ \E d \in Client, v \in Worker : Owner[d] = Owner[c] /\ Revoke(d, v)
<1>0. /\ window \in Nat /\ window' \in Nat /\ MaxFlight <= window
      /\ Slot(w) \in Worker /\ Owner[c] \in User
  BY SlotType, ClientsAssumption, TimeAssumption DEF TypeOK
<1>1. ASSUME window' = window, c \in live => c \in live', sess'[c] = sess[c],
             cache'[Slot(w)][Owner[c]] = cache[Slot(w)][Owner[c]]
      PROVE  Kept(c, w)
  BY <1>0, <1>1 DEF Kept
<1>2. ASSUME NEW r \in Request, NEW d \in Client, NEW v \in Worker,
             NEW correct \in BOOLEAN, CheckPassword(r, d, v, correct)
      PROVE  Kept(c, w)
  BY <1>1, <1>2 DEF CheckPassword
<1>3. ASSUME NEW r \in Request, GrantCache(r) PROVE Kept(c, w)
  <2>1. \/ cache'[Slot(w)][Owner[c]] = cache[Slot(w)][Owner[c]]
        \/ cache'[Slot(w)][Owner[c]] = [age |-> 0, left |-> window]
    BY <1>0, <1>3 DEF GrantCache, CacheKey, TypeOK
  <2>2. ASSUME cache'[Slot(w)][Owner[c]] = [age |-> 0, left |-> window]
        PROVE  Fresh(Cached(w, Owner[c]))'
    <3>1. cache'[Slot(w)][Owner[c]] \in Entry /\ 0 \in Age
      BY <1>0, <2>2, TimeAssumption DEF TypeOK, Entry, Age
    <3> QED
      BY <1>0, <2>2, <3>1, NoneAssumption DEF Fresh, Cached, CacheKey, Slot
  <2> QED
    BY <1>0, <1>3, <2>1, <2>2 DEF GrantCache, Kept
<1>4. ASSUME NEW r \in Request, SaveSession(r) PROVE Kept(c, w)
  <2>1. req[r] # None /\ req[r] \in Flight /\ req[r].stage = "cached"
    BY <1>4 DEF SaveSession, TypeOK
  <2>2. CASE req[r].client = c /\ req[r].session
    <3>1. c \in live /\ sess'[c] = req[r].stamp
      BY <1>4, <2>1, <2>2 DEF SaveSession, SessionsAreLive, TypeOK
    <3>2. req[r].stamp <= window /\ req[r].stamp # None
      <4>1. /\ req[r].stamp \in Age /\ req[r].fly \in Nat
            /\ req[r].fly <= MaxFlight /\ req[r].stamp <= req[r].fly
        BY <2>1, TimeAssumption DEF Flight, StampInFlight
      <4> QED
        BY <1>0, <4>1, TimeAssumption, NoneAssumption DEF Age
    <3> QED
      BY <1>0, <1>4, <3>1, <3>2 DEF SaveSession, Kept, Fresh
  <2>3. CASE ~(req[r].client = c /\ req[r].session)
    <3>1. sess'[c] = sess[c]
      BY <1>4, <2>3 DEF SaveSession, TypeOK
    <3> QED
      BY <1>1, <1>4, <3>1 DEF SaveSession
  <2> QED
    BY <2>2, <2>3
<1>5. ASSUME NEW r \in Request, Crash(r) PROVE Kept(c, w)
  BY <1>1, <1>5 DEF Crash
<1>6. ASSUME NEW d \in Client, Login(d) PROVE Kept(c, w)
  BY <1>1, <1>6 DEF Login
<1>7. ASSUME NEW d \in Client, Logout(d), d # c PROVE Kept(c, w)
  <2>1. sess'[c] = sess[c] /\ (c \in live => c \in live')
    BY <1>7 DEF Logout, TypeOK
  <2> QED
    BY <1>1, <1>7, <2>1 DEF Logout
<1>8. ASSUME NEW d \in Client, NEW v \in Worker, Revoke(d, v), Owner[d] # Owner[c]
      PROVE  Kept(c, w)
  <2>1. sess'[c] = sess[c]
    BY <1>8 DEF Revoke, RevokedSessions
  <2>2. cache'[Slot(w)][Owner[c]] = cache[Slot(w)][Owner[c]]
    BY <1>0, <1>8 DEF Revoke, CacheKey, TypeOK
  <2> QED
    BY <1>1, <1>8, <2>1, <2>2 DEF Revoke
<1>9. ASSUME NEW v \in Worker, NEW u \in User, Evict(v, u),
             ~(v = Slot(w) /\ u = Owner[c])
      PROVE  Kept(c, w)
  <2>1. cache'[Slot(w)][Owner[c]] = cache[Slot(w)][Owner[c]]
    BY <1>0, <1>9 DEF Evict, TypeOK
  <2> QED
    BY <1>1, <1>9, <2>1 DEF Evict
<1>10. ASSUME NEW u \in User, Unlock(u) PROVE Kept(c, w)
  BY <1>1, <1>10 DEF Unlock
<1>11. ASSUME NEW n \in Windows, SetWindow(n) PROVE Kept(c, w) \/ window' < window
  BY <1>0, <1>11 DEF SetWindow, Kept
<1>12. CASE UNCHANGED vars
  BY <1>1, <1>12 DEF vars
<1> QED
  BY <1>2, <1>3, <1>4, <1>5, <1>6, <1>7, <1>8, <1>9, <1>10, <1>11, <1>12 DEF Next

\* Access lasts until something that is meant to ends it, with a shared or a
\* per-process cache, as long as no request outlives the shortest window (one
\* that does may save a session timestamp that is stale already over one that
\* is not).
THEOREM AccessLasts ==
  ASSUME \A n \in Windows : MaxFlight <= n
  PROVE  Spec => AccessIsNotCutShort
<1>1. Spec => []TypeOK
  BY TypeInvariant
<1>2. Init => SessionsAreLive /\ StampInFlight
  BY DEF Init, SessionsAreLive, StampInFlight
<1>3. TypeOK /\ SessionsAreLive /\ StampInFlight /\ [Next]_vars
        => SessionsAreLive' /\ StampInFlight'
  BY StepSessionsAreLive, StepStampInFlight
<1>4. TypeOK /\ TypeOK' /\ SessionsAreLive /\ StampInFlight /\ [Next]_vars =>
        [\A c \in Client, w \in Worker :
           Granted(c, w) /\ ~Granted(c, w)' =>
             \/ window' < window
             \/ Tick
             \/ Logout(c)
             \/ Evict(Slot(w), Owner[c])
             \/ \E d \in Client, v \in Worker :
                  Owner[d] = Owner[c] /\ Revoke(d, v)]_vars
  BY StepKeepsAccess, KeptStaysAdmitted
<1> QED
  BY <1>1, <1>2, <1>3, <1>4, PTL DEF Spec, AccessIsNotCutShort
=============================================================================
