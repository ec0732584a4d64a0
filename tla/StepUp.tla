------------------------------- MODULE StepUp -------------------------------
(***************************************************************************)
(* Step-up authentication (users/step_up.py, UserViewSet.reauth and        *)
(* RequiresStepUp): a correct password records a grant in two places, the  *)
(* caller's session if there is one and the cache under the user's id, and *)
(* either of them admits the caller while its timestamp is fresh.          *)
(*                                                                         *)
(* Time is kept as the AGE of every timestamp, in ticks, saturating at     *)
(* MaxAge (older than any window).  A reauth request is three steps: the   *)
(* password check, the cache write, and the session save that the session  *)
(* middleware performs with the response.  External: the login that opens  *)
(* a session, the lockout counter of django-axes, and the cache backend,   *)
(* which may drop an entry at any time.                                    *)
(***************************************************************************)
EXTENDS Integers

CONSTANTS User, Client,
          Owner,          \* the user each client authenticates as
          SessionClient,  \* clients with a session; the others send a token
          Worker,
          SharedCache,    \* the cache is one backend for all workers
          Request,        \* reauth requests in flight at once
          Windows,        \* values STEP_UP_WINDOW_SECONDS may be given
          MaxFlight,      \* longest life of a request
          MaxAge,         \* bound: ages saturate here
          FailureLimit,   \* the lockout's limit
          None

ASSUME ClientsAssumption == /\ Owner \in [Client -> User]
                            /\ SessionClient \subseteq Client
ASSUME SharedAssumption == SharedCache \in BOOLEAN
ASSUME TimeAssumption ==
  /\ Windows \subseteq Nat \ {0}
  /\ MaxFlight \in Nat /\ MaxAge \in Nat
  /\ \A w \in Windows : w + MaxFlight < MaxAge
ASSUME LimitAssumption == FailureLimit \in Nat \ {0}

VARIABLES window,   \* the setting in force, read on every use
          live,     \* session clients whose session exists
          sess,     \* age of step_up_timestamp in each session
          cache,    \* per cache backend and user: timestamp age, time to live
          req,      \* reauth requests between their steps
          fails,    \* failed attempts counted against each user
          since     \* history: time since the user's last correct password

vars == <<window, live, sess, cache, req, fails, since>>

Age == 0..MaxAge
Entry == [age: Age, left: 1..MaxAge]
Flight == [stage: {"checked", "cached"}, client: Client, worker: Worker,
           session: BOOLEAN, fly: 0..MaxFlight, stamp: Age]

ASSUME NoneAssumption == None \notin Age \cup Entry \cup Flight

Slot(w) == IF SharedCache THEN CHOOSE x \in Worker : TRUE ELSE w

\* _cache_key: one entry per user.
CacheKey_Global(u) == CHOOSE x \in User : TRUE
CacheKey(u) == u

TypeOK ==
  /\ window \in Windows
  /\ live \subseteq SessionClient
  /\ sess \in [Client -> Age \cup {None}]
  /\ cache \in [Worker -> [User -> Entry \cup {None}]]
  /\ req \in [Request -> Flight \cup {None}]
  /\ fails \in [User -> 0..FailureLimit]
  /\ since \in [User -> Age]

Init ==
  /\ window \in Windows
  /\ live = {}
  /\ sess = [c \in Client |-> None]
  /\ cache = [w \in Worker |-> [u \in User |-> None]]
  /\ req = [r \in Request |-> None]
  /\ fails = [u \in User |-> 0]
  /\ since = [u \in User |-> MaxAge]

-----------------------------------------------------------------------------
(* _is_fresh and is_granted: both timestamps are compared with the window  *)
(* in force now, the cached one although it also has a time to live.       *)
Fresh_AnyAge(age) == age # None
Fresh(age) == age # None /\ age <= window

Cached(w, u) == LET entry == cache[Slot(w)][CacheKey(u)] IN
                IF entry = None THEN None ELSE entry.age

Granted(c, w) == \/ c \in live /\ Fresh(sess[c])
                 \/ Fresh(Cached(w, Owner[c]))

Authenticated(c) == c \in SessionClient => c \in live

-----------------------------------------------------------------------------
(* reauth: the password goes through authenticate(), so a locked user is   *)
(* refused whatever the password, and a wrong one is counted.              *)
Accepts_IgnoresPassword(u, correct) == fails[u] < FailureLimit
Accepts(u, correct) == correct /\ fails[u] < FailureLimit

CheckPassword(r, c, w, correct) ==
  /\ req[r] = None /\ Authenticated(c)
  /\ IF Accepts(Owner[c], correct)
     THEN req' = [req EXCEPT ![r] =
            [stage |-> "checked", client |-> c, worker |-> w,
             session |-> c \in live, fly |-> 0, stamp |-> 0]]
     ELSE UNCHANGED req
  /\ since' = IF correct /\ fails[Owner[c]] < FailureLimit
              THEN [since EXCEPT ![Owner[c]] = 0] ELSE since
  /\ fails' = IF correct \/ fails[Owner[c]] = FailureLimit THEN fails
              ELSE [fails EXCEPT ![Owner[c]] = @ + 1]
  /\ UNCHANGED <<window, live, sess, cache>>

\* step_up.grant: take the time, write the cache with the window as TTL; the
\* session, if the request came with one, is written in memory only.
GrantCache(r) ==
  /\ req[r] # None /\ req[r].stage = "checked"
  /\ cache' = [cache EXCEPT
        ![Slot(req[r].worker)][CacheKey(Owner[req[r].client])] =
           [age |-> 0, left |-> window]]
  /\ req' = [req EXCEPT ![r] =
               IF req[r].session THEN [@ EXCEPT !.stage = "cached", !.stamp = 0]
                                 ELSE None]
  /\ UNCHANGED <<window, live, sess, fails, since>>

\* The response saves the session.
SaveSession(r) ==
  /\ req[r] # None /\ req[r].stage = "cached"
  /\ sess' = IF req[r].session
             THEN [sess EXCEPT ![req[r].client] = req[r].stamp] ELSE sess
  /\ req' = [req EXCEPT ![r] = None]
  /\ UNCHANGED <<window, live, cache, fails, since>>

\* The worker dies or the connection drops.
Crash(r) ==
  /\ req[r] # None
  /\ req' = [req EXCEPT ![r] = None]
  /\ UNCHANGED <<window, live, sess, cache, fails, since>>

-----------------------------------------------------------------------------
Login(c) ==
  /\ c \in SessionClient \ live
  /\ live' = live \cup {c}
  /\ UNCHANGED <<window, sess, cache, req, fails, since>>

\* The session is flushed; a request still holding it cannot save it.
Logout(c) ==
  /\ c \in live
  /\ live' = live \ {c}
  /\ sess' = [sess EXCEPT ![c] = None]
  /\ req' = [r \in Request |->
               IF req[r] # None /\ req[r].client = c
               THEN [req[r] EXCEPT !.session = FALSE] ELSE req[r]]
  /\ UNCHANGED <<window, cache, fails, since>>

\* step_up.revoke, called with some request of the user.
RevokedSessions_All(c) == Client
RevokedSessions(c) == {c}
Revoke(c, w) ==
  /\ Authenticated(c)
  /\ sess' = [d \in Client |-> IF d \in RevokedSessions(c) THEN None ELSE sess[d]]
  /\ cache' = [cache EXCEPT ![Slot(w)][CacheKey(Owner[c])] = None]
  /\ UNCHANGED <<window, live, req, fails, since>>

Evict(w, u) ==
  /\ cache[w][u] # None
  /\ cache' = [cache EXCEPT ![w][u] = None]
  /\ UNCHANGED <<window, live, sess, req, fails, since>>

Unlock(u) ==
  /\ fails[u] > 0
  /\ fails' = [fails EXCEPT ![u] = 0]
  /\ UNCHANGED <<window, live, sess, cache, req, since>>

SetWindow(n) ==
  /\ n # window
  /\ window' = n
  /\ UNCHANGED <<live, sess, cache, req, fails, since>>

Older_Unbounded(age) == age + 1
Older(age) == IF age < MaxAge THEN age + 1 ELSE age

Tick ==
  /\ \A r \in Request : req[r] # None => req[r].fly < MaxFlight
  /\ sess' = [c \in Client |-> IF sess[c] = None THEN None ELSE Older(sess[c])]
  /\ cache' = [w \in Worker |-> [u \in User |->
        IF cache[w][u] = None \/ cache[w][u].left = 1 THEN None
        ELSE [age |-> Older(cache[w][u].age), left |-> cache[w][u].left - 1]]]
  /\ req' = [r \in Request |->
        IF req[r] = None THEN None
        ELSE [req[r] EXCEPT !.fly = @ + 1, !.stamp = Older(@)]]
  /\ since' = [u \in User |-> Older(since[u])]
  /\ UNCHANGED <<window, live, fails>>

Finish(r) == GrantCache(r) \/ SaveSession(r) \/ Crash(r)

Next ==
  \/ \E r \in Request, c \in Client, w \in Worker, correct \in BOOLEAN :
        CheckPassword(r, c, w, correct)
  \/ \E r \in Request : GrantCache(r) \/ SaveSession(r) \/ Crash(r)
  \/ \E c \in Client : Login(c) \/ Logout(c)
  \/ \E c \in Client, w \in Worker : Revoke(c, w)
  \/ \E w \in Worker, u \in User : Evict(w, u)
  \/ \E u \in User : Unlock(u)
  \/ \E n \in Windows : SetWindow(n)
  \/ Tick

Spec == Init /\ [][Next]_vars

\* Time passes, and a request is answered or dies.
LiveSpec == Spec /\ WF_vars(Tick) /\ \A r \in Request : WF_vars(Finish(r))

-----------------------------------------------------------------------------
\* Whoever is admitted belongs to a user who entered the right password
\* within the window in force NOW (plus the life of the reauth request):
\* through either store, on any worker, after the window was shortened, and
\* however logins, crashes and concurrent reauths interleave.
GrantNeedsRecentPassword ==
  \A c \in Client, w \in Worker :
    Granted(c, w) => since[Owner[c]] <= window + MaxFlight

\* Nobody becomes admitted except by the step of a reauth of the same user
\* that writes the cache or saves the session, or because the operator widened
\* the window (a session timestamp outlives the window it was granted under).
\* A login, a logout, a crash or the passing of time admits nobody, whatever
\* requests are in flight.
AdmittedOnlyByReauth ==
  [][\A c \in Client, w \in Worker :
       ~Granted(c, w) /\ Granted(c, w)' =>
         \/ window' > window
         \/ \E r \in Request : /\ GrantCache(r) \/ SaveSession(r)
                               /\ Owner[req[r].client] = Owner[c]]_vars

\* Nothing cuts a grant short but what is meant to: a narrower window, time,
\* the logout of that client, a revocation by the same user, or the cache
\* dropping that user's entry.  A refused, crashed or late reauth (its session
\* copy is saved after the one of a later reauth), a login, a lockout and
\* whatever other users do leave everybody admitted who was.
AccessIsNotCutShort ==
  [][\A c \in Client, w \in Worker :
       Granted(c, w) /\ ~Granted(c, w)' =>
         \/ window' < window
         \/ Tick
         \/ Logout(c)
         \/ Evict(Slot(w), Owner[c])
         \/ \E d \in Client, v \in Worker : Owner[d] = Owner[c] /\ Revoke(d, v)]_vars

\* A grant lapses: a client is not admitted forever unless its user keeps
\* re-authenticating.
GrantLapses ==
  \A c \in Client, w \in Worker :
    []<>(~Granted(c, w)) \/ []<>(since[Owner[c]] = 0)
=============================================================================
