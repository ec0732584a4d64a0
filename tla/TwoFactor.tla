----------------------------- MODULE TwoFactor -----------------------------
(***************************************************************************)
(* Two-factor authentication of one account: POST me/2fa/setup/ and        *)
(* me/2fa/activate/ (UserViewSet.setup_2fa, activate_2fa;                  *)
(* VerificationService.setup_2fa, verify_2fa) and the other writers of the *)
(* key and the flag, PATCH me/secrets/, PATCH me/ and POST me/anonymize/,  *)
(* as requests that interleave on the account's rows and on the            *)
(* anti-replay cache.                                                      *)
(*                                                                         *)
(* Time is a clock in ticks; a TOTP step lasts StepLength ticks.  A token  *)
(* is the string a client sends: the code of a key for a step, in one of   *)
(* its spellings.  A request reads the user when it is authenticated and   *)
(* the vault when the handler first touches it: both snapshots are used    *)
(* after other requests may have written.  External: pyotp, the cache      *)
(* backend, and the administrator who may clear two_factor_enabled.        *)
(***************************************************************************)
EXTENDS Integers, FiniteSets

CONSTANTS Key,          \* secrets pyotp.random_base32() may draw, once each
          Request,      \* requests of the account in flight at once
          Apart,        \* the pairs of handlers whose requests do not overlap
          Worker,
          Spelling,     \* the ways to write a code: pyotp normalises (NFKC)
          SharedCache,  \* the cache is one backend for all workers
          StepLength,   \* 30 seconds, in ticks
          UsedTTL,      \* cache timeout of an accepted token, in ticks
          MaxTime,      \* bound on the clock
          None

Op == {"setup", "activate", "secrets", "me", "anonymize"}

ASSUME ApartAssumption == Apart \subseteq SUBSET Op
ASSUME SharedAssumption == SharedCache \in BOOLEAN
ASSUME TimeAssumption == /\ StepLength \in Nat \ {0}
                         /\ UsedTTL \in Nat \ {0}
                         /\ MaxTime \in Nat

Time == 0..MaxTime
TotpStep == -1..((MaxTime \div StepLength) + 1)
Token == [key: Key, step: TotpStep, spelling: Spelling]

VARIABLES clock,
          drawn,      \* keys drawn so far
          key,        \* otp_secret_key, None when NULL
          enabled,    \* two_factor_enabled
          closed,     \* anonymised and deleted
          used,       \* per cache backend and token: when the entry expires
          req,        \* the requests in flight
          shown,      \* history: keys whose setup response was sent
          confirmed,  \* history: keys that accepted a token
          accepted    \* history: per token, when it was last accepted

account == <<drawn, key, enabled, closed, shown, confirmed>>
cache == <<clock, used, accepted>>
vars == <<account, cache, req>>

Flight == [op: Op,
           at: {"auth", "save", "reply", "verify", "enable"},
           backend: Worker \cup {None}, enabled: BOOLEAN, key: Key \cup {None},
           token: Token \cup {None}]

ASSUME NoneAssumption ==
  None \notin Key \cup Int \cup Token \cup Flight \cup Worker

TypeOK ==
  /\ clock \in Time
  /\ drawn \subseteq Key
  /\ key \in drawn \cup {None}
  /\ enabled \in BOOLEAN /\ closed \in BOOLEAN
  /\ used \in [Worker -> [Token -> 0..(MaxTime + UsedTTL) \cup {None}]]
  /\ req \in [Request -> Flight \cup {None}]
  /\ shown \subseteq drawn
  /\ confirmed \subseteq drawn
  /\ accepted \in [Token -> Time \cup {None}]

Init ==
  /\ clock = 0
  /\ drawn = {} /\ key = None /\ enabled = FALSE /\ closed = FALSE
  /\ used = [w \in Worker |-> [tok \in Token |-> None]]
  /\ req = [r \in Request |-> None]
  /\ shown = {} /\ confirmed = {}
  /\ accepted = [tok \in Token |-> None]

-----------------------------------------------------------------------------
\* The cache backend of a worker.
Slot_PerProcess(w) == w
Slot(w) == IF SharedCache THEN CHOOSE x \in Worker : TRUE ELSE w

CurrentStep == clock \div StepLength

\* pyotp.TOTP(key).verify(token, valid_window=1), whatever the spelling
Verifies(k, tok) ==
  tok.key = k /\ tok.step \in (CurrentStep - 1)..(CurrentStep + 1)

\* cache.get("totp_used_<user>_<token>"): the string as it was sent
IsUsed(b, tok) == used[b][tok] # None

\* A request arrives and is authenticated: request.user is read (its flag is
\* kept where the handler uses it).
Arrive(r, op, b, tok) ==
  /\ req[r] = None /\ ~closed
  /\ \A s \in Request : req[s] # None => {req[s].op, op} \notin Apart
  /\ req' = [req EXCEPT ![r] = [op |-> op, at |-> "auth", backend |-> b,
                enabled |-> op \in {"setup", "me"} /\ enabled,
                key |-> None, token |-> tok]]
  /\ UNCHANGED <<account, cache>>

\* Tokens come from the authenticator app, which scanned some key and whose
\* clock may be one step off; they may be too old when they are verified.
Presentable(tok) ==
  tok.key \in shown /\ tok.step \in (CurrentStep - 1)..(CurrentStep + 1)

At(r, op, at) == req[r] # None /\ req[r].op = op /\ req[r].at = at

Leave(r) == req' = [req EXCEPT ![r] = None]

-----------------------------------------------------------------------------
\* setup_2fa, the guard: refuse when the user READ AT AUTHENTICATION has 2FA.
MaySetUp_Always(r) == TRUE
MaySetUp(r) == ~req[r].enabled

GuardSetup(r) ==
  /\ At(r, "setup", "auth")
  /\ IF MaySetUp(r) THEN req' = [req EXCEPT ![r].at = "save"] ELSE Leave(r)
  /\ UNCHANGED <<account, cache>>

\* A fresh key is saved over the old one.  The recovery codes go to
\* set_sensitive_data("otp_recovery_codes"), which assigns an attribute that is
\* no column of the vault: nothing of them is saved ...
SaveSetup(r, k) ==
  /\ At(r, "setup", "save")
  /\ k \in Key \ drawn
  /\ drawn' = drawn \cup {k}
  /\ key' = k
  /\ req' = [req EXCEPT ![r].at = "reply", ![r].key = k]
  /\ UNCHANGED <<enabled, closed, shown, confirmed, cache>>

\* ... and returned with the recovery codes.
Reply(r) ==
  /\ At(r, "setup", "reply")
  /\ shown' = shown \cup {req[r].key}
  /\ Leave(r)
  /\ UNCHANGED <<drawn, key, enabled, closed, confirmed, cache>>

-----------------------------------------------------------------------------
\* verify_2fa: read the vault, then look the token up in the cache.
LookUpToken(r) ==
  /\ At(r, "activate", "auth")
  /\ IF key = None \/ IsUsed(req[r].backend, req[r].token)
     THEN Leave(r)
     ELSE req' = [req EXCEPT ![r].at = "verify", ![r].key = key]
  /\ UNCHANGED <<account, cache>>

Accepts(r) == At(r, "activate", "verify") /\ Verifies(req[r].key, req[r].token)

\* The cache entry: written when a token is accepted, gone after UsedTTL.
Remembered_TooLong(r) ==
  [used EXCEPT ![req[r].backend][req[r].token] = clock + 3 * UsedTTL]
Remembered(r) ==
  [used EXCEPT ![req[r].backend][req[r].token] = clock + UsedTTL]

\* ... verify it and, when it is valid, remember it.
AcceptToken(r) ==
  /\ Accepts(r)
  /\ used' = Remembered(r)
  /\ req' = [req EXCEPT ![r].at = "enable", ![r].backend = None,
                        ![r].token = None]
  /\ confirmed' = confirmed \cup {req[r].token.key}
  /\ accepted' = [accepted EXCEPT ![req[r].token] = clock]
  /\ UNCHANGED <<clock, drawn, key, enabled, closed, shown>>

RefuseToken(r) ==
  /\ At(r, "activate", "verify") /\ ~Accepts(r)
  /\ Leave(r)
  /\ UNCHANGED <<account, cache>>

\* user.save(update_fields=["two_factor_enabled"])
Enable(r) ==
  /\ At(r, "activate", "enable")
  /\ enabled' = TRUE
  /\ Leave(r)
  /\ UNCHANGED <<drawn, key, closed, shown, confirmed, cache>>

-----------------------------------------------------------------------------
\* PATCH me/secrets saves the whole vault row, with the key it read ...
LoadSecrets(r) ==
  /\ At(r, "secrets", "auth")
  /\ req' = [req EXCEPT ![r].at = "save", ![r].key = key]
  /\ UNCHANGED <<account, cache>>

SaveSecrets(r) ==
  /\ At(r, "secrets", "save")
  /\ key' = req[r].key
  /\ Leave(r)
  /\ UNCHANGED <<drawn, enabled, closed, shown, confirmed, cache>>

\* ... PATCH me the whole user row, with the flag it read, alive ...
SaveMe(r) ==
  /\ At(r, "me", "auth")
  /\ enabled' = req[r].enabled
  /\ closed' = FALSE
  /\ Leave(r)
  /\ UNCHANGED <<drawn, key, shown, confirmed, cache>>

\* ... and anonymize() clears the key and leaves the flag.
Anonymize(r) ==
  /\ At(r, "anonymize", "auth")
  /\ closed' = TRUE
  /\ key' = IF closed THEN key ELSE None
  /\ Leave(r)
  /\ UNCHANGED <<drawn, enabled, shown, confirmed, cache>>

\* The worker dies between two steps.
Crash(r) ==
  /\ req[r] # None
  /\ Leave(r)
  /\ UNCHANGED <<account, cache>>

-----------------------------------------------------------------------------
\* The only way out of 2FA is the administration form.
Deactivate ==
  /\ enabled
  /\ enabled' = FALSE
  /\ UNCHANGED <<drawn, key, closed, req, shown, confirmed, cache>>

\* Cache entries expire; the history forgets tokens too old to verify.
Tick ==
  /\ clock < MaxTime
  /\ clock' = clock + 1
  /\ used' = [w \in Worker |-> [tok \in Token |->
        IF used[w][tok] = clock + 1 THEN None ELSE used[w][tok]]]
  /\ accepted' = [tok \in Token |->
        IF tok.step < ((clock + 1) \div StepLength) - 1
        THEN None ELSE accepted[tok]]
  /\ UNCHANGED <<account, req>>

Next ==
  \/ \E r \in Request, op \in Op \ {"activate"} : Arrive(r, op, None, None)
  \/ \E r \in Request, w \in Worker, tok \in Token :
        Presentable(tok) /\ Arrive(r, "activate", Slot(w), tok)
  \/ \E r \in Request :
        \/ GuardSetup(r) \/ LookUpToken(r) \/ AcceptToken(r) \/ RefuseToken(r)
        \/ Reply(r) \/ Enable(r)
        \/ LoadSecrets(r) \/ SaveSecrets(r) \/ SaveMe(r) \/ Anonymize(r)
        \/ Crash(r)
  \/ \E r \in Request, k \in Key : SaveSetup(r, k)
  \/ Deactivate
  \/ Tick

Spec == Init /\ [][Next]_vars

-----------------------------------------------------------------------------
\* While 2FA is active on a live account the stored key is one the user
\* proved to hold with a valid token: no handler replaces an active key by an
\* unconfirmed one (setup_2fa), by an older one (me/secrets) or by none
\* (me/anonymize), and none sets the flag for such a key (activate_2fa, me).
ActiveKeyIsConfirmed == enabled /\ ~closed => key \in confirmed

\* A token accepted once is refused for 60 seconds to every request that looks
\* it up after that, on every worker: within the minute only a request that
\* had looked the same string up before it was accepted can go on to accept
\* it once more (verify_2fa looks up and writes without a lock).
RefusedForAMinute ==
  [][\A r \in Request :
       /\ At(r, "activate", "auth") /\ At(r, "activate", "verify")'
       /\ accepted[req[r].token] # None
       => clock >= accepted[req[r].token] + UsedTTL]_vars

\* "A TOTP token cannot be replayed inside its window, across workers": it is
\* accepted once in its life (the same string; another spelling of it is
\* another token to the cache).
AcceptedOnce ==
  [][\A r \in Request : AcceptToken(r) => accepted[req[r].token] = None]_vars
=============================================================================
