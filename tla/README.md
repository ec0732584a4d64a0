# The users application: specifications

TLA+ models of `src/users`, the reusable Django application this repository
ships: an e-mail-keyed user with two satellite rows, soft deletion and
anonymisation, a REST API over the caller's own account, step-up
authentication and TOTP enrolment. TLC checks the models on small instances;
TLAPS proves every safety and action property the passing runs check, and the
refinement, for every instance, some of them under a hypothesis section 4 names.

The code is short and mostly straight-line. What is hard about it is not in
any single function: Django commits every statement by itself unless told
otherwise, a request works on model *instances* read earlier, `save()` writes
every column back, a queryset is a query that is evaluated again by every
statement, and the state that guards the sensitive endpoints lives partly in a
session and partly in a cache. The repository's own audit says so:
"Cross-worker anti-replay is reasoned about" and not measured
(`docs/audits/AUDIT_004_USERS_APP.md:284`).

## 1. The system

| Component | Code | State | Operations |
|---|---|---|---|
| Account lifecycle | `managers.py`, `signals.py`, `models/` | rows of `User`, `UserProfile`, `UserSecret`; `deleted_at` in all three, `is_anonymized` in the first | `create_user`, `delete`, `restore`, `anonymize`, `hard_delete`, the `post_save` receiver |
| Step-up | `step_up.py`, `permissions.py`, `views.py` | a timestamp in the session, another in the cache under the user's id | `grant`, `is_granted`, `revoke`, `me/reauth` |
| TOTP enrolment | `services.py`, `views.py` | `otp_secret_key`, `two_factor_enabled`; used tokens in the cache | `me/2fa/setup`, `me/2fa/activate`; `me`, `me/secrets` and `me/anonymize` write the same columns |
| Account API | `views.py`, `serializers/` | the rows above, and `UserSecretAudit` | `me`, `me/profile`, `me/secrets`, `verify`, `me/anonymize` |
| Registration | `views.py`, `services.py`, `events.py` | the verification code and its expiry | `register`, the `verification_code_issued` signal, `verify` |
| Vault encryption | `encryption.py`, `models/secrets.py` | encrypted columns and their blind indexes | `set_sensitive_data`, `get_sensitive_data` |
| Throttling, checks, defaults | `throttling.py`, `checks.py`, `defaults.py` | the framework's request history; settings | a rate lookup; start-up warnings |
| Administration | `admin.py` | the same rows | forms |

**Interactions.** The view authenticates the caller, which reads the user row;
the vault row is read when a handler first touches `user.secrets`. The manager's
`save()` calls the receiver, in the same transaction, which inserts both
satellites. `RequiresStepUp` asks `step_up` on every gated request, on whatever
worker serves it. `me/anonymize` calls the manager's bulk operation on a
one-row queryset. The host application is called through the signal and calls
`revoke` and the bulk operations.

**What makes each part correct.**
- *Lifecycle*: no account without its satellites and no satellite without its
  account; the three rows are deleted and restored together; what is marked
  anonymised is clear in the columns `anonymize()` names, is dead, and is never
  restored; only an account found alive is purged; overlapping operations do not
  deadlock.
- *Step-up*: only a recent password of the same user admits anyone; a grant is
  not cut short by the failures of others, and lapses.
- *TOTP*: an active key is one the user proved to hold; an accepted token is not
  accepted again.
- *Account API*: closing and verification are not undone by the owner's other
  requests; a change of identity data leaves an audit row.
- *Vault*: a column and its blind index belong together; one national id has one
  holder; what is stored has been audited.
- *Registration*: no account without a code that its owner was sent, unless it
  is verified already; a code verifies only the account it was issued for and
  only until its expiry; a second registration does not touch the first.

The hard behaviours, at their lines, are the `hazards` of `PROJECT.json`.

## 2. The modules

Each component has a module; `MC<module>` extends it with the symmetry and
the definitions a TLC configuration refers to; `<module>_proofs` extends it with
theorems, and `AccountRefinement_proofs` relates `AccountLifecycle` to its contract.

### AccountLifecycle
`db[table][user]` are the committed rows and `dirty[txn]` the uncommitted
writes of each transaction; a row with a foreign uncommitted write is locked.
`Begin*` starts an operation on a queryset, which is a manager (`objects` hides
dead rows, `audit_objects` shows all), a filter (`id`; `identity`, an attribute
that anonymisation rewrites; `dead`) and a set of ids. `delete` and `restore`
are `UpdateProfiles`, `UpdateSecrets`, `UpdateUsers`, in that order, each
evaluating the queryset (`Targets`) again; `anonymize` is `FetchAnonymize`, one
`AnonymizeOne` per user from the instance it read, then `FinishLoop` and the
three updates of its trailing `delete()`; `hard_delete` is `Collect` and
`Purge`; creation is three inserts; `BeginSave`, `FetchSave`, `WriteSave` are a
handler that reads a row and saves it later. Any transaction may be rolled
back between any two statements. `Isolation` is `read_committed`, or `serial`:
callers that take turns. The latter is a hypothesis and no database's mode, since
`hard_delete()` collects before its atomic block begins and a handler reads outside
any transaction.

*Abstractions*: an UPDATE is one step, and so are the three row writes of one
turn of the `anonymize()` loop, which are in one transaction (the lock waits
between them are the subject of `RowLocks`); `pii` is one Boolean per row and
stands for the columns `anonymize()` names, no others (section 5 lists what it
leaves); a saved row always carries some; timestamps come from a
small set.

### AccountContract
What the contract document and the docstrings promise of an account as a whole:
it is absent, alive, deleted or closed, and one operation moves a set of
accounts, all of them or none. `AccountLifecycle` implements it
(`ImplementsContract`) under the mapping `StateOf`, which reads the three
committed rows of an account and gives "torn", a state the contract does not
have, when they disagree. An operation takes its step in the contract when its
transaction commits; everything before is a stutter. The contract holds only while
callers take turns: `f_propagation` is a torn account.

### RowLocks
The same operations seen by the lock manager of a database with row locks, and
nothing else of them: which transaction runs (`txn`), what it has locked
(`held`) and what it waits for (`want`). `Begin` starts one; `NextInstance` and
`Lock` walk the loop of `anonymize()` through profile, vault and user of one
instance after the other; a bulk UPDATE locks the rows of its table in any
order, and `EndStatement` ends it after any of them, because what it finds
depends on what has been committed. A `form` is the administration's change form:
one transaction that writes the user row and then, inline, its profile (`Later`),
the reverse of every other operation. `Rollback` is a failed statement or the
database breaking a deadlock. Waits for entries of unique indexes and for rows
that are only referenced are left out.

### StepUp
Timestamps are ages in ticks. `CheckPassword` is `authenticate()` with the
lockout counter of django-axes; `GrantCache` writes the cache; `SaveSession` is
the session middleware, which runs with the response; `Revoke`, `Login`,
`Logout`, `Crash`, `Evict` (the cache may drop anything), `Unlock` and
`SetWindow` (the setting is read on every use) interleave with them. `Granted`
is `is_granted`. `since` is a history variable: the time since the user's last
correct password. `revoke()` has no caller in the repository; the model lets
the host call it at any time.

### TwoFactor
One account. `Arrive` authenticates a request and keeps `two_factor_enabled` as
it was; `GuardSetup`, `SaveSetup`, `Reply` are `me/2fa/setup`; `LookUpToken`,
`AcceptToken`/`RefuseToken`, `Enable` are `me/2fa/activate`. The other handlers
that write the key or the flag are reduced to these two columns: `LoadSecrets`
and `SaveSecrets` (the whole vault row), `SaveMe` (the whole user row),
`Anonymize`. A token is a string: a key, a time step, accepted one step either
way, and a spelling, which pyotp normalises and the cache key does not; the entry
for a used token expires after `UsedTTL`. `Apart` are the pairs of handlers an
instance keeps from overlapping. `shown`, `confirmed` and `accepted` are history.
The configurations use one tick for 30 seconds, or two where half a step matters.
`Deactivate` is the administration form clearing the flag.

### AccountRequests
Several accounts and requests on stale instances: `req[r].usr` is the user row
as read at authentication, `req[r].vlt` the vault row. `SaveMe`, `SaveSecrets`
and `SaveSetup` write a whole instance, and so does `SaveProfile`;
`MarkVerified` and `ClearCode` write only the columns they name, as
`update_fields` does. `Apart` are the pairs of handlers an instance keeps from
overlapping on one account; everything else overlaps. `changes` counts, as
history, the commits that changed a national id, that of a closing included.
Addresses have a spelling, because
`me/anonymize` lower-cases what the caller typed and not what is stored.
*Abstractions*: `closed` is `is_anonymized` and `deleted_at`; the
transaction of `anonymize()` is one step here (its statements are those of
`AccountLifecycle`); the vault's identity data is `dni`; the profile is one
Boolean, whether it holds personal data; step-up is granted; the verification
code is the right one or is refused; its expiry is in `Registration`.

### Vault
The three identity fields, each with its ciphertext and, for two of them, its
blind index. A request runs in a process, and a process has one configuration
of `MASTER_KEY` and `ENCRYPTION_PEPPER`, either of which may be missing; other
processes may have others, as during a deployment. `Load` reads the row,
`WriteField` is one turn of the loop over `SENSITIVE_FIELDS` (the instance is
changed, the audit row committed), `RefuseField` the exception of a missing
setting, and `Save` writes the whole row, subject to the unique index on
`dni_index`. `me/2fa/setup` is a request that loads and saves; `Anonymize` is
the erasure. *Abstractions*: Fernet and HMAC are injective in value and key; an
audit row carries the value it was written for, which the table does not have; the
vault's other columns are left out.

### Registration
An account is known by its address. `Register` is the serializer's lookup,
`InsertAccount` meets the unique index (and waits for an insert that is not
committed), `IssueCode` writes the code and its expiry, `Announce` sends the
signal and `CommitAccount` ends the transaction: until then `otp` and
`registered` do not change, and a receiver that raises or a worker that dies
(`Crash`) leaves nothing but what the receiver was given (`mail`). `Reissue`
takes the same two steps outside a transaction, so the code is on record before
the receiver has it. `Verify` and `CheckCode` are the lookup and the comparison;
`SaveUser`, `SaveVault` and `Audit` are the three commits after it, in the
code's order. `stored` and `proof` are history. Two issues may draw the same
code. An address is typed as it is stored or
with other capitals (`Spelling`): the lookup compares it as typed and through
the manager of live rows, the insert is in lower case and meets every account,
also one that `SoftDelete` has hidden until `Restore`. *Abstractions*: a
receiver is connected (`users.W001` warns of a host without one); no account is
anonymised or changes its address, which other modules model.

## 3. What is checked

Passing runs:

| Run | What it shows |
|---|---|
| `lifecycle_serial` | Callers that take turns, two users, every subset, both managers, each statement allowed to fail: all the lifecycle properties but the next run's last, and that `AccountContract` is implemented. |
| `lifecycle_concurrent` | Two transactions on one account under READ COMMITTED: satellites are never missing or orphaned, what is anonymised is erased and dead, and what is purged had been found alive (`PurgedWereLive`). |
| `stepup` | Two users, two workers, two reauth requests in flight: `GrantNeedsRecentPassword`, `AdmittedOnlyByReauth`, `AccessIsNotCutShort`, and `GrantLapses` under fairness. |
| `twofactor` | Two requests at once of every handler that writes the key or the flag, on two workers, with crashes, four pairs of handlers kept apart: `ActiveKeyIsConfirmed`, `RefusedForAMinute`. |
| `requests` | All handlers over two accounts, two requests at once, with crashes; a closing overlaps no handler that saves a whole instance and a 2FA setup no `PATCH me/secrets`, everything else overlaps: `ChangesAreAudited`, `ClosedIsFinal`, `VerifiedIsKept`. |
| `vault` | Two users, two requests in flight, stale rows, closures, two sets of settings and a missing pepper: `IndexMatchesValue`, `OneHolder`, `StoredIsAnnounced`. |
| `row_locks` | Two operations of the host or the administration and one API request on two accounts, lock by lock: `DeadlockNeedsBulkOrForm`. |
| `registration` | Two requests on one address in either spelling, with crashes, a raising receiver, expiry and an account deleted and restored meanwhile: `UnverifiedHasCode`, `AccountsAreAnnounced`, `VerifiedInTime`, `VerifiedForGood`. |

Runs in which the code departs from what the repository says of it; each is
an entry of `findings`, with the line quoted:

| Run | Property | How it happens |
|---|---|---|
| `f_propagation` | `DeletionPropagated` | `delete()` and `restore()` at once: each statement selects by then-committed rows, and the three rows disagree |
| `f_setup_race` | `ActiveKeyIsConfirmed` | a setup authenticated before the activation saves its key after it |
| `f_replay_window` | `AcceptedOnce` | a token lives for 90 seconds and is remembered for 60 |
| `f_resurrected_by_me` | `ClosedIsFinal` | a stale `save()` of the user or of the vault after `anonymize()` |

`f_propagation`, `f_setup_race` and `f_resurrected_by_me` check the property of a
passing run with an overlap let in that the run keeps out: the property is what
the code is meant to do, and the interleaving breaks it. `f_replay_window` checks
the blueprint's claim, which is wider than the minute of `RefusedForAMinute`, with
a single request. Overlaps that are kept out and have no run of their own are in
the notes of the `hazards` and, where a document promises otherwise, in section 5.

**What is kept apart.** `twofactor` keeps a setup from an activation, from
`me/secrets` and from `PATCH me`, and `PATCH me` from a closing. None of the four
can be let in: with any one of them dropped TLC finds `ActiveKeyIsConfirmed`
violated. `RefusedForAMinute` needs none. `requests` keeps closings from the four
handlers that save whole instances, for `ClosedIsFinal`, and setups from
`me/secrets`, for `ChangesAreAudited` (which needs the closings apart from setups
and `PATCH me` as well); `VerifiedIsKept` needs nothing kept apart,
because it says which overlap takes a verification away.

**Bounds.** Two users are enough for a bulk operation to split them (one
selected, one not; one anonymised, one only deleted) and for one user's grant or
id to be confused with the other's; two transactions, requests or workers for
any pair of steps to interleave. `lifecycle_concurrent` has one user because
rows of different users interact only through the target set, which
`lifecycle_serial` covers. Its callers filter by id or by `.dead()`. `MaxAge` is one more than the longest window plus
the life of a request, so an age at the bound is already too old for any
window. `MaxTime` leaves room to accept a token, let its entry expire and
present it once more. `registration` has one address, because requests of
different addresses share nothing; two codes, so that a code can be wrong or be
drawn twice; and time for a code to expire and its successor to be issued.
`MaxAudits` bounds the audited vault writes of a user, and of any two together, at
two in `requests`: one audited change can follow or overlap another of the same
account, and a change of the other account. `twofactor` has two keys,
so that one can replace the other, and a clock of two ticks, in which an entry
expires at the last; a token has one spelling there, any number in the theorem.
`vault` has two users for one national id, two requests so that one
works on a row the other has changed, old and new settings, a process without a
pepper, and two bodies: a national id, and a blank one with a phone number,
whose second field such a process refuses after the first is audited. A change
of key alone, other bodies and more users are covered by the proofs.
`row_locks` has the smallest deadlocks (two bulk operations on two accounts, a
form and a closing on one) and a third transaction that may join them.
`MaxFlight` is how long a reauth request may take; `GrantNeedsRecentPassword`
allows for it, because the timestamp is taken after the password is checked.

**Fairness.** Only `stepup` needs it: `WF(Tick)` (time passes) and, for each
request, `WF(Finish)` (a worker answers its request or dies). Nothing is assumed
of logins, evictions, revocations or the operator. `GrantLapses` does not say
that a user who keeps re-authenticating loses access.

**Deadlock** is checked except in `requests`, `vault`, `twofactor` and the `f_`
runs of the same modules, where the accounts may be closed for good (in
`TwoFactor` with time at its bound) and the system really stops.

## 4. What is proved

`StepUp_proofs` proves for any users, clients, workers, requests and windows,
with a shared cache or one per process:
- `TypeInvariant`: `Spec => []TypeOK`;
- `StepUpSafety`: `Spec => []GrantNeedsRecentPassword`. The property is about
  what `is_granted` would answer *now*, so it says nothing of a timestamp that is
  stale now and fresh again when the window is widened. `StampBound` bounds
  every timestamp, in a session, in a cache entry or carried by a request:
  since its owner's last correct password no more time has passed than its age
  plus the life of one request. Each action copies such an age, resets one
  after a password, or lets all of them grow together.
- `OnlyReauthAdmits`: `Spec => AdmittedOnlyByReauth`: whoever becomes admitted does so
  by the very step of a reauth of that user that writes one of the stores, or by a
  wider window; no other step admits, also while reauths are in flight. `NoFresher`
  is the lemma per action: it leaves both timestamps of a client gone or at least
  as old. `Login` is the interesting one; it needs that a timestamp lives in a
  session that exists (`SessionsAreLive`), also for the request that has yet to
  save one.
- `AccessLasts`: `Spec => AccessIsNotCutShort`, *if a reauth request takes no longer
  than any window*. The two copies of a grant are saved in any order, so an older
  one may land on a younger; `StampInFlight` bounds the age a request carries by
  its own life, and the hypothesis makes what it saves still fresh.

`AccountLifecycle_proofs` proves for any users, any number of transactions, both
isolation levels and any filter:
- `TypeInvariant`: `Spec => []TypeOK`;
- `AccountsAreWhole`: `Spec => []SatellitesComplete`. Alone it is not
  inductive: the committed rows are whole because the uncommitted ones are.
  The invariant adds that a row has uncommitted writes of at most one
  transaction (`LockExclusive`), that nobody has touched an identifier that is
  not issued, or is still being created by another (`FreshUsers`), that every
  transaction sees all rows of an account or none, except one it is creating
  (`Aligned`), and that its writes leave the existence of each row as committed
  or cover the whole account (`ExistsWhole`). Outside creation, every step of a
  transaction rewrites rows it can see (`Kept`) or all rows of an account
  (`Whole`); the lemmas are about steps of that shape (`Working`).
- `AnonymizedAccountsAreErased`: `Spec => []AnonymizedIsErased` *when no handler
  saves a stale instance* (`"save" \notin Ops`). Bulk operations alone, in any
  number and order, leave the columns that `anonymize()` names clear in all three
  rows of an anonymised user; of the columns it does not name nothing is said. The
  invariant (`ErasedInView`, `MarkedWhole`, `NothingAdded`,
  `NewcomersAreUnmarked`) says the same of every transaction's view. Without the
  assumption the theorem is false under READ COMMITTED, which is
  `f_resurrected_by_me` seen from the database.
- `OnlyLiveAccountsAreCollected`: `Spec => PurgedWereLive`, with any operations under
  either isolation: a row goes only at the commit of a `hard_delete()` that had
  found the account alive. `Removes` carries that from `Collect` to the commit, and
  the lemmas say of every other action that it removes nothing.
- `AnonymizedAccountsAreDead`: `Spec => []AnonymizedIsDead`, under either
  isolation and with stale saves among the operations, *when no caller filters by
  what anonymisation rewrites* (`"identity" \notin Lookups`; section 5 has what
  happens otherwise). `anonymize()` marks a row first and deletes it later, with
  a queryset evaluated anew. `Intent` says of every uncommitted row that is marked
  and not dead that its transaction still has that delete ahead and that the
  queryset still selects the row (`Closing`). Locks play no part.
- `AnonymizationIsFinalAmongBulkOperations`: `Spec => AnonymizationIsFinal`, under
  either isolation, *when neither `save` nor `hard_delete` runs*. Both act on
  what they read earlier, and TLC finds either of them undoing or removing an account
  anonymised in between. `MarksKept` says that every transaction sees a
  committed mark, also through what it has written itself; it rests on
  `LockExclusive` at a commit and on `FreshUsers` at an insert.

`AccountRefinement_proofs` proves, for any users, sessions and time stamps, *while
callers take turns and none filters that way*, that `AccountLifecycle` implements
`AccountContract` (`LifecycleImplementsContract`), and
`DeletionReachesEveryTable` and `AnonymizationCannotBeUndone`.
`f_propagation` shows what becomes of the second without
the hypothesis. The invariant `SInv` has a transaction's view
as a function of the committed rows and of how far it has come (`InTurn`: one
predicate for delete, restore and anonymize, one each for hard_delete, create
and save), and every committed account as absent, alive, deleted or closed
(`Coherent`). Its heart is `SelectionStays`: the statements of one operation
find the same accounts every time, although the earlier ones have already
rewritten their satellites and, in `anonymize()`, the very row the queryset
filters on. `CommitOutcome` then says what a commit makes of the three rows of an
account, `OnlyCommitsWrite` that nothing else writes, and `CommitIsOperation`
collects the accounts that moved into one operation of the contract; `create()`
moves one account only.

`TwoFactor_proofs` proves for any keys, workers, spellings, lifetimes and number of
requests `TypeInvariant` and:
- `ActiveKeys`: `Spec => []ActiveKeyIsConfirmed` *if the four pairs of handlers
  `Harmful` do not overlap*; nothing in the code prevents it, and `f_setup_race` is
  one of the four. `KeptApart` turns the hypothesis into a fact about the requests
  in flight. `KeyOK` adds that a setup that found 2FA off will find it off when it
  saves, that an activation past its read of the key still holds the stored one or
  the account is closed, and what a stale row may still put back.
- `RefusedOnEveryWorker`: `Spec => RefusedForAMinute`, *with a shared cache* and
  whatever overlaps. `CacheOK` relates the cache entry, what was accepted when, and
  the clock; of two requests that hold one token the later acceptance renews the
  entry. What the theorem leaves to a request whose lookup came
  before the acceptance is in section 5.

`AccountRequests_proofs` proves for any users, addresses, national ids and any
finite number of requests `TypeInvariant` and, each naming the pairs of handlers
that must not overlap for it and no others:
- `TrailPrecedesChanges`: `Spec => []ChangesAreAudited` *if a setup overlaps neither
  `me/secrets` nor a closing and `PATCH me` no closing*. Every commit that changes
  `dni` counts, and a closing is granted its own. The argument counts requests:
  audited writes and requests yet to audit stay within the bound together, changes
  and requests yet to save within the audited writes, hence the lemmas on
  cardinality and the assumption that `Request` is finite. `DniOK` says that the
  instance of a setup still holds the stored id; `Live` that no account is closed
  under a `PATCH me`, which could open it to a second closing.
- `ClosingIsFinal`: `Spec => ClosedIsFinal` *if a closing overlaps no handler that
  saves a whole instance* (`Savers`); these may overlap each other, and closings
  and verifications anything else.
- `VerificationIsKept`: `Spec => VerifiedIsKept`, without a hypothesis: the only step
  that takes a verification away is the save of a `PATCH me` that read the user
  before it was verified.

`Registration_proofs` proves all properties of `Registration` for any
addresses, lifetimes and number of requests: `TypeInvariant`,
`UnverifiedKeepACode`, `EveryAccountIsAnnounced`, `VerificationIsInTime` and
`VerificationIsForGood`. None is inductive alone, since what a request
established early is used late. `FlightOK` carries it: a registration past its
insert has an address nobody holds (and no other such registration has it,
`RequestsOK`); the code it will commit has been announced; a verification past
its check has its proof, and past its first save the flag. `RequestsAdvance`
shows once that all of this lasts while accounts, flags, mail and issues only
grow.

`Vault_proofs` proves for any users, requests, settings and submissions
`TypeInvariant`, `IndexesMatch`, `HoldersAreUnique` and `TrailIsComplete`. The
invariant says of the row every request holds what the property says of
the stored one, and relates the two for the audit trail: what is on an instance
was announced before it can be saved. `HoldersAreUnique` needs only the unique
index on digests and `IndexesMatch`.

`RowLocks_proofs` proves for any accounts and number of transactions
`TypeInvariant` and `DeadlocksAreBulk`. The argument is the usual one for ordered
locks, made local: a transaction waits only for a row that is not before any row it
holds of the same account, so a cycle of waits must leave an account, and only a
bulk operation holds rows of one account while it waits for another; one bulk
operation alone cannot close the cycle. A change form is the one exception to the
order: it holds the user row when it waits for the profile (`ShortFollowsProgram`).
Whoever holds that profile and waits is no save and no form, so it is an operation
on that account (`FormsMeetOthers`).

The assumptions are the `ASSUME`s of the modules: constants are of the sorts
their comments say, and the distinguished values are distinct from the others.

**Only model-checked**: `GrantLapses`, because liveness under fairness is beyond the
proof system, as are `ENABLED`, recursive operators and induction over data; and
the counterexamples of the four `f_` runs. `SInv` and `Intent` were checked by TLC
on small instances of either isolation before they were proved.

## 5. Departures without a run, and what is not modelled

The code departs from what the repository says of it in these places too. Each is
a single statement, or follows from a definition at once, or lies outside what a
property states, so no run is spent on it:

- *What closing leaves.* `anonymize()` clears the columns it names. It leaves
  `last_ip_address` (`models/user.py:55`, filed under "Personal information" by
  `admin.py:93`), `suspension_reason` (72) and the billing and shipping addresses
  (74-89), although its docstring says that it clears PII (`managers.py:75`;
  `docs/architecture/USERS_BLUEPRINT.md:135`). `AnonymizedIsErased` is about the
  columns it names.
- *Purging what was deleted meanwhile.* `hard_delete()` collects its rows before its
  atomic block begins and removes them by primary key (`managers.py:133`): an account
  that another caller deletes or anonymises in between is removed although it is
  dead, on any database, against `docs/architecture/USERS_BLUEPRINT.md:104` and
  `:134`. `PurgedWereLive` says what is left: it had been found alive.
- *Two uses of a token within a minute.* The contract refuses a used code for 60
  seconds (`docs/contracts/USERS_CONTRACT.md:155`). Two requests that both look it up
  before either writes it are both accepted (`services.py:192-202`), and so is the
  same code in another spelling, which pyotp normalises and the cache key does not
  (`services.py:191`). `RefusedForAMinute` is about one string and about lookups
  after the acceptance.
- *Verification taken back.* A `PATCH me` that read the user before `verify` saved
  the flag writes the old flag over it (`views.py:172`), although the contract has
  `is_verified` read-only (`docs/contracts/USERS_CONTRACT.md:74`).
  `VerifiedIsKept` says that this is the only way.
- *Closing without an audit row.* `anonymize()` sets `dni` to NULL and writes no row
  (`managers.py:112-124`), while the table calls itself an "Append-only record of
  changes" (`models/secrets.py:135`). `ChangesAreAudited` grants a closing this one
  change.
- *The change form against a closing.* The form locks the user row and then the
  profile (`admin.py:67`), `anonymize()` the profile first: each can wait for the
  other. `DeadlockNeedsBulkOrForm` names the pair.
- *A cache per process.* A grant on one worker is then unknown to the others, and so is
  a used token; the contract makes a shared cache the host's duty
  (`docs/contracts/USERS_CONTRACT.md:184`). The theorems of `StepUp` hold for both,
  `RefusedOnEveryWorker` for a shared one.

Not modelled, or modelled and not stated as a property:

- *Fernet and HMAC*: external. Reading the vault (`get_sensitive_data`) changes no
  state; after a change of `MASTER_KEY` a stored value reads as absent. The
  contract says as much (`docs/contracts/USERS_CONTRACT.md:275`), so no property
  says that a value stays readable. A missing setting raises
  `ValueError` at its first use, in the middle of a request, and not
  `ImproperlyConfigured` at boot as `docs/architecture/USERS_BLUEPRINT.md:111`
  has it; `RefuseField` models what the code does.
- *Anonymising a queryset filtered by what anonymisation rewrites*: the trailing
  `self.delete()` of `anonymize()` evaluates the filter again and selects nobody, so
  users selected by e-mail are anonymised and stay alive, although the docstring
  says "Executes a soft delete at the end" (`managers.py:76`). The filter is in
  `AccountLifecycle` (`identity` in `Lookups`); no run uses it.
- *The trail of a lost update*: two `PATCH me/secrets` of different fields save the
  row each has read, and the later save puts the other's field back. What is put
  back was announced when it was first stored (`StoredIsAnnounced`); the
  reversal has no row of its own.
- *The audit rows of a purged user*: `hard_delete` of a live user cascades to them.
- *Recovery codes*: `setup_2fa` passes them to `set_sensitive_data` as
  `otp_recovery_codes`, which assigns `otp_recovery_codes_encrypted`; that is no
  column, so they are never stored, although the contract
  (`docs/contracts/USERS_CONTRACT.md:138`) says they are. This is visible in one
  line and no run is spent on it; nothing reads them.
- *A code delivered for a registration that is then rolled back*: `mail` may hold
  one, since the signal precedes the commit. No document promises otherwise, so
  no property says it.
- *Throttling*: the class in the repository only looks a rate up; the counting is
  the framework's.
- *System checks and defaults*: pure functions of the settings.
- *Administration*, apart from the 2FA flag, the locks of the change form (`RowLocks`)
  and a form saved over a row read earlier, which is `BeginSave`.
- *`revoke()` as seen by its caller*: it clears the session of the request it is
  given and no other session of the user; nothing here calls it.

## 6. Plan

1. *(done)* `AccountLifecycle`, `StepUp`, `TwoFactor`, `AccountRequests`,
   `Registration`, `Vault`, `RowLocks`; `AccountContract` and its refinement; the
   proofs of section 4.
2. *(done)* Proofs of the refinement and of `TwoFactor` and `AccountRequests`; the
   change form in `RowLocks`, the other writers of the key and the flag in
   `TwoFactor`, hypotheses by pairs of handlers.
3. `StepUpContract`, a set of admitted users with deadlines, implemented by
   `StepUp`.
4. Liveness of `Registration`: with a working receiver and an owner who answers in
   time a registered account becomes verified.
