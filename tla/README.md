# A formal model of camp44

camp44 is a FastAPI service compatible with the Base44 backend: accounts,
sessions, schemaless entities, uploads, metering and an admin API over
PostgreSQL, MinIO and RabbitMQ. This directory holds TLA+ modules translated
from its source, TLC configurations that check them on small instances, and
TLAPS proofs for instances of any size. Paths below are relative to `src/`;
`auth.py` is `camp44/api/v1/endpoints/auth.py`. `PROJECT.json` maps each
definition to the lines it models and lists runs, mutants, hazards and theorems.

    tlc -workers 2 -config RefreshTokens.cfg MCRefreshTokens.tla
    tlapm RefreshTokensProofs.tla

## How the program runs

A `def` endpoint runs in a worker thread; an `async def` endpoint runs in the
event loop of its server process, and lets nothing else of that loop in
until it awaits. Every request gets its own SQLAlchemy session (`get_db`,
`camp44/api/deps.py:22-25`): one transaction at a time, opened by the first
statement and ended by `commit()`, or rolled back when the request ends. No
isolation level is configured, so PostgreSQL runs READ COMMITTED: each SELECT
sees what is committed when it runs, and an UPDATE waits for the row lock of an
open transaction and then evaluates its WHERE clause again. An ORM commit writes
the columns whose value differs from the loaded one, and no other.
Nothing but the database (and a few in-memory maps) is shared between requests,
so the granularity that matters is the SQL statement and the commit. That is the
granularity of the modules here.

## Inventory

| Component | State | Operations | What is hard about it | What makes it correct |
|---|---|---|---|---|
| Refresh tokens and sessions (`auth.py`, `crud/refresh_token.py`, `core/auth_tokens.py`) | table `refresh_token`; `User.token_version`, `is_active` | login, refresh, logout, replay handling, family revocation | row-lock races, crash between consume and mint, version read before the commit | one live token per family, one successor per token, ended means ended, a version bump is final |
| Billing and account set-up (`auth.py`, `crud/user.py`) | one user row per email; Stripe's events; reset tokens; mail | webhook (checkout, deletion), register, forgot/set password, set-up link | at-least-once unordered delivery, several commits per event, stale ORM objects | an acknowledged payment has an account, a chosen password gives way only to another chosen one, a spent reset token is dead |
| Authorization codes (`auth.py:30-110`, `api/v1/oidc.py`) | in-memory map code → token pair, under a lock | create (by `login` in any worker thread, by the OIDC callback on the event loop), exchange, sweep | TTL boundary, concurrent creations, exchanges and sweeps, restart | a code yields its tokens at most once and only while fresh |
| Passkeys (`api/v1/passkey.py`, `core/webauthn.py`) | challenge store; JSON list of credentials and sign counts on the user | register, authenticate (by email, discoverable) | overlapping ceremonies, JSON changed in place is not written, lost update of the list | a challenge is answered once and while fresh; whoever registered keeps a credential |
| OIDC sign-in (`api/v1/oidc.py`, `core/oauth.py`) | `oidc_sub`, `oidc_email_verified` on the user | login, callback: find, link or create | callbacks against registrations and deletions | see users and roles, authorization codes |
| Users and roles (`endpoints/admin.py`, `crud/user.py`, `db/initial_data.py`) | `roles`, `admin_removed`, `is_active`, `oidc_email_verified` of each user | activate, deactivate, make-admin, remove-admin, delete, `_ensure_admin_role` at every sign-in, seed; `is_active` also by set-password and a cancelled subscription | stale columns, mutual removal, several workers starting | `is_active` changes only as one of its four writers asks, a deleted user stays deleted, a demotion lasts, the last administrator goes only by a late request or a cancellation |
| Account deletion (`endpoints/admin.py:219-239`) | users and the rows that refer to them | delete with its cascade, against login, refresh, revocation, new apps and entities | foreign keys, row locks taken in different orders | everything or nothing goes, and the request ends |
| Entities and bulk (`endpoints/entities.py`, `bulk.py`, `crud/entity.py`) | table `entity` | CRUD, bulk | a commit per operation, expiry and identity map of the session, rows deleted under a request | a request writes only in its app, nothing deleted returns, a bulk request is torn only by deletions |
| Apps, public settings (`endpoints/apps.py`, `public.py`) | table `app` | create, list, read | none beyond the app guard | only the owner reads |
| Uploads (`endpoints/integrations.py`, `core/s3.py`) | MinIO buckets | upload | two first uploads | an accepted file is stored |
| Metering (`endpoints/metering.py`, `workers/metering_processor.py`) | durable queue, worker | publish, consume, acknowledge | no confirms, redelivery, reconnect, Ctrl+C | a stored event is processed; repetitions, losses and ends of workers have a cause |
| Demo availability (`endpoints/demo_booking.py`) | one JSON row, the module's default list | read, replace, block and unblock a date | shallow copy, failed saves, first INSERT, overlapping threads, several processes | a request that nobody overlaps is whole, and its answer agrees with the row |
| Middleware (`middleware/*.py`, `main.py`, `core/oauth.py`) | the request's tenant, the cached key set | tenant, OIDC tenant | order of the stack, a cache that is never refreshed, outages | a request runs in the tenant of its token or in none, and in none for a key retired before the process started; a cached key set outlives outages |
| Base44 proxy, functions, users/me | none | forwarding | pure I/O | – |
| Start-up, configuration | settings, first superuser | create tables, seed | concurrent start | see users and roles |
| `src/db`, tracing, errors, hashing | none used by endpoints | – | – | – |
| Migrations | schema | once, by Alembic | – | – |

Interactions: every way in (password login, OIDC callback, passkey) ends in
`create_token_pair()`; OIDC hands that pair over through an authorization code.
Billing creates the row login reads; a cancelled subscription, set-password and the admin
endpoints set `is_active`, which login and refresh check. Deleting a user deletes its refresh tokens.
`token_version` is compared at every access (`deps.py:45`) and refresh but
written by no code in the repository: the host application owns it.

## Modules

### RefreshTokens

State: `rt` is the committed `refresh_token` table, `lock` the row locks of open
transactions, `version` and `active` the two user columns, `pc[p]` the statement
worker `p` runs next and `req[p]` what the handler holds in local variables. The
only change this component makes to an existing row is `is_revoked := true`, so
the uncommitted writes of `p` are exactly the rows `p` has locked, and `Committed(p)`
is the table after its commit.

| Code | Actions |
|---|---|
| `login` (`auth.py:240-277`) | `LoginRead` (authenticate, `is_active`), `Mint` |
| `refresh` (`auth.py:690-751`) | `RefreshBegin`; `ConsumeWins`/`ConsumeLoses` (the UPDATE … RETURNING); `LookupUnknown`/`LookupReplay`; `CheckRefuses` (expired, inactive: consume committed, 401), `CheckMismatch` (version: revoke the family), `CheckPasses`; `Mint` |
| `revoke_family` (`crud/refresh_token.py:82-97`) | `SelectFamily`, then `FlushRow` for each selected row, then `FlushCommit` |
| `logout` (`auth.py:754-772`) | `LogoutBegin`, `LogoutNothing`/`LogoutRevokes`, `FlushRow`, `FlushCommit` |
| around them | `Crash` (rollback), `Expire`, `BumpVersion` (external), `SetActive` (admin) |

`family_id` is named by the family's first token instead of a UUID. `parent` is a
history variable: the token a row was rotated from. A client may present any token
ever issued, or one without a row, so retries, replays and lost answers are included.

### TokenFamily

What clients are promised: a login opens a family with one live token, a refresh
replaces it, anything else ends the family. `RefreshTokens!Sessions` is the
refinement mapping (`live[f]`, `spent[f]` from the committed table): waiting,
locking and every uncommitted write are stutters; `Mint` is `Open` or `Rotate`;
a commit without a mint is `End`, or a stutter when there was nothing left to end.

### Billing

State: `row`, the committed user row of one email (at most one exists: the column
is unique), which several Stripe `Customers` may have, some of them without an email
(`NoEmail`); Stripe's side (`period`, `cancelled`, hence `Sent`); `acked`, the events
answered 2xx; `hook[l]`, the webhook handler in server instance `l`, and `thread[t]`,
the request in worker `t`, with the ORM object each has loaded; the reset tokens
`issued`, `expired`, `mailed`, `used`.

The webhook is a coroutine whose database work contains no await before its last
commit, so one runs at a time per instance; threads and other instances interleave
with each of its statements. `Update(loaded, new)` is the ORM's UPDATE: changed columns only.
`CheckoutKnown`, `CheckoutNew`, `RetrieveFails` (500), `NoEmailRefused` (400), `RetrieveAndLookup`, `LinkExisting`,
`CreateUser`, `CreateConflicts`, `RefreshUser`, `CompleteUser`, `Welcome`, `Answer` are
`checkout.session.completed` (`auth.py:349-442`); `DeletedUnknown`, `DeletedFound`,
`Deactivate` are `customer.subscription.deleted` (`:444-468`). `SignUp*` is register
or the account an OIDC callback creates, `Forgot*` and `SetPassword*` the two password
endpoints, `Patch*` an administrator's change of the password. The passwords people choose
are told apart, so that one choice overwriting another is seen. Any initial row the
application can have is an initial state: none, password-less, with a password.

### OneTimeCodes and AuthCodes

`OneTimeCodes` is the promise: a value is issued once, redeemed at most once while it
is live, and may be dropped at any moment. `AuthCodes` is the map `_auth_codes` of one
process (`auth.py:29-110`). A creation starts with `Create`, in any worker thread (`login`
with a redirect, `auth.py:283-286`) or on the event loop (`Loop`, the callback), an exchange with
`Exchange`, in any worker thread. Each then takes the lock (`Acquire`), lists the expired codes
(`Sweep`), deletes them one `del` at a time (`Delete`) and ends with `Put` or `Pop`; `Tick` moves the clock between any two of them and
`Restart` forgets the map. A code stands for the token pair it carries.

### Passkeys

The challenge store and the four endpoints for one user. `pending` and `discoverable` are
the two maps, `column` the stored JSON list; `RegisterLoad`/`RegisterPop`/`RegisterStore` and
`SignInLoad`/`SignInPopUser`/`SignInPopDiscoverable`/`SignInAccept` are the statements of the
verify endpoints, `Create` and `Sign` the browser, which may answer any challenge it was
given and send any answer again. `Save` is the ORM's commit of a JSON column without
change tracking: it writes only when the attribute was given another object, so the list that is
appended to in place is not written. The `webauthn` library is external: `Attested`
and `Verified` are what the code asks it to check (challenge, sign count), and `RegisterRefuse`
and `SignInRefuse` may follow whatever it is given. `Found` is the look-up of the credential
in the list of the user whose email the request gives. The store's two maps together implement `OneTimeCodes`.

### Accounts

`row[u]` is the committed row of an email address, `req[p]` a request with the object it
loaded. `CreateBegin`/`Create` are register, the seed and the OIDC callback of a new user,
`SignInLoad`/`SignIn` a sign-in with its promotion (`Ensured` is
`_ensure_admin_role`), `AdminLoad`, `TargetLoad`, `AdminCommit`, `DeleteCommit` the
admin endpoints from the check of the caller to the commit. `OwnLoad` is the request that
nobody's role is asked for: `customer.subscription.deleted` and set-password, the other two
writers of `is_active` (here for any user; Billing has what leads to them). `Update` writes the columns
that differ from the loaded object, by id: a row that was deleted, or deleted and created
again, is not found. The row of the caller and the row of the target are two SELECTs.

### OwnedRows and AccountDeletion

`OwnedRows` is the promise: rows are added below existing ones, and a user goes with
everything below it in one step. `AccountDeletion` is the handler: it locks the user's
tokens row by row (`LockRow`), loads apps and entities (`Load`), and deletes what it
loaded in a commit that a foreign key may refuse (`DeleteCommit`, `Refused`). Meanwhile
`Insert` adds tokens, apps and entities, `RotateBegin`/`Mint` are a refresh and
`RevokeBegin`/`RevokeCommit` a family revocation. `WaitsFor` is the lock graph; `Deadlock`
is PostgreSQL aborting one transaction of a cycle. The module does not keep track of which tokens
are revoked: a revocation may select any of a user's tokens, where the code selects the live ones
of one family, of which there is one (`SingleLive`). So it has every behaviour of the code, and
lock cycles besides that the code may never enter.

### EntityStore

`store[e]` is the table, `req[t]` a request with up to `MaxOps` operations: a bulk
request, or one operation of `entities.py`. `seen` is the one row the session's identity
map still holds (`bulk.py:27,30` has two live locals, so the code may hold the row before it
too; that only changes which error is raised), `expired` that a commit expired the app object, so that the next read of
`app.id` selects it again. `AdminDelete` and `DropApp` are the deletions by others.

### Metering

A message is known by its place in `log`, the history of what reached the broker; `queue`
and `synced` are sets of places, and the smallest place is the head of the queue, so
that what comes back unacknowledged is at its old place again.
`Publish`/`Answer` are the request, `Sync` the broker writing the event to disk,
`Connect`, `Deliver`, `Process`, `Settle`, `Finish`, `Notice`, `Retry` the worker with its
callback and its outer loop. `Lose`, `Press` and `Crash` are the faults: a connection lost, a Ctrl+C,
a restart of the broker. RabbitMQ and pika are modelled as the code uses them.

### AvailabilityRecord, DemoAvailability, TenantContext, Uploads, MCServices

`AvailabilityRecord` is one configuration changed at once. `DemoAvailability` is what the
endpoints do, in worker threads that overlap: `Load` (first SELECT and test), `Change` (in place, in
the process's default list while no row is stored), `RemoveRaises` (another request removed the date
from the same list), `Put` (of any list, a date named twice too), `Commit`, `CommitFails`, `Restart`.
Its properties are about requests that no other overlaps: `alone` is the thread of one in
progress, `answered` the last one until the next begins, `twice` the dates that may have been listed
twice. `TenantContext` is the middleware chain for each request, as it is with `OAUTH_ENABLED`, with
the key cache (`Fetch`, `Store`), the provider's `Rotate` and `Turn` (up, down, an error in JSON, any
other error page), and `Restart`; `current` are the keys published since the process started. `Uploads` is `upload_file` call by call
(`Find`, `Make`, `Read`, `Put`), with a `Fault` of MinIO before or after a call took effect.

These three and Metering share no state with each other. `MCServices` checks them in one run as a
disjoint union: `part` says which of them the behaviour is about, and the state
spaces add up instead of multiplying. Requests, threads and workers of different parts share their names, so that one permutation
serves them all. It has the safety properties of all four; `MCMetering`
has the liveness of the pipeline, under its fairness.

### MC modules and proofs

The other `MC*` modules add model values and, where it is sound, symmetry (Metering has
none: `Handled` is a liveness property). Each component's proofs are in `<component>Proofs`,
those about `MCServices` in `ServicesProofs`.

## Runs

| Run | Constants | Distinct states | What it shows |
|---|---|---|---|
| refresh_tokens | 2 workers, 3 tokens, one version bump | 263 918 | `SingleLive`, `OneSuccessor`, `FamilyUniform`, `NoHoldAndWait`, `BumpIsFinal`, `EndedStaysEnded`, `ReplayMissesOnlyRotated` |
| refresh_answered | 2 workers, 2 tokens, one bump, no symmetry | 104 026 | the protocol implements `TokenFamily`; under fairness every request ends |
| refresh_replay_race | as refresh_tokens | – | violation, see Findings |
| billing | 1 instance, 2 threads, 2 customers with a subscription each, 2 passwords, 1 reset token | 642 624 | `AccountInv` (with `UsedTokenIsDead`), `AckedHasAccount`, `RedeliveryHarmless`, `ChosenPasswordStays` |
| billing_answered | 1 instance, 1 thread, 2 customers (one without an email), 1 password, 1 reset token | 21 660 | under fairness every event is answered 2xx, but for the checkout of a customer without an email |
| auth_codes | the event loop and 2 threads, 3 codes, TTL 1, clock 0..3 | 273 772 | the map implements `OneTimeCodes` (`SingleUse`); `CodesInv` (no KeyError in the sweep), `ExpiredIsRefused`, `LockIsFreed` |
| passkeys | 2 threads, 3 challenges, 2 keys, counters to 2 | 83 968 | the store implements `OneTimeCodes` (`ChallengesAreOneTime`); `CeremoniesInv` (`ACredentialIsKept`, `OneSignInPerChallenge`), `DiscoverableIsIndependent` |
| accounts | 2 requests, 2 users, one of an admin domain | 926 419 | `AdminRemains`, `ActiveChangesOnRequest`, `DeletedStaysDeleted`, `DemotionSticks` |
| account_deletion | 1 user, 3 tokens, an app, an entity, 2 requests | 35 747 | the foreign keys (`TypeOK`), the deletion implements `OwnedRows` (`AllOrNothing`), `UndisturbedSucceeds`, `DeletionEnds` |
| entity_store | 2 apps, 2 entities, 2 names, requests of 2 operations, 2 threads | 244 760 | `AppIsolation`, `DeletedStaysDeleted`, `TornOnlyByDeletion` |
| metering | 2 workers, a good and a malformed event, 2 messages, one fault of each kind | 545 398 | `Handled`: under fairness every stored event is processed while a worker is left |
| services | 2 requests, 2 keys, a restart; 3 uploads, a fault; 2 threads in one process, 2 dates, a failed save; the pipeline as in metering | 913 240 | `MiddlewareInv` (`RetiredKeysAreRefused`, `OutagesSpareCached`), `StorageInv` (`AnsweredAsStored`, `OnlyFirstUploadsRace`), `AvailabilityInv` (`BlockedIsStored`, `UnblockedIsGone`), `AloneIsAtomic`, `PipelineInv` (`StoredIsKept`, `AcceptedIsKept`, `RepeatsAreExplained`, `EndsAreExplained`) |

Where a property named `…Inv` is checked it is the conjunction of the module's type
invariant and the invariants in parentheses.
The type invariant of Accounts is part of no run: `TypeCorrect` proves it.

Why the bounds are enough. A race over a refresh token is between two
transactions: one that holds the row and one that waits for it or selected
earlier. Two workers give every such pair, and both can be anywhere in any of the three
endpoints. Three tokens give a chain of two rotations, or two families of
which one rotates once; the proofs remove these bounds. `MaxVersion` of 1 separates "before" from
"after" a bump. `Mint` waits when all `Tokens` are used, which the code
never does: it bounds the run and is excepted in `EveryRequestEnds`
(`OutOfTokens`). In Billing two requests that loaded the same row are enough for a
stale write: the webhook and a thread, or two threads (two password endpoints at once); two
customers relink the account from each other, and two passwords besides none and the random one
tell one choice from another. Two instances (two webhooks at once), a second reset link and a second
subscription of a customer (the re-subscription below) are beyond the run; the proofs cover
any number of each.
In AuthCodes the clock passes the boundary between any two steps, and three threads
of control create and exchange three codes, so that two creations, two exchanges or one of each
overlap while a third waits. A stale write of Accounts or EntityStore takes two
requests; the second user, app or entity is the one that must not be touched. In
AccountDeletion two tokens taken in opposite orders make a deadlock, and a third is
added meanwhile. Metering has two messages, which may be one of
each event or a client's retry of one, and one fault of each kind, because the second fault of a
kind meets the state the first left behind; the counted properties carry the number of
faults. `MaxBlocked`, `MaxFails`, `MaxCount`, `MaxRestarts`, `MaxFaults` bound counters in the guards.
The availability part has two threads, so requests overlap; a second process, with a default list of its
own, is left to the proofs.

`CHECK_DEADLOCK FALSE` where a system may really stop: all apps deleted (entity_store),
all workers ended (metering), all row ids used (account_deletion), all uploads answered
(services).

### Fairness

RefreshTokens: weak fairness of `Step(p)`, because the server runs every worker
thread; strong fairness of `ConsumeWins` and `FlushRow`, because PostgreSQL queues
the transactions that wait for a row lock, so a waiter is not passed over for
ever. Crashes and new requests are not fair.

Billing: weak fairness of threads and of the running handler; strong fairness of
delivering an unanswered event, because Stripe retries until a 2xx; strong
fairness of each handler step while it works on an event that is still owed an answer, which says that a statement tried again at each
redelivery does not die every time (and Stripe's API does not fail every time).
This is an assumption about the environment: without it a handler that crashes
on each of infinitely many deliveries never answers. None of it is assumed of the checkout of a
customer without an email, which is not `Answerable`: the code refuses it with 400 each time. The run has one instance and one
thread: TLC's cost grows with the number of strong-fairness conditions, two of
each are out of reach, and the sign-up that takes the email between look-up and
INSERT already needs only one thread.

AuthCodes: weak fairness of `Hold`, the steps inside the critical section: a thread
that holds a `threading.Lock` goes on. Nothing is assumed of those who wait.
AccountDeletion: weak fairness of a request's steps and of the deadlock detector, strong
fairness of `LockRow`, for the lock queue is first come, first served. Metering: weak
fairness of each worker's own steps; no fault and no request is fair.

## Findings

*Replay against rotation* (`refresh_replay_race`, a run that violates
`ReplayRevokesFamily`). The docstring of `refresh`
promises that presenting a consumed token revokes the entire family
(`auth.py:700-701`). `revoke_family` selects the unrevoked rows and updates them by id
later. When a refresh consumes the live token in between, the UPDATE revokes the
row that refresh already spent, and the token it minted stays live.
`ReplayMissesOnlyRotated` says exactly what is left true, and is proved.

### Other divergences

Met while modelling. The models contain this behaviour; where something weaker is kept, the property
named states it.

- *Cancelled before checkout* (`auth.py:464`, comment `:444`). A deletion event that
  arrives before the checkout is answered 200 "User not found" and is never redelivered;
  the checkout then links or creates an active account.
- *Re-subscription* (`auth.py:362`). The idempotency check is by customer, not by event:
  the second checkout of a cancelled customer is "already processed" and the account stays
  inactive.
- *Redelivered checkout* (`auth.py:362`, comment `:358`). The check finds nobody when another
  customer with the same email has taken the account over; the redelivered checkout of the first one then
  moves the account back. `RedeliveryHarmless` says what is left alone: password and activity.
- *No email* (`auth.py:374-378`, comment "don't retry"). The checkout of a customer without an email
  is answered 400, and Stripe redelivers what was not answered 2xx. `EveryEventAcked` leaves
  these events out.
- *One link, two passwords* (`auth.py:582-606`). Two set_password requests with one token that
  both load the row before either commits both succeed, and the later password stays, although the
  token is cleared by the first. `ChosenPasswordStays` says that nothing but another choice replaces a
  choice.
- *Set-up link* (`auth.py:552-553`). "No reset token" is read as "has a password",
  which an OIDC account linked by a checkout does not have.
- *Second passkey* (`passkey.py:250-253`), *sign count* (`:406-410`). The JSON list is changed
  in place and assigned to itself, so the ORM writes nothing: a second credential is
  answered as registered and not stored, and the stored count never moves.
  `ACredentialIsKept` is what is left of the first.
- *Sign-in without an email* (`crud/user.py:187-204`). "Uses PostgreSQL JSONB containment query" (`:182`),
  but the column is `Column(JSON)` (`models/user.py:79`), on which PostgreSQL has no `@>`: the query
  fails, and so does the fallback, in the transaction the failure aborted. Each verify without
  an email is answered 400 (`passkey.py:347-351`). With SQLite, as in the tests, the fallback finds the
  user. What the models say of such a request is what SQLite gives; with PostgreSQL it changes nothing.
- *webauthn 2.6.0* (`uv.lock:1604-1612`; `pyproject.toml:32` has `>=1.10.0`). The locked release has no
  pydantic models, while the code calls `model_validate` (`passkey.py:235`), reads
  `PLATFORM_OR_CROSS_PLATFORM` (`core/webauthn.py:71`) and `credential_creation_time` (`:119`). This is
  read from the lock file's dependencies, not from the library, which is not in the repository. If it is
  so, the ceremonies end in the refusals of the model and the properties hold for that reason; what is
  modelled beyond them is the code with a library that has what it uses.
- *Two tabs* (`passkey.py:365`). A discoverable verify first pops the challenge of the user's
  pending email sign-in; both ceremonies then fail. `DiscoverableIsIndependent` holds in
  the other direction, as the comments promise.
- *Demotion undone* (`crud/user.py:47`, docstring `:37`). A sign-in that loaded the row before
  remove-admin committed gives the role back. `DemotionSticks` says that nothing else does.
- *Mutual removal* (`admin.py:204`). Two administrators who remove each other at the
  same moment leave none. `AdminRemains` says that the last one is lost only to a request of one who
  lost the role, or the account, after the request was let in, or to a cancellation.
- *Cancelled administrator* (`auth.py:454-459`). `customer.subscription.deleted` deactivates whoever the
  customer is linked to, without the check against oneself of the admin endpoints, so the last active
  administrator too.
- *Deactivation undone* (`auth.py:604`). set_password activates the account, so a reset link that is
  still valid undoes an administrator's deactivation. `ActiveChangesOnRequest` names it.
- *Linked accounts* (`oidc.py:92`, comment `:104`). Linking does not set
  `oidc_email_verified`, so a linked admin-domain user is never promoted.
- *First superuser* (`db/initial_data.py:26`). `create_user` ignores the roles it is
  given: the first superuser has no admin role, and nobody can give it one.
- *Atomic bulk* (`README.md:16`). Each operation commits on its own.
  `TornOnlyByDeletion` says when a request stops half-way.
- *Null data* (`models/entity.py:40`). A PATCH with `{"data": null}` is stored, and the
  entity, and every list with it, fails to be read.
- *Availability* (`demo_booking.py:50`). `copy()` is shallow: after a first save that failed,
  the retry finds the date in the module's list and stores nothing; `BlockedIsStored`
  has that exception. Two overlapping requests (`:57`) write the whole configuration, and the later one
  drops the other's change; while no row is stored they share one list, in which a date may come to
  stand twice, or from which `remove()` finds it gone and raises. PUT takes a list with a date named
  twice (`:73`), DELETE removes one occurrence (`:141`) and answers success with the date still
  stored. `AloneIsAtomic`, `BlockedIsStored` and `UnblockedIsGone` say what a request that nobody
  overlaps can rely on.
- *Metering*. Without publisher confirms an event answered 202 is lost when the broker
  crashes before writing it (`metering.py:46`; `AcceptedIsKept` has that exception). Ctrl+C while
  consuming makes the worker connect again (`metering_processor.py:57`). A
  connection lost during a callback ends the worker instead of being retried (`:49`).
- *Tenant*. The key set is cached for the life of the process, also an error page in JSON
  (`core/oauth.py:40`); a rotated key makes valid tokens invalid. A page that is not JSON is caught
  (`:74`) and not cached, so that a connection error afterwards, which nobody catches, still fails
  requests. The middleware added last
  runs first, so `TenantMiddleware` overwrites the tenant of an OIDC token with `None`
  (`main.py:69-74`). No endpoint reads the tenant.
- The OIDC endpoints use `request.session`, but `main.py` adds no `SessionMiddleware`;
  the callback is modelled as if it were there.

## Proofs

Every invariant and every safety property that a run checks is proved, for every value of
the constants. The refinements are proved step by
step: each step of the detailed module is a step of the abstract one or leaves its state alone.

| Theorem | States |
|---|---|
| **RefreshTokensProofs** `TypeCorrect` | `Spec => []TypeOK` |
| `OneLiveToken`, `OneRotation`, `UniformFamilies` | `SingleLive`, `OneSuccessor`, `FamilyUniform` are invariant |
| `NoDeadlock` | `NoHoldAndWait`: a request waiting for a row holds none |
| `Implementation` | `SessionSpec`: the protocol refines `TokenFamily` |
| `EndedForGood`, `BumpsAreFinal`, `ReplaysMissOnlyRotated` | `EndedStaysEnded`, `BumpIsFinal`, `ReplayMissesOnlyRotated` |
| **BillingProofs** `AccountIsSound` | `AccountInv`: types, and a spent reset token is dead |
| `AnsweredCheckoutsHaveAccounts` | `AckedHasAccount` |
| `ChosenPasswordsStay`, `RedeliveriesAreHarmless` | `ChosenPasswordStays`, `RedeliveryHarmless` |
| **AuthCodesProofs** `CodesAreSound` | `CodesInv`: types, no KeyError in the sweep |
| `CodesAreSingleUse`, `ExpiredCodesAreRefused` | `SingleUse` (refines `OneTimeCodes`), `ExpiredIsRefused` |
| **PasskeysProofs** `CeremoniesAreSound` | `CeremoniesInv` |
| `ChallengesAreTakenOnce`, `CeremoniesDoNotDropOthers` | `ChallengesAreOneTime` (refines `OneTimeCodes`), `DiscoverableIsIndependent` |
| **AccountsProofs** `TypeCorrect`, `OnlyRequestsChangeActive` | the type invariant; `ActiveChangesOnRequest` |
| `DeletedAccountsStayDeleted`, `DemotionsStick`, `AnAdminRemains` | `DeletedStaysDeleted`, `DemotionSticks`, `AdminRemains` |
| **EntityStoreProofs** `TypeCorrect`, `RequestsStayInTheirApp` | `TypeOK` (with the foreign key to the app), `AppIsolation` |
| `DeletedEntitiesStayDeleted`, `OnlyDeletionsTear` | `DeletedStaysDeleted`, `TornOnlyByDeletion` |
| **AccountDeletionProofs** `NoOrphans` | `TypeOK`: the foreign keys |
| `DeletionsAreAtomic`, `UndisturbedDeletionsSucceed` | `AllOrNothing` (refines `OwnedRows`), `UndisturbedSucceeds` |
| **ServicesProofs** `NothingIsLostOrRepeated` | Metering's `PipelineInv` |
| `RetiredKeysGiveNoTenant`, `UploadsAreAnsweredAsStored` | `MiddlewareInv`, `StorageInv` |
| `AnsweredDatesAreStored`, `LoneRequestsAreAtomic` | `AvailabilityInv`, `AloneIsAtomic` (a lone request is a step of `AvailabilityRecord`) |

### What is assumed

The named `ASSUME`s of the modules, which every run evaluates. They say that a null value is no
value (`NullsAreNoValues`, `NoCustomerIsNone`, `NobodyIsNoCode`, `NoneIsNothing`,
`NoneIsNoKey`, `NoneIsNoMessage`), that an error page is no key and a generated password no chosen one
(`ErrorIsNoKey`, `PasswordsAreChosen`), that customers without an email are customers (`NoEmailIsSome`),
that a bound is a number (`MaxVersionIsNat`, `BoundsAreNat`,
`TimesAreNat`, `MaxCountIsNat`, `MaxOpsIsNat`, `FailuresAreCounted`, `Bounds`),
that ids of different kinds differ (`LoopIsNoThread`, `TablesAreDisjoint`: rows are ids in
one function) and that there are finitely many token ids and workers
(`TokensAreFinite`, because the handler selects a user's tokens into a list;
`WorkersAreFinite`, because ended workers are counted). `KnownUsers` puts the administrators' domain and
the first superuser among the users.

No theorem has a hypothesis on the instance beyond these.

### How the proofs go

Each module has an inductive invariant, called `IInv` or, in `ServicesProofs`, after its
service; one lemma per action shows that the action keeps it, and a last lemma puts them together.
Before they were proved the invariants were checked by TLC on the runs' instances. What had to be
added to the properties to make them inductive:

- *RefreshTokens.* `RowsOK` ties the table together: a row has a user, its
  family exists, its parent is revoked; without the last, a rotation of an old token
  could give it a second successor. `RequestOK` says that what a handler remembers still
  agrees with the table: between the consume and the commit it holds the row lock of its
  token, and the user and version it will mint are those of that row, which
  keeps a family at one version although the user row may change under it.
  `HoldingOK` bounds what a transaction locks: the token it consumed, or the rows
  it revokes, all of one family and at most one of them; this gives
  `NoHoldAndWait` and makes a commit end at most one family. `StepMaps` is the refinement;
  `EndedForGood` is a property of `TokenFamily` pulled back through it. `BumpsAreFinal` adds
  `VersionInv` (nothing carries a version above the user's, so versions that differ
  never meet again), `ReplaysMissOnlyRotated` adds `ReplayInv` (a replay handler either
  still covers what is live in the family or has a revoked row among its own).
- *Billing.* `Precedes`: a loaded row is out of date in one direction only. The account
  stays, linked if it was; so a late write of unchanged
  columns undoes none of this. Only set_password and PATCH write a password into a row that exists, and
  `ThreadInv` remembers that the former came with a mailed token. `TokenInv`: a reset token that was generated and not mailed yet
  is in one request's hands, so that no late write can put a spent one back.
- *AuthCodes.* Exactly the holder of the lock is inside the `with` block (`LockInv`), and after
  a sweep a code in the map was young enough when the clock was read or is listed to be deleted
  (`SweepInv`).
- *Passkeys.* A challenge is pending for one ceremony at a time (`ChallengesInv`); one that was
  taken out is held by one request, or was answered, or is wasted (`HolderInv`). A request that
  loaded a credential is proof that the column has one (`RequestInv`), and this is why some
  credential survives the lost updates; its count is the one it was stored with (`CountsInv`).
- *Accounts.* A row that a request loaded is there unless its deletion was committed, and an operation
  of `NotOnOneself` by an administrator has two different users. The rest is what one commit does to one row.
- *EntityStore.* However old a loaded entity is, its id still has that app and name, or is
  gone for good (`RequestOK`); so the writes, which are by id, stay in the app of the path.
- *AccountDeletion.* A row read as the user's is still the user's or gone for good (`WasOf`); a rotation
  has locked the token it consumed, so the user cannot go before the successor is there
  (`RotationOK`); and what an undisturbed deletion has neither locked, nor listed, nor loaded
  does not exist (`SeenOK`), so no foreign key refuses its commit.
- *Metering.* What a worker acknowledges it has processed; what the broker remembers as
  delivered is in the hands of one connected worker (`WorkerOK`). `CountOK` bounds, per message, its
  attempts together with the places where it can still be attempted (the queue, and every worker
  processing it, also one whose connection is lost) by one and the faults; `EndsOK` counts workers that
  will end with those that ended.
- *Tenant middleware.* What a request fetched, what filled the cache, and what signed
  a token that gave a tenant was published since the process started (`ProviderOK`, `ChainOK`: in `current`,
  which only grows until the restart that also empties the cache); a request that fetches arrived
  before an answer was cached. *Uploads.* Each bucket has a maker among the uploads, which is not the upload that
  lost the race. *Availability.* A request that nobody has overlapped holds what is stored, then what becomes of
  it (`LonesOK`); a list without a row and without a failed save is empty or about to be stored
  (`DefaultsOK`); and a date listed twice is one of `twice` (`SinglesOK`), so that a lone DELETE of any other
  leaves none.

### Only model-checked

The five liveness properties, `EveryRequestEnds`, `EveryEventAcked`, `LockIsFreed`,
`DeletionEnds` and `Handled`: fairness (`ENABLED`) is out of the prover's reach. The
violation of `ReplayRevokesFamily` is TLC's. No proof is by induction over data.

## Not modelled

- In RefreshTokens: `cleanup_expired` and `revoke_user_tokens`, called by nothing
  in the repository; the rate limits; the format of tokens and hashes (a token value is a
  model value, and hashes are taken to be injective). The deletion of a user's tokens is in
  AccountDeletion, with the rows of the table but without rotation chains.
- In Billing: signature checks and malformed events, which are answered 400 before
  anything is read; `stripe_subscription_id`, which nothing reads; `get_setup_link`, which
  only reads; deletion of the account; the email and name of a PATCH. Deactivation by an administrator is
  left out so that `is_active` tells what billing itself did (the writers of `is_active` meet in Accounts).
  `hashed_password` is none, random or one of `Passwords`; each choice has a new salt, so it is
  another hash than the row's.
- In Passkeys: attestation formats, signatures and origins (the library's part, which may refuse
  anything); the look-up of a user by credential id among all users (divergences).
- In Accounts: PATCH of a user's email, name and password; the OIDC subject (a user stands
  for its email); lists and statistics, which only read.
- In EntityStore: lists and the JSON filter; the limit of 100 operations is `MaxOps`.
- In TenantContext and start-up: rate limits (slowapi's), response headers,
  `FeatureFlagMiddleware` and the router of `public.py`, which `main.py` does not register;
  settings and table creation, which run once before any request.
- Proxy, functions and users/me forward or read; tracing, hashing and errors
  keep no state; `src/db` is used by no endpoint; migrations run once.

## Plan

The models are complete for the components above, and what their runs check of safety is proved.
Left are theorems beyond the runs, in this order:

1. **Account deletion**: a transaction waiting for a row is blocked only by one that holds it, so that
   the deadlocks the detector breaks are exactly cycles between two token lists.
2. **Accounts**: for two users of which neither removes the other, and no cancellation, `AdminRemains`
   without its exceptions.
3. Lemmas on `Precedes`, `WasOf` and the loaded rows of EntityStore and Accounts in one common form: they
   state the same fact about optimistic reads.
