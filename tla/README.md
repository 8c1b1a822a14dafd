# A TLA+ model of base-go-backend

This directory specifies the parts of the backend in which several actors
change the same state: the HTTP requests of one user, the background jobs, the
administrators who edit roles, crashes and the clock. The modules are
translated from the Go code and the SQL under `src/`; TLC checks them on small
instances, and TLAPS proves the most important properties for every value of
the constants.

## The system

One process serves HTTP and runs background jobs; all its durable state is in
PostgreSQL, and several such processes may share one database.

| component | state | operations | interacts with |
|---|---|---|---|
| accounts and login (`internal/auth/service.go`, `db/queries/users.sql`) | `users`: active, verified, password, authentication version, failure count and time, lock, reason, last login | password login, end of OAuth and passkey logins, reset, recovery, verification, `ValidateSession`, the inactivity job | every other part reads or writes the row; sessions carry the version |
| one-time tokens (`service.go`, `db/queries/auth.sql`) | `user_tokens` | request a token, consume one of a kind, clean up | consumed in the transaction of reset, recovery and verification; the mail that carries a token is enqueued in the transaction that creates it |
| authorization cache (`internal/cache`, `middleware/authz.go`) | an in-memory map of roles with expiries, `user_roles` | `RequireRoles`, sweep | filled from `UserRoleNames`; swept by the cleanup job |
| email outbox (`jobs/email_outbox.go`, `internal/mailer`, `db/queries/mailer.sql`) | `email_outbox`, River's jobs | enqueue, sweep and send, mark, clean up | written by registration and token requests; River schedules, the SMTP server accepts |
| two-factor authentication (`service.go`, `db/queries/totp.sql`) | `totp_configurations` | begin, confirm, disable, validate at login | recovery deletes the row |
| OAuth (`internal/auth/oauth.go`, `handlers/auth.go`) | flow state in the session, `oauth_accounts` with two UNIQUE constraints | start, callback: sign in, create a user, link | ends in the login of accounts |
| passkeys (`internal/auth/passkeys.go`) | `passkey_credentials`, ceremony data in the session | register, log in, list, delete | ends in the login of accounts |
| browser sessions (SCS, `handlers/auth.go`, `middleware/authz.go`) | `sessions` | load, renew, commit, destroy | every request |
| login rate limit (`enforceRateLimit`) | two token buckets | charge, clean up | before a password login |
| lifecycle (`internal/app`, `internal/river`) | which parts run | construct, run, stop | starts and stops the others |
| client address, CORS, configuration | none (pure functions) | decide | rate limit, router |

`PROJECT.json` lists the rest (handlers, validation, hashing, generated code,
migrations, tools), with the reason why each is left out.

### What is hard about it

* A login is a sequence of separate statements on the connection pool, outside
  any transaction. Any other request or job may run between two of them, and
  the request may be cut off after each.
* Transactions run at READ COMMITTED: a statement sees what was committed when
  it began, and looks again only at the rows it had to wait for.
* Clock readings are taken before they are used (the cache's `now`, `NOW()`,
  the cutoff of the cleanup).
* A mail is delivered outside the database, so delivery and its record can
  come apart: crash, cancelled context, expired deadline, failing `QUIT`.
* One deadline covers a whole sweep of the outbox.
* An OAuth callback looks an identity up and then upserts it, and holds unique
  keys of two tables that other callbacks wait for.
* A session is loaded at the start of a request and written back whole at its
  end, whatever other requests of the browser have done to it meanwhile.
* A passkey's counter is read, advanced and written without a transaction.
* A login is charged to two buckets, one after the other, and one of them is
  chosen by headers that the client may have written.
* Stopping the process races with River's start, with jobs and with handlers.

What makes each part correct is listed with the modules below; `PROJECT.json`
lists the hazards one by one, each with its line and the properties aimed at
it.

## Modules

| module | models |
|---|---|
| `Accounts` | the `users` table and every operation that writes it |
| `SessionAuthority` | abstract: principals granted per epoch, revocation starts a new epoch |
| `AccountsProofs` | the proofs about `Accounts` |
| `UserTokens` | `user_tokens`, its transactions and row locks |
| `UserTokensProofs` | the proofs about `UserTokens` |
| `RoleCache` | the authorization cache and `RequireRoles` |
| `BoundedStaleness` | abstract: an answer was true at most `Bound` before the question |
| `RoleCacheProofs` | the proofs about `RoleCache` |
| `EmailOutbox` | the outbox, the job that sends, River and SMTP as far as they matter |
| `SecondFactor` | `totp_configurations`, the requests that write it and the logins that read it |
| `SecondFactorProofs` | the proofs about `SecondFactor` |
| `OAuthFlow` | the OAuth callback up to its commit, over `oauth_accounts` |
| `OAuthFlowProofs` | the proofs about `OAuthFlow` |
| `BrowserSessions` | the requests of one browser over the session store, with the flow state in the session |
| `BrowserSessionsProofs` | the proofs about `BrowserSessions` |
| `Passkeys` | `passkey_credentials`: registration, logins, deletion |
| `LoginRateLimit` | the client address and the two token buckets |
| `LoginProofs` | the proofs about `LoginRateLimit` and `Passkeys` |
| `AppLifecycle` | `New`, `Run`, the server, River and the signal |
| `RiverProofs` | the proofs about `EmailOutbox` and `AppLifecycle` |
| `MC...`, one for each run's module | symmetry sets for TLC |

The modules meet at these seams. What `OAuthFlow` and `Passkeys` end in is the
login of `Accounts`, and what they know of a user (absent, unverified, usable,
refused) is what `Accounts` makes of the row. `BrowserSessions` takes
`auth_version` and its increments from `Accounts`, and the outcome of a login or
of a callback as open. `OAuthFlow.Callback` begins where
`BrowserSessions.CompleteOAuth` goes to the provider, for the user that
`ActsForCurrentUser` speaks of. `UserTokens` is the guard of the resets,
recoveries and verifications that `Accounts` does in one step. The modules are
not composed into one: each of these seams is a value that one side may choose
freely and the other is right for every choice of.

A definition named `Definition_Change` is `Definition` with a plausible mistake
in it. No specification uses these; putting one in the place of its original
makes a run fail, which shows that the property says something.

### Accounts

`user[u]` is the row of a user. Each statement of `users.sql` is a function of
a row with the name of the query (`RecordFailedLogin`, `LockUserUntil`,
`RestoreUserAccess`, ...). `req[r]` is a login in flight: which statement comes
next, and what of the row it has read (`active`, `verified`, `lockedUntil`,
whether the password matched).

| code | actions |
|---|---|
| `LoginWithPassword` | `LoginRead`, `LoginCheck`, `SecondFactor` |
| `handleFailedLogin` | `RecordFailure`, `ReadClock`, `LockAccount` |
| `FinishPasskeyLogin`, OAuth sign-in | `FederatedLogin`, then as below |
| `completeUserAuthentication` | `ValidateAccount`, `TouchLastLogin`, `ReadPrincipal` |
| `ResetPassword`, `RecoverAccount`, `VerifyEmail` | one step each, the commit |
| `DisableInactiveUsers` | `DisableInactive` |
| a cancelled request, a failing statement | `Abort` |

Decisions. The three transactions write single rows and read none before their
first write has locked it, so each is one step. Whether an account has a
second factor and whether the code is right is open here; what happens to the
second factor is the subject of `SecondFactor`. The application's clock
and the database's are one clock. The OAuth login runs its three statements in
a transaction; they are separate steps here, as for a passkey: this only adds
behaviours. The rate limit, which refuses requests before they read anything,
is left out: it only removes behaviours. `principals` and `revoked` are
history variables: what `completeUserAuthentication` has returned, and what of
it a reset or a recovery came after. The session made from a principal may be
stored at any time later, so it is the principal that has to be dead.

Properties:

* `RevokedNeverValid`: a principal of before a reset or a recovery is never
  validated again, however late the login that read it stores its session.
* `RowsConsistent`: the columns that different statements write agree.
* `LockoutArmed`: a count at the threshold comes with a lock of a full window
  from the last failure, or with a request about to set one. There are two
  exceptions, held by history variables until the next failure is counted:
  `cut`, the users of a request that was cut off between the two statements of
  `handleFailedLogin`, and `shortened`, those whose lock was replaced by one that
  ends earlier. `handleFailedLogin` reads the clock (`ReadClock`) before its
  `LockUserUntil` waits for a connection or for the row, and the statement does
  not compare; so a late one puts the end of an earlier reading over a newer
  lock. `LockIsFull`, without the second exception, is violated
  (`MCAccountsShortened`, by hand).
* `LockNotProlonged` (action property): only an attempt that read the row
  before a lock was there moves the end of that lock.
* `ImplementsAuthority`: the table is a `SessionAuthority`, with `auth_version`
  as the epoch.
* `RecoveredStaysActive` is violated, see Findings.

### UserTokens

`row[t]` is the committed row of a token. A transaction holds in its own record
what it has seen and locked, and writes at its commit. `requestTokenEmail` is
`RequestStart` (the reads before the transaction, and `NewToken`),
`RequestBegin` (which fixes `NOW()`), `ExpireScan` and `ExpireLock` (the two
halves of `ExpireUserTokens`: find the rows, wait for them and look again),
`RequestCommit` or `RequestRollback`. `VerifyEmail`, `ResetPassword` and
`RecoverAccount` are `ConsumeBegin`, `ConsumeUserToken` (which waits for the
row), `ConsumeCommit` or `ConsumeRollback`, for the kind they ask for.

* `ConsumedOnce`: a token takes effect at most once, and only for its kind.
* `ReplacedIsDead`: the tokens that were there when a request started are dead
  when it has been answered, whatever overlapped it.
* `LatestIsGood`: the token mailed last is good for its whole life, or used.
* `OneTokenAtATime` is violated, see Findings.

### RoleCache

One step per critical section of the cache's mutex and per query.
`resolveRoleNames` reads the clock (`Start`), looks into the map (`Get`, and
`Evict` under the write lock), asks the database (`Resolve`, `ResolveFails`)
and stores the answer with the first reading (`Set`). `lastHeld` is history:
when a user last had a set of roles.

* `AnswersAreFresh`: the roles a request is judged by were the user's at some
  time not more than `TTL` before the request read the clock.
* `OnlyExpiredRemoved` (action property): neither `Get` nor `Sweep` removes an
  entry that is still good.
* `KeepsPromise`: the cache is a `BoundedStaleness` with bound `TTL`.

### EmailOutbox

A row is new, failed (`last_error` set), sent, or deleted; instead of
timestamps it holds how long it still waits or how long ago it was sent, and
`Tick` moves these. A worker runs `EmailOutboxWorker.Work`: `List`, and for
each mail `SendAccepted`, `SendUnconfirmed` (the server took the message and
`QUIT` failed) or `SendFails`, then `MarkEmailSent`, `MarkEmailFailed` or
`MarkFails`. Its context ends at a deadline or when `Client.Stop` cancels it,
and with it every send and every statement that is left fails. River is
external: a unique job is inserted when none waits or runs, a worker takes it,
and the job of a worker that died is rescued. `delivered` and `blind` are
history: which mails the server has taken, and which of these when the row
could not be told.

* `AgainOnlyIfBlind`: sweeps do not overlap; a second delivery takes a first
  one that could not be recorded.
* `SentWasDelivered`: a row that says sent stands for a delivery.
* `EveryMailDelivered` (liveness) under `AcceptingSpec`; violated when a
  server stalls over another mail, see Findings.
* `FailedNotKept` is violated, see Findings.

A crash takes a single worker with it here; that it leaves others alone is
the case of several processes.

`Jobs` says that River inserts, rescues
and starts jobs, that a worker goes on, that the cleanup runs and that time
passes: these are the periodic jobs that `river.New` registers and River's own
maintenance. `SF_vars(Tick)` is strong because `Tick` is disabled while a
worker has a step to do that takes no time. `Accepting` is an assumption about
the SMTP server: a mail offered to it again and again is accepted in the end;
without it nothing can be promised. `Tick` does not pass while a mail is due
and no job runs or is stuck: the unit of time is no shorter than
`river.email_outbox_every`.

### SecondFactor

`totp[u]` is the row of a user, or `NoRow`. None of the requests locks the row
it has read, so every statement is a step, and any number of requests of a
user may be between two of theirs.

| code | actions |
|---|---|
| `BeginTOTPSetup` | `BeginRead`, `UpsertTotpConfiguration` |
| `ConfirmTOTPSetup` | `ConfirmRead`, `EnableTotpConfiguration` |
| `DisableTOTP`, `RecoverAccount` | `RemoveRow` |
| a password login | `LoginFactor` (`validateSecondFactor`), `LoginFlag` (`principalWithFactors`) |
| a cancelled request, a failing statement | `Abort` |

Whether a code is right for a secret is open: who has seen the secret has the
code. A request that is refused (the TOTP is enabled, there is none, the code
is wrong) changes nothing here and is not a step; a login with a wrong code
counts as a failure in `Accounts`. The other steps of a login, and the other
columns that a recovery writes, are in `Accounts`. `made`, `confirmed`,
`overtaken`, `removed`, `principals` and the `raced` of a login are history.

* `UnconfirmedWasOvertaken`: an enabled secret is one that a code was given
  for, or one whose setup overtook a confirmation in flight. It says exactly
  in which way the promise fails that `DisabledBeforeConfirmation` states.
* `RemovedNeverReturns`: a secret that was replaced, disabled or removed by a
  recovery is in no row again, whichever confirmation had read it.
* `FlaggedWasAsked`: a password login whose principal says `totp_enabled` was
  asked for a code, or the TOTP was enabled after it was not asked. It is about
  password logins only: those by OAuth and by passkey carry the same flag and
  ask for no code.
* `ReplacedBySlowSetup` (action property): an enabled TOTP ends by being
  disabled or by a recovery; a setup replaces it only if it had read the row
  before it was enabled. This is a weakness of `BeginTOTPSetup`, which refuses
  an enabled TOTP but checks it in another statement: the account is then
  without a second factor although its user was told that it has one.
* `DisabledBeforeConfirmation` is violated, see Findings.

### OAuthFlow

`account[u]` is what a callback can learn of a user, `link[i]` the user of an
identity in `oauth_accounts`, both as committed; `cb[f]` is a callback with what
it has read and not committed. A user is its email, which is UNIQUE.

| code | actions |
|---|---|
| `CompleteOAuthAuthentication` | `Callback`, `FetchProfile` (the two requests to the provider) |
| `completeOAuthFlow` | `FindIdentity`, `MatchEmail`, `CreateUser` (`createOAuthUser`), `FindProviderAccount`, `UpsertOAuthAccount`, `CompleteUserAuthentication`, `Commit` |
| an error, a cancelled request | `Abort` |
| what else writes users | `Register`, `VerifyEmail`, `Refuse`, `Restore` |

A writer of a unique key that another transaction holds waits for its end
(`Conflicts`, `Creating`), which is where callbacks could wait for each other.
`entitled` and `usable` are history.

* `OwnerEntitled` (action property): an identity is given to the user who asked
  for the link while signed in, to the one whose verified email came with it, or
  to the one it was found to belong to.
* `MovedOnlyByOverlap` (action property): an identity is taken from a user only
  by a callback that looked it up before it was linked to that user. The upsert
  says `ON CONFLICT ... DO UPDATE SET user_id`, so such a callback does take it;
  the property says that nothing else does.
* `UnusableNotServed`: a callback commits for no user who was at no time usable
  while it was about that user. The account is checked after the link was
  written, so this is a property of the rollback.
* `CallbacksEnd` (liveness) under `FairSpec`, which is `SF_vars(Step(f))` for
  each callback: the provider and the database answer, and PostgreSQL serves the
  waiters of a row in their order, so a callback that is enabled again and again
  takes its step. It fails if two callbacks may wait for each other.

### Passkeys

`row[c]` is the row of a credential, `maker[c]` the user handle that its
authenticator holds; `current` and `ceremony` are the browser session as far as
a registration uses it; `req[r]` is a request between two of its statements.

| code | actions |
|---|---|
| `BeginPasskeyRegistration` | `BeginPasskeyRegistration` |
| `FinishPasskeyRegistration`, `persistPasskeyCredential` | `FinishPasskeyRegistration`, `PersistPasskeyCredential`, `Answer` |
| `FinishPasskeyLogin`, `updatePasskeyCredential` | `FinishPasskeyLogin`, `FinishLogin` |
| `DeletePasskey` | `DeletePasskey` |
| a cancelled request, a failing statement | `Abort` |

The library's `UpdateCounter` is external, modelled by what it does: a counter
that does not grow leaves a warning, and both zero is no counter at all. A copied
authenticator is why the counter of an assertion is any number. `seen` is
history. Ceremony data is not bound to one login here: a challenge may be answered
as often as a session can be sent.

* `CloneWarned`: a counter that was accepted before leaves its warning, and it
  stays, unless two logins with the credential were between their read and
  their write at a time.
* `RevertedOnlyByOverlap` (action property): the counter goes back, or the
  warning away, only by a login that read the row before another wrote it.
* `ReturnsByRegistrationOnly` (action property): a deleted credential is not
  brought back by a login that had read it, and a credential becomes that of no
  user but the one it was made for, whoever signs in between.

### BrowserSessions

`store[t]` is the session saved under a token, `cookie` what the browser has,
`req[r]` a request with its copy. `Load`, `Commit`, `Receive` are SCS's
`LoadAndSave` and the answer, which may be lost or late; `Page` is
`RequireAuthenticated`; `Logout`, `Login`, `StartOAuth`, `CompleteOAuth` and
`CompleteOAuthEnd` are the handlers of the same names, the last two the halves
of the callback before and after the provider. `Fail` is the 500 of a request
whose `ValidateSession`, or whose `Destroy` of an invalid session, returns an
error: its copy is saved all the same. Ceremony data of passkeys is not part of
the session here; it is in `Passkeys`. SCS is external: with an idle
timeout, which the configuration sets, every session that was found is saved
again at the end of its request. `bearer`, `out`, `spent`, `shared` and the
`revoked` of a request are history.

* `TokenKeepsUser`: a token is of one user or of none as long as it exists: one
  known before a login does not become the session of that login, whatever
  overlapping requests save back.
* `LoggedOutStaysOut`: after a logout that no other request with the token
  overlaps, the token is nobody's.
* `ActsForCurrentUser`: a handler works, and links an identity, for no user but
  the one of the session it was sent with, and not for one whose sessions were
  revoked before it was loaded.
* `FlowTakenOnce` (action property): a flow goes to the provider a second time
  only if two requests had it loaded at a time or the first callback was cut off.
* `LogoutEndsSession` is violated, see Findings.

### LoginRateLimit

A header is a sequence of lines. `RealIP`, `ClientAddrFromForwardedFor` and `Get`
are pure operators over it; `Get` is `http.Header.Get`, which returns the first
line only. A way (`Ways`) is what a request went through: where it came from, the
line that the client wrote already (well-formed, malformed or none), the proxies
it passed, and which of these folded all lines into one and which added a line
of their own. `Lines` is the header that the server gets then. `Due` says, from
the way and not from the header, to whom the request ought to be charged, and
`Arrive` sends a login of any way. `ChargeEmail` and `ChargeIP` are the two
statements of `enforceRateLimit`; the second does nothing for a request without
an address. The bucket (a library over PostgreSQL) is external; a token is
`Window` units, so that refilling is exact in integers. `IPFactor` is 4 in the
code; a smaller one lets the address's bucket be the one that refuses.

* `ChargedToOrigin`: a login is charged to whom it is due. That is its client if
  it came straight, if it wrote no line, or if a proxy folded the line it wrote
  and its address into one, whatever the line names, whatever `X-Real-IP` says
  and however many trusted proxies follow. It is not if the proxies add lines of
  their own only: the line that the client wrote is then the one that is read,
  and the login is charged to an address in it. A line with a part that does not
  parse, and a header with no line at all, lead to `X-Real-IP`, or to the proxy
  if that does not parse either; a line of proxies only leads to its first.
* `LimitsHold`: what gets past the limiter is no more than a full bucket and one
  more for each `Refill` since, whatever logins overlap. `Refill` is the time in
  which an empty bucket is full again: `Window`, or the age at which the cleanup
  removes a bucket where that is less. The cleanup says 24 hours and the
  configuration accepts any positive `failed_login_window`, so a longer window
  does not get the limit that it asks for: `ConfiguredLimitsHold` is violated
  (`MCLoginRateLimitLongWindow`, by hand).

`RateInit`, `RateNext` and `RateSpec` are its `Init`, `Next` and `Spec`, so that
`LoginProofs` can extend this module and `Passkeys`.

### AppLifecycle

`main` is where `New` or `Run` stands; each step of `New` goes on or returns with
what it closes (`Fail`). The server, its handlers, River's goroutine and its jobs
are processes of their own. `Shutdown` and `RiverStopped` wait, for handlers
and for River, and give up when `Expire` has ended their context. pgx, net/http
and River are external.

* `NothingLeft`: what is left when `main` returns. A pool is open only after a
  `Shutdown` that failed (out of time, or the listener's `Close` did), after
  which `Run` returns at once. A cleaner runs on only then, or when `New` fails
  after the session store has started it. River, or a job, is left after such a
  `Shutdown`, after a `Stop` that ran out of time, and after one that came before
  River had started, which `Stop` does not wait for; in each of these cases its
  context is done, so that it ends by itself.
* `ClosedAfterUse`: a pool is closed under a job only if `Stop` ran out of time or
  came before River had started, and under a handler only if the server failed by
  itself.
* `RunEnds` (liveness): a signal, or a failure of the server, ends the process.
  `AppFairSpec` is weak fairness of the steps of `main`, of River's own steps, of
  the end of a job whose context is done, and of the end of the deadline; a job
  that is not cancelled and a handler may last for ever.

The names every module has (`Init`, `Next`, `Spec`, `IInv`) start with `App` here,
so that `RiverProofs` can extend this module and `EmailOutbox`.

## Runs

| run | instance | result |
|---|---|---|
| `accounts` | 1 user, 2 logins cut off anywhere, 2 passwords, threshold 2, window 2, clock to 3, version to 2 | holds, 1,215,450 states |
| `accounts_recovered` | 1 login | `RecoveredStaysActive` violated |
| `role_cache` | 1 user, 2 requests, 2 sets of roles, TTL 1, clock to 3 | holds |
| `tokens` | 1 user, 2 requests, 2 consumers, 3 tokens, TTL 1, clock to 2 | holds, 547,127 states |
| `outbox` | 3 mails, 2 workers, sweeps of 2, every fault, 1 crash | holds, 817,557 states |
| `outbox_live` | 2 mails, sweeps of 1, 1 crash, refusals | `EveryMailDelivered` holds |
| `second_factor` | 1 user, 3 secrets, 3 requests | holds, 338,674 states |
| `oauth` | 2 users, 2 identities, 2 callbacks | holds, 170,660 states |
| `passkeys` | 2 users, 2 credentials, 2 requests, counters to 2 | holds, 2,393,907 states |
| `sessions` | 2 users, 2 tokens, 1 flow, 2 requests, versions to 2 | holds, 2,390,509 states |
| `rate_limit` | 2 emails, 2 clients, 1 proxy, up to 2 hops, 2 logins, a line of up to 1 part from the client, a token in a window of 3, a bucket removed when untouched for more than 1, clock to 3 | holds, 1,512,603 states |
| `lifecycle` | 2 handlers, 2 jobs | holds, 466 states |

Some configurations are kept beside these, to be run by hand (`tlc -config
X.cfg M`). `MCUserTokensConsume` is `ConsumedOnce` with tokens of two kinds, and
holds. The others end with a property that is violated. `MCUserTokensOne`,
`MCEmailOutboxStalled`, `MCEmailOutboxKept`, `MCSecondFactorUnconfirmed` and
`MCBrowserSessionsLogout` show the disagreements under Findings.
`MCAccountsShortened` and `MCLoginRateLimitLongWindow` show why `LockoutArmed` and
`LimitsHold` say no more than they do.

Why the bounds are enough. In the first modules users do not share rows, so one
is enough (the proofs are for any number). Two of them compete for an identity,
a credential, a browser or a bucket, and a second identity, credential or
email shows what one keeps from the other. Two requests are what a race
needs, and the statements of a third add no step that one of the two does not
have; `second_factor` has three, for a setup, a confirmation and a login at a
time. A threshold of 2 separates the first failure from the one that locks. The
clock runs long enough for a lock, a window, an entry and a token to end and
for a second one to start. Two versions separate before and after a
revocation. Three mails and sweeps of two leave a mail behind in a sweep.
A second session token is what a login gives in place of the first; a used
flow can not be started again, so one is enough to be taken twice. Counters to
2 have one that grows, one that stays and one that falls, besides zero. Two hops
give a chain with a proxy in it, folded or in a line of its own; a longer one
adds proxies that are skipped. The client's line has one part, which is enough
for each case of `Due`. A window of 3 against an age of 1 has the cleanup take
away buckets that are not full yet; the other order is in the proof.
One handler or job more than the last tells "all have ended" from "one has".
Symmetry is used in the runs that check no liveness, for the sets of users,
requests, passwords, tokens, mails, workers, credentials and addresses that no
definition tells apart.

## Proofs

The eight proof modules prove for every value of the constants, from the named
assumptions of the modules alone (`ConfigAssumption`, `TokenAssumption`,
`CacheAssumption`, `FactorAssumption`, `FlowAssumption`, `SessionAssumption`,
`PasskeyAssumption`, `OutboxAssumption`, `LifecycleAssumption`,
`RateAssumption`), what the passing
runs check on instances: types, the safety invariants, the action properties,
and that `Accounts` and `RoleCache` implement their abstract specifications.

The properties are not inductive, so each component has an `IInv`.

* `Accounts`: a step of a login uses what an earlier step read. `IInv` adds
  that a principal carries no version its user has not reached, and a revoked
  one an earlier version (this carries `RevokedNeverValid`: versions only
  grow); that no failure lies in the future (so a new failure moves the count's
  time forward, and who reads the clock after it locks for a full window from
  it: `LockoutArmed` survives `RecordFailure` and `ReadClock`, and a `LockAccount`
  with an older reading either leaves the lock no shorter or is in `shortened`); and that an
  attempt that passed the lock check saw no lock that still runs (this carries
  `LockNotProlonged`: what it read is before the lock it prolongs). The proof
  first shows what a step may make of a row (`RowChanges`) and of a request,
  and then takes the parts of `IInv` one at a time from these two facts.
* `RoleCache`: `IInv` adds that no clock reading is ahead of the clock and that
  the value of an entry, and of a request about to store one, was held since
  the reading its expiry counts from. `AnswersAreFresh` follows because an
  entry that is not expired at `at` counts from a reading at most `TTL` before.

* `SecondFactor`: `IInv` adds that a secret is in one place only, in the row of
  one user or with the request about to write it, so that what is removed can
  not be elsewhere; that the row a confirmation is about to enable holds a
  known secret already; and that a login or a setup between its two statements
  has been overtaken, or the login was asked, if the row is enabled by now. The
  first carries `RemovedNeverReturns`, the second `UnconfirmedWasOvertaken`,
  the third `FlaggedWasAsked` and `ReplacedBySlowSetup`.

* `OAuthFlow`: `IInv` says of each callback, where it stands, what it `Knows`
  (the entitled user is the one who asked or whose email it is), what it
  `Decides` (its user is entitled or was found with the identity, a new user
  is absent until the commit, a usable one has been noticed) and how it `Fits`
  with the others: what one has written and not committed no other has, and no
  other identity of its user is linked. The first two carry `OwnerEntitled`,
  `MovedOnlyByOverlap` and `UnusableNotServed`, the last one the UNIQUE
  constraints in `TypeOK`. A step of a callback changes its own record only, so
  `OwnRecord` leaves one record to look at; `Commit` and the other writers of
  users are the exceptions.
* `Passkeys`: `IInv` adds that a registration is about to write its own user
  (`Carries`), that a login is about to write the library's arithmetic on what it
  read, and that without an overlap the one login under way has read what is in
  the row (`Tracked`): then the row it writes is never behind the history.
* `EmailOutbox`: `IInv` adds that there is one job, queued, running or stuck with
  a worker that died (`OneJob`: with it no two workers have a mail), and where a
  mail is that the server has taken (`Recorded`): if its row could be told, it is
  in no batch that is still to be sent, and its row says so, is gone, or is about
  to be marked by the worker that has just sent it. So what is sent again was
  lost (`AgainOnlyIfBlind`), and what is marked was sent (`SentWasDelivered`). A
  batch has each mail once, which `TypeOK` says and `Batch` keeps for its tail.
  `WorkIInv` says what a step of a worker must not do, `RestIInv` the same for
  River, the writers of rows, the cleanup and time.
* `LoginRateLimit`: `RateIInv` keeps an account of each bucket (`Within`): what
  passed, what has paid its email and not yet its address (`Paid`), and what is
  left, came out of one full bucket and one more for each `Refill` since; where no
  bucket is, what passed has flowed since the start, so a full one can be given.
  The account is kept by the cleanup because a bucket is removed only when it
  has not been touched for a whole `Refill`, which holds whether `StaleAfter` is
  above `Window` or below it. The products of variables are in `Products`. That
  a login is charged to whom it is due needs no history: `Line` says
  which line the server reads of a request that came any `Way`, `Rightmost`,
  `Unreadable` and `OneOfThese` what `ClientAddrFromForwardedFor` makes of a line
  of any length, and `Arrival` compares the two with `Due`. The logins in
  flight are finitely many, and the keys of emails are not those of addresses
  (their prefixes).
* `AppLifecycle`: `AppIInv` adds what each step of `New` has not made yet, and what
  the steps of `Run` have waited for: from `Shutdown` on the server takes no
  request and no handler is left, or it had failed; before the pools are closed
  River is past its start, its context is cancelled, and it has stopped, or was
  not waited for, or the wait ran out of time. These theorems are about `AppSpec`, which assumes no fairness and
  of which `AppFairSpec` is a conjunct more.
* `UserTokens`: `IInv` adds that a row is the one its token was issued with but
  for its end and its use; that a token in a transaction's `held` is good and
  held by no other transaction (`LockedForRequest`, `LockedForUse`); that past
  the scan everything that was there when a request started is about to be
  expired by it or was refused at its time already (`Covers`: this carries
  `ReplacedIsDead`); that a token with an effect has its row marked or gone
  (`Spent`: with the lock, `ConsumedOnce`); and that the token issued last still
  has the end it was issued with (`Lasts`). What a new row does to the others
  is one lemma, `Issuing`, for `requestTokenEmail` and `Register`. Two results
  say more than the runs: no two transactions hold a token (`Exclusion`), and
  a token that is refused once is refused for good (`NoRevival`).
* `BrowserSessions`: `IInv` adds that a copy is of the user of the token it was
  loaded with (`CopyOf`: with it a late `Commit` can not give a token to
  another user), that a token logged out alone has no copy left to be saved
  (`LoggedOut`), and three things about a flow: one that has not been started
  is nowhere; one that is not shared is with one request at most, and in the
  store only under the token of that request (`InOnePlace`); and one that a
  callback took is still in the store only until that callback saves its copy
  (`TakenOut`: this carries `FlowTakenOnce`). Most handlers change one record
  and perhaps delete one row, so `HandlerIInv` and its special case `QuietIInv`
  say once what such a step must not do; `Load`, `Commit` and the increment of
  `auth_version` have proofs of their own.

Only model-checked: the liveness properties `EveryMailDelivered`, `CallbacksEnd`
and `RunEnds`, which are out of the prover's reach.

## Findings

* `accounts_recovered`: `RestoreUserAccess` leaves `last_login_at`, so an
  account that was disabled for inactivity and recovered is disabled again by
  the next run of the inactivity job, unless its user logs in before.
* `MCUserTokensOne`: of two overlapping requests neither expires the token of the
  other; both stay good until they expire, are used or are replaced.
* `MCEmailOutboxStalled`: the context of the job is the context of the send and of
  the mark that follows. A send that takes until the deadline can not be marked
  as failed; the mail stays the oldest and every later sweep begins with it.
* `MCEmailOutboxKept`: the retention of failed mails is counted from
  `available_at`, which every failed attempt moves ahead; such a mail is kept
  and retried for ever.
* `MCSecondFactorUnconfirmed`: the confirmation of one setup enables whatever
  secret is in the row by then. A second setup in between leaves the account
  with a second factor that nobody has given a code of; a user who only has the
  first secret is locked out of the login.
* `MCBrowserSessionsLogout`: a request that loaded its session before a logout
  saves it again after it, under the same token; a browser that still has the
  cookie is signed in.

Two weaknesses contradict nothing that is written, and are not counted as
findings: a late `LockUserUntil` can shorten a newer lock (`LockIsFull`), and a
`failed_login_window` above 24 hours is cut to that by the cleanup of the
buckets (`ConfiguredLimitsHold`).

## Not modelled

* CORS: a decision over one request and a fixed list, without state.
* Configuration: read once before anything runs; what there is to it is the
  matching of names character by character.
* Handlers and JSON, validation: decoding and predicates over single values. What
  the handlers do to the session is in `BrowserSessions`.
* Hashing and encryption: passwords and secrets are model values.
* Generated queries, models and migrations: each query is modelled where it is
  used, and the schema is the state of the modules.
* Tools of the build and of the tests.

## Plan

Built: every component with state of its own, and proofs about every one of them:
each safety property of a run is a theorem. What is left are stronger results
of the kind of `Exclusion` and `NoRevival`, which say more than the runs do.
