# Verification of the API authentication and user management service

This directory models the NestJS service under `src/` in TLA+: the users table,
the handlers of `AuthService` and `UsersService` split at every `await`, the
guards, the audit table with its unawaited saves and its readers, the start of
several instances over one database with migrations and `synchronize`, and the
faults of the database and of the processes. TLC checks small deployments. TLAPS
proves, for every size, every safety property that a passing run checks; liveness
is left to TLC.

## 1. The system

| Component | Where | State it keeps | Operations | Interactions |
|---|---|---|---|---|
| Users table | `src/src/users/entities/user.entity.ts`, `src/src/database/migrations/` | rows: address, password hash, role, `isActive`, `deletedAt`, refresh-token hash, `failedLoginAttempts`, `lockedUntil`; partial unique index on live addresses | SELECT, INSERT, UPDATE by id, soft delete, restore | the only state requests share; each statement is atomic, no handler opens a transaction |
| `UsersService` | `src/src/users/users.service.ts` | none | create, update, remove, restore, counting and clearing failed logins, storing the refresh-token hash, changing a password, listing | read, check, `await`, write; hands rows to `AuditService` in the middle |
| `AuthService` | `src/src/auth/auth.service.ts` | a cached dummy hash | register, login, logout, refreshTokens, changePassword | calls `UsersService`, `JwtService`, bcrypt |
| Guards and controllers | `src/src/auth/strategies/`, `src/src/auth/guards/`, `*.controller.ts` | none | bearer token, live and active account, role, UUID and body validation | read the account again on every request |
| Exception filter | `src/src/common/filters/all-exceptions.filter.ts` | none | status of an exception, 409 for SQLSTATE 23505 | last stop of every failing request |
| `AuditService` | `src/src/common/services/audit.service.ts` | `audit_logs` | log an event (not awaited, failure swallowed), page, summarise failed logins | called from every handler |
| Audit controller | `src/src/audit/` | none | page through the trail, summary of failed logins | administrators only; reads while rows land |
| Rate limiting | `src/src/app.module.ts`, `src/src/common/decorators/throttle.decorator.ts` | buckets per process | count, refuse with 429 | in front of every route |
| Configuration | `src/src/config/configuration.ts`, `src/src/common/services/config-validation.service.ts` | environment | parse, refuse to start | gives the lockout, token and pool parameters |
| Schema | `src/src/database/` | migrations table | five migrations up and down, `synchronize` | creates the unique index that every handler relies on |
| Bootstrap | `src/src/main.ts`, `src/src/app.module.ts` | none | connect, migrate, validate, listen | several instances do so at once |
| Health | `src/src/health/` | none | liveness, readiness | its container restarts an instance that does not answer |
| Swagger and serialization | `src/src/common/swagger/` | none | documentation | none |

What is hard in it: Node runs one step at a time, but every handler is a chain
of awaited statements and hashes, and any other request may run in between.
Nothing is locked and nothing is in a transaction, so each handler acts on what
it read some awaits ago. Handlers have several writes and hand over audit rows
between them, so a failing statement or a crash leaves part of the work done.
The only guard against a race is the partial unique index. Audit rows are saved on
their own time: they come late, in another order, or not at all, while somebody
reads pages of them by offset. Instances that start together work on one schema.

What makes each component correct:

* users table - two live accounts never share an address, whoever races;
* lockout - the two columns agree, a lock is bounded in time and needs as many
  consecutive failures as configured, a success resets the counter, a running lock
  is left alone;
* sessions - tokens only come out of a registration, a login that deserved
  them or a refresh of a session; logout ends a session; a new pair replaces the
  old one;
* authority - admin rights only come from other administrators;
* passwords - a password is replaced only by somebody who knew it;
* audit trail - rows agree with the answers and explain the table, are kept once
  and not changed, and reading them page by page misses none;
* schema - the migrations table tells the truth, the guard on addresses is never
  missing, an instance serves over a schema that fits its entities, the address of
  a deleted account is free;
* start - what is refused never serves, what is accepted comes to serve;
* every request - is answered, and with the right class of status.

## 2. The modules

```
UserStore            the table, its index
  RequestContext     request records, tokens, audit rows, exceptions
    UsersService     create, update, remove, restore, the column writes
      AuthService    register, login, refresh, logout, changePassword
        AuthApi      arrivals, guards, clock, faults: Init, Next, Spec
          AuthApiSafety       its properties; INSTANCEs LockoutPolicy, EmailRegistry
            MCAuthApi         deployments and workloads for TLC
            AuthApiProofs     types, lockout columns, addresses, authority
              RequestProofs   what a handler knows at each step, and what follows
                StatusProofs  the trail explains the accounts
                SerialProofs  what holds when requests do not overlap
                  RoleTrailProofs  and of the trail of roles
          AuditTrail          saves in flight, audit_logs, its readers; next to AuthApi
            AuditTrailSafety  its properties; INSTANCEs EvidenceLog
              MCAuditTrail    EXTENDS MCAuthApi too
              AuditTrailProofs  EXTENDS RequestProofs too
                ReaderProofs  what the pages and the summary show

Schema               objects of the schema, migrations, synchronize
Configuration        the environment, defaults, what is refused
  Deployment         EXTENDS both: instances that start, serve, die; the operator
    DeploymentSafety its properties
      MCDeployment   environments and databases for TLC
      DeploymentProofs

LockoutPolicy        abstract: what the account lockout promises
EmailRegistry        abstract: what the unique index promises
EvidenceLog          abstract: what the audit trail promises
```

### State

* `users[u]` is the row with id `u`. Status `absent` is an id not generated yet,
  `live` and `deleted` are `deletedAt` NULL and not. `lockedUntil = 0` is NULL.
* `req[r]` is one HTTP request. `pc` names the statement or computation it waits
  for; `call` is the validated body and route, where `None` is a field not given and
  `Null` an explicit null, which `@IsOptional` lets through; `tok` is the bearer or refresh
  token sent; `uid` and `snap` are the account and the row the handler holds in
  its local variables; `at` is the `Date.now()` that its next write uses; `reply`
  is the status sent. At most one statement of a request is outstanding, as in
  the code, where every statement is awaited.
* `tokens` are the pairs that clients have received; `audit` the rows handed to
  `persist`; `now` the clock; `faults` the faults so far.
* `AuditTrail` adds `pending`, the rows whose `save()` has not settled, each with
  the time `since` it was called; `entries`, the table `audit_logs`; and `walk`, a
  client that reads page after page of one query, with the entries its query
  matched at the start that no page has shown it (`unseen`, a history variable).
* `Deployment` has a state of its own: `schema`, the objects in the database;
  `executed`, the migrations table; `reused`, whether an address is held by a live
  and a deleted account, which is all that migrations can see of the rows;
  `dbUp`; and `inst[i]`, the process of an instance: its phase, environment, failed
  attempts, the migrations it is about to run and the schema it saw.

### Actions

An action is what runs between two awaits, together with the atomic effect of
the statement it waited for. The steps of the handlers are, in order:

| Handler | Steps |
|---|---|
| `register` | `CreateLookup` (SELECT by address) - `RegisterInsert` (INSERT, audit row, sign) - `StoreTokens` |
| `login` | `LoginLookup` - `LoginVerify` (everything decided after `bcrypt.compare`) - `LoginCount`, or `LoginClear` when there is something to clear - `StoreTokens` |
| `refreshTokens` | `RefreshLookup` - `RefreshVerify` - `StoreTokens` |
| `logout` | `Guard` - `LogoutSelf` - `LogoutWrite` |
| `changePassword` | `Guard` - `ChangePasswordSelf` - `ChangePasswordFind` - `ChangePasswordWrite` |
| `update` (PATCH profile and PATCH :id) | `Guard` - `UpdateFind` - `UpdateCheck` when the address changes - `UpdateWrite` - `UpdateReload` |
| `remove` | `Guard` - `RemoveFind` - `RemoveWrite` |
| `restore` | `Guard` - `RestoreFind` - `RestoreCheck` - `RestoreWrite` - `RestoreReload` |

Steps that touch neither the table, the clock nor the trail are merged with
their neighbours: the bcrypt comparison of `changePassword` and the hashing of
new passwords and tokens read only what the handler already holds. The two
comparisons after which the clock is read, in `login` and `refreshTokens`, are
steps of their own. Verifying a JWT and reading its account is one step, so the
expiry and the row are judged at one instant.

`UpdateWrite` fails without any fault when the body has a null in it, since every
column a body can name is NOT NULL: the catch block adds its failure row and the
answer is 500. `Throw` is the way out of every failing step: `CatchRows` are the rows the
catch blocks around that step add, and the status is what the filter makes of the
exception. `Arrive` is a client sending any call of the workload with any pair
that some client holds.

`Fault` is a statement that fails (`QueryFails`, answered 500, or 403 by
`refreshTokens`, which turns every exception into one) or a process that dies
(`Crash`, every request in progress is lost, the table survives). Either way the
statement in flight may have been committed (`MayLand`). A crash commits at
most one statement of those in flight.

`AuditTrail` composes with the API: an `ApiStep` is a step of `Next` in which the
rows it hands over begin to be saved (`SavesBegin`), or in which the process dies
with the saves in flight, some of which have been committed (`SavesDie`).
`Insert` commits one save, in any order, with a timestamp from any instant
between the call and now; `InsertFails` is the rejection that `persist` logs and
swallows, of an INSERT that may have been committed all the same; `IdleCrash` is a
process that dies while it serves no request. `ReadPage` is `findLogs` for the
next page behind the guards: `ORDER BY timestamp DESC` does not order ties, so a
page may be any choice of the tied entries (`PagesOf`), and a fresh one each time.
`FailedLogins` is `getFailedLoginAttempts`.

`Deployment` follows an instance from `Start` (modules are loaded, `configuration()`
may throw) through `Connect`, `Migrate`, `Synchronize` and `Validate`
(`onModuleInit`, then `listen`) to `up`, with `TryAgain` as the way out of a step
that fails. An instance in the phase `refused` has ended for a reason that another
start meets again. `ReuseAddress` stands for the traffic it serves, `Restart` for
the container and the liveness probe, `Release` and `Revert` for the operator's
`migration:run` and `migration:revert`; `Revert` is for a time when nothing runs.
`Outage`, `Crash` (the transaction in flight may have been committed), `Hang` and
`Revert` count as faults.

### Code outside `src/`

* TypeORM: `update`, `softDelete` and `restore` by id reach a row whether it is
  deleted or not; `findOne` hides deleted rows unless `withDeleted` is set. A
  second soft delete only writes the timestamp again.
* bcrypt: compares the first 72 bytes. A refresh token is a JWT whose first 72
  characters are the header and the start of `{"sub":"<uuid>...`, so that `Digest`
  of a pair is its subject. The ids of a deployment are taken to differ in the 18
  characters of the UUID that are within reach.
* `jsonwebtoken`: no `jti`; two pairs signed for one account in one unit of time
  are the same pair. A pair is `[sub, iat]`; the access and refresh halves expire
  after `AccessTtl` and `RefreshTtl`.
* NestJS: guards run before pipes and handlers; statuses of 2xx are all 200 here.
  `TypeOrmModule` repeats a failing `initialize` a number of times, then the
  bootstrap fails, the process exits and its container starts it again.
* TypeORM at the start: pending migrations are read once and run in one
  transaction, `migrationsRun` before `synchronize`. When another instance has
  changed the schema since, a statement may fail, or may not: both are allowed.
* PostgreSQL: `now()`, the default of `timestamp`, is the begin of the transaction;
  DDL is transactional.
* Containers: one that has exited, or whose liveness probe fails, is restarted.

## 3. Properties and runs

Each run takes its table, calls and token pairs, or its environments and
databases, from an MC module. Definitions
commented `MUTANT of X` are variants of `X` with a plausible bug; they are not
part of any specification and show that a property tells the bug from the code.

| Run | Question | Bounds | Distinct states |
|---|---|---|---|
| `account` | `LockMatchesCounter`, `LockBounded`, `CounterBacked`, `PasswordsKnown`, `AuditMatchesAnswer` with logins, password changes, refreshes and logouts of one account in every interleaving | 1 account, 7 calls, 3 requests, all overlapping, clock 0..3, duration 2, 1 fault | 461 thousand |
| `directory` | `LiveEmailUnique`, `EmailRegistryHolds`, `NoSpuriousError`, `AuditMatchesAnswer`, `StatusTrail`, `AuthorityTraceable`, `TypeOK` with registrations, address and role changes, deletion and restoration racing | 5 ids (3 in use), 3 addresses, 3 overlapping requests, 1 fault | 278 thousand |
| `serial` | `LockoutPolicyHolds`, `FailuresConsecutive`, `SuccessResets`, `RunningLockKept`, `ThresholdLocks`, `LogoutEndsSession`, `RoleTrailAccurate`, `EveryTokenEarned` when requests do not overlap | 4 requests of 10 kinds, one at a time, clock 0..2 | 1.1 million |
| `trail` | `EvidenceHolds`, `WalkMissesNothing`, `SummaryExact`, `TrailTypeOK` with rows late, lost and in doubt while a page walk goes on | 3 requests one at a time, pages of 1, clock 0..1, 1 fault | 427 thousand |
| `deployment` | `HistoryHonoured`, `AddressesGuarded`, `ServedSchemaFits`, `ServingSecretsOwn`, `OutageRestartsNobody`, `EveryInstanceSettles`, `DeploymentTypeOK` under `FairDeployment` | 2 instances, 6 environments, 4 databases, 2 attempts, 2 faults | 410 thousand |
| `running_lock` | `RunningLockKept` is violated | 3 guesses | |
| `threshold` | `ThresholdLocks` is violated | 2 guesses | |
| `stale_count` | `FailuresConsecutive` is violated | 3 logins, 2 overlapping | |
| `rotation` | `RotationInvalidates` is violated | 2 requests, no overlap | |
| `logout_race` | `LogoutEndsSession` is violated | 2 requests | |
| `role_trail_race` | `RoleTrailAccurate` is violated | 2 updates | |
| `generated_constraint` | `UniquenessScoped` is violated | 1 instance | |

What the passing runs show, beyond their names:

* The lockout columns are read, then written after a bcrypt comparison, by any
  number of logins at once. The writes still keep the pair consistent and bounded,
  and no wrong password is counted twice. That the failures counted are consecutive
  is not among it: overlap brings failures back that a success has cleared
  (`stale_count`), or lets one survive it.
* `create`, `update` and `restore` all check an address with a SELECT before
  they write. The check is not what keeps addresses unique: the index is, and
  `NoSpuriousError` shows that losing the race is still reported as a conflict.
* `serial` holds `LogoutEndsSession`, `RoleTrailAccurate`, `RunningLockKept`,
  `ThresholdLocks` and `FailuresConsecutive`, which `logout_race`,
  `role_trail_race`, `running_lock`, `threshold` and `stale_count` break: it is the
  overlap that breaks them. `SuccessResets` needs it too: two overlapping logins
  break it.
* An administrator is appointed by another account that is one. `AuthorityTraceable`
  does not accept an update of oneself, and `StatusTrail` asks a row on a deletion or
  restoration to name such an account as its sender. Neither asks it still to be one
  when the write happens: a demotion does not stop what the guard has let through.
* `NoSpuriousError` leaves one 500 without a fault: a PATCH with a null in it.
* `LockoutPolicy` is a refinement: without overlap the two columns do what the
  abstract policy does, with the deletion, restoration and deactivation of the
  account, password changes and refreshes going on around it.
* `changePassword` compares against a hash it read awaits ago. Two overlapping
  changes both succeed and the later write wins; `PasswordsKnown` shows that this
  never lets in somebody who knew none of the account's passwords.
* Paging by offset over a table that grows at its front shows entries twice but
  misses none, even when rows land late with an old timestamp. The exception is
  an entry that shares its timestamp with another one, which `findLogs` does not
  order; `WalkMissesNothing` makes it, and no document promises otherwise.
* The failed-login summary never counts more than clients were refused, and all
  of them once every row has landed.
* The tables, the columns and the declared guards on addresses are at every moment
  what the migrations table says (`HistoryHonoured`): on a database that
  `synchronize` made, with instances that race on one migration, and when the down
  of `ScopeEmailUniquenessToLiveRows` fails because an address is in use twice. Two
  objects are left out because they are not: a unique constraint with a generated
  name (`generated_constraint`) and the index on `lockedUntil` (section 4).
* `ServingSecretsOwn` knows the stand-ins of `configuration.ts` and `.env.example`, which
  say `change-in-production`. The secrets of `.github/workflows/ci.yml` are published as well, and
  production would accept them: no check tells them from a deployment's own.
* `Validate` comes after `Migrate`: an instance that is refused for its
  configuration has changed the schema already. `EveryInstanceSettles` holds all
  the same, since what it leaves is what every other instance wants.

### Bounds

`MaxAttempts` is 2: with it a counter has the three interesting values below,
at and above the threshold; three logins can lock, expire and lock again, and the
four of `serial` clear as well. `LockDuration` of 1 or 2 units gives a lock that runs and has run out within
the clock's bound. Two requests are enough for a lost update, three for two
writers and a check in between, or for two wrong passwords and a login or a change
that overlaps both. `MaxInFlight` bounds the requests in progress, `MaxTime` the
clock, `MaxFaults` the faults; every request is used once. In `trail` pages of one
row and three failed requests give a walk of up to three pages, with rows landing
before, between and after; its requests do not overlap, since their saves do. In
`deployment` two instances race on every migration, and two faults allow a crash
in the middle of a race, an outage that ends in a restart, and two reverts in a
row. Spare ids stand for the UUIDs the database generates. Requests and spare ids are symmetric where no
liveness property is checked.

A run of the API ends when every request has been dealt with; `Quiet` then stutters, so a
deadlock report means a request that cannot move, and deadlock is checked
everywhere.

### Fairness

The API needs none: what it promises is stated of what it does, and no step of a
handler waits for another request, so that each step of one in progress is enabled
until it is taken. The check for deadlock would show a request that is not. The `pg`
pool is left out: a handler holds a connection only during a statement, so a full
pool delays and cannot block.

`FairDeployment` assumes weak fairness of every step of an instance's start, of
its container's restarts, and of the end of an outage. `Release`, `Revert`,
crashes and hangs are not fair, and the faults are bounded: for good means once
they are over. An outage longer than the attempts makes a starting instance exit;
that it comes back is the container's `restart: unless-stopped`.

## 4. Findings

1. `running_lock` - `registerFailedLogin` writes the counter and lock computed
   from the row read at the start of the login. A login that read the row before
   the lock was set moves the expiry, or, from an older counter, removes
   the lock (`users.service.ts:316`; `SECURITY.md:79-80` says a running lock is
   not moved). The counts of overlapping failures are lost in the same way.
2. `threshold` - two wrong passwords that overlap are counted once, so reaching
   the threshold does not lock (`SECURITY.md:67-70`).
3. `rotation` - an older refresh token is accepted after a new one has been
   issued, because bcrypt does not reach the part in which they differ
   (`auth.service.ts:165`; `SECURITY.md:132`).
4. `logout_race` - a refresh in progress stores its hash after the logout
   cleared it (`auth.service.ts:174`; `README.md:450`, `SECURITY.md:130`).
5. `role_trail_race` - overlapping role updates record `from` roles that the
   account no longer had, or record a role change as a plain update
   (`users.service.ts:183`; `SECURITY.md:84-92`).
6. `stale_count` - a wrong login that read the counter before a good one cleared it
   writes the old count plus one, and may lock an account that has failed once since
   its last success (`users.service.ts:316`; `SECURITY.md:70-72`,
   `user.entity.ts:57`).
7. `generated_constraint` - migration 3 compares `pg_get_constraintdef` with
   `UNIQUE ("email")`, and PostgreSQL prints `UNIQUE (email)`. On a database that an
   early `synchronize` made the constraint with a generated name stays, the migration is
   on record, and deleted accounts keep their addresses
   (`1788825600000-ScopeEmailUniquenessToLiveRows.ts:28`, against its own comment at
   18-19). In development `synchronize` drops the constraint afterwards.

Met while modelling, without a run of their own since the lines show them:

* A good login that read a clean row does not clear (`users.service.ts:339`), so that
  a failure counted meanwhile survives the success (`SECURITY.md:72`). `SuccessResets`
  holds without overlap only; two requests of `stale_count` are enough to break it.
* The index that migration 2 creates on `lockedUntil` is not declared by the entity, so
  that `synchronize` drops it while the migration stays on record
  (`1788739260000-AddAccountLockout.ts:21`). Nothing depends on it but the speed of
  a lookup to come.
* A `MAX_FAILED_LOGIN_ATTEMPTS` or `LOCKOUT_DURATION_MS` that is no number becomes NaN,
  passes the validation, and nothing locks any more (`configuration.ts:49`;
  `config-validation.service.ts:11`, `README.md:191`). The modules of the API take a
  proper threshold for granted (`PolicyAssumption`).
* `SECURITY.md:104-110` says that self-service is attributed to the subject and that
  NULL means "never captured"; `logAuthEvent` attributes by address only and
  always leaves `performedBy` NULL (`audit.service.ts:78`).
* `SECURITY.md:58` calls the limit of the login route configurable by
  `THROTTLE_LIMIT`; the decorator in front of it has fixed numbers.
* The tests of `validateConfiguration` for missing values come to nothing, since
  defaults have taken their place, and outside production the published secrets
  are accepted. The default password `postgres` is refused in production
  only by being unset (`configuration()`), not by its value.
* `data-source.ts` says that the CLI and the application read the same
  environment variables; the CLI reads no `DB_SSL`.

## 5. Proofs

For every finite or infinite set of accounts and calls, every finite set of
requests, every duration and threshold and any number of faults:

* `AuthApiProofs`: `TypeCorrect`; `LockConsistent` (`LockMatchesCounter` and
  `LockBounded`); `AddressesUnique` (`LiveEmailUnique`); `AuthorityKept`
  (`AuthorityTraceable`); `ImplementsRegistry`, the refinement of `EmailRegistry`.
* `RequestProofs`: `NoSpuriousErrorKept`; `TrailHonest` (`AuditMatchesAnswer`);
  `TokensEarned` (`EveryTokenEarned`); `PasswordsKept` (`PasswordsKnown`);
  `CounterBackedKept` (`CounterBacked`).
* `StatusProofs`: `StatusesExplained` (`StatusTrail`).
* `SerialProofs`, when `MaxInFlight = 1` and with faults: `SessionsEnd`
  (`LogoutEndsSession`); `FailuresAreConsecutive` (`FailuresConsecutive`);
  `SuccessesReset` (`SuccessResets`); `ImplementsPolicy`, the refinement of `LockoutPolicy`;
  `ThresholdReached` (`ThresholdLocks`); `RunningLocksStay` (`RunningLockKept`).
* `RoleTrailProofs`, when `MaxInFlight = 1` and as long as there has been no fault:
  `RoleTrailLeads` (`RoleTrailAccurate`).
* `AuditTrailProofs`: `TrailTyped`; `ImplementsEvidence`, the refinement of
  `EvidenceLog`, for any number of overlapping requests.
* `ReaderProofs`, for any size of page and window and any number of overlapping
  requests: `NothingMissed` (`WalkMissesNothing`); `SummaryCounts` (`SummaryExact`).
* `DeploymentProofs`, for any instances, environments, databases and attempts:
  `DeploymentTyped`, `HistoryKept` (`HistoryHonoured`), `AddressGuardKept`
  (`AddressesGuarded`), `SchemaFitsServers` (`ServedSchemaFits`), `SecretsOwn`
  (`ServingSecretsOwn`), `NoRestartByOutage` (`OutageRestartsNobody`).

Assumptions: the named `ASSUME`s of the modules. `PolicyAssumption` is a sound
configuration of lockout and tokens. `SeedAssumption` says that the starting table
has unique live addresses and matching lockout columns, and nothing in the rows
that do not exist yet, which is what an empty table has and what the theorems
then preserve. `CallsAssumption` is what `ValidationPipe` and `ParseUUIDPipe` let
through, a null in a PATCH included. `BoundsAssumption` makes the set of requests finite, for every property
that counts. `TrailAssumption` gives pages and window the ranges of their
DTOs. `DeploymentAssumption` takes the databases to be ones that the code can have
left. `NoneIsNoValue` and `NullIsNoValue` keep a missing value and a
null in a body apart from values and from each other.

### The table and the guards

`TypeOK` is not inductive: an UPDATE uses `req[r].uid` as an
index and `req[r].at` as a time, so the invariant `Typed` adds `WellFormed`: a
request that waits for a write knows its account, a guarded or refreshing one
has a token, a handler is only at the steps of its own kind of call, and no
handler holds a time later than `now`. One lemma per way
of moving a request (`GotoOK`, `RememberOK`, `ReplyOK`, ...) shows `WellFormed` kept, and
`UsersServiceKept`, `AuthServiceKept`, `ArriveKept`, `GuardKept` and `FaultKept` go
through the actions. Each of them also shows two facts about the step:

* `Effect`: the table is unchanged or one row is replaced by a `Lawful` one, that
  is, a row that does not collide in the index, whose lockout columns match, whose
  lock is bounded and which is an administrator's only by a promotion that somebody else
  sent;
* `Entitled`: a request that acts as an administrator keeps its call and account,
  and one that begins to is sent by an account that is an administrator now.

From then on the safety theorems need not know the actions: they follow from
`Effect`, `Entitled` and `Typed` alone. `LockBounded` needs `req[r].at <= now` from
`WellFormed`; `AuthorityTraceable` needs that only a guarded call waits at a write,
since the columns of an interrupted UPDATE come from the body of the call. It is
inductive because a row changes its role only by an update that acts as an
administrator: one that an account sends for itself has that account among the
administrators already, so that an appointment by another is behind it.

### What a handler knows

The answers and the trail depend on what a handler has learned before a step,
which no property of the table says. `Informed` in `RequestProofs` is, for every
request, `Knows(r)` - what its steps so far have established: at `store` of a login
there is a success row, a login that waits to count has not been answered, a
password change that waits to write has compared its password - and `Honest(r)`, the
relation of answer and rows. `NextCases` sorts the steps of `Next` by what
they do to one request, so that each theorem treats a step once. On top of it:

* `NoSpuriousError` is a part of `Honest`: a 500 has a fault or a null behind it, and
  the body of a call does not change.
* `EveryTokenEarned` needs no more: pairs are only added by a `StoreTokens`.
* `PasswordsKnown` adds `Present`, that no account of the start becomes a row that
  does not exist: `changePassword` reads a password that is known, and what it has
  verified stays known however old its snapshot grows.
* `CounterBacked` becomes inductive as `Backed`: the counter in the row, and the
  counter in every snapshot that a login may still write from, are at most the number
  of wrong logins that have ended; a login about to count is not among them and
  joins them as it writes its snapshot plus one. Overlaps lose increments, so the
  bound is kept and need not be attained; and no clearing lowers it, since a snapshot
  may be older than the clearing, so it says nothing of consecutive failures.
* `StatusTrail` adds `TargetsOK`, that a handler about to delete or restore has the id
  of a row that exists, and follows from `Explained`, which asks for the rows one
  status at a time and is inductive with it. A row names the `sub` of the token it was
  sent with (`SentBy`), that account has acted as an administrator, and
  `AuthorityTraceable` says that it was one or had been appointed
  (`SenderAppointed`).

### Without overlap

`SerialInv` says that at most one request is in flight (`Alone`), that what it has
read is still what the table says when it acts on it (`Steady`), and that ids
without a row have no failures and no lock (`Blank`). With it the stale writes of
the findings are impossible, and a step maps to the step of `LockoutPolicy` of the
same name or to a stutter. The theorems name `MaxInFlight = 1` as their assumption:
the findings are its counterexamples.

* `RunningLockKept` follows from `Steady`: a login that waits to count has judged
  the row that the table still has, and its lock had ended.
* `FailuresConsecutive` and `SuccessResets` are about one step each, but need the same
  of it: what is written is the counter of the table plus one since the snapshot is
  still the row (`Steady`), and a login that skips the clearing has read a row
  without failures, which is still the one in the table (`LoginAccepted`).
* `ThresholdLocks` speaks of accounts that only wrong passwords were given for. Its
  invariant `Tallied` follows such an account from the first guess on, while others
  are still in progress (`OnlyWrong`): it has reached the threshold, or its counter
  is at least the number of refusals. Nothing takes from the counter, since clearing
  needs the right password; and a refusal is either the count itself
  (`CountAdds`) or was made during a lock, which `LockMatchesCounter` ties to the
  threshold (`RefusalRecorded`). `NextKeeps` says that a handler never changes its
  account, or a login what it has read of it, so that an account of which this is
  true was one before.
* `RoleTrailAccurate` speaks of moments when nothing is in progress, but between the
  UPDATE of a role and its row the trail lags behind. `BooksRight` says that the rows
  of an account lead to the role it is `Held` to have: the one before the write while
  the row is owed (`Owes`), the one in the table otherwise. `PatchSteady` gives that
  `update` reads back the role it wrote. A row is new when it is paid, so that
  it adds one to a cardinality on each side, whichever roles it names (`RowBalances`).
  After a fault a row may be owed for good, hence `faults = 0`.

### The trail and the deployment

`Sound` in `AuditTrailProofs` says that a save in flight and an entry are of rows
that were handed over, that no row has two saves or a save and an entry, and that no save
began later than now; `Informed` gives that a step hands over
rows of its own that are new. Each row has at most one entry. Every step then is a `Pass`, a `Hand`, a `Keep` or a
stutter of `EvidenceLog`.

The reader's theorems count, so `ReadableAlways` shows first that the trail and the
table stay finite: a step hands over finitely many rows (`TrailGrowsFinitely`), and
the table has no more entries than the trail has rows (`EntriesFinite`).

* `WalkMissesNothing` becomes inductive as `WalkSound`: an entry that no page has
  shown the client, and that shares its timestamp with none, is still in the table
  and has at least as many newer entries before it as the pages read so far could
  hold (`Unreached`). Rows that land only add to the newer ones (`LandingKeepsWalk`).
  The next page either reaches the entry and shows it, or ends before it
  (`ReadPageKeepsWalk`); and behind the last page there is nobody left, since the
  newer entries and the entry itself are at most the total (`NobodyBehindTheLast`).
* `SummaryExact` needs `LoginTold`: the failure rows of logins are exactly those of
  the logins answered 401 or 403, one each. The map from the entries that
  the summary counts to the requests they stand for is then one to one into the
  refused logins, and onto them once every row has landed.

`DeploymentInv` adds to the type invariant `Sound`, the conjunction of the two
properties of the schema with `WellBuilt` (no column without its table, without which
a migration's effect could be undone by another's), and `Placed`, what each phase of
a start has established: the secrets that let it through, and, past `Migrate`
or `Synchronize`, that the schema fits. No action but `Revert` takes that away, and
`Revert` runs when nobody serves.

### Model-checked only

* `EveryInstanceSettles`: liveness under fairness and `ENABLED` are out of the
  prover's reach;
* that the theorems of `SerialProofs` and `RoleTrailProofs` need `MaxInFlight = 1`,
  and the findings in general: a counterexample is a run.

No `RECURSIVE` operator is used.

## 6. Not modelled

* Rate limiting. Counting, windows, blocks and keys are those of
  `@nestjs/throttler`; `src/` hands it four constants and a decorator per route, so a
  model would be one of the library.
* Swagger, serialization and response shapes: no state.
* String validation in the DTOs. Its result is `CallsAssumption`.
* The reading routes of users and profile, which change nothing, and the filter of
  the trail by `userEmail`.
* bcrypt rounds, CORS, token lifetimes and the `DB_PORT` check: no decision that a
  model would show. The dummy hash and the timing of an unknown address.
* The full health check with its heap limit, and the graceful end on SIGTERM: a
  crash leaves a superset of its states.
* Rows of accounts that are missing from the trail after a crash:
  `SECURITY.md` gives that up, so nothing is there to hold.
