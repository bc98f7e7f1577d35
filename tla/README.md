# CodeDefender: TLA+ models, checks and proofs

CodeDefender is a NestJS service over PostgreSQL (Prisma), Redis (Bull queues) and an
in-memory cache. Its own logic is small; what makes it hard to get right is that every
operation is a chain of `await`s over two or three stores with no transaction around
them. Requests, queue handlers and timers interleave at every one of these awaits, any of
them may fail, and the process may die between two. The modules here model exactly that:
**one action per await**, with the guard, the early returns and the error path the source
has there.

## 1. The system

| Component (under `src/src/`) | State it keeps | Operations | Interacts with | What makes it correct |
|---|---|---|---|---|
| `scans/` scan pipeline | rows of `scans` (status, results, completedAt), jobs of queue `scans` | create, remove, updateScanStatus, handleScan | database, Bull, audit log | every accepted scan ends, one handler per scan, row and job agree, status only moves forward |
| `schedules/` | rows of `schedules`, repeatable jobs and trigger jobs of queue `schedules` | create, update, remove, triggerScan, handleTriggerScan | database, Bull, audit log, scans | repeatable jobs mirror the active rows; due jobs are consumed |
| `auth/` sessions, tokens | rows of `sessions` (isRevoked, expiresAt), signed JWTs outside | login, refresh, logout, logout everywhere, list | database, audit log | a revoked or expired session refreshes nothing; the list shows what can be used |
| `auth/passwordless/` | rows of `passwordless_tokens` | create, verify | sessions | a link is used once, and not after it expired |
| `auth/` sign-up, `users/` create | users, OAuth links, default roles, first workspace | register, findOrCreateOAuthUser, create | interactive transactions and a second connection | all or nothing; one account per identity |
| `roles/`, `permissions/` | `user_roles`, cached answers | assignRole, removeRole, changeRole, userHasPermission | cache, audit log | a change leaves no partial state; cached answers follow the rows |
| `plans/`, `billing/` | `users.plan`, cached plans, `usage_logs` | checkUsageLimit, getUserPlan, trackUsage, updateUserPlan | cache, all resource counts | limits hold up to the concurrency; cached plans follow the row |
| `scans/scan.service.ts` second scan service | rows of `scans`, `usage_logs` | createScan, createAdvancedScan | plans, their limits and features | no advanced scan without the feature, no scan beyond the limit |
| `workspaces/`, `repositories/`, `users/` | their rows and the foreign keys between them | create, update, remove, addUser, removeUser | audit log | no dangling or silently unlinked rows; at least the owner stays |
| guards (`permissions/guards`, `plans/guards`, `common/guards`, `auth/guards`) | `request.user` | canActivate | permissions, plans, the rows of the caller | an operation is allowed exactly when its metadata says so |
| `audit-logs/` | `audit_logs` | create, findAll | everything | one row per completed operation |
| controllers | none | the decorators and guards of each route | guards, services | the declaration of a route is what its guards enforce |
| `analytics/`, DTOs, `prisma/`, seeds | none of their own | queries, validation, wiring, seeding | | not modelled |

The behaviours that are hard to test are listed one by one, with their lines, in
`PROJECT.json` under `hazards`.

## 2. Modules

| Module | Models | Used by |
|---|---|---|
| `Scans` | `scans.service.ts` create/remove/updateScanStatus, `scans.processor.ts` handleScan, Bull's queue `scans` | `MCScans`, `ScansProofs` |
| `ScanLifecycle` | the abstract specification: what a client that polls `GET /scans/:id` may see | `Scans` (`INSTANCE ... WITH redelivered <- stalls`) |
| `Schedules` | `schedules.service.ts` create/update/remove, `schedules.processor.ts`, Bull's repeatable jobs | `MCSchedules`, `SchedulesProofs` |
| `Sessions` | `tokens.service.ts`, `passwordless.service.ts`, login, refresh and logout of `auth.service.ts`, `users.service.ts` remove, the foreign keys between them | `MCSessions`, `SessionsProofs` |
| `SessionGate` | the abstract specification: what a refresh token promises | `Sessions` (`INSTANCE ... WITH` the mapping `GateOf`, `AskOf`, `TargetOf`) |
| `Tenancy` | `workspaces.service.ts`, `repositories.service.ts`, create and remove of `users.service.ts`, and the foreign keys of `schema.prisma` between their tables | `MCTenancy`, `TenancyProofs` |
| `Guards` | what a route may declare and what every guard reads out of it: metadata, checks and their order, identifiers in the request, answers for given facts; no state | `Routes`, `Access` |
| `Routes` | the declarations of the controllers, one operator each | `MCAccess` |
| `Access` | one request on its way through the guards of its route, check by check | `MCAccess`, `AccessProofs` |
| `Accounts` | `register` and `findOrCreateOAuthUser` of `auth.service.ts`, create, update and remove of `users.service.ts`, with their transactions | `Roles`, `AccountsProofs` |
| `Roles` | `roles.service.ts` assignRole, removeRole, changeRole and the cache of `permissions.service.ts`, composed with `Accounts`, whose rows they share | `MCRoles`, `RolesProofs` |
| `Plans` | the cached plan, features and limits of `plans.service.ts`, `billing.service.ts` updateUserPlan, `scan.service.ts` | `MCPlans`, `PlansProofs` |
| `ScansProofs`, `SchedulesProofs`, `SessionsProofs`, `TenancyProofs`, `AccessProofs`, `AccountsProofs`, `RolesProofs`, `PlansProofs` | theorems and their proofs; `AccountsProofs` holds the lemmas about accounts that `RolesProofs` builds on | |
| `MCScans`, `MCSchedules`, `MCSessions`, `MCTenancy`, `MCRoles`, `MCPlans` | symmetry sets and the initial tables for TLC | the `.cfg` files |
| `MCAccess` | the routes, requests and states of the database TLC enumerates | `AccessPipeline.cfg` |

### Scans: state and actions against the code

* `status`, `results` are the columns of a row (`results` stands for both `completed_at`
  and `results`, which are only ever set together). `"absent"` and `"deleted"` are the row
  before the insert and after the delete.
* `createPc`, `removePc`, `removeId`: how far a POST or DELETE request has come. Each
  element of `Scan` is the scan one POST creates, so the number of POSTs is `Scan`'s size.
* `job`, `lock`, `stalls`: the queue. Bull takes a waiting job under a lock (`Take`),
  moves it to completed or failed when the handler's promise settles (`Ack`), and puts an
  active job without a lock back up to `MaxStalledCount` times (`Stalled`). The code sets no
  options, so `attempts` is 1 and an error is final.
* `hscan`, `hstep`, `hgoal`: the handler's position. `updateScanStatus` is two awaits
  (`UpdateFind`, `UpdateWrite`) and is entered three times, heading for RUNNING, COMPLETED
  or (from the catch block) FAILED; `hgoal` says which.
* `HandlerFault` is any await of the handler that rejects; `CreateFault` and `RemoveFault`
  are a rejected await or a dead process in a request, which leave the same state.
* `Crash` is a process that dies in the handler; `LockExpires` a handler that is still
  running when its lock is gone (a blocked event loop).
* `lapses` is a history variable. It records *which* failures hit a scan, so that a property
  can say exactly which failure excuses which inconsistency.

### Schedules: state and actions against the code

* `row` is the row (present, active, cron). `repeatable` is the set of repeatable jobs,
  pairs of schedule and cron, since Bull keys them by name, jobId and cron: adding one twice
  is idempotent, adding it under another cron makes a second one.
* `req[r]` is a request between two awaits: `list` and `unkey` are the two awaits of
  `removeScheduleFromQueue`, `update`/`delete` the row write, `add` is `addScheduleToQueue`,
  `audit` the audit row. What was read from the row (`wasActive`), the body (`dto`) and the
  job about to be removed or added (`key`) stay as they were read, which is what makes an
  overlap dangerous.
* `due` counts trigger-scan jobs; `HandleTrigger` is the consumer, enabled only if
  `ProcessorWired`. In the repository it is not: no module provides `SchedulesProcessor`.
* `overlapped` and `failed` are history variables: the schedules two requests worked on at
  once, and those a request failed on.

### Sessions: state and actions against the code

* `sess[s]` is a row of `sessions` (`rowExp` is `expires_at`) with `jwtExp`, the expiry of the
  JWT that names it, which no row holds; `link` is a history field, the magic link it came
  from. `link[l]` is a row of `passwordless_tokens` likewise; its `jwtExp` is set when the
  signed link is mailed. `revoked` and `used` are the two flags. Ids are fresh: a row is
  `"absent"`, then `"present"`, then for ever `"deleted"`.
* `config` is REFRESH_TOKEN_EXPIRATION: its value, and whether it has a unit
  (`d`, `h`) `generateRefreshToken` parses. The JWT library understands every unit.
* `req[r]` is a request between two awaits. `login` inserts the session and then its audit
  row, `verify` and `oauth` (an account already linked) the other way round; `refresh` goes
  through `find`, `expire` or `touch`, and `audit`; `logout` and `logoutAll` through `revoke`
  and `audit`. Prisma leaves an undefined field out of a `where` clause: a logout with a JWT that has no
  `jti`, that of a magic link, revokes the sessions of everybody (`LogoutByLink`), and a verification with
  an access or refresh token, which names no link, finds any unused link of its user (`VerifyByToken`). `reply` is the answer on its way to the client.
* `users`, `audited`: the rows of `users`, and those an audit row refers to. `RemoveUser` is
  refused by the latter (`ON DELETE RESTRICT`) and takes sessions and links with it
  (`ON DELETE CASCADE`). An insert for a deleted user is refused and ends the request.
* `Fault` is an await that rejects, or a process that dies, at any step of any request.
  `held`, `loggedOut`, `raced` and `broken` are history variables.

### Tenancy: state and actions against the code

* `users`, `ws[w]`, `repo[p]`, `member[w][u]` are the rows of `users`, `workspaces`,
  `repositories` and `user_workspaces`; `used` stands for the rows of `scans` and `schedules`
  that refer to a workspace and a repository. The foreign keys are in the guards and effects of
  the deletes: RESTRICT refuses (`Removable`, `RemoveWrite`, `RemoveRepositoryWrite`), CASCADE
  takes memberships along, SET NULL clears `ws[w].repo`. `repositories.owner_id` is a plain
  column, so nothing in the database protects it.
* `net` is the audit log of memberships, additions minus removals, and `deleteLogged` the
  `DELETE_WORKSPACE` rows. `audited` are the users an audit row refers to, since their login.
* `req[r]` is a request between two awaits: `authority`, `lookup`, `membership` are the reads of
  addUser and removeUser, `links` the read of `RepositoriesService.remove`, `log` the audit row
  that `WorkspacesService.remove` writes *before* it deletes, `write` the write of the row,
  `audit` the audit row after it.
* `RemoveRepository` begins at the check for links: what `findOne` and the checks of role and owner read
  before is not used again, and any caller may pass them (see below).
* An UPDATE writes the field `repositoryId` only if the body has it (`Keep` when not). The
  transaction of `UsersService.create` is one action, `CreateUser`.
* The global role of a caller is left out: `PATCH /users/:id` can change it at any moment, so
  any user may send any request; the checks inside the services are all there. The
  caller is the `sub` of the access token, which `RolesGuard` attaches to the request.
* `Fault` is an await that rejects, or a process that dies, at any step. `held`, `late`,
  `silent` and `spared` are history variables: what a property names as an excuse.

### Guards, Routes, Access: state and actions against the code

* `route` is a declaration: a record of the metadata its decorators set and the guards they
  add, built by operators named like the decorators (`RequiresPermission`, `CheckLimit`,
  `Authorize`, ...), so that `Routes` reads like the controllers.
* `Chain` is the order the guards run in. `PolicyGuard`, three guards in a row, is an
  `APP_GUARD` (`app.module.ts:94`), and Nest runs those before the guards of a controller.
  `registered` is FALSE where a guard is mounted without `AppModule`, as in
  `docs/overview/testing-strategy.md:183`.
* `todo` are the checks still to be made; `Turn` takes them guard by guard, and in a guard in the
  order of `Rank`. One action per kind of check; each sees the `facts` of its moment, or of
  an earlier one where the service answers from a cache (`told`).
* `user` is `request.user`: nobody, the `{id, email, role}` of `JwtStrategy`, or the payload
  with its `sub` that `RolesGuard` puts there. `Accepts` says which guard recognises which.
* `Extract` is the way each guard looks for an identifier: other places and spellings in another
  order for every guard.
* `Fails` is a lookup that rejects: the error refuses the request, except where the guard
  catches it and reads a role as not SUPER, or a limit as not reached. `Change` is any other
  request that changes the caller's rows between two checks.

### Accounts and Roles: state and actions against the code

* `user`, `link`, `assigned` are the rows of `users`, `oauth_providers` and `user_roles`; `owned`
  and `member` those of `workspaces` and `user_workspaces`. `tx[r]` is what the open transaction of
  a request has written and nobody else sees; `Commit` moves it to the rows, `Rollback` drops it.
* An insert waits for an open transaction that has inserted the same unique key (`OpenEmail`,
  `OpenIdentity`, `InsertWaits`), a delete for one that has deleted the same row (`Locked`);
  `TimeOut` ends a transaction that waits, as Prisma's timeout or the database's deadlock
  detection does.
* `AuditLogsService` and `TokensService` have a client of their own. What they insert refers to the
  user through a foreign key that sees committed rows only: `Visible`.
* `task[t]` is a request to `RolesService` or `PermissionsService`: `find`, `write` for
  assignRole and removeRole; `find`, `drop` for each row read, `insert` and `commit` for changeRole;
  then `audit` and the clear (`members`, `clear`), which changeRole awaits *inside* its transaction;
  `roles`, `owner` and `set` for a look into the cache.
* Without a workspace changeRole's `where` filters nothing (`InScope`), and the unique key of a
  global assignment has a null in it, which Prisma's `findUnique` refuses: assignRole and
  removeRole without a workspace answer 400 always (`Find`).
* `cache` holds the lists (`user-permissions:`) and the answers (`permission:`) with what they were
  computed from. `trace`, `others` and `excuse` are history variables.

### Plans: state and actions against the code

* `plan[u]` is the column of `users`, `cache[u]` its cached copy; `scans[u]` counts today's scans in
  the workspaces `u` owns, which is what `checkUsageLimit` counts, for the caller.
* `look` stands for every read of the plan that changes nothing but the cache. `advanced` looks
  up the plan for the feature and once more for the limit, `Count` reads the count, `Create` makes
  the scan, `Track` writes the usage log and swallows its errors. `scan` checks nothing, as the code.
* `update` is updateUserPlan: `find`, `write`, `clear`, `audit`.
* `Fault` is an await that rejects. While the limit is checked it lets the scan through
  (`plans.service.ts:163` fails open; the option to fail closed has no effect).
* `WriteUser` is `UsersService` changing or removing the row, `ScanUnchecked` a scan of
  `ScansService`, which checks no limit, `DeleteScan` its delete, `Midnight` the start of the day the count begins at.
  `trace`, `excuse`, `had`, `granted` and `free` are history variables.

## 3. What the runs check

| Run | Instance | Shows |
|---|---|---|
| `scans_faults` | 1 scan, 2 handlers, 2 DELETEs; 2 crashes, 2 failing awaits, 2 expired locks; under `FairSpec`; 0.6 million states | six invariants, the refinement of `ScanLifecycle` and `EveryScanSettles` |
| `schedules_faults` | 2 schedules, 2 crons, 2 request slots, 4 requests, 1 failure; 0.5 million states | `RowAndQueueAgree`, `NoStaleJob`, `AtMostOneJob` |
| `schedules_overlap` | 1 schedule, 3 requests, no failure | **violated**: `DeletedScheduleHasNoJob` |
| `schedules_never_run` | 1 schedule, consumer not wired, under `FairSpec` | **violated**: `DueTriggersRun` |
| `sessions_faults` | 2 users, 2 sessions, 1 magic link, 2 request slots, 4 requests, 1 failure, 3 instants, lifetimes 1 and 3 with and without a parsed unit; 2.9 million states | six invariants and the refinement of `SessionGate` |
| `sessions_link_twice` | the same without failures | **violated**: `LinkLogsInOnce` |
| `tenancy_faults` | 2 users, one of them there from the start, 1 workspace, 1 repository, 2 request slots, 5 requests, 1 failure; 1.2 million states | five invariants and action properties, and types |
| `access_pipeline` | every declaration of the controllers and six that only `docs/overview/authorization.md` shows, with and without the global guards; 5 requests, 9 states of the database, 1 change, 1 failing kind of lookup; windows declared in UTC on a server in another zone; 1.4 million states | two invariants and types |
| `access_documented` | the routes whose controllers describe their answers, with the global guards, nothing changes or fails | **violated**: `DocumentedAnswers` |
| `roles_faults` | 2 users, one there from the start, 1 OAuth identity, 2 roles, 1 workspace, 2 slots for sign-ups, 2 for roles and permissions, 2 requests, 1 failure, 2 writes from outside; 0.85 million states | four invariants and types |
| `roles_registration` | the same without failures and writes from outside | **violated**: `RegistrationSucceeds` |
| `plans_faults` | 2 users, one of them an owner, 2 plans, 2 slots, 3 requests, 1 failure, 1 other event (a write of the user's row, a scan deleted, midnight) | four invariants and types |

Every passing run reaches the interesting cases: two handlers of one scan (after an
expired lock), and after a second one neither of them with the lock, a job requeued and then failed by the stall limit, a row deleted under a
running handler, a PATCH that changes the cron while another one deactivates, a logout between the read and
the answer of a refresh, a user deleted under a login, a row that expires before its JWT, an
addUser and a removeUser of the same member whose audit rows come in the other order, a
workspace linked between the check and the delete of its repository, a role given between the
reads of a permission list and its caching, two changeRole that wait for each other, a plan cached
after the clear that was meant for it, two scans that pass the same check of the limit. Each property
has a mutant, a plausible bug written beside the definition it replaces, that TLC finds.

**Bounds.** `MaxCrashes`, `MaxFaults`, `MaxLockLosses`, `MaxRequests` and `MaxTriggers` only
bound how often the environment acts. One of each is enough for the conditions the properties
name (each names the single failure that excuses it), two of everything else for every
pairwise race; the theorems cover the rest. `scans_faults` has two of each, so that a failure can meet
another's leftovers, and one scan: scans share nothing but the handler slots, and the pairs of scans are
what the theorems are about. The liveness property is checked in the same run and so meets
all of these failures; the run therefore uses no symmetry. The clock of Sessions has three instants, the
default lifetime of a row and the life of a link are one unit each, so that the JWT can expire
before its row and, with an unparsed lifetime of three, after it. `Tick` lets a request see at
most one unit go by: a request lasts far less than a quarter of an hour. `Access` follows one request,
since guards share no state; its states of the database are chosen so that every check is decided
both ways, and the hours so that both ends of a window and an overnight one occur, and
windows that the server's clock reads rightly and wrongly both ways. `roles_faults` has
two requests at a time because every excuse of its properties names one overlap; `plans_faults` a third,
so that two scans can meet a change of the plan. Symmetry is used only where no liveness is checked.
`CHECK_DEADLOCK FALSE` because a system whose clients have sent all their requests stops.

**What the properties say.**

* `NoStrandedScan`: a scan shown QUEUED or RUNNING has a job that will run. The four ways
  out are named: the request died before `queue.add`, the FAILED write failed, a lock expired
  under a live handler, the stall limit was passed. In each of these the code leaves the scan
  as it is for ever: there is no sweep.
* `QueueAgreesWithRow`: completed job = COMPLETED row with results and an audit row, failed
  job = FAILED row.
* `FailedKeepsResultsOnlyAfterLapse`: the SCAN_COMPLETED audit is inside the `try`, after the
  COMPLETED write. When it fails, the catch block overwrites a finished scan with FAILED.
* `OneHandlerPerScan`: whoever works on a scan holds its lock, unless the lock expired under them; and at
  most as many handlers work without one as locks have expired. So a crash and redelivery alone never
  puts two handlers on one scan, and an expired lock only one beside the new one.
* `OneCompletionLogPerDelivery`: a scan is logged as completed at most once for each delivery.
* `ImplementsLifecycle`: a polling client sees QUEUED, RUNNING, COMPLETED or FAILED in that
  order, and a deleted scan never comes back. Only a redelivery may go back.
* `EveryScanSettles`: whatever fails, crashes or is deleted on the way, every inserted scan reaches a final
  status for good or is stranded (`Stranded`) in one of the four ways of `NoStrandedScan`: the only scans
  that hang are those a failure named there has left behind.
* `RowAndQueueAgree`, `NoStaleJob`, `AtMostOneJob`: as long as the requests for a schedule do
  not overlap, its repeatable job is the one its row calls for; a failure half-way can lose
  the job but leaves no stale one; and there are never two.
* `NoRefreshAfterLogout`: after a logout was answered with success, no refresh of a session it
  covers that begins later is granted. A refresh already past its read is: the code answers
  from the row it read, two awaits later.
* `ImplementsGate`: a session is a gate that opens once and, closed by logout, expiry or
  deletion, never opens again; a refresh is granted only if it found its gate open.
* `HeldSessionPersists`: a session a client can use is not deleted under it, since every login
  writes an audit row before it answers. The other side of it: a user who ever logged in, or
  was sent a link, cannot be deleted by `UsersService.remove`, which answers 400.
* `TwoLoginsOnlyByRace`, `SpentLinkLogsIn`: a magic link logs in twice only through the
  race between its two awaits, and is spent for nothing only through a failure.
* `OrphanSessionOnlyByFault`: `login` creates the session before its audit row; a session
  nobody holds is left only where a call failed in between.
* `RowExpiresFirstOnlyIfUnparsed`: the configured lifetime comes *on top of* the seven days
  of the row ("Default to 7 days if parsing fails", `tokens.service.ts:47`), so with `d` or
  `h` the JWT always dies first, and the branch that revokes an expired row only runs with
  another unit. It also means that `getUserSessions` ("Get all active sessions",
  `tokens.service.ts:179`) lists sessions that can no longer refresh, up to a week long.

* `OwnersStay`: the owner of a repository or of a workspace is a row of `users`. For repositories
  no foreign key says so; it holds because a caller has logged in, which leaves an audit row, which
  forbids to delete the user. The mutant that drops the audit rows with the user breaks it.
* `LinkLostOnlyByRace`: `RepositoriesService.remove` clears a link only if the workspace was
  linked after its check.
* `AuthorityHeld`: a membership changes only for a caller who was owner or admin at some moment of
  the request. At the moment of the write the caller may no longer be one: the check is one to
  three awaits old by then.
* `MembershipMatchesLog`: additions minus removals in the audit log are the membership, once
  rows still to be written are counted, however the calls interleave; a failure between write and log
  (`silent`) is the only excuse, next to the first admin of a new workspace, who is never logged.
* `DeletionMatchesLog`: `DELETE_WORKSPACE` is logged before the delete, so a workspace may be
  logged and there; only a delete that was refused by a scan or schedule, or died, leaves it so.

* `AdmittedOnlyIfEntitled`: a handler runs only for a caller who met each requirement the route
  declares at some moment since the request began (roles and plans as of a cached answer), or was
  SUPER where the declarations exempt them (all of a route's declarations, where `UnifiedAuthGuard` judges
  them). A limit that could not be checked counts as not reached. A time window is meant in the zone it
  declares (`workspace-admin.controller.ts:98-103`: 9 to 17, UTC; `HoldsWindow`), but both guards ignore the
  zone and ask the server's `getHours()`: the one way to get in outside it is that the two clocks
  are on different sides of the window (`Misread`). Where the server's zone is the declared one, nothing is
  misread; elsewhere, as in the runs, callers are admitted outside "business hours (9-17 UTC)".
* `RefusedOnlyForCause`: the other direction, while nothing changes and nothing fails: a refused
  caller lacked something (`Lacking`) that a guard of the route asks for and does not spare a SUPER
  caller, no guard had said who was calling (`Unrecognised`), or the request came within the
  declared hours and the server's clock said otherwise (`Misjudged`). The two are mirror images; where a request
  names two workspaces, different guards may judge in different ones, and both are counted.
* `OAuthLoginStaysLinked`: an identity whose first login was answered stays linked to an account that
  stays, through concurrent first logins of the same identity, links made and accounts deleted between the
  awaits: the unique key lets one login win, and the audit row each login writes before it answers
  forbids to delete the account. The mutant that writes none breaks it.
* `CacheAgrees`: a cached list of permissions follows the rows. The ways out are named:
  computed before a change and cached after its clear, cleared by changeRole before its commit, a list
  for a workspace the user is no member of, a clear that failed, and the writes that clear nothing. A
  cached answer follows nothing, since no clear reaches the `permission:` keys: every write excuses it
  (`kept`), and the property says something about lists only. Entries lapse after `CACHE_TTL`, 300, which
  cache-manager 6 reads as milliseconds; `Expire` may come at any moment.
* `ChangeReplaces`: after changeRole the user has in that scope the new role and what was
  inserted since the old ones were read, nothing else. Two concurrent changes leave both new roles.
* `OutcomeMatchesRows`: a refused changeRole has changed nothing; assignRole and removeRole may answer
  400 after the write, only if the audit row or the clear failed.
* `PlanCacheAgrees`: the same for the cached plan, where an overlap, a failed clear and
  `UsersService` are the excuses.
* `OvershootIsBounded`: check and insert are two steps, so concurrent scans pass the limit, but
  by less than the number of requests at a time; scans made without a check of their owner's count
  (another caller's, a failed check, `ScansService`) are counted apart.
* `AdvancedNeedsFeature`: whatever fails, an advanced scan is made only for a user who has had a plan
  with the feature since the start: errors open the limit, never the feature.
* `OutcomeMatchesWrites`: what updateUserPlan and the scans answer is what they have written.

**Fairness.** Weak fairness of what the event loop and Bull keep doing: a request that was
started goes on to its answer, a free slot takes waiting jobs, a handler goes on, the
stalled-job check recurs, a registered consumer takes due jobs. No fairness is assumed of
clients, failures, crashes or the clock. `HandleTrigger` is fair only where it can happen.

**Disagreements found.** `schedules_overlap`: "Remove from queue if active"
(`schedules.service.ts:243`) does not hold when a request that adds the job overlaps the
DELETE: the repeatable job outlives its row. `schedules_never_run`: the README's "Set up
recurring scans" (`src/README.md:13`) does not happen, the consumer is in no module's providers.
`sessions_link_twice`: a magic link "can only be used once" (`passwordless.service.ts:175`,
"Single-use tokens" in `docs/overview/authentication.md:50`), but the find and the mark are two
awaits, and the mark does not ask whether the link is still unused.
`access_documented`: `scans.controller.ts:23-25` documents 201, 403 and 404, and `roles.controller.ts:36` a
201, but in the application a valid token is answered with 401 there: `PolicyGuard` is global
(`app.module.ts:96`) and looks for `request.user` before the guard that sets it has run.
`roles_registration`: "Registration successful" (`auth.controller.ts:51`) is never the answer. The audit row
`register` writes inside its transaction goes over another connection, where its foreign key finds no
user, and the transaction is rolled back; a first OAuth login without an account for its email ends
the same way, so accounts come only from `POST /users`.

Two more are named by passing properties, because they happen in races or on some servers only: a
repository can be deleted under a workspace linked after the check for links, in spite of "Cannot delete
repository that is linked to workspaces" (`repositories.service.ts:194`; `LinkLostOnlyByRace`), and the
declared zone of a time window is ignored (`Misread`).

## 4. What is proved

The eight proof modules prove their 44 listed theorems for any sets of scans, workers, requests,
schedules, crons, users, sessions, links, workspaces, repositories, emails, identities, roles and
plans, any tables and any bounds, from the assumptions of the modules alone
(`ScansAssumption`, `SchedulesAssumption`, `SessionsAssumption`, `TenancyAssumption`, `GuardsAssumption`,
`AccessAssumption`, `AccountsAssumption`, `RolesAssumption`, `PlansAssumption`): sentinels are not elements
of the sets, bounds are naturals, tables are functions of the right type. Slots are finitely many where
a property counts them (Tenancy, Plans), and so are the role assignments at the start, because
changeRole deletes the ones it has read one by one.

* **Scans, first layer (`BaseInv`)**: types, and which request, job, lock and handler states
  go together. A busy handler holds its lock unless it expired, and is alone with an active
  job until the first stall. `LockInv` adds that no more handlers are without a lock than
  locks have expired. Gives `TypeOK` and `OneHandlerPerScan`.
* **Scans, second layer (`DeliveryInv`)**: what the row of a first delivery says while its
  handler is between two awaits. Gives `FailedKeepsResultsOnlyAfterLapse` and, action by
  action, the refinement of `ScanLifecycle`: the initial states map to initial states and
  each step to a step or a stutter.
* **Scans, third layer (`OutcomeInv`)**: what a handler about to acknowledge has achieved.
  `QueueAgreesWithRow` and `NoStrandedScan` are not inductive by themselves: the step that
  settles a job must know what the handler did before.
* **Scans, counting (`CountInv`)**: the handlers that may still log a completion (`MayLog`), those
  that have, and the delivery that has not begun are together paid for by the request or by a stall.
  `OneCompletionLogPerDelivery` is the part of that sum that has been logged.
* **Scans, the variant (`StepsLeft`)**: the steps that a scan's request, job and handler still have to
  take, at most: eleven for each delivery the stall limit leaves. `ScansComeToRest` is what safety can
  say of `EveryScanSettles`: a scan in flight that is not stranded always has a next step and
  somebody who owes it (`InHand`), that step leaves fewer to take, and no other step leaves more
  (`Approach`), unless a lock expired under a live handler: then the handler of the old delivery and
  the new one share the job. Fairness, which turns this into liveness, stays with TLC.
* **Schedules (`IInv`)**: `Progress(r)` says, for a request that has its schedule to itself,
  what it has done to the queue at each await; `Mirrors(s)` what a schedule nobody works on
  looks like. `Compose` reduces every step of a request to its own slot and schedule, since it
  disturbs nothing of the others (`Others`). Gives the three safety properties.
* **Sessions (`IInv`)**: `ReqInv` says what each request has already done to the tables,
  `SessInv` and `LinkInv` how each row agrees with users, audits and logouts, `OrphanInv` and
  `UseInv` who answers for a session nobody holds and for a spent link. It is needed because
  the properties look at ends only: that a logout closed *every* session it covers, say, must
  be known from its `revoke` step on, and that a held session's user is audited from before
  the session reached anyone. The tables only grow (`Grows`), so a step of one request
  disturbs nothing of the others (`Others`). Gives all six safety properties and, with one
  lemma per action, the refinement of `SessionGate`.
* **Tenancy (`IInv`)**: `SlotInv` says what a busy slot has seen (`HeldInv`: past the check, the
  caller had authority; `DropInv`: what is linked to a repository about to be deleted was linked
  after the check), `WorkspaceInv`, `RepositoryInv` and `DeletionInv` how rows agree with owners,
  members and the log, `LogInv` how membership and log add up. `LogInv` has a part the property
  lacks, for pairs of a workspace and a user that are not both there yet: nothing is logged or about to
  be, so that the sum starts right when they appear. `SlotStays` is the frame lemma: a slot a
  step does not move stays right unless authority or a link is gained behind its back, which the
  histories `held` and `late` record. One lemma per action, then the four invariants from
  `IInv`, and the two action properties from `IInv` and a case split on who writes the table.

* **Access**: `TypeInv` adds to the types that what is still to be checked is part of what the
  chain demands. `MetadataInv` says where a request of `MetadataUnauthorized`, the
  finding about `DocumentedAnswers` in general, stands: no guard has
  set a user, and the check for one is still ahead, in the first global guard that the metadata wakes.
  `EntitledInv` is what `AdmittedOnlyIfEntitled` rests on: of every check that a guard of the chain
  owes, it is still to do, or its requirement (`Met`) was true of the database at some moment since the
  request came in, or the caller was SUPER and the guard spared it (`Excused`). The property only sees
  the end, when nothing is left to do; before, the checks are made one await apart and the rows move.
  `Windows` shows that the comparison of hours the guard makes is membership in the hours of the window;
  whether that is the window the declaration means depends on the server's zone (`Misread`).
  `CauseInv` is the converse, for `RefusedOnlyForCause`, while nothing has changed or failed: no check is
  done out of order (`OrderInv`), RolesGuard has found no fit so far (`FitsInv`), a membership is asked
  only of who is not the owner (`MemberInv`), and nothing a guard spares a SUPER caller is left to do
  for one (`SuperInv`). `GuardsAgree` is about the three ways in which the guards look for the workspace in
  params, query and body: if they find only one, all guards find the same, except that
  `UnifiedPolicyGuard` may find none. With it both properties combine to `Verdict`: while nothing changes
  or fails, the request names one workspace and no window is misread (`Misjudged`), who gets to the handler lacks nothing, and who is
  refused lacks something or was not recognised. `GuardsAnswer` counts what a request still has to do
  (`Remaining`): there is always a check that can be made, and each leaves fewer, whatever changes
  between them, so a request is let in or refused.
* **Accounts (`AccountsInv`)**: the user that an open transaction has inserted is absent for everyone
  else, and no two transactions have the same one, so the audit row always fails; a sign-up that got
  past it must therefore have found an account that was there (`RegistrationRefused`). An audited user is
  there and is never removed, so an answered login is still linked to its user
  (`OAuthLoginStaysLinked`).
* **Roles**: three layers. `Base`: types, which steps and data go together, that ids are given out
  once. Gives `TypeOK`, `OAuthLoginStaysLinked` and `RegistrationRefused`. `Fit`: `Told` says what a request has written before
  each await, `Fresh` that the row a changeRole is about to commit is nobody else's, `Seen` that every
  row in the scope of a running changeRole was read and is to be deleted, or came since; the order of
  `findMany` covers what it has read. Gives `ChangeReplaces` and `OutcomeMatchesRows`. `Settled`: `Fit`
  with `CacheAgrees`. The frame lemmas reduce a step to the entries it caches, clears or makes stale: an
  entry nobody touches keeps its value and its excuse (`GoodKeeps`), and a write excuses what it makes
  stale (`ExcusedAgrees`) unless its request still clears it.
* **Plans**: `BaseInv`, the types and which steps and data go together; with it `PlanCacheAgrees` is
  inductive. `RequestInv`: the row and the cached plan are among the plans a user had, a request past
  the feature check belongs to a user who had the feature, and what each request has written. `LimitInv`
  counts: the checked scans of an owner and the requests between check and insert (`Pending`) together
  stay within the bound, since the check that let the last one through saw the count below the limit.

**Only model-checked**: liveness, which the prover cannot treat under fairness: `EveryScanSettles`,
of which `ScansComeToRest` is the safety part, and the refutation of `DueTriggersRun`. Every
other property of a passing run is a theorem. The prover has no induction over data and no
recursive operators; the modules use neither.

## 5. What is not modelled, and abstractions

Bull is modelled from how the code uses it (external in the map): job states, lock, stalled
check, repeatable keys; not its Redis scripts. Contents (branches, results, audit details)
are left out: no property is about them. A write that commits although its caller sees an
error needs no action of its own: it is the write followed by a fault of the next await.
Reads that change nothing (`findAll...`, `findOne`) are no actions. A request that is refused
changes nothing; `Scans` shows it, the other modules leave it out. Access tokens have no row and no
operation; a request with one is let in for any user who has logged in. Of the tables that
refer to a user, Sessions has sessions, links and audit rows.

Some of what is modelled is the contract of a service that no request reaches at this commit.
The controllers of roles, billing and analytics read `req.user.userId`, which `JwtStrategy`
never sets, so the services see no caller; `ScanService` is provided but injected nowhere, and the
handlers of `ScanController` log usage without making a scan; and the 401 of `access_documented` stands in
front of most of these routes, `POST /scans` of the first scan service among them. The modules say what the services
promise when they are called.

Left out of Roles: the check of the caller's authority, which comes before the first write, and the
cached permissions of a role, which nothing changes after the seeds. Left out of Guards:
`plan-permission.guard.ts` and `usage-limit.guard.ts`, which no route uses, and the spellings of
identifiers no declaration relies on. Left out of Plans: the limits on workspaces, repositories
and members, which are checked the same way but by no route, prices and statistics. `getAvailablePlans`,
`comparePlans` and `getScanUsageStats` read tables as if they were properties of `PlansService` and
always throw. Analytics only reads; seeds run once by hand; the Prisma service and the modules
are wiring. `RepositoriesService.update` changes contents only.

## 6. Plan

Order: the most important behaviour first; every module gets its MC module, runs, mutants and
theorems before the next one starts.

1. **Scans, ScanLifecycle** (done): the product's core.
2. **Schedules** (done): two stores that must agree.
3. **Sessions, SessionGate** (done): refresh against logout, magic links, two expiry clocks.
4. **Tenancy** (done): workspaces, memberships, repositories and users under the schema's
   foreign keys.
5. **Guards, Routes, Access** (done): declarations, and what the guards make of them.
6. **Accounts, Roles** (done): sign-up over two connections; role changes and the permission cache.
7. **Plans** (done): the plan cache, and check-then-create at a limit.
8. **Access**, second part (done): the proof of `RefusedOnlyForCause`, from the converse of `EntitledInv`,
   and what follows from both directions.
9. **Platform**: Schedules composed with Scans once the consumer is wired (a trigger is a Create), and the
   guards in front of the services that check again.

Runs: one run per module for everything that holds, on one to three elements of each set, and one run per
disagreement with a comment or a document that no property of a passing run names.
