# A TLA+ model of baton-notion

baton-notion is a ConductorOne (C1) connector. It synchronises the users, groups and workspace roles
of a Notion workspace through Notion's SCIM 2.0 API and carries out provisioning tasks: granting and
revoking a workspace role, creating and deleting an account. This directory holds TLA+ models of that
code, TLC configurations, TLAPS proofs, and this description. `PROJECT.json` maps every definition to the
lines it models.

Paths below are relative to the repository; `sdk/` stands for `vendor/github.com/conductorone/baton-sdk/pkg/`.

## 1. Inventory

| Part | State | Operations | Interacts with |
|---|---|---|---|
| Role provisioning, `pkg/connector/role.go` | none of its own: local variables of a running task | `Grant`, `Revoke` | called by the SDK's `builder.Grant/Revoke` (retry loop); calls the SCIM client |
| Account provisioning, `pkg/connector/user.go` | as above | `CreateAccount`, `Delete` | called by `builder.CreateAccount/DeleteResource` (no retry) |
| SCIM client, `pkg/client` | the shared HTTP client and, inside it, the response cache | `GetUser(s)`, `GetGroup(s)`, `CreateUser`, `PatchUserRole`, `DeleteUser` | `sdk/uhttp` |
| Response cache, `sdk/uhttp` | cached 200 answers to GETs, one hour, 5 MB, in memory by default | lookup, store, expire, evict, `ClearCaches` at the end of a sync | every task and the sync share it |
| Paged listing, `user.go`/`group.go` `List`, `helpers.go`, `pagination.go` | the page token held by the syncer | `List`, `getToken`, `GetUsers`, `GetGroups` | `builder.ListResources`; the server's list handlers |
| Sync, `user.go`/`role.go`/`group.go` under `sdk/sync` | the c1z file with its resources, entitlements, grants and the work left; the role stashed in each user's profile; the connector's own resource type selection | `ResourceType`, `List`, `Entitlements`, `Grants`; the engine's planning, page commits, seal, resume | the one-shot command (`sdk/tasks/local`) or C1's sync tasks (`sdk/tasks/c1api`); the cache, cleared when a sync completes |
| Reference SCIM server, `test-server/main.go` | users and groups under one mutex | list, get, create, patch, delete | stands for Notion in tests, and in these models |
| Wiring, CLI, configuration | constants | - | - |

What is hard in it:

* *Concurrency.* The task runner runs up to three tasks at once in one process; all share one client and so
  one cache. Each handler is a sequence GET - decide - write, with other tasks and Notion's own admins in
  between. The connector holds no lock.
* *Staleness.* A GET may be answered from the cache; no write invalidates it.
* *Failure.* An exchange may fail before or after the server acted. `Grant` and `Revoke` are then called again
  (three more times, for `Unavailable` and `DeadlineExceeded`); `CreateAccount` and `Delete` are not.
* *Paging* over a directory that changes between two pages, with page numbers that start at 0 and entries that
  start at 1.
* *Long syncs.* A sync reads a user's role when it lists the user and uses it much later; in between it may fail,
  be killed, be resumed by another process or start over on top of cached pages, while the workspace changes.
* *Two selections.* Which resource types are synced is said by the task and, separately, by the configuration of
  the process, and the connector only knows the second.

What makes it correct: a report to C1 must be true (success means done; "already exists/revoked" means it was
so during the call; a replaced role is named, and is the one that was replaced unless somebody else wrote in
between); a task ends; errors have causes; a listing returns everything that was there all along, and ends; a sealed
sync holds only grants that were true at some moment of it, all that were true throughout, one role per user, and no
grant on a resource it did not list or to a resource type it left out; a cleared cache is empty. Each hazard is listed at
its line in `PROJECT.json`.

## 2. Modules

| Module | What it is |
|---|---|
| `Notion` | The workspace: roles, userNames and group members, with the effect and the answer of each SCIM request about one user. One server handler is one atomic step, because every handler runs under the store's mutex. |
| `Provisioning` | The four task types over `Notion`, with the cache, failed exchanges, the retry loop and outside admins. |
| `TaskContract` | The abstract specification: what C1 may rely on, with no exchanges, cache or retries. |
| `Listing` | A paged listing, client and server side, against a changing directory. |
| `Sync` | Full syncs over `Notion` and its groups: the engine, the three builders, the cache, failures, resumes and crashes, in both ways a sync is run. |
| `HttpCache` | The response cache by itself, over time and with concurrent callers: what the other modules abstract to "an entry may be gone at any moment". |
| `MCProvisioning`, `MCListing`, `MCSync`, `MCHttpCache` | The instances for TLC. |
| `ProvisioningProofs`, `ListingProofs`, `SyncProofs`, `HttpCacheProofs` | Theorems and proofs about the four components. |
| `ContractProofs` | `Provisioning` without a cache implements `TaskContract`. |
| `FaultFreeProofs` | What tasks guarantee as long as no exchange has failed. |
| `SoleWriterProofs` | What `Grant` and `Revoke` do to a user nobody else writes to. |
| `ProgressProofs` | Every step of a task brings it nearer to its report. |

### Provisioning and the code

A task goes through `pc[t]`: `idle`, `lookup` (before the cache lookup), `get` (a GET is on its way), `got` (its
answer is there), `write` (a PATCH, DELETE or POST is on its way), `wrote` (its answer is there), `done`. These
are the points where other goroutines may run and other requests may be handled.

| Action | Code |
|---|---|
| `GrantStart`, `RevokeStart`, `CreateAccountStart`, `DeleteStart` | the checks before the first exchange |
| `CacheHit`, `CacheMiss`, `CacheSet` | the cache lookup and store in `BaseHttpClient.Do` |
| `ServeGet`, `ServePatch`, `ServeDelete`, `ServeCreate` | the server handles a request; its answer arrives or is lost |
| `GetFault`, `WriteFault` | the exchange fails before the server acts, or a GET's 200 cannot be decoded |
| `GrantDecide`, `RevokeDecide`, `DeleteVerify` | from the GET's answer to the next early return or request |
| `GrantFinish`, `RevokeFinish`, `DeleteCheck`, `CreateAccountFinish` | from the write's answer on |
| `RetryOrFail` | `ShouldWaitAndRetry`: another call, or the task fails (also when its context ends during the wait) |
| `CacheExpire`, `ClearCaches` | expiry or eviction (`otter`, the library below `GoCache`); the end of a sync |
| `Admin` | role changes, removals and re-invitations made in Notion |

Abstractions. A user is its role, address and presence. gRPC codes are kept as far as the code tells them apart:
`Unavailable` stands for `Unavailable` and `DeadlineExceeded`, `Unknown` for everything that is neither retried
nor a 404, and `Undecodable` for a 200 whose body cannot be decoded: not retried either, but stored, so that later
GETs of the user meet it again. That a token's owner cannot be deleted (`client.go:193-194`) shows as a failed
exchange. An address of blanks passes `createNewUserData` and is refused by the server with a 400; `Emails` holds no such address. `held`,
`overwrote` and `ever` are history variables that the properties use and no action reads; so `Observe`, which
extends them, is part of every action. Accounts created through the API get fresh ids, as in the reference server.
`client.go:136-138` says that Notion's own POST re-adds an account that exists outside the workspace: a removed user who
comes back with the old id is `AdminInviteBack`.

### Listing and the code

`UserList` and `GroupList` are one page each: `getToken`, `GetUsers`/`GetGroups`, the server's
`paginationParams` and `pageSlice`, the next page number, and `builder.ListResources` with its guard
against an unchanged token. The page token is the page number (the bag holds one state, so marshalling it
is injective) or `NoToken`. Ids are random and the server sorts by id, so an insertion may land at any position.

### Sync and the code

`file` is the c1z of the running sync. Its `phase` is the operation on the engine's stack (resources, entitlements,
grants), `cursor` the page token per resource type, `userTodo` and `groupTodo` the grant actions that planning left.
The engine commits a page together with the work that is left (`runPageWithCommit`), so a page is one step, and a
file that is packed between two steps has both.

| Action | Code |
|---|---|
| `Start` | a process (local) or task (service) begins: `startOrResumeSync`, then `SyncResourceTypes` on a new file |
| `ListUsers`, `ListGroups`, `ListRoles` | one page of `List` of the three builders, from the server or from the cache |
| `PageMissing` | a list request answered 404: `isWarning` ends the listing |
| `SyncEntitlements`, `PlanGrants` | `Entitlements` of what was listed; `planRootGrantActions` with the types' annotations (`SkipGrants`) |
| `SyncUserGrants`, `SyncGroupGrants` | `Grants` of one user (the stashed role) or group (`GET /Groups/{id}`; 404 is a warning), then `filterFreshGrants` |
| `Seal` | the seal and `Cleanup`, which clears the caches - or fails, which is only logged: a task's sync is then complete with the caches as they were (`status` is `uncleared`) |
| `Fail` | `Sync` returns an error, from a request, from an answer that cannot be decoded, or from the checks and writes before the seal (the invariant pass, the store's clean-up): the one-shot command packs the file, a task removes it and keeps the cache |
| `Crash` | the process dies: file, unless packed, and cache are lost |
| `WorkspaceChange` | users created, removed, invited back or given another role, members added and removed, groups deleted |

`roleEver`, `memberEver` (what was true at some moment) and `roleAlways`, `memberAlways` (what was true all along)
are histories since the *base*: the start of the first sync whose file or cached pages the current one may contain.
A new sync moves the base unless it resumes a file or follows, in the same process, a sync that failed or whose caches
were not cleared. What happens after the seal does not count. The invariant pass finds nothing to fail on in this
connector's files by default: a dangling reference is a warning there.

Abstractions. A resource is its id and, for users, the stashed role. Entitlements need no exchange and are one step
for all resources. A page the engine asks for again after `Unavailable` is a stutter. Expiry and eviction show at the
lookup: a cached answer may be used or not. In the one-shot command no request is made twice by one process, so
nothing is cached. A resumed file keeps the types it was started with; the configuration of the process does not
change between resumes. The reference server has no operation on groups' members; `ChangeMember` and `RemoveGroup` are
Notion's own.

### HttpCache and the code

`Do` is cut after the lookup (`Get`), when an answer is there (`Fetch`, `FetchFails`) and at the store (`Set`, which
a hit goes through as well, restarting the entry's time). An answer carries the number of clears before the server
gave it and the kind of its body, `sound` or `broken` (not decodable): `Set` does not look at it, because the decoding
error is returned only after the store, so a broken body is served like a sound one until it expires. `asked` keeps, per
request and kind of body, when a caller last met one. `TTL` is at least 1, since with 0 the code takes the noop cache.

## 3. Runs

| Run | Checks | Instance | Distinct states |
|---|---|---|---|
| `prov_noop` | `SuccessMeansApplied`, `AlreadyMeansTrue`, `NoSpuriousFailure`, `StillExistsTruthful`, `NoUnreportedWrite`, `NoDanglingMembers`, `UniqueUserNames`, `MeetsContract` (refinement of `TaskContract`) | no cache; 2 tasks, 2 users, 2 spellings of one address, 1 fault, 1 retry, 1 admin change | 1.15 million |
| `prov_memory` | `TypeOK`, `SuccessMeansApplied`, `NoSpuriousFailure`, `NoUnreportedWrite`, `SoleWriterExact`, `OnceTrue`, `TaskReports`, `TaskProgress` | cache; 2 tasks, 2 users, 2 faults, 1 retry, fairness | 0.26 million |
| `listing` | `TypeOK`, `StaticListing`, `InsertsHideNothing`, `RemovesHideOneEach`, `TokenMoves`, `ListingEnds`, `PagesAdvance` | page size 3, up to 9 entries, 1 insertion, 2 removals, fairness | 32 thousand |
| `sync` | `TypeOK`, `FactsWereTrue`, `LastingFactsSynced`, `OneRolePerUser`, `NoDanglingGrants`, `SyncEnds`, `SyncAdvances` | page size 2, 3 users, 1 group, 3 selections, 2 initial workspaces, both modes, 1 fault, 2 changes, fairness | 0.58 million |
| `cache` | `ClearForgets`, `StaleOnlyIfAsked` | 2 callers, 2 requests, TTL 2, 2 clears, 1 undecodable body, time from 2 to 5 | 5.2 million |

Bounds. Two tasks suffice for every conflict between a read and a write of one user; one retry and one or two
faults show a lost answer, a repeated call and an exhausted loop (`MaxAttempts` is 3 in the code; the theorems
cover every value). `owner`, `membership_admin` and `member` are treated alike by the code, which only compares
roles and tests whether they are supported: the instances have two of them, the floor role and one unknown tier.
With two spellings of one address at most one user is present at a time, so all tasks are about the same person,
the case in which they can conflict; what other users do is covered by the theorems. Symmetry is used in `cache` and in `prov_noop`
(tasks, users); the one temporal property there is the refinement, and `TaskContract` is a safety specification and
as symmetric as the handlers. For listings, 9 entries at page size 3 give zero to three full pages and every remainder; the page size comes out
of four different constants, so that each of the code's clamps is exercised. For a sync, three users on pages of two
have a page boundary that removals and additions move entries across; one fault is a failure and a resume (or a second
sync over cached pages), a crash, or a missing page; two changes are enough for a role that goes and comes back.
`SyncInv`, the invariant behind the theorems, was also checked with two faults. One group is enough for a group that
disappears, and with two the run takes longer than five minutes; what the others' grants suffer from it is covered
by the theorems. Two callers and two clears show the race between a store and a clear; the clock lets an entry expire and
one that is hit live past its first TTL. Deadlock checking is on in every
run; `ClearCaches` and `Ended` are always possible once the tasks or the listing are over, so it says little here.

Fairness. `FairSpec` of `Provisioning` is weak fairness of each task's own steps: a goroutine that runs is
scheduled, an HTTP exchange ends (answer, error or timeout). Nothing obliges C1 to send a task, an admin
to act or a cache entry to expire. `FairSpec` of `Listing` is weak fairness of the next page: the syncer asks
until the token is empty. `FairSpec` of `Sync` is weak fairness of the engine's next step: its loop goes on while it
has work, and a server that is `Unavailable` answers in the end; nobody is obliged to start a sync, and faults are
not excluded, only bounded.

### Where code and documents disagree

Seven runs are expected to fail; each shows by a counterexample that the code does not do what a comment or
document of the repository says. The findings in `PROJECT.json` quote the lines.

* `stale_already`: with the default cache, `Grant`/`Revoke` report "already exists/revoked" from an
  answer cached before another task's PATCH. (In `prov_noop` the same property holds.)
* `stale_delete`: with the default cache, `Delete` says "User ... still exists" about a user who is gone.
* `retry_replaced`: a PATCH whose answer is lost is retried and settles as `GrantAlreadyExists`; the replaced
  role is never reported. With the default cache this takes one more event: normally the retry's GET hits the entry from
  before the PATCH, the handler PATCHes again and emits `GrantReplaced` after all. The run has the memory backend, and the entry
  is evicted, expires or is cleared between the two calls; with the noop backend no such event is needed.
* `revoke_floor`: revoking `restricted_member` is an error, where README and docs say no-op.
* `delete_gone`: `Delete` fails on the 404 for a user who was gone before the task arrived, where `BUGBOT.md:306`
  wants the existence checked before the delete.
* `paging_loss`: a directory of k full pages, k at least 2, is listed without its last entry.
* `role_filter`: when the process's own configuration leaves roles out and a task selects them, the sealed file has
  users, roles and role entitlements, but no role grant. `NoDanglingGrants` holds under every pair of selections.

Three more statements have no run. `Validate` (`connector.go:69`) is said to hit the Notion API and does not; it has no state to
model. `sdk/connectorbuilder/resource_syncer.go:94` has every 200 cached "for an hour", while a hit stores the entry again
and starts another hour: `HttpCache` shows answers that are served longer than TTL after the server gave them, and
`StaleOnlyIfAsked` states what remains true. And `BUGBOT.md:144-146` lets a connector skip only a NotFound on the item being fetched: a
404 to a whole list request is returned as an error by `List`, but the SDK's engine takes it for a warning
(`sdk/sync/syncer.go:840`) and seals the sync with the resources it has. `PageMissing` is that step; `LastingFactsSynced`
therefore speaks of listed resources.

The contract also makes visible what is *not* promised: `Revoke` writes on the evidence of an earlier read, so
a role that another task or an admin gives in between is overwritten by the downgrade. `TaskContract!Change`
allows that, since the repository does not claim otherwise. `SoleWriterExact` is what can be promised: if nobody else
wrote to the user, `Revoke` took away the role it was asked to and nothing else, and `GrantReplaced` names the role the PATCH
replaced, even if the role came from the cache.

## 4. Proofs

`ProvisioningProofs`, for any sets of tasks, users, groups and addresses, any bounds, and both cache backends,
from the named assumptions on the constants in `Notion` and `Provisioning`:

* `Invariance`: `IInv` is inductive. It consists of `TypeOK`; `CacheInv` (an entry was once true of its user, and
  a noop cache is empty); and per task `TaskInv`: a task past its start is about a user the server knows
  (`AboutUser`); the answer it holds was true during the call, or once true if it may come from the cache
  (`Answered`); a task that writes decided to on such an answer (`Decided`); a task whose write was answered
  with success made the change while it ran (`Written`); and the three properties themselves. They are not
  inductive alone, because the step that reports success looks at the answer only: what ties the answer to the
  workspace is established several steps earlier and has to survive the steps of all others. `HistoryGrows` and
  `OtherTask` do that once for all actions.
* `TypeCorrect`, `SuccessIsReal` (`SuccessMeansApplied`), `DecisionsHaveEvidence` (`OnceTrue`) follow, and
  `UncachedReportsTrue` (`AlreadyMeansTrue`), which assumes the noop backend - with the memory backend it is
  false (`stale_already`).
* `DirectoryConsistent`: `NoDanglingMembers` (stated alone as `GroupsListPresentUsers`) and `UniqueUserNames`, which
  are inductive together.

`ContractProofs`, on top of `IInv`:

* `UncachedMeetsContract`: with the noop backend, `Spec => MeetsContract`. The refinement mapping hides where a task is
  between its start and its report (`Phase`) and which role it replaced (`ReportTag`). A start maps to `Open`,
  the server's handling of a write to `Change` or `Create`, a report to `Close`, an admin's change to `Outside`, and lookups,
  answers, retries and lost answers to nothing. The contract only lets an open task change a role on evidence it had while it was open, and a
  report only say what was so during the call, so the proof needs `CInv` (`OpenTasksInvariance`): besides `IInv`, the
  history of a running task holds the role its user has now (`Watched`), `Grant` and `Revoke` run for supported
  roles only (`Checked`), `Revoke` writes only after its user was seen with the role (`Witnessed`), and
  `CreateAccount` has no user before its request was handled (`Unborn`).

`FaultFreeProofs`, on top of `CInv`:

* `ErrorsHaveCauses` (`NoSpuriousFailure`) and `WritesAreReported` (`NoUnreportedWrite`), with either backend. Both
  speak of finished tasks only; `FInv` (`FaultFreeInvariance`) says what leads there: a role was overwritten only if the
  task holds the 200 for it or has reported success (`Clean`), and every answer is one that a server's handler
  gave, a 404 to a write only if the user was absent during the call (`Exchanged`), so that nothing undecodable is
  cached (`Readable`).
* `DeleteNotMisled`: without a cache, failures and outside changes `Delete` never says "still exists", which is more
  than `StillExistsTruthful`. `DInv` has the user of a `Delete` absent from the DELETE's success until the GET that checks
  it (`Gone`); no task brings a user back, because the reference server's `handleCreateUser` hands out new ids (Notion's
  own may not, `client.go:136-138`; there the theorem speaks of users nobody re-adds meanwhile). `stale_delete` shows that
  the backend matters.

`SoleWriterProofs`, on top of `FInv`: `SoleWritersAreExact` (`SoleWriterExact`), with either backend. The property looks at the PATCH and at the
report; `SInv` follows the fetched role there. Until the first PATCH to a user, what the cache, an answer (`GotCurrent`) or
a decision (`SeenCurrent`) says of the user is the role the user has, unless the user is gone; the PATCH therefore replaces what was seen
(`WroteSeen`). `RoleStays` is the reason: without an admin only a PATCH gives a user another role, and `PatchMarks` has it
recorded as a write.

`ProgressProofs`: `StepsLeft` is at most `5 * MaxAttempts + 6` and never negative (`TasksAreBounded`), every step of a
task lowers it and nothing else changes it (`TasksGetOn`, the action property `TaskProgress`). With the fairness of
`FairSpec` this is the reason why `TaskReports` holds; only the last inference, from fairness, is left to TLC.

`ListingProofs`, for every page size, directory size, and number of changes: `LInv` adds to the properties that a
listing in progress has covered every position before its token (`Covered`), and for a directory that did not
change that the token is a multiple of the page size and every entry before it, and none after it, is listed
(`Unchanged`). From it `ListingTypeCorrect`, `StaticListingExact` (which directories lose their last entry, exactly),
`InsertsAreHarmless`, `TokenAlwaysMoves`. `RemovalsHideAtMostOne` (`RemovesHideOneEach`) is a counting argument: `RInv`
bounds the number of lasting entries that the listing has passed without handing them out (`Passed`) by the number of
removals, because a removal before the token moves exactly one entry across it, an insertion moves entries only the
other way, and a page hands out what it passes. `PagesGoForward` (`PagesAdvance`): tokens grow and stay inside the directory, so a
listing has no more pages than the directory had entries at its largest (one, if it was empty).

`SyncProofs`, for any users, groups, page size, selections, and any number of faults and workspace changes:

* `SyncInvariance`: `SyncInv` is inductive. `FactsWereTrue` and `LastingFactsSynced` only speak of sealed files, so the
  invariant has to say what stands behind every place a fact can wait in: a cached page or group (`CacheInv`), the
  packed file (`SavedInv`) and the file being written (`CurrentInv`). Each holds only what was true since the base
  and, for what it covers, everything that was true all along (`RowTrue`, `BodyTrue`). `WorkspaceInv` ties the
  histories to the workspace until the seal. The role grants of a file are those of its *current* rows
  (`RoleGrantsInv`), and are complete for the users that are not left to do; no row changes any more once grants are
  written (`FileShape`), which is why two roles for one user cannot arise from a resumed listing. The caches are empty
  whenever the base moves: that is what clearing them at the end of a sync is for, and why the base stays where it
  is when that fails.
* From it `SyncTypeCorrect`, `SealedFactsWereTrue`, `LastingFactsAreSynced`, `OneRoleInFile` and `GrantsNeverDangle`.
  `WriteKeeps` treats the engine's steps alike, and `FileStaysSound` the changes of the workspace.
* `SyncGoesForward` (`SyncAdvances`): what a running sync writes leaves less work. Pages may come from the cache of a sync
  over another directory, so `PagesInv` says of every cached page that it leads to a later one or to none. That a
  page before the last is never empty (`NextPageLater`) rests on `EveryRankTaken`: a directory of n entries has one of
  every rank from 1 to n. It is proved without induction, from the well-foundedness of strict inclusion.

`HttpCacheProofs`, for any callers, requests, TTL and length of time: `CacheTypeCorrect`; `ClearedIsForgotten` from
`ClearInv`, which speaks of every entry ever stored, as the property would otherwise depend on the clock;
`HitsAreRecent` from `LifeInv`: no entry outlives the last answer of its kind to its request by more than TTL.

Model-checked only: the liveness properties `TaskReports`, `ListingEnds` and `SyncEnds`, since fairness is out of the
prover's reach; the action properties `TaskProgress`, `PagesAdvance` and `SyncAdvances` are the part of them that is
proved. Every invariant that a run checks, and the refinement, has a theorem. (For `AlreadyMeansTrue`, `StillExistsTruthful`
and `MeetsContract` the theorem assumes the noop backend, as the runs do; with the default cache the first two are false, see
`stale_already` and `stale_delete`.)

## 5. Not modelled

* Grant expansion, external resources, targeted syncs and source replay of the SDK's engine: the connector
  sends none of the annotations that lead there. The engine's older, non-ledger storage path.
* Filters (the connector sends none), authentication and discovery endpoints of the server.
* The records built for accounts, groups and roles (names, traits, descriptions), apart from the stashed role.
* The cache's size limit in bytes: an entry may be evicted or refused at any time.
* Command line, configuration, generated code, metadata and `Validate`, which keep no state; the SDK's upload,
  tracing and rate limiting.

## 6. Plan

1. *Proofs*: what is left of the contract when there is a cache (a weaker `TaskContract` whose evidence may be as old as
   the cache entry), refined by `Provisioning` with the memory backend.
2. *Composition*: provisioning tasks running during a sync, over the one cache.
