# Verification project for the ZeroStress cockpit

The cockpit is a console from which a service provider (an MSP) administers the Microsoft tenants of its
customers: Intune devices, virtual machines, virtual desktops, mailboxes, applications. An Express API
(`apps/api`) over PostgreSQL and Redis is the only writer of the tables; `packages/core` holds its logic,
`apps/web` is the console, two PowerShell programs on Windows machines (`apps/worker-windows`,
`apps/worker-exchange`) poll the API for work it cannot do itself.

This directory holds TLA+ models of the parts that carry the system's own logic, the TLC configurations that
check them and TLAPS proofs about them. Source paths below are relative to `src/`.

## 1. Inventory

`core/` stands for `packages/core/src/`, `api/` for `apps/api/src/`.

| Part | State | Operations | Hard behaviour | Correct when | Model |
|---|---|---|---|---|---|
| Job queue `core/jobs/job-queue.ts`, `api/services/job-store.ts`, `api/services/job-queue.ts`, `api/routes/jobs.ts` | table `jobs`, BullMQ entries, audit entries | create, preview, approve (one or two people), cancel, execute, retry, sweep | no transactions: requests, worker slots, sweep, stall check and crash interleave between any two statements | nothing runs unapproved or more often than it has attempts, no person counts twice, no row stays open | `JobQueue` |
| Audit log `api/services/audit-logger.ts`, `audit-verify.ts`, `audit-chain.ts` | table `audit_entries`, an advisory lock | log, verify | overlapping writers; a paged verification over a growing table; order by time, not by commit | a verification alarms exactly when rows were changed or committed out of order, and covers every row | `AuditChain` |
| Build queue `api/services/builds.ts`, `packages.ts`, `api/routes/worker.ts` | tables `build_jobs`, `app_packages`, artifact files | edit, upload, delete, enqueue, claim, expire, progress, artifact, report | several workers; lost, late and repeated reports; edits while a build runs | one worker per build, final results, no success without an artifact, no build open for ever | `BuildQueue` |
| Windows worker `apps/worker-windows` | the build in hand | poll, build, upload, report | killed at any point, silent for long | see build queue | `BuildQueue` |
| Exchange queue `api/services/exchange.ts`, `core/jobs/exchange-job-handlers.ts`, `apps/worker-exchange` | tables `exchange_jobs`, `exchange_facts` | enqueue, claim, expire, finish, wait | the waiting job handler gives up while the worker still executes; a repeated job enqueues again | a row is carried out at most once, its result belongs to the job that asked for it | `ExchangeQueue` |
| Inventory sync `core/inventory`, `api/services/inventory-store.ts` | table of snapshots, loads under way per process, BullMQ entries | read, look up, sync, request refresh, tick, remove | shared loads, a run taken for stuck, a tenant removed during a sync | a snapshot is never replaced by an older one, a stale one is refreshed, a removed tenant falls silent | `InventorySync` |
| Job handlers and Microsoft clients `core/jobs/*-handlers.ts`, `core/providers` | the customer's tenant | licences, accounts, groups, apps, mailboxes, machines, session hosts, devices, monitor | lost answers, throttling, asynchronous operations, repeated runs, lists read and written back, somebody else at the same object | success means the goal is reached, the preview is kept, nothing else is changed | `TenantOperations`, `TenantJobs` |
| Scripts and remediation `core/providers/remediation-provider.ts`, `core/scripts` | Intune script objects, what the device runs, its rights and task | create, start, poll, delete; grant, revoke, restart, install, library | the device is offline, an old report is taken for the result, rights without a task | transient scripts are gone afterwards, results belong to the run, rights end | `DeviceScripts` |
| Publishing `api/services/publishing.ts`, `core/jobs/app-publish-job-handlers.ts`, `core/providers/app-provider.ts` | table `app_deployments`, the app in Intune and its upload | roll out, create, upload, commit, poll, pin, record | row read, then written; a publish repeated after a crash; overlapping rollouts | published means complete, a row settles | `AppRollout` |
| Sessions and access `api/services/sessions.ts`, `users.ts`, `access.ts`, `api/middleware/auth.ts` | tables `msp_users`, `msp_user_tenants`, `user_sessions` | sign in, resolve, renew, sign out, prune, load, update a member | accounts, roles and sessions change between two looks of a request | a request acts with the rights of its time, a role stays until it is changed, somebody stays owner | `TeamAccess` |
| Alerting `api/services/alerting.ts`, `operational-alerts.ts`, `core/security/*-rules.ts` | table `alerts`, the schedule, sign-in log | tick, evaluate, store, mail, change status | overlapping evaluations, late sign-ins, failure between store and mail | one evaluation tells of an alert, no burst lost, a resolved alert stays quiet | `SignInRules`, `Alerting` |
| Graph and ARM clients `core/providers/graph-client.ts`, `arm-client.ts`, `core/auth/token-provider.ts` | token cache, operations under way | request, retry, wait for an operation | a lost answer, throttling, an answer without an operation to wait for, a time limit | no write is lost silently | retries in `TenantJobs` and `Alerting`; token cache not modelled |
| Approval policy `core/jobs/approval-policy.ts`, `api/services/msp-settings.ts` | settings of the MSP | normalise, count targets, decide | targets hidden in differently named parameters | over the threshold means two people | a free choice in `JobQueue` |
| Rate and body limits `api/middleware/security.ts` | counters per key and window | count, clean up | window boundaries | no key exceeds the limit in a window | not modelled |
| Tenant connection `api/services/tenant-connection.ts`, `api/routes/tenants.ts` | tenants, consent states | consent, check, remove | removal while work for the tenant runs | nothing of a removed tenant goes on | removal in `InventorySync` |
| Worker tokens, result sealing, app catalogue, posture and dashboard, read routes, schema and start, web console | - | - | - | - | not modelled, see section 8 |

How they interact. Requests change a tenant only through a job: a route calls `JobQueue.createJob`, a handler
of `core/jobs` executes it inside the API process, every step of its life ends in `DrizzleAuditLogger.log`.
Application packages are built outside that queue (build queue and Windows worker), and rolled out by jobs
(`app-publish`). Handlers that need Exchange write a row the Exchange worker polls for and wait for its result.
Snapshots feed the read routes, posture and alerting, and are refreshed by requests, by timers and by BullMQ jobs.
Every request passes the session and the access checks first. Shared state is PostgreSQL; there are hardly any
transactions, so each statement is a step of its own.

`PROJECT.json` lists every part with its sources, and under `hazards` each hard-to-test place with its line and
the properties that speak about it.

## 2. Modules and plan

| Module | What it is |
|---|---|
| `JobGate` | abstract specification: approved before accepted, accepted once, bounded uses while accepted |
| `JobQueue`, `JobQueueProps` | the job queue, statement by statement; its properties and the refinement of `JobGate` |
| `AuditChain`, `AuditChainProps` | the hash chain of the audit log and its verification |
| `BuildQueue`, `BuildQueueProps` | one application package, its builds, its engineers and its workers |
| `SnapshotCache` | abstract specification: a snapshot is a state of the source, never replaced by an older one, gone only with the tenant |
| `InventorySync`, `InventorySyncProps` | the snapshots of one tenant, shared loads, tick and queue; the refinement of `SnapshotCache` |
| `ExchangeQueue`, `ExchangeQueueProps` | rows of the Exchange queue, the handlers that wait, the workers that carry out |
| `TenantOperations` | the handlers of tenant jobs as sequences of steps on facts, and their previews: operators only |
| `TenantJobs`, `TenantJobsProps` | two such jobs side by side, with an administrator in Microsoft's portal and faults |
| `DeviceScripts`, `DeviceScriptsProps` | script jobs on one Intune device |
| `AppRollout`, `AppRolloutProps` | rollouts of a package to a tenant, the deployment row, the upload to Intune |
| `SignInRules` | the rules over sign-ins: operators only |
| `Alerting`, `AlertingProps` | the alerts of a tenant: tick, requests, store, mail |
| `TeamAccess`, `TeamAccessProps` | accounts, roles, tenants, sessions and the requests of an MSP's team |
| `...Proofs` | TLAPS proofs about a part: `JobQueue`, `BuildQueue`, `AuditChain`, `ExchangeQueue`, `DeviceScripts`, `TeamAccess` |
| `InventoryAndAlertingProofs`, `RolloutAndTenantJobsProofs` | TLAPS proofs about two parts each: what one tick drives, and what changes a customer's tenant |
| `MC...` | what the configurations need: model values, symmetry, cases |

`JobQueue` leaves the handler as one step (`Handle`). `ExchangeQueue`, `TenantJobs`, `DeviceScripts` and `AppRollout` are what is
behind it: they take from the queue what it guarantees them, that an approved job runs, and runs again after a crash. They are
not composed with it, since a handler sees nothing of rows and approvals, and the product of both state spaces is out of reach.

Next in the plan:

1. Approval policy as pure operators checked against a reference count, in place of the free choice in `JobQueue`.
2. Token cache of the Graph client, rate limits.

## 3. Correspondence with the code

`PROJECT.json` "map" gives the source lines of each definition. The principles:

A step is what the code does between two awaits: one statement to PostgreSQL or Redis, or one call of Microsoft.
What a handler has read and uses later is in its record (`calls`, `runs`, `workers`), so that it may be stale.

### JobQueue

`rows` is the table `jobs` (status, expiry of the preview, list of approvals, whether the policy wants a second
one, time of creation, retry count), `bull` the BullMQ entry with the job's id (state, attempts made, stalls).
`calls` are HTTP requests: each is created idle, does one operation and is done. `runs` are the concurrent
executions of the worker.

- `createJob`: `CreateInsert`, then `SavePreview` (preview and the policy's answer are stored in one UPDATE) or, for
  types without a preview, `AddToBull` and `MarkQueued`.
- `approveJob`: one of `ApproveRefused`, `ApproveExpired` (to `RefreshRead`), `ApproveFirst` (to `SaveFirstApproval` or
  `FirstApprovalRejected`), `ApproveFinal` (to `SaveApproved`, `AddToBull`, `MarkQueued`, `AuditApproval`). The decision
  is made at the read and the writes follow blindly, as in the code.
- `cancelJob`: `CancelRead` and `SaveCancel`, or `CancelRefused`.
- worker: `Take`, `Start` (it does not look at the status), `Handle`, `SaveOutcome`, `AuditOutcome`, `Finish`;
  `RunFails` is a statement that throws, before, inside or after the try block.
- `SweepPending`, `SweepSecond`, `SweepActive`: the three UPDATEs of the minute timer. `Crash` ends all requests and
  executions; `Stalled` is BullMQ's check for entries nobody works on.
- `LabelOf` is the route's choice of the audit action, made from the row it reads back.

BullMQ is external. It is modelled by what the options in `job-queue.ts` rely on: an id that exists is not
added again, an entry that throws is tried again up to `attempts`, a stalled one `maxStalledCount` times.

### AuditChain

`entries` is the table by id, `lock` the advisory lock of the transaction, `logs` the log calls; `Position` is a row's place in the
order of time and id, `RowAt` the row at a place. `nth` is history, the order of the commits. `Stamp` takes the time
before the transaction, as the code does; `Lock`, `ReadHead`, `Insert` are the transaction; `LogFails` its rollback.
Ids are random, so rows of the same millisecond stand in any order. A hash is the sequence of all that entered it:
it can be extended and compared, and collides with nothing. `CheckStart` and `CheckPage` are `verifyAuditChain`: one
page per step, inserts in between. `Change` is a row edited outside the application.

### BuildQueue

`pkg` is the row of `app_packages` (status, installer type, the manifest identity as one value `version`, whether an
installer is there, for which version the artifact was built), `builds` the rows of `build_jobs`, `calls` the engineers'
requests, `workers` the PowerShell programs together with the handler that serves each: a worker waits for every
answer, so the two are one sequential program.

A package begins in the status its type asks for (`InitialStatus`: ready for the store, installer uploaded for winget,
else draft). `Edited` is `updateManifest`: the status of a draft follows the new type, any other is kept as readers are
shown it (`Shown`, the code's `effectiveStatus`), and an artifact fixes the version but not the type. "msi" stands for the three types
that are built from an uploaded file. `Buildable` is what a build may be asked for.

- engineer: `EnqueueRead`, `EnqueueCheck`, `EnqueueInsert`, `EnqueueMark`; `EditRead`, `EditWrite`; `InstallerRead`,
  `InstallerPatch`; `ArtifactRead`, `ArtifactPatch`; `Delete`.
- worker: `Poll` (with `expireStaleBuilds`), `ExpirePackage` per lost build, `Take` (the single-statement claim), `Plan`,
  `MarkBuild`, `MarkPackage`; `LogRead`, `LogWrite`; `UploadBegin`, `UploadPatch`; `FinishRead`, `FinishBuild`,
  `FinishPackage`; `BuildFails` for whatever goes wrong before the upload. `WorkerFails` is a killed worker or a failed
  request, which the program's try blocks turn into a report, into nothing, or into a claim given up.
- `Tick` makes held builds older; it waits for handlers that only stand between two statements.

Two history variables: `uploaded`, the builds whose artifact reached the package row, and `listed`, whether the package was ever
saved as one of the store.

### InventorySync

`rows` is the table of snapshots of one tenant (status, the version of the source it shows, whether its run is late or
it is stale), `loads` the executions of `sync()` with the map of loads under way, `queue` the BullMQ entry of each kind, `tick` the
scheduler's run. A request opens a page (`Open`, `GetSnapshot`, `GetNothing`), looks a device up (`FindSync`) or asks for a
refresh. A load goes `Mark`, `Ask`, `Store`, `Synced`, `Reread`; any step may end in `LoadFails` or `RecordError`. Who finds a load of
its kind under way joins it. `Remove` and `DeleteForTenant` are the two statements of the removal. Time is a choice: `GrowLate` and `GrowStale`.

### ExchangeQueue

`jobs` are handler runs that insert a row, wait and are told (`Told`) or give up (`GiveUp`); `rows` is `exchange_jobs`, `workers` the
PowerShell programs with the handler that serves each of their requests: `Poll` (with `Expire`), `Claim`, `SetRunning`, `AppendLog`,
`Operate`, `FinishRead`, `FinishFacts`, `FinishRow`. `effects` counts how often the operation of a row was carried out. `GrowSilent` is the
time after which `Expire`, made by any worker's poll, closes a row nobody reports on as failed.

### TenantOperations and TenantJobs

A tenant is a set of facts, tuples such as `<<"assigned", target, intent>>`. `...Program` gives the steps of a handler in their order,
`...Verdict` how it goes on after a reading step, `...Effect` what a request changes, `...Preview` what the preview code promises.
In `TenantJobs` each job has its preview, then starts, and executes its steps: `Ask` reads, `Send` changes the tenant, `Rejected`,
`AnswerLost` (the effect happened, the client sends again, as `graph-client.ts` does) and `Fails` are the ways a request ends otherwise. Azure
operations are accepted, end later or conflict (`Accepted`, `AzureEnds`, `WaitEnds`, `WaitTimesOut`, `Conflict`). `Accepted` chooses whether the answer names
an operation; where it names none the job does not wait and succeeds at once, which is noted as `blind`, as is a success on an unreadable list. `Repeat` is BullMQ running a
handler from its start, `Portal` the administrator of the tenant (`Toggled`: what goes or comes with the fact he changes). Which handlers
run together is a case of `MCTenantJobs`. `Possible` says which facts can hold together at Microsoft: a rule is on or off, a schedule belongs
to a script, flags carry nothing. `NewId` is the number of a new object, one no other object of its kind has.

An assignment may have `<<"settings", target>>`, which a list that is written back loses. A job reads the first `PageSize` assignments
(`FirstPage`) and notes as `paged` that there were more. Whether a group is one of Microsoft 365 is decided when it is loaded and kept in
`unified`. A preview is told whether the request was `valid` in the eyes of its own checks, which the handler may not repeat: `Warned` are the
jobs whose preview announces a refusal nobody makes. `Nowhere` is a forwarding rule without an address, which the handler refuses and
the preview does not mention; the API's route lets no such request through (`mail.ts:124`), so it takes another way into the queue.

### DeviceScripts

`scripts` are the objects in Intune, `asked` the requests it holds for the device, `reports` the last report per object: when it was made
(`n`) and when the device last synchronized (`sync`), in numbers of `time`, which counts reports and synchronizations and stands for their timestamps.
`device` is what it runs, whether the person has administrator rights, whether the task that takes them away is there, and whether
a revoke has `missed` the member. A handler runs `Create`, `Start`, `PollTransient` or `Timeout`, `Delete`; the library jobs `EnsureList`, `EnsureCreate`, `Baseline`, `PollLibrary`, `Last` with the
rule `Fresh` of `isFreshRunState`: the later of the two times is after the start, or either differs from what was there before. The
device's steps are those of the PowerShell templates: `Grant` in its two commands, `Revoke`, whose look-up may miss the member before it
unregisters the task in any case, `Execute`, `TaskRuns`, `PowerCut`. `Sync` gives reports of earlier runs a new time.

### AppRollout

`row` is the deployment row, `requests` the rollouts, `runs` the publish jobs. `Upsert` is `upsertDeployment`: an update is one statement with the
look, an insert may fail because another request was faster. `LookPending`/`WritePending` are the route's late first write, `Decide` the
queue, `Load`, `Check`, `LookRecord`/`WriteRecord` the handler, `Post`, `Upload`, `Poll`, `Pin` the work in Intune.

### SignInRules and Alerting

`SignInRules` has the rules of `anomaly-rules.ts` as operators over a sequence of sign-ins. In `Alerting` sign-ins come into the
log late (`SignIn`), an evaluator begins with those of its window, and looks at the row and writes it for each finding (`Look`, `Write`),
stores, mails (`Mail`, `Stamp`) and goes on with the operational rules at most once per `MinInterval`. `ProcessEnds` and `Fails` cut it off between any two steps.

Of the window an evaluator gets one page: all sign-ins if they are at most `Top`, else any `Top` of them (`Pages`), since the code asks for no
order. A mail goes out through the Graph client: `MailUnanswered` is a request whose answer did not come, after which the mail may
be out or not, and the client sends again until it has tried `Attempts` times. A row keeps as history how many mails told of it, how many of these
lost their answer, and how many evaluations told of it (`mails`, `lost`, `tellers`).

### TeamAccess

`users`, `sees` and `sessions` are the three tables, `requests` the HTTP requests with what each has read. `Find`, `Stamp`, `First`,
`InsertUser` are `findOrCreateUser`, which every sign-in and every bearer token passes; `Resolve`, `Touch`, `RevokeSession`, `Prune` the
sessions; `Load` is `loadUser`, `See` is `canAccessTenant`; `Member`, `CountOwners`, `SetRole`, `SetActive`, `Unassign`, `Assign` are the
statements of `updateTeamMember`. A session created by a request bears its name. `given` and `held` are history: the role an
account was last given, and the rights it has had since a request began.

## 4. Runs

Passing:

| Run | Question | Properties |
|---|---|---|
| `job_faults` | three overlapping requests of two people, two slots, the sweep; every statement may throw, one crash | `TypeOK`, `ApprovedBeforeRun`, `DistinctApprovers`, `EffectsWithinAttempts`, `CompletedIsAudited`, `SettledStays`, `GateKept` (refinement of `JobGate`) |
| `job_liveness` | two jobs with three attempts and a stall to forgive, one slot, throwing statements, two crashes, fairness | `AcceptedFinishes`, `EveryRowCloses` |
| `audit_chain` | four log calls, one old row, a paged verification, one changed row | `NoFalseAlarm`, `NoFalseOk` |
| `build_queue` | two engineers' requests (also changes of the installer type), two workers of which one is reliable, one fault, fairness | `TypeOK`, `ExclusiveClaim`, `SuccessIsOwnUpload`, `ReadyHasArtifact`, `ResultStays`, `BuildsClose` |
| `inventory` | a page, look-up or refresh with the tick, the worker, the tenant's removal, one crash or failed statement, fairness | `IsSnapshotCache` (refinement of `SnapshotCache`), `StaleIsRefreshed`, `RemovedFallsSilent` |
| `exchange` | a job and its handler runs, two workers of which one may hang, two faults, fairness | `OnceForEachRun`, `SuccessIsEarned`, `ToldIsFinal`, `RowsClose` |
| `tenant_jobs` | twenty-four pairs of jobs of all kinds, the administrator of the tenant, two faults, lists of two pages, answers without an operation | `SuccessIsDone`, `PreviewKept`, `OnlyStaleHurts` |
| `scripts` | three pairs of script jobs on one device that may synchronize at any time, one fault, fairness | `NothingLeft`, `ResultIsOfRun`, `TimeoutIsHarmless`, `RightsEnd` |
| `rollout` | two rollouts of a package to a tenant, an edit or deletion, one fault, one crash, fairness | `PublishedIsComplete`, `RecordedAppStays`, `RowSettles` |
| `alerting` | the tick and a request, late sign-ins, lost answers, windows of more than a page, changes of status | `MailOnce`, `BurstIsStored`, `ResolvedStaysQuiet` |
| `team_access` | three requests on two or three accounts: owners against each other, an owner against an engineer at work, first sign-ins | `ActsWithPresentRights`, `GivenRoleHolds`, `OnlyStaleTakesLastOwner` |

Several properties name an exception, and the exception is what the code does wrong or cannot do right:

- `EffectsWithinAttempts`: a handler may take effect more than once, since BullMQ repeats it.
- `NoFalseAlarm` blames rows committed out of the order of their times on the table, not on the verification.
- `ResultStays` excepts a report that found its build open and has not yet written, `SettledStays` a job with an approval under way.
- `ToldIsFinal` speaks of jobs that were told a result; one that gave up waiting may see its effect later.
- `ReadyHasArtifact` excepts a package that was once saved as one of the store: it is ready at once, and stays so when its type changes.
- `ResultIsOfRun` excepts a report `tolerated` as young, and one that a later synchronization made look new.
- `RightsEnd` speaks of rights whose task was created, and excepts a revoke that missed the member.
- `SuccessIsDone` and `PreviewKept` need that nobody else changed the tenant (`quietRun`, `quiet`), and except `blind`; the latter also an
  object made `twice`, a list of more than one page, and the disagreements of preview and handler (`Warned`, `Nowhere`).
- `OnlyStaleHurts` and `OnlyStaleTakesLastOwner` say when a lost update can happen, not that none does: something changed since the look, the
  list had more than one page, or the group was none of Microsoft 365 when it was loaded.
- `MailOnce`: one evaluation tells of an alert, but its mail goes out again when an answer was lost.
- `BurstIsStored`: the first burst of a window, as the rule names no other, and windows with at most one page of sign-ins.
- `ResolvedStaysQuiet` excepts an evaluation that had read the row before it was resolved, or had made it.
- `GivenRoleHolds` excepts a role given while a sign-in of that person, or a bearer request, was between its two statements.

Violated, a disagreement between code and documentation with a counterexample:

| Run | The code | The text |
|---|---|---|
| `job_first_stored` | `jobs.status` is `varchar(20)`, the status after a first approval has 23 characters: PostgreSQL rejects the UPDATE, so no job that needs two approvals can get the first | `docs/setup/local-development.md:611-612` |

### Known divergences

The models contain the following as behaviour; no run is spent on them. The first column names the steps that show it.

| Where | The code | The text or the expectation |
|---|---|---|
| `JobQueue`: `ApproveFirst`, `SavePreview` | the row exists with "no second approval" while its preview is generated; approved in that window it runs with one | `docs/setup/local-development.md:608-611` |
| `JobQueue`: `SaveCancel`, `Start` | cancelling a queued job changes the row, the BullMQ entry stays and is executed | `docs/api/openapi.yaml`, 200 of `/jobs/{jobId}/cancel` |
| `JobQueue`: `SweepPending` | the sweep cancels a pending job ten minutes after its creation, its preview is valid for fifteen | `core/jobs/job-queue.ts:37`, `CHANGELOG.md:217-219` |
| `AuditChain`: `Stamp`, `Lock` | the time is taken before the lock, so the head of the table by time is not the row committed last: two rows name one predecessor, and the untouched log is reported as broken | `audit-logger.ts:4-6` |
| `BuildQueue`: `Poll` | builds expire only when some worker polls: with the only worker gone its build stays open and blocks the package | `apps/worker-windows/README.md:23-25` |
| `BuildQueue`: `Plan`, `EditWrite`, `UploadPatch` | an edit between plan and upload leaves an artifact of the old version under the new one, and the package ready | `updateManifest` in `packages.ts` |
| `BuildQueue`: `InitialStatus`, `Edited` | an edit keeps the status of what is no draft: a store package, ready at once, stays ready when it becomes one that needs an artifact, and is rolled out to jobs that fail; an artifact stays though the type no longer fits it | `packages.ts:107`, "der Rest wartet auf Upload" |
| `InventorySync`: `Store`, `DeleteForTenant` | a load under way writes its snapshot again after the removal | `docs/setup/local-development.md:874` |
| `DeviceScripts`: `Sync`, `Fresh` | where the device synchronized after the start, the report of an earlier run is taken for the result | `remediation-provider.ts:100-108` |
| `DeviceScripts`: `Revoke` | the revoke script misses an account that is named locally or by SID, or whose look-up fails, removes the task all the same and exits 0: the account stays administrator for good | `temp-admin.revoke.ps1:4`, `docs/setup/local-development.md:549` |
| `DeviceScripts`: `Grant`, `PowerCut` | cut off between its two commands, a grant leaves rights no task takes away | `temp-admin.grant.ps1:36`, `temp-admin-job-handlers.ts:5-7` |
| `AppRollout`: `Decide`, `WritePending` | a rollout to a tenant that has the app makes a second one; a late "pending" overwrites "published" | `app-publish-job-handlers.ts:111` |
| `AppRollout`: `Crash`, `UploadFails`, `Post` | a second crash leaves the row at "publishing" for ever; a failed upload, or a lost answer, leaves an app nobody owns | - |
| `TenantJobs`: `Ask`, `Send` | assignments and owners are read and written back in two requests: jobs that overlap lose each other's, or take the last owner | group and app handlers check before they write |
| `TenantJobs`: `AnswerLost`, `Repeat` | groups, forwarding rules and restarts happen twice after a lost answer; `concurrencyPerTenant` is not enforced; a repeated `vm.deploy` loses the password it set | - |
| `TenantOperations`: `FirstPage`, `Merge` | only the first page of an app's assignments is read before the list is replaced: what is on the second is lost, and what is kept loses its settings | `app-provider.ts:146`, "gleiche Zielgruppe ersetzt die alte Zuweisung, sonst wird angehaengt" |
| `TenantJobs`: `Accepted` | where Azure's answer names no operation (`arm-client.ts:102-111`), a resize or a power job reports success while Azure still works, or fails afterwards | `vm-job-handlers.ts:169`, "der Job meldet das als Fehler" |
| `TenantOperations`: `GroupVerdict` | whether owners are counted is decided by the kind of the group when it was loaded | `group-job-handlers.ts:66` |
| `TenantJobs`: `PreviewOf`, `Warned` | the previews of `vm.deploy` and `mailbox.set-auto-reply` announce a refusal, the handlers do not look and succeed | `vm-job-handlers.ts:238`, `mailbox-job-handlers.ts:110` |
| `TenantJobs`: `Nowhere` | a forwarding rule without an address is refused by the handler, its preview shows it as possible (no route sends one) | `mailbox-job-handlers.ts:139` |
| `TenantJobs`: `MonitorVerdict` | `tenant.monitor-disable` reports success when the list of scripts cannot be read | `monitor-job-handlers.ts:109` |
| `Alerting`: `Mail`, `Fails`, `ProcessEnds` | an alert that is stored when the evaluation ends before its mail is never mailed | - |
| `Alerting`: `Pages` | an evaluation reads at most 500 sign-ins and no further page (`alerting.ts:92`): in a busier window a burst is cut off and lost | `docs/setup/local-development.md:344-345` |
| `Alerting`: `MailUnanswered` | the Graph client sends a POST again after a lost answer: one alert may be mailed up to four times, and stays unmarked when no answer ever comes | - |
| `SignInRules`: `Finding`; `Alerting`: `Write` | a burst over midnight alerts twice, a new one on the day of a resolved alert is swallowed, disk and certificate alerts never come again once resolved; overlapping evaluations may set `lastSeen` back | `operational-rules.ts:8-10` |
| `TeamAccess`: `CountOwners`, `SetRole`, `SetActive` | two owners who demote or deactivate each other at once leave none; nobody can undo it in the console | `access.ts:69-70`, `docs/setup/local-development.md:632-633` |
| `TeamAccess`: `Stamp` | a sign-in or bearer request writes back the role it has read, over one an owner has set meanwhile | `users.ts:4-7` |
| `TeamAccess`: `Find`, `InsertUser` | `entra_object_id` is not unique: two first requests of one person make two accounts, and the first two people may both become owners | `users.ts:4-7` |
| `TeamAccess`: `SetActive`, `Load` | `revokeUserSessions` is never called: sessions of a deactivated account revive when it is activated again | `sessions.ts:93` |
| `TeamAccess`: `Member` to `Assign` | an update of a member is up to four statements: a failure leaves a part of it, and two updates unite their tenants | - |

Reads of Microsoft Graph that lag behind its writes are not modelled.

## 5. Bounds and symmetry

**Job queue.** `Users` two: approvals are at most two, and a third person adds no case to `SameApprover`. In `job_faults` `Calls` is three: creation and
two approvals that overlap, or an approval and a cancellation. It has one job: jobs share nothing but slots and the sweep, and no property relates two of
them. `Attempts` two and `MaxStalled` one (the code: three and one) give each kind of repetition once. Times keep the order of
the code's constants: `PreviewTtl` (15 minutes) shorter than `SecondWindow` (4 hours), `PendingTtl` (10 minutes)
below `PreviewTtl`, `ActiveTtl` (2 hours) between. The liveness run has the code's three attempts and
one stall to forgive with two crashes, so that a job is retried, handed out again and at last given up; it has two requests, one that creates a job and one that
approves or cancels it or creates the other. `LastCreate` = 0 creates jobs at the start only, and `MaxTime` lies beyond the
last deadline that follows. `PromptCalls` lets the clock move only between requests: a request takes
seconds, the deadlines minutes and hours. The proofs do not need it. `ColumnWidth` is what the store's status column holds:
20 in PostgreSQL and in the other runs; `job_faults` sets it to 40, the in-memory store of the tests, because with 20 the second
approval is unreachable and the properties about it would say nothing. Both values are covered by the proofs.

**Audit chain.** Four log calls and pages of two rows: a page boundary falls before, between and after
concurrent inserts. Two milliseconds give equal and different times; one row without a hash is the legacy prefix.

**Build queue.** A package of winget can be built from the start, so two requests reach every pair of an enqueue with an edit, an upload, a deletion or a second
enqueue; two workers are what a race for a claim and a late report need. Each request creates at most one build, so `Builds` has as many
numbers as there are requests. The age of a build saturates just above `StaleAfter`, so no clock bound is needed. Two versions of the manifest. `Offered` has a type built
from a file, winget and the store, the three that begin in different statuses; intunewin begins as the first. `MaxFaults` one: a killed worker, a lost
request or a failed handler per run. `MaxLines` one progress line renews a claim once.

**Inventory.** One kind, since kinds share only the worker's slots; one request beside the tick and the worker, so that two loads
meet (`MaxLoads`); two changes at the source, so that an older state can be told from a newer; one crash or failure.

**Exchange.** One job, which runs twice when the first run is cut off; two workers, of which `w1` may stop anywhere; two faults,
so that the repetition of a job meets a failure of a worker.

**Tenant jobs.** Each case of `MCTenantJobs` is a pair that touches the same object, with the facts the administrator may change. Two
faults: a lost answer and a repeated run, or a failure of each. Scripts: the pairs in which jobs can mistake each other's
reports or rights, and one fault; `MaxTime` two lets the device synchronize after a first report, before or after the start of a second run. `PageSize` is three (the code reads a page of Graph), and
one case has a list of four. Rollout: two rollouts are what overlaps on one row; a crash and a failure.

**Alerting.** Six cases, each with bounds of its own for ticks, requests, changes and failures: a burst over several ticks, the same with a third
sign-in, which is more than a page, a burst with status changes, two users (spray), a mixture for the other rules, conditions of machines and devices. `Window` is 4 ticks (the code: two
hours in ticks of ten minutes, twelve), the rules' windows one tick, a day three, so that bursts cross window and midnight. Thresholds are two
and three instead of the code's, which keeps the order of the rules. `Top` is two sign-ins to a page (the code: 500), so that a burst fits and one more sign-in may displace
it; `Attempts` is two (the code: four), which a lost answer needs. A waiting tick holds the clock: an evaluation takes less than two ticks.

**Team.** Three requests, three accounts: two owners who act and one who is deactivated; an owner and an engineer with two requests; a
team that is empty. `Lifetime`, `IdleTime`, `TouchEvery` keep their order; two ticks reach an idle session and one renewed at its end. A pruned
session is long over, so no request that uses it is under way.

**Symmetry** is used in runs without liveness, over requests, slots and people (job queue), and over log calls (audit
chain): no definition distinguishes them. Where ids are ordered or cases name requests there is none.

**CHECK_DEADLOCK FALSE** wherever requests and jobs are finite: the system comes to rest. The build queue never does, its workers
go on polling.

## 6. Fairness

- Job queue: the event loop runs each pending continuation (`CallStep`), BullMQ hands out entries
  (`Take`) and checks for stalls, the processor goes on (`RunStep`), the sweep is a timer, time passes. New requests are not fair,
  nobody has to click. `Handle` is not fair: nothing in the code enforces the registered `timeoutSeconds`, so `EveryRowCloses` holds
  even when handlers hang, while `AcceptedFinishes` names their return as its premise.
- Build queue, Exchange queue: handlers of the API run to their end, workers in `Reliable` keep polling and end what they began, other
  workers may stop anywhere; the Exchange handler's wait ends, because it has a time limit.
- Inventory: the scheduler's tick, the continuations of loads and requests, the queue's worker, and the lapse of the stuck limit. That a
  snapshot grows stale is not fair, and need not be.
- Scripts: a scheduled task runs, since Windows runs it. Handlers may stop, and the device need not come online (`Fetch`) or end a script it has begun:
  rights with a task end all the same.
- Rollout: the run of a publish job goes on (`RunStep`); requests, failures and the crash are not fair.

## 7. Proofs

`JobQueueProofs`, for every set of jobs, people, requests and slots and all limits, from `SetsAssumption` (previewed
jobs are jobs, the policy answers Booleans, `None` is no job and no person) and `TimesAssumption` (limits are natural
numbers, `PreviewTtl`, `SecondWindow` and `Attempts` positive):

| Theorem | Statement |
|---|---|
| `TypesAlways`, `TypeCorrect` | the shapes of all variables; at most two approvals in any list, stored or held |
| `ApproversDistinct` | two stored approvals are by two people |
| `EffectsBounded` | at most `Attempts + MaxStalled` effects |
| `ApprovalPrecedesRun` | no previewed job reaches BullMQ without an approval in its row |
| `SettledForever` | a closed job BullMQ never saw, with no approval under way, stays closed |
| `CompletionAudited` | a job BullMQ counts as completed has its entry in the audit log |
| `QueueKeepsGate` | `Spec => Gate!GateSpec`, the refinement of `JobGate` |

The argument. None of the properties is inductive. `Types` is the shape alone. `Lists` says which lists of approvals go with which
status: none with a pending row, exactly one with a row that awaits its second, and never two of one person, in rows and
in what requests hold, which is what a blind write needs to keep the row legal. `WorkInv` has two parts:
`Exclusive`, an execution's entry is active and no other execution has it; and `Budget`, the effects so far are covered by
attempts made and stalls counted, plus one while an entry is active. `Exclusive` is why a crash, which drops
executions, and a stall, which hands an entry out again, cannot spend the budget twice. `Approved` says that behind every BullMQ
entry, and every request about to add one, is a row that exists and, for a previewed job, has an approval; no write ever
shortens the list. The refinement then follows step by step: each action of `JobQueue` is an `Approve`, `Accept`, `Use` or
`Close` of the gate, or a stutter, and `Use` needs exactly `Budget` and `Exclusive`. For the audit `Audited` adds that an
execution about to tell BullMQ of its end has written its entry.

`BuildQueueProofs`, for every number of requests and workers, every set of versions and all limits, from `BuildAssumption` (finitely
many requests, reliable workers are workers, limits are natural numbers, `None` is neither version, worker nor number):

| Theorem | Statement |
|---|---|
| `TypeCorrect` | the shapes, and a worker in exactly the rows that were claimed |
| `ClaimsExclusive` | no build in the hands of two workers |
| `SuccessesUploaded` | a build that succeeded delivered its own artifact |
| `ReadyPackages` | a ready package has an artifact, or was once saved as one of the store |
| `ResultsFinal` | a closed build keeps its result, unless a report had found it open |

The argument. `Own` ties workers to rows: while the package exists, a build that is held names its holder, a waiting one names nobody, and
after deletion nothing is left, so `Take` and `EnqueueInsert` can only touch builds no worker has. `Done` carries "success
claimed" only after an upload, from `UploadPatch` through `FinishRead` to the row. `Ready` says that whoever will write "ready", an edit that
has read it or a report, has seen an artifact, or a package that is or was one of the store, and artifacts are replaced but never taken away. `Fresh` says
that between claim and plan a build is claimed and of age 0, so `MarkBuild`, which does not look at the status, cannot
reopen a closed build. `Fresh` rests on the guard of `Tick`: the statements of one claim take less than the two hours
of `STALE_BUILD_MS`.

`AuditChainProofs`, for any finite set of log calls, any number of legacy rows and every page size, from `ChainAssumption`
(`Page` is positive, `None` is no log call and no hash):

| Theorem | Statement |
|---|---|
| `TypeCorrect` | a finite table of rows; a hash lists the entries it was computed from |
| `NoFalseAlarms` | a broken chain is reported only for a changed row or rows out of the order of their commits |
| `NoFalseAssurance` | an ok means that all was intact when the verification began, and that all rows of then were read |

The argument. A row that is inserted before others moves them, so nothing may rest on positions but what the lemmas on the order of
the table say: positions number the rows without gaps, an insert never moves a row forward, and one at the end moves none. No false
alarm: in a table that is intact *after* an insert the new row is last, so it was intact before, and `Linked`, each row names its
predecessor, follows from `Locked` and `Stamped`: who has read the head holds the lock, so the head is still the head. `Walk` then says that
between pages the verification holds the hash of the row before its offset. No false ok: `Ancestors` says that an entry whose hash is
a prefix of what another was computed from was committed before it, which holds because nobody has seen the hash of a row that is not yet
inserted (`Written`). `Evidence` carries what was wrong at the start: a changed row still ahead, or two rows in the wrong order
of which the later is ahead and the other ahead too, or already in the current hash. A page that passes leaves the evidence
ahead, because the hash at its end extends the hash at each of its rows; that is an induction over the page, made with the
least row that fails. At the last page nothing is ahead.

`ExchangeQueueProofs`, for finitely many jobs and any workers, from `ExchangeAssumption`:

| Theorem | Statement |
|---|---|
| `TypeCorrect` | the shapes; a worker that works has a row, one that reports a success is past the operation |
| `CarriedOutOnce` | a row is carried out at most once, by the worker it names; no more rows than runs |
| `EarnedSuccess` | a job that succeeded had its operation carried out in its own row |
| `ToldForever` | a row whose result a job was told keeps it, and is not carried out later |

The argument. `Own`: a worker's row names that worker, so no two work on one. `Once`: a row is carried out by its worker on the way from
`exec` to `report`, and who stands before it has not. `Earned`: success in a row or in a worker's hand is an effect. `Informed` ties what a job
knows to its row: a job waits only while its row is not silent, and a row closed without having been silent is in no worker's hands, so
nobody works on a row whose result a job was told. `Counted`: each run of a handler inserts one row.

`RolloutAndTenantJobsProofs`, first part, for any set of rollouts, from `RolloutAssumption` (`None` is no app):

| Theorem | Statement |
|---|---|
| `OnlyCompleteApps` | published rows and successes name an app whose content is committed and pinned |
| `RecordedStays` | a repeated job that recorded its app does not open the row again |

The argument. `Uploaded` says what the app of a run has at each step of its upload, `Recorded` that a published row has the complete one.
`Settled`: the job named in a published row stands behind its write, or starts over and will find the row published. `Begun`, a job whose rollout
has not come has not begun, keeps a new rollout from touching a run under way.

Second part, for any number of jobs side by side, any objects, any tenant and any number of lost answers, failures and repeats, from
`TenantAssumption` (a job is of a type its area registers, the facts at the start and those the administrator changes are possible ones):

| Theorem | Statement |
|---|---|
| `DoneWhenReported` | a success means the goal is reached, unless somebody else changed the tenant during the run or the success was blind |
| `ComesAsShown` | what the preview showed comes about; refused means the preview said so, and nothing was sent; the exceptions are those of the property |
| `HarmsOnlyWhenStale` | an assignment not asked for is lost or returns, and a last owner goes, only if that changed since the job looked, the list had a second page, or the group was of another kind when it was loaded |

The argument. The run checks twenty-four pairs of jobs; the proof takes a single job and a tenant of any facts, since what others do is no
more to it than a change of the facts (`Disturbed`). `Way` says, place by place in each program, what a job that nobody interfered with finds: the
account is disabled when its sessions are revoked, a group was found or made for each intent, the list it merged still merges to
the same if it was read whole (`AsRead`), the operation that is done has reached the goal. A job that did not wait for its operation (`Unwaited`) has no `Way`, since it
knows nothing of what Azure still does, and is blind from then on. `Kind` keeps the kind of the group at what it was when it was loaded. `Sends` proves for every kind of job that a request carries `Way` to the next place,
also when it is carried out twice, and that the last one reaches the goal; `Asks` that a handler which finds nothing to do, or skips a step, is
right. For the preview the idea is a fixed point: after each request a *new* preview of the tenant would show what the first one did
(`Comes`), and when the goal is reached a preview shows what is there (`DoneIsShown`). `Foretold` is that preview for a list read whole and a valid
template, so that it depends on the facts alone. Only jobs that make a new object each time (`Fresh`: forwarding
rules, device actions) fall out of this; for them the one request carried out once leads from the one to the other. Merging a list twice is
merging it once (`MergeTwice`), which is why `apps.assign` survives a repeated request. For `HarmsOnlyWhenStale`, `Counted` keeps what the
owner count has seen until the owner is removed (`LastSeen`), and that a list not noted as paged was read whole; `Spares` compares each effect with
what the job saw.

`TeamAccessProofs`, for any people, tenants and requests and any table of at most `MaxRows` accounts, from `TeamAssumption` and
`CasesAssumption` (the cases are tables and plans of the right shape):

| Theorem | Statement |
|---|---|
| `PresentRights` | who acts was active, in that role and for that tenant, since his request began, and used no session revoked before |
| `GivenRole` | an account has the role it was last given, but for a clash with a sign-in |
| `LastOwner` | the last owner is lost only by a request that has seen other owners than there are |

The argument. Each request is judged alone: `Remembers` says that the rights it goes by are among those its account has had since it
began, which later changes cannot take out of history; `Opened` the same for its session. `Informed`: a request that may write
has seen itself among the owners or more than one of them, and one about to write a role back holds the role last given, or a
clash is on record. For `LastOwner` a write that takes the last owner, by a request whose count is still right, contradicts `Informed`.
`Fresh` keeps the session of a sign-in that is still under way from being used.

`InventoryAndAlertingProofs`, first part, for any kinds and requests, from `InventoryAssumption`: `SyncImplementsCache`, `Spec => IsSnapshotCache`, the refinement of
`SnapshotCache`. The argument. `Single`: the map of loads under way admits one load per kind. So between a load's answer and its
`Store` no other load of the kind stores, which is `Current`: the answer is not older than the snapshot it replaces, and neither is
of the future. `Store` is then a `Publish` of the cache, the statement of the removal a `Clear`, all else a stutter.

Second part, for any sign-ins, conditions, rules and evaluators, without an assumption on the cases:

| Theorem | Statement |
|---|---|
| `MailedOnce` | one evaluation tells of an alert; it mails again only after a lost answer and at most `Attempts` times, and marks the alert as notified only after an answer |
| `ResolvedIsQuiet` | while an alert is resolved, only an evaluation that had read or made it before touches it |

The argument. `MadeByOne`: the insert admits one evaluation per alert, so no two have the same alert among those they have made, and
only these are told of. `Telling` says what has become of them: before its first request an alert has no mail and no teller, between
two requests every mail of it lost its answer and there are no more of them than tries, and after the answer there is one more. Whoever else looks
at a row finds it as its teller left it (`RowOK`), also when the evaluation is over, cut off or has given up. Nothing of the rules is needed, so the
theorems hold whatever they find.

`DeviceScriptsProofs`, for any set of jobs on the device, from `ScriptAssumption`:

| Theorem | Statement |
|---|---|
| `TypeCorrect` | the shapes |
| `NothingIsLeft` | a job leaves no more transient objects than there were faults |
| `OwnResult` | a transient success is of the job's own script; a library result not marked as old has a later report or synchronization than the state before the start, or is tolerated |
| `NoLateEffect` | a transient job that is over without a fault, or whose object is gone, takes no effect the device had not begun |

The argument. `Fits` says for each job what it has at each step: `Stage` its object, `Compared` that the state it compares with was there before the
start and what differs from it has a larger number, of the report or of the synchronization (`Later`), `Earned` that a success is in the history. `Carried` follows a transient script from the
request to the device and its report: all name the job that owns the object, which is where no two runs can be confused. `NothingLeft` is
inductive beside these: an object is left behind only by the step of a fault, which is counted.

Two of the modules hold the proofs of two parts each. They share nothing but the file: neither part cites the other.

Only model-checked: liveness (outside the prover's reach, as are fairness and `ENABLED`), and `BurstIsStored`. That no burst is
lost holds only as long as the schedule's faults are fewer than a window has ticks, which is a bound of its cases and not an assumption the code
justifies for all, and the rule counts over selected parts of a sequence, which needs an induction over it.
The disagreement with the documentation is a counterexample, which needs no proof.

## 8. Not modelled, and why

- Approval policy: a pure function of settings and parameters; `JobQueue` is checked for every answer of it. Planned.
- Token cache and rate limits: state in the memory of one process, one entry per key. Planned.
- Batches and schedules of `routes/jobs.ts`: they create several independent jobs.
- Handlers that only read, and the mapping of Microsoft's answers in `core/providers`: no state of their own.
- Files of the artifact store, checksums, Winget data, wrapper scripts, signing, the `.intunewin` format and the text of script
  templates: I/O and parsing. In `BuildQueue` a build either fails or yields an artifact for the version its plan was made from.
- Thresholds of the operational and monitor rules: comparisons of one value. Their fingerprints are in `Alerting`.
- Login state, token verification, the CSRF proof, cookie attributes and the development bypass: checks of one request without
  shared state. In `TeamAccess` a request that comes in has passed them.
- Tenant connection: consent and check are one request to Microsoft and one UPDATE each.
- Worker tokens and result sealing: one row and one statement each, or cryptography over one value.
- Read routes, MCP tools, posture, dashboard, vulnerabilities, price and endpoint lists: they evaluate snapshots or public
  feeds and change no state of their own.
- The web console: a client, whose requests the models choose freely.

Of the repository's lines most are of these last kinds: the console is two fifths of them, `packages/types` is declarations, and the
larger part of `core/providers` and `api/routes` turns answers of Microsoft or rows into what a page shows. What decides and changes
state is in the parts of section 2.
