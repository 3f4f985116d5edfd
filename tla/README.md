# A verification of the FaaS engine's runtime manager

TLA+ models, TLC runs and TLAPS proofs about `faas-engine-go`: the part of the
system where requests, background workers and administrative operations change
the same tables, containers and images at the same time. Paths below are
relative to `src/` of the repository; `service/`, `api/`, `sqlite/` and `sdk/`
stand for `internal/service/` and so on.

Five parts are modelled, checked and proved about:

| module | what it models | runs | proofs |
|---|---|---|---|
| `ContainerPool` | invocations and the containers they share with two reapers | `pool`, `restart`, `faultfree`, `rollback_busy` | `ContainerPoolProofs`, `PoolTrackingProofs` |
| `Leases`, `PoolLeases` | what the pool promises, and that the pool implements it | `restart` | `LeasesProofs`, `PoolLeasesProofs` |
| `Shutdown` | the end of the process: `main` and `GracefulShutdown` over the pool | `shutdown` | `ShutdownProofs` |
| `LogStream` | one stream of a function's logs | `stream` | `LogStreamProofs` |
| `FunctionVersions` | deployments, rollbacks and deletions of one function name | `versions`, `rollbacks`, `rollback_race`, `history` | `FunctionVersionsProofs` |
| `Registry` | what they promise, and `FunctionVersions` implements | `rollbacks` | `FunctionVersionsProofs` |
| `Scheduler` | the schedules table against the cron of the process | `schedules`, `orphans` | `SchedulerProofs` |
| `Timetable` | what the schedules promise, and `Scheduler` implements | `schedules` | `SchedulerProofs` |

`Shutdown` extends `ContainerPool` and composes with it; `PoolLeases` instantiates
`Leases` with a refinement mapping of the pool, `FunctionVersions` instantiates
`Registry` with one of its rows, and `Scheduler` instantiates `Timetable`.

## Running it

    tlasany ContainerPool.tla
    tlc -workers 2 -config MCContainerPool_pool.cfg MCContainerPool
    tlapm ContainerPoolProofs.tla

A configuration `MC<module>_<run>.cfg` belongs to module `MC<module>`, which
extends the model and gives the constants that a configuration cannot write.

## Inventory

**Container pool** (`service/invoke_service.go`, `service/container_spleen.go`,
`service/rollback_service.go:142-203`, `sqlite/store/container_store.go`,
`sqlite/store/invocation_store.go`, `sdk/container.go`, `api/invoke.go`).
*State:* the `containers` and `invocations` tables, the containers of the Docker
daemon, the locals of each request goroutine. *Operations:* `Invoke` resolves the
active version, records the invocation, takes a free container or starts a new
one, calls it and completes; the spleen deletes containers that have not been
used for 10 s, with two workers; the goroutine that a rollback starts deletes
the free containers of the version that was left. *Interaction:* only through
the tables and Docker: no lock is shared. *Hard:* every reaper works on a list
that is stale when used; the HTTP context of a request cancels its own cleanup;
each of six calls in a row may fail; the process may die with rows busy.
*Correct when:* a container serves one request at a time, of the version that
the request resolved; a free row can be used; nothing leaks while nothing fails; the
record of an answered invocation says how its calls ended.

**Function versions** (`api/deploy.go`, `service/deploy_service.go`,
`service/rollback_service.go`, `service/delete_service.go`,
`sqlite/store/function_store.go`, `sdk/image.go`, `api/rollback.go`,
`api/delete.go`). *State:* the `functions` and `version_history` tables, the
daemon's local tags, the registry's tags, the cooldown map. *Operations:*
deploy (build, tag, push, untag, number, deactivate, insert), rollback to a
version or to the previous one, delete with one goroutine per version. *Hard:*
no operation excludes another; the version number is computed twice; images
and rows are changed by different calls. *Correct when:* one version is active,
and every row names the image of its own deployment.

**Scheduler** (`service/schedule_service.go`, `api/schedule.go`,
`sqlite/store/schedule_store.go`, `cmd/runtime-manager/main.go:67-74`).
*State:* the `schedules` table, the map of cron entries, one semaphore per
schedule. *Operations:* load at the start, create, delete by id, by function
name or all, fire. *Hard:* table and map are changed one after the other, by
handlers without a lock, through crashes. *Correct when:* the map follows the
table, and a schedule never runs twice at once.

**Graceful shutdown** (`cmd/runtime-manager/main.go:112-149`,
`service/container_spleen.go:138-340`). *State:* where main is, what it listed and
still has to deal with, the results of its workers, whether something failed.
*Operations:* close the spleen's channel, stop the cron, wait for the HTTP requests
until a deadline; then list, stop, list again, delete, remove rows, and remove the
rows that the second list does not confirm. *Hard:* a cycle of the spleen and
scheduled jobs go on during all of it; each list, stop and delete may fail; the
workers' results are read only after all workers have ended. *Correct when:* no
request that was waited for loses its container, a shutdown that reports success
has left nothing, a container that still runs keeps its row, and main gets to its
end.

**Log streaming** (`service/stream_service.go`, `api/stream.go`). *State:* the
channel of 100 lines, the set `activeStreams`, one goroutine per container.
*Operations:* resolve, poll every 200 ms, launch, open, read, send. *Hard:* the
poller acts on what it saw; the client leaves while goroutines send; the reader is
not cancelled with the request. *Correct when:* a container is streamed once at a
time, its lines arrive once and in order, nothing is sent on the closed channel,
and what the client leaves behind ends.

**Store retry** (`sqlite/store/retry.go`): repeats on a busy database, with
backoff. **Database** (`sqlite/db.go`): opens SQLite in WAL mode with up to 25
connections, and declares the tables. **Reverse proxy** (`internal/proxy`),
**packager** (`internal/buildcontext`), **log retrieval** (`sdk/docker_logs.go`),
**read-only services**, the **command line client** (`cmd/cli`), **runtimes,
samples, installer and unit files**: no state that two steps of two actors
share. `PROJECT.json` has each with the reason it is left out; see "Not modelled".

How they touch: the scheduler calls `Invoke` like a client, by name; deployments,
rollbacks and deletions change the active version that `Invoke` resolves and,
by the cleanup of a rollback, the pool. `ContainerPool` has the changes of the
active version as steps of its environment (`DeployDeactivates`, `DeployCreates`,
`RollbackCommits`), and `Scheduler` has deployments and deletions as single
steps; `FunctionVersions` has them call by call.

## Conventions of the models

One action is one call that another actor can observe: a SQL statement or
transaction, a call to Docker or to the registry, a send or a lock. What a
handler does between two such calls is part of the action before. A call that
may fail has a disjunct for its failure, enabled by a constant of the model
(`DbFails`, `DockerFails`, `Faults`), so that a run says which failures it allows.
Definitions introduced by a comment "Slip:" are plausible mistakes; no
specification uses them. Each of them breaks one property when it takes the
place of the definition that follows it, which is how we know that the property
depends on that definition.

SQLite transactions are atomic. For `GetFreeContainer` (`container_store.go:133`)
this rests on SQLite: the transaction is deferred, although its comment says
IMMEDIATE, and its update does not look at the status again; but SQLite refuses
to upgrade a snapshot that another commit made stale, and the call is retried.
Retries, of the store and of `retryWithBackoff` around it, are folded into the two
outcomes of a call. `busy_timeout` is set on one pooled connection only
(`db.go:47`), so that failures of store calls are to be expected: most runs have
them.

## ContainerPool

State: `known`, `active` are the functions table as the pool sees it; `status`,
`fnOf`, `idle` the containers table; `docker` the daemon; `inv`, `ran` the
invocations table; `pc`, `fn`, `held`, `path` the locals of each `Invoke`;
`departed` the clients that closed their connection; `todo`, `reaper`, `phase`,
`oldFn` the spleen and the cleanups of rollbacks.

| action | code |
|---|---|
| `ResolveFunction`, `CreateInvocation` | `invoke_service.go:39-62` |
| `AcquireFreeContainer` | `container_store.go:133-185` |
| `MarkInvocationRunning`, `InvokeContainer` | `invoke_service.go:93-107`, `170-174` |
| `DeleteFailedContainer`, `RemoveFailedContainer`, `CompleteFailed` | `invoke_service.go:107-118`, `174-181` |
| `CompleteSuccess` | `invocation_store.go:190-250` |
| `PullImage` to `InsertContainer` | `invoke_service.go:125-168`, `247-315` |
| `Age`, `SpleenScan`, `Take`, `Stop`, `Delete`, `Remove` | `container_spleen.go:43-136` |
| `CleanupFindsVersion`, `CleanupLists`, `CleanupEnds` | `rollback_service.go:147-203` |
| `ClientLeaves`, `Crash` | the context of `api/invoke.go:32`; the supervisor |

Abstractions: time is one bit per row, whether `last_used` is older than
`ContainerIdleTimeout`; since a call may last `InvokeHTTPTimeout`, which is also
10 s, the bit may be set for a busy row. A container does not exit by itself, but
any call to it may fail. Host ports, payloads and logs are left out, and so is
the cooldown of rollbacks, which only makes them rarer. Docker never gives an
identifier twice; a model with too few containers would block at
`SpawnContainer`, so the runs have at least as many as their requests create.

## FunctionVersions

State: a row per deployment (`status`, `version`, `created`), `history`, the
bare local tag (`local`), the versioned tags of the daemon and of the registry
(`localTags`, `tags`), and the locals of deployments, rollbacks and deletions.
A deployment builds one image and inserts at most one row, so one name stands
for all three. `mishaps` is a history variable: which of the events happened
that a property excludes.

| action | code |
|---|---|
| `DeployBegins`, `BuildImage`, `TagImage`, `PushImage`, `RemoveImage` | `api/deploy.go:52-90`, `deploy_service.go:32-80`, `sdk/image.go` |
| `NumberVersion`, `DeactivateFunctions`, `CreateFunction` | `api/deploy.go:100-160`, `function_store.go:73-165` |
| `CheckCooldown`, `ValidateTarget` | `rollback_service.go:54-73`, `206-234` |
| `CommitRollback` | `function_store.go:413-549` |
| `RereadActive`, `RecordCleanup` | `rollback_service.go:86-130`, `function_store.go:591-602` |
| `ListForDelete`, `GetDigest`, `DeleteImage`, `DeleteRows` | `delete_service.go:50-127` |

Abstractions: a version is the number of `vN`. A name with an explicit version
never gets past the tag call, since the image was built under the name with the
version, and is not modelled. Two builds never have one digest. The request id of a
rollback is fresh, so that the idempotence branch (`function_store.go:512-530`)
is never taken. A push whose tag is gone counts among the failures that the
daemon reports in its discarded answer. `TagImage` joins the read of the next version
(`deploy_service.go:45`) and the tag call (`53`): a deployment or deletion that comes
between the two overlaps with this one, and what the properties say of numbers, tags and
images excludes overlaps by name; who is active does not depend on either call.

## Registry

`Registry` is a name without rows, clocks, images, handlers and failures: the set of
versions that exist, the one that is current, and whether nothing has overlapped so
far. `FunctionVersions` maps the numbers of its rows to the first, the number of the
active row to the second (0 for none), and the absence of an overlap to the third.
`ImplementsRegistry` is the abstract specification under that mapping: the current
version exists or there is none, a deployment takes it away before it puts a new one
in its place, a rollback moves it; and until something overlaps, a deployment gets
exactly the number after the last, so that the versions are `1..n` whatever was rolled
back, failed or was deleted and deployed again.

## Leases and PoolLeases

`Leases` is the pool without tables, daemon, reapers and failures: a container is
new, free, or out; a request takes one that is not out, and gives it back or loses
it; a free one may be retired. `PoolLeases` maps the pool to it: `holds` is the
local variable `held` of each request, and the state of a container is "new" while
the daemon has not made it, "free" while its row is free, and "out" otherwise.
`ImplementsLeases` is the abstract specification under that mapping. It says more
than `ExclusiveUse`: a container whose row was deleted under a request, whose call
failed, or whose request died with the process is never handed out again.

## Shutdown

State, on top of the pool's: `main` and `spleen` say where their goroutines are,
`begun` which requests and jobs have been started; `listed`, `work`, `results`,
`failed` and `outcome` are the locals of `GracefulShutdown`. `timedOut`, `quiet` and
`blind` are history variables: whether the wait for the requests met its deadline,
whether nothing else was under way when it ended, whether the second list failed.

| action | code |
|---|---|
| `Begin`, `RequestRuns` | the listener and the cron, `main.go:101-115`; `api/invoke.go:16-44` |
| `SpleenCycle`, `SpleenStops` | `container_spleen.go:17-40` |
| `CloseSpleen`, `StopScheduler`, `ShutdownServer` | `main.go:117-139`, `schedule_service.go:43-47` |
| `ListContainers`, `StopContainer`, `StopEnds` | `container_spleen.go:141-215` |
| `RelistContainers`, `DeleteContainer`, `DeleteEnds` | `container_spleen.go:217-290` |
| `ForgetDeleted`, `ForgetEnds` | `container_spleen.go:292-301` |
| `FindOrphans`, `SweepOrphan`, `SweepEnds` | `container_spleen.go:303-340` |

`PoolRuns` is the pool as it goes on meanwhile: requests that have begun, the spleen
until its goroutine has seen the closed channel, which is between two cycles only,
and the passing of time. Jobs are requests without a client that could leave.
Deployments and rollbacks are left out: what they do to containers is one more
reaper, and `ContainerPool` has it. The four stop workers and the four delete
workers are one step per container in any order, which has every interleaving of
theirs. The deadlines of the cleanup are among the reasons why its Docker calls fail
(`CleanupFails`).

What the code does beyond the properties: phase 1 counts a container that the
spleen deleted in the meantime as a failure to stop; a container that was created
and never started is neither running nor exited, and stays; a second list that
fails is not counted, so that every row goes while the stopped containers stay, and
the shutdown reports success (`blind`); and a scheduled job that goes on can start
a container after the second list, which then outlives the process (`quiet`
excludes it).

The process of the model starts without leftovers: rows and containers of a predecessor
that crashed are not among its initial states. With them, the early return of
`GracefulShutdown` when the first list is empty (`container_spleen.go:152-155`, outcome
"empty" in the model) would leave rows without containers unswept, whereas in the model
such rows are about to go by then. `CleanExit` is about what this process did, and does
not say that leftovers are swept.

## LogStream

State: `life` and `written` are the containers and their output, the environment;
`chan`, `closed` the channel; `handler`, `left` the handler and its client; `poller`,
`found` the goroutine of `StreamFunctionLogs`; `active` is `activeStreams`; `step`,
`source`, `pos` the streaming goroutines. `got`, `start` and `opened` are history
variables.

| action | code |
|---|---|
| `HandlerStarts`, `HandlerReceives`, `HandlerReturns` | `api/stream.go:20-77` |
| `ResolveAgain`, `TellError`, `ReportAndClose` | `stream_service.go:36-45`, `api/stream.go:48-54` |
| `Poll`, `Complain`, `PollerReturns` | `stream_service.go:53-68`, `91-129` |
| `Launch`, `LaunchEnds` | `stream_service.go:70-87` |
| `Open`, `CheckContext`, `Read`, `Send`, `Close` | `stream_service.go:131-183`, `79-85`; `sdk/container.go:300-319` |

Abstractions: a log frame is a line, which may be blank; a container ends once and
is not started again, as in the pool; the function is resolved at the start, so
that the containers are those of one version, also after a deployment or rollback,
as in the code. A container may end without its remaining lines being read, and
may still have logs to open after it ended. The flush of the handler's ticker
changes nothing.

## Scheduler

State: `fnStatus` the functions table; `stored`, `fnOf` the schedules table;
`phase`, `toLoad` main and `LoadSchedules`; `entries` the cron and the map,
which change together; `made` and `jobs` the semaphores: how many the process
has made for each schedule, and which of them executions under way hold; `spc`,
`epc`, `ids` the handlers. `skipped` and `raced` are history variables.

| action | code |
|---|---|
| `LoadSchedules`, `LoadSchedule`, `Serve` | `schedule_service.go:50-96`, `main.go:67-115` |
| `Register` | `schedule_service.go:99-114`, for the load and for creations |
| `Fire`, `InvokeReturns` | `schedule_service.go:116-152` |
| `CreateBegins`, `InsertSchedule`, `RegisterSchedule` | `api/schedule.go:68-145`, `schedule_service.go:99-162` |
| `DeleteAllSchedules` | `api/schedule.go:151-173` |
| `ListSchedulesByFunctionName`, `DeleteSchedulesByFunctionName` | `api/schedule.go:175-199` |
| `DeleteBegins`, `DeleteSchedule`, `RemoveSchedule` | `api/schedule.go:200-249`, `schedule_service.go:165-178` |
| `DeployFunction`, `DeleteFunction` | the rows that `FunctionVersions` changes call by call |

Abstractions: when an entry fires is left open. `AddFunc` cannot fail, because
the handler parsed the expression with the same parser. The map of entries is
not locked; the Go runtime ends a process it sees racing on a map, which is the
crash of the model. A race it does not see is not modelled. Schedule ids are
fresh, so that a schedule is created once. `RemoveSchedule` forgets the semaphore
of a schedule while an execution may still hold it; `jobs` keeps the executions
apart by semaphore, so that a second registration in one process would show as
two of them. `Fire` joins the cron's dispatch of the job, its semaphore
(`schedule_service.go:119-128`) and the read of the function (`133`): in the code, a job
dispatched just before `RemoveSchedule` may take the semaphore after the entry has gone.
It is the semaphore of the same registration, so that it is an execution begun a little
later, and `NoOverlap` has those that outlive their entry anyway.

`raced` has the schedules whose row was deleted by `removeall`, by a deletion by
name that had not listed them, or before their creation registered them: the
three ways in which the code leaves an entry without a row until the next
restart. `skipped` has those that a load could neither look up nor delete.

## Timetable

`Timetable` is the schedules without rows, handlers, cron and failures: a schedule is
new, live or ended; its alarm is pending, armed, or spent for this life of the process;
and it runs or does not. `Scheduler` maps to it what three places hold of a schedule: it
is live while its row and its function are there, its alarm is armed while it has an
entry and pending while its creation or a load, the present one or that after the next
restart, may register it, and it runs while an execution holds one of its semaphores.
`ImplementsTimetable` is the abstract specification under that mapping. It joins what
`RowsAreRegistered`, `NothingDeletedReturns` and `NoOverlap` say one by one, over every
restart: a schedule that lives is disarmed by nobody, one that has ended is disarmed at
the latest by the next restart and never armed after it, and a schedule is armed at most
once in each life of the process.

## What the runs show

| run | instance | states | shows |
|---|---|---|---|
| `pool` | 2 requests, 2 versions, 2 containers (1 warm), 1 worker, 1 cleanup, store failures | 1.9 M | `TypeOK`, `ExclusiveUse`, `OneRunnerPerContainer`, `ServedByResolvedVersion`, `SuccessIsFinal`, `InvokeAdvances` |
| `restart` | 2 requests, 2 containers, 1 worker, Docker failures, clients leave, 1 crash, fairness | 0.3 M | `RecordOfAnswered`, `ImplementsLeases`, `RowsReclaimed`, `EveryRequestAnswered` |
| `faultfree` | 2 requests, 2 versions, 1 worker, 1 cleanup, no failure, fairness | 0.3 M | `NoLeakedContainer`, `FreeRowIsLive`, `ContainersReclaimed` |
| `versions` | 2 deployments after 1, 1 rollback, 1 deletion, all failures | 0.6 M | `TypeOK`, `AtMostOneActive`, `ServingUnlessDeploying`, `RowsHaveTheirImage` |
| `rollbacks` | 1 deployment after 2, 2 rollbacks, 1 deletion, failures of three calls, fairness | 0.2 M | `StepsBack`, `ImplementsRegistry`, `CleanupIsRecorded` |
| `schedules` | 2 schedules, 2 deletions of any kind, 2 versions of a name, all failures, 1 crash, fairness | 0.5 M | `TypeOK`, `RowsAreRegistered`, `DeletedAreUnregistered`, `NoOverlap`, `NothingDeletedReturns`, `SchedulesSurvive`, `ImplementsTimetable` |
| `shutdown` | 1 request, 1 job, 2 containers, 1 worker, failing cleanup, a client leaves | 2.0 M | `ShutdownTypeOK`, `DrainedAreSpared`, `CleanExit`, `MainNeverStuck`, `UnstoppedStayKnown`, `ShutdownAdvances` |
| `stream` | 1 container with 3 lines (1 blank), 2 goroutines, channel of 2, backlog of 1, failing calls, fairness | 0.04 M | `TypeOK`, `OneStreamPerContainer`, `NobodySendsOnClosed`, `EachLineOnce`, `LinesArrive`, `LeaverIsForgotten`, `DeadStreamsEnd` |

Why the bounds are enough: each hazard listed in `PROJECT.json` needs two
actors and one reaper, deletion or crash between two of their steps. Two
requests (deployments, schedules) with one third party give every pairwise
interleaving; two versions give a wrong one to be served, three in a row a
wrong one to go back to; one crash gives a restart with leftovers of everything.
For the shutdown, one request that is waited for and one job that is not are the
two kinds there are, each with a container to start, and either may reuse what the other
has freed. For a stream, a channel of two with three lines gets full, a
second goroutine is what a container streamed twice would need, and a backlog of one
makes a reopened stream skip and repeat lines.
The safety properties in the table marked below as proved hold for every size.

`CHECK_DEADLOCK FALSE` is set in every configuration: the requests of an
instance are finitely many, and a system that has answered them all may rest.

Some properties are conditional, and name their condition. `NoLeakedContainer` and
`ContainersReclaimed` are checked without failures: with them, the code does leak
(a container whose start failed, one whose deletion was cancelled with the
request's context, one whose row could not be written). `FreeRowIsLive` holds with
a database that works and no crash: otherwise a row stays free whose container a
reaper has deleted, because the statement that removes the row failed or was never
reached. `RecordOfAnswered` asks for a database that works, and for nothing else. It does not say
that every error is recorded: the error returns of the cold start before its call (pull,
create, start, port, health; `invoke_service.go:134-155`) complete nothing, so that the
client has its error and the record stays `pending` for good, or `failed` when a reused
container had failed before. The property tells these cases apart by whether the
invocation was ever marked as running (`ran`), and no document of the repository
promises more.
`pool` has no crash: that `ExclusiveUse` survives restarts is what `ImplementsLeases` shows
in `restart`, and what the theorem `MutualExclusion` says for any number of them.
`ServingUnlessDeploying` exempts deployments between their two statements, and everything
after a deployment that has lost its row, also what follows the next deployment: it says
who may take the active version away, and is silent once a deployment has.
`CleanExit` and `UnstoppedStayKnown` ask for a quiet end of the wait and a second list
that worked; `EachLineOnce` excludes a container whose logs were opened again.
`RowsHaveTheirImage` and `StepsBack` exclude deployments that overlap, because
those share a local tag and compute their version twice.

Symmetry is used in `pool`, `versions` and `shutdown`, which check safety only: over
requests, containers and workers, over deployments to come, and over containers.

### Findings

Four runs end in a violation, each of a property that quotes the repository:

- `rollback_busy`: the cleanup of a rollback deletes a container that a request
  took after the cleanup listed it (`rollback_service.go:169`), although "BUSY
  containers are left alone".
- `rollback_race`: a deployment deactivates the old version in a statement before the
  one that inserts the new one (`api/deploy.go:123`, `152`); in that gap, which
  `ServingUnlessDeploying` names, a rollback that has committed dereferences a nil
  active version (`rollback_service.go:99`).
- `history`: a normal deployment is never recorded in `version_history`
  (`function_store.go:98`), because its handler has deactivated the version that
  `CreateFunction` looks for.
- `orphans`: a read that fails while schedules are loaded deletes a schedule whose
  function is there (`schedule_service.go:61`), while true orphans are never
  listed and so never deleted.

### Fairness

`FairSpec` asks for weak fairness of what a goroutine or handler does once it has
begun: Go schedules it, the calls of a container and the waits for it have
timeouts (`config/constants.go`), and SQL and Docker calls are answered locally.
Image pulls and builds, and the HTTP calls of a deletion to the registry, which
have no timeout (`delete_service.go:159`, `187`), are taken to return. It also asks
that time passes (`Age`), that the spleen's ticker fires (`SpleenScan`), and that the supervisor restarts the process
(`BootStep`). It never asks for arrivals, deployments, rollbacks, crashes or
clients that leave.

`LogStream` asks for strong fairness of goroutines that send on the channel or
select: Go serves the senders that wait for a channel in their order, so that none
waits for ever on a channel that is read, and a `select` that finds several cases
ready time and again takes each of them in the end. It asks for neither lines nor
ends of containers, and not for clients that leave.

`Shutdown` states no fairness. That it ends is the sum of two properties of every
behaviour, with any failure: by `MainNeverStuck`, in every state after the signal main or
one of its workers can go on, so that none waits for another; by `ShutdownAdvances`, what
is left to them, `StepsLeft`, gets less with each of their steps and more with nobody's,
so that a failure is passed over and never tried again.

## What is proved

The theorems hold for every number of requests, containers, versions, workers,
schedules and crashes, and whatever calls fail; the assumptions are those named
in the modules (distinct null values, warm containers among the containers, past
deployments listed once).

**Pool** (`ContainerPoolProofs`). `ExclusiveUse` is not inductive: a request takes
a container because its row is free, so one must know that the row of a held
container is never free (`HeldNotFree`), that a request has a container between
known labels only (`HeldByLabel`), and that a container which Docker has yet to
create has neither row nor user (`UnbornUnused`), the case of the cold start.
`OneRunnerPerContainer` also needs that the container of a running invocation,
even of a dead one, is not free and held by no other (`RunnerOwns`). Together they
are `Ownership`, checked by hand with TLC before the proof. It gives
`MutualExclusion` and `RunningApart`. `VersionOfHeld` extends it for
`RightVersion`, and `SuccessEnds` gives the action property `SuccessStays`.
`InvocationsAdvance` is the safety half of `EveryRequestAnswered`: `Stage` puts the
labels of an invocation in one order, the warm path before the cold one, and every step
of a request goes up in it, of which `LastStage` is the end. That needs that the label
says which path the request is on (`PathByLabel`, checked by hand with TLC): a cold call
that fails must not lead to a free container again.

**Versions** (`FunctionVersionsProofs`). `OneActive`: each of the two transactions
that activate a row deactivates the one it found, which by the invariant is the
only one. `ServingButForTheGap` follows the label of the deployment that opened the
gap: the step that closes a label `create` or `lost` either leaves an active row
or leaves such a label behind.

`RowsHaveTheirImage` needs the longest invariant, `VersionsAreSafe`. What makes it
true is that a deployment asks for the next number twice, before the push and after,
and gets the same answer, although all that keeps others away in between is that
nothing overlaps (`OneAtATime`). So the rows must have the numbers `1..n`, each once,
in the order of `created_at`, by which `GetNextVersion` finds the last
(`NumberedInOrder`): then the next number is that of no row, and moving its tag takes
no row's image away. `NextIsTaken` follows the deployment from call to call: the bare
tag is its image, the tag of the next number is its image too, first in the daemon and
then in the registry, and the number it writes is still the next. That the row is
created last rests on the clock (`ClockIsAhead`), and that the pushed image is the
built one on tags that name one image (`OneImagePerTag`). The invariant was checked
with TLC on the instances of `versions` and `rollbacks` before it was proved. It gives
`RowsCanBeInvoked`; `RollbacksStepBack`, because the latest row created before the
active one is, in that order, the one with the next lower number; and the refinement,
`VersionsAreARegistry`, which finds for every call the step of `Registry` it is.
`CleanupsEndRecorded` is the safety half of `CleanupIsRecorded`: a rollback that has
committed finds its entry (`EntryAwaits`).

**Scheduler** (`SchedulerProofs`). `Consistent` adds to the two state properties
what main's order guarantees (no handler before the load is over, and nothing
registered before the process is up), that what is to be loaded is stored and not
registered, that a deletion by name notes schedules of one name, and that what a
deletion is about to unregister is no longer stored or has lost its function: the
case of a function deleted between the two statements. It gives
`StoredAreRegistered`, `DeletedLeaveTheCron` and `NoZombieIsLoaded`. `OneExecution`
rests on it too: its own invariant, `Semaphores`, says that a schedule has at most
one semaphore in the life of a process, because the load registers only schedules
that an earlier process created, once each, and a creation registers one that the
load never saw. `SchedulesAreATimetable` takes both invariants, and that what is to be
loaded has its function (`LoadIsUseful`), as `Scheduled`: for each call of a handler, of
the load and of the cron it finds the step of `Timetable` it is. `EndedNeverFires` draws
a conclusion from it: a schedule that has ended and lost its entry begins no execution
any more, whatever restarts follow.

**Tracking** (`PoolTrackingProofs`). Three properties that hold only without certain
faults, as theorems that assume just those. `PoolSound` adds to `Ownership` that a
container which is starting has no row and is known to no reaper
(`StartingUnreaped`) and is what the daemon says it is (`StartingIsLive`).
`AnsweredHaveTheirRecord` assumes that no statement fails, and follows the record of each
invocation from label to label (`RecordByLabel`): it is pending before the first call,
failed between two calls, and running during one, which needs that a request about to be
marked as running has a container (`HeldByLabel`). `FreeRowsAreLive` also assumes that
nothing crashes: a row without a running container is about to be removed
(`RowsAreLive`). `NothingLeaks` assumes no fault at all: who forgets a container has
deleted it (`ForgottenAreGone`).

**Refinement** (`PoolLeasesProofs`, `LeasesProofs`). `Implementation` finds, for each
action, the step of `Leases` it is, or shows that it changes nothing that `Leases`
sees; `Ownership` provides that a free row is nobody's. `LeasesAreExclusive` is the
exclusive use of the abstract specification itself, and `LostForGood` what it says of a
container that is out while nobody has it. `AbandonedForGood` is that conclusion for the
pool: a container left behind by a failure, a lost client or a crash serves nobody again.
It also says that the row of such a container, once old, stays old until it is removed,
so that each cycle of the spleen finds it: the safety half of `RowsReclaimed`.

**Shutdown** (`ShutdownProofs`). A step of the pool during the shutdown is one of
`ContainerPool`, and a step of main changes it only as a reaper would
(`PoolStepIsNext`, `MainReaps`), so that the invariants of the pool carry over
(`ExclusiveInShutdown`). `RequestsAreSpared` follows from the order of the phases: when
containers are stopped, every handler that was begun has returned (`HandlersAreDone`),
unless the wait was cut short. For the other two, a quiet end stays quiet
(`QuietStays`): nothing but main and time goes on. `RunningStayKnown` then needs that
what runs is in the second list and not among what is deleted (`RunningIsListed`).
`CleanShutdown` says phase by phase what is left (`ContainersLeft`, `RowsLeft`); it
starts from what holds when the wait ends, that every row stands for a container or
is about to go (`RowsAreReal`). `ResultsHaveRoom` is the state property that
`MainNeverStuck` rests on: a container whose deletion was tried is not to be deleted
any more (`ResultsAreDone`), so that the channel, made for all of them, is not full
while a worker still has one; it assumes that there are finitely many containers.
`ShutdownImplementsLeases` shows the refinement of the pool for the composition: main
stops and deletes what exists (`WorkIsBorn`), and a row that it removes retires a free
container or one that nobody can be given any more. `ShutdownIsBounded` proves
`ShutdownAdvances` for finitely many containers: a later phase outweighs all the work it
may begin with. Three theorems say what else of the pool carries over to requests and jobs
that go on during the cleanup: `ServedInShutdown`, `AnsweredInShutdown` with a database
that works, and `InvocationsAdvanceInShutdown`.

**Log streams** (`LogStreamProofs`). `activeStreams` has the container of each goroutine
in use (`StreamsAreActive`), and none is in use before the function was resolved
(`IdleUntilResolved`); together with the types they give `OneStream` and
`NoSendOnClosed`. `LinesOnceInOrder` needs no induction over the channel: order is a
relation between two of its positions, and sending and receiving move the positions of
a container's lines in a way that a lemma each states (`QueuedAfterPut`,
`QueuedAfterReceive`). Its invariant, `LinesAreSafe`, adds that what is in the channel
or with the client was read by the one stream of the container (`SentWasRead`), so
that the next line to be sent is greater than all of them. `ClientReadsInOrder` is
what that means to the client: a line it receives comes after all it has of the container.
`StreamsWindDown` is the safety half of `LeaverIsForgotten`: with the client gone, no
goroutine goes back to its logs, and a poller that has returned starts none.

Every invariant, action property and refinement that a run checks is proved, but for
`MainNeverStuck`. That one is about `ENABLED`, and the liveness properties
(`EveryRequestAnswered`, `RowsReclaimed`, `ContainersReclaimed`, `CleanupIsRecorded`,
`SchedulesSurvive`, `LinesArrive`, `LeaverIsForgotten`, `DeadStreamsEnd`) are about
fairness; both are out of the reach of the provers, and only model-checked.

## Not modelled

- **Host ports.** Docker may give a freed port to the next container; a request that
  kept the old one would call that. The pool has no ports.
- **Store retry**: a retried statement succeeds or gives up, which are the two outcomes
  that each store call of the models has; only durations are left out.
- **Explicit versions** in a deployment's name, whose tag call always fails; checksums
  and endpoints of deployments.
- **Database handle and tables**: the variables of the models; SQLite's own locking is
  an atomic statement that may fail.
- **Reverse proxy, log retrieval, read-only services**: no state that two steps share.
- **Packager** and **command line client**: one process that sends one request. The
  packager's goroutine writes into a pipe and closes it with its error, so that the
  server sees an aborted body.
- **Runtimes, samples, installer, unit files**: outside the runtime manager.

## Plan

Done, the most important first: pool, versions, scheduler; then the shutdown over the
pool, the leases and the refinement, log streams, the proofs of what depends on the
absence of faults; then the numbers and images of versions, the registry they implement,
the order of streamed lines and the leases in the shutdown; then the timetable that the
schedules implement, and that invocations and the shutdown take a bounded number of steps.
What is left:

1. A composition of versions and pool: requests by name against deployments call
   by call, in place of the environment steps of `ContainerPool`; and rollbacks during
   the shutdown.
2. The safety halves of the liveness properties that have none yet: `ContainersReclaimed`,
   `LinesArrive` and `DeadStreamsEnd`. Those of the others are proved.
3. Host ports and their reuse.
