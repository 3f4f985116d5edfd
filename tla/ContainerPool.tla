---------------------------- MODULE ContainerPool ----------------------------
(***************************************************************************)
(* The pool of function containers of one deployed function name: the      *)
(* concurrent requests that run FunctionInvoker.Invoke                     *)
(* (internal/service/invoke_service.go), the rows of the containers and    *)
(* invocations tables they write (internal/sqlite/store), the containers   *)
(* the Docker daemon runs, and the two background reapers that destroy     *)
(* containers under them: the spleen (internal/service/container_spleen.go)*)
(* and the cleanup goroutine of a rollback                                 *)
(* (internal/service/rollback_service.go).                                 *)
(*                                                                         *)
(* One action is one call that another process can observe: a SQL          *)
(* statement or transaction, or a call to the Docker daemon.  Time is      *)
(* abstracted to one bit per row: whether last_used is older than          *)
(* ContainerIdleTimeout.                                                   *)
(***************************************************************************)
EXTENDS Naturals

CONSTANTS
    Requests,     \* invocations of the function that may ever arrive
    Containers,   \* identifiers Docker may give to a container
    Versions,     \* rows the functions table may ever hold for the name
    FirstVersion, \* the version that is active at the start
    Warm,         \* containers that earlier invocations left running and free
    Workers,      \* the workers of the spleen (numWorkers in the code)
    Cleanups,     \* cleanup goroutines of rollbacks that may run at once
    Spleen,       \* names the queue of the spleen, as a cleanup names its own
    None,         \* no container, no version
    DbFails,      \* whether a statement may fail after its retries
    DockerFails,  \* whether a call to the Docker daemon or registry may fail
    ClientsLeave, \* whether a client may close its connection
    MaxCrashes    \* bound on the number of crashes of the process

ASSUME VersionAssumption == FirstVersion \in Versions /\ None \notin Versions
ASSUME ContainerAssumption == Warm \subseteq Containers /\ None \notin Containers
ASSUME ReaperAssumption == Spleen \notin Cleanups /\ Workers \cap Cleanups = {}
ASSUME FaultAssumption ==
    /\ {DbFails, DockerFails, ClientsLeave} \subseteq BOOLEAN
    /\ MaxCrashes \in Nat

VARIABLES
    known, active,               \* functions: rows of the name, the active one
    status, fnOf, idle,          \* containers: status, function_id, last_used is old
    docker,                      \* what the daemon knows of each container
    inv, ran,                    \* invocations: status, container_id
    pc, fn, held, path, departed, \* locals of each Invoke; clients that left
    todo, reaper, phase, oldFn,  \* locals of the spleen and of the cleanups
    crashes

fnVars   == <<known, active>>
rowVars  == <<status, fnOf, idle>>
invVars  == <<inv, ran>>
reqVars  == <<pc, fn, held, path, departed>>
reapVars == <<todo, reaper, phase, oldFn>>
vars == <<fnVars, rowVars, docker, invVars, reqVars, reapVars, crashes>>

-----------------------------------------------------------------------------
(* Values *)

Reapers == Workers \cup Cleanups

\* "absent" stands for a row that is not in the table.
RowStatus == {"absent", "free", "busy"}

DockerState == {"unborn", "created", "running", "stopped", "gone"}
Existing    == {"created", "running", "stopped"}

InvStatus == {"absent", "pending", "running", "success", "failed"}

\* Where an Invoke stands.  The last three: it answered the client, or it
\* died with the process.
Finished == {"ok", "error", "lost"}
Label == {"new", "create", "acquire", "mark", "call", "drop", "forget",
          "fail", "finish", "pull", "spawn", "start", "ready", "abandon",
          "insert"} \cup Finished

Phase == {"off", "versions", "list", "run"}

\* Between these labels the goroutine has a container it may send its payload to.
Using == {"mark", "call", "finish"}

AtRest == [step |-> "rest", target |-> None]

TypeOK ==
    /\ known \subseteq Versions /\ active \in known \cup {None}
    /\ status \in [Containers -> RowStatus]
    /\ fnOf \in [Containers -> Versions \cup {None}]
    /\ idle \in [Containers -> BOOLEAN]
    /\ docker \in [Containers -> DockerState]
    /\ inv \in [Requests -> InvStatus]
    /\ ran \in [Requests -> Containers \cup {None}]
    /\ pc \in [Requests -> Label]
    /\ fn \in [Requests -> Versions \cup {None}]
    /\ held \in [Requests -> Containers \cup {None}]
    /\ path \in [Requests -> {"none", "warm", "cold"}]
    /\ departed \subseteq Requests
    /\ todo \in [Cleanups \cup {Spleen} -> SUBSET Containers]
    /\ reaper \in [Reapers -> [step : {"rest", "stop", "delete", "remove"},
                               target : Containers \cup {None}]]
    /\ phase \in [Cleanups -> Phase]
    /\ oldFn \in [Cleanups -> Versions \cup {None}]
    /\ crashes \in 0..MaxCrashes

\* The process has just started: earlier invocations left the warm containers
\* free, and nothing else is under way.
Init ==
    /\ known = {FirstVersion} /\ active = FirstVersion
    /\ status = [c \in Containers |-> IF c \in Warm THEN "free" ELSE "absent"]
    /\ fnOf = [c \in Containers |-> IF c \in Warm THEN FirstVersion ELSE None]
    /\ idle = [c \in Containers |-> FALSE]
    /\ docker = [c \in Containers |-> IF c \in Warm THEN "running" ELSE "unborn"]
    /\ inv = [r \in Requests |-> "absent"]
    /\ ran = [r \in Requests |-> None]
    /\ pc = [r \in Requests |-> "new"]
    /\ fn = [r \in Requests |-> None]
    /\ held = [r \in Requests |-> None]
    /\ path = [r \in Requests |-> "none"]
    /\ departed = {}
    /\ todo = [q \in Cleanups \cup {Spleen} |-> {}]
    /\ reaper = [p \in Reapers |-> AtRest]
    /\ phase = [k \in Cleanups |-> "off"]
    /\ oldFn = [k \in Cleanups |-> None]
    /\ crashes = 0

-----------------------------------------------------------------------------
(* Steps of Invoke, in the order of the code *)

Goto(r, l) == pc' = [pc EXCEPT ![r] = l]

\* Invoke returns, or dies: its locals are gone.
End(r, l) ==
    /\ Goto(r, l)
    /\ fn' = [fn EXCEPT ![r] = None]
    /\ held' = [held EXCEPT ![r] = None]
    /\ path' = [path EXCEPT ![r] = "none"]

\* A call to Docker made with the context of the HTTP request: it fails when
\* the client has left.  One that fails after the daemon has done what it asks
\* leaves no more behind than the failure of the call that follows.
CtxOk(r)    == r \notin departed
CtxFails(r) == DockerFails \/ r \in departed

\* GetActiveFunction: the version is resolved once, and kept to the end.
ResolveFunction(r) ==
    /\ pc[r] = "new"
    /\ \/ /\ active # None
          /\ fn' = [fn EXCEPT ![r] = active]
          /\ Goto(r, "create")
          /\ UNCHANGED <<held, path>>
       \/ /\ active = None \/ DbFails
          /\ End(r, "error")
    /\ UNCHANGED <<fnVars, rowVars, docker, invVars, departed, reapVars, crashes>>

CreateInvocation(r) ==
    /\ pc[r] = "create"
    /\ \/ /\ inv' = [inv EXCEPT ![r] = "pending"]
          /\ Goto(r, "acquire")
          /\ UNCHANGED <<fn, held, path>>
       \/ /\ DbFails
          /\ End(r, "error")
          /\ UNCHANGED inv
    /\ UNCHANGED <<fnVars, rowVars, docker, ran, departed, reapVars, crashes>>

\* Slips in that clause: either half of it forgotten.
AnyStatusFor(v)  == {c \in Containers : status[c] # "absent" /\ fnOf[c] = v}
FreeForAny(v)    == {c \in Containers : status[c] = "free"}

\* WHERE function_id=? AND status='free'
FreeFor(v) == {c \in Containers : status[c] = "free" /\ fnOf[c] = v}

\* ORDER BY last_used DESC LIMIT 1: a row that is not old comes first.
MostRecent(free) ==
    {c \in free : idle[c] => \A d \in free : idle[d]}

\* AcquireFreeContainer: one transaction selects a free row and makes it busy.
\* With no free row, and on any error, Invoke goes on to the cold start.
AcquireFreeContainer(r) ==
    /\ pc[r] = "acquire"
    /\ \/ \E c \in MostRecent(FreeFor(fn[r])) :
             /\ status' = [status EXCEPT ![c] = "busy"]
             /\ idle' = [idle EXCEPT ![c] = FALSE]
             /\ held' = [held EXCEPT ![r] = c]
             /\ path' = [path EXCEPT ![r] = "warm"]
             /\ Goto(r, "mark")
       \/ /\ FreeFor(fn[r]) = {} \/ DbFails
          /\ Goto(r, "pull")
          /\ UNCHANGED <<status, idle, held, path>>
    /\ UNCHANGED <<fnVars, fnOf, docker, invVars, fn, departed, reapVars, crashes>>

\* MarkInvocationRunning: an error is logged and ignored by the warm path, and
\* ends the cold path, which keeps its row busy and its container running.
MarkInvocationRunning(r) ==
    /\ pc[r] = "mark"
    /\ \/ /\ inv' = [inv EXCEPT ![r] = "running"]
          /\ ran' = [ran EXCEPT ![r] = held[r]]
          /\ Goto(r, "call")
          /\ UNCHANGED <<fn, held, path>>
       \/ /\ DbFails /\ path[r] = "warm"
          /\ Goto(r, "call")
          /\ UNCHANGED <<invVars, fn, held, path>>
       \/ /\ DbFails /\ path[r] = "cold"
          /\ End(r, "error")
          /\ UNCHANGED invVars
    /\ UNCHANGED <<fnVars, rowVars, docker, departed, reapVars, crashes>>

\* InvokeContainer: an answer can come only from a container that runs; the
\* function may fail or time out on its own.
InvokeContainer(r) ==
    /\ pc[r] = "call"
    /\ \/ /\ docker[held[r]] = "running" /\ CtxOk(r)
          /\ Goto(r, "finish")
       \/ Goto(r, "drop")
    /\ UNCHANGED <<fnVars, rowVars, docker, invVars, fn, held, path, departed, reapVars, crashes>>

\* Slip: the container of a failed call is only removed from the table.
KeepFailedContainer(r) ==
    /\ pc[r] = "drop"
    /\ Goto(r, "forget")
    /\ UNCHANGED <<fnVars, rowVars, docker, invVars, fn, held, path, departed, reapVars, crashes>>

\* DeleteContainer after a failed call; its error is logged or ignored.
DeleteFailedContainer(r) ==
    /\ pc[r] = "drop"
    /\ \/ CtxOk(r) /\ docker' = [docker EXCEPT ![held[r]] = "gone"]
       \/ CtxFails(r) /\ UNCHANGED docker
    /\ Goto(r, "forget")
    /\ UNCHANGED <<fnVars, rowVars, invVars, fn, held, path, departed, reapVars, crashes>>

\* DELETE FROM containers WHERE id=?
DeleteRow(c) ==
    /\ status' = [status EXCEPT ![c] = "absent"]
    /\ fnOf' = [fnOf EXCEPT ![c] = None]
    /\ idle' = [idle EXCEPT ![c] = FALSE]

\* RemoveContainer: the row goes, whatever the daemon said.
RemoveFailedContainer(r) ==
    /\ pc[r] = "forget"
    /\ \/ DeleteRow(held[r])
       \/ DbFails /\ UNCHANGED rowVars
    /\ Goto(r, "fail")
    /\ UNCHANGED <<fnVars, docker, invVars, fn, held, path, departed, reapVars, crashes>>

\* Slip: only the warm path records the failure.
ForgetColdFailure(r) ==
    /\ pc[r] = "fail"
    /\ \/ /\ path[r] = "warm"
          /\ inv' = [inv EXCEPT ![r] = "failed"]
          /\ Goto(r, "pull")
          /\ held' = [held EXCEPT ![r] = None]
          /\ UNCHANGED <<fn, path>>
       \/ /\ path[r] = "cold"
          /\ End(r, "error")
          /\ UNCHANGED inv
    /\ UNCHANGED <<fnVars, rowVars, docker, ran, departed, reapVars, crashes>>

\* Slip: the warm path tries another free container.
TryWarmAgain(r) ==
    /\ pc[r] = "fail"
    /\ inv' = [inv EXCEPT ![r] = "failed"]
    /\ \/ /\ path[r] = "warm"
          /\ Goto(r, "acquire")
          /\ held' = [held EXCEPT ![r] = None]
          /\ UNCHANGED <<fn, path>>
       \/ /\ path[r] = "cold"
          /\ End(r, "error")
    /\ UNCHANGED <<fnVars, rowVars, docker, ran, departed, reapVars, crashes>>

\* completeInvocation("failed"): the warm path then starts over with the cold
\* one, for the same invocation; the cold path answers with the error.
CompleteFailed(r) ==
    /\ pc[r] = "fail"
    /\ \/ inv' = [inv EXCEPT ![r] = "failed"]
       \/ DbFails /\ UNCHANGED inv
    /\ \/ /\ path[r] = "warm"
          /\ Goto(r, "pull")
          /\ held' = [held EXCEPT ![r] = None]
          /\ UNCHANGED <<fn, path>>
       \/ /\ path[r] = "cold"
          /\ End(r, "error")
    /\ UNCHANGED <<fnVars, rowVars, docker, ran, departed, reapVars, crashes>>

\* Slip: the row is written anew when it is gone.
UpsertFreeRow(c) ==
    /\ status' = [status EXCEPT ![c] = "free"]
    /\ idle' = [idle EXCEPT ![c] = FALSE]

\* UPDATE containers SET status='free', last_used=? WHERE id=?
FreeRow(c) ==
    IF status[c] = "absent"
    THEN UNCHANGED <<status, idle>>
    ELSE /\ status' = [status EXCEPT ![c] = "free"]
         /\ idle' = [idle EXCEPT ![c] = FALSE]

\* Slips: two statements instead of one transaction; a warm success that does
\* not keep Invoke from going on to the cold start.
CompleteInTwoStatements(r) ==
    /\ pc[r] = "finish"
    /\ \/ inv' = [inv EXCEPT ![r] = "success"]
       \/ DbFails /\ UNCHANGED inv
    /\ FreeRow(held[r])
    /\ End(r, "ok")
    /\ UNCHANGED <<fnVars, fnOf, docker, ran, departed, reapVars, crashes>>

CompleteAndStartOver(r) ==
    /\ pc[r] = "finish"
    /\ inv' = [inv EXCEPT ![r] = "success"]
    /\ FreeRow(held[r])
    /\ held' = [held EXCEPT ![r] = None]
    /\ Goto(r, IF path[r] = "warm" THEN "pull" ELSE "ok")
    /\ UNCHANGED <<fnVars, fnOf, docker, ran, fn, path, departed, reapVars, crashes>>

\* CompleteInvocationAndMarkFree: one transaction, all of it or nothing, and
\* the client gets its answer either way.
CompleteSuccess(r) ==
    /\ pc[r] = "finish"
    /\ \/ /\ inv' = [inv EXCEPT ![r] = "success"]
          /\ FreeRow(held[r])
       \/ DbFails /\ UNCHANGED <<inv, status, idle>>
    /\ End(r, "ok")
    /\ UNCHANGED <<fnVars, fnOf, docker, ran, departed, reapVars, crashes>>

\* PullImage.  The error return leaves the invocation as it is.
PullImage(r) ==
    /\ pc[r] = "pull"
    /\ \/ /\ CtxOk(r)
          /\ Goto(r, "spawn")
          /\ path' = [path EXCEPT ![r] = "cold"]
          /\ UNCHANGED <<fn, held>>
       \/ /\ CtxFails(r)
          /\ End(r, "error")
    /\ UNCHANGED <<fnVars, rowVars, docker, invVars, departed, reapVars, crashes>>

\* The daemon creates a container under an identifier never used before.
SpawnContainer(r) ==
    /\ pc[r] = "spawn"
    /\ \/ /\ CtxOk(r)
          /\ \E c \in Containers :
                /\ docker[c] = "unborn"
                /\ docker' = [docker EXCEPT ![c] = "created"]
                /\ held' = [held EXCEPT ![r] = c]
          /\ Goto(r, "start")
          /\ UNCHANGED <<fn, path>>
       \/ /\ CtxFails(r)
          /\ End(r, "error")
          /\ UNCHANGED docker
    /\ UNCHANGED <<fnVars, rowVars, invVars, departed, reapVars, crashes>>

\* StartContainer: on an error the container that was created stays behind.
StartContainer(r) ==
    /\ pc[r] = "start"
    /\ \/ /\ CtxOk(r)
          /\ docker' = [docker EXCEPT ![held[r]] = "running"]
          /\ Goto(r, "ready")
          /\ UNCHANGED <<fn, held, path>>
       \/ /\ CtxFails(r)
          /\ End(r, "error")
          /\ UNCHANGED docker
    /\ UNCHANGED <<fnVars, rowVars, invVars, departed, reapVars, crashes>>

\* Slip: a poll without a deadline.
AwaitReadyForever(r) ==
    /\ pc[r] = "ready"
    /\ docker[held[r]] = "running" /\ CtxOk(r)
    /\ Goto(r, "insert")
    /\ UNCHANGED <<fnVars, rowVars, docker, invVars, fn, held, path, departed, reapVars, crashes>>

\* waitForPort and waitForHealthy: both poll until a deadline, and a function
\* may always miss it.
AwaitReady(r) ==
    /\ pc[r] = "ready"
    /\ \/ docker[held[r]] = "running" /\ CtxOk(r) /\ Goto(r, "insert")
       \/ Goto(r, "abandon")
    /\ UNCHANGED <<fnVars, rowVars, docker, invVars, fn, held, path, departed, reapVars, crashes>>

\* Slip: the container that did not get ready is left to itself.
LeaveContainer(r) ==
    /\ pc[r] = "abandon"
    /\ End(r, "error")
    /\ UNCHANGED <<fnVars, rowVars, docker, invVars, departed, reapVars, crashes>>

\* DeleteContainer after a deadline was missed; the invocation stays as it is.
AbandonContainer(r) ==
    /\ pc[r] = "abandon"
    /\ \/ CtxOk(r) /\ docker' = [docker EXCEPT ![held[r]] = "gone"]
       \/ CtxFails(r) /\ UNCHANGED docker
    /\ End(r, "error")
    /\ UNCHANGED <<fnVars, rowVars, invVars, departed, reapVars, crashes>>

\* Slip: the row gets the state of the container.
InsertRunning(r) ==
    /\ pc[r] = "insert"
    /\ status' = [status EXCEPT ![held[r]] = docker[held[r]]]
    /\ fnOf' = [fnOf EXCEPT ![held[r]] = fn[r]]
    /\ idle' = [idle EXCEPT ![held[r]] = FALSE]
    /\ Goto(r, "mark")
    /\ UNCHANGED <<fnVars, docker, invVars, fn, held, path, departed, reapVars, crashes>>

\* store.CreateContainer: the row is born busy, and an error only warned about.
InsertContainer(r) ==
    /\ pc[r] = "insert"
    /\ \/ /\ status' = [status EXCEPT ![held[r]] = "busy"]
          /\ fnOf' = [fnOf EXCEPT ![held[r]] = fn[r]]
          /\ idle' = [idle EXCEPT ![held[r]] = FALSE]
       \/ DbFails /\ UNCHANGED rowVars
    /\ Goto(r, "mark")
    /\ UNCHANGED <<fnVars, docker, invVars, fn, held, path, departed, reapVars, crashes>>

-----------------------------------------------------------------------------
(* The reapers: the spleen's workers and the cleanups of rollbacks *)

\* ContainerIdleTimeout passes since last_used was written, whoever uses the
\* container: a call may last InvokeHTTPTimeout, which is just as long, and the
\* waits for the database and the logs come on top.
Age(c) ==
    /\ status[c] # "absent" /\ ~idle[c]
    /\ idle' = [idle EXCEPT ![c] = TRUE]
    /\ UNCHANGED <<fnVars, status, fnOf, docker, invVars, reqVars, reapVars, crashes>>

\* Slip: the clause of store.CleanupIdleContainers, which looks at both.
StaleAndFree == {c \in Containers : status[c] = "free" /\ idle[c]}

\* The rows the spleen takes: it looks at last_used, and not at status.
Stale == {c \in Containers : status[c] # "absent" /\ idle[c]}

\* cleanupIdleContainers: one cycle at a time, since it waits for its workers.
SpleenScan ==
    /\ todo[Spleen] = {} /\ \A w \in Workers : reaper[w] = AtRest
    /\ Stale # {}
    /\ todo' = [todo EXCEPT ![Spleen] = Stale]
    /\ UNCHANGED <<fnVars, rowVars, docker, invVars, reqVars, reaper, phase, oldFn, crashes>>

QueueOf(p) == IF p \in Workers THEN Spleen ELSE p

Take(p) ==
    /\ reaper[p] = AtRest
    /\ p \in Cleanups => phase[p] = "run"
    /\ \E c \in todo[QueueOf(p)] :
          /\ reaper' = [reaper EXCEPT ![p] = [step |-> "stop", target |-> c]]
          /\ todo' = [todo EXCEPT ![QueueOf(p)] = @ \ {c}]
    /\ UNCHANGED <<fnVars, rowVars, docker, invVars, reqVars, phase, oldFn, crashes>>

Stop(p) ==
    /\ reaper[p].step = "stop"
    /\ LET c == reaper[p].target IN
          \/ docker' = [docker EXCEPT ![c] = IF @ = "running" THEN "stopped" ELSE @]
          \/ DockerFails /\ UNCHANGED docker
    /\ reaper' = [reaper EXCEPT ![p].step = "delete"]
    /\ UNCHANGED <<fnVars, rowVars, invVars, reqVars, todo, phase, oldFn, crashes>>

\* Goes on to the delete when the stop failed, and to the row when both did.
Delete(p) ==
    /\ reaper[p].step = "delete"
    /\ \/ docker' = [docker EXCEPT ![reaper[p].target] = "gone"]
       \/ DockerFails /\ UNCHANGED docker
    /\ reaper' = [reaper EXCEPT ![p].step = "remove"]
    /\ UNCHANGED <<fnVars, rowVars, invVars, reqVars, todo, phase, oldFn, crashes>>

Remove(p) ==
    /\ reaper[p].step = "remove"
    /\ \/ DeleteRow(reaper[p].target)
       \/ DbFails /\ UNCHANGED rowVars
    /\ reaper' = [reaper EXCEPT ![p] = AtRest]
    /\ UNCHANGED <<fnVars, docker, invVars, reqVars, todo, phase, oldFn, crashes>>

\* cleanupOldContainers first looks for the version it rolled back from among
\* the inactive ones ...
CleanupFindsVersion(k) ==
    /\ phase[k] = "versions"
    /\ \/ /\ oldFn[k] # active
          /\ phase' = [phase EXCEPT ![k] = "list"]
          /\ UNCHANGED oldFn
       \/ /\ oldFn[k] = active \/ DbFails
          /\ phase' = [phase EXCEPT ![k] = "off"]
          /\ oldFn' = [oldFn EXCEPT ![k] = None]
    /\ UNCHANGED <<fnVars, rowVars, docker, invVars, reqVars, todo, reaper, crashes>>

\* ... then reads its containers, and later removes those that were free then.
CleanupLists(k) ==
    /\ phase[k] = "list"
    /\ \/ /\ todo' = [todo EXCEPT ![k] = FreeFor(oldFn[k])]
          /\ phase' = [phase EXCEPT ![k] = "run"]
          /\ UNCHANGED oldFn
       \/ /\ DbFails
          /\ phase' = [phase EXCEPT ![k] = "off"]
          /\ oldFn' = [oldFn EXCEPT ![k] = None]
          /\ UNCHANGED todo
    /\ UNCHANGED <<fnVars, rowVars, docker, invVars, reqVars, reaper, crashes>>

CleanupEnds(k) ==
    /\ phase[k] = "run" /\ todo[k] = {} /\ reaper[k] = AtRest
    /\ phase' = [phase EXCEPT ![k] = "off"]
    /\ oldFn' = [oldFn EXCEPT ![k] = None]
    /\ UNCHANGED <<fnVars, rowVars, docker, invVars, reqVars, todo, reaper, crashes>>

-----------------------------------------------------------------------------
(* The environment: deployments, rollbacks, clients and crashes *)

\* A deployment deactivates every version of the name ...
DeployDeactivates ==
    /\ active # None /\ known # Versions
    /\ active' = None
    /\ UNCHANGED <<known, rowVars, docker, invVars, reqVars, reapVars, crashes>>

\* ... and then inserts a new, active one.
DeployCreates(v) ==
    /\ v \notin known
    /\ known' = known \cup {v}
    /\ active' = v
    /\ UNCHANGED <<rowVars, docker, invVars, reqVars, reapVars, crashes>>

\* A rollback commits: another known version becomes active, and a goroutine
\* starts to clean up after the one that was.
RollbackCommits(k, v) ==
    /\ active # None /\ v \in known \ {active}
    /\ phase[k] = "off"
    /\ active' = v
    /\ oldFn' = [oldFn EXCEPT ![k] = active]
    /\ phase' = [phase EXCEPT ![k] = "versions"]
    /\ UNCHANGED <<known, rowVars, docker, invVars, reqVars, todo, reaper, crashes>>

\* The client closes its connection and so cancels the request's context.
ClientLeaves(r) ==
    /\ ClientsLeave /\ pc[r] \notin Finished \cup {"new"}
    /\ r \notin departed
    /\ departed' = departed \cup {r}
    /\ UNCHANGED <<fnVars, rowVars, docker, invVars, pc, fn, held, path, reapVars, crashes>>

\* The process dies and its supervisor starts it again: every goroutine is
\* lost, the tables and the containers are not.
Crash ==
    /\ crashes < MaxCrashes
    /\ crashes' = crashes + 1
    /\ pc' = [r \in Requests |->
                 IF pc[r] \in Finished \cup {"new"} THEN pc[r] ELSE "lost"]
    /\ fn' = [r \in Requests |-> None]
    /\ held' = [r \in Requests |-> None]
    /\ path' = [r \in Requests |-> "none"]
    /\ todo' = [q \in Cleanups \cup {Spleen} |-> {}]
    /\ reaper' = [p \in Reapers |-> AtRest]
    /\ phase' = [k \in Cleanups |-> "off"]
    /\ oldFn' = [k \in Cleanups |-> None]
    /\ UNCHANGED <<fnVars, rowVars, docker, invVars, departed>>

-----------------------------------------------------------------------------
(* The specification *)

\* What the goroutine of request r does once it has started.
InvokeStep(r) ==
    \/ CreateInvocation(r) \/ AcquireFreeContainer(r) \/ MarkInvocationRunning(r)
    \/ InvokeContainer(r) \/ DeleteFailedContainer(r) \/ RemoveFailedContainer(r)
    \/ CompleteFailed(r) \/ CompleteSuccess(r) \/ PullImage(r) \/ SpawnContainer(r)
    \/ StartContainer(r) \/ AwaitReady(r) \/ AbandonContainer(r) \/ InsertContainer(r)

ReapStep(p) == Take(p) \/ Stop(p) \/ Delete(p) \/ Remove(p)

CleanupStep(k) == CleanupFindsVersion(k) \/ CleanupLists(k) \/ CleanupEnds(k)

Next ==
    \/ \E r \in Requests : ResolveFunction(r) \/ InvokeStep(r) \/ ClientLeaves(r)
    \/ \E c \in Containers : Age(c)
    \/ SpleenScan
    \/ \E p \in Reapers : ReapStep(p)
    \/ \E k \in Cleanups : CleanupStep(k)
    \/ DeployDeactivates
    \/ \E v \in Versions : DeployCreates(v)
    \/ \E k \in Cleanups, v \in Versions : RollbackCommits(k, v)
    \/ Crash

Spec == Init /\ [][Next]_vars

\* A goroutine that can go on does, every call returns, and time passes.
\* Nothing makes a request arrive, a client leave, a version be deployed or
\* rolled back, or the process crash.
Fairness ==
    /\ \A r \in Requests : WF_vars(InvokeStep(r))
    /\ \A c \in Containers : WF_vars(Age(c))
    /\ WF_vars(SpleenScan)
    /\ \A p \in Reapers : WF_vars(ReapStep(p))
    /\ \A k \in Cleanups : WF_vars(CleanupStep(k))

FairSpec == Spec /\ Fairness

-----------------------------------------------------------------------------
(* Safety *)

\* No two requests ever have the same container, although they pick theirs
\* from a shared table while reapers delete its rows, statements fail and are
\* given up, and the process restarts with old rows.
ExclusiveUse ==
    \A r, s \in Requests : r # s /\ held[r] # None => held[r] # held[s]

\* The invocations table never shows two running invocations on one container,
\* not even through the invocations that a crash or a failed statement leaves
\* "running" for good.
OneRunnerPerContainer ==
    \A r, s \in Requests :
        r # s /\ inv[r] = "running" /\ inv[s] = "running" => ran[r] # ran[s]

\* A request that resolved a version is served by a container of that version
\* for as long as the container has a row, whatever was deployed or rolled
\* back in the meantime.
ServedByResolvedVersion ==
    \A r \in Requests :
        pc[r] \in Using /\ status[held[r]] # "absent" => fnOf[held[r]] = fn[r]

\* An invocation recorded as a success is never run again or recorded as
\* anything else, although a failed one is run a second time.
SuccessIsFinal == [][\A r \in Requests : inv[r] = "success" => inv'[r] = "success"]_vars

\* The order in which Invoke gets to its labels, with a container that is free
\* and then, if there is none or its call fails, with a new one.
Position(l) ==
    CASE l = "new" -> 0 [] l = "create" -> 1 [] l = "acquire" -> 2
      [] l = "spawn" -> 3 [] l = "start" -> 4 [] l = "ready" -> 5
      [] l \in {"abandon", "insert"} -> 6
      [] l = "mark" -> 7 [] l = "call" -> 8 [] l \in {"drop", "finish"} -> 9
      [] l = "forget" -> 10 [] l = "fail" -> 11 [] l = "pull" -> 12

LastStage == 26

Stage(r) ==
    IF pc[r] \in Finished THEN LastStage
    ELSE Position(pc[r]) + IF path[r] = "cold" THEN 13 ELSE 0

\* An invocation tries at most one warm container and then at most one new one:
\* no failed call, missed deadline or lost statement sends it back, so that it
\* makes a bounded number of calls, whatever else happens.
InvokeAdvances == [][\A r \in Requests : pc'[r] # pc[r] => Stage(r)' > Stage(r)]_vars

\* What the table says of an answered request, with a database that works and
\* whatever Docker calls fail, clients leave and crashes kill others.  A result is
\* recorded as a success.  An error is recorded as a failure if the invocation
\* was ever marked as running, be it by a warm path whose call failed before.  An
\* error of a cold start that no call preceded leaves the record pending for good
\* (the returns of invoke_service.go:134-155 complete nothing), and there is no
\* record when no version was resolved.
RecordOfAnswered ==
    \A r \in Requests :
        /\ pc[r] = "ok" => inv[r] = "success"
        /\ pc[r] = "error" =>
              IF ran[r] = None THEN inv[r] \in {"absent", "pending"}
                               ELSE inv[r] = "failed"

\* With a database that works and no crash, a free row stands for a running
\* container, or a reaper is about to delete the row: a request that acquires
\* one is not sent to a container that died long ago, even when it was stopped
\* or deleted between a request's call and its completion.
FreeRowIsLive ==
    \A c \in Containers :
        status[c] = "free" =>
            \/ docker[c] = "running"
            \/ \E p \in Reapers : reaper[p].target = c

\* With no failure, every container that exists is within reach: it has a row,
\* which the spleen will find, or the request that is starting it still has it.
NoLeakedContainer ==
    \A c \in Containers :
        docker[c] \in Existing =>
            status[c] # "absent" \/ \E r \in Requests : held[r] = c

-----------------------------------------------------------------------------
(* Why the safety properties hold: the inductive invariant of the proofs *)

Starting == {"start", "ready", "abandon", "insert"}
Serving  == {"mark", "call", "drop", "forget", "fail", "finish"}

\* Between these labels, and only there, a request has a container.
HeldByLabel == \A r \in Requests : held[r] # None <=> pc[r] \in Starting \cup Serving

\* A row is freed only by the request that lets go of the container.
HeldNotFree == \A r \in Requests : held[r] # None => status[held[r]] # "free"

\* A new container has no row and no user, and never had.
UnbornUnused ==
    \A c \in Containers :
        docker[c] = "unborn" =>
            /\ status[c] = "absent"
            /\ \A r \in Requests : held[r] # c /\ ran[r] # c

\* The container of a running invocation is not free, and no other request has it.
RunnerOwns ==
    \A r \in Requests :
        inv[r] = "running" =>
            /\ ran[r] # None /\ status[ran[r]] # "free"
            /\ \A s \in Requests : s # r => held[s] # ran[r]

Ownership ==
    /\ TypeOK
    /\ HeldByLabel /\ HeldNotFree /\ UnbornUnused /\ RunnerOwns
    /\ ExclusiveUse /\ OneRunnerPerContainer

\* A container that is starting has no row yet; the row of one that serves a
\* request is of the version the request resolved.
VersionOfHeld ==
    \A r \in Requests :
        /\ pc[r] \in Starting => status[held[r]] = "absent"
        /\ pc[r] \in Serving /\ status[held[r]] # "absent" => fnOf[held[r]] = fn[r]

\* Whoever recorded a success has returned, or died.
SuccessEnds == \A r \in Requests : inv[r] = "success" => pc[r] \in Finished

\* The path by where the goroutine stands: the cold one is never left again.
PathByLabel ==
    \A r \in Requests :
        /\ pc[r] \in {"new", "create", "acquire"} \cup Finished => path[r] = "none"
        /\ pc[r] = "pull" => path[r] \in {"none", "warm"}
        /\ pc[r] \in {"spawn"} \cup Starting => path[r] = "cold"
        /\ pc[r] \in Serving => path[r] \in {"warm", "cold"}

\* What a reaper works on, or has queued, had a row once, and so exists or did.
ReapedAreBorn ==
    /\ \A p \in Reapers :
          reaper[p].step # "rest" =>
             reaper[p].target # None /\ docker[reaper[p].target] # "unborn"
    /\ \A q \in Cleanups \cup {Spleen} : \A c \in todo[q] : docker[c] # "unborn"

\* A container that is starting has never had a row, and no reaper knows it.
StartingUnreaped ==
    \A r \in Requests :
        pc[r] \in Starting =>
            /\ \A q \in Cleanups \cup {Spleen} : held[r] \notin todo[q]
            /\ \A p \in Reapers : reaper[p].step # "rest" => reaper[p].target # held[r]

StartingIsLive ==
    \A r \in Requests :
        /\ pc[r] = "start" => docker[held[r]] = "created"
        /\ pc[r] \in {"ready", "abandon", "insert"} => docker[held[r]] = "running"

\* What the table says of an invocation, by where its goroutine stands.  Between
\* two calls it shows the failure of the first, if there was one.
RecordByLabel ==
    \A r \in Requests :
        /\ pc[r] \in {"new", "create"} => inv[r] = "absent" /\ ran[r] = None
        /\ pc[r] = "acquire" => inv[r] = "pending" /\ ran[r] = None
        /\ pc[r] \in {"mark", "pull", "spawn"} \cup Starting
              => inv[r] = IF ran[r] = None THEN "pending" ELSE "failed"
        /\ pc[r] \in Serving \ {"mark"} => inv[r] = "running" /\ ran[r] # None

\* A row without a running container is about to be removed.
RowsAreLive ==
    \A c \in Containers :
        status[c] # "absent" =>
            \/ docker[c] = "running"
            \/ \E p \in Reapers : reaper[p].step # "rest" /\ reaper[p].target = c
            \/ \E r \in Requests : held[r] = c /\ pc[r] = "forget"

\* Whoever is about to forget a container has deleted it.
ForgottenAreGone ==
    /\ \A r \in Requests : pc[r] \in {"forget", "fail"} => docker[held[r]] = "gone"
    /\ \A p \in Reapers : reaper[p].step = "remove" => docker[reaper[p].target] = "gone"
    /\ \A r \in Requests :
          pc[r] \in Serving /\ status[held[r]] = "absent" => docker[held[r]] = "gone"

-----------------------------------------------------------------------------
(* Liveness *)

\* Every request that starts is answered, or dies with the process.
EveryRequestAnswered ==
    \A r \in Requests :
        pc[r] \notin Finished \cup {"new"} ~> pc[r] \in Finished

\* The rows of containers that are no longer used go away, those that a crash
\* left busy among them: the spleen looks at their age alone.
RowsReclaimed == <>[](\A c \in Containers : status[c] = "absent")

\* With no failure, every container is deleted in the end.
ContainersReclaimed == <>[](\A c \in Containers : docker[c] \notin Existing)

-----------------------------------------------------------------------------
(* What comments of the source say, and the code does not do *)

\* "BUSY containers are left alone to finish in-flight requests"
\* (rollback_service.go:143): the cleanup of a rollback never stops or deletes
\* a container that a request is using.
RollbackSparesBusy ==
    \A k \in Cleanups, r \in Requests :
        reaper[k].step \in {"stop", "delete"} /\ pc[r] \in Using
            => held[r] # reaper[k].target

=============================================================================
