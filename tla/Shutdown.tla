------------------------------ MODULE Shutdown ------------------------------
(***************************************************************************)
(* The shutdown of the runtime manager (cmd/runtime-manager/main.go and    *)
(* GracefulShutdown in internal/service/container_spleen.go), composed     *)
(* with the container pool it takes down.  The main goroutine goes through *)
(* its phases while requests, scheduled jobs and the spleen still run:     *)
(* closing the spleen's channel waits for no cycle, stopping the cron waits*)
(* for no job, and the wait for the requests has a deadline.               *)
(*                                                                         *)
(* Deployments and rollbacks are left out here: what they do to containers *)
(* is one more reaper, and ContainerPool has it.                           *)
(***************************************************************************)
EXTENDS ContainerPool, FiniteSets

CONSTANTS
    Jobs,        \* the requests that the cron makes; the others come by HTTP
    CleanupFails \* whether a Docker call of the container cleanup may fail

ASSUME JobsAssumption == Jobs \subseteq Requests
ASSUME CleanupAssumption == CleanupFails \in BOOLEAN

VARIABLES
    main,     \* what the main goroutine does next
    spleen,   \* the spleen's goroutine
    begun,    \* requests a handler or a job has been started for
    listed,   \* containers of the last list of the daemon
    work,     \* containers the current phase still has to deal with
    results,  \* containers whose deletion was tried: deleteResultsCh
    failed,   \* stopFailed or removeFailed is positive
    outcome,  \* how GracefulShutdown ended
    timedOut, \* history: the wait for the requests met its deadline
    quiet,    \* history: nothing else was under way when that wait ended
    blind     \* history: the second list failed

poolVars == <<fnVars, rowVars, docker, invVars, reqVars, reapVars, crashes>>
passVars == <<listed, work, results, failed, outcome, blind>>
aside    == <<spleen, begun, timedOut, quiet>>
shutVars == <<main, passVars, aside>>
allVars  == <<poolVars, shutVars>>

\* The pool but for what a step of the cleanup changes in it.
allButDocker == <<fnVars, rowVars, invVars, reqVars, reapVars, crashes>>
allButRows   == <<fnVars, docker, invVars, reqVars, reapVars, crashes>>

Phases == {"serving", "cron", "drain", "list", "stop", "relist", "delete",
           "forget", "orphans", "sweep", "exited"}

\* The phases in which GracefulShutdown stops or deletes what is in work.
Destroying == {"stop", "delete"}

ShutdownTypeOK ==
    /\ main \in Phases /\ spleen \in {"on", "closed", "off"}
    /\ begun \subseteq Requests
    /\ listed \subseteq Containers /\ work \subseteq Containers
    /\ results \subseteq Containers
    /\ main \in Destroying => work \cup results \subseteq listed
    /\ failed \in BOOLEAN
    /\ outcome \in {"none", "unlisted", "empty", "clean", "errors"}
    /\ {timedOut, quiet, blind} \subseteq BOOLEAN

ShutdownInit ==
    /\ Init
    /\ main = "serving" /\ spleen = "on" /\ begun = {}
    /\ listed = {} /\ work = {} /\ results = {}
    /\ failed = FALSE /\ outcome = "none"
    /\ timedOut = FALSE /\ quiet = FALSE /\ blind = FALSE

-----------------------------------------------------------------------------
(* The pool, as long as the process lives *)

Closed(r) == pc[r] \in Finished

\* Started, and neither answered nor dead.
InFlight == {r \in begun : ~Closed(r)}

\* The listener is open until srv.Shutdown returns or closes it; the cron fires
\* until scheduler.Stop.
Begin(r) ==
    /\ r \notin begun
    /\ main \in IF r \in Jobs THEN {"serving", "cron"} ELSE {"serving", "cron", "drain"}
    /\ begun' = begun \cup {r}
    /\ UNCHANGED <<poolVars, main, spleen, passVars, timedOut, quiet>>

\* A job runs with a context that nobody cancels.
RequestRuns(r) ==
    /\ r \in begun
    /\ \/ ResolveFunction(r) \/ InvokeStep(r)
       \/ r \notin Jobs /\ ClientLeaves(r)
    /\ UNCHANGED shutVars

\* The select of the spleen may take a tick although its channel is closed.
SpleenCycle ==
    /\ spleen # "off" /\ SpleenScan
    /\ UNCHANGED shutVars

SpleenIdle == todo[Spleen] = {} /\ \A w \in Workers : reaper[w] = AtRest

\* The goroutine looks at its channel between two cycles only.
SpleenStops ==
    /\ spleen = "closed" /\ SpleenIdle
    /\ spleen' = "off"
    /\ UNCHANGED <<poolVars, main, begun, passVars, timedOut, quiet>>

PoolRuns ==
    /\ main # "exited"
    /\ \/ \E r \in Requests : Begin(r) \/ RequestRuns(r)
       \/ SpleenCycle \/ SpleenStops
       \/ \E p \in Workers : ReapStep(p) /\ UNCHANGED shutVars
       \/ \E c \in Containers : Age(c) /\ UNCHANGED shutVars

-----------------------------------------------------------------------------
(* main: the phases up to the container cleanup *)

\* The signal arrives: close(spleenStopCh).
CloseSpleen ==
    /\ main = "serving"
    /\ main' = "cron"
    /\ spleen' = "closed"
    /\ UNCHANGED <<poolVars, begun, passVars, timedOut, quiet>>

\* scheduler.Stop: no job is fired any more; the context that would tell when
\* the running ones are done is dropped.
StopScheduler ==
    /\ main = "cron"
    /\ main' = "drain"
    /\ UNCHANGED <<poolVars, spleen, begun, passVars, timedOut, quiet>>

\* Slip: the listener is closed, and nobody is waited for.
CloseServer ==
    /\ main = "drain"
    /\ timedOut' = FALSE
    /\ quiet' = (InFlight = {} /\ spleen = "off")
    /\ main' = "list"
    /\ UNCHANGED <<poolVars, spleen, begun, passVars>>

\* srv.Shutdown returns when the last handler has, or at its deadline.
ShutdownServer ==
    /\ main = "drain"
    /\ timedOut' = (InFlight \ Jobs # {})
    /\ quiet' = (InFlight = {} /\ spleen = "off")
    /\ main' = "list"
    /\ UNCHANGED <<poolVars, spleen, begun, passVars>>

-----------------------------------------------------------------------------
(* main: GracefulShutdown *)

Known == {c \in Containers : docker[c] \in Existing}

\* What the daemon reports as running, and as exited.
Running == {c \in Containers : docker[c] = "running"}
Exited  == {c \in Containers : docker[c] = "stopped"}

\* The first list: an error, or no container at all, ends the cleanup.
ListContainers ==
    /\ main = "list"
    /\ \/ /\ Known # {}
          /\ listed' = Known /\ work' = Running
          /\ main' = "stop"
          /\ UNCHANGED outcome
       \/ /\ Known = {}
          /\ main' = "exited" /\ outcome' = "empty"
          /\ UNCHANGED <<listed, work>>
       \/ /\ CleanupFails
          /\ main' = "exited" /\ outcome' = "unlisted"
          /\ UNCHANGED <<listed, work>>
    /\ UNCHANGED <<poolVars, results, failed, blind, aside>>

\* Slip: the failure of a stop is logged and not counted.
StopUncounted(c) ==
    /\ main = "stop" /\ c \in work
    /\ work' = work \ {c}
    /\ \/ /\ docker[c] # "gone"
          /\ docker' = [docker EXCEPT ![c] = IF @ = "running" THEN "stopped" ELSE @]
       \/ /\ CleanupFails \/ docker[c] = "gone"
          /\ UNCHANGED docker
    /\ UNCHANGED <<allButDocker, main, listed, results, failed, outcome, blind, aside>>

\* Slip: a stop that failed is tried again.
StopUntilStopped(c) ==
    /\ main = "stop" /\ c \in work
    /\ \/ /\ docker[c] # "gone"
          /\ work' = work \ {c}
          /\ docker' = [docker EXCEPT ![c] = IF @ = "running" THEN "stopped" ELSE @]
          /\ UNCHANGED failed
       \/ /\ CleanupFails \/ docker[c] = "gone"
          /\ failed' = TRUE
          /\ UNCHANGED <<work, docker>>
    /\ UNCHANGED <<allButDocker, main, listed, results, outcome, blind, aside>>

\* Phase 1: up to four workers stop the containers that were running.  Stopping
\* one that the spleen has deleted counts as a failure.
StopContainer(c) ==
    /\ main = "stop" /\ c \in work
    /\ work' = work \ {c}
    /\ \/ /\ docker[c] # "gone"
          /\ docker' = [docker EXCEPT ![c] = IF @ = "running" THEN "stopped" ELSE @]
          /\ UNCHANGED failed
       \/ /\ CleanupFails \/ docker[c] = "gone"
          /\ failed' = TRUE
          /\ UNCHANGED docker
    /\ UNCHANGED <<allButDocker, main, listed, results, outcome, blind, aside>>

\* wg.Wait returns.
StopEnds ==
    /\ main = "stop" /\ work = {}
    /\ main' = "relist"
    /\ UNCHANGED <<poolVars, passVars, aside>>

\* Slip: the second list keeps only what is to be removed.
RelistExited ==
    /\ main = "relist"
    /\ \/ listed' = Exited /\ work' = Exited /\ blind' = FALSE
       \/ CleanupFails /\ listed' = {} /\ work' = {} /\ blind' = TRUE
    /\ main' = "delete"
    /\ UNCHANGED <<poolVars, results, failed, outcome, aside>>

\* Slip: a failed list is dropped only after the containers were collected.
RelistLate ==
    /\ main = "relist"
    /\ work' = Exited
    /\ \/ listed' = Known /\ blind' = FALSE
       \/ CleanupFails /\ listed' = {} /\ blind' = TRUE
    /\ main' = "delete"
    /\ UNCHANGED <<poolVars, results, failed, outcome, aside>>

\* Phase 2 looks again for what has exited.  An error leaves it with nothing to
\* delete, and is not counted.
RelistContainers ==
    /\ main = "relist"
    /\ \/ listed' = Known /\ work' = Exited /\ blind' = FALSE
       \/ CleanupFails /\ listed' = {} /\ work' = {} /\ blind' = TRUE
    /\ main' = "delete"
    /\ UNCHANGED <<poolVars, results, failed, outcome, aside>>

\* Slip: a channel without a buffer, which nobody reads before the workers end.
Unbuffered == 0

\* The capacity of deleteResultsCh: as many as there are to remove.
ResultRoom == Cardinality(work \cup results)

\* Phase 2a: up to four workers delete them; one that is gone is no failure.
DeleteContainer(c) ==
    /\ main = "delete" /\ c \in work
    /\ Cardinality(results) < ResultRoom
    /\ work' = work \ {c}
    /\ results' = results \cup {c}
    /\ \/ docker' = [docker EXCEPT ![c] = "gone"] /\ UNCHANGED failed
       \/ CleanupFails /\ failed' = TRUE /\ UNCHANGED docker
    /\ UNCHANGED <<allButDocker, main, listed, outcome, blind, aside>>

\* removeWg.Wait returns; every result is read from the channel.
DeleteEnds ==
    /\ main = "delete" /\ work = {}
    /\ main' = "forget"
    /\ work' = results /\ results' = {}
    /\ UNCHANGED <<poolVars, listed, failed, outcome, blind, aside>>

\* RemoveContainer: its error is logged, whichever pass it is of.
RemoveRow(c) ==
    /\ work' = work \ {c}
    /\ DeleteRow(c) \/ (DbFails /\ UNCHANGED rowVars)
    /\ UNCHANGED <<allButRows, main, listed, results, failed, outcome, blind, aside>>

\* Phase 2b: the rows go one by one, also where the deletion has failed.
ForgetDeleted(c) == main = "forget" /\ c \in work /\ RemoveRow(c)

ForgetEnds ==
    /\ main = "forget" /\ work = {}
    /\ main' = "orphans"
    /\ UNCHANGED <<poolVars, passVars, aside>>

\* Phase 2c: the rows that the second list does not confirm; an error of the
\* query skips the pass.
FindOrphans ==
    /\ main = "orphans"
    /\ \/ work' = {c \in Containers : status[c] # "absent"} \ listed
       \/ DbFails /\ work' = {}
    /\ main' = "sweep"
    /\ UNCHANGED <<poolVars, listed, results, failed, outcome, blind, aside>>

SweepOrphan(c) == main = "sweep" /\ c \in work /\ RemoveRow(c)

\* GracefulShutdown returns.
SweepEnds ==
    /\ main = "sweep" /\ work = {}
    /\ main' = "exited"
    /\ outcome' = IF failed THEN "errors" ELSE "clean"
    /\ UNCHANGED <<poolVars, listed, work, results, failed, blind, aside>>

MainStep ==
    \/ StopScheduler \/ ShutdownServer
    \/ ListContainers \/ StopEnds \/ RelistContainers \/ DeleteEnds
    \/ ForgetEnds \/ FindOrphans \/ SweepEnds
    \/ \E c \in Containers : StopContainer(c) \/ DeleteContainer(c)
                                \/ ForgetDeleted(c) \/ SweepOrphan(c)

ShutdownNext == PoolRuns \/ CloseSpleen \/ MainStep

ShutdownSpec == ShutdownInit /\ [][ShutdownNext]_allVars

-----------------------------------------------------------------------------
(* Properties *)

\* GracefulShutdown stops or deletes a container under an invocation only if
\* that is one of a scheduled job, which scheduler.Stop does not wait for, or
\* if the wait for the HTTP requests met its deadline: a request that got in
\* before the listener closed is otherwise answered first, whatever the spleen,
\* the jobs and the clients do meanwhile.
DrainedAreSpared ==
    \A r \in Requests :
        main \in Destroying /\ pc[r] \in Using /\ held[r] \in work
            => r \in Jobs \/ timedOut

\* When nothing else was under way after the wait for the requests, and the
\* second list did not fail, a shutdown that reports no failure leaves no
\* container that ever ran, and, with a database that works, no row: whatever
\* the crossing of spleen, requests and failed Docker calls had left.  (One that
\* was created and never started is left for good: it is neither running nor
\* exited.)
CleanExit ==
    main = "exited" /\ quiet /\ ~blind /\ outcome \in {"empty", "clean"} =>
        /\ Running = {} /\ Exited = {}
        /\ DbFails \/ \A c \in Containers : status[c] = "absent"

\* A container that the shutdown could not stop keeps its row, so that the
\* spleen of the next process finds it, unless the second list failed, or an
\* invocation or a spleen cycle went on during the cleanup.
UnstoppedStayKnown ==
    [][quiet /\ ~blind =>
         \A c \in Containers :
            docker[c] = "running" /\ status[c] # "absent" => status'[c] # "absent"]_allVars

\* Once the signal has come, main and its workers can always go on, whatever
\* fails and whoever else is still running: no worker waits for a reader of its
\* results who waits for the worker.
MainNeverStuck == main \notin {"serving", "exited"} => ENABLED MainStep

Turn(p) ==
    CASE p = "serving" -> 0 [] p = "cron"   -> 1 [] p = "drain"   -> 2
      [] p = "list"    -> 3 [] p = "stop"   -> 4 [] p = "relist"  -> 5
      [] p = "delete"  -> 6 [] p = "forget" -> 7 [] p = "orphans" -> 8
      [] p = "sweep"   -> 9 [] p = "exited" -> 10

\* No more steps than these are left to main and its workers.
StepsLeft == (10 - Turn(main)) * (Cardinality(Containers) + 1) + Cardinality(work)

\* Each step of main or a worker is one of finitely many, and the requests, jobs
\* and the spleen that go on meanwhile add none: whatever fails is passed over,
\* and not tried again.  With MainNeverStuck, main gets to its end.
ShutdownAdvances ==
    [][StepsLeft' <= StepsLeft /\ (MainStep => StepsLeft' < StepsLeft)]_allVars

-----------------------------------------------------------------------------
(* Why they hold: invariants of the proofs *)

Drained == main \notin {"serving", "cron", "drain"}

\* Results are there only while containers are deleted.
ResultsWhileDeleting == main # "delete" => results = {}

\* A container is to be deleted, or its deletion was tried; and it exists.
ResultsAreDone == work \cap results = {}
WorkIsBorn == main \in Destroying => \A c \in work : docker[c] # "unborn"

\* A request does nothing before its handler or job has been started.
NewUntilBegun == \A r \in Requests \ begun : pc[r] = "new"

\* The wait ended in time, and the listener was closed before.
HandlersAreDone == Drained /\ ~timedOut => \A r \in begun \ Jobs : Closed(r)

\* The spleen's goroutine ends between two cycles.  After a quiet end of the
\* wait nothing but main goes on.
QuietStays ==
    /\ spleen = "off" => SpleenIdle
    /\ quiet => /\ Drained /\ spleen = "off"
                /\ \A r \in begun : Closed(r)

\* Nothing that runs is deleted or taken for an orphan: what is deleted had
\* exited, and an orphan is unknown to the second list.
RunningIsListed ==
    quiet /\ ~blind =>
        /\ main \in {"delete", "forget"} => (work \cup results) \cap Running = {}
        /\ main \in {"delete", "forget", "orphans", "sweep"} => Running \subseteq listed
        /\ main = "sweep" => work \cap listed = {}

\* While the server serves, with a database that works, every row stands for a
\* container that exists or is about to be removed by whoever deleted the
\* container.
RowsAreReal ==
    \A c \in Containers :
        status[c] # "absent" =>
            \/ docker[c] \in {"running", "stopped"}
            \/ docker[c] = "gone" /\ \E p \in Workers :
                  reaper[p].step = "remove" /\ reaper[p].target = c
            \/ docker[c] = "gone" /\ \E r \in Requests : held[r] = c /\ pc[r] = "forget"

SoundUntilDrained == ~Drained => StartingIsLive /\ (DbFails \/ RowsAreReal)

\* What is left to do, phase by phase, for a shutdown that nothing disturbs.
ContainersLeft ==
    quiet /\ ~failed =>
        /\ main = "stop" => Running \subseteq work
        /\ main \in {"relist", "delete", "forget", "orphans", "sweep"} => Running = {}
        /\ main = "delete" /\ ~blind => Exited \subseteq work
        /\ main \in {"forget", "orphans", "sweep"} /\ ~blind => Exited = {}

Rows == {c \in Containers : status[c] # "absent"}

RowsLeft ==
    quiet =>
        /\ main \in {"list", "stop", "relist"} =>
              \A c \in Rows : docker[c] \in {"running", "stopped"}
        /\ main = "delete" /\ ~blind /\ ~failed => Rows \subseteq work \cup results
        /\ main = "forget" /\ ~blind /\ ~failed => Rows \subseteq work
        /\ main \in {"orphans", "sweep"} /\ ~blind /\ ~failed => Rows = {}

=============================================================================
