------------------------------- MODULE Scheduler -------------------------------
(***************************************************************************)
(* Schedules: the rows of the schedules table                              *)
(* (internal/sqlite/store/schedule_store.go), the entries of the cron of   *)
(* the process (internal/service/schedule_service.go), and the handlers    *)
(* that change both, one after the other (internal/api/schedule.go),       *)
(* through crashes and the load that follows.                              *)
(*                                                                         *)
(* A schedule names the row of one version of a function.  Deployments and *)
(* deletions of functions are single steps here; module FunctionVersions   *)
(* has them in detail.  A cron expression that the handler accepted is     *)
(* accepted by the cron, which parses it alike.                            *)
(***************************************************************************)
EXTENDS Integers, FiniteSets

CONSTANTS
    Schedules,   \* ids of the schedules that may be created
    Functions,   \* rows of the functions table that may be inserted
    NameOf,      \* the name of each of those rows
    Deletes,     \* requests that delete schedules
    MaxCrashes,  \* bound on the crashes of the process
    None,
    Faults       \* the calls that may fail, by name

FaultNames == {"insert", "delete", "list", "read"}
Names      == {NameOf[f] : f \in Functions}

ASSUME FunctionAssumption == None \notin Functions /\ DOMAIN NameOf = Functions
ASSUME BoundAssumption    == MaxCrashes \in Nat /\ Faults \subseteq FaultNames

VARIABLES
    fnStatus,      \* functions: the status of each row
    stored, fnOf,  \* schedules: the rows, and the function_id of each
    phase, toLoad, \* where main is, and what LoadSchedules has still to load
    entries,       \* the schedules registered with the cron
    made,          \* how many semaphores each schedule has had
    jobs,          \* executions under way, by the semaphore that each holds
    spc,           \* each creation: where it is
    epc, ids,      \* each deletion: where, and the schedules to unregister
    crashes,
    skipped,       \* history: left out by the last load, which had two failures
    raced          \* history: deleted in a way that may leave the entry behind

fnVars   == fnStatus
rowVars  == <<stored, fnOf>>
bootVars == <<phase, toLoad, crashes, skipped>>
cronVars == <<entries, made, jobs>>
delVars  == <<epc, ids>>
vars == <<fnVars, rowVars, bootVars, cronVars, spc, delVars, raced>>

-----------------------------------------------------------------------------
(* Values *)

FnStatus    == {"unborn", "active", "inactive", "deleted"}
Phase       == {"down", "loading", "serving"}
CreateLabel == {"new", "insert", "register", "done"}
DeleteLabel == {"new", "name", "id", "remove", "done"}

TypeOK ==
    /\ fnStatus \in [Functions -> FnStatus]
    /\ stored \subseteq Schedules
    /\ fnOf \in [Schedules -> Functions \cup {None}]
    /\ phase \in Phase
    /\ toLoad \subseteq Schedules
    /\ entries \subseteq Schedules
    /\ made \in [Schedules -> Nat]
    /\ jobs \in [Schedules -> SUBSET Nat]
    /\ spc \in [Schedules -> CreateLabel]
    /\ epc \in [Deletes -> DeleteLabel]
    /\ ids \in [Deletes -> SUBSET Schedules]
    /\ crashes \in 0..MaxCrashes
    /\ skipped \subseteq Schedules
    /\ raced \subseteq Schedules

Rows          == {f \in Functions : fnStatus[f] \in {"active", "inactive"}}
Active        == {f \in Functions : fnStatus[f] = "active"}
HasFunction   == {s \in Schedules : fnOf[s] \in Rows}
Named(n)      == {f \in Functions : NameOf[f] = n}
SchedulesOf(n) == {s \in stored \cap HasFunction : NameOf[fnOf[s]] = n}

Init ==
    /\ fnStatus = [f \in Functions |-> "unborn"]
    /\ stored = {}
    /\ fnOf = [s \in Schedules |-> None]
    /\ phase = "down"
    /\ toLoad = {}
    /\ entries = {}
    /\ made = [s \in Schedules |-> 0]
    /\ jobs = [s \in Schedules |-> {}]
    /\ spc = [s \in Schedules |-> "new"]
    /\ epc = [e \in Deletes |-> "new"]
    /\ ids = [e \in Deletes |-> {}]
    /\ crashes = 0
    /\ skipped = {}
    /\ raced = {}

-----------------------------------------------------------------------------
(* Functions come and go *)

\* Slip: the server is started first, to be ready sooner.
ServingEarly == phase \in {"loading", "serving"}

Serving == phase = "serving"

\* The row of a new version is the active one of its name from now on.
DeployFunction(f) ==
    /\ Serving /\ fnStatus[f] = "unborn"
    /\ fnStatus' = [g \in Functions |->
                       IF g = f THEN "active"
                       ELSE IF g \in Named(NameOf[f]) \cap Rows THEN "inactive"
                       ELSE fnStatus[g]]
    /\ UNCHANGED <<rowVars, bootVars, cronVars, spc, delVars, raced>>

\* Slip: a status for the rows of a name that is gone.
ArchiveFunction(n) ==
    /\ Serving /\ Named(n) \cap Rows # {}
    /\ fnStatus' = [g \in Functions |->
                       IF g \in Named(n) \cap Rows THEN "archived" ELSE fnStatus[g]]
    /\ UNCHANGED <<rowVars, bootVars, cronVars, spc, delVars, raced>>

\* The rows of the name go.  Its schedules stay, in the table and in the cron.
DeleteFunction(n) ==
    /\ Serving /\ Named(n) \cap Rows # {}
    /\ fnStatus' = [g \in Functions |->
                       IF g \in Named(n) \cap Rows THEN "deleted" ELSE fnStatus[g]]
    /\ UNCHANGED <<rowVars, bootVars, cronVars, spc, delVars, raced>>

-----------------------------------------------------------------------------
(* The process starts, and dies *)

\* Slip: only schedules of the version that is active.
LoadableOfActive == {s \in stored : fnOf[s] \in Active}

\* Slip: the table of schedules as it is.
LoadableUnjoined == stored

\* ListSchedules joins the functions: a row that has lost its own is not seen.
Loadable == stored \cap HasFunction

\* A list that cannot be read ends the process again, and nothing has changed.
LoadSchedules ==
    /\ phase = "down"
    /\ phase' = "loading"
    /\ toLoad' = Loadable
    /\ UNCHANGED <<fnVars, rowVars, crashes, skipped, cronVars, spc, delVars, raced>>

\* SchedulerService.RegisterSchedule: an entry that is there stays; a new one
\* gets a new semaphore, since RemoveSchedule forgets the old one with it.
Register(s) ==
    IF s \in entries
    THEN UNCHANGED <<entries, made>>
    ELSE /\ entries' = entries \cup {s}
         /\ made' = [made EXCEPT ![s] = @ + 1]

\* Its function is looked up, and it is registered.  When the function cannot
\* be read, the schedule is taken for an orphan and deleted.
LoadSchedule(s) ==
    /\ s \in toLoad
    /\ toLoad' = toLoad \ {s}
    /\ \/ /\ Register(s)
          /\ UNCHANGED <<stored, skipped>>
       \/ /\ "read" \in Faults
          /\ stored' = stored \ {s}
          /\ UNCHANGED <<entries, made, skipped>>
       \/ /\ {"read", "delete"} \subseteq Faults
          /\ skipped' = skipped \cup {s}
          /\ UNCHANGED <<entries, made, stored>>
    /\ UNCHANGED <<fnVars, fnOf, phase, crashes, jobs, spc, delVars, raced>>

\* The cron is started, then the server.
Serve ==
    /\ phase = "loading" /\ toLoad = {}
    /\ phase' = "serving"
    /\ UNCHANGED <<fnVars, rowVars, toLoad, crashes, skipped, cronVars, spc, delVars, raced>>

\* The handlers and the cron are gone; the tables stay.
Crash ==
    /\ phase # "down" /\ crashes < MaxCrashes
    /\ crashes' = crashes + 1
    /\ phase' = "down"
    /\ toLoad' = {}
    /\ entries' = {}
    /\ made' = [s \in Schedules |-> 0]
    /\ jobs' = [s \in Schedules |-> {}]
    /\ spc' = [s \in Schedules |-> IF spc[s] = "new" THEN "new" ELSE "done"]
    /\ epc' = [e \in Deletes |-> IF epc[e] = "new" THEN "new" ELSE "done"]
    /\ ids' = [e \in Deletes |-> {}]
    /\ skipped' = {}
    /\ raced' = {}
    /\ UNCHANGED <<fnVars, rowVars>>

-----------------------------------------------------------------------------
(* The cron *)

\* An entry fires: it takes the semaphore it was registered with, the last one
\* made, or skips the execution; a function that is not there, whatever its
\* status, ends it at once.  The job of the cron, its semaphore and the read of the
\* function are one step.
Fire(s) ==
    /\ Serving /\ s \in entries /\ fnOf[s] \in Rows
    /\ made[s] \notin jobs[s]
    /\ jobs' = [jobs EXCEPT ![s] = @ \cup {made[s]}]
    /\ UNCHANGED <<fnVars, rowVars, bootVars, entries, made, spc, delVars, raced>>

\* The invocation returns, also one whose schedule has been removed meanwhile.
InvokeReturns(s) ==
    /\ \E g \in jobs[s] : jobs' = [jobs EXCEPT ![s] = @ \ {g}]
    /\ UNCHANGED <<fnVars, rowVars, bootVars, entries, made, spc, delVars, raced>>

-----------------------------------------------------------------------------
(* Creations *)

CreateGoto(s, l) == spc' = [spc EXCEPT ![s] = l]

\* GetActiveFunction, by name.
CreateBegins(s) ==
    /\ Serving /\ spc[s] = "new"
    /\ \E f \in Active : fnOf' = [fnOf EXCEPT ![s] = f]
    /\ CreateGoto(s, "insert")
    /\ UNCHANGED <<fnVars, stored, bootVars, cronVars, delVars, raced>>

\* CreateSchedule.  After a failure, there is no entry to remove.
InsertSchedule(s) ==
    /\ spc[s] = "insert"
    /\ \/ stored' = stored \cup {s} /\ CreateGoto(s, "register")
       \/ "insert" \in Faults /\ CreateGoto(s, "done") /\ UNCHANGED stored
    /\ UNCHANGED <<fnVars, fnOf, bootVars, cronVars, delVars, raced>>

RegisterSchedule(s) ==
    /\ spc[s] = "register"
    /\ Register(s)
    /\ CreateGoto(s, "done")
    /\ UNCHANGED <<fnVars, rowVars, bootVars, jobs, delVars, raced>>

-----------------------------------------------------------------------------
(* Deletions *)

DeleteGoto(e, l) == epc' = [epc EXCEPT ![e] = l]

\* The rows of gone are deleted by a request that will unregister known.  An
\* entry may stay that is not among those, or that is still to be registered.
DeleteRows(gone, known) ==
    /\ stored' = stored \ gone
    /\ raced' = raced \cup {s \in gone : s \notin known \/ spc[s] = "register"}

\* ?removeall=true: the table only; "a restart will clean them up".
DeleteAllSchedules(e) ==
    /\ Serving /\ epc[e] = "new"
    /\ DeleteRows(stored, {})
    /\ DeleteGoto(e, "done")
    /\ UNCHANGED <<fnVars, fnOf, bootVars, cronVars, spc, ids>>

\* ?function=n: the schedules of the name are listed first.
ListSchedulesByFunctionName(e, n) ==
    /\ Serving /\ epc[e] = "new"
    /\ \/ /\ SchedulesOf(n) # {}
          /\ ids' = [ids EXCEPT ![e] = SchedulesOf(n)]
          /\ DeleteGoto(e, "name")
       \/ /\ SchedulesOf(n) = {} \/ "list" \in Faults
          /\ DeleteGoto(e, "done")
          /\ UNCHANGED ids
    /\ UNCHANGED <<fnVars, rowVars, bootVars, cronVars, spc, raced>>

\* Slip: those still stored after the deletion are unregistered.
DeleteThenList(e, n) ==
    /\ epc[e] = "name" /\ \E s \in ids[e] : NameOf[fnOf[s]] = n
    /\ stored' = stored \ SchedulesOf(n)
    /\ ids' = [ids EXCEPT ![e] = {}]
    /\ DeleteGoto(e, "remove")
    /\ UNCHANGED <<fnVars, fnOf, bootVars, cronVars, spc, raced>>

\* DeleteSchedulesByFunctionName: all that the name has by now.
DeleteSchedulesByFunctionName(e, n) ==
    /\ epc[e] = "name" /\ \E s \in ids[e] : NameOf[fnOf[s]] = n
    /\ \/ /\ DeleteRows(SchedulesOf(n), ids[e])
          /\ DeleteGoto(e, "remove")
          /\ UNCHANGED ids
       \/ /\ "delete" \in Faults
          /\ ids' = [ids EXCEPT ![e] = {}]
          /\ DeleteGoto(e, "done")
          /\ UNCHANGED <<stored, raced>>
    /\ UNCHANGED <<fnVars, fnOf, bootVars, cronVars, spc>>

\* /schedules/{id}, for an id that the client has been told of.
DeleteBegins(e) ==
    /\ Serving /\ epc[e] = "new"
    /\ \E s \in Schedules :
          /\ spc[s] \in {"register", "done"}
          /\ ids' = [ids EXCEPT ![e] = {s}]
    /\ DeleteGoto(e, "id")
    /\ UNCHANGED <<fnVars, rowVars, bootVars, cronVars, spc, raced>>

\* Slip: unregistered first, so that it cannot fire while it is deleted.
UnregisterThenDelete(e) ==
    /\ epc[e] = "id"
    /\ entries' = entries \ ids[e]
    /\ \/ DeleteRows(ids[e] \cap stored, ids[e])
       \/ "delete" \in Faults /\ UNCHANGED <<stored, raced>>
    /\ DeleteGoto(e, "done")
    /\ ids' = [ids EXCEPT ![e] = {}]
    /\ UNCHANGED <<fnVars, fnOf, bootVars, made, jobs, spc>>

\* Slip: and registered again when the row cannot be deleted.
UnregisterOrUndo(e) ==
    /\ epc[e] = "id"
    /\ \/ /\ DeleteRows(ids[e] \cap stored, ids[e])
          /\ entries' = entries \ ids[e]
          /\ UNCHANGED made
       \/ /\ "delete" \in Faults
          /\ made' = [s \in Schedules |->
                         IF s \in ids[e] \cap entries THEN made[s] + 1 ELSE made[s]]
          /\ UNCHANGED <<entries, stored, raced>>
    /\ DeleteGoto(e, "done")
    /\ ids' = [ids EXCEPT ![e] = {}]
    /\ UNCHANGED <<fnVars, fnOf, bootVars, jobs, spc>>

\* DeleteSchedule: an id that has no row is an error, and its entry stays.
DeleteSchedule(e) ==
    /\ epc[e] = "id"
    /\ \/ /\ ids[e] \subseteq stored
          /\ DeleteRows(ids[e], ids[e])
          /\ DeleteGoto(e, "remove")
          /\ UNCHANGED ids
       \/ /\ "delete" \in Faults \/ ~(ids[e] \subseteq stored)
          /\ ids' = [ids EXCEPT ![e] = {}]
          /\ DeleteGoto(e, "done")
          /\ UNCHANGED <<stored, raced>>
    /\ UNCHANGED <<fnVars, fnOf, bootVars, cronVars, spc>>

\* RemoveSchedule, for one id of the list after the other.  An execution that
\* is under way goes on.
RemoveSchedule(e) ==
    /\ epc[e] = "remove"
    /\ \/ \E s \in ids[e] :
             /\ entries' = entries \ {s}
             /\ ids' = [ids EXCEPT ![e] = @ \ {s}]
             /\ UNCHANGED epc
       \/ /\ ids[e] = {}
          /\ DeleteGoto(e, "done")
          /\ UNCHANGED <<entries, ids>>
    /\ UNCHANGED <<fnVars, rowVars, bootVars, made, jobs, spc, raced>>

-----------------------------------------------------------------------------
(* The specification *)

BootStep == LoadSchedules \/ (\E s \in Schedules : LoadSchedule(s)) \/ Serve

CreateStep(s) == InsertSchedule(s) \/ RegisterSchedule(s)

DeleteStep(e) ==
    \/ \E n \in Names : DeleteSchedulesByFunctionName(e, n)
    \/ DeleteSchedule(e)
    \/ RemoveSchedule(e)

Next ==
    \/ \E f \in Functions : DeployFunction(f)
    \/ \E n \in Names : DeleteFunction(n)
    \/ BootStep
    \/ Crash
    \/ \E s \in Schedules : Fire(s) \/ InvokeReturns(s) \/ CreateBegins(s) \/ CreateStep(s)
    \/ \E e \in Deletes : DeleteAllSchedules(e) \/ DeleteBegins(e) \/ DeleteStep(e)
    \/ \E e \in Deletes, n \in Names : ListSchedulesByFunctionName(e, n)

Spec == Init /\ [][Next]_vars

\* The supervisor restarts the process, and handlers that began go on.
Fairness ==
    /\ WF_vars(BootStep)
    /\ \A s \in Schedules : WF_vars(CreateStep(s))
    /\ \A e \in Deletes : WF_vars(DeleteStep(e))

FairSpec == Spec /\ Fairness

-----------------------------------------------------------------------------
(* Properties *)

\* While requests are served, a schedule that is stored and whose function is
\* there has its entry, or the handler that creates it is about to add it: also
\* after deletions that failed half-way, new versions of the function, and
\* crashes between the two steps of a creation.
RowsAreRegistered ==
    Serving => \A s \in stored \cap HasFunction :
                  s \in entries \/ spc[s] = "register" \/ s \in skipped

\* A schedule that has been deleted keeps its entry only until the request that
\* deleted it removes that; except when it was deleted behind the back of the
\* request (see raced) or of its own creation.
DeletedAreUnregistered ==
    \A s \in entries \ (stored \cup raced) :
        \E e \in Deletes : epc[e] = "remove" /\ s \in ids[e]

\* An execution of a schedule never begins before the last one has ended, even
\* though its removal forgets the semaphore that the execution still holds, and
\* a registration makes a new one.
NoOverlap == \A s \in Schedules : \A g, h \in jobs[s] : g = h

\* "Important: DB delete MUST come first to prevent zombie scheduler entries
\* being re-registered on restart" (api/schedule.go:237): an entry is only ever
\* added for a schedule that is stored, or by the request that creates it.
NothingDeletedReturns ==
    [][\A s \in entries' \ entries : s \in stored \/ spc[s] = "register"]_vars

\* "Store scheduled jobs in SQLite so they survive restarts" (WEEKLY_PLAN.md:163):
\* a schedule that is stored gets its entry, whatever crashes, as long as it
\* and its function are there.
SchedulesSurvive ==
    \A s \in Schedules :
        s \in stored ~> \/ s \in entries \cup skipped
                        \/ s \notin stored \cap HasFunction

-----------------------------------------------------------------------------
(* The timetable that the schedules implement *)

Useful == stored \cap HasFunction

\* A schedule lives with its row and its function.
Life(s) ==
    IF spc[s] \in {"new", "insert"} THEN "new"
    ELSE IF s \in Useful THEN "live" ELSE "ended"

\* Whoever may still register s: its creation, the load, or the load to come.
MayRegister(s) ==
    \/ spc[s] \in {"new", "insert", "register"}
    \/ s \in toLoad
    \/ phase = "down" /\ s \in Useful

Alarm(s) ==
    IF s \in entries THEN "armed"
    ELSE IF MayRegister(s) THEN "pending" ELSE "spent"

Table == INSTANCE Timetable WITH
    life <- [s \in Schedules |-> Life(s)],
    alarm <- [s \in Schedules |-> Alarm(s)],
    running <- {s \in Schedules : jobs[s] # {}}

\* Rows, entries and semaphores, which handlers, the load and the cron change
\* one at a time and crashes leave apart, behave as one timetable: a schedule
\* that has ended never comes back after a restart, and one that lives keeps
\* its entry.
ImplementsTimetable == Table!Spec

-----------------------------------------------------------------------------
(* What a comment says, and the code does not do *)

\* "Function does not exist - this is an orphaned schedule entry"
\* (schedule_service.go:62): the load deletes only schedules whose function is
\* not there.
OrphansOnly ==
    [][phase = "loading" => (stored \ stored') \cap HasFunction = {}]_vars

=============================================================================
