---------------------------- MODULE SchedulerProofs ----------------------------
(***************************************************************************)
(* What Scheduler guarantees for every number of schedules, functions,     *)
(* requests and crashes, and whatever calls fail.                          *)
(***************************************************************************)
EXTENDS Scheduler, TLAPS

-----------------------------------------------------------------------------
(* Type correctness *)

LEMMA TypeOKInit == Init => TypeOK
BY BoundAssumption
DEF Init, TypeOK, FnStatus, Phase, CreateLabel, DeleteLabel

LEMMA TypeOKBoot ==
  ASSUME TypeOK, BootStep \/ Crash
  PROVE  TypeOK'
<1> USE BoundAssumption DEF TypeOK, fnVars, rowVars, cronVars, delVars, Phase
<1>1. CASE LoadSchedules
  BY <1>1 DEF LoadSchedules, Loadable
<1>2. ASSUME NEW s \in Schedules, LoadSchedule(s) PROVE TypeOK'
  BY <1>2 DEF LoadSchedule, Register
<1>3. CASE Serve
  BY <1>3 DEF Serve
<1>4. CASE Crash
  BY <1>4 DEF Crash, CreateLabel, DeleteLabel
<1> QED
  BY <1>1, <1>2, <1>3, <1>4 DEF BootStep

LEMMA TypeOKFunctions ==
  ASSUME TypeOK,
         \/ \E f \in Functions : DeployFunction(f)
         \/ \E n \in Names : DeleteFunction(n)
  PROVE  TypeOK'
BY DEF TypeOK, rowVars, bootVars, cronVars, delVars, FnStatus,
       DeployFunction, DeleteFunction

LEMMA TypeOKSchedules ==
  ASSUME TypeOK, NEW s \in Schedules,
         Fire(s) \/ InvokeReturns(s) \/ CreateBegins(s) \/ CreateStep(s)
  PROVE  TypeOK'
<1> USE DEF TypeOK, fnVars, rowVars, bootVars, cronVars, delVars, CreateGoto, CreateLabel
<1>1. CASE Fire(s)
  BY <1>1 DEF Fire
<1>2. CASE InvokeReturns(s)
  BY <1>2 DEF InvokeReturns
<1>3. CASE CreateBegins(s)
  BY <1>3 DEF CreateBegins, Active
<1>4. CASE InsertSchedule(s)
  BY <1>4 DEF InsertSchedule
<1>5. CASE RegisterSchedule(s)
  BY <1>5 DEF RegisterSchedule, Register
<1> QED
  BY <1>1, <1>2, <1>3, <1>4, <1>5 DEF CreateStep

LEMMA TypeOKDeletes ==
  ASSUME TypeOK, NEW e \in Deletes,
         \/ DeleteAllSchedules(e) \/ DeleteBegins(e) \/ DeleteStep(e)
         \/ \E n \in Names : ListSchedulesByFunctionName(e, n)
  PROVE  TypeOK'
<1> USE DEF TypeOK, fnVars, rowVars, bootVars, cronVars, delVars,
            DeleteGoto, DeleteLabel, DeleteRows
<1>1. CASE DeleteAllSchedules(e)
  BY <1>1 DEF DeleteAllSchedules
<1>2. CASE DeleteBegins(e)
  BY <1>2 DEF DeleteBegins
<1>3. ASSUME NEW n \in Names, ListSchedulesByFunctionName(e, n) PROVE TypeOK'
  BY <1>3 DEF ListSchedulesByFunctionName, SchedulesOf
<1>4. ASSUME NEW n \in Names, DeleteSchedulesByFunctionName(e, n) PROVE TypeOK'
  BY <1>4 DEF DeleteSchedulesByFunctionName, SchedulesOf
<1>5. CASE DeleteSchedule(e)
  BY <1>5 DEF DeleteSchedule
<1>6. CASE RemoveSchedule(e)
  BY <1>6 DEF RemoveSchedule
<1> QED
  BY <1>1, <1>2, <1>3, <1>4, <1>5, <1>6 DEF DeleteStep

LEMMA TypeOKNext == TypeOK /\ [Next]_vars => TypeOK'
<1> SUFFICES ASSUME TypeOK, [Next]_vars PROVE TypeOK'
  OBVIOUS
<1>1. CASE UNCHANGED vars
  BY <1>1 DEF TypeOK, vars, fnVars, rowVars, bootVars, cronVars, delVars
<1>2. CASE Next
  BY <1>2, TypeOKBoot, TypeOKFunctions, TypeOKSchedules, TypeOKDeletes DEF Next
<1> QED
  BY <1>1, <1>2

\* Every variable keeps its type: no function gets a status, and no handler a
\* place, that the code does not know.
THEOREM TypeCorrect == Spec => []TypeOK
<1>1. Init => TypeOK
  BY TypeOKInit
<1>2. TypeOK /\ [Next]_vars => TypeOK'
  BY TypeOKNext
<1> QED
  BY <1>1, <1>2, PTL DEF Spec

-----------------------------------------------------------------------------
(* The inductive invariant of the rows and the entries *)

\* Handlers exist only while the server runs, and entries only once it starts.
QuietWhileDown ==
    /\ phase = "down" => entries = {}
    /\ phase # "serving" => /\ \A s \in Schedules : spc[s] \in {"new", "done"}
                            /\ \A e \in Deletes : epc[e] \in {"new", "done"}

\* What is still to be loaded is stored and has no entry.
LoadIsPending ==
    /\ toLoad # {} => phase = "loading"
    /\ toLoad \subseteq stored \ entries

\* A schedule that is stored has been created, for a row that has been there.
StoredWereCreated ==
    /\ \A s \in stored : spc[s] \in {"register", "done"}
    /\ \A s \in Schedules :
          spc[s] # "new" => fnOf[s] \in Functions /\ fnStatus[fnOf[s]] # "unborn"

\* So has one that a deletion has taken note of, and one deletion notes the
\* schedules of one name.
NotedWereCreated ==
    \A e \in Deletes :
        /\ \A s \in ids[e] : spc[s] \in {"register", "done"}
        /\ epc[e] = "name" =>
              \A s, t \in ids[e] : NameOf[fnOf[s]] = NameOf[fnOf[t]]

\* What a deletion is about to unregister is no longer stored, or has lost its
\* function between the two statements of the deletion.
RemovedAreGone ==
    \A e \in Deletes : epc[e] = "remove" => ids[e] \cap stored \cap HasFunction = {}

\* A schedule that is deleted before it is registered counts as raced.
RegisteringIsStored ==
    \A s \in Schedules : spc[s] = "register" => s \in stored \cup raced

\* While it loads, the process has dealt with all but what is left to load.
LoadIsComplete ==
    phase = "loading" =>
        stored \cap HasFunction \subseteq toLoad \cup entries \cup skipped

Consistent ==
    /\ TypeOK
    /\ QuietWhileDown
    /\ LoadIsPending
    /\ StoredWereCreated
    /\ NotedWereCreated
    /\ RemovedAreGone
    /\ RegisteringIsStored
    /\ LoadIsComplete
    /\ RowsAreRegistered
    /\ DeletedAreUnregistered

\* What Consistent says but for the types, which TypeOKNext shows.
Parts ==
    /\ QuietWhileDown
    /\ LoadIsPending
    /\ StoredWereCreated
    /\ NotedWereCreated
    /\ RemovedAreGone
    /\ RegisteringIsStored
    /\ LoadIsComplete
    /\ RowsAreRegistered
    /\ DeletedAreUnregistered

\* A row that appears is no schedule's: those that exist were created for rows
\* that had already been there.
LEMMA DeployFunctionKeeps ==
  ASSUME Consistent, NEW f \in Functions, DeployFunction(f)
  PROVE  Parts'
<1> USE DEF Consistent, TypeOK, Serving, fnVars, rowVars, bootVars, cronVars,
            delVars, DeployFunction, Named
<1>1. StoredWereCreated'
  BY DEF StoredWereCreated
<1>2. RemovedAreGone'
  BY DEF RemovedAreGone, HasFunction, Rows, NotedWereCreated, StoredWereCreated,
         QuietWhileDown
<1>3. LoadIsComplete'
  BY DEF LoadIsComplete
<1>4. RowsAreRegistered'
  BY DEF RowsAreRegistered, HasFunction, Rows, LoadIsComplete, QuietWhileDown,
         LoadIsPending, StoredWereCreated, RemovedAreGone
<1>5. /\ QuietWhileDown'
      /\ LoadIsPending'
      /\ NotedWereCreated'
      /\ RegisteringIsStored'
      /\ DeletedAreUnregistered'
  BY DEF QuietWhileDown, LoadIsPending, NotedWereCreated, RegisteringIsStored,
         DeletedAreUnregistered
<1> QED
  BY <1>1, <1>2, <1>3, <1>4, <1>5 DEF Parts

LEMMA DeleteFunctionKeeps ==
  ASSUME Consistent, NEW n \in Names, DeleteFunction(n)
  PROVE  Parts'
<1> USE DEF Consistent, TypeOK, Serving, fnVars, rowVars, bootVars, cronVars,
            delVars, DeleteFunction, Named
<1>1. StoredWereCreated'
  BY DEF StoredWereCreated
<1>2. RemovedAreGone'
  BY DEF RemovedAreGone, HasFunction, Rows
<1>3. LoadIsComplete'
  BY DEF LoadIsComplete
<1>4. RowsAreRegistered'
  BY DEF RowsAreRegistered, HasFunction, Rows
<1>5. /\ QuietWhileDown'
      /\ LoadIsPending'
      /\ NotedWereCreated'
      /\ RegisteringIsStored'
      /\ DeletedAreUnregistered'
  BY DEF QuietWhileDown, LoadIsPending, NotedWereCreated, RegisteringIsStored,
         DeletedAreUnregistered
<1> QED
  BY <1>1, <1>2, <1>3, <1>4, <1>5 DEF Parts

LEMMA LoadSchedulesKeeps ==
  ASSUME Consistent, LoadSchedules
  PROVE  Parts'
<1> USE DEF Consistent, TypeOK, Serving, fnVars, rowVars, bootVars, cronVars,
            delVars, LoadSchedules, Loadable
<1>1. QuietWhileDown'
  BY DEF QuietWhileDown
<1>2. LoadIsPending'
  BY DEF LoadIsPending, QuietWhileDown
<1>3. LoadIsComplete'
  BY DEF LoadIsComplete, HasFunction, Rows
<1>4. RowsAreRegistered'
  BY DEF RowsAreRegistered
<1>5. /\ StoredWereCreated'
      /\ NotedWereCreated'
      /\ RemovedAreGone'
      /\ RegisteringIsStored'
      /\ DeletedAreUnregistered'
  BY DEF StoredWereCreated, NotedWereCreated, RemovedAreGone, RegisteringIsStored,
         DeletedAreUnregistered, HasFunction, Rows
<1> QED
  BY <1>1, <1>2, <1>3, <1>4, <1>5 DEF Parts

LEMMA LoadScheduleKeeps ==
  ASSUME Consistent, NEW s \in Schedules, LoadSchedule(s)
  PROVE  Parts'
<1> USE DEF Consistent, TypeOK, Serving, fnVars, rowVars, bootVars, cronVars,
            delVars, LoadSchedule, Register
<1>1. QuietWhileDown'
  BY DEF QuietWhileDown, LoadIsPending
<1>2. LoadIsPending'
  BY DEF LoadIsPending
<1>3. StoredWereCreated'
  BY DEF StoredWereCreated
<1>4. RemovedAreGone'
  BY DEF RemovedAreGone, HasFunction, Rows
<1>5. RegisteringIsStored'
  BY DEF RegisteringIsStored, QuietWhileDown, LoadIsPending
<1>6. LoadIsComplete'
  BY DEF LoadIsComplete, HasFunction, Rows
<1>7. RowsAreRegistered'
  BY DEF RowsAreRegistered, LoadIsPending
<1>8. DeletedAreUnregistered'
  BY DEF DeletedAreUnregistered, LoadIsPending
<1>9. NotedWereCreated'
  BY DEF NotedWereCreated
<1> QED
  BY <1>1, <1>2, <1>3, <1>4, <1>5, <1>6, <1>7, <1>8, <1>9 DEF Parts

\* The load is over: what it has dealt with is registered.
LEMMA ServeKeeps ==
  ASSUME Consistent, Serve
  PROVE  Parts'
<1> USE DEF Consistent, TypeOK, Serving, fnVars, rowVars, bootVars, cronVars,
            delVars, Serve
<1>1. QuietWhileDown'
  BY DEF QuietWhileDown
<1>2. LoadIsPending'
  BY DEF LoadIsPending
<1>3. LoadIsComplete'
  BY DEF LoadIsComplete
<1>4. RowsAreRegistered'
  BY DEF RowsAreRegistered, HasFunction, Rows, LoadIsComplete, QuietWhileDown,
         LoadIsPending, StoredWereCreated, RemovedAreGone
<1>5. /\ StoredWereCreated'
      /\ NotedWereCreated'
      /\ RemovedAreGone'
      /\ RegisteringIsStored'
      /\ DeletedAreUnregistered'
  BY DEF StoredWereCreated, NotedWereCreated, RemovedAreGone, RegisteringIsStored,
         DeletedAreUnregistered, HasFunction, Rows
<1> QED
  BY <1>1, <1>2, <1>3, <1>4, <1>5 DEF Parts

LEMMA CrashKeeps ==
  ASSUME Consistent, Crash
  PROVE  Parts'
<1> USE DEF Consistent, TypeOK, Serving, fnVars, rowVars, bootVars, cronVars,
            delVars, Crash
<1>1. QuietWhileDown'
  BY DEF QuietWhileDown
<1>2. LoadIsPending'
  BY DEF LoadIsPending
<1>3. StoredWereCreated'
  BY DEF StoredWereCreated
<1>4. NotedWereCreated'
  BY DEF NotedWereCreated
<1>5. RemovedAreGone'
  BY DEF RemovedAreGone
<1>6. RegisteringIsStored'
  BY DEF RegisteringIsStored
<1>7. LoadIsComplete'
  BY DEF LoadIsComplete
<1>8. RowsAreRegistered'
  BY DEF RowsAreRegistered
<1>9. DeletedAreUnregistered'
  BY DEF DeletedAreUnregistered
<1> QED
  BY <1>1, <1>2, <1>3, <1>4, <1>5, <1>6, <1>7, <1>8, <1>9 DEF Parts

LEMMA CreateBeginsKeeps ==
  ASSUME Consistent, NEW s \in Schedules, CreateBegins(s)
  PROVE  Parts'
<1> USE DEF Consistent, TypeOK, Serving, fnVars, rowVars, bootVars, cronVars,
            delVars, CreateBegins, CreateGoto, Active
<1>1. QuietWhileDown'
  BY DEF QuietWhileDown
<1>2. StoredWereCreated'
  BY DEF StoredWereCreated
<1>3. NotedWereCreated'
  BY DEF NotedWereCreated
<1>4. RemovedAreGone'
  BY DEF RemovedAreGone, HasFunction, Rows, NotedWereCreated, StoredWereCreated,
         QuietWhileDown
<1>5. RegisteringIsStored'
  BY DEF RegisteringIsStored
<1>6. LoadIsComplete'
  BY DEF LoadIsComplete
<1>7. RowsAreRegistered'
  BY DEF RowsAreRegistered, HasFunction, Rows, LoadIsComplete, QuietWhileDown,
         LoadIsPending, StoredWereCreated, RemovedAreGone
<1>8. (LoadIsPending /\ DeletedAreUnregistered)'
  BY DEF LoadIsPending, DeletedAreUnregistered
<1> QED
  BY <1>1, <1>2, <1>3, <1>4, <1>5, <1>6, <1>7, <1>8 DEF Parts

LEMMA InsertScheduleKeeps ==
  ASSUME Consistent, NEW s \in Schedules, InsertSchedule(s)
  PROVE  Parts'
<1> USE DEF Consistent, TypeOK, Serving, fnVars, rowVars, bootVars, cronVars,
            delVars, InsertSchedule, CreateGoto
<1>1. QuietWhileDown'
  BY DEF QuietWhileDown
<1>2. LoadIsPending'
  BY DEF LoadIsPending
<1>3. StoredWereCreated'
  BY DEF StoredWereCreated
<1>4. NotedWereCreated'
  BY DEF NotedWereCreated
<1>5. RemovedAreGone'
  BY DEF RemovedAreGone, HasFunction, Rows, NotedWereCreated, StoredWereCreated,
         QuietWhileDown
<1>6. RegisteringIsStored'
  BY DEF RegisteringIsStored
<1>7. LoadIsComplete'
  BY DEF LoadIsComplete, QuietWhileDown
<1>8. RowsAreRegistered'
  BY DEF RowsAreRegistered, HasFunction, Rows
<1>9. DeletedAreUnregistered'
  BY DEF DeletedAreUnregistered
<1> QED
  BY <1>1, <1>2, <1>3, <1>4, <1>5, <1>6, <1>7, <1>8, <1>9 DEF Parts

LEMMA RegisterScheduleKeeps ==
  ASSUME Consistent, NEW s \in Schedules, RegisterSchedule(s)
  PROVE  Parts'
<1> USE DEF Consistent, TypeOK, Serving, fnVars, rowVars, bootVars, cronVars,
            delVars, RegisterSchedule, Register, CreateGoto
<1>1. QuietWhileDown'
  BY DEF QuietWhileDown
<1>2. LoadIsPending'
  BY DEF LoadIsPending, QuietWhileDown
<1>3. StoredWereCreated'
  BY DEF StoredWereCreated
<1>4. NotedWereCreated'
  BY DEF NotedWereCreated
<1>5. RegisteringIsStored'
  BY DEF RegisteringIsStored
<1>6. LoadIsComplete'
  BY DEF LoadIsComplete, QuietWhileDown
<1>7. RowsAreRegistered'
  BY DEF RowsAreRegistered, HasFunction, Rows
<1>8. DeletedAreUnregistered'
  BY DEF DeletedAreUnregistered, RegisteringIsStored
<1>9. (RemovedAreGone)'
  BY DEF RemovedAreGone, HasFunction, Rows
<1> QED
  BY <1>1, <1>2, <1>3, <1>4, <1>5, <1>6, <1>7, <1>8, <1>9 DEF Parts

LEMMA DeleteAllSchedulesKeeps ==
  ASSUME Consistent, NEW e \in Deletes, DeleteAllSchedules(e)
  PROVE  Parts'
<1> USE DEF Consistent, TypeOK, Serving, fnVars, rowVars, bootVars, cronVars,
            delVars, DeleteAllSchedules, DeleteGoto, DeleteRows
<1>1. QuietWhileDown'
  BY DEF QuietWhileDown
<1>2. LoadIsPending'
  BY DEF LoadIsPending
<1>3. StoredWereCreated'
  BY DEF StoredWereCreated
<1>4. NotedWereCreated'
  BY DEF NotedWereCreated
<1>5. RemovedAreGone'
  BY DEF RemovedAreGone
<1>6. RegisteringIsStored'
  BY DEF RegisteringIsStored
<1>7. LoadIsComplete'
  BY DEF LoadIsComplete
<1>8. RowsAreRegistered'
  BY DEF RowsAreRegistered
<1>9. DeletedAreUnregistered'
  BY DEF DeletedAreUnregistered
<1> QED
  BY <1>1, <1>2, <1>3, <1>4, <1>5, <1>6, <1>7, <1>8, <1>9 DEF Parts

LEMMA ListByNameKeeps ==
  ASSUME Consistent, NEW e \in Deletes, NEW n \in Names, ListSchedulesByFunctionName(e, n)
  PROVE  Parts'
<1> USE DEF Consistent, TypeOK, Serving, fnVars, rowVars, bootVars, cronVars,
            delVars, ListSchedulesByFunctionName, DeleteGoto, SchedulesOf
<1>1. QuietWhileDown'
  BY DEF QuietWhileDown
<1>2. NotedWereCreated'
  BY DEF NotedWereCreated, StoredWereCreated
<1>3. RemovedAreGone'
  BY DEF RemovedAreGone, HasFunction, Rows
<1>4. DeletedAreUnregistered'
  BY DEF DeletedAreUnregistered
<1>5. /\ LoadIsPending'
      /\ StoredWereCreated'
      /\ RegisteringIsStored'
      /\ LoadIsComplete'
      /\ RowsAreRegistered'
  BY DEF LoadIsPending, StoredWereCreated, RegisteringIsStored, LoadIsComplete,
         RowsAreRegistered, HasFunction, Rows
<1> QED
  BY <1>1, <1>2, <1>3, <1>4, <1>5 DEF Parts

\* What was noted has the name n, so that the statement deletes it, unless its
\* function has gone.
LEMMA DeleteByNameKeeps ==
  ASSUME Consistent, NEW e \in Deletes, NEW n \in Names, DeleteSchedulesByFunctionName(e, n)
  PROVE  Parts'
<1> USE DEF Consistent, TypeOK, Serving, fnVars, rowVars, bootVars, cronVars,
            delVars, DeleteSchedulesByFunctionName, DeleteGoto, DeleteRows,
            SchedulesOf
<1>1. QuietWhileDown'
  BY DEF QuietWhileDown
<1>2. LoadIsPending'
  BY DEF LoadIsPending, QuietWhileDown
<1>3. StoredWereCreated'
  BY DEF StoredWereCreated
<1>4. NotedWereCreated'
  BY DEF NotedWereCreated
<1>5. RemovedAreGone'
  BY DEF RemovedAreGone, HasFunction, Rows, NotedWereCreated, StoredWereCreated,
         QuietWhileDown
<1>6. RegisteringIsStored'
  BY DEF RegisteringIsStored
<1>7. LoadIsComplete'
  BY DEF LoadIsComplete, QuietWhileDown
<1>8. RowsAreRegistered'
  BY DEF RowsAreRegistered, HasFunction, Rows
<1>9. DeletedAreUnregistered'
  BY DEF DeletedAreUnregistered
<1> QED
  BY <1>1, <1>2, <1>3, <1>4, <1>5, <1>6, <1>7, <1>8, <1>9 DEF Parts

LEMMA DeleteBeginsKeeps ==
  ASSUME Consistent, NEW e \in Deletes, DeleteBegins(e)
  PROVE  Parts'
<1> USE DEF Consistent, TypeOK, Serving, fnVars, rowVars, bootVars, cronVars,
            delVars, DeleteBegins, DeleteGoto
<1>1. QuietWhileDown'
  BY DEF QuietWhileDown
<1>2. NotedWereCreated'
  BY DEF NotedWereCreated
<1>3. RemovedAreGone'
  BY DEF RemovedAreGone, HasFunction, Rows
<1>4. DeletedAreUnregistered'
  BY DEF DeletedAreUnregistered
<1>5. /\ LoadIsPending'
      /\ StoredWereCreated'
      /\ RegisteringIsStored'
      /\ LoadIsComplete'
      /\ RowsAreRegistered'
  BY DEF LoadIsPending, StoredWereCreated, RegisteringIsStored, LoadIsComplete,
         RowsAreRegistered, HasFunction, Rows
<1> QED
  BY <1>1, <1>2, <1>3, <1>4, <1>5 DEF Parts

LEMMA DeleteScheduleKeeps ==
  ASSUME Consistent, NEW e \in Deletes, DeleteSchedule(e)
  PROVE  Parts'
<1> USE DEF Consistent, TypeOK, Serving, fnVars, rowVars, bootVars, cronVars,
            delVars, DeleteSchedule, DeleteGoto, DeleteRows
<1>1. QuietWhileDown'
  BY DEF QuietWhileDown
<1>2. LoadIsPending'
  BY DEF LoadIsPending, QuietWhileDown
<1>3. StoredWereCreated'
  BY DEF StoredWereCreated
<1>4. NotedWereCreated'
  BY DEF NotedWereCreated
<1>5. RemovedAreGone'
  BY DEF RemovedAreGone, HasFunction, Rows
<1>6. RegisteringIsStored'
  BY DEF RegisteringIsStored
<1>7. LoadIsComplete'
  BY DEF LoadIsComplete, QuietWhileDown
<1>8. RowsAreRegistered'
  BY DEF RowsAreRegistered, HasFunction, Rows
<1>9. DeletedAreUnregistered'
  BY DEF DeletedAreUnregistered
<1> QED
  BY <1>1, <1>2, <1>3, <1>4, <1>5, <1>6, <1>7, <1>8, <1>9 DEF Parts

\* The entries that go are of schedules that are no longer stored.
LEMMA RemoveScheduleKeeps ==
  ASSUME Consistent, NEW e \in Deletes, RemoveSchedule(e)
  PROVE  Parts'
<1> USE DEF Consistent, TypeOK, Serving, fnVars, rowVars, bootVars, cronVars,
            delVars, RemoveSchedule, DeleteGoto
<1>1. QuietWhileDown'
  BY DEF QuietWhileDown
<1>2. LoadIsPending'
  BY DEF LoadIsPending
<1>3. NotedWereCreated'
  BY DEF NotedWereCreated
<1>4. RemovedAreGone'
  BY DEF RemovedAreGone, HasFunction, Rows
<1>5. LoadIsComplete'
  BY DEF LoadIsComplete, QuietWhileDown
<1>6. RowsAreRegistered'
  BY DEF RowsAreRegistered, HasFunction, Rows, LoadIsComplete, QuietWhileDown,
         LoadIsPending, StoredWereCreated, RemovedAreGone
<1>7. DeletedAreUnregistered'
  BY DEF DeletedAreUnregistered
<1>8. (StoredWereCreated /\ RegisteringIsStored)'
  BY DEF StoredWereCreated, RegisteringIsStored
<1> QED
  BY <1>1, <1>2, <1>3, <1>4, <1>5, <1>6, <1>7, <1>8 DEF Parts

LEMMA ConsistentInit == Init => Consistent
<1> SUFFICES ASSUME Init PROVE Consistent
  OBVIOUS
<1>1. TypeOK
  BY TypeOKInit
<1> QED
  BY <1>1
  DEF Init, Consistent, QuietWhileDown, LoadIsPending, StoredWereCreated, NotedWereCreated,
      RemovedAreGone, RegisteringIsStored, LoadIsComplete, RowsAreRegistered,
      DeletedAreUnregistered, Serving

LEMMA ConsistentNext == Consistent /\ [Next]_vars => Consistent'
<1> SUFFICES ASSUME Consistent, [Next]_vars PROVE Consistent'
  OBVIOUS
<1>1. TypeOK'
  BY TypeOKNext DEF Consistent
<1>2. ASSUME NEW f \in Functions, DeployFunction(f) PROVE Parts'
  BY <1>2, DeployFunctionKeeps
<1>3. ASSUME NEW n \in Names, DeleteFunction(n) PROVE Parts'
  BY <1>3, DeleteFunctionKeeps
<1>4. ASSUME BootStep PROVE Parts'
  BY <1>4, LoadSchedulesKeeps, LoadScheduleKeeps, ServeKeeps DEF BootStep
<1>5. ASSUME Crash PROVE Parts'
  BY <1>5, CrashKeeps
<1>6. ASSUME NEW s \in Schedules, Fire(s) \/ InvokeReturns(s) PROVE Parts'
  <2>1. UNCHANGED <<fnVars, rowVars, bootVars, entries, spc, delVars, raced>>
    BY <1>6 DEF Fire, InvokeReturns
  <2> QED
    BY <2>1
    DEF Consistent, Parts, QuietWhileDown, LoadIsPending, StoredWereCreated,
        NotedWereCreated, RemovedAreGone, RegisteringIsStored, LoadIsComplete,
        RowsAreRegistered, DeletedAreUnregistered, HasFunction, Rows, Serving,
        fnVars, rowVars, bootVars, delVars
<1>7. ASSUME NEW s \in Schedules, CreateBegins(s) \/ CreateStep(s) PROVE Parts'
  BY <1>7, CreateBeginsKeeps, InsertScheduleKeeps, RegisterScheduleKeeps DEF CreateStep
<1>8. ASSUME NEW e \in Deletes, DeleteAllSchedules(e) \/ DeleteBegins(e) PROVE Parts'
  BY <1>8, DeleteAllSchedulesKeeps, DeleteBeginsKeeps
<1>9. ASSUME NEW e \in Deletes, DeleteStep(e) PROVE Parts'
  BY <1>9, DeleteByNameKeeps, DeleteScheduleKeeps, RemoveScheduleKeeps DEF DeleteStep
<1>10. ASSUME NEW e \in Deletes, NEW n \in Names, ListSchedulesByFunctionName(e, n) PROVE Parts'
  BY <1>10, ListByNameKeeps
<1>11. ASSUME UNCHANGED vars PROVE Parts'
  BY <1>11
  DEF Consistent, Parts, QuietWhileDown, LoadIsPending, StoredWereCreated,
      NotedWereCreated, RemovedAreGone, RegisteringIsStored, LoadIsComplete,
      RowsAreRegistered, DeletedAreUnregistered, HasFunction, Rows, Serving,
      vars, cronVars, fnVars, rowVars, bootVars, delVars
<1>12. Parts'
  BY <1>2, <1>3, <1>4, <1>5, <1>6, <1>7, <1>8, <1>9, <1>10, <1>11 DEF Next
<1> QED
  BY <1>1, <1>12 DEF Consistent, Parts

LEMMA AlwaysConsistent == Spec => []Consistent
<1>1. Init => Consistent
  BY ConsistentInit
<1>2. Consistent /\ [Next]_vars => Consistent'
  BY ConsistentNext
<1> QED
  BY <1>1, <1>2, PTL DEF Spec

\* While requests are served, a stored schedule of a function that is there has
\* its entry, or is about to get it: LoadSchedules, and the order in which the
\* handlers change the table and the cron.
THEOREM StoredAreRegistered == Spec => []RowsAreRegistered
<1>1. Consistent => RowsAreRegistered
  BY DEF Consistent
<1> QED
  BY <1>1, AlwaysConsistent, PTL

\* A schedule that was deleted keeps its entry only until the handler that
\* deleted it removes that, but for the races that the model names.
THEOREM DeletedLeaveTheCron == Spec => []DeletedAreUnregistered
<1>1. Consistent => DeletedAreUnregistered
  BY DEF Consistent
<1> QED
  BY <1>1, AlwaysConsistent, PTL

\* No entry is added but for a schedule that is stored or that is being
\* created: what DeleteScheduleHandler deletes first from the table does not
\* come back with a restart.
THEOREM NoZombieIsLoaded == Spec => NothingDeletedReturns
<1> DEFINE Adds == \A s \in entries' \ entries : s \in stored \/ spc[s] = "register"
<1>1. Consistent /\ [Next]_vars => [Adds]_vars
  <2> SUFFICES ASSUME Consistent, Next PROVE Adds
    OBVIOUS
  <2>1. ASSUME NEW s \in Schedules, LoadSchedule(s) PROVE Adds
    BY <2>1 DEF LoadSchedule, Register, Consistent, LoadIsPending
  <2>2. ASSUME NEW s \in Schedules, RegisterSchedule(s) PROVE Adds
    BY <2>2 DEF RegisterSchedule, Register
  <2>3. ASSUME entries' \subseteq entries PROVE Adds
    BY <2>3
  <2>4. ASSUME LoadSchedules \/ Serve \/ Crash PROVE entries' \subseteq entries
    BY <2>4 DEF LoadSchedules, Serve, Crash, cronVars
  <2>5. ASSUME \/ \E f \in Functions : DeployFunction(f)
               \/ \E n \in Names : DeleteFunction(n)
        PROVE  entries' \subseteq entries
    BY <2>5 DEF DeployFunction, DeleteFunction, cronVars
  <2>6. ASSUME NEW s \in Schedules,
               Fire(s) \/ InvokeReturns(s) \/ CreateBegins(s) \/ InsertSchedule(s)
        PROVE  entries' \subseteq entries
    BY <2>6 DEF Fire, InvokeReturns, CreateBegins, InsertSchedule, cronVars
  <2>7. ASSUME NEW e \in Deletes,
               \/ DeleteAllSchedules(e) \/ DeleteBegins(e) \/ DeleteStep(e)
               \/ \E n \in Names : ListSchedulesByFunctionName(e, n)
        PROVE  entries' \subseteq entries
    BY <2>7 DEF DeleteAllSchedules, DeleteBegins, DeleteStep, ListSchedulesByFunctionName,
                DeleteSchedulesByFunctionName, DeleteSchedule, RemoveSchedule, cronVars
  <2> HIDE DEF Adds
  <2> QED
    BY <2>1, <2>2, <2>3, <2>4, <2>5, <2>6, <2>7 DEF Next, BootStep, CreateStep
<1>2. Spec => [][Adds]_vars
  BY <1>1, AlwaysConsistent, PTL DEF Spec
<1> QED
  BY <1>2 DEF NothingDeletedReturns

-----------------------------------------------------------------------------
(* The semaphores *)

\* In the life of a process, a schedule has one semaphore at most, which an
\* entry has and its executions hold, also when the entry has gone.
OneSemaphore ==
    \A s \in Schedules :
        /\ made[s] \in {0, 1} /\ jobs[s] \subseteq {1}
        /\ s \in entries => made[s] = 1

\* A schedule whose registration may still come has none.
FirstRegistration ==
    \A s \in Schedules :
        \/ spc[s] \in {"new", "insert", "register"}
        \/ s \in toLoad
        \/ phase = "down"
        => made[s] = 0

Semaphores == OneSemaphore /\ FirstRegistration

\* The load registers what was created by the process before, and only once.
LEMMA SemaphoresBoot ==
  ASSUME Consistent, Semaphores, BootStep \/ Crash
  PROVE  Semaphores'
<1> USE DEF Consistent, TypeOK, Semaphores, OneSemaphore, FirstRegistration,
            QuietWhileDown, LoadIsPending, fnVars, rowVars, cronVars, delVars
<1>1. CASE LoadSchedules
  BY <1>1 DEF LoadSchedules, Loadable
<1>2. ASSUME NEW s \in Schedules, LoadSchedule(s) PROVE Semaphores'
  <2>1. spc[s] = "done" /\ phase = "loading" /\ s \in toLoad
    BY <1>2 DEF LoadSchedule, StoredWereCreated
  <2> QED
    BY <1>2, <2>1 DEF LoadSchedule, Register
<1>3. CASE Serve
  BY <1>3 DEF Serve
<1>4. CASE Crash
  BY <1>4 DEF Crash
<1> QED
  BY <1>1, <1>2, <1>3, <1>4 DEF BootStep

\* A creation registers its schedule once, and the load is over by then.
LEMMA SemaphoresSchedules ==
  ASSUME Consistent, Semaphores, NEW s \in Schedules,
         Fire(s) \/ InvokeReturns(s) \/ CreateBegins(s) \/ CreateStep(s)
  PROVE  Semaphores'
<1> USE DEF Consistent, TypeOK, Semaphores, OneSemaphore, FirstRegistration,
            fnVars, rowVars, bootVars, cronVars, delVars, CreateGoto
<1>1. CASE Fire(s)
  BY <1>1 DEF Fire
<1>2. CASE InvokeReturns(s)
  BY <1>2 DEF InvokeReturns
<1>3. CASE CreateBegins(s)
  BY <1>3 DEF CreateBegins
<1>4. CASE InsertSchedule(s)
  BY <1>4 DEF InsertSchedule
<1>5. CASE RegisterSchedule(s)
  <2>1. phase = "serving" /\ toLoad = {}
    BY <1>5 DEF RegisterSchedule, QuietWhileDown, LoadIsPending
  <2> QED
    BY <1>5, <2>1 DEF RegisterSchedule, Register
<1> QED
  BY <1>1, <1>2, <1>3, <1>4, <1>5 DEF CreateStep

\* Functions and deletions make no semaphore and take none.
LEMMA SemaphoresElse ==
  ASSUME Consistent, Semaphores,
         \/ \E f \in Functions : DeployFunction(f)
         \/ \E n \in Names : DeleteFunction(n)
         \/ \E e \in Deletes : DeleteAllSchedules(e) \/ DeleteBegins(e) \/ DeleteStep(e)
         \/ \E e \in Deletes, n \in Names : ListSchedulesByFunctionName(e, n)
         \/ UNCHANGED vars
  PROVE  Semaphores'
<1>1. UNCHANGED <<made, jobs, spc, bootVars>> /\ entries' \subseteq entries
  BY DEF DeployFunction, DeleteFunction, DeleteAllSchedules, DeleteBegins, DeleteStep,
         ListSchedulesByFunctionName, DeleteSchedulesByFunctionName, DeleteSchedule,
         RemoveSchedule, cronVars, vars
<1> QED
  BY <1>1 DEF Semaphores, OneSemaphore, FirstRegistration, bootVars

\* Two executions of a schedule are never under way at once, though its
\* registrations make semaphores and its removal forgets them.
THEOREM OneExecution == Spec => []NoOverlap
<1>1. Init => Semaphores
  BY DEF Init, Semaphores, OneSemaphore, FirstRegistration
<1>2. Consistent /\ Semaphores /\ [Next]_vars => Semaphores'
  BY SemaphoresBoot, SemaphoresSchedules, SemaphoresElse DEF Next
<1>3. Semaphores => NoOverlap
  BY DEF Semaphores, OneSemaphore, NoOverlap
<1> QED
  BY <1>1, <1>2, <1>3, AlwaysConsistent, PTL DEF Spec

-----------------------------------------------------------------------------
(* The timetable *)

\* What is to be loaded has a function: none comes or goes before the load is over.
LoadIsUseful == toLoad \subseteq HasFunction

Scheduled == Consistent /\ Semaphores /\ LoadIsUseful

LEMMA LoadIsUsefulNext ==
  ASSUME Consistent, LoadIsUseful, [Next]_vars
  PROVE  LoadIsUseful'
<1> USE DEF LoadIsUseful, HasFunction, Rows, Consistent, TypeOK
<1>1. CASE toLoad' = {}
  BY <1>1
<1>2. CASE toLoad' \subseteq toLoad /\ UNCHANGED <<fnStatus, fnOf>>
  BY <1>2
<1>3. CASE LoadSchedules
  BY <1>3 DEF LoadSchedules, Loadable, fnVars, rowVars
<1>4. ASSUME BootStep \/ Crash PROVE LoadIsUseful'
  BY <1>1, <1>2, <1>3, <1>4 DEF BootStep, Crash, LoadSchedule, Serve, fnVars, rowVars
<1>5. ASSUME NEW f \in Functions, DeployFunction(f) PROVE LoadIsUseful'
  BY <1>1, <1>5 DEF DeployFunction, Serving, LoadIsPending, bootVars
<1>6. ASSUME NEW n \in Names, DeleteFunction(n) PROVE LoadIsUseful'
  BY <1>1, <1>6 DEF DeleteFunction, Serving, LoadIsPending, bootVars
<1>7. ASSUME NEW s \in Schedules,
             Fire(s) \/ InvokeReturns(s) \/ CreateBegins(s) \/ CreateStep(s)
      PROVE  LoadIsUseful'
  BY <1>1, <1>2, <1>7
     DEF Fire, InvokeReturns, CreateBegins, CreateStep, InsertSchedule, RegisterSchedule,
         Serving, LoadIsPending, fnVars, rowVars, bootVars
<1>8. ASSUME NEW e \in Deletes,
             \/ DeleteAllSchedules(e) \/ DeleteBegins(e) \/ DeleteStep(e)
             \/ \E n \in Names : ListSchedulesByFunctionName(e, n)
      PROVE  LoadIsUseful'
  BY <1>2, <1>8
     DEF DeleteAllSchedules, DeleteBegins, DeleteStep, ListSchedulesByFunctionName,
         DeleteSchedulesByFunctionName, DeleteSchedule, RemoveSchedule,
         fnVars, rowVars, bootVars
<1>9. CASE UNCHANGED vars
  BY <1>2, <1>9 DEF vars, fnVars, rowVars, bootVars
<1> QED
  BY <1>4, <1>5, <1>6, <1>7, <1>8, <1>9 DEF Next

LEMMA AlwaysScheduled == Spec => []Scheduled
<1>1. Init => Scheduled
  BY ConsistentInit
     DEF Init, Scheduled, Semaphores, OneSemaphore, FirstRegistration, LoadIsUseful
<1>2. Scheduled /\ [Next]_vars => Scheduled'
  BY ConsistentNext, SemaphoresBoot, SemaphoresSchedules, SemaphoresElse,
     LoadIsUsefulNext DEF Scheduled, Next
<1> QED
  BY <1>1, <1>2, PTL DEF Spec

\* Schedules end, or nothing happens that the timetable shows.
LEMMA TableEnds ==
  ASSUME \A s \in Schedules : jobs'[s] = {} <=> jobs[s] = {},
         \A s \in Schedules : Alarm(s)' = Alarm(s),
         \A s \in Schedules :
            Life(s)' = Life(s) \/ (Life(s) = "live" /\ Life(s)' = "ended")
  PROVE  [Table!Next]_(Table!timetableVars)
<1> DEFINE life == [s \in Schedules |-> Life(s)]
           S == {s \in Schedules : Life(s)' # Life(s)}
<1>1. S \in SUBSET {s \in Schedules : life[s] = "live"}
  OBVIOUS
<1>2. life' = [s \in Schedules |-> IF s \in S THEN "ended" ELSE life[s]]
  OBVIOUS
<1>3. [s \in Schedules |-> Alarm(s)]' = [s \in Schedules |-> Alarm(s)]
  OBVIOUS
<1>4. {s \in Schedules : jobs[s] # {}}' = {s \in Schedules : jobs[s] # {}}
  OBVIOUS
<1> QED
  BY <1>1, <1>2, <1>3, <1>4 DEF Table!Next, Table!End, Table!Live

\* One schedule is created, armed or disarmed, or could not be.
LEMMA TableMoves ==
  ASSUME NEW s \in Schedules,
         \A t \in Schedules : jobs'[t] = {} <=> jobs[t] = {},
         \A t \in Schedules : t # s => Life(t)' = Life(t) /\ Alarm(t)' = Alarm(t),
         \/ /\ Life(s) = "new" /\ Life(s)' = "live"
            /\ Alarm(s)' = Alarm(s)
         \/ /\ Life(s) = "new" /\ Life(s)' = "ended"
            /\ Alarm(s)' \in {"spent", Alarm(s)}
         \/ /\ Life(s) # "new" /\ Life(s)' = Life(s)
            /\ Alarm(s) = "pending" /\ Alarm(s)' = "armed"
         \/ /\ Life(s) = "live" /\ Life(s)' \in {"live", "ended"}
            /\ Alarm(s) = "pending" /\ Alarm(s)' = "spent"
         \/ /\ Life(s) = "ended" /\ Life(s)' = Life(s)
            /\ Alarm(s) = "armed" /\ Alarm(s)' = "spent"
  PROVE  Table!Next
<1> DEFINE life == [t \in Schedules |-> Life(t)]
           alarm == [t \in Schedules |-> Alarm(t)]
<1>1. life' = [life EXCEPT ![s] = Life(s)']
  OBVIOUS
<1>2. alarm' = [alarm EXCEPT ![s] = Alarm(s)']
  OBVIOUS
<1>3. {t \in Schedules : jobs[t] # {}}' = {t \in Schedules : jobs[t] # {}}
  OBVIOUS
<1>4. life[s] = Life(s) /\ alarm[s] = Alarm(s)
  OBVIOUS
<1>5. (Life(s)' = Life(s) => life' = life) /\ (Alarm(s)' = Alarm(s) => alarm' = alarm)
  BY <1>1, <1>2
<1> HIDE DEF life, alarm
<1>6. Table!Create(s) \/ Table!Arm(s) \/ Table!Fail(s) \/ Table!Disarm(s)
  BY <1>1, <1>2, <1>3, <1>4, <1>5
     DEF Table!Create, Table!Arm, Table!Fail, Table!Disarm, life, alarm
<1> QED
  BY <1>6 DEF Table!Next

\* The load arms what it finds; reading the table is not seen in the timetable,
\* where a schedule that lives was pending since the restart.
LEMMA TableBoot ==
  ASSUME Scheduled, BootStep
  PROVE  [Table!Next]_(Table!timetableVars)
<1> USE DEF Scheduled, Consistent, TypeOK, QuietWhileDown, LoadIsPending, Life, Alarm,
            MayRegister, Useful, HasFunction, Rows, fnVars, rowVars, cronVars, delVars
<1>1. CASE LoadSchedules
  <2>1. \A t \in Schedules : Life(t)' = Life(t) /\ Alarm(t)' = Alarm(t)
    BY <1>1 DEF LoadSchedules, Loadable
  <2> QED
    BY <1>1, <2>1, TableEnds DEF LoadSchedules
<1>2. ASSUME NEW s \in Schedules, LoadSchedule(s) PROVE Table!Next
  <2>1. /\ phase = "loading" /\ spc[s] = "done"
        /\ s \in Useful \ entries
    BY <1>2 DEF LoadSchedule, StoredWereCreated, LoadIsUseful
  <2>2. Life(s) = "live" /\ Alarm(s) = "pending"
    BY <1>2, <2>1 DEF LoadSchedule
  <2>3. \A t \in Schedules : t # s => Life(t)' = Life(t) /\ Alarm(t)' = Alarm(t)
    BY <1>2, <2>1 DEF LoadSchedule, Register
  <2>4. \/ Life(s)' = Life(s) /\ Alarm(s)' = "armed"
        \/ Life(s)' \in {"live", "ended"} /\ Alarm(s)' = "spent"
    BY <1>2, <2>1 DEF LoadSchedule, Register
  <2>5. UNCHANGED jobs
    BY <1>2 DEF LoadSchedule
  <2> QED
    BY <2>2, <2>3, <2>4, <2>5, TableMoves
<1>3. CASE Serve
  <2>1. \A t \in Schedules : Life(t)' = Life(t) /\ Alarm(t)' = Alarm(t)
    BY <1>3 DEF Serve
  <2> QED
    BY <1>3, <2>1, TableEnds DEF Serve
<1> QED
  BY <1>1, <1>2, <1>3 DEF BootStep

\* What has ended by then is not loaded any more.
LEMMA TableCrash ==
  ASSUME Scheduled, Crash
  PROVE  Table!Next
<1> DEFINE life == [s \in Schedules |-> Life(s)]
           alarm == [s \in Schedules |-> Alarm(s)]
           S == {s \in Schedules : Life(s)' # Life(s)}
<1>1. \A s \in Schedules :
         Life(s)' = Life(s) \/ (Life(s) = "new" /\ Life(s)' = "ended")
  BY DEF Scheduled, Consistent, TypeOK, StoredWereCreated, CreateLabel, Life, Useful,
         HasFunction, Rows, fnVars, rowVars, Crash
<1>2. \A s \in Schedules : Alarm(s)' = IF Life(s)' = "ended" THEN "spent" ELSE "pending"
  BY DEF Scheduled, Consistent, TypeOK, CreateLabel, Alarm, MayRegister, Life, Useful,
         HasFunction, Rows, fnVars, rowVars, Crash
<1>3. S \in SUBSET {s \in Schedules : life[s] = "new"}
  BY <1>1
<1>4. life' = [s \in Schedules |-> IF s \in S THEN "ended" ELSE life[s]]
  BY <1>1
<1>5. alarm' = [s \in Schedules |-> IF life'[s] = "ended" THEN "spent" ELSE "pending"]
  BY <1>2
<1>6. {s \in Schedules : jobs[s] # {}}' = {}
  BY DEF Crash
<1>7. Table!Restart
  BY <1>3, <1>4, <1>5, <1>6 DEF Table!Restart
<1> QED
  BY <1>7 DEF Table!Next

\* Functions are there or not: a new row is no schedule's, and one that goes
\* ends its schedules.
LEMMA TableFunctions ==
  ASSUME Scheduled,
         \/ \E f \in Functions : DeployFunction(f)
         \/ \E n \in Names : DeleteFunction(n)
  PROVE  [Table!Next]_(Table!timetableVars)
<1> USE DEF Scheduled, Consistent, TypeOK, Serving, Life, Alarm, MayRegister, Useful,
            HasFunction, Rows, Named, rowVars, bootVars, cronVars, StoredWereCreated
<1>1. /\ phase = "serving"
      /\ UNCHANGED <<stored, fnOf, phase, toLoad, entries, jobs, spc>>
  BY DEF DeployFunction, DeleteFunction
<1>2. \A t \in Schedules : Alarm(t)' = Alarm(t)
  BY <1>1
<1>3. \A t \in Schedules :
         Life(t)' = Life(t) \/ (Life(t) = "live" /\ Life(t)' = "ended")
  <2>1. CASE \E f \in Functions : DeployFunction(f)
    BY <1>1, <2>1 DEF DeployFunction
  <2>2. CASE \E n \in Names : DeleteFunction(n)
    BY <1>1, <2>2 DEF DeleteFunction
  <2> QED
    BY <2>1, <2>2
<1> QED
  BY <1>1, <1>2, <1>3, TableEnds

\* A schedule has one semaphore, which its execution holds.
LEMMA TableRuns ==
  ASSUME Scheduled, NEW s \in Schedules, Fire(s) \/ InvokeReturns(s)
  PROVE  Table!Next
<1> DEFINE running == {t \in Schedules : jobs[t] # {}}
<1> USE DEF Scheduled, Consistent, TypeOK, Semaphores, OneSemaphore
<1>1. /\ [t \in Schedules |-> Life(t)]' = [t \in Schedules |-> Life(t)]
      /\ [t \in Schedules |-> Alarm(t)]' = [t \in Schedules |-> Alarm(t)]
  BY DEF Fire, InvokeReturns, Life, Alarm, MayRegister, Useful, HasFunction, Rows,
         fnVars, rowVars, bootVars
<1>2. CASE Fire(s)
  <2>1. /\ s \in entries /\ jobs[s] = {}
        /\ jobs' = [jobs EXCEPT ![s] = {made[s]}]
    BY <1>2 DEF Fire
  <2>2. s \notin running /\ running' = running \cup {s}
    BY <2>1
  <2>3. [t \in Schedules |-> Alarm(t)][s] = "armed"
    BY <2>1 DEF Alarm
  <2>4. Table!Run(s)
    BY <1>1, <2>2, <2>3 DEF Table!Run
  <2> QED
    BY <2>4 DEF Table!Next
<1>3. CASE InvokeReturns(s)
  <2>1. s \in running /\ jobs' = [jobs EXCEPT ![s] = {}]
    BY <1>3 DEF InvokeReturns
  <2>2. running' = running \ {s}
    BY <2>1
  <2>3. Table!Finish(s)
    BY <1>1, <2>1, <2>2 DEF Table!Finish
  <2> QED
    BY <2>3 DEF Table!Next
<1> QED
  BY <1>2, <1>3

\* A creation arms what it has stored, also when that was deleted meanwhile.
LEMMA TableCreates ==
  ASSUME Scheduled, NEW s \in Schedules, CreateBegins(s) \/ CreateStep(s)
  PROVE  [Table!Next]_(Table!timetableVars)
<1> USE DEF Scheduled, Consistent, TypeOK, QuietWhileDown, LoadIsPending,
            StoredWereCreated, Semaphores, OneSemaphore, FirstRegistration, Life, Alarm,
            MayRegister, Useful, HasFunction, Rows, fnVars, rowVars, bootVars, cronVars,
            CreateGoto
<1>1. CASE CreateBegins(s)
  <2>1. \A t \in Schedules : Life(t)' = Life(t) /\ Alarm(t)' = Alarm(t)
    BY <1>1 DEF CreateBegins
  <2> QED
    BY <1>1, <2>1, TableEnds DEF CreateBegins
<1>2. CASE InsertSchedule(s)
  <2>1. phase = "serving" /\ toLoad = {} /\ s \notin entries
    BY <1>2 DEF InsertSchedule
  <2>2. \A t \in Schedules : t # s => Life(t)' = Life(t) /\ Alarm(t)' = Alarm(t)
    BY <1>2, <2>1 DEF InsertSchedule
  <2>3. /\ Life(s) = "new" /\ Alarm(s) = "pending"
        /\ \/ Life(s)' \in {"live", "ended"} /\ Alarm(s)' = "pending"
           \/ Life(s)' = "ended" /\ Alarm(s)' = "spent"
    BY <1>2, <2>1 DEF InsertSchedule
  <2>4. UNCHANGED jobs
    BY <1>2 DEF InsertSchedule
  <2> QED
    BY <2>2, <2>3, <2>4, TableMoves
<1>3. CASE RegisterSchedule(s)
  <2>1. phase = "serving" /\ toLoad = {} /\ s \notin entries
    BY <1>3 DEF RegisterSchedule
  <2>2. \A t \in Schedules : t # s => Life(t)' = Life(t) /\ Alarm(t)' = Alarm(t)
    BY <1>3, <2>1 DEF RegisterSchedule, Register
  <2>3. /\ Life(s) # "new" /\ Alarm(s) = "pending"
        /\ Life(s)' = Life(s) /\ Alarm(s)' = "armed"
    BY <1>3, <2>1 DEF RegisterSchedule, Register
  <2>4. UNCHANGED jobs
    BY <1>3 DEF RegisterSchedule
  <2> QED
    BY <2>2, <2>3, <2>4, TableMoves
<1> QED
  BY <1>1, <1>2, <1>3 DEF CreateStep

\* The statements of a deletion end schedules, and what it disarms has ended.
LEMMA TableDeletes ==
  ASSUME Scheduled, NEW e \in Deletes,
         \/ DeleteAllSchedules(e) \/ DeleteBegins(e) \/ DeleteStep(e)
         \/ \E n \in Names : ListSchedulesByFunctionName(e, n)
  PROVE  [Table!Next]_(Table!timetableVars)
<1> USE DEF Scheduled, Consistent, TypeOK, QuietWhileDown, LoadIsPending, Life, Alarm,
            MayRegister, Useful, HasFunction, Rows, fnVars, rowVars, bootVars, cronVars,
            DeleteGoto
<1>1. CASE RemoveSchedule(e) /\ entries' # entries
  <2>1. PICK s \in ids[e] \cap entries : entries' = entries \ {s}
    BY <1>1 DEF RemoveSchedule
  <2>2. phase = "serving" /\ toLoad = {} /\ spc[s] = "done" /\ s \in Schedules
    BY <1>1, <2>1 DEF RemoveSchedule, NotedWereCreated, Semaphores, OneSemaphore,
                      FirstRegistration
  <2>3. Life(s) = "ended" /\ Alarm(s) = "armed"
    BY <1>1, <2>1, <2>2 DEF RemoveSchedule, RemovedAreGone
  <2>4. UNCHANGED <<fnStatus, stored, fnOf, phase, toLoad, jobs, spc>>
    BY <1>1 DEF RemoveSchedule
  <2>5. \A t \in Schedules : t # s => Life(t)' = Life(t) /\ Alarm(t)' = Alarm(t)
    BY <2>1, <2>4
  <2>6. Life(s)' = Life(s) /\ Alarm(s)' = "spent"
    BY <2>1, <2>2, <2>4
  <2> QED
    BY <2>2, <2>3, <2>4, <2>5, <2>6, TableMoves
<1>2. CASE ~(RemoveSchedule(e) /\ entries' # entries)
  <2>1. /\ UNCHANGED <<fnStatus, fnOf, phase, toLoad, jobs, spc, entries>>
        /\ stored' \subseteq stored
        /\ stored' # stored => phase = "serving"
    BY <1>2 DEF DeleteAllSchedules, DeleteBegins, DeleteStep, ListSchedulesByFunctionName,
                DeleteSchedulesByFunctionName, DeleteSchedule, RemoveSchedule, DeleteRows,
                Serving
  <2>2. \A t \in Schedules : Alarm(t)' = Alarm(t)
    BY <2>1
  <2>3. \A t \in Schedules :
           Life(t)' = Life(t) \/ (Life(t) = "live" /\ Life(t)' = "ended")
    BY <2>1
  <2> QED
    BY <2>1, <2>2, <2>3, TableEnds
<1> QED
  BY <1>1, <1>2

LEMMA TableNext ==
  ASSUME Scheduled, [Next]_vars
  PROVE  [Table!Next]_(Table!timetableVars)
<1>1. CASE UNCHANGED vars
  <2>1. \A t \in Schedules : Life(t)' = Life(t) /\ Alarm(t)' = Alarm(t)
    BY <1>1 DEF vars, fnVars, rowVars, bootVars, cronVars, Life, Alarm, MayRegister,
                Useful, HasFunction, Rows
  <2> QED
    BY <1>1, <2>1, TableEnds DEF vars, cronVars
<1>2. CASE Next
  BY <1>2, TableBoot, TableCrash, TableFunctions, TableRuns, TableCreates,
     TableDeletes DEF Next
<1> QED
  BY <1>1, <1>2

\* Schedules behave as one timetable, whatever handlers, loads, executions and
\* crashes run into each other: what has ended is never armed again after a
\* restart, and what lives is never disarmed.
THEOREM SchedulesAreATimetable == Spec => ImplementsTimetable
<1>1. Init => Table!Init
  BY DEF Init, Table!Init, Life, Alarm, MayRegister
<1>2. Scheduled /\ [Next]_vars => [Table!Next]_(Table!timetableVars)
  BY TableNext
<1>3. Spec => Table!Spec
  BY <1>1, <1>2, AlwaysScheduled, PTL DEF Spec, Table!Spec
<1> QED
  BY <1>3 DEF ImplementsTimetable

\* A schedule that has lost its row or its function, and its entry, and that
\* nobody is about to register, is never registered and begins no execution
\* again, whatever restarts follow: DeleteScheduleHandler deletes the row first,
\* and LoadSchedules reads what is left.
THEOREM EndedNeverFires ==
  Spec => [][\A s \in Schedules :
                Life(s) = "ended" /\ Alarm(s) = "spent" =>
                  /\ Life(s)' = "ended" /\ Alarm(s)' = "spent"
                  /\ jobs[s] = {} => jobs'[s] = {}]_vars
<1> DEFINE StaysAway(s) ==
              Life(s) = "ended" /\ Alarm(s) = "spent" =>
                /\ Life(s)' = "ended" /\ Alarm(s)' = "spent"
                /\ jobs[s] = {} => jobs'[s] = {}
           life == [s \in Schedules |-> Life(s)]
           alarm == [s \in Schedules |-> Alarm(s)]
           running == {s \in Schedules : jobs[s] # {}}
<1>1. ASSUME Scheduled, [Next]_vars, NEW s \in Schedules PROVE StaysAway(s)
  <2>1. life[s] = "ended" /\ alarm[s] = "spent" =>
           /\ life'[s] = "ended" /\ alarm'[s] = "spent"
           /\ s \notin running => s \notin running'
    <3> HIDE DEF life, alarm, running
    <3>1. [Table!Next]_<<life, alarm, running>>
      BY <1>1, TableNext DEF Table!timetableVars, life, alarm, running
    <3>2. DOMAIN life = Schedules /\ DOMAIN alarm = Schedules
      BY DEF life, alarm
    <3>3. CASE UNCHANGED <<life, alarm, running>>
      BY <3>3
    <3>4. CASE \E t \in Schedules :
                  Table!Create(t) \/ Table!Arm(t) \/ Table!Fail(t) \/ Table!Disarm(t)
      BY <3>4, <3>2 DEF Table!Create, Table!Arm, Table!Fail, Table!Disarm, life, alarm, running
    <3>5. CASE \E t \in Schedules : Table!Run(t) \/ Table!Finish(t)
      BY <3>5 DEF Table!Run, Table!Finish, life, alarm, running
    <3>6. CASE Table!End \/ Table!Restart
      BY <3>6 DEF Table!End, Table!Restart, Table!Live, life, alarm, running
    <3> QED
      BY <3>1, <3>3, <3>4, <3>5, <3>6 DEF Table!Next
  <2> QED
    BY <2>1
<1>2. Scheduled /\ [Next]_vars => [\A s \in Schedules : StaysAway(s)]_vars
  BY <1>1
<1> HIDE DEF StaysAway
<1>3. Spec => [][\A s \in Schedules : StaysAway(s)]_vars
  BY <1>2, AlwaysScheduled, PTL DEF Spec
<1> QED
  BY <1>3 DEF StaysAway

=============================================================================
