------------------------- MODULE PoolTrackingProofs -------------------------
(***************************************************************************)
(* What ContainerPool guarantees when some of its faults cannot happen:    *)
(* that containers, their rows and the records of invocations stay in step.*)
(* Each theorem names the faults it excludes; with them the code loses     *)
(* track of containers, as the hazards say.                                *)
(***************************************************************************)
EXTENDS ContainerPoolProofs

\* What the other steps leave alone.
LEMMA OtherSteps ==
  ASSUME \/ \E r \in Requests : ClientLeaves(r)
         \/ \E c \in Containers : Age(c)
         \/ SpleenScan
         \/ \E k \in Cleanups : CleanupStep(k)
         \/ DeployDeactivates
         \/ \E v \in Versions : DeployCreates(v)
         \/ \E k \in Cleanups, v \in Versions : RollbackCommits(k, v)
         \/ UNCHANGED vars
  PROVE  UNCHANGED <<status, docker, inv, ran, pc, held, reaper>>
  BY DEF ClientLeaves, Age, SpleenScan, CleanupStep, CleanupFindsVersion,
         CleanupLists, CleanupEnds, DeployDeactivates, DeployCreates,
         RollbackCommits, vars, rowVars, fnVars, invVars, reqVars, reapVars

\* A reaper changes at most the container and the row of its target, the row
\* last, and turns to another only when it is done.
LEMMA ReaperSteps ==
  ASSUME TypeOK, NEW p \in Reapers, ReapStep(p)
  PROVE  /\ UNCHANGED <<inv, ran, pc, held>>
         /\ \A q \in Reapers : q # p => reaper'[q] = reaper[q]
         /\ \/ UNCHANGED <<docker, status>> /\ reaper[p].step = "rest"
                 /\ reaper'[p].step = "stop" /\ reaper'[p].target \in todo[QueueOf(p)]
            \/ /\ UNCHANGED status /\ reaper[p].step \in {"stop", "delete"}
               /\ reaper'[p].step \in {"delete", "remove"}
               /\ reaper'[p].target = reaper[p].target
               /\ \A c \in Containers :
                     \/ docker'[c] = docker[c]
                     \/ c = reaper[p].target /\ docker'[c] \in {"stopped", "gone"}
               /\ reaper'[p].step = "remove" =>
                     DockerFails \/ (reaper[p].target \in Containers => docker'[reaper[p].target] = "gone")
               /\ \A c \in Containers : docker[c] = "gone" => docker'[c] = "gone"
            \/ /\ UNCHANGED docker /\ reaper[p].step = "remove" /\ reaper'[p].step = "rest"
               /\ \A c \in Containers :
                     \/ status'[c] = status[c] /\ (c # reaper[p].target \/ DbFails)
                     \/ c = reaper[p].target /\ status'[c] = "absent"
<1> USE DEF rowVars, fnVars, invVars, reqVars, reapVars, AtRest
<1>1. CASE Take(p)
  BY <1>1 DEF Take, TypeOK
<1>2. CASE Stop(p)
  <2>1. reaper' = [reaper EXCEPT ![p] = [@ EXCEPT !.step = "delete"]]
    BY <1>2 DEF Stop
  <2>2. /\ reaper'[p].step = "delete" /\ reaper'[p].target = reaper[p].target
        /\ \A q \in Reapers : q # p => reaper'[q] = reaper[q]
    BY <2>1 DEF TypeOK
  <2>3. /\ UNCHANGED <<inv, ran, pc, held, status>> /\ reaper[p].step = "stop"
        /\ \A c \in Containers :
              \/ docker'[c] = docker[c]
              \/ c = reaper[p].target /\ docker[c] = "running" /\ docker'[c] = "stopped"
    BY <1>2 DEF Stop, TypeOK
  <2> QED
    BY <2>2, <2>3
<1>3. CASE Delete(p)
  <2>1. reaper' = [reaper EXCEPT ![p] = [@ EXCEPT !.step = "remove"]]
    BY <1>3 DEF Delete
  <2>2. /\ reaper'[p].step = "remove" /\ reaper'[p].target = reaper[p].target
        /\ \A q \in Reapers : q # p => reaper'[q] = reaper[q]
    BY <2>1 DEF TypeOK
  <2>3. /\ UNCHANGED <<inv, ran, pc, held, status>> /\ reaper[p].step = "delete"
        /\ \/ docker' = [docker EXCEPT ![reaper[p].target] = "gone"]
           \/ DockerFails /\ docker' = docker
    BY <1>3 DEF Delete
  <2> QED
    BY <2>2, <2>3 DEF TypeOK
<1>4. CASE Remove(p)
  <2>1. /\ UNCHANGED <<inv, ran, pc, held, docker>> /\ reaper[p].step = "remove"
        /\ reaper' = [reaper EXCEPT ![p] = AtRest]
        /\ \/ status' = [status EXCEPT ![reaper[p].target] = "absent"]
           \/ DbFails /\ status' = status
    BY <1>4 DEF Remove, DeleteRow
  <2> QED
    BY <2>1 DEF TypeOK
<1> QED
  BY <1>1, <1>2, <1>3, <1>4 DEF ReapStep

-----------------------------------------------------------------------------
(* Containers that are starting *)

LEMMA StartingInit == Init => StartingUnreaped /\ StartingIsLive
  BY DEF Init, StartingUnreaped, StartingIsLive, Starting

\* One step of a request: only a container that was just born starts.
LEMMA UnreapedInvoke ==
  ASSUME Ownership, ReapedAreBorn, StartingUnreaped, NEW r \in Requests,
         ResolveFunction(r) \/ InvokeStep(r)
  PROVE  StartingUnreaped'
<1> USE ContainerAssumption
    DEF Ownership, ReapedAreBorn, StartingUnreaped, TypeOK, rowVars, fnVars, invVars,
        reqVars, reapVars, Goto, End, Starting
<1>1. CASE ResolveFunction(r)
  BY <1>1 DEF ResolveFunction
<1>2. CASE CreateInvocation(r)
  BY <1>2 DEF CreateInvocation
<1>3. CASE AcquireFreeContainer(r)
  BY <1>3 DEF AcquireFreeContainer
<1>4. CASE MarkInvocationRunning(r)
  BY <1>4 DEF MarkInvocationRunning
<1>5. CASE InvokeContainer(r)
  BY <1>5 DEF InvokeContainer
<1>6. CASE DeleteFailedContainer(r)
  BY <1>6 DEF DeleteFailedContainer
<1>7. CASE RemoveFailedContainer(r)
  BY <1>7 DEF RemoveFailedContainer
<1>8. CASE CompleteFailed(r)
  BY <1>8 DEF CompleteFailed
<1>9. CASE CompleteSuccess(r)
  BY <1>9 DEF CompleteSuccess
<1>10. CASE PullImage(r)
  BY <1>10 DEF PullImage
<1>11. CASE SpawnContainer(r)
  BY <1>11 DEF SpawnContainer
<1>12. CASE StartContainer(r)
  BY <1>12 DEF StartContainer
<1>13. CASE AwaitReady(r)
  BY <1>13 DEF AwaitReady
<1>14. CASE AbandonContainer(r)
  BY <1>14 DEF AbandonContainer
<1>15. CASE InsertContainer(r)
  BY <1>15 DEF InsertContainer
<1> QED
  BY <1>1, <1>2, <1>3, <1>4, <1>5, <1>6, <1>7, <1>8, <1>9, <1>10, <1>11,
     <1>12, <1>13, <1>14, <1>15 DEF InvokeStep

LEMMA UnreapedNext ==
  ASSUME Ownership, VersionOfHeld, ReapedAreBorn, StartingUnreaped, [Next]_vars
  PROVE  StartingUnreaped'
<1>t. TypeOK
  BY DEF Ownership
<1> USE DEF StartingUnreaped, Starting
<1>1. CASE \E r \in Requests : ResolveFunction(r) \/ InvokeStep(r)
  BY <1>1, UnreapedInvoke
<1>2. CASE \E p \in Reapers : ReapStep(p)
  <2>1. PICK p \in Reapers : ReapStep(p)
    BY <1>2
  <2>2. QueueOf(p) \in Cleanups \cup {Spleen}
    BY DEF QueueOf, Reapers
  <2>3. \A q \in Cleanups \cup {Spleen} : todo'[q] \subseteq todo[q]
    BY <1>t, <2>1, <2>2 DEF ReapStep, Take, Stop, Delete, Remove, TypeOK
  <2> QED
    BY <1>t, <2>1, <2>2, <2>3, ReaperSteps
<1>3. CASE SpleenScan
  BY <1>3, <1>t DEF SpleenScan, Stale, VersionOfHeld, TypeOK, rowVars, reqVars
<1>4. CASE \E k \in Cleanups : CleanupStep(k)
  BY <1>4, <1>t DEF CleanupStep, CleanupFindsVersion, CleanupLists, CleanupEnds,
                    FreeFor, VersionOfHeld, TypeOK, rowVars, reqVars
<1>5. CASE Crash
  BY <1>5 DEF Crash, TypeOK, Finished
<1>6. CASE \/ \E r \in Requests : ClientLeaves(r)
           \/ \E c \in Containers : Age(c)
           \/ DeployDeactivates
           \/ \E v \in Versions : DeployCreates(v)
           \/ \E k \in Cleanups, v \in Versions : RollbackCommits(k, v)
           \/ UNCHANGED vars
  BY <1>6 DEF ClientLeaves, Age, DeployDeactivates, DeployCreates, RollbackCommits,
              vars, reqVars, reapVars
<1> QED
  BY <1>1, <1>2, <1>3, <1>4, <1>5, <1>6 DEF Next

\* One step of a request keeps starting containers from harm.
LEMMA StartingInvoke ==
  ASSUME Ownership, VersionOfHeld, StartingIsLive, NEW r \in Requests,
         ResolveFunction(r) \/ InvokeStep(r)
  PROVE  StartingIsLive'
<1> USE ContainerAssumption
    DEF Ownership, StartingIsLive, TypeOK, rowVars, fnVars, invVars, reqVars,
        reapVars, Goto, End, Starting, Serving, HeldByLabel, ExclusiveUse
<1>1. CASE ResolveFunction(r)
  BY <1>1 DEF ResolveFunction
<1>2. CASE CreateInvocation(r)
  BY <1>2 DEF CreateInvocation
<1>3. CASE AcquireFreeContainer(r)
  BY <1>3 DEF AcquireFreeContainer
<1>4. CASE MarkInvocationRunning(r)
  BY <1>4 DEF MarkInvocationRunning
<1>5. CASE InvokeContainer(r)
  BY <1>5 DEF InvokeContainer
<1>6. CASE DeleteFailedContainer(r)
  BY <1>6 DEF DeleteFailedContainer
<1>7. CASE RemoveFailedContainer(r)
  BY <1>7 DEF RemoveFailedContainer
<1>8. CASE CompleteFailed(r)
  BY <1>8 DEF CompleteFailed
<1>9. CASE CompleteSuccess(r)
  BY <1>9 DEF CompleteSuccess
<1>10. CASE PullImage(r)
  BY <1>10 DEF PullImage
<1>11. CASE SpawnContainer(r)
  BY <1>11 DEF SpawnContainer, UnbornUnused
<1>12. CASE StartContainer(r)
  BY <1>12 DEF StartContainer
<1>13. CASE AwaitReady(r)
  BY <1>13 DEF AwaitReady
<1>14. CASE AbandonContainer(r)
  BY <1>14 DEF AbandonContainer
<1>15. CASE InsertContainer(r)
  BY <1>15 DEF InsertContainer
<1> QED
  BY <1>1, <1>2, <1>3, <1>4, <1>5, <1>6, <1>7, <1>8, <1>9, <1>10, <1>11,
     <1>12, <1>13, <1>14, <1>15 DEF InvokeStep

\* Every step: what a reaper stops or deletes is not starting.
LEMMA StartingNext ==
  ASSUME Ownership, VersionOfHeld, StartingUnreaped, StartingIsLive, [Next]_vars
  PROVE  StartingIsLive'
<1>t. TypeOK
  BY DEF Ownership
<1>1. CASE \E r \in Requests : ResolveFunction(r) \/ InvokeStep(r)
  BY <1>1, StartingInvoke
<1>2. CASE \E p \in Reapers : ReapStep(p)
  <2>1. PICK p \in Reapers : ReapStep(p)
    BY <1>2
  <2>2. \A r \in Requests : pc[r] \in Starting => held[r] \in Containers
    BY <1>t DEF Ownership, HeldByLabel, TypeOK
  <2>3. \A r \in Requests : pc[r] \in Starting => docker'[held[r]] = docker[held[r]]
    BY <1>t, <2>1, <2>2, ReaperSteps DEF StartingUnreaped
  <2> QED
    BY <1>t, <2>1, <2>3, ReaperSteps DEF StartingIsLive, Starting
<1>3. CASE Crash
  BY <1>3 DEF Crash, StartingIsLive, Finished
<1>4. CASE UNCHANGED <<docker, pc, held>>
  BY <1>4 DEF StartingIsLive
<1> QED
  BY <1>1, <1>2, <1>3, <1>4, OtherSteps DEF Next

PoolSound == Ownership /\ VersionOfHeld /\ ReapedAreBorn /\ StartingUnreaped /\ StartingIsLive

LEMMA PoolSoundInvariant ==
  /\ Init => PoolSound
  /\ PoolSound /\ [Next]_vars => PoolSound'
<1>1. Init => VersionOfHeld
  BY DEF Init, VersionOfHeld, Starting, Serving
<1> QED
  BY <1>1, OwnershipInit, ReapedInit, StartingInit, OwnershipNext, VersionNext,
     ReapedNext, UnreapedNext, StartingNext DEF PoolSound

-----------------------------------------------------------------------------
(* Records of invocations *)

\* One step of Invoke, when no statement fails.
LEMMA RecordInvoke ==
  ASSUME ~DbFails, TypeOK, HeldByLabel, RecordByLabel, RecordOfAnswered, NEW r \in Requests,
         ResolveFunction(r) \/ InvokeStep(r)
  PROVE  RecordByLabel' /\ RecordOfAnswered'
<1> USE DEF RecordByLabel, RecordOfAnswered, TypeOK, rowVars, fnVars, invVars,
            reqVars, reapVars, Goto, End, Starting, Serving
<1>1. CASE ResolveFunction(r)
  BY <1>1 DEF ResolveFunction
<1>2. CASE CreateInvocation(r)
  BY <1>2 DEF CreateInvocation
<1>3. CASE AcquireFreeContainer(r)
  BY <1>3 DEF AcquireFreeContainer
<1>4. CASE MarkInvocationRunning(r)
  <2>1. held[r] # None
    BY <1>4 DEF MarkInvocationRunning, HeldByLabel
  <2> QED
    BY <1>4, <2>1 DEF MarkInvocationRunning
<1>5. CASE InvokeContainer(r)
  BY <1>5 DEF InvokeContainer
<1>6. CASE DeleteFailedContainer(r)
  BY <1>6 DEF DeleteFailedContainer
<1>7. CASE RemoveFailedContainer(r)
  BY <1>7 DEF RemoveFailedContainer
<1>8. CASE CompleteFailed(r)
  BY <1>8 DEF CompleteFailed
<1>9. CASE CompleteSuccess(r)
  BY <1>9 DEF CompleteSuccess
<1>10. CASE PullImage(r)
  BY <1>10 DEF PullImage
<1>11. CASE SpawnContainer(r)
  BY <1>11 DEF SpawnContainer
<1>12. CASE StartContainer(r)
  BY <1>12 DEF StartContainer
<1>13. CASE AwaitReady(r)
  BY <1>13 DEF AwaitReady
<1>14. CASE AbandonContainer(r)
  BY <1>14 DEF AbandonContainer
<1>15. CASE InsertContainer(r)
  BY <1>15 DEF InsertContainer
<1> QED
  BY <1>1, <1>2, <1>3, <1>4, <1>5, <1>6, <1>7, <1>8, <1>9, <1>10, <1>11,
     <1>12, <1>13, <1>14, <1>15 DEF InvokeStep

\* One step of anybody.
LEMMA RecordNext ==
  ASSUME ~DbFails, Ownership, RecordByLabel, RecordOfAnswered, [Next]_vars
  PROVE  RecordByLabel' /\ RecordOfAnswered'
<1>t. TypeOK /\ HeldByLabel
  BY DEF Ownership
<1>1. CASE \E r \in Requests : ResolveFunction(r) \/ InvokeStep(r)
  BY <1>1, <1>t, RecordInvoke
<1>2. CASE UNCHANGED <<inv, ran, pc>>
  BY <1>2 DEF RecordByLabel, RecordOfAnswered
<1>3. CASE Crash
  BY <1>3, <1>t DEF Crash, invVars, TypeOK, RecordByLabel, RecordOfAnswered, Finished, Starting, Serving
<1> QED
  BY <1>1, <1>2, <1>3, <1>t, OtherSteps, ReaperSteps DEF Next

\* With a database that works, the record of an answered request is a success if
\* the client was given a result, a failure if it was given an error after the
\* invocation had been marked as running, and otherwise pending or not there: the
\* error returns of the cold start before its call record nothing.
THEOREM AnsweredHaveTheirRecord ==
  ASSUME ~DbFails
  PROVE  Spec => []RecordOfAnswered
<1>1. Init => RecordByLabel /\ RecordOfAnswered
  BY DEF Init, RecordByLabel, RecordOfAnswered, Starting, Serving
<1>2. Ownership /\ RecordByLabel /\ RecordOfAnswered /\ [Next]_vars
        => RecordByLabel' /\ RecordOfAnswered'
  BY RecordNext
<1> QED
  BY <1>1, <1>2, OwnershipInit, OwnershipNext, PTL DEF Spec

-----------------------------------------------------------------------------
(* Rows without a running container *)

\* A step that inserts no row and touches no container with one, or makes it
\* run, and of those who are about to remove a row stops nobody.
LEMMA RowsStayLive ==
  ASSUME RowsAreLive, UNCHANGED reaper,
         \A c \in Containers : status'[c] # "absent" =>
            \/ status[c] # "absent" /\ docker'[c] = docker[c]
            \/ docker'[c] = "running",
         \A r \in Requests : pc[r] = "forget" =>
            pc'[r] = "forget" /\ held'[r] = held[r]
  PROVE  RowsAreLive'
  BY DEF RowsAreLive

LEMMA LiveInvoke ==
  ASSUME PoolSound, RowsAreLive, ~DbFails, NEW r \in Requests,
         ResolveFunction(r) \/ InvokeStep(r)
  PROVE  RowsAreLive'
<1>t. Ownership /\ TypeOK /\ VersionOfHeld /\ StartingIsLive
  BY DEF PoolSound, Ownership
<1>h. pc[r] \in Starting \cup Serving => held[r] \in Containers
  BY <1>t DEF Ownership, HeldByLabel, TypeOK
<1> USE ContainerAssumption
    DEF TypeOK, rowVars, fnVars, invVars, reqVars, reapVars, Goto, End
<1>1. CASE ResolveFunction(r)
  BY <1>1, <1>t, RowsStayLive DEF ResolveFunction
<1>2. CASE CreateInvocation(r)
  BY <1>2, <1>t, RowsStayLive DEF CreateInvocation
<1>3. CASE AcquireFreeContainer(r)
  <2>1. \A c \in Containers : status'[c] # "absent" => status[c] # "absent"
    BY <1>3, <1>t DEF AcquireFreeContainer, MostRecent, FreeFor
  <2>2. /\ UNCHANGED <<docker, reaper>>
        /\ \A s \in Requests : pc[s] = "forget" => pc'[s] = "forget" /\ held'[s] = held[s]
    BY <1>3, <1>t DEF AcquireFreeContainer
  <2> QED
    BY <2>1, <2>2, RowsStayLive
<1>4. CASE MarkInvocationRunning(r)
  BY <1>4, <1>t, RowsStayLive DEF MarkInvocationRunning
<1>5. CASE InvokeContainer(r)
  BY <1>5, <1>t, RowsStayLive DEF InvokeContainer
<1>6. CASE DeleteFailedContainer(r)
  <2>1. /\ pc[r] = "drop" /\ pc' = [pc EXCEPT ![r] = "forget"]
        /\ UNCHANGED <<status, held, reaper>>
        /\ docker' = [docker EXCEPT ![held[r]] = "gone"] \/ docker' = docker
    BY <1>6 DEF DeleteFailedContainer
  <2>2. \A c \in Containers : docker'[c] = docker[c] \/ c = held[r]
    BY <1>t, <2>1
  <2>3. /\ pc'[r] = "forget" /\ held'[r] = held[r]
        /\ \A s \in Requests : pc[s] = "forget" => pc'[s] = "forget" /\ held'[s] = held[s]
    BY <1>t, <2>1
  <2> QED
    BY <2>1, <2>2, <2>3 DEF RowsAreLive
<1>7. CASE RemoveFailedContainer(r)
  <2>1. /\ pc[r] = "forget" /\ held[r] \in Containers /\ UNCHANGED <<docker, held, reaper>>
        /\ status' = [status EXCEPT ![held[r]] = "absent"]
        /\ pc' = [pc EXCEPT ![r] = "fail"]
    BY <1>7, <1>h DEF RemoveFailedContainer, DeleteRow, Serving
  <2>2. \A c \in Containers : status'[c] # "absent" => c # held[r] /\ status[c] # "absent"
    BY <1>t, <2>1
  <2>3. \A s \in Requests : s # r => pc'[s] = pc[s] /\ held'[s] = held[s]
    BY <1>t, <2>1
  <2> QED
    BY <2>1, <2>2, <2>3 DEF RowsAreLive
<1>8. CASE CompleteFailed(r)
  BY <1>8, <1>t, RowsStayLive DEF CompleteFailed
<1>9. CASE CompleteSuccess(r)
  <2>1. \A c \in Containers : status'[c] # "absent" => status[c] # "absent"
    BY <1>9, <1>t DEF CompleteSuccess, FreeRow
  <2>2. /\ UNCHANGED <<docker, reaper>>
        /\ \A s \in Requests : pc[s] = "forget" => pc'[s] = "forget" /\ held'[s] = held[s]
    BY <1>9, <1>t DEF CompleteSuccess
  <2> QED
    BY <2>1, <2>2, RowsStayLive
<1>10. CASE PullImage(r)
  BY <1>10, <1>t, RowsStayLive DEF PullImage
<1>11. CASE SpawnContainer(r)
  <2>1. \A c \in Containers : status[c] # "absent" => docker'[c] = docker[c]
    BY <1>11, <1>t DEF SpawnContainer, Ownership, UnbornUnused
  <2> QED
    BY <1>11, <1>t, <2>1, RowsStayLive DEF SpawnContainer
<1>12. CASE StartContainer(r)
  <2>1. \A c \in Containers : docker'[c] \in {docker[c], "running"}
    BY <1>12, <1>t DEF StartContainer
  <2> QED
    BY <1>12, <1>t, <2>1, RowsStayLive DEF StartContainer
<1>13. CASE AwaitReady(r)
  BY <1>13, <1>t, RowsStayLive DEF AwaitReady
<1>14. CASE AbandonContainer(r)
  <2>1. \A c \in Containers : status[c] # "absent" => docker'[c] = docker[c]
    BY <1>14, <1>t, <1>h DEF AbandonContainer, VersionOfHeld, Starting
  <2> QED
    BY <1>14, <1>t, <2>1, RowsStayLive DEF AbandonContainer
<1>15. CASE InsertContainer(r)
  <2>1. \A c \in Containers : status'[c] # "absent" => status[c] # "absent" \/ docker[c] = "running"
    BY <1>15, <1>t, <1>h DEF InsertContainer, StartingIsLive, Starting
  <2> QED
    BY <1>15, <1>t, <2>1, RowsStayLive DEF InsertContainer
<1> QED
  BY <1>1, <1>2, <1>3, <1>4, <1>5, <1>6, <1>7, <1>8, <1>9, <1>10, <1>11,
     <1>12, <1>13, <1>14, <1>15 DEF InvokeStep

\* A reaper that stops or deletes a container goes on to its row.
LEMMA LiveReap ==
  ASSUME TypeOK, RowsAreLive, ~DbFails, NEW p \in Reapers, ReapStep(p)
  PROVE  RowsAreLive'
<1>1. SUFFICES ASSUME NEW c \in Containers, status'[c] # "absent"
               PROVE  \/ docker'[c] = "running"
                      \/ \E q \in Reapers : reaper'[q].step # "rest" /\ reaper'[q].target = c
                      \/ \E r \in Requests : held'[r] = c /\ pc'[r] = "forget"
  BY DEF RowsAreLive
<1>2. \/ docker[c] = "running"
      \/ \E q \in Reapers : reaper[q].step # "rest" /\ reaper[q].target = c
      \/ \E r \in Requests : held[r] = c /\ pc[r] = "forget"
  BY <1>1, ReaperSteps DEF RowsAreLive
<1>3. CASE reaper[p].step # "rest" /\ reaper[p].target = c
  BY <1>1, <1>3, ReaperSteps
<1>4. CASE ~(reaper[p].step # "rest" /\ reaper[p].target = c)
  <2>1. docker'[c] = docker[c]
    BY <1>4, ReaperSteps
  <2> QED
    BY <1>2, <1>4, <2>1, ReaperSteps
<1> QED
  BY <1>3, <1>4

\* With a database that works and no crash, a request that acquires a free row
\* gets a running container, or one that a reaper is dealing with.
THEOREM FreeRowsAreLive ==
  ASSUME ~DbFails, MaxCrashes = 0
  PROVE  Spec => []FreeRowIsLive
<1> DEFINE Inv == PoolSound /\ RowsAreLive
<1>1. Init => Inv
  BY PoolSoundInvariant DEF Init, RowsAreLive
<1>2. Inv /\ [Next]_vars => Inv'
  <2> SUFFICES ASSUME Inv, [Next]_vars PROVE RowsAreLive'
    BY PoolSoundInvariant
  <2>t. TypeOK
    BY DEF PoolSound, Ownership
  <2>1. CASE \E r \in Requests : ResolveFunction(r) \/ InvokeStep(r)
    BY <2>1, LiveInvoke
  <2>2. CASE \E p \in Reapers : ReapStep(p)
    BY <2>t, <2>2, LiveReap
  <2>3. CASE UNCHANGED <<status, docker, pc, held, reaper>>
    BY <2>3 DEF RowsAreLive
  <2>4. ~Crash
    BY <2>t DEF Crash, TypeOK
  <2> QED
    BY <2>1, <2>2, <2>3, <2>4, OtherSteps DEF Next
<1>3. Inv => FreeRowIsLive
  BY ContainerAssumption DEF PoolSound, Ownership, HeldNotFree, TypeOK, RowsAreLive, FreeRowIsLive
<1> QED
  BY <1>1, <1>2, <1>3, PTL DEF Spec

-----------------------------------------------------------------------------
(* Containers that nobody knows *)

NothingLost == PoolSound /\ departed = {} /\ ForgottenAreGone /\ NoLeakedContainer

\* One step of a request that meets no fault: it gives its container up only
\* when that has a row, or is deleted.
LEMMA KeptInvoke ==
  ASSUME NothingLost, ~DbFails, ~DockerFails, NEW r \in Requests,
         ResolveFunction(r) \/ InvokeStep(r)
  PROVE  ForgottenAreGone' /\ NoLeakedContainer'
<1>t. /\ TypeOK /\ departed = {} /\ Ownership /\ HeldByLabel /\ UnbornUnused
      /\ ExclusiveUse /\ VersionOfHeld /\ ReapedAreBorn /\ StartingUnreaped
      /\ StartingIsLive /\ ForgottenAreGone /\ NoLeakedContainer
  BY DEF NothingLost, PoolSound, Ownership
<1>h. \A s \in Requests : pc[s] \in Starting \cup Serving => held[s] \in Containers
  BY <1>t DEF HeldByLabel, TypeOK
<1>p. \A p \in Reapers : reaper[p].step # "rest" => reaper[p].target \in Containers
  BY <1>t DEF ReapedAreBorn, TypeOK
<1> USE ContainerAssumption
    DEF TypeOK, rowVars, fnVars, invVars, reqVars, reapVars, Goto, End, CtxOk, CtxFails,
        Starting, Serving
<1>1. CASE ResolveFunction(r)
  <2>1. ForgottenAreGone'
    BY <1>1, <1>t, <1>h, <1>p DEF ResolveFunction, ForgottenAreGone, HeldByLabel
  <2>2. NoLeakedContainer'
    BY <1>1, <1>t, <1>h, <1>p DEF ResolveFunction, NoLeakedContainer, HeldByLabel
  <2> QED
    BY <2>1, <2>2
<1>2. CASE CreateInvocation(r)
  <2>1. ForgottenAreGone'
    BY <1>2, <1>t, <1>h, <1>p DEF CreateInvocation, ForgottenAreGone, HeldByLabel
  <2>2. NoLeakedContainer'
    BY <1>2, <1>t, <1>h, <1>p DEF CreateInvocation, NoLeakedContainer, HeldByLabel
  <2> QED
    BY <2>1, <2>2
<1>3. CASE AcquireFreeContainer(r)
  <2>1. ForgottenAreGone'
    BY <1>3, <1>t, <1>h, <1>p DEF AcquireFreeContainer, MostRecent, FreeFor, ForgottenAreGone, HeldByLabel
  <2>2. NoLeakedContainer'
    BY <1>3, <1>t, <1>h, <1>p DEF AcquireFreeContainer, MostRecent, FreeFor, NoLeakedContainer, HeldByLabel
  <2> QED
    BY <2>1, <2>2
<1>4. CASE MarkInvocationRunning(r)
  <2>1. ForgottenAreGone'
    BY <1>4, <1>t, <1>h, <1>p DEF MarkInvocationRunning, ForgottenAreGone, HeldByLabel
  <2>2. NoLeakedContainer'
    BY <1>4, <1>t, <1>h, <1>p DEF MarkInvocationRunning, NoLeakedContainer, HeldByLabel
  <2> QED
    BY <2>1, <2>2
<1>5. CASE InvokeContainer(r)
  <2>1. ForgottenAreGone'
    BY <1>5, <1>t, <1>h, <1>p DEF InvokeContainer, ForgottenAreGone, HeldByLabel
  <2>2. NoLeakedContainer'
    BY <1>5, <1>t, <1>h, <1>p DEF InvokeContainer, NoLeakedContainer, HeldByLabel
  <2> QED
    BY <2>1, <2>2
<1>6. CASE DeleteFailedContainer(r)
  <2>1. ForgottenAreGone'
    BY <1>6, <1>t, <1>h, <1>p DEF DeleteFailedContainer, ForgottenAreGone, HeldByLabel
  <2>2. NoLeakedContainer'
    BY <1>6, <1>t, <1>h, <1>p DEF DeleteFailedContainer, NoLeakedContainer, HeldByLabel
  <2> QED
    BY <2>1, <2>2
<1>7. CASE RemoveFailedContainer(r)
  <2>1. ForgottenAreGone'
    BY <1>7, <1>t, <1>h, <1>p DEF RemoveFailedContainer, DeleteRow, ForgottenAreGone, HeldByLabel
  <2>2. NoLeakedContainer'
    BY <1>7, <1>t, <1>h, <1>p DEF RemoveFailedContainer, DeleteRow, NoLeakedContainer, HeldByLabel
  <2> QED
    BY <2>1, <2>2
<1>8. CASE CompleteFailed(r)
  <2>1. ForgottenAreGone'
    BY <1>8, <1>t, <1>h, <1>p DEF CompleteFailed, ForgottenAreGone, HeldByLabel
  <2>2. NoLeakedContainer'
    <3>1. \A s \in Requests : s # r => held'[s] = held[s]
      BY <1>8, <1>t DEF CompleteFailed
    <3>2. held[r] \in Containers /\ docker[held[r]] = "gone"
      BY <1>8, <1>t, <1>h DEF CompleteFailed, ForgottenAreGone
    <3>3. \A c \in Containers : docker'[c] = docker[c] /\ status'[c] = status[c]
      BY <1>8, <1>t, <1>h DEF CompleteFailed
    <3> QED
      BY <1>t, <3>1, <3>2, <3>3 DEF NoLeakedContainer, Existing
  <2> QED
    BY <2>1, <2>2
<1>9. CASE CompleteSuccess(r)
  <2>1. ForgottenAreGone'
    BY <1>9, <1>t, <1>h, <1>p DEF CompleteSuccess, FreeRow, ForgottenAreGone, HeldByLabel
  <2>2. NoLeakedContainer'
    <3>1. \A s \in Requests : s # r => held'[s] = held[s]
      BY <1>9, <1>t DEF CompleteSuccess
    <3>2. held[r] \in Containers /\ (status[held[r]] = "absent" => docker[held[r]] = "gone")
      BY <1>9, <1>t, <1>h DEF CompleteSuccess, ForgottenAreGone
    <3>3. \A c \in Containers : docker'[c] = docker[c] /\ (status'[c] = "absent" <=> status[c] = "absent")
      BY <1>9, <1>t, <1>h DEF CompleteSuccess, FreeRow
    <3> QED
      BY <1>t, <3>1, <3>2, <3>3 DEF NoLeakedContainer, Existing
  <2> QED
    BY <2>1, <2>2
<1>10. CASE PullImage(r)
  <2>1. ForgottenAreGone'
    BY <1>10, <1>t, <1>h, <1>p DEF PullImage, ForgottenAreGone, HeldByLabel
  <2>2. NoLeakedContainer'
    BY <1>10, <1>t, <1>h, <1>p DEF PullImage, NoLeakedContainer, HeldByLabel
  <2> QED
    BY <2>1, <2>2
<1>11. CASE SpawnContainer(r)
  <2>1. ForgottenAreGone'
    BY <1>11, <1>t, <1>h, <1>p DEF SpawnContainer, ForgottenAreGone, HeldByLabel
  <2>2. NoLeakedContainer'
    BY <1>11, <1>t, <1>h, <1>p DEF SpawnContainer, NoLeakedContainer, HeldByLabel
  <2> QED
    BY <2>1, <2>2
<1>12. CASE StartContainer(r)
  <2>1. ForgottenAreGone'
    <3>1. /\ pc' = [pc EXCEPT ![r] = "ready"] /\ docker' = [docker EXCEPT ![held[r]] = "running"]
          /\ pc[r] = "start" /\ UNCHANGED <<held, status, reaper>>
      BY <1>12, <1>t DEF StartContainer
    <3>2. docker[held[r]] = "created" /\ held[r] \in Containers
      BY <1>t, <1>h, <3>1 DEF StartingIsLive
    <3>3. \A c \in Containers : docker[c] = "gone" => docker'[c] = "gone"
      BY <1>t, <3>1, <3>2
    <3>4. pc'[r] = "ready" /\ \A s \in Requests : s # r => pc'[s] = pc[s]
      BY <1>t, <3>1
    <3>5. \A s \in Requests : pc[s] \in {"forget", "fail"} => held[s] \in Containers
      BY <1>h
    <3> QED
      BY <1>t, <1>h, <1>p, <3>1, <3>3, <3>4, <3>5 DEF ForgottenAreGone
  <2>2. NoLeakedContainer'
    BY <1>12, <1>t, <1>h, <1>p DEF StartContainer, NoLeakedContainer, HeldByLabel
  <2> QED
    BY <2>1, <2>2
<1>13. CASE AwaitReady(r)
  <2>1. ForgottenAreGone'
    BY <1>13, <1>t, <1>h, <1>p DEF AwaitReady, ForgottenAreGone, HeldByLabel
  <2>2. NoLeakedContainer'
    BY <1>13, <1>t, <1>h, <1>p DEF AwaitReady, NoLeakedContainer, HeldByLabel
  <2> QED
    BY <2>1, <2>2
<1>14. CASE AbandonContainer(r)
  <2>1. ForgottenAreGone'
    BY <1>14, <1>t, <1>h, <1>p DEF AbandonContainer, ForgottenAreGone, HeldByLabel
  <2>2. NoLeakedContainer'
    <3>1. \A s \in Requests : s # r => held'[s] = held[s]
      BY <1>14, <1>t DEF AbandonContainer
    <3>2. held[r] \in Containers /\ docker'[held[r]] = "gone"
      BY <1>14, <1>t, <1>h DEF AbandonContainer
    <3>3. \A c \in Containers : (c # held[r] => docker'[c] = docker[c]) /\ status'[c] = status[c]
      BY <1>14, <1>t, <1>h DEF AbandonContainer
    <3> QED
      BY <1>t, <3>1, <3>2, <3>3 DEF NoLeakedContainer, Existing
  <2> QED
    BY <2>1, <2>2
<1>15. CASE InsertContainer(r)
  <2>1. ForgottenAreGone'
    BY <1>15, <1>t, <1>h, <1>p DEF InsertContainer, ForgottenAreGone, HeldByLabel
  <2>2. NoLeakedContainer'
    BY <1>15, <1>t, <1>h, <1>p DEF InsertContainer, NoLeakedContainer, HeldByLabel
  <2> QED
    BY <2>1, <2>2
<1> QED
  BY <1>1, <1>2, <1>3, <1>4, <1>5, <1>6, <1>7, <1>8, <1>9, <1>10, <1>11,
     <1>12, <1>13, <1>14, <1>15 DEF InvokeStep

\* A reaper gives a row up only once the container is deleted.
LEMMA KeptReap ==
  ASSUME NothingLost, ~DbFails, ~DockerFails, NEW p \in Reapers, ReapStep(p)
  PROVE  ForgottenAreGone' /\ NoLeakedContainer'
<1>t. /\ TypeOK /\ HeldByLabel /\ ReapedAreBorn /\ ForgottenAreGone /\ NoLeakedContainer
  BY DEF NothingLost, PoolSound, Ownership
<1>h. \A s \in Requests : pc[s] \in Serving => held[s] \in Containers
  BY <1>t DEF HeldByLabel, TypeOK
<1>p. \A q \in Reapers : reaper[q].step # "rest" => reaper[q].target \in Containers
  BY <1>t DEF ReapedAreBorn, TypeOK
<1>1. \A c \in Containers :
         /\ docker[c] = "gone" => docker'[c] = "gone"
         /\ docker'[c] \in Existing => docker[c] \in Existing
  <2>1. \A c \in Containers : docker[c] = "unborn" => docker'[c] = docker[c]
    BY <1>t, ReaperSteps DEF ReapedAreBorn
  <2> QED
    BY <1>t, <2>1, ReaperSteps DEF Existing, TypeOK, DockerState
<1>2. \A c \in Containers : status'[c] = "absent" => status[c] = "absent" \/ docker'[c] = "gone"
  BY <1>t, <1>p, <1>1, ReaperSteps DEF ForgottenAreGone
<1>3. NoLeakedContainer'
  BY <1>t, <1>1, <1>2, ReaperSteps DEF NoLeakedContainer, Existing
<1>4. \A q \in Reapers : reaper'[q].step = "remove" => docker'[reaper'[q].target] = "gone"
  BY <1>t, <1>p, <1>1, ReaperSteps DEF ForgottenAreGone
<1>5. UNCHANGED <<pc, held>>
  BY <1>t, ReaperSteps
<1>6. \A r \in Requests : pc[r] \in {"forget", "fail"} => docker'[held[r]] = "gone"
  BY <1>t, <1>h, <1>1 DEF ForgottenAreGone, Serving
<1>7. \A r \in Requests : pc[r] \in Serving /\ status'[held[r]] = "absent" => docker'[held[r]] = "gone"
  BY <1>t, <1>h, <1>1, <1>2 DEF ForgottenAreGone
<1> QED
  BY <1>3, <1>4, <1>5, <1>6, <1>7 DEF ForgottenAreGone

\* With no fault, every container that exists is known to the table or to the
\* request that starts it, whatever is deployed, rolled back and reaped meanwhile.
THEOREM NothingLeaks ==
  ASSUME ~DbFails, ~DockerFails, ~ClientsLeave, MaxCrashes = 0
  PROVE  Spec => []NoLeakedContainer
<1>1. Init => NothingLost
  <2> SUFFICES ASSUME Init PROVE departed = {} /\ ForgottenAreGone /\ NoLeakedContainer
    BY PoolSoundInvariant DEF NothingLost
  <2> QED
    BY DEF Init, ForgottenAreGone, NoLeakedContainer, Existing, Serving, AtRest
<1>2. NothingLost /\ [Next]_vars => NothingLost'
  <2> SUFFICES ASSUME NothingLost, [Next]_vars
               PROVE  departed' = {} /\ ForgottenAreGone' /\ NoLeakedContainer'
    BY PoolSoundInvariant DEF NothingLost
  <2>t. TypeOK
    BY DEF NothingLost, PoolSound, Ownership
  <2>1. ~Crash /\ \A r \in Requests : ~ClientLeaves(r)
    BY <2>t DEF Crash, ClientLeaves, TypeOK
  <2>2. departed' = {}
    BY <2>1 DEF NothingLost, Next, vars, reqVars, ResolveFunction, InvokeStep, CreateInvocation,
                AcquireFreeContainer, MarkInvocationRunning, InvokeContainer,
                DeleteFailedContainer, RemoveFailedContainer, CompleteFailed,
                CompleteSuccess, PullImage, SpawnContainer, StartContainer,
                AwaitReady, AbandonContainer, InsertContainer, Age, SpleenScan,
                ReapStep, Take, Stop, Delete, Remove, CleanupStep, CleanupFindsVersion,
                CleanupLists, CleanupEnds, DeployDeactivates, DeployCreates, RollbackCommits
  <2>3. CASE \E r \in Requests : ResolveFunction(r) \/ InvokeStep(r)
    BY <2>2, <2>3, KeptInvoke
  <2>4. CASE \E p \in Reapers : ReapStep(p)
    BY <2>2, <2>4, KeptReap
  <2>5. CASE UNCHANGED <<status, docker, pc, held, reaper>>
    BY <2>2, <2>5 DEF NothingLost, ForgottenAreGone, NoLeakedContainer
  <2> QED
    BY <2>1, <2>3, <2>4, <2>5, <2>2, OtherSteps DEF Next
<1>3. NothingLost => NoLeakedContainer
  BY DEF NothingLost
<1> QED
  BY <1>1, <1>2, <1>3, PTL DEF Spec

=============================================================================
