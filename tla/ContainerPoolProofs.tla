------------------------- MODULE ContainerPoolProofs -------------------------
(***************************************************************************)
(* What ContainerPool guarantees for every number of requests, containers, *)
(* versions, reapers and crashes, and whatever statements and calls fail.  *)
(***************************************************************************)
EXTENDS ContainerPool, TLAPS

-----------------------------------------------------------------------------
(* Type correctness *)

LEMMA TypeOKInit == Init => TypeOK
  BY VersionAssumption, ContainerAssumption, ReaperAssumption, FaultAssumption
     DEF Init, TypeOK, RowStatus, DockerState, InvStatus, Label, Finished,
         Phase, Reapers, AtRest

\* One step of Invoke keeps every variable within its type.
LEMMA TypeOKInvoke ==
  ASSUME TypeOK, NEW r \in Requests, ResolveFunction(r) \/ InvokeStep(r)
  PROVE  TypeOK'
<1> USE DEF TypeOK, rowVars, fnVars, invVars, reqVars, reapVars, Goto, End,
            DeleteRow, RowStatus, DockerState, InvStatus, Label, Finished
<1>1. CASE ResolveFunction(r)
  BY <1>1, SMTT(60) DEF ResolveFunction
<1>2. CASE CreateInvocation(r)
  BY <1>2 DEF CreateInvocation
<1>3. CASE AcquireFreeContainer(r)
  <2>1. MostRecent(FreeFor(fn[r])) \subseteq Containers
    BY DEF MostRecent, FreeFor
  <2>2. CASE \E c \in Containers : /\ status' = [status EXCEPT ![c] = "busy"]
                                  /\ idle' = [idle EXCEPT ![c] = FALSE]
                                  /\ held' = [held EXCEPT ![r] = c]
                                  /\ path' = [path EXCEPT ![r] = "warm"]
                                  /\ Goto(r, "mark")
    BY <1>3, <2>2 DEF AcquireFreeContainer
  <2>3. CASE Goto(r, "pull") /\ UNCHANGED <<status, idle, held, path>>
    BY <1>3, <2>3 DEF AcquireFreeContainer
  <2> QED
    BY <1>3, <2>1, <2>2, <2>3 DEF AcquireFreeContainer
<1>4. CASE MarkInvocationRunning(r)
  BY <1>4, SMTT(60) DEF MarkInvocationRunning
<1>5. CASE InvokeContainer(r)
  BY <1>5 DEF InvokeContainer
<1>6. CASE DeleteFailedContainer(r)
  BY <1>6 DEF DeleteFailedContainer
<1>7. CASE RemoveFailedContainer(r)
  BY <1>7 DEF RemoveFailedContainer
<1>8. CASE CompleteFailed(r)
  BY <1>8 DEF CompleteFailed
<1>9. CASE CompleteSuccess(r)
  <2>1. status' \in [Containers -> RowStatus] /\ idle' \in [Containers -> BOOLEAN]
    <3>1. CASE UNCHANGED <<status, idle>>
      BY <3>1
    <3>2. CASE /\ status' = [status EXCEPT ![held[r]] = "free"]
               /\ idle' = [idle EXCEPT ![held[r]] = FALSE]
      BY <3>2
    <3> QED
      BY <1>9, <3>1, <3>2 DEF CompleteSuccess, FreeRow
  <2>2. inv' \in [Requests -> InvStatus]
    BY <1>9 DEF CompleteSuccess
  <2> QED
    BY <1>9, <2>1, <2>2 DEF CompleteSuccess
<1>10. CASE PullImage(r)
  BY <1>10 DEF PullImage
<1>11. CASE SpawnContainer(r)
  BY <1>11 DEF SpawnContainer
<1>12. CASE StartContainer(r)
  BY <1>12 DEF StartContainer
<1>13. CASE AwaitReady(r)
  BY <1>13 DEF AwaitReady
<1>14. CASE AbandonContainer(r)
  BY <1>14 DEF AbandonContainer
<1>15. CASE InsertContainer(r)
  BY <1>15 DEF InsertContainer
<1> QED
  BY <1>1, <1>2, <1>3, <1>4, <1>5, <1>6, <1>7, <1>8, <1>9, <1>10, <1>11,
     <1>12, <1>13, <1>14, <1>15 DEF InvokeStep

\* One step of a reaper keeps every variable within its type.
LEMMA TypeOKReap ==
  ASSUME TypeOK, NEW p \in Reapers, ReapStep(p)
  PROVE  TypeOK'
<1> USE DEF TypeOK, rowVars, fnVars, invVars, reqVars, reapVars, DeleteRow,
            RowStatus, DockerState
<1>1. CASE Take(p)
  <2>1. QueueOf(p) \in Cleanups \cup {Spleen}
    BY DEF QueueOf, Reapers
  <2> QED
    BY <1>1, <2>1 DEF Take
<1>2. CASE Stop(p)
  BY <1>2 DEF Stop
<1>3. CASE Delete(p)
  BY <1>3 DEF Delete
<1>4. CASE Remove(p)
  BY <1>4 DEF Remove, AtRest
<1> QED
  BY <1>1, <1>2, <1>3, <1>4 DEF ReapStep

\* Every other step keeps every variable within its type.
LEMMA TypeOKOther ==
  ASSUME TypeOK,
         \/ \E r \in Requests : ClientLeaves(r)
         \/ \E c \in Containers : Age(c)
         \/ SpleenScan
         \/ \E k \in Cleanups : CleanupStep(k)
         \/ DeployDeactivates
         \/ \E v \in Versions : DeployCreates(v)
         \/ \E k \in Cleanups, v \in Versions : RollbackCommits(k, v)
         \/ Crash
         \/ UNCHANGED vars
  PROVE  TypeOK'
<1> USE DEF TypeOK, rowVars, fnVars, invVars, reqVars, reapVars
<1>1. CASE \E r \in Requests : ClientLeaves(r)
  BY <1>1 DEF ClientLeaves
<1>2. CASE \E c \in Containers : Age(c)
  BY <1>2 DEF Age
<1>3. CASE SpleenScan
  BY <1>3 DEF SpleenScan, Stale
<1>4. CASE \E k \in Cleanups : CleanupStep(k)
  BY <1>4 DEF CleanupStep, CleanupFindsVersion, CleanupLists, CleanupEnds,
              FreeFor, Phase
<1>5. CASE DeployDeactivates
  BY <1>5 DEF DeployDeactivates
<1>6. CASE \E v \in Versions : DeployCreates(v)
  BY <1>6 DEF DeployCreates
<1>7. CASE \E k \in Cleanups, v \in Versions : RollbackCommits(k, v)
  BY <1>7 DEF RollbackCommits, Phase
<1>8. CASE Crash
  BY <1>8, FaultAssumption DEF Crash, Phase, Label, Finished, AtRest
<1>9. CASE UNCHANGED vars
  BY <1>9 DEF vars
<1> QED
  BY <1>1, <1>2, <1>3, <1>4, <1>5, <1>6, <1>7, <1>8, <1>9

\* Every variable always has its type.
THEOREM TypeCorrect == Spec => []TypeOK
<1>1. TypeOK /\ [Next]_vars => TypeOK'
  BY TypeOKInvoke, TypeOKReap, TypeOKOther DEF Next
<1> QED
  BY <1>1, TypeOKInit, PTL DEF Spec

-----------------------------------------------------------------------------
(* Mutual exclusion *)

LEMMA OwnershipInit == Init => Ownership
<1> SUFFICES ASSUME Init PROVE Ownership
  OBVIOUS
<1>1. TypeOK
  BY TypeOKInit
<1> QED
  BY <1>1, ContainerAssumption
     DEF Init, Ownership, HeldByLabel, HeldNotFree, UnbornUnused, RunnerOwns,
         ExclusiveUse, OneRunnerPerContainer, Starting, Serving

\* Deleting rows, and stopping or deleting containers, cannot break it: this is
\* all that reapers do, whichever container they do it to.
LEMMA OwnershipReap ==
  ASSUME Ownership, TypeOK',
         UNCHANGED <<pc, held, inv, ran>>,
         \A c \in Containers : status'[c] \in {status[c], "absent"},
         \A c \in Containers : docker'[c] = "unborn" => docker[c] = "unborn"
  PROVE  Ownership'
<1>1. HeldByLabel'
  BY DEF Ownership, HeldByLabel
<1>2. HeldNotFree'
  BY DEF Ownership, HeldNotFree, TypeOK
<1>3. UnbornUnused'
  BY DEF Ownership, UnbornUnused
<1>4. RunnerOwns'
  BY DEF Ownership, RunnerOwns, TypeOK
<1>5. ExclusiveUse' /\ OneRunnerPerContainer'
  BY DEF Ownership, ExclusiveUse, OneRunnerPerContainer
<1> QED
  BY <1>1, <1>2, <1>3, <1>4, <1>5 DEF Ownership

\* A step that gives nobody a container, frees no row, and neither makes an
\* invocation running nor changes the container of one.
LEMMA OwnershipRelease ==
  ASSUME Ownership, TypeOK', HeldByLabel',
         UNCHANGED ran,
         \A r \in Requests : held'[r] \in {held[r], None},
         \A r \in Requests : inv'[r] = "running" => inv[r] = "running",
         \A c \in Containers : status'[c] = "free" => status[c] = "free",
         \A c \in Containers : docker'[c] = "unborn" =>
                                  docker[c] = "unborn" /\ status'[c] = status[c]
  PROVE  Ownership'
<1>1. HeldNotFree'
  BY DEF Ownership, HeldNotFree, TypeOK
<1>2. UnbornUnused'
  BY ContainerAssumption DEF Ownership, UnbornUnused
<1>3. RunnerOwns'
  BY DEF Ownership, RunnerOwns, TypeOK
<1>4. ExclusiveUse' /\ OneRunnerPerContainer'
  BY DEF Ownership, ExclusiveUse, OneRunnerPerContainer
<1> QED
  BY <1>1, <1>2, <1>3, <1>4 DEF Ownership

\* One step of Invoke.
LEMMA OwnershipInvoke ==
  ASSUME Ownership, TypeOK', NEW r \in Requests,
         ResolveFunction(r) \/ InvokeStep(r)
  PROVE  Ownership'
<1>t. TypeOK
  BY DEF Ownership
<1> USE DEF rowVars, fnVars, invVars, reqVars, reapVars, Goto, End
<1>1. CASE ResolveFunction(r)
  <2>1. HeldByLabel'
    BY <1>1, <1>t DEF Ownership, HeldByLabel, ResolveFunction, TypeOK, Starting, Serving
  <2> QED
    BY <1>1, <1>t, <2>1, OwnershipRelease DEF ResolveFunction, TypeOK
<1>2. CASE CreateInvocation(r)
  <2>1. HeldByLabel'
    BY <1>2, <1>t DEF Ownership, HeldByLabel, CreateInvocation, TypeOK, Starting, Serving
  <2> QED
    BY <1>2, <1>t, <2>1, OwnershipRelease DEF CreateInvocation, TypeOK
<1>3. CASE AcquireFreeContainer(r)
  <2>1. CASE Goto(r, "pull") /\ UNCHANGED <<status, idle, held, path>>
    <3>1. HeldByLabel'
      BY <1>3, <2>1, <1>t DEF Ownership, HeldByLabel, AcquireFreeContainer, TypeOK, Starting, Serving
    <3> QED
      BY <1>3, <2>1, <1>t, <3>1, OwnershipRelease DEF AcquireFreeContainer
  <2>2. CASE \E c \in MostRecent(FreeFor(fn[r])) :
                /\ status' = [status EXCEPT ![c] = "busy"]
                /\ held' = [held EXCEPT ![r] = c]
                /\ Goto(r, "mark")
    <3>1. PICK c \in Containers :
                /\ status[c] = "free"
                /\ status' = [status EXCEPT ![c] = "busy"]
                /\ held' = [held EXCEPT ![r] = c]
                /\ pc' = [pc EXCEPT ![r] = "mark"]
      BY <2>2 DEF MostRecent, FreeFor
    <3>2. docker[c] # "unborn" /\ c # None
      BY <3>1, ContainerAssumption DEF Ownership, UnbornUnused
    <3>3. UNCHANGED <<docker, inv, ran>>
      BY <1>3 DEF AcquireFreeContainer
    <3>4. HeldByLabel'
      BY <3>1, <3>2, <1>t DEF Ownership, HeldByLabel, TypeOK, Starting, Serving
    <3>5. HeldNotFree'
      BY <3>1, <3>2, <1>t DEF Ownership, HeldNotFree, TypeOK
    <3>6. UnbornUnused'
      BY <3>1, <3>2, <3>3, <1>t DEF Ownership, UnbornUnused, TypeOK
    <3>7. RunnerOwns'
      BY <3>1, <3>2, <3>3, <1>t DEF Ownership, RunnerOwns, TypeOK
    <3>8. ExclusiveUse' /\ OneRunnerPerContainer'
      BY <3>1, <3>3, <1>t DEF Ownership, HeldNotFree, ExclusiveUse, OneRunnerPerContainer, TypeOK
    <3> QED
      BY <3>4, <3>5, <3>6, <3>7, <3>8 DEF Ownership
  <2> QED
    BY <1>3, <2>1, <2>2 DEF AcquireFreeContainer
<1>4. CASE MarkInvocationRunning(r)
  <2>1. HeldByLabel'
    BY <1>4, <1>t DEF Ownership, HeldByLabel, MarkInvocationRunning, TypeOK, Starting, Serving
  <2>2. CASE inv' = inv /\ ran' = ran
    BY <1>4, <1>t, <2>1, <2>2, OwnershipRelease DEF MarkInvocationRunning, TypeOK
  <2>3. CASE /\ inv' = [inv EXCEPT ![r] = "running"]
             /\ ran' = [ran EXCEPT ![r] = held[r]]
             /\ UNCHANGED held
    <3>1. UNCHANGED <<status, docker>>
      BY <1>4 DEF MarkInvocationRunning
    <3>2. held[r] \in Containers /\ status[held[r]] # "free"
      BY <1>4, <1>t DEF Ownership, MarkInvocationRunning, HeldByLabel, HeldNotFree, Serving, TypeOK
    <3>3. HeldNotFree' /\ ExclusiveUse'
      BY <2>3, <3>1 DEF Ownership, HeldNotFree, ExclusiveUse
    <3>4. UnbornUnused'
      BY <2>3, <3>1, <3>2, <1>t DEF Ownership, UnbornUnused, TypeOK
    <3>5. RunnerOwns'
      BY <2>3, <3>1, <3>2, <1>t, ContainerAssumption DEF Ownership, RunnerOwns, ExclusiveUse, TypeOK
    <3>6. OneRunnerPerContainer'
      BY <2>3, <3>2, <1>t DEF Ownership, RunnerOwns, OneRunnerPerContainer, TypeOK
    <3> QED
      BY <2>1, <3>3, <3>4, <3>5, <3>6 DEF Ownership
  <2> QED
    BY <1>4, <2>2, <2>3 DEF MarkInvocationRunning
<1>5. CASE InvokeContainer(r)
  <2>1. HeldByLabel'
    BY <1>5, <1>t DEF Ownership, HeldByLabel, InvokeContainer, TypeOK, Starting, Serving
  <2> QED
    BY <1>5, <1>t, <2>1, OwnershipRelease DEF InvokeContainer
<1>6. CASE DeleteFailedContainer(r)
  <2>1. HeldByLabel'
    BY <1>6, <1>t DEF Ownership, HeldByLabel, DeleteFailedContainer, TypeOK, Starting, Serving
  <2> QED
    BY <1>6, <1>t, <2>1, OwnershipRelease DEF DeleteFailedContainer, TypeOK
<1>7. CASE RemoveFailedContainer(r)
  <2>1. HeldByLabel'
    BY <1>7, <1>t DEF Ownership, HeldByLabel, RemoveFailedContainer, TypeOK, Starting, Serving
  <2>2. /\ \A c \in Containers : status'[c] \in {status[c], "absent"}
        /\ UNCHANGED <<docker, inv, ran, held>>
    BY <1>7, <1>t DEF RemoveFailedContainer, DeleteRow, TypeOK
  <2>3. \A c \in Containers : docker[c] = "unborn" => status[c] = "absent"
    BY DEF Ownership, UnbornUnused
  <2> QED
    BY <2>1, <2>2, <2>3, OwnershipRelease
<1>8. CASE CompleteFailed(r)
  <2>1. HeldByLabel'
    BY <1>8, <1>t DEF Ownership, HeldByLabel, CompleteFailed, TypeOK, Starting, Serving
  <2> QED
    BY <1>8, <1>t, <2>1, OwnershipRelease DEF CompleteFailed, TypeOK
<1>9. CASE CompleteSuccess(r)
  <2>1. HeldByLabel'
    BY <1>9, <1>t DEF Ownership, HeldByLabel, CompleteSuccess, TypeOK, Starting, Serving
  <2>2. CASE UNCHANGED <<inv, status, idle>>
    BY <1>9, <1>t, <2>1, <2>2, OwnershipRelease DEF CompleteSuccess, TypeOK
  <2>3. CASE inv' = [inv EXCEPT ![r] = "success"] /\ FreeRow(held[r])
    <3>1. /\ held[r] \in Containers
          /\ held' = [held EXCEPT ![r] = None]
          /\ UNCHANGED <<docker, ran>>
      BY <1>9, <1>t DEF Ownership, CompleteSuccess, HeldByLabel, Serving, TypeOK
    <3>2. \A c \in Containers :
             /\ c # held[r] => status'[c] = status[c]
             /\ status[c] = "absent" => status'[c] = "absent"
      BY <2>3, <1>t DEF FreeRow, TypeOK
    <3>3. HeldNotFree'
      BY <3>1, <3>2, <1>t DEF Ownership, HeldNotFree, ExclusiveUse, TypeOK
    <3>4. UnbornUnused'
      BY <3>1, <3>2, <1>t, ContainerAssumption DEF Ownership, UnbornUnused, TypeOK
    <3>5. RunnerOwns'
      BY <2>3, <3>1, <3>2, <1>t DEF Ownership, RunnerOwns, TypeOK
    <3>6. ExclusiveUse' /\ OneRunnerPerContainer'
      BY <2>3, <3>1, <1>t DEF Ownership, ExclusiveUse, OneRunnerPerContainer, TypeOK
    <3> QED
      BY <2>1, <3>3, <3>4, <3>5, <3>6 DEF Ownership
  <2> QED
    BY <1>9, <2>2, <2>3 DEF CompleteSuccess
<1>10. CASE PullImage(r)
  <2>1. HeldByLabel'
    BY <1>10, <1>t DEF Ownership, HeldByLabel, PullImage, TypeOK, Starting, Serving
  <2> QED
    BY <1>10, <1>t, <2>1, OwnershipRelease DEF PullImage, TypeOK
<1>11. CASE SpawnContainer(r)
  <2>1. HeldByLabel'
    BY <1>11, <1>t, ContainerAssumption
       DEF Ownership, HeldByLabel, SpawnContainer, TypeOK, Starting, Serving
  <2>2. CASE UNCHANGED docker /\ held' = [held EXCEPT ![r] = None]
    BY <1>11, <1>t, <2>1, <2>2, OwnershipRelease DEF SpawnContainer, TypeOK
  <2>3. CASE \E c \in Containers :
                /\ docker[c] = "unborn"
                /\ docker' = [docker EXCEPT ![c] = "created"]
                /\ held' = [held EXCEPT ![r] = c]
    <3>1. PICK c \in Containers :
                /\ docker[c] = "unborn"
                /\ docker' = [docker EXCEPT ![c] = "created"]
                /\ held' = [held EXCEPT ![r] = c]
      BY <2>3
    <3>2. UNCHANGED <<status, inv, ran>>
      BY <1>11 DEF SpawnContainer
    <3>3. HeldNotFree'
      BY <3>1, <3>2, <1>t DEF Ownership, HeldNotFree, UnbornUnused, TypeOK
    <3>4. UnbornUnused'
      BY <3>1, <3>2, <1>t DEF Ownership, UnbornUnused, TypeOK
    <3>5. RunnerOwns'
      BY <3>1, <3>2, <1>t DEF Ownership, RunnerOwns, UnbornUnused, TypeOK
    <3>6. ExclusiveUse' /\ OneRunnerPerContainer'
      BY <3>1, <3>2, <1>t DEF Ownership, ExclusiveUse, OneRunnerPerContainer, UnbornUnused, TypeOK
    <3> QED
      BY <2>1, <3>3, <3>4, <3>5, <3>6 DEF Ownership
  <2> QED
    BY <1>11, <2>2, <2>3 DEF SpawnContainer
<1>12. CASE StartContainer(r)
  <2>1. HeldByLabel'
    BY <1>12, <1>t DEF Ownership, HeldByLabel, StartContainer, TypeOK, Starting, Serving
  <2> QED
    BY <1>12, <1>t, <2>1, OwnershipRelease DEF StartContainer, TypeOK
<1>13. CASE AwaitReady(r)
  <2>1. HeldByLabel'
    BY <1>13, <1>t DEF Ownership, HeldByLabel, AwaitReady, TypeOK, Starting, Serving
  <2> QED
    BY <1>13, <1>t, <2>1, OwnershipRelease DEF AwaitReady
<1>14. CASE AbandonContainer(r)
  <2>1. HeldByLabel'
    BY <1>14, <1>t DEF Ownership, HeldByLabel, AbandonContainer, TypeOK, Starting, Serving
  <2> QED
    BY <1>14, <1>t, <2>1, OwnershipRelease DEF AbandonContainer, TypeOK
<1>15. CASE InsertContainer(r)
  <2>1. HeldByLabel'
    BY <1>15, <1>t DEF Ownership, HeldByLabel, InsertContainer, TypeOK, Starting, Serving
  <2>2. held[r] \in Containers /\ docker[held[r]] # "unborn"
    BY <1>15, <1>t DEF Ownership, HeldByLabel, UnbornUnused, InsertContainer, TypeOK, Starting
  <2> QED
    BY <1>15, <1>t, <2>1, <2>2, OwnershipRelease DEF InsertContainer, TypeOK
<1> QED
  BY <1>1, <1>2, <1>3, <1>4, <1>5, <1>6, <1>7, <1>8, <1>9, <1>10, <1>11,
     <1>12, <1>13, <1>14, <1>15 DEF InvokeStep

\* Every step, with the crash that takes all containers from all requests.
LEMMA OwnershipNext == Ownership /\ [Next]_vars => Ownership'
<1> SUFFICES ASSUME Ownership, [Next]_vars PROVE Ownership'
  OBVIOUS
<1>t. TypeOK /\ TypeOK'
  BY TypeOKInvoke, TypeOKReap, TypeOKOther DEF Next, Ownership
<1> USE DEF rowVars, fnVars, invVars, reqVars, reapVars
<1>1. CASE \E r \in Requests : ResolveFunction(r) \/ InvokeStep(r)
  BY <1>1, <1>t, OwnershipInvoke
<1>2. CASE \E r \in Requests : ClientLeaves(r)
  BY <1>2, <1>t, OwnershipReap DEF ClientLeaves
<1>3. CASE \E p \in Reapers : ReapStep(p)
  <2>1. PICK p \in Reapers : ReapStep(p)
    BY <1>3
  <2>2. CASE Take(p)
    BY <2>2, <1>t, OwnershipReap DEF Take
  <2>3. CASE Stop(p)
    BY <2>3, <1>t, OwnershipReap DEF Stop, TypeOK
  <2>4. CASE Delete(p)
    BY <2>4, <1>t, OwnershipReap DEF Delete, TypeOK
  <2>5. CASE Remove(p)
    BY <2>5, <1>t, OwnershipReap DEF Remove, DeleteRow, TypeOK
  <2> QED
    BY <2>1, <2>2, <2>3, <2>4, <2>5 DEF ReapStep
<1>4. CASE \E c \in Containers : Age(c)
  BY <1>4, <1>t, OwnershipReap DEF Age
<1>5. CASE SpleenScan \/ \E k \in Cleanups : CleanupStep(k)
  BY <1>5, <1>t, OwnershipReap
     DEF SpleenScan, CleanupStep, CleanupFindsVersion, CleanupLists, CleanupEnds
<1>6. CASE \/ DeployDeactivates
           \/ \E v \in Versions : DeployCreates(v)
           \/ \E k \in Cleanups, v \in Versions : RollbackCommits(k, v)
  BY <1>6, <1>t, OwnershipReap DEF DeployDeactivates, DeployCreates, RollbackCommits
<1>7. CASE Crash
  <2>1. HeldByLabel'
    BY <1>7, <1>t DEF Ownership, HeldByLabel, Crash, TypeOK, Starting, Serving, Finished
  <2> QED
    BY <1>7, <1>t, <2>1, OwnershipRelease DEF Crash, TypeOK
<1>8. CASE UNCHANGED vars
  BY <1>8, <1>t, OwnershipReap DEF vars
<1> QED
  BY <1>1, <1>2, <1>3, <1>4, <1>5, <1>6, <1>7, <1>8 DEF Next

\* No two requests ever have the same container: AcquireFreeContainer hands a
\* row out once, and only its holder's CompleteInvocationAndMarkFree gives it
\* back.
THEOREM MutualExclusion == Spec => []ExclusiveUse
<1>1. Ownership => ExclusiveUse
  BY DEF Ownership
<1> QED
  BY <1>1, OwnershipInit, OwnershipNext, PTL DEF Spec

\* The invocations table never shows two running invocations on one container.
THEOREM RunningApart == Spec => []OneRunnerPerContainer
<1>1. Ownership => OneRunnerPerContainer
  BY DEF Ownership
<1> QED
  BY <1>1, OwnershipInit, OwnershipNext, PTL DEF Spec

-----------------------------------------------------------------------------
(* Versions *)

\* One step of Invoke.
LEMMA VersionInvoke ==
  ASSUME Ownership, VersionOfHeld, NEW r \in Requests,
         ResolveFunction(r) \/ InvokeStep(r)
  PROVE  VersionOfHeld'
<1> USE ContainerAssumption
    DEF Ownership, VersionOfHeld, TypeOK, rowVars, fnVars, invVars, reqVars,
        reapVars, Goto, End, Starting, Serving, HeldByLabel
<1>1. CASE ResolveFunction(r)
  BY <1>1 DEF ResolveFunction
<1>2. CASE CreateInvocation(r)
  BY <1>2 DEF CreateInvocation
<1>3. CASE AcquireFreeContainer(r)
  BY <1>3 DEF AcquireFreeContainer, MostRecent, FreeFor, HeldNotFree, ExclusiveUse
<1>4. CASE MarkInvocationRunning(r)
  BY <1>4 DEF MarkInvocationRunning
<1>5. CASE InvokeContainer(r)
  BY <1>5 DEF InvokeContainer
<1>6. CASE DeleteFailedContainer(r)
  BY <1>6 DEF DeleteFailedContainer
<1>7. CASE RemoveFailedContainer(r)
  BY <1>7 DEF RemoveFailedContainer, DeleteRow
<1>8. CASE CompleteFailed(r)
  BY <1>8 DEF CompleteFailed
<1>9. CASE CompleteSuccess(r)
  BY <1>9 DEF CompleteSuccess, FreeRow, ExclusiveUse, HeldByLabel
<1>10. CASE PullImage(r)
  BY <1>10 DEF PullImage
<1>11. CASE SpawnContainer(r)
  BY <1>11 DEF SpawnContainer, UnbornUnused
<1>12. CASE StartContainer(r)
  BY <1>12 DEF StartContainer
<1>13. CASE AwaitReady(r)
  BY <1>13 DEF AwaitReady
<1>14. CASE AbandonContainer(r)
  BY <1>14 DEF AbandonContainer
<1>15. CASE InsertContainer(r)
  BY <1>15 DEF InsertContainer, ExclusiveUse, HeldByLabel
<1> QED
  BY <1>1, <1>2, <1>3, <1>4, <1>5, <1>6, <1>7, <1>8, <1>9, <1>10, <1>11,
     <1>12, <1>13, <1>14, <1>15 DEF InvokeStep

\* Every step.
LEMMA VersionNext ==
  Ownership /\ VersionOfHeld /\ [Next]_vars => VersionOfHeld'
<1> SUFFICES ASSUME Ownership, VersionOfHeld, [Next]_vars PROVE VersionOfHeld'
  OBVIOUS
<1> USE DEF Ownership, VersionOfHeld, TypeOK, rowVars, fnVars, invVars, reqVars,
            reapVars, Starting, Serving
<1>1. CASE \E r \in Requests : ResolveFunction(r) \/ InvokeStep(r)
  BY <1>1, VersionInvoke
<1>2. CASE \E r \in Requests : ClientLeaves(r)
  BY <1>2 DEF ClientLeaves
<1>3. CASE \E p \in Reapers : ReapStep(p)
  <2>1. UNCHANGED <<pc, held, fn>>
    BY <1>3 DEF ReapStep, Take, Stop, Delete, Remove
  <2>2. \/ UNCHANGED <<status, fnOf>>
        \/ \E c : DeleteRow(c)
    BY <1>3 DEF ReapStep, Take, Stop, Delete, Remove
  <2>3. \A c \in Containers :
           \/ status'[c] = status[c] /\ fnOf'[c] = fnOf[c]
           \/ status'[c] = "absent"
    BY <2>2 DEF DeleteRow
  <2>4. \A r \in Requests : pc[r] \in Starting \cup Serving => held[r] \in Containers
    BY DEF HeldByLabel
  <2> QED
    BY <2>1, <2>3, <2>4
<1>4. CASE \E c \in Containers : Age(c)
  BY <1>4 DEF Age
<1>5. CASE SpleenScan \/ \E k \in Cleanups : CleanupStep(k)
  BY <1>5 DEF SpleenScan, CleanupStep, CleanupFindsVersion, CleanupLists, CleanupEnds
<1>6. CASE \/ DeployDeactivates
           \/ \E v \in Versions : DeployCreates(v)
           \/ \E k \in Cleanups, v \in Versions : RollbackCommits(k, v)
  BY <1>6 DEF DeployDeactivates, DeployCreates, RollbackCommits
<1>7. CASE Crash
  BY <1>7 DEF Crash, Finished
<1>8. CASE UNCHANGED vars
  BY <1>8 DEF vars
<1> QED
  BY <1>1, <1>2, <1>3, <1>4, <1>5, <1>6, <1>7, <1>8 DEF Next

\* A request is served by a container of the version it resolved, whatever is
\* deployed or rolled back while it runs.
THEOREM RightVersion == Spec => []ServedByResolvedVersion
<1>1. Init => VersionOfHeld
  BY DEF Init, VersionOfHeld, Starting, Serving
<1>2. VersionOfHeld => ServedByResolvedVersion
  BY DEF VersionOfHeld, ServedByResolvedVersion, Serving, Using
<1> QED
  BY <1>1, <1>2, OwnershipInit, OwnershipNext, VersionNext, PTL DEF Spec

-----------------------------------------------------------------------------
(* Success is final *)

\* Whoever recorded a success has returned, and a goroutine that has returned
\* writes no more.
LEMMA SuccessNext ==
  TypeOK /\ SuccessEnds /\ [Next]_vars
    => /\ SuccessEnds'
       /\ \A r \in Requests : inv[r] = "success" => inv'[r] = "success"
<1> SUFFICES ASSUME TypeOK, SuccessEnds, [Next]_vars
             PROVE  /\ SuccessEnds'
                    /\ \A r \in Requests : inv[r] = "success" => inv'[r] = "success"
  OBVIOUS
<1> USE DEF TypeOK, SuccessEnds, rowVars, fnVars, invVars, reqVars, reapVars, Finished
<1>1. ASSUME NEW r \in Requests, ResolveFunction(r) \/ InvokeStep(r)
      PROVE  /\ pc[r] \notin Finished
             /\ \A s \in Requests \ {r} : inv'[s] = inv[s] /\ pc'[s] = pc[s]
             /\ inv'[r] = "success" => pc'[r] \in Finished
  BY <1>1 DEF Goto, End, InvokeStep, ResolveFunction, CreateInvocation,
              AcquireFreeContainer, MarkInvocationRunning, InvokeContainer,
              DeleteFailedContainer, RemoveFailedContainer, CompleteFailed,
              CompleteSuccess, PullImage, SpawnContainer, StartContainer,
              AwaitReady, AbandonContainer, InsertContainer
<1>2. CASE \E r \in Requests : ResolveFunction(r) \/ InvokeStep(r)
  BY <1>1, <1>2
<1>3. CASE Crash
  BY <1>3 DEF Crash
<1>4. CASE \/ \E r \in Requests : ClientLeaves(r)
           \/ \E c \in Containers : Age(c)
           \/ SpleenScan
           \/ \E p \in Reapers : ReapStep(p)
           \/ \E k \in Cleanups : CleanupStep(k)
  BY <1>4 DEF ClientLeaves, Age, SpleenScan, ReapStep, Take, Stop, Delete,
              Remove, CleanupStep, CleanupFindsVersion, CleanupLists, CleanupEnds
<1>5. CASE \/ DeployDeactivates
           \/ \E v \in Versions : DeployCreates(v)
           \/ \E k \in Cleanups, v \in Versions : RollbackCommits(k, v)
           \/ UNCHANGED vars
  BY <1>5 DEF DeployDeactivates, DeployCreates, RollbackCommits, vars
<1> QED
  BY <1>2, <1>3, <1>4, <1>5 DEF Next

\* An invocation recorded as a success is never run again.
THEOREM SuccessStays == Spec => SuccessIsFinal
<1>1. Init => SuccessEnds
  BY DEF Init, SuccessEnds
<1>2. TypeOK /\ SuccessEnds /\ [Next]_vars
        => [\A r \in Requests : inv[r] = "success" => inv'[r] = "success"]_vars
  BY SuccessNext
<1> QED
  BY <1>1, <1>2, SuccessNext, TypeCorrect, PTL DEF Spec, SuccessIsFinal

-----------------------------------------------------------------------------
(* Invocations advance *)

LEMMA PositionValues ==
  /\ Position("new") = 0 /\ Position("create") = 1 /\ Position("acquire") = 2
  /\ Position("spawn") = 3 /\ Position("start") = 4 /\ Position("ready") = 5
  /\ Position("abandon") = 6 /\ Position("insert") = 6
  /\ Position("mark") = 7 /\ Position("call") = 8
  /\ Position("drop") = 9 /\ Position("finish") = 9
  /\ Position("forget") = 10 /\ Position("fail") = 11 /\ Position("pull") = 12
BY DEF Position

\* Each step of Invoke goes on: on the path it is on, or from the warm path to
\* the cold one.
LEMMA StageInvoke ==
  ASSUME TypeOK, PathByLabel, NEW r \in Requests, ResolveFunction(r) \/ InvokeStep(r)
  PROVE  /\ \A s \in Requests \ {r} : pc'[s] = pc[s] /\ path'[s] = path[s]
         /\ PathByLabel'
         /\ Stage(r)' > Stage(r)
<1> USE PositionValues
    DEF TypeOK, PathByLabel, Stage, LastStage, Finished, Starting, Serving, Goto, End,
        rowVars, fnVars, invVars, reqVars, reapVars
<1>1. CASE ResolveFunction(r)
  BY <1>1 DEF ResolveFunction
<1>2. CASE CreateInvocation(r)
  BY <1>2 DEF CreateInvocation
<1>3. CASE AcquireFreeContainer(r)
  BY <1>3 DEF AcquireFreeContainer
<1>4. CASE MarkInvocationRunning(r)
  BY <1>4 DEF MarkInvocationRunning
<1>5. CASE InvokeContainer(r)
  BY <1>5 DEF InvokeContainer
<1>6. CASE DeleteFailedContainer(r)
  BY <1>6 DEF DeleteFailedContainer
<1>7. CASE RemoveFailedContainer(r)
  BY <1>7 DEF RemoveFailedContainer
<1>8. CASE CompleteFailed(r)
  BY <1>8 DEF CompleteFailed
<1>9. CASE CompleteSuccess(r)
  BY <1>9 DEF CompleteSuccess
<1>10. CASE PullImage(r)
  BY <1>10 DEF PullImage
<1>11. CASE SpawnContainer(r)
  BY <1>11 DEF SpawnContainer
<1>12. CASE StartContainer(r)
  BY <1>12 DEF StartContainer
<1>13. CASE AwaitReady(r)
  BY <1>13 DEF AwaitReady
<1>14. CASE AbandonContainer(r)
  BY <1>14 DEF AbandonContainer
<1>15. CASE InsertContainer(r)
  BY <1>15 DEF InsertContainer
<1> QED
  BY <1>1, <1>2, <1>3, <1>4, <1>5, <1>6, <1>7, <1>8, <1>9,
     <1>10, <1>11, <1>12, <1>13, <1>14, <1>15 DEF InvokeStep

\* A crash ends what is under way, and nobody else moves a request.
LEMMA StageNext ==
  ASSUME TypeOK, PathByLabel, [Next]_vars
  PROVE  /\ PathByLabel'
         /\ \A r \in Requests : pc'[r] # pc[r] => Stage(r)' > Stage(r)
<1> USE DEF rowVars, fnVars, invVars, reqVars, reapVars
<1>1. CASE \E r \in Requests : ResolveFunction(r) \/ InvokeStep(r)
  BY <1>1, StageInvoke
<1>2. CASE Crash
  <2>1. \A r \in Requests : Stage(r) \in 0..LastStage /\ (Stage(r) = LastStage => pc[r] \in Finished)
    BY PositionValues DEF TypeOK, PathByLabel, Stage, LastStage, Label, Finished
  <2>2. \A r \in Requests : pc'[r] # pc[r] => pc[r] \notin Finished /\ pc'[r] \in Finished
    BY <1>2 DEF Crash, TypeOK, Finished
  <2>3. PathByLabel'
    BY <1>2 DEF Crash, PathByLabel, TypeOK, Finished, Starting, Serving
  <2> QED
    BY <2>1, <2>2, <2>3 DEF Stage, LastStage
<1>3. CASE UNCHANGED <<pc, path>>
  BY <1>3 DEF PathByLabel
<1>4. ASSUME \/ \E r \in Requests : ClientLeaves(r)
             \/ \E c \in Containers : Age(c)
             \/ SpleenScan
             \/ \E p \in Reapers : ReapStep(p)
             \/ \E k \in Cleanups : CleanupStep(k)
      PROVE  UNCHANGED <<pc, path>>
  BY <1>4 DEF ClientLeaves, Age, SpleenScan, ReapStep, Take, Stop, Delete,
              Remove, CleanupStep, CleanupFindsVersion, CleanupLists, CleanupEnds
<1>5. ASSUME \/ DeployDeactivates
             \/ \E v \in Versions : DeployCreates(v)
             \/ \E k \in Cleanups, v \in Versions : RollbackCommits(k, v)
             \/ UNCHANGED vars
      PROVE  UNCHANGED <<pc, path>>
  BY <1>5 DEF DeployDeactivates, DeployCreates, RollbackCommits, vars
<1> QED
  BY <1>1, <1>2, <1>3, <1>4, <1>5 DEF Next

\* FunctionInvoker.Invoke tries a free container once and a new one once: each of
\* its steps takes it further on the way to an answer, at most LastStage of them,
\* and no failure, reaper, deployment or other request ever sends it back.
THEOREM InvocationsAdvance == Spec => InvokeAdvances
<1>1. Init => PathByLabel
  BY DEF Init, PathByLabel, Finished, Starting, Serving
<1>2. TypeOK /\ PathByLabel /\ [Next]_vars
        => [\A r \in Requests : pc'[r] # pc[r] => Stage(r)' > Stage(r)]_vars
  BY StageNext
<1>3. TypeOK /\ PathByLabel /\ [Next]_vars => PathByLabel'
  BY StageNext
<1> QED
  BY <1>1, <1>2, <1>3, TypeCorrect, PTL DEF Spec, InvokeAdvances

-----------------------------------------------------------------------------
(* What reapers work on was born *)

\* No step makes a container new again.
LEMMA BornStays ==
  ASSUME TypeOK, [Next]_vars
  PROVE  \A c \in Containers : docker'[c] = "unborn" => docker[c] = "unborn"
<1> USE DEF TypeOK, rowVars, fnVars, invVars, reqVars, reapVars
<1>1. CASE \E r \in Requests : ResolveFunction(r) \/ InvokeStep(r)
  BY <1>1 DEF InvokeStep, ResolveFunction, CreateInvocation, AcquireFreeContainer,
              MarkInvocationRunning, InvokeContainer, DeleteFailedContainer,
              RemoveFailedContainer, CompleteFailed, CompleteSuccess, PullImage,
              SpawnContainer, StartContainer, AwaitReady, AbandonContainer,
              InsertContainer
<1>2. CASE \E p \in Reapers : ReapStep(p)
  BY <1>2 DEF ReapStep, Take, Stop, Delete, Remove
<1>3. CASE \/ \E r \in Requests : ClientLeaves(r)
           \/ \E c \in Containers : Age(c)
           \/ SpleenScan
           \/ \E k \in Cleanups : CleanupStep(k)
  BY <1>3 DEF ClientLeaves, Age, SpleenScan, CleanupStep, CleanupFindsVersion,
              CleanupLists, CleanupEnds
<1>4. CASE \/ DeployDeactivates
           \/ \E v \in Versions : DeployCreates(v)
           \/ \E k \in Cleanups, v \in Versions : RollbackCommits(k, v)
           \/ Crash
           \/ UNCHANGED vars
  BY <1>4 DEF DeployDeactivates, DeployCreates, RollbackCommits, Crash, vars
<1> QED
  BY <1>1, <1>2, <1>3, <1>4 DEF Next

LEMMA ReapedInit == Init => ReapedAreBorn
  BY DEF Init, ReapedAreBorn, AtRest

\* A reaper takes from its queue, and the queues are filled from the table.
LEMMA ReapedNext ==
  ASSUME Ownership, ReapedAreBorn, [Next]_vars
  PROVE  ReapedAreBorn'
<1>t. TypeOK
  BY DEF Ownership
<1>b. \A c \in Containers : docker'[c] = "unborn" => docker[c] = "unborn"
  BY <1>t, BornStays
<1>n. \A c \in Containers : status[c] # "absent" => docker[c] # "unborn"
  BY DEF Ownership, UnbornUnused
<1> USE DEF rowVars, fnVars, invVars, reqVars, reapVars, ReapedAreBorn, TypeOK
<1>1. CASE \E r \in Requests : ResolveFunction(r) \/ InvokeStep(r)
  <2>1. UNCHANGED <<reaper, todo>>
    BY <1>1 DEF InvokeStep, ResolveFunction, CreateInvocation,
                AcquireFreeContainer, MarkInvocationRunning, InvokeContainer,
                DeleteFailedContainer, RemoveFailedContainer, CompleteFailed,
                CompleteSuccess, PullImage, SpawnContainer, StartContainer,
                AwaitReady, AbandonContainer, InsertContainer
  <2> QED
    BY <1>t, <1>b, <2>1
<1>2. CASE \E p \in Reapers : ReapStep(p)
  <2>1. PICK p \in Reapers : ReapStep(p)
    BY <1>2
  <2>2. CASE Take(p)
    <3>1. QueueOf(p) \in Cleanups \cup {Spleen}
      BY DEF QueueOf, Reapers
    <3>2. PICK c \in todo[QueueOf(p)] :
             /\ reaper' = [reaper EXCEPT ![p] = [step |-> "stop", target |-> c]]
             /\ todo' = [todo EXCEPT ![QueueOf(p)] = @ \ {c}]
      BY <2>2 DEF Take
    <3>3. c \in Containers /\ docker[c] # "unborn"
      BY <1>t, <3>1
    <3> QED
      BY <1>t, <1>b, <3>1, <3>2, <3>3, ContainerAssumption
  <2>3. CASE Stop(p)
    <3>1. /\ UNCHANGED todo /\ reaper[p].step = "stop"
          /\ \A q \in Reapers : reaper'[q].target = reaper[q].target
          /\ \A q \in Reapers : q # p => reaper'[q] = reaper[q]
      BY <2>3 DEF Stop
    <3> QED
      BY <1>t, <1>b, <3>1
  <2>4. CASE Delete(p)
    <3>1. /\ UNCHANGED todo /\ reaper[p].step = "delete"
          /\ \A q \in Reapers : reaper'[q].target = reaper[q].target
          /\ \A q \in Reapers : q # p => reaper'[q] = reaper[q]
      BY <2>4 DEF Delete
    <3> QED
      BY <1>t, <1>b, <3>1
  <2>5. CASE Remove(p)
    BY <1>t, <1>b, <2>5 DEF Remove, AtRest
  <2> QED
    BY <2>1, <2>2, <2>3, <2>4, <2>5 DEF ReapStep
<1>3. CASE SpleenScan
  BY <1>t, <1>b, <1>n, <1>3 DEF SpleenScan, Stale
<1>4. CASE \E k \in Cleanups : CleanupStep(k)
  BY <1>t, <1>b, <1>n, <1>4
     DEF CleanupStep, CleanupFindsVersion, CleanupLists, CleanupEnds, FreeFor
<1>5. CASE \/ \E r \in Requests : ClientLeaves(r)
           \/ \E c \in Containers : Age(c)
           \/ DeployDeactivates
           \/ \E v \in Versions : DeployCreates(v)
           \/ \E k \in Cleanups, v \in Versions : RollbackCommits(k, v)
           \/ UNCHANGED vars
  BY <1>t, <1>b, <1>5
     DEF ClientLeaves, Age, DeployDeactivates, DeployCreates, RollbackCommits, vars
<1>6. CASE Crash
  BY <1>t, <1>b, <1>6 DEF Crash, AtRest
<1> QED
  BY <1>1, <1>2, <1>3, <1>4, <1>5, <1>6 DEF Next

==============================================================================
