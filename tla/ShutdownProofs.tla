---------------------------- MODULE ShutdownProofs ----------------------------
(***************************************************************************)
(* What the shutdown guarantees for any number of requests, jobs,          *)
(* containers and workers, whatever calls and statements fail.             *)
(***************************************************************************)
EXTENDS Shutdown, PoolTrackingProofs, PoolLeasesProofs, FiniteSetTheorems

\* The requests, the spleen and the passing of time only do to the pool what
\* they do in ContainerPool.
LEMMA PoolStepIsNext ==
  ASSUME PoolRuns
  PROVE  [Next]_vars
<1>1. CASE \E r \in Requests : RequestRuns(r)
  BY <1>1 DEF RequestRuns, Next
<1>2. CASE SpleenCycle
  BY <1>2 DEF SpleenCycle, Next
<1>3. CASE \E p \in Workers : ReapStep(p)
  BY <1>3 DEF Next, Reapers
<1>4. CASE \E c \in Containers : Age(c)
  BY <1>4 DEF Next
<1>5. CASE UNCHANGED poolVars
  BY <1>5 DEF poolVars, vars
<1> QED
  BY <1>1, <1>2, <1>3, <1>4, <1>5 DEF PoolRuns, Begin, SpleenStops

\* What a step of main does to the pool: it stops or deletes a container, or
\* removes a row, or nothing.
LEMMA MainReaps ==
  ASSUME TypeOK, CloseSpleen \/ MainStep
  PROVE  /\ TypeOK'
         /\ UNCHANGED <<pc, held, inv, ran, fn, reaper, todo>>
         /\ \A c \in Containers : status'[c] \in {status[c], "absent"}
         /\ \A c \in Containers : status'[c] # "absent" => fnOf'[c] = fnOf[c]
         /\ \A c \in Containers : docker'[c] \in {docker[c], "stopped", "gone"}
         /\ \A c \in Containers : docker'[c] = "stopped" => docker[c] \in {"running", "stopped"}
<1> USE DEF poolVars, allButDocker, allButRows, rowVars, fnVars, invVars,
            reqVars, reapVars
<1>1. CASE UNCHANGED poolVars
  BY <1>1 DEF TypeOK
<1>2. CASE \E c \in Containers : StopContainer(c) \/ DeleteContainer(c)
  BY <1>2 DEF StopContainer, DeleteContainer, TypeOK, DockerState
<1>3. CASE \E c \in Containers : RemoveRow(c)
  <2>1. PICK c \in Containers : RemoveRow(c)
    BY <1>3
  <2>2. CASE DeleteRow(c)
    BY <2>1, <2>2 DEF RemoveRow, DeleteRow, TypeOK, RowStatus
  <2>3. CASE UNCHANGED rowVars
    BY <2>1, <2>3 DEF RemoveRow, TypeOK
  <2> QED
    BY <2>1, <2>2, <2>3 DEF RemoveRow
<1> QED
  BY <1>1, <1>2, <1>3
     DEF CloseSpleen, MainStep, StopScheduler, ShutdownServer, ListContainers,
         StopEnds, RelistContainers, DeleteEnds, ForgetDeleted, ForgetEnds,
         FindOrphans, SweepOrphan, SweepEnds

-----------------------------------------------------------------------------
(* Type correctness *)

LEMMA ShutdownTypeInit == ShutdownInit => ShutdownTypeOK /\ ResultsWhileDeleting
  BY DEF ShutdownInit, ShutdownTypeOK, Phases, Destroying, ResultsWhileDeleting

LEMMA ShutdownTypeNext ==
  ASSUME TypeOK, ShutdownTypeOK, ResultsWhileDeleting, [ShutdownNext]_allVars
  PROVE  ShutdownTypeOK' /\ ResultsWhileDeleting'
<1> USE DEF ShutdownTypeOK, ResultsWhileDeleting, Phases, Destroying, passVars,
            aside, Known, Running, Exited, Existing
<1>1. CASE PoolRuns
  BY <1>1 DEF PoolRuns, Begin, RequestRuns, SpleenCycle, SpleenStops, shutVars
<1>2. CASE CloseSpleen \/ StopScheduler \/ ShutdownServer
  BY <1>2 DEF CloseSpleen, StopScheduler, ShutdownServer
<1>3. CASE ListContainers
  BY <1>3 DEF ListContainers
<1>4. CASE \E c \in Containers : StopContainer(c)
  BY <1>4 DEF StopContainer
<1>5. CASE StopEnds
  BY <1>5 DEF StopEnds
<1>6. CASE RelistContainers
  BY <1>6 DEF RelistContainers
<1>7. CASE \E c \in Containers : DeleteContainer(c)
  BY <1>7 DEF DeleteContainer
<1>8. CASE DeleteEnds
  BY <1>8 DEF DeleteEnds
<1>9. CASE \E c \in Containers : ForgetDeleted(c) \/ SweepOrphan(c)
  BY <1>9 DEF ForgetDeleted, SweepOrphan, RemoveRow
<1>10. CASE ForgetEnds \/ FindOrphans \/ SweepEnds
  BY <1>10 DEF ForgetEnds, FindOrphans, SweepEnds
<1>11. CASE UNCHANGED allVars
  BY <1>11 DEF allVars, shutVars
<1> QED
  BY <1>1, <1>2, <1>3, <1>4, <1>5, <1>6, <1>7, <1>8, <1>9, <1>10, <1>11
     DEF ShutdownNext, MainStep

-----------------------------------------------------------------------------
(* Ownership survives the shutdown *)

LEMMA ShutdownOwnership ==
  ASSUME Ownership, [ShutdownNext]_allVars
  PROVE  Ownership'
<1>1. CASE PoolRuns
  BY <1>1, PoolStepIsNext, OwnershipNext
<1>2. CASE CloseSpleen \/ MainStep
  <2>1. TypeOK
    BY DEF Ownership
  <2> QED
    BY <1>2, <2>1, MainReaps, OwnershipReap
<1>3. CASE UNCHANGED allVars
  BY <1>3, OwnershipNext DEF allVars, poolVars, vars
<1> QED
  BY <1>1, <1>2, <1>3 DEF ShutdownNext

ShutdownSafe == Ownership /\ ShutdownTypeOK /\ ResultsWhileDeleting

LEMMA ShutdownSafeInvariant == ShutdownSpec => []ShutdownSafe
<1>1. ShutdownInit => ShutdownSafe
  BY OwnershipInit, ShutdownTypeInit DEF ShutdownInit, ShutdownSafe
<1>2. ShutdownSafe /\ [ShutdownNext]_allVars => ShutdownSafe'
  BY ShutdownOwnership, ShutdownTypeNext DEF ShutdownSafe, Ownership
<1> QED
  BY <1>1, <1>2, PTL DEF ShutdownSpec

\* Every variable of the shutdown always has its type, and what main is going
\* to stop or delete is in the last list of the daemon.
THEOREM ShutdownTypeCorrect == ShutdownSpec => []ShutdownTypeOK
<1>1. ShutdownSafe => ShutdownTypeOK
  BY DEF ShutdownSafe
<1> QED
  BY <1>1, ShutdownSafeInvariant, PTL

\* The shutdown deletes containers and rows under requests, jobs and the spleen,
\* and still no two requests ever have the same container.
THEOREM ExclusiveInShutdown == ShutdownSpec => []ExclusiveUse
<1>1. ShutdownSafe => ExclusiveUse
  BY DEF ShutdownSafe, Ownership
<1> QED
  BY <1>1, ShutdownSafeInvariant, PTL

-----------------------------------------------------------------------------
(* The wait for the requests *)

\* A goroutine that has returned does nothing any more, and one that has not
\* been started does nothing yet.
LEMMA ClosedStays ==
  ASSUME TypeOK, NewUntilBegun, [ShutdownNext]_allVars
  PROVE  /\ \A r \in Requests : Closed(r) => Closed(r)'
         /\ NewUntilBegun'
<1> USE DEF Closed, NewUntilBegun, Finished
<1>1. CASE \E r \in Requests : RequestRuns(r)
  <2>1. PICK r \in Requests : RequestRuns(r)
    BY <1>1
  <2>2. r \in begun /\ begun' = begun
    BY <2>1 DEF RequestRuns, shutVars, aside
  <2>3. CASE ClientLeaves(r)
    BY <2>2, <2>3 DEF ClientLeaves
  <2>4. CASE ResolveFunction(r) \/ InvokeStep(r)
    <3>1. /\ pc[r] \notin Finished
          /\ \A s \in Requests \ {r} : pc'[s] = pc[s]
      BY <2>4 DEF TypeOK, Goto, End, InvokeStep, ResolveFunction, CreateInvocation,
              AcquireFreeContainer, MarkInvocationRunning, InvokeContainer,
              DeleteFailedContainer, RemoveFailedContainer, CompleteFailed,
              CompleteSuccess, PullImage, SpawnContainer, StartContainer,
              AwaitReady, AbandonContainer, InsertContainer, reqVars
    <3> QED
      BY <2>2, <3>1
  <2> QED
    BY <2>1, <2>3, <2>4 DEF RequestRuns
<1>2. CASE \/ \E r \in Requests : Begin(r)
           \/ SpleenCycle \/ SpleenStops
           \/ \E p \in Workers : ReapStep(p) /\ UNCHANGED shutVars
           \/ \E c \in Containers : Age(c) /\ UNCHANGED shutVars
  <2>1. pc' = pc /\ begun \subseteq begun'
    BY <1>2 DEF Begin, SpleenCycle, SpleenScan, SpleenStops, ReapStep, Take, Stop,
                Delete, Remove, Age, poolVars, reqVars, shutVars, aside
  <2> QED
    BY <2>1
<1>3. CASE CloseSpleen \/ MainStep
  <2>1. pc' = pc
    BY <1>3, MainReaps
  <2>2. begun' = begun
    BY <1>3 DEF CloseSpleen, MainStep, StopScheduler, ShutdownServer, ListContainers,
         StopContainer, StopEnds, RelistContainers, DeleteContainer, DeleteEnds,
         RemoveRow, ForgetDeleted, ForgetEnds, FindOrphans, SweepOrphan, SweepEnds, aside
  <2> QED
    BY <2>1, <2>2
<1>4. CASE UNCHANGED allVars
  BY <1>4 DEF allVars, poolVars, reqVars, shutVars, aside
<1> QED
  BY <1>1, <1>2, <1>3, <1>4 DEF ShutdownNext, PoolRuns

Safe == ShutdownSafe /\ NewUntilBegun /\ HandlersAreDone

\* The wait for the handlers ends with all of them done, or its deadline is
\* recorded; afterwards none is started.
LEMMA HandlersNext ==
  ASSUME ShutdownTypeOK, HandlersAreDone, [ShutdownNext]_allVars,
         \A r \in Requests : Closed(r) => Closed(r)'
  PROVE  HandlersAreDone'
<1> USE DEF HandlersAreDone, Drained
<1>1. CASE ShutdownServer
  <2>1. /\ timedOut' = (InFlight \ Jobs # {}) /\ begun' = begun
    BY <1>1 DEF ShutdownServer
  <2>2. begun \subseteq Requests
    BY DEF ShutdownTypeOK
  <2> QED
    BY <2>1, <2>2 DEF InFlight
<1>2. CASE \E r \in Requests : Begin(r)
  <2>1. PICK r \in Requests : Begin(r)
    BY <1>2
  <2>2. /\ UNCHANGED <<main, timedOut, poolVars>> /\ begun' = begun \cup {r}
        /\ Drained => FALSE
    BY <2>1 DEF Begin
  <2> QED
    BY <2>2
<1>3. CASE \/ \E r \in Requests : RequestRuns(r)
           \/ SpleenCycle \/ SpleenStops
           \/ \E p \in Workers : ReapStep(p) /\ UNCHANGED shutVars
           \/ \E c \in Containers : Age(c) /\ UNCHANGED shutVars
           \/ UNCHANGED allVars
  <2>1. UNCHANGED <<main, begun, timedOut>>
    BY <1>3 DEF RequestRuns, SpleenCycle, SpleenStops, allVars, shutVars, aside
  <2> QED
    BY <2>1 DEF ShutdownTypeOK
<1>4. CASE CloseSpleen \/ StopScheduler
  BY <1>4 DEF CloseSpleen, StopScheduler
<1>5. CASE MainStep /\ ~ShutdownServer /\ ~StopScheduler
  <2>1. UNCHANGED <<begun, timedOut>> /\ Drained
    BY <1>5 DEF MainStep, ListContainers, StopContainer, StopEnds, RelistContainers,
                DeleteContainer, DeleteEnds, RemoveRow, ForgetDeleted, ForgetEnds,
                FindOrphans, SweepOrphan, SweepEnds, aside
  <2> QED
    BY <2>1 DEF ShutdownTypeOK
<1> QED
  BY <1>1, <1>2, <1>3, <1>4, <1>5 DEF ShutdownNext, PoolRuns

LEMMA SafeNext ==
  ASSUME Safe, [ShutdownNext]_allVars
  PROVE  Safe' /\ \A r \in Requests : Closed(r) => Closed(r)'
<1>1. TypeOK /\ ShutdownTypeOK /\ ShutdownSafe'
  BY ShutdownOwnership, ShutdownTypeNext DEF Safe, ShutdownSafe, Ownership
<1>2. NewUntilBegun' /\ \A r \in Requests : Closed(r) => Closed(r)'
  BY <1>1, ClosedStays DEF Safe
<1> QED
  BY <1>1, <1>2, HandlersNext DEF Safe

LEMMA SafeInvariant == ShutdownSpec => []Safe
<1>1. ShutdownInit => Safe
  BY OwnershipInit, ShutdownTypeInit
     DEF ShutdownInit, Safe, ShutdownSafe, Init, NewUntilBegun, HandlersAreDone, Drained
<1>2. Safe /\ [ShutdownNext]_allVars => Safe'
  BY SafeNext
<1> QED
  BY <1>1, <1>2, PTL DEF ShutdownSpec

\* Nobody but a scheduled job loses its container to the shutdown, unless the
\* wait for the requests was cut short.
THEOREM RequestsAreSpared == ShutdownSpec => []DrainedAreSpared
<1>1. Safe => DrainedAreSpared
  BY DEF Safe, ShutdownSafe, ShutdownTypeOK, NewUntilBegun, HandlersAreDone,
         DrainedAreSpared, Drained, Destroying, Closed, Finished, Using
<1> QED
  BY <1>1, SafeInvariant, PTL

-----------------------------------------------------------------------------
(* Containers that could not be stopped *)

\* Once nothing else is under way, time may pass, and that is all.
LEMMA OnlyTimePasses ==
  ASSUME TypeOK, ShutdownTypeOK, ReaperAssumption, QuietStays, quiet, PoolRuns
  PROVE  \E c \in Containers : Age(c) /\ UNCHANGED shutVars
<1> USE DEF QuietStays
<1>1. CASE \E r \in Requests : Begin(r)
  BY <1>1 DEF Begin, Drained
<1>2. CASE \E r \in Requests : RequestRuns(r)
  BY <1>2 DEF RequestRuns, Closed, Finished, ClientLeaves, InvokeStep,
              ResolveFunction, CreateInvocation,
              AcquireFreeContainer, MarkInvocationRunning, InvokeContainer,
              DeleteFailedContainer, RemoveFailedContainer, CompleteFailed,
              CompleteSuccess, PullImage, SpawnContainer, StartContainer,
              AwaitReady, AbandonContainer, InsertContainer
<1>3. CASE SpleenCycle \/ SpleenStops
  BY <1>3 DEF SpleenCycle, SpleenStops
<1>4. CASE \E p \in Workers : ReapStep(p) /\ UNCHANGED shutVars
  BY <1>4 DEF ReapStep, Take, Stop, Delete, Remove, SpleenIdle, AtRest, QueueOf
<1> QED
  BY <1>1, <1>2, <1>3, <1>4 DEF PoolRuns

\* It stays so.
LEMMA QuietNext ==
  ASSUME TypeOK, ShutdownTypeOK, QuietStays, [ShutdownNext]_allVars,
         \A r \in Requests : Closed(r) => Closed(r)'
  PROVE  QuietStays'
<1>1. CASE ShutdownServer
  <2>1. /\ quiet' = (InFlight = {} /\ spleen = "off") /\ main' = "list"
        /\ UNCHANGED <<spleen, begun, pc, todo, reaper>>
    BY <1>1 DEF ShutdownServer, poolVars, reapVars, reqVars
  <2> QED
    BY <2>1 DEF QuietStays, InFlight, Closed, Drained, SpleenIdle
<1>2. CASE PoolRuns
  <2>1. quiet' = quiet
    BY <1>2 DEF PoolRuns, Begin, RequestRuns, SpleenCycle, SpleenStops, shutVars, aside
  <2>2. CASE quiet
    <3>1. \E c \in Containers : Age(c) /\ UNCHANGED shutVars
      BY <1>2, <2>2, OnlyTimePasses, ReaperAssumption
    <3> QED
      BY <3>1 DEF Age, shutVars, aside, reqVars, reapVars, QuietStays, Drained, Closed, SpleenIdle
  <2>3. CASE ~quiet
    <3>1. CASE spleen # "off" /\ ~SpleenStops
      <4>1. spleen' = spleen
        BY <1>2, <3>1 DEF PoolRuns, Begin, RequestRuns, SpleenCycle, shutVars, aside
      <4> QED
        BY <2>1, <2>3, <3>1, <4>1 DEF QuietStays
    <3>2. CASE SpleenStops
      BY <2>1, <2>3, <3>2 DEF SpleenStops, poolVars, reapVars, QuietStays, SpleenIdle
    <3>3. CASE spleen = "off" /\ ~SpleenStops
      <4>1. UNCHANGED <<todo, reaper>>
        BY <1>2, <3>3
           DEF PoolRuns, Begin, RequestRuns, SpleenCycle, poolVars, reapVars, QuietStays,
               SpleenIdle, ReapStep, Take, Stop, Delete, Remove, AtRest, QueueOf, Age,
               ClientLeaves, InvokeStep, ResolveFunction, CreateInvocation,
               AcquireFreeContainer, MarkInvocationRunning, InvokeContainer,
               DeleteFailedContainer, RemoveFailedContainer, CompleteFailed,
               CompleteSuccess, PullImage, SpawnContainer, StartContainer,
               AwaitReady, AbandonContainer, InsertContainer
      <4> QED
        BY <2>1, <2>3, <3>3, <4>1 DEF QuietStays, SpleenIdle
    <3> QED
      BY <3>1, <3>2, <3>3
  <2> QED
    BY <2>2, <2>3 DEF ShutdownTypeOK
<1>3. CASE CloseSpleen \/ (MainStep /\ ~ShutdownServer)
  <2>1. UNCHANGED <<todo, reaper, pc>>
    BY <1>3, MainReaps
  <2>2. /\ UNCHANGED <<quiet, begun>>
        /\ spleen' = spleen \/ (spleen' = "closed" /\ ~Drained)
        /\ Drained => Drained'
    <3>1. CASE CloseSpleen \/ StopScheduler
      BY <3>1 DEF CloseSpleen, StopScheduler, Drained
    <3>2. CASE ListContainers \/ StopEnds \/ RelistContainers \/ DeleteEnds
      BY <3>2 DEF ListContainers, StopEnds, RelistContainers, DeleteEnds, aside, Drained
    <3>3. CASE ForgetEnds \/ FindOrphans \/ SweepEnds
      BY <3>3 DEF ForgetEnds, FindOrphans, SweepEnds, aside, Drained
    <3>4. CASE \E c \in Containers : StopContainer(c) \/ DeleteContainer(c)
                                        \/ ForgetDeleted(c) \/ SweepOrphan(c)
      BY <3>4 DEF StopContainer, DeleteContainer, ForgetDeleted, SweepOrphan,
                  RemoveRow, aside, Drained
    <3> QED
      BY <1>3, <3>1, <3>2, <3>3, <3>4 DEF MainStep
  <2> QED
    BY <2>1, <2>2 DEF QuietStays, Closed, SpleenIdle
<1>4. CASE UNCHANGED allVars
  BY <1>4 DEF allVars, poolVars, reqVars, reapVars, shutVars, aside, QuietStays,
              Drained, Closed, SpleenIdle
<1> QED
  BY <1>1, <1>2, <1>3, <1>4 DEF ShutdownNext

\* What main does with the lists, as long as nothing else changes the pool.
LEMMA RunningIsListedNext ==
  ASSUME TypeOK, ShutdownTypeOK, ResultsWhileDeleting, QuietStays,
         RunningIsListed, [ShutdownNext]_allVars
  PROVE  RunningIsListed'
<1> USE DEF RunningIsListed, Running
<1>1. CASE PoolRuns
  <2>1. CASE quiet
    <3>1. \E c \in Containers : Age(c) /\ UNCHANGED shutVars
      BY <1>1, <2>1, OnlyTimePasses, ReaperAssumption
    <3> QED
      BY <3>1 DEF Age, shutVars, passVars, aside
  <2>2. CASE ~quiet
    <3>1. quiet' = quiet
      BY <1>1 DEF PoolRuns, Begin, RequestRuns, SpleenCycle, SpleenStops, shutVars, aside
    <3> QED
      BY <2>2, <3>1
  <2> QED
    BY <2>1, <2>2 DEF ShutdownTypeOK
<1>2. CASE CloseSpleen \/ StopScheduler \/ ShutdownServer
  BY <1>2 DEF CloseSpleen, StopScheduler, ShutdownServer
<1>3. CASE ListContainers
  BY <1>3 DEF ListContainers
<1>4. CASE \E c \in Containers : StopContainer(c)
  BY <1>4 DEF StopContainer
<1>5. CASE StopEnds
  BY <1>5 DEF StopEnds
<1>6. CASE RelistContainers
  BY <1>6 DEF RelistContainers, Known, Exited, Existing, poolVars, aside, ResultsWhileDeleting
<1>7. CASE \E c \in Containers : DeleteContainer(c)
  <2>1. PICK c \in Containers : DeleteContainer(c)
    BY <1>7
  <2>2. /\ main = "delete" /\ c \in work
        /\ UNCHANGED <<main, listed, blind, quiet>>
        /\ work' \cup results' = work \cup results
        /\ \A d \in Containers : docker'[d] = "running" => docker[d] = "running"
    BY <2>1 DEF DeleteContainer, aside, TypeOK
  <2> QED
    BY <2>2
<1>8. CASE DeleteEnds
  BY <1>8 DEF DeleteEnds, poolVars, aside
<1>9. CASE \E c \in Containers : ForgetDeleted(c) \/ SweepOrphan(c)
  <2>1. /\ UNCHANGED <<main, docker, listed, results, blind, quiet>>
        /\ work' \subseteq work
    BY <1>9 DEF ForgetDeleted, SweepOrphan, RemoveRow, allButRows, aside
  <2> QED
    BY <2>1
<1>10. CASE ForgetEnds
  BY <1>10 DEF ForgetEnds, poolVars, passVars, aside
<1>11. CASE FindOrphans
  BY <1>11 DEF FindOrphans, poolVars, aside
<1>12. CASE SweepEnds
  BY <1>12 DEF SweepEnds
<1>13. CASE UNCHANGED allVars
  BY <1>13 DEF allVars, poolVars, shutVars, passVars, aside
<1> QED
  BY <1>1, <1>2, <1>3, <1>4, <1>5, <1>6, <1>7, <1>8, <1>9, <1>10, <1>11, <1>12,
     <1>13 DEF ShutdownNext, MainStep

QuietSafe == Safe /\ QuietStays /\ RunningIsListed

LEMMA QuietSafeNext ==
  ASSUME QuietSafe, [ShutdownNext]_allVars
  PROVE  QuietSafe'
  BY SafeNext, QuietNext, RunningIsListedNext DEF QuietSafe, Safe, ShutdownSafe, Ownership

LEMMA QuietSafeInvariant == ShutdownSpec => []QuietSafe
<1>1. ShutdownInit => QuietStays /\ RunningIsListed
  BY DEF ShutdownInit, Init, QuietStays, RunningIsListed
<1>2. QuietSafe /\ [ShutdownNext]_allVars => QuietSafe'
  BY QuietSafeNext
<1> QED
  BY <1>1, <1>2, SafeInvariant, PTL DEF ShutdownSpec, QuietSafe

\* A container that runs on keeps its row, for the spleen of the next process.
THEOREM RunningStayKnown == ShutdownSpec => UnstoppedStayKnown
<1> DEFINE Kept == quiet /\ ~blind =>
                     \A c \in Containers :
                        docker[c] = "running" /\ status[c] # "absent" => status'[c] # "absent"
<1>1. QuietSafe /\ [ShutdownNext]_allVars => [Kept]_allVars
  <2> SUFFICES ASSUME QuietSafe, ShutdownNext, quiet, ~blind, NEW c \in Containers,
                      docker[c] = "running", status[c] # "absent"
               PROVE  status'[c] # "absent"
    OBVIOUS
  <2> USE DEF QuietSafe, Safe, ShutdownSafe, Ownership, RunningIsListed, Running
  <2>1. CASE PoolRuns
    <3>1. \E d \in Containers : Age(d)
      BY <2>1, OnlyTimePasses, ReaperAssumption
    <3> QED
      BY <3>1 DEF Age
  <2>2. CASE \E d \in Containers : ForgetDeleted(d) \/ SweepOrphan(d)
    <3>1. PICK d \in Containers : ForgetDeleted(d) \/ SweepOrphan(d)
      BY <2>2
    <3>2. d # c
      BY <3>1 DEF ForgetDeleted, SweepOrphan
    <3>3. DeleteRow(d) \/ UNCHANGED rowVars
      BY <3>1 DEF ForgetDeleted, SweepOrphan, RemoveRow
    <3> QED
      BY <3>2, <3>3 DEF DeleteRow, rowVars, TypeOK
  <2>3. CASE \/ CloseSpleen \/ StopScheduler \/ ShutdownServer
             \/ ListContainers \/ StopEnds \/ RelistContainers \/ DeleteEnds
             \/ ForgetEnds \/ FindOrphans \/ SweepEnds
             \/ \E d \in Containers : StopContainer(d) \/ DeleteContainer(d)
    BY <2>3 DEF CloseSpleen, StopScheduler, ShutdownServer, ListContainers,
                StopEnds, RelistContainers, DeleteEnds, ForgetEnds, FindOrphans,
                SweepEnds, StopContainer, DeleteContainer, poolVars, allButDocker, rowVars
  <2> QED
    BY <2>1, <2>2, <2>3 DEF ShutdownNext, MainStep
<1> QED
  BY <1>1, QuietSafeInvariant, PTL DEF ShutdownSpec, UnstoppedStayKnown

-----------------------------------------------------------------------------
(* What a shutdown that nothing disturbs leaves behind *)

\* Versions are as in ContainerPool, which only matters here for the rows that
\* starting containers do not have yet.
LEMMA ShutdownVersions ==
  ASSUME Ownership, VersionOfHeld, [ShutdownNext]_allVars
  PROVE  VersionOfHeld'
<1>1. CASE PoolRuns
  BY <1>1, PoolStepIsNext, VersionNext
<1>2. CASE CloseSpleen \/ MainStep
  <2>1. /\ UNCHANGED <<pc, held, fn>>
        /\ \A c \in Containers : status'[c] \in {status[c], "absent"}
        /\ \A c \in Containers : status'[c] # "absent" => fnOf'[c] = fnOf[c]
    BY <1>2, MainReaps DEF Ownership
  <2>2. \A r \in Requests : pc[r] \in Starting \cup Serving => held[r] \in Containers
    BY DEF Ownership, HeldByLabel, TypeOK
  <2> QED
    BY <2>1, <2>2 DEF VersionOfHeld
<1>3. CASE UNCHANGED allVars
  BY <1>3, VersionNext DEF allVars, poolVars, vars
<1> QED
  BY <1>1, <1>2, <1>3 DEF ShutdownNext

\* A step that inserts no row, deletes no container that has one, and of those
\* who are about to remove one stops nobody.
LEMMA RowsStayReal ==
  ASSUME RowsAreReal, UNCHANGED reaper,
         \A c \in Containers : status'[c] # "absent" =>
            \/ status[c] # "absent" /\ docker'[c] = docker[c]
            \/ docker'[c] = "running",
         \A r \in Requests : pc[r] = "forget" =>
            pc'[r] = "forget" /\ held'[r] = held[r]
  PROVE  RowsAreReal'
  BY DEF RowsAreReal

\* One step of a request leaves no row without a container, unless somebody is
\* about to remove it.
LEMMA RowsInvoke ==
  ASSUME Ownership, VersionOfHeld, StartingIsLive, RowsAreReal, ~DbFails,
         NEW r \in Requests, ResolveFunction(r) \/ InvokeStep(r)
  PROVE  RowsAreReal'
<1>t. TypeOK
  BY DEF Ownership
<1>h. pc[r] \in Starting \cup Serving => held[r] \in Containers
  BY <1>t DEF Ownership, HeldByLabel, TypeOK
<1> USE ContainerAssumption
    DEF TypeOK, rowVars, fnVars, invVars, reqVars, reapVars, Goto, End
<1>1. CASE ResolveFunction(r)
  BY <1>1, <1>t, RowsStayReal DEF ResolveFunction
<1>2. CASE CreateInvocation(r)
  BY <1>2, <1>t, RowsStayReal DEF CreateInvocation
<1>3. CASE AcquireFreeContainer(r)
  <2>1. \A c \in Containers : status'[c] # "absent" => status[c] # "absent"
    BY <1>3, <1>t DEF AcquireFreeContainer, MostRecent, FreeFor
  <2>2. /\ UNCHANGED <<docker, reaper>>
        /\ \A s \in Requests : pc[s] = "forget" => pc'[s] = "forget" /\ held'[s] = held[s]
    BY <1>3, <1>t DEF AcquireFreeContainer
  <2> QED
    BY <2>1, <2>2, RowsStayReal
<1>4. CASE MarkInvocationRunning(r)
  BY <1>4, <1>t, RowsStayReal DEF MarkInvocationRunning
<1>5. CASE InvokeContainer(r)
  BY <1>5, <1>t, RowsStayReal DEF InvokeContainer
<1>6. CASE DeleteFailedContainer(r)
  <2>1. /\ pc[r] = "drop" /\ pc' = [pc EXCEPT ![r] = "forget"]
        /\ UNCHANGED <<status, held, reaper>>
        /\ docker' = [docker EXCEPT ![held[r]] = "gone"] \/ docker' = docker
    BY <1>6 DEF DeleteFailedContainer
  <2>2. \A c \in Containers : \/ docker'[c] = docker[c]
                              \/ c = held[r] /\ docker'[c] = "gone"
    BY <1>t, <2>1
  <2>3. /\ pc'[r] = "forget" /\ held'[r] = held[r]
        /\ \A s \in Requests : pc[s] = "forget" => pc'[s] = "forget" /\ held'[s] = held[s]
    BY <1>t, <2>1
  <2> QED
    BY <2>1, <2>2, <2>3 DEF RowsAreReal
<1>7. CASE RemoveFailedContainer(r)
  <2>1. /\ pc[r] = "forget" /\ held[r] \in Containers /\ UNCHANGED <<docker, held, reaper>>
        /\ status' = [status EXCEPT ![held[r]] = "absent"]
        /\ pc' = [pc EXCEPT ![r] = "fail"]
    BY <1>7, <1>h DEF RemoveFailedContainer, DeleteRow, Serving
  <2>2. \A c \in Containers : status'[c] # "absent" => c # held[r] /\ status[c] # "absent"
    BY <1>t, <2>1
  <2>3. \A s \in Requests : s # r => pc'[s] = pc[s] /\ held'[s] = held[s]
    BY <1>t, <2>1
  <2> QED
    BY <2>1, <2>2, <2>3 DEF RowsAreReal
<1>8. CASE CompleteFailed(r)
  BY <1>8, <1>t, RowsStayReal DEF CompleteFailed
<1>9. CASE CompleteSuccess(r)
  <2>1. \A c \in Containers : status'[c] # "absent" => status[c] # "absent"
    BY <1>9, <1>t DEF CompleteSuccess, FreeRow
  <2>2. /\ UNCHANGED <<docker, reaper>>
        /\ \A s \in Requests : pc[s] = "forget" => pc'[s] = "forget" /\ held'[s] = held[s]
    BY <1>9, <1>t DEF CompleteSuccess
  <2> QED
    BY <2>1, <2>2, RowsStayReal
<1>10. CASE PullImage(r)
  BY <1>10, <1>t, RowsStayReal DEF PullImage
<1>11. CASE SpawnContainer(r)
  <2>1. \A c \in Containers : status[c] # "absent" => docker'[c] = docker[c]
    BY <1>11, <1>t DEF SpawnContainer, Ownership, UnbornUnused
  <2> QED
    BY <1>11, <1>t, <2>1, RowsStayReal DEF SpawnContainer
<1>12. CASE StartContainer(r)
  <2>1. \A c \in Containers : docker'[c] \in {docker[c], "running"}
    BY <1>12, <1>t DEF StartContainer
  <2> QED
    BY <1>12, <1>t, <2>1, RowsStayReal DEF StartContainer
<1>13. CASE AwaitReady(r)
  BY <1>13, <1>t, RowsStayReal DEF AwaitReady
<1>14. CASE AbandonContainer(r)
  <2>1. \A c \in Containers : status[c] # "absent" => docker'[c] = docker[c]
    BY <1>14, <1>t, <1>h DEF AbandonContainer, VersionOfHeld, Starting
  <2> QED
    BY <1>14, <1>t, <2>1, RowsStayReal DEF AbandonContainer
<1>15. CASE InsertContainer(r)
  <2>1. \A c \in Containers : status'[c] # "absent" => status[c] # "absent" \/ docker[c] = "running"
    BY <1>15, <1>t, <1>h DEF InsertContainer, StartingIsLive, Starting
  <2> QED
    BY <1>15, <1>t, <2>1, RowsStayReal DEF InsertContainer
<1> QED
  BY <1>1, <1>2, <1>3, <1>4, <1>5, <1>6, <1>7, <1>8, <1>9, <1>10, <1>11,
     <1>12, <1>13, <1>14, <1>15 DEF InvokeStep

\* Whoever of the reapers deletes a container goes on to its row.
LEMMA GoneIsRemoved ==
  ASSUME TypeOK, NEW p \in Reapers, ReapStep(p), NEW c \in Containers,
         docker[c] # "gone", docker'[c] = "gone"
  PROVE  reaper'[p].step = "remove" /\ reaper'[p].target = c
<1>1. reaper[p].step = "delete" /\ reaper[p].target = c
      /\ reaper' = [reaper EXCEPT ![p] = [@ EXCEPT !.step = "remove"]]
  BY DEF ReapStep, Take, Stop, Delete, Remove, TypeOK
<1> QED
  BY <1>1 DEF TypeOK

\* The spleen deletes no container that is starting, and removes the row of
\* what it has deleted.
LEMMA SoundReap ==
  ASSUME Ownership, StartingUnreaped, StartingIsLive, NEW p \in Workers, ReapStep(p)
  PROVE  StartingIsLive' /\ (~DbFails /\ RowsAreReal => RowsAreReal')
<1>t. TypeOK /\ p \in Reapers
  BY DEF Ownership, Reapers
<1>h. \A r \in Requests : pc[r] \in Starting => held[r] \in Containers
  BY <1>t DEF Ownership, HeldByLabel, TypeOK
<1>w. \A q \in Workers : q \in Reapers
  BY DEF Reapers
<1>1. /\ UNCHANGED <<pc, held>>
      /\ \A q \in Workers : q # p => reaper'[q] = reaper[q]
  BY <1>t, <1>w, ReaperSteps
<1>2. StartingIsLive'
  <2>1. \A r \in Requests : pc[r] \in Starting => docker'[held[r]] = docker[held[r]]
    BY <1>t, <1>h, ReaperSteps DEF StartingUnreaped
  <2> QED
    BY <1>1, <2>1 DEF StartingIsLive, Starting
<1>3. ASSUME ~DbFails, RowsAreReal PROVE RowsAreReal'
  <2> SUFFICES ASSUME NEW c \in Containers, status'[c] # "absent"
               PROVE  \/ docker'[c] \in {"running", "stopped"}
                      \/ docker'[c] = "gone" /\ \E q \in Workers :
                            reaper'[q].step = "remove" /\ reaper'[q].target = c
                      \/ docker'[c] = "gone" /\ \E r \in Requests :
                            held'[r] = c /\ pc'[r] = "forget"
    BY DEF RowsAreReal
  <2>1. status[c] # "absent" /\ (reaper[p].step = "remove" => reaper[p].target # c)
    BY <1>t, <1>3, ReaperSteps DEF TypeOK
  <2>2. docker'[c] \in {docker[c], "stopped", "gone"}
    BY <1>t, ReaperSteps
  <2>3. docker[c] = "gone" => docker'[c] = "gone"
    BY <1>t, ReaperSteps
  <2>4. docker[c] # "gone" /\ docker'[c] = "gone" =>
           reaper'[p].step = "remove" /\ reaper'[p].target = c
    BY <1>t, GoneIsRemoved
  <2> QED
    BY <1>1, <1>3, <2>1, <2>2, <2>3, <2>4 DEF RowsAreReal
<1> QED
  BY <1>2, <1>3

\* Until the wait for the requests ends, main touches no container and no row.
LEMMA SoundNext ==
  ASSUME Ownership, TypeOK', VersionOfHeld, StartingUnreaped, ShutdownTypeOK,
         SoundUntilDrained, [ShutdownNext]_allVars
  PROVE  SoundUntilDrained'
<1>t. TypeOK
  BY DEF Ownership
<1> SUFFICES ASSUME ~Drained'
             PROVE  StartingIsLive' /\ (DbFails \/ RowsAreReal')
  BY DEF SoundUntilDrained
<1> USE DEF reqVars, reapVars, rowVars
<1>1. CASE PoolRuns
  <2>1. ~Drained
    BY <1>1 DEF Drained, PoolRuns, Begin, RequestRuns, SpleenCycle, SpleenStops, shutVars
  <2>2. StartingIsLive /\ (DbFails \/ RowsAreReal)
    BY <2>1 DEF SoundUntilDrained
  <2>3. CASE \E r \in Requests : ResolveFunction(r) \/ InvokeStep(r)
    BY <2>2, <2>3, StartingInvoke, RowsInvoke
  <2>4. CASE \E p \in Workers : ReapStep(p)
    BY <2>2, <2>4, SoundReap
  <2>5. CASE SpleenScan
    <3>1. StartingIsLive'
      BY <2>2, <2>5 DEF SpleenScan, StartingIsLive
    <3> QED
      BY <2>2, <2>5, <3>1 DEF SpleenScan, RowsAreReal
  <2>6. CASE UNCHANGED <<docker, status, pc, held, todo, reaper>>
    BY <2>2, <2>6 DEF StartingIsLive, RowsAreReal
  <2>7. \/ \E r \in Requests : ResolveFunction(r) \/ InvokeStep(r)
        \/ \E p \in Workers : ReapStep(p)
        \/ SpleenScan
        \/ UNCHANGED <<docker, status, pc, held, todo, reaper>>
    BY <1>1 DEF PoolRuns, Begin, RequestRuns, SpleenCycle, SpleenStops, Age,
                ClientLeaves, poolVars
  <2> QED
    BY <2>3, <2>4, <2>5, <2>6, <2>7
<1>2. CASE CloseSpleen \/ StopScheduler \/ UNCHANGED allVars
  BY <1>2 DEF CloseSpleen, StopScheduler, allVars, shutVars, poolVars, Drained,
              SoundUntilDrained, StartingIsLive, RowsAreReal
<1>3. CASE MainStep /\ ~StopScheduler
  BY <1>3 DEF MainStep, ShutdownServer, ListContainers, StopContainer, StopEnds,
              RelistContainers, DeleteContainer, DeleteEnds, RemoveRow, ForgetDeleted,
              ForgetEnds, FindOrphans, SweepOrphan, SweepEnds, Drained
<1> QED
  BY <1>1, <1>2, <1>3 DEF ShutdownNext

\* The containers, phase by phase.
LEMMA ContainersLeftNext ==
  ASSUME TypeOK, ShutdownTypeOK, QuietStays, RunningIsListed, ContainersLeft,
         [ShutdownNext]_allVars
  PROVE  ContainersLeft'
<1> USE DEF ContainersLeft, Running, Exited
<1>1. CASE PoolRuns
  <2>1. CASE quiet
    <3>1. \E c \in Containers : Age(c) /\ UNCHANGED shutVars
      BY <1>1, <2>1, OnlyTimePasses, ReaperAssumption
    <3> QED
      BY <3>1 DEF Age, shutVars, passVars, aside
  <2>2. CASE ~quiet
    <3>1. quiet' = quiet
      BY <1>1 DEF PoolRuns, Begin, RequestRuns, SpleenCycle, SpleenStops, shutVars, aside
    <3> QED
      BY <2>2, <3>1
  <2> QED
    BY <2>1, <2>2 DEF ShutdownTypeOK
<1>2. CASE CloseSpleen \/ StopScheduler \/ ShutdownServer
  BY <1>2 DEF CloseSpleen, StopScheduler, ShutdownServer
<1>3. CASE ListContainers
  BY <1>3 DEF ListContainers, poolVars
<1>4. CASE \E c \in Containers : StopContainer(c)
  BY <1>4 DEF StopContainer, aside, TypeOK
<1>5. CASE StopEnds
  BY <1>5 DEF StopEnds, poolVars, passVars, aside
<1>6. CASE RelistContainers
  BY <1>6 DEF RelistContainers, poolVars, aside
<1>7. CASE \E c \in Containers : DeleteContainer(c)
  BY <1>7 DEF DeleteContainer, aside, TypeOK
<1>8. CASE DeleteEnds
  BY <1>8 DEF DeleteEnds, poolVars, aside
<1>9. CASE \E c \in Containers : ForgetDeleted(c) \/ SweepOrphan(c)
  <2>1. /\ UNCHANGED <<main, docker, failed, blind, quiet>>
        /\ main \notin {"stop", "delete"}
    BY <1>9 DEF ForgetDeleted, SweepOrphan, RemoveRow, allButRows, aside
  <2> QED
    BY <2>1
<1>10. CASE ForgetEnds
  BY <1>10 DEF ForgetEnds, poolVars, passVars, aside
<1>11. CASE FindOrphans
  BY <1>11 DEF FindOrphans, poolVars, aside
<1>12. CASE SweepEnds
  BY <1>12 DEF SweepEnds
<1>13. CASE UNCHANGED allVars
  BY <1>13 DEF allVars, poolVars, shutVars, passVars, aside
<1> QED
  BY <1>1, <1>2, <1>3, <1>4, <1>5, <1>6, <1>7, <1>8, <1>9, <1>10, <1>11, <1>12,
     <1>13 DEF ShutdownNext, MainStep

\* The rows, phase by phase, when the database works.
LEMMA RowsLeftNext ==
  ASSUME Ownership, NewUntilBegun, ShutdownTypeOK, ResultsWhileDeleting, QuietStays,
         RunningIsListed, SoundUntilDrained, ContainersLeft, RowsLeft, ~DbFails,
         [ShutdownNext]_allVars
  PROVE  RowsLeft'
<1>t. TypeOK
  BY DEF Ownership
<1> USE DEF RowsLeft, Rows
<1>1. CASE PoolRuns
  <2>1. CASE quiet
    <3>1. \E c \in Containers : Age(c) /\ UNCHANGED shutVars
      BY <1>1, <1>t, <2>1, OnlyTimePasses, ReaperAssumption
    <3> QED
      BY <3>1 DEF Age, shutVars, passVars, aside
  <2>2. CASE ~quiet
    <3>1. quiet' = quiet
      BY <1>1 DEF PoolRuns, Begin, RequestRuns, SpleenCycle, SpleenStops, shutVars, aside
    <3> QED
      BY <2>2, <3>1
  <2> QED
    BY <2>1, <2>2 DEF ShutdownTypeOK
<1>2. CASE CloseSpleen \/ StopScheduler
  BY <1>2 DEF CloseSpleen, StopScheduler
<1>3. CASE ShutdownServer
  <2>1. SUFFICES ASSUME quiet' PROVE \A c \in Rows : docker[c] \in {"running", "stopped"}
    BY <1>3 DEF ShutdownServer, poolVars, rowVars
  <2>2. RowsAreReal /\ InFlight = {} /\ SpleenIdle
    BY <1>3, <2>1 DEF ShutdownServer, SoundUntilDrained, Drained, QuietStays
  <2>3. \A r \in Requests : pc[r] # "forget"
    BY <2>2 DEF InFlight, NewUntilBegun, Closed, Finished
  <2>4. \A p \in Workers : reaper[p].step # "remove"
    BY <2>2 DEF SpleenIdle, AtRest
  <2> QED
    BY <2>2, <2>3, <2>4 DEF RowsAreReal
<1>4. CASE ListContainers \/ StopEnds
  BY <1>4 DEF ListContainers, StopEnds, poolVars, rowVars, aside
<1>5. CASE \E c \in Containers : StopContainer(c)
  BY <1>5, <1>t DEF StopContainer, allButDocker, rowVars, aside, TypeOK
<1>6. CASE RelistContainers
  BY <1>6, <1>t DEF RelistContainers, poolVars, rowVars, aside, ContainersLeft, Exited, Running
<1>7. CASE \E c \in Containers : DeleteContainer(c)
  BY <1>7 DEF DeleteContainer, allButDocker, rowVars, aside
<1>8. CASE DeleteEnds
  BY <1>8 DEF DeleteEnds, poolVars, rowVars, aside
<1>9. CASE \E c \in Containers : ForgetDeleted(c) \/ SweepOrphan(c)
  <2>1. PICK c \in Containers : ForgetDeleted(c) \/ SweepOrphan(c)
    BY <1>9
  <2>2. /\ UNCHANGED <<main, quiet, failed, blind>>
        /\ main \in {"forget", "sweep"}
        /\ work' = work \ {c}
        /\ DeleteRow(c)
    BY <2>1 DEF ForgetDeleted, SweepOrphan, RemoveRow, aside
  <2>3. \A d \in Containers : status'[d] # "absent" => d # c /\ status[d] # "absent"
    BY <1>t, <2>2 DEF DeleteRow, TypeOK
  <2> QED
    BY <2>2, <2>3
<1>10. CASE ForgetEnds
  BY <1>10 DEF ForgetEnds, poolVars, rowVars, passVars, aside
<1>11. CASE FindOrphans \/ SweepEnds
  BY <1>11 DEF FindOrphans, SweepEnds, poolVars, rowVars, aside
<1>12. CASE UNCHANGED allVars
  BY <1>12 DEF allVars, poolVars, rowVars, shutVars, passVars, aside
<1> QED
  BY <1>1, <1>2, <1>3, <1>4, <1>5, <1>6, <1>7, <1>8, <1>9, <1>10, <1>11, <1>12
     DEF ShutdownNext, MainStep

\* Only the empty list and the end of the sweep end the shutdown well, and both
\* find nothing left.
LEMMA CleanExitNext ==
  ASSUME ShutdownTypeOK, ContainersLeft, DbFails \/ RowsLeft, CleanExit,
         [ShutdownNext]_allVars
  PROVE  CleanExit'
<1> USE DEF CleanExit, Running, Exited
<1>1. CASE ListContainers
  BY <1>1 DEF ListContainers, poolVars, rowVars, aside, Known, Existing, RowsLeft, Rows
<1>2. CASE SweepEnds
  BY <1>2 DEF SweepEnds, poolVars, rowVars, aside, ContainersLeft, RowsLeft, Rows
<1>3. CASE UNCHANGED allVars
  BY <1>3 DEF allVars, poolVars, rowVars, shutVars, passVars, aside
<1>4. CASE PoolRuns
  <2>1. main # "exited" /\ main' = main
    BY <1>4 DEF PoolRuns, Begin, RequestRuns, SpleenCycle, SpleenStops, shutVars
  <2> QED
    BY <2>1
<1>5. CASE CloseSpleen \/ (MainStep /\ ~ListContainers /\ ~SweepEnds)
  <2>1. main' # "exited"
    BY <1>5 DEF CloseSpleen, MainStep, StopScheduler, ShutdownServer, StopContainer,
                StopEnds, RelistContainers, DeleteContainer, DeleteEnds, RemoveRow,
                ForgetDeleted, ForgetEnds, FindOrphans, SweepOrphan
  <2> QED
    BY <2>1
<1> QED
  BY <1>1, <1>2, <1>3, <1>4, <1>5 DEF ShutdownNext

CleanSafe ==
  /\ QuietSafe /\ VersionOfHeld /\ ReapedAreBorn /\ StartingUnreaped
  /\ SoundUntilDrained /\ ContainersLeft /\ (DbFails \/ RowsLeft) /\ CleanExit

\* What reapers work on is born, in the shutdown as in the pool.
LEMMA ShutdownReaped ==
  ASSUME Ownership, ReapedAreBorn, [ShutdownNext]_allVars
  PROVE  ReapedAreBorn'
<1>1. CASE PoolRuns
  BY <1>1, PoolStepIsNext, ReapedNext
<1>2. CASE CloseSpleen \/ MainStep
  <2>1. /\ UNCHANGED <<reaper, todo>>
        /\ \A c \in Containers : docker'[c] \in {docker[c], "stopped", "gone"}
    BY <1>2, MainReaps DEF Ownership
  <2> QED
    BY <2>1 DEF ReapedAreBorn, Ownership, TypeOK
<1>3. CASE UNCHANGED allVars
  BY <1>3, ReapedNext DEF allVars, poolVars, vars
<1> QED
  BY <1>1, <1>2, <1>3 DEF ShutdownNext

\* Nor does main give a reaper a container that is starting.
LEMMA ShutdownUnreaped ==
  ASSUME Ownership, VersionOfHeld, ReapedAreBorn, StartingUnreaped, [ShutdownNext]_allVars
  PROVE  StartingUnreaped'
<1>1. CASE PoolRuns
  BY <1>1, PoolStepIsNext, UnreapedNext
<1>2. CASE CloseSpleen \/ MainStep
  <2>1. UNCHANGED <<pc, held, reaper, todo>>
    BY <1>2, MainReaps DEF Ownership
  <2> QED
    BY <2>1 DEF StartingUnreaped
<1>3. CASE UNCHANGED allVars
  BY <1>3, UnreapedNext DEF allVars, poolVars, vars
<1> QED
  BY <1>1, <1>2, <1>3 DEF ShutdownNext

LEMMA CleanSafeInit == ShutdownInit => CleanSafe
<1> SUFFICES ASSUME ShutdownInit PROVE CleanSafe
  OBVIOUS
<1>1. Safe
  BY OwnershipInit, ShutdownTypeInit
     DEF ShutdownInit, Safe, ShutdownSafe, Init, NewUntilBegun, HandlersAreDone, Drained
<1>2. QuietSafe
  BY <1>1 DEF ShutdownInit, Init, QuietSafe, QuietStays, RunningIsListed
<1>3. VersionOfHeld /\ ReapedAreBorn /\ StartingUnreaped
  BY ReapedInit, StartingInit DEF ShutdownInit, Init, VersionOfHeld, Starting, Serving
<1>4. SoundUntilDrained
  BY DEF ShutdownInit, Init, SoundUntilDrained, StartingIsLive, RowsAreReal, Starting
<1> QED
  BY <1>2, <1>3, <1>4 DEF CleanSafe, ShutdownInit, ContainersLeft, RowsLeft, CleanExit

\* A shutdown that nothing disturbs and that reports no failure leaves nothing
\* behind: the containers that ran are stopped and deleted, and every row is gone.
THEOREM CleanShutdown == ShutdownSpec => []CleanExit
<1>1. CleanSafe /\ [ShutdownNext]_allVars => CleanSafe'
  <2> SUFFICES ASSUME CleanSafe, [ShutdownNext]_allVars PROVE CleanSafe'
    OBVIOUS
  <2> USE DEF CleanSafe, QuietSafe, Safe, ShutdownSafe
  <2>1. Ownership /\ TypeOK
    BY DEF Ownership
  <2>2. QuietSafe' /\ TypeOK'
    BY QuietSafeNext DEF Ownership
  <2>3. VersionOfHeld' /\ ReapedAreBorn' /\ StartingUnreaped'
    BY <2>1, ShutdownVersions, ShutdownReaped, ShutdownUnreaped
  <2>4. SoundUntilDrained'
    BY <2>1, <2>2, SoundNext
  <2>5. ContainersLeft'
    BY <2>1, ContainersLeftNext
  <2>6. DbFails \/ RowsLeft'
    BY <2>1, RowsLeftNext
  <2>7. CleanExit'
    BY CleanExitNext
  <2> QED
    BY <2>2, <2>3, <2>4, <2>5, <2>6, <2>7
<1>2. CleanSafe => CleanExit
  BY DEF CleanSafe
<1> QED
  BY <1>1, <1>2, CleanSafeInit, PTL DEF ShutdownSpec

-----------------------------------------------------------------------------
(* The workers never wait *)

LEMMA ResultsAreDoneNext ==
  ASSUME ShutdownTypeOK, ResultsWhileDeleting, ResultsAreDone, [ShutdownNext]_allVars
  PROVE  ResultsAreDone'
<1> USE DEF ResultsAreDone, ResultsWhileDeleting, passVars
<1>1. CASE UNCHANGED <<work, results>>
  BY <1>1
<1>2. CASE ListContainers \/ RelistContainers \/ FindOrphans
  BY <1>2 DEF ListContainers, RelistContainers, FindOrphans
<1>3. CASE \E c \in Containers : StopContainer(c) \/ DeleteContainer(c)
                                    \/ ForgetDeleted(c) \/ SweepOrphan(c)
  BY <1>3 DEF StopContainer, DeleteContainer, ForgetDeleted, SweepOrphan, RemoveRow
<1>4. CASE DeleteEnds
  BY <1>4 DEF DeleteEnds
<1>5. CASE PoolRuns
  BY <1>1, <1>5 DEF PoolRuns, Begin, RequestRuns, SpleenCycle, SpleenStops, shutVars
<1>6. CASE \/ CloseSpleen \/ StopScheduler \/ ShutdownServer \/ StopEnds \/ ForgetEnds
           \/ SweepEnds \/ UNCHANGED allVars
  BY <1>1, <1>6 DEF CloseSpleen, StopScheduler, ShutdownServer, StopEnds, ForgetEnds,
                    SweepEnds, allVars, shutVars
<1> QED
  BY <1>2, <1>3, <1>4, <1>5, <1>6 DEF ShutdownNext, MainStep

\* A worker that deletes a container always finds room in deleteResultsCh for its
\* result, however many containers there are: nobody reads the channel before all
\* workers have ended, and none of them waits for that.  Every other step of main
\* is enabled by the phase and by work, so that this is why MainNeverStuck holds.
THEOREM ResultsHaveRoom ==
  ASSUME IsFiniteSet(Containers)
  PROVE  ShutdownSpec => [](main = "delete" /\ work # {} => Cardinality(results) < ResultRoom)
<1> DEFINE Room == main = "delete" /\ work # {} => Cardinality(results) < ResultRoom
<1>1. ShutdownInit => ResultsAreDone
  BY DEF ShutdownInit, ResultsAreDone
<1>2. ShutdownSafe /\ ResultsAreDone /\ [ShutdownNext]_allVars => ResultsAreDone'
  BY ResultsAreDoneNext DEF ShutdownSafe
<1>3. ShutdownSafe /\ ResultsAreDone => Room
  <2> SUFFICES ASSUME ShutdownTypeOK, ResultsAreDone, work # {}
               PROVE  Cardinality(results) < ResultRoom
    BY DEF ShutdownSafe
  <2>1. IsFiniteSet(work \cup results)
    BY FS_Subset DEF ShutdownTypeOK
  <2>2. results \subseteq work \cup results /\ results # work \cup results
    BY DEF ResultsAreDone
  <2>3. /\ Cardinality(results) <= Cardinality(work \cup results)
        /\ Cardinality(results) # Cardinality(work \cup results)
    BY <2>1, <2>2, FS_Subset
  <2>4. Cardinality(results) \in Nat /\ Cardinality(work \cup results) \in Nat
    BY <2>1, <2>2, FS_Subset, FS_CardinalityType
  <2> QED
    BY <2>3, <2>4 DEF ResultRoom
<1> HIDE DEF Room
<1>4. ShutdownSpec => []Room
  BY <1>1, <1>2, <1>3, ShutdownSafeInvariant, PTL DEF ShutdownSpec
<1> QED
  BY <1>4 DEF Room

-----------------------------------------------------------------------------
(* The steps that are left to main *)

LEMMA TurnValues ==
  /\ Turn("serving") = 0 /\ Turn("cron") = 1   /\ Turn("drain") = 2
  /\ Turn("list") = 3    /\ Turn("stop") = 4   /\ Turn("relist") = 5
  /\ Turn("delete") = 6  /\ Turn("forget") = 7 /\ Turn("orphans") = 8
  /\ Turn("sweep") = 9   /\ Turn("exited") = 10
  BY DEF Turn

\* A step of main or of a worker takes a container off the work of the phase, or
\* goes on to a later phase.
LEMMA MainGoesOn ==
  ASSUME CloseSpleen \/ MainStep
  PROVE  \/ main' = main /\ \E c \in work : work' = work \ {c}
         \/ Turn(main') > Turn(main)
<1> USE TurnValues
<1>1. CASE CloseSpleen \/ StopScheduler \/ ShutdownServer
  BY <1>1 DEF CloseSpleen, StopScheduler, ShutdownServer
<1>2. CASE ListContainers \/ StopEnds \/ RelistContainers \/ DeleteEnds
  BY <1>2 DEF ListContainers, StopEnds, RelistContainers, DeleteEnds
<1>3. CASE ForgetEnds \/ FindOrphans \/ SweepEnds
  BY <1>3 DEF ForgetEnds, FindOrphans, SweepEnds
<1>4. CASE \E c \in Containers : StopContainer(c) \/ DeleteContainer(c)
                                    \/ ForgetDeleted(c) \/ SweepOrphan(c)
  BY <1>4 DEF StopContainer, DeleteContainer, ForgetDeleted, SweepOrphan, RemoveRow
<1> QED
  BY <1>1, <1>2, <1>3, <1>4 DEF MainStep

\* A later phase makes up for all the work it may begin with.
LEMMA PhaseOutweighsWork ==
  ASSUME NEW n \in Nat, NEW v \in 0 .. n, NEW w \in 0 .. n,
         NEW s \in 0 .. 10, NEW t \in 0 .. 10, t > s
  PROVE  (10 - t) * (n + 1) + v < (10 - s) * (n + 1) + w
<1> DEFINE d == t - s
           m == n + 1
           x == 10 - t
<1>1. d \in Nat /\ d >= 1 /\ m \in Nat /\ x \in Nat /\ 10 - s = x + d
  OBVIOUS
<1>2. v < m /\ w \in Nat /\ v \in Nat
  OBVIOUS
<1> HIDE DEF d, m, x
<1>3. (x + d) * m = x * m + d * m /\ d * m \in Nat /\ x * m \in Nat
  BY <1>1
<1>4. d * m >= m
  <2>1. PICK e \in Nat : d = e + 1
    BY <1>1
  <2>2. d * m = e * m + m /\ e * m \in Nat
    BY <1>1, <2>1
  <2> QED
    BY <1>1, <2>2
<1>5. x * m + v < (x + d) * m + w
  BY <1>1, <1>2, <1>3, <1>4
<1> QED
  BY <1>1, <1>5 DEF m, x

\* Whatever fails, main and its workers take at most one step per phase and one
\* per phase and container: nothing is tried again, and nothing that the requests
\* and the spleen do in the meantime gives them more to do.
THEOREM ShutdownIsBounded ==
  ASSUME IsFiniteSet(Containers)
  PROVE  ShutdownSpec => ShutdownAdvances
<1> DEFINE Advance == StepsLeft' <= StepsLeft /\ (MainStep => StepsLeft' < StepsLeft)
<1>1. ShutdownSafe /\ ShutdownSafe' /\ [ShutdownNext]_allVars => [Advance]_allVars
  <2> SUFFICES ASSUME ShutdownTypeOK, ShutdownTypeOK', ShutdownNext
               PROVE  Advance
    BY DEF ShutdownSafe
  <2> DEFINE n == Cardinality(Containers)
  <2>1. n \in Nat
    BY FS_CardinalityType
  <2>2. /\ IsFiniteSet(work) /\ Cardinality(work) \in 0 .. n
        /\ Cardinality(work') \in 0 .. n
    BY <2>1, FS_Subset, FS_CardinalityType DEF ShutdownTypeOK
  <2>3. Turn(main) \in 0 .. 10 /\ Turn(main') \in 0 .. 10
    BY TurnValues DEF ShutdownTypeOK, Phases
  <2>4. StepsLeft \in Nat /\ StepsLeft' \in Nat
    <3>1. /\ StepsLeft = (10 - Turn(main)) * (n + 1) + Cardinality(work)
          /\ StepsLeft' = (10 - Turn(main')) * (n + 1) + Cardinality(work')
      BY DEF StepsLeft
    <3>2. \A s \in 0 .. 10, v \in Nat : (10 - s) * (n + 1) + v \in Nat
      BY <2>1
    <3>3. Cardinality(work) \in Nat /\ Cardinality(work') \in Nat
      BY <2>1, <2>2
    <3> HIDE DEF n
    <3> QED
      BY <2>3, <3>1, <3>2, <3>3
  <2>5. CloseSpleen \/ MainStep => StepsLeft' < StepsLeft
    <3> SUFFICES ASSUME CloseSpleen \/ MainStep PROVE StepsLeft' < StepsLeft
      OBVIOUS
    <3>1. CASE main' = main /\ \E c \in work : work' = work \ {c}
      <4>1. Cardinality(work') = Cardinality(work) - 1
        BY <2>2, <3>1, FS_RemoveElement
      <4> DEFINE k == (10 - Turn(main)) * (n + 1)
      <4>2. k \in Int /\ StepsLeft = k + Cardinality(work) /\ StepsLeft' = k + Cardinality(work')
        BY <2>1, <2>3, <3>1 DEF StepsLeft
      <4> HIDE DEF k
      <4> QED
        BY <2>2, <4>1, <4>2
    <3>2. CASE Turn(main') > Turn(main)
      BY <2>1, <2>2, <2>3, <3>2, PhaseOutweighsWork DEF StepsLeft
    <3> QED
      BY <3>1, <3>2, MainGoesOn
  <2>6. CASE PoolRuns
    <3>1. UNCHANGED <<main, work>>
      BY <2>6 DEF PoolRuns, Begin, RequestRuns, SpleenCycle, SpleenStops, shutVars, passVars
    <3>2. StepsLeft' = StepsLeft
      BY <3>1 DEF StepsLeft
    <3> QED
      BY <2>4, <2>5, <3>2
  <2>7. CASE CloseSpleen \/ MainStep
    BY <2>4, <2>5, <2>7
  <2> QED
    BY <2>6, <2>7 DEF ShutdownNext
<1> HIDE DEF Advance
<1>2. ShutdownSpec => [][Advance]_allVars
  BY <1>1, ShutdownSafeInvariant, PTL DEF ShutdownSpec
<1> QED
  BY <1>2 DEF ShutdownAdvances, Advance

-----------------------------------------------------------------------------
(* The leases in the shutdown *)

LEMMA WorkIsBornNext ==
  ASSUME TypeOK, ShutdownTypeOK, WorkIsBorn, [ShutdownNext]_allVars
  PROVE  WorkIsBorn'
<1> USE DEF WorkIsBorn, Destroying, passVars
<1>1. CASE main' \notin Destroying
  BY <1>1
<1>2. CASE ListContainers
  BY <1>2 DEF ListContainers, Running, poolVars
<1>3. CASE RelistContainers
  BY <1>3 DEF RelistContainers, Exited, poolVars
<1>4. CASE \E c \in Containers : StopContainer(c) \/ DeleteContainer(c)
  <2>1. PICK c \in Containers : StopContainer(c) \/ DeleteContainer(c)
    BY <1>4
  <2>2. UNCHANGED main /\ work' \subseteq work
    BY <2>1 DEF StopContainer, DeleteContainer
  <2>3. \A d \in Containers : docker'[d] = docker[d] \/ d \notin work'
    BY <2>1 DEF StopContainer, DeleteContainer, TypeOK
  <2>4. work' \subseteq Containers
    BY <2>2 DEF ShutdownTypeOK
  <2> QED
    BY <2>2, <2>3, <2>4
<1>5. CASE PoolRuns
  <2>1. UNCHANGED <<main, work>>
    BY <1>5 DEF PoolRuns, Begin, RequestRuns, SpleenCycle, SpleenStops, shutVars
  <2>2. \A c \in Containers : docker'[c] = "unborn" => docker[c] = "unborn"
    BY <1>5, PoolStepIsNext, BornStays
  <2> QED
    BY <2>1, <2>2 DEF ShutdownTypeOK
<1>6. CASE UNCHANGED allVars
  BY <1>6 DEF allVars, shutVars, poolVars
<1>7. CASE \/ CloseSpleen \/ StopScheduler \/ ShutdownServer \/ StopEnds \/ DeleteEnds
           \/ ForgetEnds \/ FindOrphans \/ SweepEnds
           \/ \E c \in Containers : ForgetDeleted(c) \/ SweepOrphan(c)
  BY <1>1, <1>7 DEF CloseSpleen, StopScheduler, ShutdownServer, StopEnds, DeleteEnds,
                    ForgetEnds, FindOrphans, SweepEnds, ForgetDeleted, SweepOrphan, RemoveRow
<1> QED
  BY <1>2, <1>3, <1>4, <1>5, <1>6, <1>7 DEF ShutdownNext, MainStep

\* A step of main retires a container that is free, or the leases do not see it.
LEMMA LeaseMain ==
  ASSUME Ownership, ShutdownTypeOK, WorkIsBorn, CloseSpleen \/ MainStep
  PROVE  [Lease!Next]_(Lease!leaseVars)
<1> USE DEF poolVars, allButDocker, allButRows, rowVars, reqVars
<1>t. TypeOK
  BY DEF Ownership
<1>1. CASE UNCHANGED <<held, docker, status>>
  BY <1>1, LeasesUnchanged
<1>2. CASE \E c \in Containers : StopContainer(c) \/ DeleteContainer(c)
  <2>1. PICK c \in Containers : StopContainer(c) \/ DeleteContainer(c)
    BY <1>2
  <2>2. docker[c] # "unborn"
    BY <2>1 DEF StopContainer, DeleteContainer, WorkIsBorn, Destroying
  <2>3. UNCHANGED <<held, status>>
    BY <2>1 DEF StopContainer, DeleteContainer
  <2>4. \A d \in Containers : docker'[d] = "unborn" <=> docker[d] = "unborn"
    BY <1>t, <2>1, <2>2 DEF StopContainer, DeleteContainer, TypeOK
  <2> QED
    BY <2>3, <2>4, LeasesUnchanged
<1>3. CASE \E c \in Containers : RemoveRow(c)
  <2>1. PICK c \in Containers : RemoveRow(c)
    BY <1>3
  <2> QED
    BY <1>1, <2>1, LeaseDeleteRow DEF RemoveRow
<1> QED
  BY <1>1, <1>2, <1>3
     DEF CloseSpleen, MainStep, StopScheduler, ShutdownServer, ListContainers,
         StopEnds, RelistContainers, DeleteEnds, ForgetDeleted, ForgetEnds,
         FindOrphans, SweepOrphan, SweepEnds

\* The pool implements the leases also while the process ends: what main stops,
\* deletes and forgets is to the requests that still run one more reaper.
THEOREM ShutdownImplementsLeases == ShutdownSpec => ImplementsLeases
<1> DEFINE Inv == ShutdownSafe /\ ReapedAreBorn /\ WorkIsBorn
<1>1. ShutdownInit => Inv
  BY OwnershipInit, ShutdownTypeInit, ReapedInit
  DEF ShutdownInit, ShutdownSafe, WorkIsBorn, Destroying
<1>2. Inv /\ [ShutdownNext]_allVars => Inv'
  BY ShutdownOwnership, ShutdownTypeNext, ShutdownReaped, WorkIsBornNext
  DEF ShutdownSafe, Ownership
<1>3. Inv /\ [ShutdownNext]_allVars => [Lease!Next]_(Lease!leaseVars)
  <2> SUFFICES ASSUME Ownership, ShutdownTypeOK, ReapedAreBorn, WorkIsBorn,
                      [ShutdownNext]_allVars
               PROVE  [Lease!Next]_(Lease!leaseVars)
    BY DEF ShutdownSafe
  <2>1. CASE PoolRuns
    BY <2>1, PoolStepIsNext, LeaseNext
  <2>2. CASE CloseSpleen \/ MainStep
    BY <2>2, LeaseMain
  <2>3. CASE UNCHANGED allVars
    BY <2>3, LeasesUnchanged DEF allVars, poolVars, reqVars, rowVars
  <2> QED
    BY <2>1, <2>2, <2>3 DEF ShutdownNext
<1>4. ShutdownInit => Lease!Init
  BY LeaseInit DEF ShutdownInit
<1> HIDE DEF Inv
<1> QED
  BY <1>1, <1>2, <1>3, <1>4, PTL DEF ShutdownSpec, ImplementsLeases, Lease!Spec

-----------------------------------------------------------------------------
(* What else of the pool the shutdown keeps *)

\* Requests and jobs that go on while containers are stopped and rows are deleted
\* under them are served by the version they resolved, and no two of them are
\* ever recorded as running in one container.
THEOREM ServedInShutdown ==
  ShutdownSpec => [](OneRunnerPerContainer /\ ServedByResolvedVersion)
<1> DEFINE Served == OneRunnerPerContainer /\ ServedByResolvedVersion
<1>1. ShutdownInit => VersionOfHeld
  BY DEF ShutdownInit, Init, VersionOfHeld, Starting, Serving
<1>2. ShutdownSafe /\ VersionOfHeld /\ [ShutdownNext]_allVars => VersionOfHeld'
  BY ShutdownVersions DEF ShutdownSafe
<1>3. ShutdownSafe /\ VersionOfHeld => Served
  BY DEF ShutdownSafe, Ownership, VersionOfHeld, ServedByResolvedVersion, Using, Serving
<1> HIDE DEF Served
<1>4. ShutdownSpec => []Served
  BY <1>1, <1>2, <1>3, ShutdownSafeInvariant, PTL DEF ShutdownSpec
<1> QED
  BY <1>4 DEF Served

\* What main does to the pool changes no record and moves no goroutine.
LEMMA RecordsInShutdown ==
  ASSUME TypeOK, [ShutdownNext]_allVars
  PROVE  [Next]_vars \/ UNCHANGED <<inv, ran, pc, path>>
<1>1. CASE PoolRuns
  BY <1>1, PoolStepIsNext
<1>2. CASE CloseSpleen \/ MainStep
  <2>1. CASE UNCHANGED poolVars
    BY <2>1 DEF poolVars, vars
  <2>2. CASE UNCHANGED allButDocker \/ UNCHANGED allButRows
    BY <2>2 DEF allButDocker, allButRows, invVars, reqVars
  <2> QED
    BY <1>2, <2>1, <2>2
       DEF CloseSpleen, MainStep, StopScheduler, ShutdownServer, ListContainers,
           StopContainer, StopEnds, RelistContainers, DeleteContainer, DeleteEnds,
           RemoveRow, ForgetDeleted, ForgetEnds, FindOrphans, SweepOrphan, SweepEnds
<1>3. CASE UNCHANGED allVars
  BY <1>3 DEF allVars, poolVars, vars
<1> QED
  BY <1>1, <1>2, <1>3 DEF ShutdownNext

\* A job that is still running when main stops its container has its failure, or
\* its success, recorded like every request that the shutdown waits for, as long as
\* the process lives and the database works; one whose container is stopped or
\* deleted before the first call stays pending, as without a shutdown.
THEOREM AnsweredInShutdown ==
  ASSUME ~DbFails
  PROVE  ShutdownSpec => []RecordOfAnswered
<1>1. ShutdownInit => RecordByLabel /\ RecordOfAnswered
  BY DEF ShutdownInit, Init, RecordByLabel, RecordOfAnswered, Starting, Serving
<1>2. ShutdownSafe /\ ShutdownSafe' /\ RecordByLabel /\ RecordOfAnswered
        /\ [ShutdownNext]_allVars => RecordByLabel' /\ RecordOfAnswered'
  <2> SUFFICES ASSUME Ownership, RecordByLabel, RecordOfAnswered,
                      [ShutdownNext]_allVars
               PROVE  RecordByLabel' /\ RecordOfAnswered'
    BY DEF ShutdownSafe
  <2>1. CASE [Next]_vars
    BY <2>1, RecordNext
  <2>2. CASE UNCHANGED <<inv, ran, pc, path>>
    BY <2>2 DEF RecordByLabel, RecordOfAnswered
  <2> QED
    BY <2>1, <2>2, RecordsInShutdown DEF Ownership
<1> QED
  BY <1>1, <1>2, ShutdownSafeInvariant, PTL DEF ShutdownSpec

\* No step of the shutdown sends a request or a job back: those that go on come
\* to their end in a bounded number of calls, and a success that was recorded
\* stays one.
THEOREM InvocationsAdvanceInShutdown == ShutdownSpec => InvokeAdvances /\ SuccessIsFinal
<1>1. ShutdownInit => PathByLabel /\ SuccessEnds
  BY DEF ShutdownInit, Init, PathByLabel, SuccessEnds, Finished, Starting, Serving
<1>2. ASSUME TypeOK, PathByLabel, SuccessEnds, [ShutdownNext]_allVars
      PROVE  /\ PathByLabel' /\ SuccessEnds'
             /\ [\A r \in Requests : pc'[r] # pc[r] => Stage(r)' > Stage(r)]_vars
             /\ [\A r \in Requests : inv[r] = "success" => inv'[r] = "success"]_vars
  <2>1. CASE [Next]_vars
    BY <1>2, <2>1, StageNext, SuccessNext
  <2>2. CASE UNCHANGED <<inv, ran, pc, path>>
    BY <1>2, <2>2 DEF PathByLabel, SuccessEnds
  <2> QED
    BY <1>2, <2>1, <2>2, RecordsInShutdown
<1>3. ShutdownSafe => TypeOK
  BY DEF ShutdownSafe, Ownership
<1> QED
  BY <1>1, <1>2, <1>3, ShutdownSafeInvariant, PTL
     DEF ShutdownSpec, InvokeAdvances, SuccessIsFinal

=============================================================================
