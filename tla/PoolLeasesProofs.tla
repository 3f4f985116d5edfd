-------------------------- MODULE PoolLeasesProofs --------------------------
(***************************************************************************)
(* ContainerPool implements Leases, for every value of its constants.  The *)
(* step of each action is found from Ownership, the inductive invariant of *)
(* ContainerPoolProofs: a free row is nobody's, and a container that does  *)
(* not exist yet has neither row nor user.                                 *)
(***************************************************************************)
EXTENDS PoolLeases, ContainerPoolProofs

\* The leases only see who has a container, which of them are born, and which
\* rows are free.
LEMMA LeasesUnchanged ==
  ASSUME UNCHANGED held,
         \A c \in Containers : docker'[c] = "unborn" <=> docker[c] = "unborn",
         \A c \in Containers : status'[c] = "free" <=> status[c] = "free"
  PROVE  UNCHANGED Lease!leaseVars
  BY DEF LeaseState, Lease!leaseVars

\* A request that lets go of its container without freeing the row.
LEMMA LeaseLost ==
  ASSUME Ownership, NEW r \in Requests,
         held' = [held EXCEPT ![r] = None],
         \A c \in Containers : docker'[c] = "unborn" <=> docker[c] = "unborn",
         \A c \in Containers : status'[c] = "free" <=> status[c] = "free"
  PROVE  [Lease!Next]_(Lease!leaseVars)
<1>1. LeaseState' = LeaseState
  BY DEF LeaseState
<1>2. CASE held[r] = None
  BY <1>1, <1>2 DEF Ownership, TypeOK, Lease!leaseVars
<1>3. CASE held[r] # None
  BY <1>1, <1>3 DEF Lease!Next, Lease!Release
<1> QED
  BY <1>2, <1>3

\* One step of a request.
LEMMA LeaseInvoke ==
  ASSUME Ownership, NEW r \in Requests, ResolveFunction(r) \/ InvokeStep(r)
  PROVE  [Lease!Next]_(Lease!leaseVars)
<1>t. TypeOK
  BY DEF Ownership
<1> USE DEF rowVars, fnVars, invVars, reqVars, reapVars, Goto, End
<1>1. CASE ResolveFunction(r)
  BY <1>1, LeasesUnchanged, LeaseLost DEF ResolveFunction
<1>2. CASE CreateInvocation(r)
  BY <1>2, LeasesUnchanged, LeaseLost DEF CreateInvocation
<1>3. CASE AcquireFreeContainer(r)
  <2>1. CASE UNCHANGED <<status, idle, held, path>>
    BY <1>3, <2>1, LeasesUnchanged DEF AcquireFreeContainer
  <2>2. CASE \E c \in MostRecent(FreeFor(fn[r])) :
                /\ status' = [status EXCEPT ![c] = "busy"]
                /\ held' = [held EXCEPT ![r] = c]
    <3>1. PICK c \in Containers :
                /\ status[c] = "free"
                /\ status' = [status EXCEPT ![c] = "busy"]
                /\ held' = [held EXCEPT ![r] = c]
      BY <2>2 DEF MostRecent, FreeFor
    <3>2. UNCHANGED docker /\ docker[c] # "unborn" /\ held[r] = None
      BY <1>3, <3>1 DEF Ownership, UnbornUnused, HeldByLabel, Starting, Serving, AcquireFreeContainer
    <3>3. LeaseState[c] # "out" /\ LeaseState' = [LeaseState EXCEPT ![c] = "out"]
      BY <3>1, <3>2, <1>t DEF LeaseState, TypeOK
    <3> QED
      BY <3>1, <3>2, <3>3 DEF Lease!Next, Lease!Take
  <2> QED
    BY <1>3, <2>1, <2>2 DEF AcquireFreeContainer
<1>4. CASE MarkInvocationRunning(r)
  BY <1>4, LeasesUnchanged, LeaseLost DEF MarkInvocationRunning
<1>5. CASE InvokeContainer(r)
  BY <1>5, LeasesUnchanged DEF InvokeContainer
<1>6. CASE DeleteFailedContainer(r)
  <2>1. docker[held[r]] # "unborn"
    BY <1>6, <1>t DEF DeleteFailedContainer, Ownership, UnbornUnused, HeldByLabel, Serving, TypeOK
  <2> QED
    BY <1>6, <1>t, <2>1, LeasesUnchanged DEF DeleteFailedContainer, TypeOK
<1>7. CASE RemoveFailedContainer(r)
  <2>1. status[held[r]] # "free"
    BY <1>7, <1>t DEF RemoveFailedContainer, Ownership, HeldNotFree, HeldByLabel, Serving, TypeOK
  <2> QED
    BY <1>7, <1>t, <2>1, LeasesUnchanged DEF RemoveFailedContainer, DeleteRow, TypeOK
<1>8. CASE CompleteFailed(r)
  BY <1>8, LeaseLost DEF CompleteFailed
<1>9. CASE CompleteSuccess(r)
  <2>1. UNCHANGED docker /\ held' = [held EXCEPT ![r] = None]
    BY <1>9 DEF CompleteSuccess
  <2>2. held[r] \in Containers /\ held[r] # None
    BY <1>9, <1>t DEF CompleteSuccess, Ownership, HeldByLabel, Serving, TypeOK
  <2>3. docker[held[r]] # "unborn"
    BY <2>2 DEF Ownership, UnbornUnused
  <2>4. CASE UNCHANGED status
    BY <2>1, <2>4, LeaseLost
  <2>5. CASE status' = [status EXCEPT ![held[r]] = "free"]
    <3>1. LeaseState' = [LeaseState EXCEPT ![held[r]] = "free"]
      BY <2>1, <2>2, <2>3, <2>5, <1>t DEF LeaseState, TypeOK
    <3> QED
      BY <2>1, <2>2, <3>1 DEF Lease!Next, Lease!Release
  <2> QED
    BY <1>9, <2>4, <2>5 DEF CompleteSuccess, FreeRow
<1>10. CASE PullImage(r)
  BY <1>10, LeasesUnchanged, LeaseLost DEF PullImage
<1>11. CASE SpawnContainer(r)
  <2>1. CASE UNCHANGED docker /\ held' = [held EXCEPT ![r] = None]
    BY <1>11, <2>1, LeaseLost DEF SpawnContainer
  <2>2. CASE \E c \in Containers :
                /\ docker[c] = "unborn"
                /\ docker' = [docker EXCEPT ![c] = "created"]
                /\ held' = [held EXCEPT ![r] = c]
    <3>1. PICK c \in Containers :
                /\ docker[c] = "unborn"
                /\ docker' = [docker EXCEPT ![c] = "created"]
                /\ held' = [held EXCEPT ![r] = c]
      BY <2>2
    <3>2. UNCHANGED status /\ status[c] = "absent" /\ held[r] = None
      BY <1>11, <3>1 DEF SpawnContainer, Ownership, UnbornUnused, HeldByLabel, Starting, Serving
    <3>3. LeaseState[c] # "out" /\ LeaseState' = [LeaseState EXCEPT ![c] = "out"]
      BY <3>1, <3>2, <1>t DEF LeaseState, TypeOK
    <3> QED
      BY <3>1, <3>2, <3>3 DEF Lease!Next, Lease!Take
  <2> QED
    BY <1>11, <2>1, <2>2 DEF SpawnContainer
<1>12. CASE StartContainer(r)
  <2>1. docker[held[r]] # "unborn"
    BY <1>12, <1>t DEF StartContainer, Ownership, UnbornUnused, HeldByLabel, Starting, TypeOK
  <2> QED
    BY <1>12, <1>t, <2>1, LeasesUnchanged, LeaseLost DEF StartContainer, TypeOK
<1>13. CASE AwaitReady(r)
  BY <1>13, LeasesUnchanged DEF AwaitReady
<1>14. CASE AbandonContainer(r)
  <2>1. docker[held[r]] # "unborn"
    BY <1>14, <1>t DEF AbandonContainer, Ownership, UnbornUnused, HeldByLabel, Starting, TypeOK
  <2> QED
    BY <1>14, <1>t, <2>1, LeaseLost DEF AbandonContainer, TypeOK
<1>15. CASE InsertContainer(r)
  <2>1. status[held[r]] # "free"
    BY <1>15, <1>t DEF InsertContainer, Ownership, HeldNotFree, HeldByLabel, Starting, TypeOK
  <2> QED
    BY <1>15, <1>t, <2>1, LeasesUnchanged DEF InsertContainer, TypeOK
<1> QED
  BY <1>1, <1>2, <1>3, <1>4, <1>5, <1>6, <1>7, <1>8, <1>9, <1>10, <1>11,
     <1>12, <1>13, <1>14, <1>15 DEF InvokeStep

\* Deleting a row retires a container that is free, and is not seen otherwise.
LEMMA LeaseDeleteRow ==
  ASSUME Ownership, NEW c, DeleteRow(c), UNCHANGED <<docker, held>>
  PROVE  [Lease!Next]_(Lease!leaseVars)
<1>1. CASE c \in Containers /\ status[c] = "free"
  <2>1. docker[c] # "unborn"
    BY <1>1 DEF Ownership, UnbornUnused
  <2>2. LeaseState[c] = "free" /\ LeaseState' = [LeaseState EXCEPT ![c] = "out"]
    BY <1>1, <2>1 DEF LeaseState, DeleteRow, Ownership, TypeOK
  <2> QED
    BY <1>1, <2>2 DEF Lease!Next, Lease!Retire
<1>2. CASE ~(c \in Containers /\ status[c] = "free")
  BY <1>2, LeasesUnchanged DEF DeleteRow, Ownership, TypeOK
<1> QED
  BY <1>1, <1>2

\* A reaper stops and deletes containers that were born.
LEMMA LeaseReap ==
  ASSUME Ownership, NEW p \in Reapers, ReapStep(p),
         reaper[p].step # "rest" => docker[reaper[p].target] # "unborn"
  PROVE  [Lease!Next]_(Lease!leaseVars)
<1> USE DEF rowVars, fnVars, invVars, reqVars, reapVars
<1>1. CASE Take(p)
  BY <1>1, LeasesUnchanged DEF Take
<1>2. CASE Stop(p)
  BY <1>2, LeasesUnchanged DEF Stop, Ownership, TypeOK
<1>3. CASE Delete(p)
  BY <1>3, LeasesUnchanged DEF Delete, Ownership, TypeOK
<1>4. CASE Remove(p)
  BY <1>4, LeasesUnchanged, LeaseDeleteRow DEF Remove
<1> QED
  BY <1>1, <1>2, <1>3, <1>4 DEF ReapStep

-----------------------------------------------------------------------------
(* The refinement *)

LEMMA LeaseInit == Init => Lease!Init
  BY ContainerAssumption DEF Init, Lease!Init, LeaseState

\* Every step.
LEMMA LeaseNext ==
  Ownership /\ ReapedAreBorn /\ [Next]_vars => [Lease!Next]_(Lease!leaseVars)
<1> SUFFICES ASSUME Ownership, ReapedAreBorn, [Next]_vars
             PROVE  [Lease!Next]_(Lease!leaseVars)
  OBVIOUS
<1> USE DEF rowVars, fnVars, invVars, reqVars, reapVars
<1>1. CASE \E r \in Requests : ResolveFunction(r) \/ InvokeStep(r)
  BY <1>1, LeaseInvoke
<1>2. CASE \E p \in Reapers : ReapStep(p)
  BY <1>2, LeaseReap DEF ReapedAreBorn
<1>3. CASE \/ \E r \in Requests : ClientLeaves(r)
           \/ \E c \in Containers : Age(c)
           \/ SpleenScan
           \/ \E k \in Cleanups : CleanupStep(k)
  BY <1>3, LeasesUnchanged
     DEF ClientLeaves, Age, SpleenScan, CleanupStep, CleanupFindsVersion,
         CleanupLists, CleanupEnds
<1>4. CASE \/ DeployDeactivates
           \/ \E v \in Versions : DeployCreates(v)
           \/ \E k \in Cleanups, v \in Versions : RollbackCommits(k, v)
           \/ UNCHANGED vars
  BY <1>4, LeasesUnchanged DEF DeployDeactivates, DeployCreates, RollbackCommits, vars
<1>5. CASE Crash
  BY <1>5 DEF Crash, Lease!Next, Lease!LoseAll, LeaseState
<1> QED
  BY <1>1, <1>2, <1>3, <1>4, <1>5 DEF Next

\* The pool implements the leases, for any number of requests, containers and
\* reapers: whatever order of statements, calls, failures and crashes the code
\* goes through, its requests see only what Leases allows.
THEOREM Implementation == Spec => ImplementsLeases
<1> QED
  BY ReapedInit, LeaseInit, LeaseNext, OwnershipInit, OwnershipNext, ReapedNext, PTL
     DEF Spec, ImplementsLeases, Lease!Spec

-----------------------------------------------------------------------------
(* What is abandoned stays abandoned *)

\* Nobody has it, and its row, if there is one, says that somebody does.
Abandoned(c) ==
    /\ docker[c] # "unborn" /\ status[c] # "free"
    /\ \A r \in Requests : held[r] # c

LEMMA AbandonedStep ==
  ASSUME TypeOK, [Lease!Next]_(Lease!leaseVars), NEW c \in Containers, Abandoned(c)
  PROVE  Abandoned(c)'
<1>1. LeaseState[c] = "out"
  BY DEF LeaseState, Abandoned
<1>2. LeaseState'[c] = "out" /\ \A r \in Requests : held'[r] # c
  <2> USE <1>1 DEF TypeOK, Abandoned
  <2> DEFINE L == LeaseState
  <2>1. L \in [Containers -> {"new", "free", "out"}]
    BY DEF LeaseState
  <2> HIDE DEF L
  <2>2. CASE \E r \in Requests, d \in Containers : Lease!Take(r, d)
    <3>1. PICK r \in Requests, d \in Containers : Lease!Take(r, d)
      BY <2>2
    <3>2. /\ L[d] # "out" /\ held' = [held EXCEPT ![r] = d]
          /\ L' = [L EXCEPT ![d] = "out"]
      BY <3>1 DEF Lease!Take, L
    <3>3. L[c] = "out"
      BY DEF L
    <3>4. d # c
      BY <3>2, <3>3
    <3>5. L'[c] = "out" /\ \A s \in Requests : held'[s] # c
      BY <2>1, <3>2, <3>3, <3>4
    <3> QED
      BY <3>5 DEF L
  <2>3. CASE \E r \in Requests : Lease!Release(r)
    <3>1. PICK r \in Requests : Lease!Release(r)
      BY <2>3
    <3>2. /\ held[r] # None /\ held' = [held EXCEPT ![r] = None]
          /\ L' = [L EXCEPT ![held[r]] = "free"] \/ L' = L
      BY <3>1 DEF Lease!Release, L
    <3>3. L[c] = "out"
      BY DEF L
    <3>4. held[r] # c
      OBVIOUS
    <3>5. L'[c] = "out" /\ \A s \in Requests : held'[s] # c
      BY <2>1, <3>2, <3>3, <3>4, ContainerAssumption
    <3> QED
      BY <3>5 DEF L
  <2>4. CASE \E d \in Containers : Lease!Retire(d)
    <3>1. PICK d \in Containers : Lease!Retire(d)
      BY <2>4
    <3>2. L' = [L EXCEPT ![d] = "out"] /\ held' = held
      BY <3>1 DEF Lease!Retire, L
    <3>3. L[c] = "out"
      BY DEF L
    <3>4. L'[c] = "out" /\ \A s \in Requests : held'[s] # c
      BY <2>1, <3>2, <3>3
    <3> QED
      BY <3>4 DEF L
  <2>5. CASE Lease!LoseAll
    BY <2>5, ContainerAssumption DEF Lease!LoseAll
  <2>6. CASE UNCHANGED Lease!leaseVars
    BY <2>6 DEF Lease!leaseVars
  <2> QED
    BY <2>2, <2>3, <2>4, <2>5, <2>6 DEF Lease!Next
<1> QED
  BY <1>2 DEF LeaseState, Abandoned

\* Only who has a container, or just takes it, writes its row: but for the clock,
\* and those who delete it.
LEMMA RowOfOthers ==
  ASSUME TypeOK, [Next]_vars, NEW c \in Containers,
         \A r \in Requests : held[r] # c /\ held'[r] # c
  PROVE  \/ status'[c] = status[c] /\ idle'[c] \in {idle[c], TRUE}
         \/ status'[c] = "absent"
<1> USE DEF TypeOK, rowVars, fnVars, invVars, reqVars, reapVars
<1>1. CASE \E r \in Requests : ResolveFunction(r) \/ InvokeStep(r)
  <2>1. PICK r \in Requests : ResolveFunction(r) \/ InvokeStep(r)
    BY <1>1
  <2>2. CASE AcquireFreeContainer(r)
    <3>1. CASE UNCHANGED <<status, idle>>
      BY <3>1
    <3>2. ASSUME NEW d \in Containers,
                 status' = [status EXCEPT ![d] = "busy"],
                 idle' = [idle EXCEPT ![d] = FALSE],
                 held' = [held EXCEPT ![r] = d]
          PROVE  status'[c] = status[c] /\ idle'[c] = idle[c]
      BY <3>2
    <3> QED
      BY <2>2, <3>1, <3>2 DEF AcquireFreeContainer, MostRecent, FreeFor
  <2>3. CASE CompleteSuccess(r)
    BY <2>3 DEF CompleteSuccess, FreeRow
  <2>4. CASE RemoveFailedContainer(r)
    BY <2>4 DEF RemoveFailedContainer, DeleteRow
  <2>5. CASE InsertContainer(r)
    BY <2>5 DEF InsertContainer
  <2>6. CASE UNCHANGED <<status, idle>>
    BY <2>6
  <2> QED
    BY <2>1, <2>2, <2>3, <2>4, <2>5, <2>6
       DEF InvokeStep, ResolveFunction, CreateInvocation, MarkInvocationRunning,
           InvokeContainer, DeleteFailedContainer, CompleteFailed, PullImage,
           SpawnContainer, StartContainer, AwaitReady, AbandonContainer
<1>2. CASE \E p \in Reapers : ReapStep(p)
  BY <1>2 DEF ReapStep, Take, Stop, Delete, Remove, DeleteRow
<1>3. CASE \/ \E r \in Requests : ClientLeaves(r)
           \/ \E d \in Containers : Age(d)
           \/ SpleenScan
           \/ \E k \in Cleanups : CleanupStep(k)
  BY <1>3 DEF ClientLeaves, Age, SpleenScan, CleanupStep, CleanupFindsVersion,
              CleanupLists, CleanupEnds
<1>4. CASE \/ DeployDeactivates
           \/ \E v \in Versions : DeployCreates(v)
           \/ \E k \in Cleanups, v \in Versions : RollbackCommits(k, v)
           \/ Crash
           \/ UNCHANGED vars
  BY <1>4 DEF DeployDeactivates, DeployCreates, RollbackCommits, Crash, vars
<1> QED
  BY <1>1, <1>2, <1>3, <1>4 DEF Next

\* A container whose request failed, gave it up or died with the process while
\* the row was not free is never given to another one, before a restart or after:
\* no statement ever frees a row but the one of the request that has it.  Its row
\* grows old and stays old, so that every cycle of the spleen finds it until it
\* is removed: the safety half of RowsReclaimed.
THEOREM AbandonedForGood ==
  Spec => [][\A c \in Containers : Abandoned(c) =>
               /\ Abandoned(c)'
               /\ status'[c] \in {status[c], "absent"}
               /\ c \in Stale => c \in Stale' \/ status'[c] = "absent"]_vars
<1> DEFINE Stays(c) ==
              Abandoned(c) =>
                /\ Abandoned(c)'
                /\ status'[c] \in {status[c], "absent"}
                /\ c \in Stale => c \in Stale' \/ status'[c] = "absent"
<1>1. ASSUME Ownership, ReapedAreBorn, [Next]_vars, NEW c \in Containers, Abandoned(c)
      PROVE  Stays(c)
  <2>1. TypeOK
    BY <1>1 DEF Ownership
  <2>2. Abandoned(c)'
    BY <1>1, <2>1, LeaseNext, AbandonedStep
  <2>3. \/ status'[c] = status[c] /\ idle'[c] \in {idle[c], TRUE}
        \/ status'[c] = "absent"
    BY <1>1, <2>1, <2>2, RowOfOthers DEF Abandoned
  <2> QED
    BY <2>2, <2>3 DEF Stale
<1>2. Ownership /\ ReapedAreBorn /\ [Next]_vars => [\A c \in Containers : Stays(c)]_vars
  BY <1>1
<1> HIDE DEF Stays
<1>3. Spec => [][\A c \in Containers : Stays(c)]_vars
  BY <1>2, ReapedInit, OwnershipInit, OwnershipNext, ReapedNext, PTL DEF Spec
<1> QED
  BY <1>3 DEF Stays

=============================================================================
