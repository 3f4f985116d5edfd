------------------------ MODULE FunctionVersionsProofs ------------------------
(***************************************************************************)
(* What FunctionVersions guarantees for every number of deployments,       *)
(* rollbacks and deletions, and whatever calls fail.                       *)
(***************************************************************************)
EXTENDS FunctionVersions, TLAPS

-----------------------------------------------------------------------------
(* Operators *)

\* Every past deployment has a number, which no other one has.
LEMMA PastNumbers ==
  ASSUME NEW d \in PastDeploys
  PROVE  PastNumber(d) \in DOMAIN Past /\ Past[PastNumber(d)] = d
BY DEF PastDeploys, PastNumber

LEMMA PastNumberType ==
  ASSUME NEW d \in PastDeploys
  PROVE  PastNumber(d) \in Nat
BY PastNumbers, DeployAssumption

\* The next version is a number, also of an empty table.
LEMMA NextVersionType ==
  ASSUME version \in [Deploys -> Nat]
  PROVE  NextVersion \in Nat
<1>1. Latest(Rows) \subseteq Deploys
  BY DEF Latest, Rows
<1>2. CASE Latest(Rows) = {}
  BY <1>2 DEF NextVersion
<1>3. CASE Latest(Rows) # {}
  <2>1. (CHOOSE d \in Latest(Rows) : TRUE) \in Deploys
    BY <1>1, <1>3
  <2> QED
    BY <2>1, <1>3 DEF NextVersion
<1> QED
  BY <1>2, <1>3

LEMMA MoveTagType ==
  ASSUME NEW table \in [Deploys -> SUBSET Nat], NEW v \in Nat, NEW d \in Deploys
  PROVE  MoveTag(table, v, d) \in [Deploys -> SUBSET Nat]
BY DEF MoveTag

LEMMA RollbackRowsType ==
  ASSUME NEW b \in Rollbacks, NEW a \in Deploys
  PROVE  RollbackRows(b, a) \subseteq Rows /\ Rows \subseteq Deploys
BY DEF RollbackRows, Latest, Rows

LEMMA TransitionType ==
  ASSUME TypeOK, NEW a \in Deploys, NEW v \in Nat, NEW q \in Rollbacks \cup {None}
  PROVE  Transition(a, v, q) \in Entry
BY DEF TypeOK, Transition, Entry

-----------------------------------------------------------------------------
(* Type correctness *)

LEMMA TypeOKInit == Init => TypeOK
<1> SUFFICES ASSUME Init PROVE TypeOK
  OBVIOUS
<1>1. \A d \in PastDeploys : PastNumber(d) \in Nat
  BY PastNumberType
<1>2. Len(Past) \in Nat
  BY DeployAssumption
<1>3. /\ status \in [Deploys -> RowStatus]
      /\ version \in [Deploys -> Nat]
      /\ created \in [Deploys -> Nat]
  BY <1>1 DEF Init, RowStatus
<1>4. /\ tags \in [Deploys -> SUBSET Nat]
      /\ localTags \in [Deploys -> SUBSET Nat]
  BY <1>1 DEF Init
<1> QED
  BY <1>2, <1>3, <1>4
  DEF Init, TypeOK, DeployLabel, RollbackLabel, DeleteLabel, Implicit

LEMMA TypeOKDeploy ==
  ASSUME TypeOK, NEW d \in Deploys, DeployBegins(d) \/ DeployStep(d)
  PROVE  TypeOK'
<1> USE DEF TypeOK, rowVars, imgVars, depVars, rbVars, delVars, DeployGoto, DeployLabel
<1>1. CASE DeployBegins(d)
  BY <1>1 DEF DeployBegins, Begins, Happens, Mishaps
<1>2. CASE BuildImage(d)
  BY <1>2 DEF BuildImage
<1>3. CASE TagImage(d)
  <2>1. NextVersion \in Nat
    BY NextVersionType
  <2>2. local \in Deploys => MoveTag(localTags, NextVersion, local) \in [Deploys -> SUBSET Nat]
    BY <2>1, MoveTagType
  <2> QED
    BY <1>3, <2>1, <2>2 DEF TagImage
<1>4. CASE PushImage(d)
  <2>1. built[d] \in Nat
    OBVIOUS
  <2>2. \A e \in Deploys : MoveTag(tags, built[d], e) \in [Deploys -> SUBSET Nat]
    BY <2>1, MoveTagType
  <2>3. tags' \in [Deploys -> SUBSET Nat]
    BY <1>4, <2>2 DEF PushImage
  <2>4. mishaps' \subseteq Mishaps
    BY <1>4 DEF PushImage, Happens, Mishaps
  <2> QED
    BY <1>4, <2>3, <2>4 DEF PushImage
<1>5. CASE RemoveImage(d)
  BY <1>5 DEF RemoveImage
<1>6. CASE NumberVersion(d)
  <2>1. NextVersion \in Nat
    BY NextVersionType
  <2> QED
    BY <1>6, <2>1 DEF NumberVersion
<1>7. CASE DeactivateFunctions(d)
  BY <1>7 DEF DeactivateFunctions, Rows, RowStatus
<1>8. CASE CreateFunction(d)
  <2>1. \A a \in Active : a \in Deploys /\ Transition(a, version[d], None) \in Entry
    BY TransitionType DEF Active
  <2>2. status' \in [Deploys -> RowStatus] /\ history' \subseteq Entry
    BY <1>8, <2>1 DEF CreateFunction, RowStatus
  <2> QED
    BY <1>8, <2>2 DEF CreateFunction
<1> QED
  BY <1>1, <1>2, <1>3, <1>4, <1>5, <1>6, <1>7, <1>8 DEF DeployStep

LEMMA TypeOKRollback ==
  ASSUME TypeOK, NEW b \in Rollbacks, CheckCooldown(b) \/ RollbackStep(b)
  PROVE  TypeOK'
<1> USE DEF TypeOK, rowVars, imgVars, depVars, rbVars, delVars,
            RollbackGoto, RollbackEnds, RollbackLabel, Implicit
<1>1. CASE CheckCooldown(b)
  BY <1>1 DEF CheckCooldown, Rows
<1>2. CASE ValidateTarget(b)
  BY <1>2 DEF ValidateTarget
<1>3. CASE CommitRollback(b)
  <2>1. CASE UNCHANGED <<status, history>> /\ RollbackEnds(b, "error")
    BY <1>3, <2>1 DEF CommitRollback
  <2>2. CASE /\ \E a \in Active : \E d \in RollbackRows(b, a) :
                   /\ status' = [status EXCEPT ![a] = "inactive", ![d] = "active"]
                   /\ history' = history \cup {Transition(a, version[d], b)}
                   /\ oldRow' = [oldRow EXCEPT ![b] = a]
             /\ RollbackGoto(b, "reread") /\ UNCHANGED target
    <3>. PICK a \in Active : \E d \in RollbackRows(b, a) :
             /\ status' = [status EXCEPT ![a] = "inactive", ![d] = "active"]
             /\ history' = history \cup {Transition(a, version[d], b)}
             /\ oldRow' = [oldRow EXCEPT ![b] = a]
      BY <2>2
    <3>0. PICK d \in RollbackRows(b, a) :
             /\ status' = [status EXCEPT ![a] = "inactive", ![d] = "active"]
             /\ history' = history \cup {Transition(a, version[d], b)}
             /\ oldRow' = [oldRow EXCEPT ![b] = a]
      OBVIOUS
    <3>1. a \in Deploys /\ d \in Deploys
      BY RollbackRowsType DEF Active
    <3>2. Transition(a, version[d], b) \in Entry
      BY <3>1, TransitionType
    <3>3. status' \in [Deploys -> RowStatus]
      BY <3>0, <3>1 DEF RowStatus
    <3>4. history' \subseteq Entry /\ oldRow' \in [Rollbacks -> Deploys \cup {None}]
      BY <3>0, <3>1, <3>2
    <3> QED
      BY <1>3, <2>2, <3>3, <3>4 DEF CommitRollback
  <2> QED
    BY <1>3, <2>1, <2>2 DEF CommitRollback
<1>4. CASE RereadActive(b)
  <2>1. cooling' \in BOOLEAN
    BY <1>4, Zenon DEF RereadActive
  <2> QED
    BY <1>4, <2>1 DEF RereadActive
<1>5. CASE RecordCleanup(b)
  <2>1. \A h \in Entry, result \in {"completed", "failed"} :
           [h EXCEPT !.cleanup = result] \in Entry
    BY DEF Entry
  <2>2. CASE UNCHANGED history
    BY <1>5, <2>2 DEF RecordCleanup, Happens, Mishaps
  <2>3. CASE \E result \in {"completed", "failed"} :
               history' = {IF h.fn = oldRow[b] /\ h.req = b
                           THEN [h EXCEPT !.cleanup = result] ELSE h : h \in history}
    <3>1. history' \subseteq Entry
      BY <2>1, <2>3
    <3> QED
      BY <1>5, <3>1 DEF RecordCleanup, Happens, Mishaps
  <2> QED
    BY <1>5, <2>2, <2>3 DEF RecordCleanup
<1> QED
  BY <1>1, <1>2, <1>3, <1>4, <1>5 DEF RollbackStep

LEMMA TypeOKDelete ==
  ASSUME TypeOK, NEW e \in Deletes, ListForDelete(e) \/ DeleteStep(e)
  PROVE  TypeOK'
<1> USE DEF TypeOK, rowVars, imgVars, depVars, rbVars, delVars, DeleteGoto, DeleteLabel
<1>1. CASE ListForDelete(e)
  <2>1. {version[d] : d \in Rows} \subseteq Nat
    BY DEF Rows
  <2> QED
    BY <1>1, <2>1 DEF ListForDelete, Begins, Happens, Mishaps
<1>2. CASE GetDigest(e)
  <2>1. doomed' \in [Deletes -> SUBSET (Nat \X Deploys)]
    BY <1>2 DEF GetDigest
  <2> QED
    BY <1>2, <2>1 DEF GetDigest
<1>3. CASE DeleteImage(e)
  <2>1. PICK found \in doomed[e] :
           /\ doomed' = [doomed EXCEPT ![e] = @ \ {found}]
           /\ \/ tags' = [tags EXCEPT ![found[2]] = {}] /\ UNCHANGED localTags
              \/ UNCHANGED <<tags, localTags>>
              \/ /\ localTags' = [c \in Deploys |-> localTags[c] \ {found[1]}]
                 /\ UNCHANGED tags
    BY <1>3 DEF DeleteImage
  <2>2. doomed' \in [Deletes -> SUBSET (Nat \X Deploys)]
    BY <2>1
  <2>3. tags' \in [Deploys -> SUBSET Nat] /\ localTags' \in [Deploys -> SUBSET Nat]
    BY <2>1
  <2> QED
    BY <1>3, <2>2, <2>3 DEF DeleteImage
<1>4. CASE DeleteRows(e)
  BY <1>4 DEF DeleteRows, Happens, Mishaps, RowStatus
<1> QED
  BY <1>1, <1>2, <1>3, <1>4 DEF DeleteStep

LEMMA TypeOKStep == TypeOK /\ [Next]_vars => TypeOK'
<1> SUFFICES ASSUME TypeOK, [Next]_vars PROVE TypeOK'
  OBVIOUS
<1>1. CASE \E d \in Deploys : DeployBegins(d) \/ DeployStep(d)
  BY <1>1, TypeOKDeploy
<1>2. CASE \E b \in Rollbacks : CheckCooldown(b) \/ RollbackStep(b)
  BY <1>2, TypeOKRollback
<1>3. CASE CooldownEnds
  BY <1>3 DEF CooldownEnds, TypeOK, rowVars, imgVars, depVars, delVars
<1>4. CASE \E e \in Deletes : ListForDelete(e) \/ DeleteStep(e)
  BY <1>4, TypeOKDelete
<1>5. CASE UNCHANGED vars
  BY <1>5 DEF vars, TypeOK, rowVars, imgVars, depVars, rbVars, delVars
<1> QED
  BY <1>1, <1>2, <1>3, <1>4, <1>5 DEF Next

\* Every variable keeps its type, whatever is deployed, rolled back or deleted.
THEOREM TypeCorrect == Spec => []TypeOK
<1>1. Init => TypeOK
  BY TypeOKInit
<1>2. TypeOK /\ [Next]_vars => TypeOK'
  BY TypeOKStep
<1> QED
  BY <1>1, <1>2, PTL DEF Spec

-----------------------------------------------------------------------------
(* One active version *)

\* The steps of the model by what they do to the status of the rows.
LEMMA StatusChanges ==
  ASSUME TypeOK, Next
  PROVE  \/ UNCHANGED status
         \/ \E d \in Deploys : DeactivateFunctions(d) \/ CreateFunction(d)
         \/ \E b \in Rollbacks : CommitRollback(b)
         \/ \E e \in Deletes : DeleteRows(e)
<1> USE DEF rowVars
<1>1. ASSUME NEW d \in Deploys, DeployBegins(d) \/ DeployStep(d)
      PROVE  UNCHANGED status \/ DeactivateFunctions(d) \/ CreateFunction(d)
  BY <1>1 DEF DeployStep, DeployBegins, BuildImage, TagImage, PushImage,
              RemoveImage, NumberVersion
<1>2. ASSUME NEW b \in Rollbacks, CheckCooldown(b) \/ RollbackStep(b)
      PROVE  UNCHANGED status \/ CommitRollback(b)
  BY <1>2 DEF RollbackStep, CheckCooldown, ValidateTarget, RereadActive, RecordCleanup
<1>3. ASSUME NEW e \in Deletes, ListForDelete(e) \/ DeleteStep(e)
      PROVE  UNCHANGED status \/ DeleteRows(e)
  BY <1>3 DEF DeleteStep, ListForDelete, GetDigest, DeleteImage
<1>4. CooldownEnds => UNCHANGED status
  BY DEF CooldownEnds
<1> QED
  BY <1>1, <1>2, <1>3, <1>4 DEF Next

\* What a rollback that commits does to the status: it moves "active" from the
\* active row a to another row d, and does nothing else.
LEMMA RollbackMovesActive ==
  ASSUME NEW b \in Rollbacks, CommitRollback(b)
  PROVE  \/ UNCHANGED status
         \/ \E a \in Active, d \in Rows :
               status' = [status EXCEPT ![a] = "inactive", ![d] = "active"]
<1>1. \A a \in Active : RollbackRows(b, a) \subseteq Rows
  BY RollbackRowsType DEF Active
<1> QED
  BY <1>1 DEF CommitRollback

LEMMA AtMostOneActiveInit == Init => AtMostOneActive
<1> SUFFICES ASSUME Init, NEW d \in Active, NEW e \in Active
             PROVE  d = e
  BY DEF AtMostOneActive
<1>1. d \in PastDeploys /\ e \in PastDeploys
  BY DEF Init, Active
<1>2. PastNumber(d) = Len(Past) /\ PastNumber(e) = Len(Past)
  BY <1>1 DEF Init, Active
<1> QED
  BY <1>1, <1>2, PastNumbers

LEMMA AtMostOneActiveStep ==
  ASSUME TypeOK, AtMostOneActive, [Next]_vars
  PROVE  AtMostOneActive'
<1> USE DEF AtMostOneActive, Active
<1>1. CASE UNCHANGED status
  BY <1>1
<1>2. ASSUME NEW d \in Deploys, DeactivateFunctions(d)
      PROVE  AtMostOneActive'
  <2>1. CASE status' = [e \in Deploys |-> IF e \in Rows THEN "inactive" ELSE "absent"]
    BY <2>1
  <2> QED
    BY <1>1, <1>2, <2>1 DEF DeactivateFunctions
<1>3. ASSUME NEW d \in Deploys, CreateFunction(d)
      PROVE  AtMostOneActive'
  <2>1. CASE Active = {} /\ status' = [status EXCEPT ![d] = "active"]
    BY <2>1 DEF TypeOK
  <2>2. CASE \E a \in Active :
                status' = [status EXCEPT ![a] = "inactive", ![d] = "active"]
    BY <2>2 DEF TypeOK
  <2> QED
    BY <1>1, <1>3, <2>1, <2>2 DEF CreateFunction
<1>4. ASSUME NEW b \in Rollbacks, CommitRollback(b)
      PROVE  AtMostOneActive'
  <2>1. CASE \E a \in Active, d \in Rows :
                status' = [status EXCEPT ![a] = "inactive", ![d] = "active"]
    BY <2>1 DEF TypeOK, Rows
  <2> QED
    BY <1>1, <1>4, <2>1, RollbackMovesActive
<1>5. ASSUME NEW e \in Deletes, DeleteRows(e)
      PROVE  AtMostOneActive'
  BY <1>5 DEF DeleteRows
<1>6. CASE Next
  BY <1>1, <1>2, <1>3, <1>4, <1>5, <1>6, StatusChanges
<1> QED
  BY <1>1, <1>6 DEF vars, rowVars

\* At most one version is active: DeactivateFunctions, CreateFunction and
\* RollbackToVersionWithID keep it so in whatever order they run.
THEOREM OneActive == Spec => []AtMostOneActive
<1>1. Init => TypeOK /\ AtMostOneActive
  BY TypeOKInit, AtMostOneActiveInit
<1>2. TypeOK /\ AtMostOneActive /\ [Next]_vars => (TypeOK /\ AtMostOneActive)'
  BY TypeOKStep, AtMostOneActiveStep
<1> QED
  BY <1>1, <1>2, PTL DEF Spec

-----------------------------------------------------------------------------
(* The gap without an active version *)

\* Which deployments are between their statements, or lost their row, changes
\* only with a step of such a deployment.
LEMMA GapChanges ==
  ASSUME TypeOK, Next
  PROVE  \/ \E d \in Deploys : DeactivateFunctions(d) \/ CreateFunction(d)
         \/ \A c \in Deploys :
               dpc[c] \in {"create", "lost"} => dpc'[c] \in {"create", "lost"}
<1> USE DEF depVars, DeployGoto
<1>1. ASSUME NEW d \in Deploys, DeployBegins(d) \/ DeployStep(d)
      PROVE  \/ DeactivateFunctions(d) \/ CreateFunction(d)
             \/ \A c \in Deploys :
                   dpc[c] \in {"create", "lost"} => dpc'[c] \in {"create", "lost"}
  <2>1. CASE DeactivateFunctions(d) \/ CreateFunction(d)
    BY <2>1
  <2>2. CASE \/ DeployBegins(d) \/ BuildImage(d) \/ TagImage(d) \/ PushImage(d)
             \/ RemoveImage(d) \/ NumberVersion(d)
    <3>1. dpc[d] \notin {"create", "lost"} /\ \E l : dpc' = [dpc EXCEPT ![d] = l]
      BY <2>2 DEF DeployBegins, BuildImage, TagImage, PushImage, RemoveImage, NumberVersion
    <3> QED
      BY <3>1 DEF TypeOK
  <2> QED
    BY <1>1, <2>1, <2>2 DEF DeployStep
<1>2. ASSUME NEW b \in Rollbacks, CheckCooldown(b) \/ RollbackStep(b)
      PROVE  UNCHANGED dpc
  BY <1>2 DEF RollbackStep, CheckCooldown, ValidateTarget, CommitRollback,
              RereadActive, RecordCleanup
<1>3. ASSUME NEW e \in Deletes, ListForDelete(e) \/ DeleteStep(e)
      PROVE  UNCHANGED dpc
  BY <1>3 DEF DeleteStep, ListForDelete, GetDigest, DeleteImage, DeleteRows
<1>4. CooldownEnds => UNCHANGED dpc
  BY DEF CooldownEnds
<1> QED
  BY <1>1, <1>2, <1>3, <1>4 DEF Next

LEMMA ServingInit == Init => ServingUnlessDeploying
<1> SUFFICES ASSUME Init, Rows # {} PROVE Active # {}
  BY DEF ServingUnlessDeploying
<1>1. Len(Past) \in DOMAIN Past
  <2>1. PICK d \in PastDeploys : TRUE
    BY DEF Init, Rows
  <2>2. DOMAIN Past # {}
    BY <2>1 DEF PastDeploys
  <2> QED
    BY <2>2, DeployAssumption
<1>2. Past[Len(Past)] \in PastDeploys
  BY <1>1 DEF PastDeploys
<1>3. Past[Len(Past)] \in Deploys
  BY <1>1, DeployAssumption
<1>4. PastNumber(Past[Len(Past)]) = Len(Past)
  BY <1>1, <1>2, PastNumbers, DeployAssumption
<1>5. status[Past[Len(Past)]] = "active"
  BY <1>2, <1>3, <1>4 DEF Init
<1> QED
  BY <1>3, <1>5 DEF Active

LEMMA ServingStep ==
  ASSUME TypeOK, ServingUnlessDeploying, [Next]_vars
  PROVE  ServingUnlessDeploying'
<1> USE DEF ServingUnlessDeploying
<1> DEFINE Gap == \E d \in Deploys : dpc[d] \in {"create", "lost"}
<1>1. ASSUME NEW d \in Deploys, DeactivateFunctions(d)
      PROVE  Gap'
  BY <1>1 DEF DeactivateFunctions, DeployGoto, TypeOK
<1>2. ASSUME NEW d \in Deploys, CreateFunction(d)
      PROVE  Gap' \/ Active' # {}
  <2>1. CASE dpc'[d] = "lost"
    BY <2>1
  <2>2. CASE status'[d] = "active"
    BY <2>2 DEF Active
  <2> QED
    BY <1>2, <2>1, <2>2 DEF CreateFunction, DeployGoto, TypeOK
<1>3. ASSUME NEW b \in Rollbacks, CommitRollback(b)
      PROVE  UNCHANGED status \/ Active' # {}
  <2>1. CASE \E a \in Active, d \in Rows :
                status' = [status EXCEPT ![a] = "inactive", ![d] = "active"]
    BY <2>1 DEF TypeOK, Active, Rows
  <2> QED
    BY <1>3, <2>1, RollbackMovesActive
<1>4. ASSUME NEW e \in Deletes, DeleteRows(e)
      PROVE  UNCHANGED status \/ Rows' = {}
  BY <1>4 DEF DeleteRows, Rows
<1>5. CASE Next
  <2>1. CASE \E d \in Deploys : DeactivateFunctions(d) \/ CreateFunction(d)
    BY <1>1, <1>2, <2>1
  <2>2. CASE \A c \in Deploys :
                dpc[c] \in {"create", "lost"} => dpc'[c] \in {"create", "lost"}
    <3>1. Gap => Gap'
      BY <2>2
    <3>2. CASE UNCHANGED status
      BY <3>1, <3>2 DEF Rows, Active
    <3>3. CASE Active' # {} \/ Rows' = {}
      BY <3>3
    <3> QED
      BY <1>1, <1>2, <1>3, <1>4, <1>5, <3>2, <3>3, StatusChanges
  <2> QED
    BY <1>5, <2>1, <2>2, GapChanges
<1>6. CASE UNCHANGED vars
  BY <1>6 DEF vars, rowVars, depVars, Rows, Active
<1> QED
  BY <1>5, <1>6

\* A name that has rows has an active one, but for the gap that a deployment
\* leaves between its statements, and for good when it loses its row.
THEOREM ServingButForTheGap == Spec => []ServingUnlessDeploying
<1>1. Init => TypeOK /\ ServingUnlessDeploying
  BY TypeOKInit, ServingInit
<1>2. TypeOK /\ ServingUnlessDeploying /\ [Next]_vars
        => (TypeOK /\ ServingUnlessDeploying)'
  BY TypeOKStep, ServingStep
<1> QED
  BY <1>1, <1>2, PTL DEF Spec

-----------------------------------------------------------------------------
(* The numbers of the rows *)

\* GetNextVersion, and what it counts, as functions of the columns.
LatestOf(rows, cre) == {d \in rows : \A e \in rows : cre[e] <= cre[d]}

NextOf(rows, ver, cre) ==
    IF LatestOf(rows, cre) = {} THEN 1
    ELSE ver[CHOOSE d \in LatestOf(rows, cre) : TRUE] + 1

Numbered(rows, ver, cre, n) ==
    /\ {ver[d] : d \in rows} = 1..n
    /\ \A d, e \in rows : \/ d = e
                          \/ ver[d] < ver[e] /\ cre[d] < cre[e]
                          \/ ver[e] < ver[d] /\ cre[e] < cre[d]

LEMMA NextVersionIs ==
  /\ NextVersion = NextOf(Rows, version, created)
  /\ NextVersion' = NextOf(Rows', version', created')
BY DEF NextVersion, Latest, NextOf, LatestOf

\* Rows that are numbered in order have n + 1 as the next number.
LEMMA NextAfterNumbered ==
  ASSUME NEW rows, NEW ver \in [Deploys -> Nat], NEW cre \in [Deploys -> Nat],
         rows \subseteq Deploys, NEW n \in Nat, Numbered(rows, ver, cre, n)
  PROVE  NextOf(rows, ver, cre) = n + 1
<1>1. {ver[d] : d \in rows} = 1..n
  BY DEF Numbered
<1>2. CASE n = 0
  <2>1. \A d \in rows : ver[d] \in 1..n
    BY <1>1
  <2>2. rows = {}
    BY <1>2, <2>1
  <2> QED
    BY <1>2, <2>2 DEF NextOf, LatestOf
<1>3. CASE n > 0
  <2>1. n \in {ver[d] : d \in rows}
    BY <1>1, <1>3
  <2>2. PICK d \in rows : ver[d] = n
    BY <2>1
  <2>3. \A e \in rows : ver[e] \in 1..n
    BY <1>1
  <2>4. \A e \in rows : e = d \/ cre[e] < cre[d]
    BY <2>2, <2>3 DEF Numbered
  <2>5. LatestOf(rows, cre) = {d}
    BY <2>4 DEF LatestOf
  <2> QED
    BY <2>2, <2>5 DEF NextOf
<1> QED
  BY <1>2, <1>3

LEMMA NextVersionPositive ==
  ASSUME TypeOK
  PROVE  NextVersion \in Nat /\ NextVersion > 0
<1>1. Latest(Rows) \subseteq Deploys
  BY DEF Latest, Rows
<1>2. CASE Latest(Rows) = {}
  BY <1>2 DEF NextVersion
<1>3. CASE Latest(Rows) # {}
  <2>1. (CHOOSE d \in Latest(Rows) : TRUE) \in Deploys
    BY <1>1, <1>3
  <2> QED
    BY <2>1, <1>3 DEF NextVersion, TypeOK
<1> QED
  BY <1>2, <1>3

\* Rows whose columns are kept keep their numbers and the next one.
LEMMA NumbersKept ==
  ASSUME TypeOK, TypeOK', NumberedInOrder, Rows' = Rows,
         \A d \in Rows : version'[d] = version[d] /\ created'[d] = created[d]
  PROVE  NumberedInOrder' /\ NextVersion' = NextVersion
<1> DEFINE n == NextVersion - 1
<1>1. n \in Nat /\ NextVersion \in Nat
  BY NextVersionPositive
<1>2. Rows \subseteq Deploys
  BY DEF Rows
<1>3. {version'[d] : d \in Rows'} = {version[d] : d \in Rows}
  OBVIOUS
<1>4. Numbered(Rows', version', created', n)
  BY <1>3 DEF Numbered, NumberedInOrder
<1>5. NextOf(Rows', version', created') = n + 1
  BY <1>1, <1>2, <1>4, NextAfterNumbered DEF TypeOK
<1>6. NextVersion' = NextVersion
  BY <1>1, <1>5, NextVersionIs
<1> QED
  BY <1>4, <1>6 DEF Numbered, NumberedInOrder

\* A row that takes the next number, created last, keeps them in order.
LEMMA NumbersExtended ==
  ASSUME TypeOK, NumberedInOrder, UNCHANGED <<version, created>>,
         NEW d \in Deploys \ Rows, Rows' = Rows \cup {d}, version[d] = NextVersion,
         \A e \in Rows : created[e] < created[d]
  PROVE  NumberedInOrder'
<1> DEFINE n == NextVersion
<1>1. n \in Nat /\ n > 0 /\ \A e \in Rows : version[e] \in 1..(n - 1)
  BY NextVersionPositive DEF NumberedInOrder
<1>2. Rows \subseteq Deploys
  BY DEF Rows
<1>3. {version[e] : e \in Rows \cup {d}} = 1..n
  <2>1. {version[e] : e \in Rows \cup {d}} = {version[e] : e \in Rows} \cup {n}
    OBVIOUS
  <2>2. 1..n = (1..(n - 1)) \cup {n}
    BY <1>1
  <2> QED
    BY <2>1, <2>2 DEF NumberedInOrder
<1>4. \A e \in Rows : version[e] < version[d] /\ created[e] < created[d]
  BY <1>1
<1>5. Numbered(Rows', version', created', n)
  BY <1>3, <1>4 DEF Numbered, NumberedInOrder
<1>6. NextOf(Rows', version', created') = n + 1
  BY <1>1, <1>2, <1>5, NextAfterNumbered DEF TypeOK
<1>7. NextVersion' - 1 = n
  BY <1>1, <1>6, NextVersionIs
<1> QED
  BY <1>5, <1>7 DEF Numbered, NumberedInOrder

LEMMA NumbersOfNone ==
  ASSUME TypeOK', Rows' = {}
  PROVE  NumberedInOrder'
<1>1. NextVersion' = 1
  BY NextVersionIs DEF NextOf, LatestOf
<1> QED
  BY <1>1 DEF NumberedInOrder

LEMMA NumbersInit == Init => NumberedInOrder
<1> SUFFICES ASSUME Init PROVE NumberedInOrder
  OBVIOUS
<1> DEFINE n == Len(Past)
<1>1. n \in Nat /\ DOMAIN Past = 1..n /\ PastDeploys \subseteq Deploys
  BY DeployAssumption DEF PastDeploys
<1>2. Rows = PastDeploys
  BY <1>1 DEF Init, Rows
<1>3. \A d \in Rows : version[d] = PastNumber(d) /\ created[d] = PastNumber(d)
  BY <1>1, <1>2 DEF Init
<1>4. \A d \in Rows : PastNumber(d) \in 1..n /\ Past[PastNumber(d)] = d
  BY <1>1, <1>2, PastNumbers
<1>5. \A i \in 1..n : Past[i] \in Rows /\ PastNumber(Past[i]) = i
  <2> SUFFICES ASSUME NEW i \in 1..n
               PROVE  Past[i] \in Rows /\ PastNumber(Past[i]) = i
    OBVIOUS
  <2>1. Past[i] \in Rows
    BY <1>1, <1>2 DEF PastDeploys
  <2> QED
    BY <1>1, <1>4, <2>1, DeployAssumption
<1>6. {version[d] : d \in Rows} = 1..n
  <2>1. {version[d] : d \in Rows} \subseteq 1..n
    BY <1>3, <1>4
  <2>2. ASSUME NEW i \in 1..n
        PROVE  i \in {version[d] : d \in Rows}
    <3>1. version[Past[i]] = i /\ Past[i] \in Rows
      BY <1>3, <1>5
    <3> QED
      BY <3>1
  <2> QED
    BY <2>1, <2>2
<1>7. \A d, e \in Rows : PastNumber(d) = PastNumber(e) => d = e
  BY <1>4
<1>8. Numbered(Rows, version, created, n)
  BY <1>1, <1>3, <1>4, <1>6, <1>7 DEF Numbered
<1>9. NextVersion = n + 1
  <2>1. TypeOK
    BY TypeOKInit
  <2>2. version \in [Deploys -> Nat] /\ created \in [Deploys -> Nat]
    BY <2>1 DEF TypeOK
  <2> QED
    BY <1>1, <1>2, <1>8, <2>2, NextVersionIs, NextAfterNumbered
<1>10. NextVersion - 1 = n
  BY <1>1, <1>9
<1> QED
  BY <1>8, <1>10 DEF Numbered, NumberedInOrder

-----------------------------------------------------------------------------
(* One deployment or deletion at a time *)

\* A step by which versions may change hands, or a step that leaves them alone.
LEMMA MishapsStay ==
  ASSUME [Next]_vars
  PROVE  mishaps \subseteq mishaps'
<1> USE DEF Happens
<1>1. ASSUME NEW d \in Deploys, DeployBegins(d) \/ DeployStep(d)
      PROVE  mishaps \subseteq mishaps'
  BY <1>1 DEF DeployStep, DeployBegins, Begins, BuildImage, TagImage, PushImage,
              RemoveImage, NumberVersion, DeactivateFunctions, CreateFunction
<1>2. ASSUME NEW b \in Rollbacks, CheckCooldown(b) \/ RollbackStep(b)
      PROVE  mishaps \subseteq mishaps'
  BY <1>2 DEF RollbackStep, CheckCooldown, ValidateTarget, CommitRollback,
              RereadActive, RecordCleanup
<1>3. ASSUME NEW e \in Deletes, ListForDelete(e) \/ DeleteStep(e)
      PROVE  mishaps \subseteq mishaps'
  BY <1>3 DEF DeleteStep, ListForDelete, Begins, GetDigest, DeleteImage, DeleteRows
<1>4. CooldownEnds => mishaps \subseteq mishaps'
  BY DEF CooldownEnds
<1> QED
  BY <1>1, <1>2, <1>3, <1>4 DEF Next, vars

\* A step of a rollback, or of the cooldown, keeps all that a deployment uses.
RollsBack ==
    \/ CooldownEnds
    \/ \E b \in Rollbacks : CheckCooldown(b) \/ RollbackStep(b)

LEMMA RollbackTouchesOnly ==
  ASSUME TypeOK, RollsBack
  PROVE  /\ UNCHANGED <<version, created, imgVars, depVars, delVars>>
         /\ Rows' = Rows
<1> USE DEF rowVars
<1>1. ASSUME NEW b \in Rollbacks, CommitRollback(b)
      PROVE  Rows' = Rows
  <2>1. CASE \E a \in Active, d \in Rows :
                status' = [status EXCEPT ![a] = "inactive", ![d] = "active"]
    BY <2>1 DEF TypeOK, Rows, Active
  <2> QED
    BY <1>1, <2>1, RollbackMovesActive DEF Rows
<1>2. ASSUME NEW b \in Rollbacks, CheckCooldown(b) \/ RollbackStep(b)
      PROVE  /\ UNCHANGED <<version, created, imgVars, depVars, delVars>>
             /\ Rows' = Rows
  BY <1>1, <1>2 DEF RollbackStep, CheckCooldown, ValidateTarget, CommitRollback,
                    RereadActive, RecordCleanup, Rows
<1> QED
  BY <1>2 DEF RollsBack, CooldownEnds, Rows

\* The steps of a deployment under way, but for its last.
Works(d) ==
    \/ BuildImage(d) \/ TagImage(d) \/ PushImage(d) \/ RemoveImage(d)
    \/ NumberVersion(d) \/ DeactivateFunctions(d)

LEMMA WorkTouchesOnly ==
  ASSUME TypeOK, RowsAreLive, NEW d \in Deploys, Works(d)
  PROVE  /\ dpc[d] \in Deploying /\ \E l \in DeployLabel \ {"live"} : DeployGoto(d, l)
         /\ UNCHANGED <<history, rbVars, delVars>>
         /\ Rows' = Rows /\ d \notin Rows
         /\ \A e \in Deploys \ {d} : /\ version'[e] = version[e]
                                     /\ created'[e] = created[e]
<1>1. dpc[d] \in Deploying /\ dpc[d] # "live"
  BY DEF Works, Deploying, BuildImage, TagImage, PushImage, RemoveImage,
         NumberVersion, DeactivateFunctions
<1>2. d \notin Rows
  BY <1>1 DEF RowsAreLive
<1>3. \E l \in DeployLabel \ {"live"} : DeployGoto(d, l)
  BY DEF Works, DeployLabel, BuildImage, TagImage, PushImage, RemoveImage,
         NumberVersion, DeactivateFunctions
<1>4. UNCHANGED <<history, rbVars, delVars>>
  BY DEF Works, BuildImage, TagImage, PushImage, RemoveImage,
         NumberVersion, DeactivateFunctions
<1>5. Rows' = Rows
  <2>1. CASE UNCHANGED status
    BY <2>1 DEF Rows
  <2>2. CASE status' = [e \in Deploys |-> IF e \in Rows THEN "inactive" ELSE "absent"]
    BY <2>2 DEF Rows
  <2> QED
    BY <2>1, <2>2 DEF Works, rowVars, BuildImage, TagImage, PushImage, RemoveImage,
                      NumberVersion, DeactivateFunctions
<1>6. \A e \in Deploys \ {d} : version'[e] = version[e] /\ created'[e] = created[e]
  BY DEF Works, TypeOK, rowVars, BuildImage, TagImage, PushImage, RemoveImage,
         NumberVersion, DeactivateFunctions
<1> QED
  BY <1>1, <1>2, <1>3, <1>4, <1>5, <1>6

\* What a deletion does to the rows: nothing until it is done, and then all.
LEMMA DeletionTouchesOnly ==
  ASSUME TypeOK, NEW e \in Deletes, ListForDelete(e) \/ DeleteStep(e)
  PROVE  /\ UNCHANGED <<version, created, history, local, depVars, rbVars>>
         /\ Rows' = Rows \/ Rows' = {}
         /\ epc[e] = "images" \/ ListForDelete(e)
BY DEF DeleteStep, ListForDelete, GetDigest, DeleteImage, DeleteRows, Rows,
       rowVars, imgVars

LEMMA RowsAreLiveStep ==
  ASSUME TypeOK, RowsAreLive, [Next]_vars
  PROVE  RowsAreLive'
<1>1. ASSUME NEW d \in Deploys, DeployBegins(d)
      PROVE  RowsAreLive'
  BY <1>1 DEF DeployBegins, DeployGoto, rowVars, RowsAreLive, Rows, TypeOK
<1>2. ASSUME NEW d \in Deploys, Works(d)
      PROVE  RowsAreLive'
  <2>1. Rows' = Rows /\ d \notin Rows /\ Rows \subseteq Deploys
    BY <1>2, WorkTouchesOnly DEF Rows
  <2>2. \A c \in Deploys \ {d} : dpc'[c] = dpc[c]
    BY <1>2, WorkTouchesOnly DEF DeployGoto, TypeOK
  <2> QED
    BY <2>1, <2>2 DEF RowsAreLive
<1>3. ASSUME NEW d \in Deploys, CreateFunction(d)
      PROVE  RowsAreLive'
  BY <1>3 DEF CreateFunction, DeployGoto, RowsAreLive, Rows, Active, TypeOK
<1>4. CASE RollsBack
  BY <1>4, RollbackTouchesOnly DEF RowsAreLive, depVars
<1>5. ASSUME NEW e \in Deletes, ListForDelete(e) \/ DeleteStep(e)
      PROVE  RowsAreLive'
  BY <1>5, DeletionTouchesOnly DEF RowsAreLive, depVars
<1>6. CASE UNCHANGED vars
  BY <1>6 DEF vars, rowVars, depVars, RowsAreLive, Rows
<1> QED
  BY <1>1, <1>2, <1>3, <1>4, <1>5, <1>6 DEF Next, DeployStep, Works, RollsBack

LEMMA NumbersStartAtOneStep ==
  ASSUME TypeOK, RowsAreLive, NumbersStartAtOne, [Next]_vars
  PROVE  NumbersStartAtOne'
<1> USE DEF NumbersStartAtOne
<1>1. ASSUME NEW d \in Deploys, DeployBegins(d)
      PROVE  NumbersStartAtOne'
  BY <1>1 DEF DeployBegins, DeployGoto, rowVars, Rows, TypeOK
<1>2. ASSUME NEW d \in Deploys, Works(d)
      PROVE  NumbersStartAtOne'
  <2>1. Rows' = Rows /\ d \notin Rows
    BY <1>2, WorkTouchesOnly
  <2>2. \A c \in Deploys \ {d} : dpc'[c] = dpc[c] /\ version'[c] = version[c]
    BY <1>2, WorkTouchesOnly DEF DeployGoto, TypeOK
  <2>3. dpc'[d] \in {"deactivate", "create"} => version'[d] > 0
    <3>1. CASE NumberVersion(d)
      BY <1>2, <3>1, NextVersionPositive DEF NumberVersion, DeployGoto, TypeOK
    <3>2. CASE DeactivateFunctions(d)
      BY <3>2 DEF DeactivateFunctions
    <3>3. CASE BuildImage(d) \/ TagImage(d) \/ PushImage(d) \/ RemoveImage(d)
      BY <3>3 DEF BuildImage, TagImage, PushImage, RemoveImage, DeployGoto, TypeOK
    <3> QED
      BY <1>2, <3>1, <3>2, <3>3 DEF Works
  <2> QED
    BY <2>1, <2>2, <2>3
<1>3. ASSUME NEW d \in Deploys, CreateFunction(d)
      PROVE  NumbersStartAtOne'
  <2>1. dpc[d] = "create" /\ UNCHANGED version /\ Rows' \subseteq Rows \cup {d}
    BY <1>3 DEF CreateFunction, Rows, Active, TypeOK
  <2>2. \A c \in Deploys \ {d} : dpc'[c] = dpc[c]
    BY <1>3 DEF CreateFunction, DeployGoto, TypeOK
  <2> QED
    BY <2>1, <2>2
<1>4. CASE RollsBack
  BY <1>4, RollbackTouchesOnly DEF depVars
<1>5. ASSUME NEW e \in Deletes, ListForDelete(e) \/ DeleteStep(e)
      PROVE  NumbersStartAtOne'
  BY <1>5, DeletionTouchesOnly DEF depVars
<1>6. CASE UNCHANGED vars
  BY <1>6 DEF vars, rowVars, depVars, Rows
<1> QED
  BY <1>1, <1>2, <1>3, <1>4, <1>5, <1>6 DEF Next, DeployStep, Works, RollsBack

LEMMA ClockIsAheadStep ==
  ASSUME TypeOK, ClockIsAhead, [Next]_vars
  PROVE  ClockIsAhead'
<1> USE DEF ClockIsAhead, TypeOK
<1>1. CASE UNCHANGED <<created, clock>>
  BY <1>1
<1>2. ASSUME NEW d \in Deploys, DeactivateFunctions(d)
      PROVE  ClockIsAhead'
  <2>1. clock' = clock + 1 /\ created' = [created EXCEPT ![d] = clock + 1]
    BY <1>2 DEF DeactivateFunctions
  <2> QED
    BY <2>1
<1>3. ASSUME NEW d \in Deploys, DeployBegins(d) \/ DeployStep(d)
      PROVE  UNCHANGED <<created, clock>> \/ DeactivateFunctions(d)
  BY <1>3 DEF DeployStep, DeployBegins, BuildImage, TagImage, PushImage,
              RemoveImage, NumberVersion, CreateFunction, rowVars
<1>4. ASSUME NEW e \in Deletes, ListForDelete(e) \/ DeleteStep(e)
      PROVE  UNCHANGED <<created, clock>>
  BY <1>4, DeletionTouchesOnly DEF depVars
<1>5. CASE RollsBack
  BY <1>5, RollbackTouchesOnly DEF depVars
<1> QED
  BY <1>1, <1>2, <1>3, <1>4, <1>5 DEF Next, RollsBack, vars, rowVars, depVars

LEMMA TagMoved ==
  ASSUME NEW table \in [Deploys -> SUBSET Nat], NEW v \in Nat, NEW d \in Deploys,
         \A c, e \in Deploys : table[c] \cap table[e] # {} => c = e
  PROVE  \A c, e \in Deploys : MoveTag(table, v, d)[c] \cap MoveTag(table, v, d)[e] # {} => c = e
BY DEF MoveTag

LEMMA OneImagePerTagStep ==
  ASSUME TypeOK, OneImagePerTag, [Next]_vars
  PROVE  OneImagePerTag'
<1> USE DEF OneImagePerTag
<1>1. CASE UNCHANGED localTags
  BY <1>1
<1>2. ASSUME NEW d \in Deploys, TagImage(d)
      PROVE  OneImagePerTag'
  <2>1. CASE local \in Deploys /\ localTags' = MoveTag(localTags, NextVersion, local)
    BY <2>1, NextVersionPositive, TagMoved DEF TypeOK
  <2> QED
    BY <1>1, <1>2, <2>1 DEF TagImage, TypeOK
<1>3. ASSUME NEW e \in Deletes, DeleteImage(e)
      PROVE  OneImagePerTag'
  <2>1. CASE \E v : localTags' = [c \in Deploys |-> localTags[c] \ {v}]
    BY <2>1 DEF TypeOK
  <2> QED
    BY <1>1, <1>3, <2>1 DEF DeleteImage
<1>4. ASSUME NEW d \in Deploys, DeployBegins(d) \/ DeployStep(d)
      PROVE  UNCHANGED localTags \/ TagImage(d)
  BY <1>4 DEF DeployStep, DeployBegins, BuildImage, PushImage, RemoveImage,
              NumberVersion, DeactivateFunctions, CreateFunction, imgVars
<1>5. ASSUME NEW e \in Deletes, ListForDelete(e) \/ DeleteStep(e)
      PROVE  UNCHANGED localTags \/ DeleteImage(e)
  BY <1>5 DEF DeleteStep, ListForDelete, GetDigest, DeleteRows, imgVars
<1>6. CASE RollsBack
  BY <1>1, <1>6, RollbackTouchesOnly DEF imgVars
<1> QED
  BY <1>1, <1>2, <1>3, <1>4, <1>5, <1>6 DEF Next, RollsBack, vars, imgVars

-----------------------------------------------------------------------------
(* The numbers while nothing overlaps *)

\* What is kept when a step touches neither rows nor deployments.
LEMMA NextIsTakenKept ==
  ASSUME TypeOK, TypeOK', NumberedInOrder, NextIsTaken, mishaps \subseteq mishaps',
         UNCHANGED <<version, created, imgVars, depVars>>, Rows' = Rows
  PROVE  NumberedInOrder' /\ NextIsTaken'
<1>1. NumberedInOrder' /\ NextVersion' = NextVersion
  BY NumbersKept
<1>2. NextIsTaken'
  BY <1>1 DEF NextIsTaken, imgVars, depVars
<1> QED
  BY <1>1, <1>2

\* When a deployment works, or begins alone, no other one does.
LEMMA OneWorks ==
  ASSUME TypeOK, OneAtATime, NEW d \in Deploys, NEW l \in DeployLabel, DeployGoto(d, l),
         UNCHANGED epc, dpc[d] \in Deploying \/ ~Busy
  PROVE  /\ OneAtATime'
         /\ \A c \in Deploys \ {d} : dpc'[c] = dpc[c] /\ dpc'[c] \notin Deploying
         /\ dpc'[d] = l
         /\ \A e \in Deletes : epc[e] # "images"
<1>1. \A c \in Deploys \ {d} : dpc'[c] = dpc[c] /\ dpc[c] \notin Deploying
  BY DEF TypeOK, DeployGoto, OneAtATime, Busy
<1>2. \A e \in Deletes : epc[e] # "images"
  BY DEF OneAtATime, Busy
<1> QED
  BY <1>1, <1>2 DEF OneAtATime, TypeOK, DeployGoto

LEMMA BeginKeepsNumbers ==
  ASSUME VersionsAreSafe, TypeOK', NEW d \in Deploys, DeployBegins(d),
         "overlap" \notin mishaps'
  PROVE  OneAtATime' /\ NumberedInOrder' /\ NextIsTaken'
<1> USE DEF rowVars, imgVars, depVars, delVars
<1>1. "overlap" \notin mishaps /\ ~Busy /\ UNCHANGED mishaps
  BY DEF DeployBegins, Begins, Happens
<1>2. TypeOK /\ OneAtATime /\ NumberedInOrder /\ NextIsTaken
  BY <1>1 DEF VersionsAreSafe, SerialVersions
<1>3. /\ OneAtATime'
      /\ \A c \in Deploys \ {d} : dpc'[c] = dpc[c] /\ dpc'[c] \notin Deploying
      /\ dpc'[d] = "build"
  BY <1>1, <1>2, OneWorks DEF DeployBegins, DeployLabel
<1>4. NumberedInOrder'
  BY <1>2, NumbersKept DEF DeployBegins, Rows
<1>5. NextIsTaken'
  BY <1>3 DEF NextIsTaken, Deploying
<1> QED
  BY <1>3, <1>4, <1>5

\* One deployment works: what it has read of the numbers stays true.
LEMMA WorkKeepsNumbers ==
  ASSUME VersionsAreSafe, TypeOK', NEW d \in Deploys, Works(d),
         "overlap" \notin mishaps', mishaps \subseteq mishaps'
  PROVE  OneAtATime' /\ NumberedInOrder' /\ NextIsTaken'
<1> USE DEF rowVars, imgVars, depVars, delVars
<1>1. /\ TypeOK /\ OneAtATime /\ NumberedInOrder /\ NextIsTaken
      /\ RowsAreLive /\ ClockIsAhead /\ OneImagePerTag
  BY DEF VersionsAreSafe, SerialVersions
<1>2. /\ dpc[d] \in Deploying /\ Rows' = Rows /\ d \notin Rows /\ UNCHANGED epc
      /\ \A e \in Deploys \ {d} : version'[e] = version[e] /\ created'[e] = created[e]
  BY <1>1, WorkTouchesOnly
<1>3. PICK l \in DeployLabel \ {"live"} : DeployGoto(d, l)
  BY <1>1, WorkTouchesOnly
<1>4. /\ OneAtATime'
      /\ \A c \in Deploys \ {d} : dpc'[c] = dpc[c] /\ dpc'[c] \notin Deploying
      /\ dpc'[d] = l
  BY <1>1, <1>2, <1>3, OneWorks
<1>5. Rows \subseteq Deploys \ {d}
  BY <1>2 DEF Rows
<1>6. NumberedInOrder' /\ NextVersion' = NextVersion
  BY <1>1, <1>2, <1>5, NumbersKept
<1>7. SUFFICES ASSUME l \in Deploying
               PROVE  /\ l = "tag" => local' = d
                      /\ l = "push" => built'[d] = NextVersion /\ built'[d] \in localTags'[d]
                      /\ l \in {"untag", "number", "deactivate", "create"}
                            /\ "silentPush" \notin mishaps'
                            => NextVersion \in tags'[d]
                      /\ l \in {"deactivate", "create"} => version'[d] = NextVersion
                      /\ l = "create" => \A e \in Rows : created'[e] < created'[d]
  BY <1>4, <1>6, <1>2 DEF NextIsTaken, Deploying
<1>n. NextVersion \in Nat
  BY <1>1, NextVersionPositive
<1>8. l = dpc'[d]
  BY <1>4
<1>9. CASE BuildImage(d)
  BY <1>1, <1>8, <1>9 DEF BuildImage, DeployGoto, TypeOK, Deploying
<1>10. CASE TagImage(d)
  <2>1. local = d
    BY <1>1, <1>10 DEF TagImage, NextIsTaken
  <2>2. dpc'[d] = "push" /\ built'[d] = NextVersion
        /\ localTags' = MoveTag(localTags, NextVersion, d)
    BY <1>1, <1>7, <1>8, <1>10, <2>1 DEF TagImage, DeployGoto, TypeOK, Deploying
  <2>3. NextVersion \in localTags'[d]
    BY <2>2 DEF MoveTag
  <2> QED
    BY <1>8, <2>2, <2>3
<1>11. CASE PushImage(d)
  <2>1. built[d] = NextVersion /\ built[d] \in localTags[d]
    BY <1>1, <1>11 DEF PushImage, NextIsTaken
  <2>2. dpc'[d] = "untag"
    BY <1>1, <1>7, <1>8, <1>11 DEF PushImage, DeployGoto, TypeOK, Deploying
  <2>3. ASSUME "silentPush" \notin mishaps'
        PROVE  NextVersion \in tags'[d]
    <3>1. dpc'[d] # "error"
      BY <2>2
    <3>2. \E e \in Deploys : /\ built[d] \in localTags[e]
                             /\ tags' = MoveTag(tags, built[d], e)
      BY <1>1, <1>11, <2>3, <3>1 DEF PushImage, Happens, DeployGoto, TypeOK
    <3>3. tags' = MoveTag(tags, NextVersion, d)
      BY <1>1, <2>1, <3>2 DEF OneImagePerTag
    <3> QED
      BY <3>3 DEF MoveTag
  <2> QED
    BY <1>8, <2>2, <2>3
<1>12. CASE RemoveImage(d)
  <2>1. dpc[d] = "untag" /\ dpc'[d] = "number" /\ UNCHANGED <<tags, mishaps>>
    BY <1>1, <1>7, <1>8, <1>12 DEF RemoveImage, DeployGoto, TypeOK, Deploying
  <2> QED
    BY <1>1, <1>8, <2>1 DEF NextIsTaken
<1>13. CASE NumberVersion(d)
  <2>1. /\ dpc[d] = "number" /\ dpc'[d] = "deactivate" /\ UNCHANGED <<tags, mishaps>>
        /\ version'[d] = NextVersion
    BY <1>1, <1>7, <1>8, <1>13 DEF NumberVersion, DeployGoto, TypeOK, Deploying
  <2> QED
    BY <1>1, <1>8, <2>1 DEF NextIsTaken
<1>14. CASE DeactivateFunctions(d)
  <2>1. /\ dpc[d] = "deactivate" /\ dpc'[d] = "create" /\ UNCHANGED <<tags, mishaps, version>>
        /\ created'[d] = clock + 1
    BY <1>1, <1>14 DEF DeactivateFunctions, DeployGoto, TypeOK
  <2>2. \A e \in Rows : created'[e] < created'[d]
    BY <1>1, <1>2, <1>5, <2>1 DEF ClockIsAhead, TypeOK
  <2> QED
    BY <1>1, <1>8, <2>1, <2>2 DEF NextIsTaken
<1> QED
  BY <1>9, <1>10, <1>11, <1>12, <1>13, <1>14 DEF Works

\* The row that is inserted takes the next number, and was created last.
LEMMA CreateKeepsNumbers ==
  ASSUME VersionsAreSafe, TypeOK', NEW d \in Deploys, CreateFunction(d),
         "overlap" \notin mishaps'
  PROVE  OneAtATime' /\ NumberedInOrder' /\ NextIsTaken'
<1> USE DEF imgVars, depVars, delVars
<1>1. /\ TypeOK /\ OneAtATime /\ NumberedInOrder /\ NextIsTaken /\ RowsAreLive
      /\ UNCHANGED <<version, created, imgVars, clock, built, delVars, mishaps>>
  BY DEF VersionsAreSafe, SerialVersions, CreateFunction
<1>2. /\ dpc[d] = "create" /\ d \notin Rows
      /\ version[d] = NextVersion /\ \A e \in Rows : created[e] < created[d]
  BY <1>1 DEF CreateFunction, NextIsTaken, RowsAreLive
<1>3. \E l \in {"live", "lost"} : DeployGoto(d, l)
  BY DEF CreateFunction
<1>4. /\ OneAtATime'
      /\ \A c \in Deploys \ {d} : dpc'[c] \notin Deploying
      /\ dpc'[d] \notin Deploying
  <2>1. PICK l \in {"live", "lost"} : DeployGoto(d, l)
    BY <1>3
  <2>2. l \in DeployLabel \ Deploying /\ dpc[d] \in Deploying
    BY <1>2 DEF DeployLabel, Deploying
  <2> QED
    BY <1>1, <2>1, <2>2, OneWorks
<1>5. Rows' = Rows \/ Rows' = Rows \cup {d}
  BY <1>1 DEF CreateFunction, Rows, Active, TypeOK
<1>6. NumberedInOrder'
  <2>1. CASE Rows' = Rows
    BY <1>1, <2>1, NumbersKept
  <2>2. CASE Rows' = Rows \cup {d}
    BY <1>1, <1>2, <2>2, NumbersExtended
  <2> QED
    BY <1>5, <2>1, <2>2
<1>7. NextIsTaken'
  BY <1>4 DEF NextIsTaken, Deploying
<1> QED
  BY <1>4, <1>6, <1>7

LEMMA RollbackKeepsNumbers ==
  ASSUME VersionsAreSafe, TypeOK', RollsBack, "overlap" \notin mishaps',
         mishaps \subseteq mishaps'
  PROVE  OneAtATime' /\ NumberedInOrder' /\ NextIsTaken'
<1>1. TypeOK /\ OneAtATime /\ NumberedInOrder /\ NextIsTaken
  BY DEF VersionsAreSafe, SerialVersions
<1>2. UNCHANGED <<version, created, imgVars, depVars, delVars>> /\ Rows' = Rows
  BY <1>1, RollbackTouchesOnly
<1>3. NumberedInOrder' /\ NextIsTaken'
  BY <1>1, <1>2, NextIsTakenKept
<1> QED
  BY <1>1, <1>2, <1>3 DEF OneAtATime, depVars, delVars

\* A deletion runs alone: it takes no row, or all of them.
LEMMA DeletionKeepsNumbers ==
  ASSUME VersionsAreSafe, TypeOK', NEW e \in Deletes, ListForDelete(e) \/ DeleteStep(e),
         "overlap" \notin mishaps', mishaps \subseteq mishaps'
  PROVE  OneAtATime' /\ NumberedInOrder' /\ NextIsTaken'
<1>1. TypeOK /\ OneAtATime /\ NumberedInOrder /\ NextIsTaken
  BY DEF VersionsAreSafe, SerialVersions
<1>2. /\ UNCHANGED <<version, created, local, depVars>>
      /\ Rows' = Rows \/ Rows' = {}
  BY <1>1, DeletionTouchesOnly
<1>3. NumberedInOrder'
  BY <1>1, <1>2, NumbersKept, NumbersOfNone
<1>4. CASE ListForDelete(e)
  <2>1. CASE epc' = [epc EXCEPT ![e] = "images"]
    <3>1. ~Busy
      BY <1>4, <2>1, <1>1 DEF ListForDelete, DeleteGoto, Begins, Happens, TypeOK
    <3>2. (\A d \in Deploys : dpc'[d] \notin Deploying)
          /\ \A f \in Deletes \ {e} : epc'[f] # "images"
      BY <1>1, <1>2, <2>1, <3>1 DEF Busy, depVars, TypeOK
    <3> QED
      BY <1>3, <3>2 DEF OneAtATime, NextIsTaken, Deploying
  <2>2. CASE epc' = [epc EXCEPT ![e] = "refused"]
    <3>1. OneAtATime'
      BY <1>1, <1>2, <2>2 DEF OneAtATime, depVars, TypeOK
    <3>2. Rows' = Rows /\ UNCHANGED imgVars
      BY <1>4 DEF ListForDelete, rowVars, Rows
    <3> QED
      BY <1>1, <1>2, <3>1, <3>2, NextIsTakenKept
  <2> QED
    BY <1>4, <2>1, <2>2 DEF ListForDelete, DeleteGoto
<1>5. CASE DeleteStep(e)
  <2>1. epc[e] = "images" /\ (\A d \in Deploys : dpc[d] \notin Deploying)
    BY <1>1, <1>5 DEF DeleteStep, GetDigest, DeleteImage, DeleteRows, OneAtATime
  <2>2. \A d \in Deploys : dpc'[d] \notin Deploying
    BY <1>2, <2>1 DEF depVars
  <2>3. \A f \in Deletes : epc'[f] = "images" => epc[f] = "images"
    BY <1>1, <1>5 DEF DeleteStep, GetDigest, DeleteImage, DeleteRows, DeleteGoto, TypeOK
  <2> QED
    BY <1>1, <1>3, <2>2, <2>3 DEF OneAtATime, NextIsTaken, Deploying
<1> QED
  BY <1>4, <1>5

LEMMA SerialVersionsStep ==
  ASSUME VersionsAreSafe, [Next]_vars, TypeOK'
  PROVE  SerialVersions'
<1> SUFFICES ASSUME "overlap" \notin mishaps'
             PROVE  OneAtATime' /\ NumberedInOrder' /\ NextIsTaken'
  BY DEF SerialVersions
<1>1. mishaps \subseteq mishaps'
  BY MishapsStay
<1>2. ASSUME NEW d \in Deploys, DeployBegins(d) \/ DeployStep(d)
      PROVE  OneAtATime' /\ NumberedInOrder' /\ NextIsTaken'
  BY <1>1, <1>2, BeginKeepsNumbers, WorkKeepsNumbers, CreateKeepsNumbers
  DEF DeployStep, Works
<1>3. CASE RollsBack
  BY <1>1, <1>3, RollbackKeepsNumbers
<1>4. ASSUME NEW e \in Deletes, ListForDelete(e) \/ DeleteStep(e)
      PROVE  OneAtATime' /\ NumberedInOrder' /\ NextIsTaken'
  BY <1>1, <1>4, DeletionKeepsNumbers
<1>5. CASE UNCHANGED vars
  <2>1. TypeOK /\ OneAtATime /\ NumberedInOrder /\ NextIsTaken
    BY <1>1 DEF VersionsAreSafe, SerialVersions
  <2> QED
    BY <1>1, <1>5, <2>1, NextIsTakenKept
    DEF vars, rowVars, depVars, delVars, Rows, OneAtATime
<1> QED
  BY <1>2, <1>3, <1>4, <1>5 DEF Next, RollsBack

-----------------------------------------------------------------------------
(* The images of the rows *)

\* The push gives the next tag, which is no row's, to the image of d.
LEMMA PushKeepsImages ==
  ASSUME VersionsAreSafe, "overlap" \notin mishaps', "silentPush" \notin mishaps',
         mishaps \subseteq mishaps',
         NEW d \in Deploys, PushImage(d), NEW r \in Rows, version[r] \in tags[r]
  PROVE  version[r] \in tags'[r]
<1>1. /\ TypeOK /\ NumberedInOrder /\ NextIsTaken /\ RowsAreLive /\ OneImagePerTag
      /\ r \in Deploys
  BY DEF VersionsAreSafe, SerialVersions, Rows
<1>2. r # d /\ built[d] = NextVersion /\ built[d] \in localTags[d]
  BY <1>1 DEF PushImage, RowsAreLive, NextIsTaken
<1>3. version[r] # NextVersion
  <2>1. version[r] \in 1..(NextVersion - 1) /\ NextVersion \in Nat
    BY <1>1, NextVersionPositive DEF NumberedInOrder
  <2> QED
    BY <2>1
<1>4. CASE \E e \in Deploys : /\ built[d] \in localTags[e]
                              /\ tags' = MoveTag(tags, built[d], e)
  <2>1. tags' = MoveTag(tags, NextVersion, d)
    BY <1>1, <1>2, <1>4 DEF OneImagePerTag
  <2> QED
    BY <1>1, <1>2, <1>3, <2>1 DEF MoveTag
<1> QED
  BY <1>4 DEF PushImage, Happens

LEMMA RowsHaveTheirImageStep ==
  ASSUME VersionsAreSafe, [Next]_vars
  PROVE  RowsHaveTheirImage'
<1> SUFFICES ASSUME mishaps' \cap {"overlap", "silentPush", "delete"} = {},
                    \A e \in Deletes : epc'[e] # "images",
                    NEW r \in Rows'
             PROVE  version'[r] \in tags'[r]
  BY DEF RowsHaveTheirImage
<1>1. mishaps \subseteq mishaps'
  BY MishapsStay
<1>2. TypeOK /\ RowsAreLive /\ NextIsTaken
  BY <1>1 DEF VersionsAreSafe, SerialVersions
<1>3. ASSUME UNCHANGED epc \/ \A e \in Deletes : epc[e] # "images", r \in Rows
      PROVE  version[r] \in tags[r]
  BY <1>1, <1>3 DEF VersionsAreSafe, RowsHaveTheirImage
<1>4. CASE UNCHANGED <<version, tags, epc>> /\ Rows' = Rows
  BY <1>3, <1>4
<1>5. ASSUME NEW d \in Deploys, DeployBegins(d)
      PROVE  version'[r] \in tags'[r]
  BY <1>4, <1>5 DEF DeployBegins, rowVars, imgVars, delVars, Rows
<1>6. ASSUME NEW d \in Deploys, Works(d)
      PROVE  version'[r] \in tags'[r]
  <2>1. UNCHANGED epc /\ Rows' = Rows /\ version'[r] = version[r]
    BY <1>2, <1>6, WorkTouchesOnly DEF delVars, Rows
  <2>2. version[r] \in tags[r]
    BY <1>3, <2>1
  <2>3. CASE PushImage(d)
    BY <1>1, <2>1, <2>2, <2>3, PushKeepsImages
  <2> QED
    BY <1>6, <2>1, <2>2, <2>3 DEF Works, BuildImage, TagImage, RemoveImage, NumberVersion,
                                  DeactivateFunctions, imgVars
<1>7. ASSUME NEW d \in Deploys, CreateFunction(d)
      PROVE  version'[r] \in tags'[r]
  <2>1. UNCHANGED <<version, tags, epc, mishaps>>
    BY <1>7 DEF CreateFunction, imgVars, delVars
  <2>2. r \in Rows \cup {d}
    BY <1>2, <1>7 DEF CreateFunction, Rows, Active, TypeOK
  <2>3. version[d] \in tags[d]
    BY <1>2, <1>7, <2>1 DEF CreateFunction, NextIsTaken
  <2> QED
    BY <1>3, <2>1, <2>2, <2>3
<1>8. CASE RollsBack
  BY <1>2, <1>4, <1>8, RollbackTouchesOnly DEF imgVars, delVars
<1>9. ASSUME NEW e \in Deletes, ListForDelete(e)
      PROVE  version'[r] \in tags'[r]
  <2>1. \A f \in Deletes : epc[f] # "images"
    BY <1>2, <1>9 DEF ListForDelete, DeleteGoto, TypeOK
  <2>2. UNCHANGED <<version, tags>> /\ Rows' = Rows
    BY <1>9 DEF ListForDelete, rowVars, imgVars, Rows
  <2> QED
    BY <1>3, <2>1, <2>2
<1>10. ASSUME NEW e \in Deletes, DeleteStep(e)
       PROVE  version'[r] \in tags'[r]
  <2>1. ~GetDigest(e) /\ ~DeleteImage(e)
    BY DEF GetDigest, DeleteImage
  <2>2. DeleteRows(e)
    BY <1>10, <2>1 DEF DeleteStep
  <2>3. Rows' = {}
    BY <2>2 DEF DeleteRows, Happens, Rows
  <2> QED
    BY <2>3
<1>11. CASE UNCHANGED vars
  BY <1>4, <1>11 DEF vars, rowVars, imgVars, delVars, Rows
<1> QED
  BY <1>5, <1>6, <1>7, <1>8, <1>9, <1>10, <1>11 DEF Next, DeployStep, Works, RollsBack

LEMMA VersionsAreSafeInit == Init => VersionsAreSafe
<1> SUFFICES ASSUME Init PROVE VersionsAreSafe
  OBVIOUS
<1>1. TypeOK /\ AtMostOneActive /\ NumberedInOrder
  BY TypeOKInit, AtMostOneActiveInit, NumbersInit
<1>2. \A d \in PastDeploys : PastNumber(d) \in 1..Len(Past) /\ Past[PastNumber(d)] = d
  BY PastNumbers, DeployAssumption
<1>3. RowsAreLive
  BY DEF Init, Rows, RowsAreLive
<1>4. ClockIsAhead
  <2>1. Len(Past) \in Nat
    BY DeployAssumption
  <2> QED
    BY <1>2, <2>1 DEF Init, ClockIsAhead
<1>5. OneImagePerTag
  BY <1>2 DEF Init, OneImagePerTag
<1>6. OneAtATime /\ NextIsTaken
  BY DEF Init, OneAtATime, NextIsTaken, Deploying
<1>7. RowsHaveTheirImage
  BY DEF Init, RowsHaveTheirImage, Rows
<1>8. NumbersStartAtOne
  BY <1>2 DEF Init, NumbersStartAtOne, Rows
<1> QED
  BY <1>1, <1>3, <1>4, <1>5, <1>6, <1>7, <1>8 DEF VersionsAreSafe, SerialVersions

LEMMA VersionsAreSafeStep == VersionsAreSafe /\ [Next]_vars => VersionsAreSafe'
<1> SUFFICES ASSUME VersionsAreSafe, [Next]_vars PROVE VersionsAreSafe'
  OBVIOUS
<1>1. /\ TypeOK /\ AtMostOneActive
      /\ RowsAreLive /\ NumbersStartAtOne /\ ClockIsAhead /\ OneImagePerTag
  BY DEF VersionsAreSafe
<1>2. TypeOK' /\ AtMostOneActive'
  BY <1>1, TypeOKStep, AtMostOneActiveStep
<1>3. RowsAreLive' /\ NumbersStartAtOne' /\ ClockIsAhead' /\ OneImagePerTag'
  BY <1>1, RowsAreLiveStep, NumbersStartAtOneStep, ClockIsAheadStep, OneImagePerTagStep
<1>4. SerialVersions' /\ RowsHaveTheirImage'
  BY <1>2, SerialVersionsStep, RowsHaveTheirImageStep
<1> QED
  BY <1>2, <1>3, <1>4 DEF VersionsAreSafe

\* Every row can be invoked: GetNextVersion, asked before the push and again
\* before the row is written, answers the same as long as deployments and
\* deletions do not overlap, so the tag of a row is that of its own image.
THEOREM RowsCanBeInvoked == Spec => []RowsHaveTheirImage
<1>1. Init => VersionsAreSafe
  BY VersionsAreSafeInit
<1>2. VersionsAreSafe /\ [Next]_vars => VersionsAreSafe'
  BY VersionsAreSafeStep
<1>3. VersionsAreSafe => RowsHaveTheirImage
  BY DEF VersionsAreSafe
<1> QED
  BY <1>1, <1>2, <1>3, PTL DEF Spec

-----------------------------------------------------------------------------
(* Rollbacks without a target *)

LEMMA StepsBackOnce ==
  ASSUME VersionsAreSafe, [Next]_vars, NEW b \in Rollbacks, "overlap" \notin mishaps,
         rpc[b] = "commit", rpc'[b] = "reread", target[b] = Implicit
  PROVE  \E d \in Active', a \in Active :
            /\ version[d] < version[a]
            /\ \A e \in Rows : ~(version[d] < version[e] /\ version[e] < version[a])
<1>1. TypeOK /\ NumberedInOrder
  BY DEF VersionsAreSafe, SerialVersions
<1>2. CommitRollback(b)
  <2>1. CASE \E c \in Rollbacks : CheckCooldown(c) \/ RollbackStep(c)
    <3>1. PICK c \in Rollbacks : CheckCooldown(c) \/ RollbackStep(c)
      BY <2>1
    <3>2. c = b
      BY <1>1, <3>1 DEF RollbackStep, CheckCooldown, ValidateTarget, CommitRollback,
                        RereadActive, RecordCleanup, RollbackGoto, RollbackEnds, TypeOK
    <3> QED
      BY <3>1, <3>2 DEF RollbackStep, CheckCooldown, ValidateTarget, RereadActive,
                        RecordCleanup
  <2>2. rpc' # rpc
    OBVIOUS
  <2>3. ASSUME NEW d \in Deploys, DeployBegins(d) \/ DeployStep(d)
        PROVE  UNCHANGED rpc
    BY <2>3 DEF DeployStep, DeployBegins, BuildImage, TagImage, PushImage, RemoveImage,
                NumberVersion, DeactivateFunctions, CreateFunction, rbVars
  <2>4. ASSUME NEW e \in Deletes, ListForDelete(e) \/ DeleteStep(e)
        PROVE  UNCHANGED rpc
    BY <2>4 DEF DeleteStep, ListForDelete, GetDigest, DeleteImage, DeleteRows, rbVars
  <2>5. CooldownEnds \/ UNCHANGED vars => UNCHANGED rpc
    BY DEF CooldownEnds, vars, rbVars
  <2> QED
    BY <2>1, <2>2, <2>3, <2>4, <2>5 DEF Next
<1>3. ~RollbackEnds(b, "error")
  BY <1>1 DEF RollbackEnds, RollbackGoto, TypeOK
<1>p. PICK a \in Active : \E d \in RollbackRows(b, a) :
         status' = [status EXCEPT ![a] = "inactive", ![d] = "active"]
  BY <1>2, <1>3 DEF CommitRollback
<1>4. PICK d \in RollbackRows(b, a) :
         status' = [status EXCEPT ![a] = "inactive", ![d] = "active"]
  BY <1>p
<1>5. d \in Latest({e \in Rows : created[e] < created[a]})
  BY <1>4 DEF RollbackRows
<1>6. /\ d \in Rows /\ a \in Rows /\ Rows \subseteq Deploys
      /\ created[d] < created[a]
      /\ \A e \in Rows : created[e] < created[a] => created[e] <= created[d]
  BY <1>5 DEF Latest, Rows, Active
<1>7. d \in Active'
  BY <1>1, <1>4, <1>6 DEF Active, TypeOK
<1>8. \A e \in Rows : created[e] \in Nat /\ version[e] \in Nat
  BY <1>1, <1>6 DEF TypeOK
<1>9. version[d] < version[a]
  BY <1>1, <1>6, <1>8 DEF NumberedInOrder
<1>10. ASSUME NEW e \in Rows, version[d] < version[e], version[e] < version[a]
       PROVE  FALSE
  <2>1. created[d] < created[e] /\ created[e] < created[a]
    BY <1>1, <1>6, <1>8, <1>10 DEF NumberedInOrder
  <2> QED
    BY <1>6, <1>8, <2>1
<1> QED
  BY <1>4, <1>7, <1>9, <1>10

\* A rollback without a target goes back by one version exactly: created_at,
\* by which RollbackToVersionWithID chooses, orders the rows as their numbers do.
THEOREM RollbacksStepBack == Spec => StepsBack
<1> DEFINE Back ==
      \A b \in Rollbacks :
          /\ "overlap" \notin mishaps
          /\ rpc[b] = "commit" /\ rpc'[b] = "reread" /\ target[b] = Implicit
          => \E d \in Active', a \in Active :
                /\ version[d] < version[a]
                /\ \A e \in Rows : ~(version[d] < version[e] /\ version[e] < version[a])
<1>1. Init => VersionsAreSafe
  BY VersionsAreSafeInit
<1>2. VersionsAreSafe /\ [Next]_vars => VersionsAreSafe'
  BY VersionsAreSafeStep
<1>3. VersionsAreSafe /\ [Next]_vars => [Back]_vars
  BY StepsBackOnce
<1> HIDE DEF Back
<1>4. Spec => [][Back]_vars
  BY <1>1, <1>2, <1>3, PTL DEF Spec
<1> QED
  BY <1>4 DEF StepsBack, Back

-----------------------------------------------------------------------------
(* The registry of versions *)

\* What requests get when d is the active row, before or after a step.
LEMMA CurrentIs ==
  /\ \A d : Active = {d} => CurrentVersion = version[d]
  /\ \A d : Active' = {d} => CurrentVersion' = version'[d]
  /\ Active = {} => CurrentVersion = 0
  /\ Active' = {} => CurrentVersion' = 0
BY DEF CurrentVersion

\* A step that changes none of the columns is none of the registry's, unless it
\* is the first to overlap another.
LEMMA RegistryUnchanged ==
  ASSUME UNCHANGED <<status, version>>, mishaps \subseteq mishaps'
  PROVE  [Name!Next]_(Name!registryVars)
<1>1. UNCHANGED <<{version[d] : d \in Rows}, CurrentVersion>>
  BY DEF Rows, CurrentVersion, Active
<1>2. CASE "overlap" \in mishaps \/ "overlap" \notin mishaps'
  BY <1>1, <1>2 DEF Name!registryVars
<1>3. CASE "overlap" \notin mishaps /\ "overlap" \in mishaps'
  BY <1>1, <1>3 DEF Name!Next, Name!Overlap
<1> QED
  BY <1>2, <1>3

\* The number that is read is not seen before the row is there, and with the rows
\* deactivated nothing is current.
LEMMA RegistryWork ==
  ASSUME VersionsAreSafe, NEW d \in Deploys, Works(d), mishaps \subseteq mishaps'
  PROVE  [Name!Next]_(Name!registryVars)
<1> USE DEF rowVars
<1>1. TypeOK /\ RowsAreLive
  BY DEF VersionsAreSafe
<1>2. /\ Rows' = Rows /\ d \notin Rows
      /\ \A e \in Deploys \ {d} : version'[e] = version[e]
  BY <1>1, WorkTouchesOnly
<1>3. Rows \subseteq Deploys /\ Active \subseteq Rows
  BY DEF Rows, Active
<1>4. \A e \in Rows : version'[e] = version[e]
  BY <1>2, <1>3
<1>5. UNCHANGED {version[e] : e \in Rows}
  BY <1>2, <1>4
<1>6. CASE UNCHANGED <<status, version>>
  BY <1>6, RegistryUnchanged
<1>7. CASE NumberVersion(d)
  <2>1. UNCHANGED Active /\ UNCHANGED mishaps
    BY <1>7 DEF NumberVersion, Active
  <2>2. UNCHANGED CurrentVersion
    <3>1. CASE Active = {}
      BY <2>1, <3>1, CurrentIs
    <3>2. CASE Active # {}
      <4>1. PICK a \in Active : TRUE
        BY <3>2
      <4>2. Active = {a} /\ a \in Rows
        BY <1>3 DEF VersionsAreSafe, AtMostOneActive
      <4> QED
        BY <1>4, <2>1, <4>2, CurrentIs
    <3> QED
      BY <3>1, <3>2
  <2> QED
    BY <1>5, <2>1, <2>2 DEF Name!registryVars
<1>8. CASE DeactivateFunctions(d)
  <2>1. UNCHANGED mishaps
    BY <1>8 DEF DeactivateFunctions
  <2>2. CASE status' = [e \in Deploys |-> IF e \in Rows THEN "inactive" ELSE "absent"]
    <3>1. Active' = {}
      BY <2>2 DEF Active
    <3>2. CurrentVersion' = Name!NoVersion
      BY <3>1, CurrentIs DEF Name!NoVersion
    <3> QED
      BY <1>5, <2>1, <3>2 DEF Name!Next, Name!Withdraw
  <2> QED
    BY <1>6, <1>8, <2>2 DEF DeactivateFunctions
<1> QED
  BY <1>6, <1>7, <1>8 DEF Works, BuildImage, TagImage, PushImage, RemoveImage

\* The row that is inserted is the one that is current.
LEMMA RegistryCreate ==
  ASSUME VersionsAreSafe, AtMostOneActive', NEW d \in Deploys, CreateFunction(d),
         mishaps \subseteq mishaps'
  PROVE  [Name!Next]_(Name!registryVars)
<1> DEFINE before == {version[e] : e \in Rows}
           after == {version'[e] : e \in Rows'}
<1>1. /\ TypeOK /\ RowsAreLive /\ NumbersStartAtOne
      /\ dpc[d] = "create" /\ UNCHANGED <<version, mishaps>>
  BY DEF VersionsAreSafe, CreateFunction
<1>2. CASE UNCHANGED status
  BY <1>1, <1>2, RegistryUnchanged
<1>3. CASE status'[d] = "active" /\ Rows' = Rows \cup {d}
  <2>1. Active' = {d}
    BY <1>3 DEF Active, AtMostOneActive
  <2>2. CurrentVersion' = version[d] /\ version[d] # 0
    BY <1>1, <2>1, CurrentIs DEF NumbersStartAtOne, TypeOK
  <2>3. after = before \cup {version[d]}
    BY <1>1, <1>3
  <2>4. ASSUME "overlap" \notin mishaps
        PROVE  version[d] \notin before /\ after = 1..version[d]
    <3>1. NumberedInOrder /\ NextIsTaken
      BY <2>4 DEF VersionsAreSafe, SerialVersions
    <3>2. version[d] = NextVersion /\ NextVersion \in Nat /\ NextVersion > 0
      BY <1>1, <3>1, NextVersionPositive DEF NextIsTaken
    <3>3. before = 1..(NextVersion - 1)
      BY <3>1 DEF NumberedInOrder
    <3>4. /\ 1..NextVersion = (1..(NextVersion - 1)) \cup {NextVersion}
          /\ NextVersion \notin 1..(NextVersion - 1)
      BY <3>2
    <3> HIDE DEF before, after
    <3> QED
      BY <2>3, <3>2, <3>3, <3>4
  <2>5. Name!Deploy
    BY <1>1, <2>2, <2>3, <2>4 DEF Name!Deploy, Name!NoVersion
  <2> QED
    BY <2>5 DEF Name!Next
<1>4. \/ UNCHANGED status
      \/ status'[d] = "active" /\ Rows' = Rows \cup {d}
  BY <1>1 DEF CreateFunction, Rows, Active, TypeOK
<1> QED
  BY <1>2, <1>3, <1>4

\* A rollback that commits makes another row current.
LEMMA RegistryRollback ==
  ASSUME VersionsAreSafe, AtMostOneActive', RollsBack, mishaps \subseteq mishaps'
  PROVE  [Name!Next]_(Name!registryVars)
<1> USE DEF rowVars
<1>1. TypeOK /\ UNCHANGED version /\ Rows' = Rows
  BY RollbackTouchesOnly DEF VersionsAreSafe
<1>2. CASE UNCHANGED status
  BY <1>1, <1>2, RegistryUnchanged
<1>3. ASSUME NEW b \in Rollbacks, CommitRollback(b)
      PROVE  [Name!Next]_(Name!registryVars)
  <2>1. UNCHANGED mishaps
    BY <1>3 DEF CommitRollback
  <2>2. CASE \E a \in Active : \E d \in RollbackRows(b, a) :
               status' = [status EXCEPT ![a] = "inactive", ![d] = "active"]
    <3>1. PICK a \in Active : \E d \in RollbackRows(b, a) :
             status' = [status EXCEPT ![a] = "inactive", ![d] = "active"]
      BY <2>2
    <3>2. PICK d \in RollbackRows(b, a) :
             status' = [status EXCEPT ![a] = "inactive", ![d] = "active"]
      BY <3>1
    <3>3. a \in Rows /\ d \in Rows /\ Rows \subseteq Deploys /\ a # d
      <4>1. d \in Rows /\ Rows \subseteq Deploys /\ a \in Rows
        BY RollbackRowsType DEF Active, Rows
      <4>2. a # d
        BY <1>1, <4>1 DEF RollbackRows, Latest, Active, TypeOK
      <4> QED
        BY <4>1, <4>2
    <3>4. Active = {a} /\ Active' = {d}
      <4>1. Active = {a}
        BY DEF VersionsAreSafe, AtMostOneActive
      <4>2. d \in Active'
        BY <1>1, <3>2, <3>3 DEF Active, TypeOK
      <4> QED
        BY <4>1, <4>2 DEF AtMostOneActive
    <3>5. CurrentVersion = version[a] /\ CurrentVersion' = version[d]
      BY <1>1, <3>4, CurrentIs
    <3>6. version[a] # Name!NoVersion
      BY <1>1, <3>3 DEF VersionsAreSafe, NumbersStartAtOne, TypeOK, Name!NoVersion
    <3>7. "overlap" \notin mishaps => version[d] # version[a]
      BY <1>1, <3>3 DEF VersionsAreSafe, SerialVersions, NumberedInOrder, TypeOK
    <3>8. Name!Rollback
      BY <1>1, <2>1, <3>3, <3>5, <3>6, <3>7 DEF Name!Rollback
    <3> QED
      BY <3>8 DEF Name!Next
  <2> QED
    BY <1>2, <1>3, <2>2 DEF CommitRollback
<1>4. CASE CooldownEnds
  BY <1>2, <1>4 DEF CooldownEnds
<1>5. ASSUME NEW b \in Rollbacks, CheckCooldown(b) \/ RollbackStep(b)
      PROVE  [Name!Next]_(Name!registryVars)
  BY <1>2, <1>3, <1>5 DEF RollbackStep, CheckCooldown, ValidateTarget, RereadActive,
                          RecordCleanup
<1> QED
  BY <1>4, <1>5 DEF RollsBack

LEMMA RegistryDelete ==
  ASSUME TypeOK, NEW e \in Deletes, ListForDelete(e) \/ DeleteStep(e),
         mishaps \subseteq mishaps'
  PROVE  [Name!Next]_(Name!registryVars)
<1> USE DEF rowVars
<1>1. CASE UNCHANGED <<status, version>>
  BY <1>1, RegistryUnchanged
<1>2. CASE DeleteRows(e)
  <2>1. CASE status' = [d \in Deploys |-> "absent"] /\ UNCHANGED mishaps
    <3>1. Rows' = {} /\ Active' = {}
      BY <2>1 DEF Rows, Active
    <3>2. CurrentVersion' = Name!NoVersion
      BY <3>1, CurrentIs DEF Name!NoVersion
    <3>3. {version'[d] : d \in Rows'} = {}
      BY <3>1
    <3> QED
      BY <2>1, <3>2, <3>3 DEF Name!Next, Name!Delete
  <2> QED
    BY <1>1, <1>2, <2>1 DEF DeleteRows
<1> QED
  BY <1>1, <1>2 DEF DeleteStep, ListForDelete, GetDigest, DeleteImage

LEMMA RegistryInit == Init => Name!Init
<1> SUFFICES ASSUME Init PROVE Name!Init
  OBVIOUS
<1>1. TypeOK /\ NumberedInOrder /\ AtMostOneActive /\ "overlap" \notin mishaps
  BY TypeOKInit, NumbersInit, AtMostOneActiveInit DEF Init
<1> DEFINE n == NextVersion - 1
<1>2. n \in Nat /\ {version[d] : d \in Rows} = 1..n
  BY <1>1, NextVersionPositive DEF NumberedInOrder
<1>3. CASE Rows = {}
  <2>1. n = 0
    BY <1>3 DEF NextVersion, Latest
  <2>2. Active = {}
    BY <1>3 DEF Rows, Active
  <2> QED
    BY <1>1, <1>2, <2>1, <2>2, CurrentIs DEF Name!Init
<1>4. CASE Rows # {}
  <2>1. PICK a \in Active : TRUE
    BY <1>4, ServingInit DEF ServingUnlessDeploying, Init
  <2>2. Active = {a}
    BY <1>1 DEF AtMostOneActive
  <2>3. version[a] = Len(Past) /\ a \in Rows
    BY DEF Active, Rows, Init
  <2>4. \A d \in Rows : version[d] <= Len(Past)
    <3>1. \A d \in PastDeploys : PastNumber(d) \in 1..Len(Past)
      BY PastNumbers, DeployAssumption
    <3> QED
      BY <3>1, DeployAssumption DEF Init, Rows
  <2>5. Len(Past) = n
    <3>1. Len(Past) \in 1..n
      BY <1>2, <2>3
    <3>2. n \in 1..n
      BY <1>2, <3>1
    <3>3. PICK d \in Rows : version[d] = n
      BY <1>2, <3>2
    <3> QED
      BY <1>2, <2>4, <3>1, <3>3
  <2> QED
    BY <1>1, <1>2, <2>2, <2>3, <2>5, CurrentIs DEF Name!Init
<1> QED
  BY <1>3, <1>4

LEMMA RegistryNext ==
  VersionsAreSafe /\ VersionsAreSafe' /\ [Next]_vars => [Name!Next]_(Name!registryVars)
<1> SUFFICES ASSUME VersionsAreSafe, VersionsAreSafe', [Next]_vars
             PROVE  [Name!Next]_(Name!registryVars)
  OBVIOUS
<1>1. mishaps \subseteq mishaps'
  BY MishapsStay
<1>2. TypeOK /\ AtMostOneActive'
  BY DEF VersionsAreSafe
<1>3. ASSUME NEW d \in Deploys, DeployBegins(d) \/ DeployStep(d)
      PROVE  [Name!Next]_(Name!registryVars)
  <2>1. CASE DeployBegins(d)
    BY <1>1, <2>1, RegistryUnchanged DEF DeployBegins, rowVars
  <2> QED
    BY <1>1, <1>2, <1>3, <2>1, RegistryWork, RegistryCreate DEF DeployStep, Works
<1>4. CASE RollsBack
  BY <1>1, <1>2, <1>4, RegistryRollback
<1>5. ASSUME NEW e \in Deletes, ListForDelete(e) \/ DeleteStep(e)
      PROVE  [Name!Next]_(Name!registryVars)
  BY <1>1, <1>2, <1>5, RegistryDelete
<1>6. CASE UNCHANGED vars
  BY <1>1, <1>6, RegistryUnchanged DEF vars, rowVars
<1> QED
  BY <1>3, <1>4, <1>5, <1>6 DEF Next, RollsBack

\* The operations implement the registry, for any number of them and whatever
\* calls fail: call by call, a name shows what Registry allows.
THEOREM VersionsAreARegistry == Spec => ImplementsRegistry
<1>1. VersionsAreSafe /\ [Next]_vars => VersionsAreSafe'
  BY VersionsAreSafeStep
<1> QED
  BY <1>1, VersionsAreSafeInit, RegistryInit, RegistryNext, PTL
     DEF Spec, ImplementsRegistry, Name!Spec

-----------------------------------------------------------------------------
(* The entries of rollbacks *)

\* What RecordCleanup makes of an entry.
LEMMA EntriesCompleted ==
  ASSUME TypeOK, NEW b \in Rollbacks, NEW result \in {"completed", "failed"},
         history' = {IF h.fn = oldRow[b] /\ h.req = b
                     THEN [h EXCEPT !.cleanup = result] ELSE h : h \in history},
         NEW h \in history
  PROVE  /\ \E g \in history' : g.fn = h.fn /\ g.req = h.req
         /\ h.fn = oldRow[b] /\ h.req = b
               => \E g \in history' : g.req = b /\ g.cleanup = result
<1>1. h \in Entry
  BY DEF TypeOK
<1>2. CASE h.fn = oldRow[b] /\ h.req = b
  <2> DEFINE g == [h EXCEPT !.cleanup = result]
  <2>1. g \in history'
    BY <1>2
  <2>2. g.fn = h.fn /\ g.req = h.req /\ g.cleanup = result
    BY <1>1 DEF Entry
  <2> QED
    BY <1>2, <2>1, <2>2
<1>3. CASE ~(h.fn = oldRow[b] /\ h.req = b)
  BY <1>3
<1> QED
  BY <1>2, <1>3

LEMMA EntryAwaitsStep ==
  ASSUME TypeOK, EntryAwaits, [Next]_vars
  PROVE  EntryAwaits'
<1>1. CASE history \subseteq history' /\ UNCHANGED rbVars
  BY <1>1 DEF EntryAwaits, rbVars
<1>2. ASSUME NEW b \in Rollbacks, CommitRollback(b)
      PROVE  EntryAwaits'
  <2>1. \A c \in Rollbacks \ {b} : rpc'[c] = rpc[c] /\ oldRow'[c] = oldRow[c]
    BY <1>2 DEF CommitRollback, RollbackGoto, RollbackEnds, TypeOK
  <2>2. history \subseteq history'
    BY <1>2 DEF CommitRollback
  <2>3. CASE RollbackEnds(b, "error")
    BY <2>1, <2>2, <2>3 DEF RollbackEnds, RollbackGoto, EntryAwaits, TypeOK
  <2>4. CASE \E a \in Active, v \in Nat :
                /\ history' = history \cup {Transition(a, v, b)}
                /\ oldRow' = [oldRow EXCEPT ![b] = a]
    <3>1. PICK a \in Active, v \in Nat :
             /\ history' = history \cup {Transition(a, v, b)}
             /\ oldRow' = [oldRow EXCEPT ![b] = a]
      BY <2>4
    <3> DEFINE h == Transition(a, v, b)
    <3>2. h \in history' /\ h.fn = oldRow'[b] /\ h.req = b
      BY <3>1 DEF Transition, TypeOK
    <3> HIDE DEF h
    <3> QED
      BY <2>1, <2>2, <3>2 DEF EntryAwaits
  <2>5. \A a \in Active : \A d \in RollbackRows(b, a) : version[d] \in Nat
    BY RollbackRowsType DEF Active, TypeOK
  <2> QED
    BY <1>2, <2>3, <2>4, <2>5 DEF CommitRollback
<1>3. ASSUME NEW b \in Rollbacks, RecordCleanup(b)
      PROVE  EntryAwaits'
  <2>1. /\ rpc'[b] = "done"
        /\ \A c \in Rollbacks \ {b} : rpc'[c] = rpc[c] /\ oldRow'[c] = oldRow[c]
    BY <1>3 DEF RecordCleanup, RollbackEnds, RollbackGoto, TypeOK
  <2>2. \A h \in history : \E g \in history' : g.fn = h.fn /\ g.req = h.req
    BY <1>3, EntriesCompleted DEF RecordCleanup, TypeOK
  <2> QED
    BY <2>1, <2>2 DEF EntryAwaits
<1>4. ASSUME NEW b \in Rollbacks,
             CheckCooldown(b) \/ ValidateTarget(b) \/ RereadActive(b)
      PROVE  EntryAwaits'
  <2>1. UNCHANGED history
    BY <1>4 DEF CheckCooldown, ValidateTarget, RereadActive
  <2>2. \A c \in Rollbacks : rpc'[c] \in {"reread", "cleanup"}
           => rpc[c] \in {"reread", "cleanup"} /\ oldRow'[c] = oldRow[c]
    BY <1>4 DEF CheckCooldown, ValidateTarget, RereadActive, RollbackGoto, RollbackEnds,
                TypeOK
  <2> QED
    BY <2>1, <2>2 DEF EntryAwaits
<1>5. ASSUME NEW d \in Deploys, DeployBegins(d) \/ DeployStep(d)
      PROVE  EntryAwaits'
  BY <1>1, <1>5 DEF DeployStep, DeployBegins, BuildImage, TagImage, PushImage,
                    RemoveImage, NumberVersion, DeactivateFunctions, CreateFunction
<1>6. ASSUME NEW e \in Deletes, ListForDelete(e) \/ DeleteStep(e)
      PROVE  EntryAwaits'
  BY <1>1, <1>6 DEF DeleteStep, ListForDelete, GetDigest, DeleteImage, DeleteRows
<1>7. CASE CooldownEnds \/ UNCHANGED vars
  BY <1>7 DEF CooldownEnds, vars, rbVars, EntryAwaits
<1> QED
  BY <1>2, <1>3, <1>4, <1>5, <1>6, <1>7 DEF Next, RollbackStep

\* The goroutine of a cleanup writes its result to the entry of its own rollback,
\* or its statement fails: the safety half of CleanupIsRecorded.
THEOREM CleanupsEndRecorded ==
  Spec => [][\A b \in Rollbacks :
                rpc[b] = "cleanup" /\ rpc'[b] = "done"
                    => \/ \E h \in history' : h.req = b /\ h.cleanup # "pending"
                       \/ "cleanup" \in mishaps']_vars
<1> DEFINE Recorded ==
      \A b \in Rollbacks :
          rpc[b] = "cleanup" /\ rpc'[b] = "done"
              => \/ \E h \in history' : h.req = b /\ h.cleanup # "pending"
                 \/ "cleanup" \in mishaps'
<1>1. Init => TypeOK /\ EntryAwaits
  BY TypeOKInit DEF Init, EntryAwaits
<1>2. TypeOK /\ EntryAwaits /\ [Next]_vars => (TypeOK /\ EntryAwaits)'
  BY TypeOKStep, EntryAwaitsStep
<1>3. TypeOK /\ EntryAwaits /\ [Next]_vars => [Recorded]_vars
  <2> SUFFICES ASSUME TypeOK, EntryAwaits, Next, NEW b \in Rollbacks,
                      rpc[b] = "cleanup", rpc'[b] = "done"
               PROVE  \/ \E h \in history' : h.req = b /\ h.cleanup # "pending"
                      \/ "cleanup" \in mishaps'
    BY DEF vars, rbVars
  <2>1. RecordCleanup(b)
    <3>1. rpc' # rpc
      OBVIOUS
    <3>2. ASSUME NEW c \in Rollbacks, CheckCooldown(c) \/ RollbackStep(c)
          PROVE  RecordCleanup(b)
      <4>1. c = b
        BY <3>2 DEF RollbackStep, CheckCooldown, ValidateTarget, CommitRollback,
                    RereadActive, RecordCleanup, RollbackGoto, RollbackEnds, TypeOK
      <4> QED
        BY <3>2, <4>1 DEF RollbackStep, CheckCooldown, ValidateTarget, CommitRollback,
                          RereadActive
    <3>3. ASSUME NEW d \in Deploys, DeployBegins(d) \/ DeployStep(d)
          PROVE  UNCHANGED rpc
      BY <3>3 DEF DeployStep, DeployBegins, BuildImage, TagImage, PushImage, RemoveImage,
                  NumberVersion, DeactivateFunctions, CreateFunction, rbVars
    <3>4. ASSUME NEW e \in Deletes, ListForDelete(e) \/ DeleteStep(e)
          PROVE  UNCHANGED rpc
      BY <3>4 DEF DeleteStep, ListForDelete, GetDigest, DeleteImage, DeleteRows, rbVars
    <3>5. CooldownEnds => UNCHANGED rpc
      BY DEF CooldownEnds
    <3> QED
      BY <3>1, <3>2, <3>3, <3>4, <3>5 DEF Next
  <2>2. PICK h \in history : h.fn = oldRow[b] /\ h.req = b
    BY DEF EntryAwaits
  <2>3. CASE \E result \in {"completed", "failed"} :
                history' = {IF g.fn = oldRow[b] /\ g.req = b
                            THEN [g EXCEPT !.cleanup = result] ELSE g : g \in history}
    <3>1. PICK result \in {"completed", "failed"} :
             history' = {IF g.fn = oldRow[b] /\ g.req = b
                         THEN [g EXCEPT !.cleanup = result] ELSE g : g \in history}
      BY <2>3
    <3>2. \E g \in history' : g.req = b /\ g.cleanup = result
      BY <2>2, <3>1, EntriesCompleted
    <3> QED
      BY <3>2
  <2> QED
    BY <2>1, <2>3 DEF RecordCleanup, Happens
<1> HIDE DEF Recorded
<1>4. Spec => [][Recorded]_vars
  BY <1>1, <1>2, <1>3, PTL DEF Spec
<1> QED
  BY <1>4 DEF Recorded

===============================================================================
