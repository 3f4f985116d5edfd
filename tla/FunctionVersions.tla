--------------------------- MODULE FunctionVersions ---------------------------
(***************************************************************************)
(* The versions of one function name, and the operations that make, choose *)
(* and destroy them at the same time: deployments (internal/api/deploy.go, *)
(* internal/service/deploy_service.go), rollbacks                          *)
(* (internal/service/rollback_service.go) and deletions                    *)
(* (internal/service/delete_service.go), over the functions and            *)
(* version_history tables (internal/sqlite/store/function_store.go), the   *)
(* images of the Docker daemon and the tags of the registry.               *)
(*                                                                         *)
(* A deployment inserts at most one row and builds one image, so it also   *)
(* names both.  A version is the number n of the string "vn"; created_at   *)
(* is the reading of a clock that never reads the same twice.              *)
(***************************************************************************)
EXTENDS Naturals, Sequences, FiniteSets

CONSTANTS
    Deploys,    \* deployments of the name
    Past,       \* those that ended before the start, in order, as a sequence
    Rollbacks,  \* rollbacks that may be asked for
    Deletes,    \* deletions that may be asked for
    None,
    Faults      \* the calls that may fail, by name

FaultNames == {"image", "silentPush", "query", "deactivate", "create",
               "registry", "delete", "cleanup"}

PastDeploys == {Past[i] : i \in DOMAIN Past}

ASSUME DeployAssumption ==
    /\ Past \in Seq(Deploys) /\ None \notin Deploys \cup Rollbacks
    /\ \A i, j \in DOMAIN Past : Past[i] = Past[j] => i = j
ASSUME FaultAssumption == Faults \subseteq FaultNames

VARIABLES
    status, version, created,  \* functions: the row each deployment inserts
    history,                   \* version_history, as a set of entries
    local,                     \* the image that the local tag "name" names
    localTags, tags,           \* versions that name each image: daemon, registry
    clock,
    dpc, built,                \* each deployment: where it is, version to push
    rpc, target, oldRow,       \* each rollback: where, asked version, row left
    cooling,                   \* the cooldown of rollbacks is in effect
    epc, listed, doomed,       \* each deletion: where, versions to look up, and
                               \* versions found, with their images
    mishaps                    \* history: which of Mishaps have happened

rowVars  == <<status, version, created>>
imgVars  == <<local, localTags, tags>>
depVars  == <<dpc, built, clock>>
rbVars   == <<rpc, target, oldRow, cooling>>
delVars  == <<epc, listed, doomed>>
vars == <<rowVars, history, imgVars, depVars, rbVars, delVars, mishaps>>

-----------------------------------------------------------------------------
(* Values *)

RowStatus == {"absent", "active", "inactive"}

\* The last three: the row was inserted; it was not, though the client was
\* told that the function is live; the client was told of an error.
DeployLabel == {"new", "build", "tag", "push", "untag", "number", "deactivate",
                "create", "live", "lost", "error"}
Deploying   == {"build", "tag", "push", "untag", "number", "deactivate", "create"}

RollbackLabel == {"new", "validate", "commit", "reread", "cleanup",
                  "done", "panic", "error"}

DeleteLabel == {"new", "images", "done", "refused", "error"}

\* A deployment or deletion that began while another was under way; a push that
\* failed unseen; rows and an entry that could not be deleted or updated.
Mishaps == {"overlap", "silentPush", "delete", "cleanup"}

\* No target version: roll back to the one before.
Implicit == 0

\* The entry of a deployment has no request_id; cleanup is "pending" by default.
Entry == [fn : Deploys, from : Nat, to : Nat, req : Rollbacks \cup {None},
          cleanup : {"pending", "completed", "failed"}]

Transition(d, to, req) ==
    [fn |-> d, from |-> version[d], to |-> to, req |-> req, cleanup |-> "pending"]

TypeOK ==
    /\ status \in [Deploys -> RowStatus]
    /\ version \in [Deploys -> Nat]
    /\ created \in [Deploys -> Nat]
    /\ history \subseteq Entry
    /\ local \in Deploys \cup {None}
    /\ localTags \in [Deploys -> SUBSET Nat]
    /\ tags \in [Deploys -> SUBSET Nat]
    /\ clock \in Nat
    /\ dpc \in [Deploys -> DeployLabel]
    /\ built \in [Deploys -> Nat]
    /\ rpc \in [Rollbacks -> RollbackLabel]
    /\ target \in [Rollbacks -> Nat]
    /\ oldRow \in [Rollbacks -> Deploys \cup {None}]
    /\ cooling \in BOOLEAN
    /\ epc \in [Deletes -> DeleteLabel]
    /\ listed \in [Deletes -> SUBSET Nat]
    /\ doomed \in [Deletes -> SUBSET (Nat \X Deploys)]
    /\ mishaps \subseteq Mishaps

-----------------------------------------------------------------------------
(* The tables and the images *)

Rows   == {d \in Deploys : status[d] # "absent"}
Active == {d \in Deploys : status[d] = "active"}

\* ORDER BY created_at DESC LIMIT 1
Latest(rows) == {d \in rows : \A e \in rows : created[e] <= created[d]}

\* Slip: the version after the one that is active.
NextAfterActive == IF Rows = {} THEN 1
                   ELSE IF Active = {} THEN Cardinality(Rows) + 1
                   ELSE version[CHOOSE d \in Active : TRUE] + 1

\* GetNextVersion: one more than the version of the latest row, or "v1".
NextVersion == IF Latest(Rows) = {} THEN 1
               ELSE version[CHOOSE d \in Latest(Rows) : TRUE] + 1

\* A tag is moved to the image of d.
MoveTag(table, v, d) ==
    [e \in Deploys |-> IF e = d THEN table[e] \cup {v} ELSE table[e] \ {v}]

\* The deployments of Past ran one after the other; the last is active.
PastNumber(d) == CHOOSE i \in DOMAIN Past : Past[i] = d

Init ==
    /\ status = [d \in Deploys |->
                    IF d \notin PastDeploys THEN "absent"
                    ELSE IF PastNumber(d) = Len(Past) THEN "active" ELSE "inactive"]
    /\ version = [d \in Deploys |-> IF d \in PastDeploys THEN PastNumber(d) ELSE 0]
    /\ created = version
    /\ history = {}
    /\ local = None
    /\ tags = [d \in Deploys |-> IF d \in PastDeploys THEN {PastNumber(d)} ELSE {}]
    /\ localTags = tags
    /\ clock = Len(Past)
    /\ dpc = [d \in Deploys |-> IF d \in PastDeploys THEN "live" ELSE "new"]
    /\ built = [d \in Deploys |-> 0]
    /\ rpc = [b \in Rollbacks |-> "new"]
    /\ target = [b \in Rollbacks |-> Implicit]
    /\ oldRow = [b \in Rollbacks |-> None]
    /\ cooling = FALSE
    /\ epc = [e \in Deletes |-> "new"]
    /\ listed = [e \in Deletes |-> {}]
    /\ doomed = [e \in Deletes |-> {}]
    /\ mishaps = {}

Busy == (\E d \in Deploys : dpc[d] \in Deploying) \/ (\E e \in Deletes : epc[e] = "images")

Happens(m) == mishaps' = mishaps \cup {m}

Begins == IF Busy THEN Happens("overlap") ELSE UNCHANGED mishaps

-----------------------------------------------------------------------------
(* Deployments *)

\* A call to the daemon fails before it has done anything: one that fails after,
\* as when its answer is lost, leaves what the failure of the next call leaves.

DeployGoto(d, l) == dpc' = [dpc EXCEPT ![d] = l]

DeployBegins(d) ==
    /\ dpc[d] = "new"
    /\ DeployGoto(d, "build")
    /\ Begins
    /\ UNCHANGED <<rowVars, history, imgVars, built, clock, rbVars, delVars>>

\* BuildImage tags the image with the bare name, which every deployment of the
\* name shares.
BuildImage(d) ==
    /\ dpc[d] = "build"
    /\ \/ local' = d /\ DeployGoto(d, "tag")
       \/ "image" \in Faults /\ DeployGoto(d, "error") /\ UNCHANGED local
    /\ UNCHANGED <<rowVars, history, localTags, tags, built, clock, rbVars, delVars, mishaps>>

\* Deploy reads the next version and gives its tag to the image that the bare
\* name has now.  The read and the tag are one step: a deployment or deletion that
\* comes in between overlaps with this one.
TagImage(d) ==
    /\ dpc[d] = "tag"
    /\ \/ /\ local # None
          /\ built' = [built EXCEPT ![d] = NextVersion]
          /\ localTags' = MoveTag(localTags, NextVersion, local)
          /\ DeployGoto(d, "push")
       \/ /\ local = None \/ {"image", "query"} \cap Faults # {}
          /\ DeployGoto(d, "error")
          /\ UNCHANGED <<built, localTags>>
    /\ UNCHANGED <<rowVars, history, local, tags, clock, rbVars, delVars, mishaps>>

\* PushImage: the image that has the tag now.  A failure that the daemon
\* reports inside its answer is discarded with the answer.
PushImage(d) ==
    /\ dpc[d] = "push"
    /\ \/ /\ \E e \in Deploys : /\ built[d] \in localTags[e]
                                /\ tags' = MoveTag(tags, built[d], e)
          /\ DeployGoto(d, "untag")
          /\ UNCHANGED mishaps
       \/ /\ "silentPush" \in Faults \/ \A e \in Deploys : built[d] \notin localTags[e]
          /\ DeployGoto(d, "untag")
          /\ Happens("silentPush")
          /\ UNCHANGED tags
       \/ /\ "image" \in Faults
          /\ DeployGoto(d, "error")
          /\ UNCHANGED <<tags, mishaps>>
    /\ built' = [built EXCEPT ![d] = 0]
    /\ UNCHANGED <<rowVars, history, local, localTags, clock, rbVars, delVars>>

\* RemoveImage takes the bare name away; without it, the deployment fails.
RemoveImage(d) ==
    /\ dpc[d] = "untag"
    /\ \/ /\ local # None
          /\ local' = None
          /\ DeployGoto(d, "number")
       \/ /\ local = None \/ "image" \in Faults
          /\ DeployGoto(d, "error")
          /\ UNCHANGED local
    /\ UNCHANGED <<rowVars, history, localTags, tags, built, clock, rbVars, delVars, mishaps>>

\* The handler asks for the next version again.  Errors from here to the
\* deactivation end the request with neither status nor message.
NumberVersion(d) ==
    /\ dpc[d] = "number"
    /\ \/ version' = [version EXCEPT ![d] = NextVersion] /\ DeployGoto(d, "deactivate")
       \/ "query" \in Faults /\ DeployGoto(d, "error") /\ UNCHANGED version
    /\ UNCHANGED <<status, created, history, imgVars, built, clock, rbVars, delVars, mishaps>>

\* DeactivateFunctions: every row of the name; an error is only logged.  Then
\* CreatedAt is read from the clock.
DeactivateFunctions(d) ==
    /\ dpc[d] = "deactivate"
    /\ \/ status' = [e \in Deploys |-> IF e \in Rows THEN "inactive" ELSE "absent"]
       \/ "deactivate" \in Faults /\ UNCHANGED status
    /\ clock' = clock + 1
    /\ created' = [created EXCEPT ![d] = clock + 1]
    /\ DeployGoto(d, "create")
    /\ UNCHANGED <<version, history, imgVars, built, rbVars, delVars, mishaps>>

\* Slip: the caller has deactivated the other rows, so why look for them.
CreateWithoutDeactivating(d) ==
    /\ dpc[d] = "create"
    /\ status' = [status EXCEPT ![d] = "active"]
    /\ DeployGoto(d, "live")
    /\ UNCHANGED <<version, created, history, imgVars, built, clock, rbVars, delVars, mishaps>>

\* CreateFunction: one transaction records the end of the active row it finds,
\* deactivates it and inserts the new one, active.  On an error nothing is
\* written, and the client is still told that the function is live.
CreateFunction(d) ==
    /\ dpc[d] = "create"
    /\ \/ /\ Active = {}
          /\ status' = [status EXCEPT ![d] = "active"]
          /\ DeployGoto(d, "live")
          /\ UNCHANGED history
       \/ \E a \in Active :
             /\ history' = history \cup {Transition(a, version[d], None)}
             /\ status' = [status EXCEPT ![a] = "inactive", ![d] = "active"]
             /\ DeployGoto(d, "live")
       \/ /\ "create" \in Faults
          /\ DeployGoto(d, "lost")
          /\ UNCHANGED <<status, history>>
    /\ UNCHANGED <<version, created, imgVars, built, clock, rbVars, delVars, mishaps>>

-----------------------------------------------------------------------------
(* Rollbacks *)

RollbackGoto(b, l) == rpc' = [rpc EXCEPT ![b] = l]

\* Rollback or its goroutine returns: its locals are gone.
RollbackEnds(b, l) ==
    /\ RollbackGoto(b, l)
    /\ target' = [target EXCEPT ![b] = Implicit]
    /\ oldRow' = [oldRow EXCEPT ![b] = None]

\* The request names a version, or none, and is refused within the cooldown.
CheckCooldown(b) ==
    /\ rpc[b] = "new"
    /\ \/ /\ ~cooling
          /\ \E v \in {version[d] : d \in Rows} \cup {Implicit} :
                target' = [target EXCEPT ![b] = v]
          /\ RollbackGoto(b, "validate")
          /\ UNCHANGED oldRow
       \/ /\ cooling
          /\ RollbackEnds(b, "error")
    /\ UNCHANGED <<rowVars, history, imgVars, depVars, cooling, delVars, mishaps>>

\* validateImageExists, for an explicit target: some row has that version.
ValidateTarget(b) ==
    /\ rpc[b] = "validate"
    /\ \/ /\ target[b] = Implicit \/ \E d \in Rows : version[d] = target[b]
          /\ RollbackGoto(b, "commit")
          /\ UNCHANGED <<target, oldRow>>
       \/ /\ target[b] # Implicit
          /\ "query" \in Faults \/ \A d \in Rows : version[d] # target[b]
          /\ RollbackEnds(b, "error")
    /\ UNCHANGED <<rowVars, history, imgVars, depVars, cooling, delVars, mishaps>>

\* Slip: ORDER BY created_at ASC.
OldestRows(b, a) ==
    IF target[b] = Implicit
    THEN {d \in Rows : created[d] < created[a] /\ \A e \in Rows : created[d] <= created[e]}
    ELSE {d \in Rows : status[d] = "inactive" /\ version[d] = target[b]}

\* The row to activate instead of a: an inactive one of the version asked for,
\* or the latest of those created before a.
RollbackRows(b, a) ==
    IF target[b] = Implicit
    THEN Latest({d \in Rows : created[d] < created[a]})
    ELSE {d \in Rows : status[d] = "inactive" /\ version[d] = target[b]}

\* Slip: the target is activated first, and may be the row to deactivate.
ActivateThenDeactivate(b) ==
    /\ rpc[b] = "commit"
    /\ \E a \in Active, d \in Rows :
          /\ version[d] = target[b]
          /\ status' = [status EXCEPT ![d] = "active", ![a] = "inactive"]
          /\ history' = history \cup {Transition(a, version[d], b)}
          /\ oldRow' = [oldRow EXCEPT ![b] = a]
    /\ RollbackGoto(b, "reread")
    /\ UNCHANGED <<version, created, imgVars, depVars, target, cooling, delVars, mishaps>>

\* RollbackToVersionWithID: one transaction moves the active status and records
\* the move under a request_id that no other rollback has.
CommitRollback(b) ==
    /\ rpc[b] = "commit"
    /\ \/ /\ \E a \in Active : \E d \in RollbackRows(b, a) :
                /\ status' = [status EXCEPT ![a] = "inactive", ![d] = "active"]
                /\ history' = history \cup {Transition(a, version[d], b)}
                /\ oldRow' = [oldRow EXCEPT ![b] = a]
          /\ RollbackGoto(b, "reread")
          /\ UNCHANGED target
       \/ /\ "query" \in Faults \/ \A a \in Active : RollbackRows(b, a) = {}
          /\ RollbackEnds(b, "error")
          /\ UNCHANGED <<status, history>>
    /\ UNCHANGED <<version, created, imgVars, depVars, cooling, delVars, mishaps>>

\* GetActiveFunction, the start of the cooldown, and the version of the row,
\* which panics when there is none.
RereadActive(b) ==
    /\ rpc[b] = "reread"
    /\ \/ /\ Active # {}
          /\ cooling' = TRUE
          /\ RollbackGoto(b, "cleanup")
          /\ UNCHANGED <<target, oldRow>>
       \/ /\ Active = {}
          /\ cooling' = TRUE
          /\ RollbackEnds(b, "panic")
       \/ /\ "query" \in Faults
          /\ RollbackEnds(b, "error")
          /\ UNCHANGED cooling
    /\ UNCHANGED <<rowVars, history, imgVars, depVars, delVars, mishaps>>

\* Slips: a status of another name; the entry of the row that is active now.
RecordCleanupSuccess(b) ==
    /\ rpc[b] = "cleanup"
    /\ history' = {IF h.fn = oldRow[b] /\ h.req = b
                   THEN [h EXCEPT !.cleanup = "success"] ELSE h : h \in history}
    /\ RollbackEnds(b, "done")
    /\ UNCHANGED <<rowVars, imgVars, depVars, cooling, delVars, mishaps>>

RecordCleanupOfActive(b) ==
    /\ rpc[b] = "cleanup"
    /\ history' = {IF h.fn \in Active /\ h.req = b
                   THEN [h EXCEPT !.cleanup = "completed"] ELSE h : h \in history}
    /\ RollbackEnds(b, "done")
    /\ UNCHANGED <<rowVars, imgVars, depVars, cooling, delVars, mishaps>>

\* The cleanup goroutine ends and writes how it ended to the entry of the row
\* that was left and of this request.
RecordCleanup(b) ==
    /\ rpc[b] = "cleanup"
    /\ \/ /\ \E result \in {"completed", "failed"} :
                history' = {IF h.fn = oldRow[b] /\ h.req = b
                            THEN [h EXCEPT !.cleanup = result] ELSE h : h \in history}
          /\ UNCHANGED mishaps
       \/ "cleanup" \in Faults /\ Happens("cleanup") /\ UNCHANGED history
    /\ RollbackEnds(b, "done")
    /\ UNCHANGED <<rowVars, imgVars, depVars, cooling, delVars>>

CooldownEnds ==
    /\ cooling
    /\ cooling' = FALSE
    /\ UNCHANGED <<rowVars, history, imgVars, depVars, rpc, target, oldRow, delVars, mishaps>>

-----------------------------------------------------------------------------
(* Deletions *)

DeleteGoto(e, l) == epc' = [epc EXCEPT ![e] = l]

ListForDelete(e) ==
    /\ epc[e] = "new"
    /\ \/ /\ Rows # {}
          /\ listed' = [listed EXCEPT ![e] = {version[d] : d \in Rows}]
          /\ DeleteGoto(e, "images")
          /\ Begins
       \/ /\ Rows = {} \/ "query" \in Faults
          /\ DeleteGoto(e, "refused")
          /\ UNCHANGED <<listed, mishaps>>
    /\ UNCHANGED <<rowVars, history, imgVars, depVars, rbVars, doomed>>

\* One goroutine per version looks up the digest of its tag.  A tag that is not
\* there, and a registry that is away, are passed over.
GetDigest(e) ==
    /\ epc[e] = "images"
    /\ \E v \in listed[e] :
          /\ listed' = [listed EXCEPT ![e] = @ \ {v}]
          /\ \/ \E d \in Deploys :
                   /\ v \in tags[d]
                   /\ doomed' = [doomed EXCEPT ![e] = @ \cup {<<v, d>>}]
             \/ /\ "registry" \in Faults \/ \A d \in Deploys : v \notin tags[d]
                /\ UNCHANGED doomed
    /\ UNCHANGED <<rowVars, history, imgVars, depVars, rbVars, epc, mishaps>>

\* The manifest goes, with every tag that names it.  A failure is passed over,
\* and a registry that cannot delete costs the daemon its own tag instead.
DeleteImage(e) ==
    /\ epc[e] = "images"
    /\ \E found \in doomed[e] :
          /\ doomed' = [doomed EXCEPT ![e] = @ \ {found}]
          /\ \/ /\ tags' = [tags EXCEPT ![found[2]] = {}]
                /\ UNCHANGED localTags
             \/ /\ "registry" \in Faults
                /\ UNCHANGED <<tags, localTags>>
             \/ /\ "registry" \in Faults
                /\ localTags' = [c \in Deploys |-> localTags[c] \ {found[1]}]
                /\ UNCHANGED tags
    /\ UNCHANGED <<rowVars, history, local, depVars, rbVars, epc, listed, mishaps>>

\* DeleteFunction: every row of the name, those inserted meanwhile among them.
DeleteRows(e) ==
    /\ epc[e] = "images" /\ listed[e] = {} /\ doomed[e] = {}
    /\ \/ /\ status' = [d \in Deploys |-> "absent"]
          /\ DeleteGoto(e, "done")
          /\ UNCHANGED mishaps
       \/ /\ "delete" \in Faults
          /\ DeleteGoto(e, "error")
          /\ Happens("delete")
          /\ UNCHANGED status
    /\ UNCHANGED <<version, created, history, imgVars, depVars, rbVars, listed, doomed>>

-----------------------------------------------------------------------------
(* The specification *)

DeployStep(d) ==
    \/ BuildImage(d) \/ TagImage(d) \/ PushImage(d) \/ RemoveImage(d)
    \/ NumberVersion(d) \/ DeactivateFunctions(d) \/ CreateFunction(d)

RollbackStep(b) ==
    ValidateTarget(b) \/ CommitRollback(b) \/ RereadActive(b) \/ RecordCleanup(b)

DeleteStep(e) == GetDigest(e) \/ DeleteImage(e) \/ DeleteRows(e)

Next ==
    \/ \E d \in Deploys : DeployBegins(d) \/ DeployStep(d)
    \/ \E b \in Rollbacks : CheckCooldown(b) \/ RollbackStep(b)
    \/ CooldownEnds
    \/ \E e \in Deletes : ListForDelete(e) \/ DeleteStep(e)

Spec == Init /\ [][Next]_vars

\* A handler that has begun goes on: every call returns.
Fairness ==
    /\ \A d \in Deploys : WF_vars(DeployStep(d))
    /\ \A b \in Rollbacks : WF_vars(RollbackStep(b))
    /\ \A e \in Deletes : WF_vars(DeleteStep(e))

FairSpec == Spec /\ Fairness

-----------------------------------------------------------------------------
(* Properties *)

\* However deployments, rollbacks and deletions overlap and fail, requests for
\* the name are never sent to two versions.
AtMostOneActive == \A d, e \in Active : d = e

\* A name that has rows has an active one: no rollback, deletion or failure takes
\* it away, in any order.  Only a deployment does, between its two statements and
\* for good when the second fails; so that nothing is said any more once a
\* deployment has lost its row, not even after the next one has succeeded.
ServingUnlessDeploying ==
    Rows # {} /\ Active = {} => \E d \in Deploys : dpc[d] \in {"create", "lost"}

\* Every row can be invoked: the tag that its version stands for names the
\* image its own deployment built, through failed deployments, rollbacks and
\* numbers that are used again.  Not so after deployments or deletions that
\* overlapped, a push that failed unseen, or a deletion that kept its rows.
RowsHaveTheirImage ==
    /\ mishaps \cap {"overlap", "silentPush", "delete"} = {}
    /\ \A e \in Deletes : epc[e] # "images"
    => \A d \in Rows : version[d] \in tags[d]

\* A rollback without a target goes back by one version exactly, also after
\* other rollbacks, and after deployments that failed or were deleted.
StepsBack ==
    [][\A b \in Rollbacks :
          /\ "overlap" \notin mishaps
          /\ rpc[b] = "commit" /\ rpc'[b] = "reread" /\ target[b] = Implicit
          => \E d \in Active', a \in Active :
                /\ version[d] < version[a]
                /\ \A e \in Rows : ~(version[d] < version[e] /\ version[e] < version[a])]_vars

\* When the cleanup of a rollback ends, its own entry in the history says so,
\* even though the name has been deployed, rolled back or deleted meanwhile.
CleanupIsRecorded ==
    \A b \in Rollbacks :
        rpc[b] = "cleanup" /\ "cleanup" \notin mishaps
            ~> \/ \E h \in history : h.req = b /\ h.cleanup # "pending"
               \/ "cleanup" \in mishaps

-----------------------------------------------------------------------------
(* What they add up to *)

CurrentVersion == IF Active = {} THEN 0 ELSE version[CHOOSE d \in Active : TRUE]

Name == INSTANCE Registry WITH versions <- {version[d] : d \in Rows},
                               current  <- CurrentVersion,
                               serial   <- "overlap" \notin mishaps

\* The operations on a name, call by call and with their failures, are those of
\* a registry of versions: each step is one of its steps, or changes nothing that
\* it shows.  In particular a number is not given twice, and none is left out, by
\* deployments after rollbacks, failed deployments, lost rows and deletions.
ImplementsRegistry == Name!Spec

-----------------------------------------------------------------------------
(* Why they hold: an inductive strengthening *)

RowsAreLive == \A d \in Rows : dpc[d] = "live"

NumbersStartAtOne ==
    \A d \in Deploys : d \in Rows \/ dpc[d] \in {"deactivate", "create"} => version[d] > 0

ClockIsAhead == \A d \in Deploys : created[d] <= clock

OneImagePerTag == \A d, e \in Deploys : localTags[d] \cap localTags[e] # {} => d = e

\* As long as nothing overlapped: one deployment or deletion is under way.
OneAtATime ==
    /\ \A c, d \in Deploys : dpc[c] \in Deploying /\ dpc[d] \in Deploying => c = d
    /\ \A e, f \in Deletes : epc[e] = "images" /\ epc[f] = "images" => e = f
    /\ \A d \in Deploys, e \in Deletes : dpc[d] \in Deploying => epc[e] # "images"

\* The rows have the versions below the next one, each once, in the order of
\* their creation.
NumberedInOrder ==
    /\ {version[d] : d \in Rows} = 1..(NextVersion - 1)
    /\ \A d, e \in Rows :
          \/ d = e
          \/ version[d] < version[e] /\ created[d] < created[e]
          \/ version[e] < version[d] /\ created[e] < created[d]

\* The number that a deployment has read, or its image was given, is the next.
NextIsTaken ==
    \A d \in Deploys :
        /\ dpc[d] = "tag" => local = d
        /\ dpc[d] = "push" => built[d] = NextVersion /\ built[d] \in localTags[d]
        /\ dpc[d] \in {"untag", "number", "deactivate", "create"} /\ "silentPush" \notin mishaps
              => NextVersion \in tags[d]
        /\ dpc[d] \in {"deactivate", "create"} => version[d] = NextVersion
        /\ dpc[d] = "create" => \A e \in Rows : created[e] < created[d]

SerialVersions ==
    "overlap" \notin mishaps => OneAtATime /\ NumberedInOrder /\ NextIsTaken

\* A rollback that has committed finds the entry that it is to complete.
EntryAwaits ==
    \A b \in Rollbacks :
        rpc[b] \in {"reread", "cleanup"}
            => \E h \in history : h.fn = oldRow[b] /\ h.req = b

VersionsAreSafe ==
    /\ TypeOK /\ AtMostOneActive
    /\ RowsAreLive /\ NumbersStartAtOne /\ ClockIsAhead /\ OneImagePerTag
    /\ SerialVersions /\ RowsHaveTheirImage

-----------------------------------------------------------------------------
(* What comments of the source say, and the code does not do *)

\* "This ensures atomicity and prevents race conditions"
\* (rollback_service.go:78): no rollback that committed panics for want of an
\* active version.
RollbackAnswers == \A b \in Rollbacks : rpc[b] # "panic"

\* "If function exists with active version, deactivate it and record
\* transition" (function_store.go:97): a deployment that replaced an earlier
\* version is in the history.
DeploymentIsRecorded ==
    \A d \in Rows \ PastDeploys :
        version[d] > 1 => \E h \in history : h.to = version[d] /\ h.req = None

=============================================================================
