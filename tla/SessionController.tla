-------------------------- MODULE SessionController --------------------------
(***************************************************************************)
(* One AmaltheaSession of the Interactive type and the reconciler that     *)
(* looks after it (internal/controller/amaltheasession_controller.go), on  *)
(* a Kubernetes API server with optimistic concurrency and an informer     *)
(* cache that may lag behind it.                                           *)
(*                                                                         *)
(* A resource version only ever serves to tell whether a copy is of the    *)
(* current version: every copy of the custom resource carries that answer  *)
(* (cacheFresh, rec.fresh) instead of a number.                            *)
(***************************************************************************)
EXTENDS SessionStatus, FiniteSets

CONSTANTS
    Adopted,      \* names of the secrets the custom resource adopts
    Strategy,     \* spec.reconcileStrategy
    InformerLag,  \* may a read from the cache be out of date?
    Activity,     \* the kinds of events, failures and user actions that happen
    MaxTime       \* bound: the clock stops there

ASSUME StrategyAssumption == Strategy \in {"always", "never", "whenFailedOrHibernated"}
ASSUME LagAssumption == InformerLag \in BOOLEAN
ASSUME TimeAssumption == MaxTime \in Nat \ {0}

CreationTimestamp == 1

VARIABLES
    api,         \* the custom resource on the API server
    cache,       \* the informer's copy of it
    cacheFresh,  \* is cache of the current resource version?
    sts,         \* the StatefulSet on the API server
    stsCache,    \* the informer's copy of it
    ingress,     \* does the Ingress exist?
    pod,         \* the session pod: its phase and run ID annotation
    events,      \* the Kubernetes events the reconciler looks at
    secrets,     \* the adopted secrets that exist
    rec,         \* the reconciliation pass in progress
    now          \* the wall clock

crVars == <<api, cache, cacheFresh>>
clusterVars == <<sts, stsCache, ingress, pod, events>>
vars == <<crVars, clusterVars, secrets, rec, now>>

CustomResource == [exists: BOOLEAN, deleting: BOOLEAN, finalizer: BOOLEAN,
                   hibernated: BOOLEAN, lastInteraction: Nat, status: Status]

StatefulSet == [exists: BOOLEAN, replicas: {0, 1}, runID: RunID]

\* pc is the next call of the pass to the API server.
PC == {"idle", "firstStatus", "firstConflict", "firstRetry", "finalizer",
       "deletingStatus", "deletingConflict", "deletingRetry", "deleteSecrets",
       "removeFinalizer", "children", "status", "conflict", "retry", "finish"}

NewCR == [exists |-> TRUE, deleting |-> FALSE, finalizer |-> FALSE,
          hibernated |-> FALSE, lastInteraction |-> Zero, status |-> NewStatus]

Gone == [NewCR EXCEPT !.exists = FALSE]

NoUpdates == [replicas |-> 0, callback |-> "none"]

Idle == [pc |-> "idle", obj |-> NewCR, fresh |-> FALSE, updates |-> NoUpdates]

TypeOK ==
    /\ api \in CustomResource
    /\ cache \in CustomResource
    /\ cacheFresh \in BOOLEAN
    /\ sts \in StatefulSet
    /\ stsCache \in StatefulSet
    /\ ingress \in BOOLEAN
    /\ pod \in [phase: PodPhase, runID: RunID]
    /\ events \in Events
    /\ secrets \in SUBSET Adopted
    /\ rec \in [pc: PC, obj: CustomResource, fresh: BOOLEAN,
                updates: [replicas: {0, 1}, callback: Callback]]
    /\ now \in Nat \ {0}

\* A session may be created hibernated.
Init ==
    /\ \E hibernated \in BOOLEAN : api = [NewCR EXCEPT !.hibernated = hibernated]
    /\ cache = api
    /\ cacheFresh = TRUE
    /\ sts = [exists |-> FALSE, replicas |-> 0, runID |-> NoRun]
    /\ stsCache = sts
    /\ ingress = FALSE
    /\ pod = [phase |-> "none", runID |-> NoRun]
    /\ events = [podEvent |-> "none", quota |-> FALSE]
    /\ secrets = Adopted
    /\ rec = Idle
    /\ now = CreationTimestamp

-----------------------------------------------------------------------------
(***************************************************************************)
(* The API server and the informer, as the reconciler's client uses them.  *)
(***************************************************************************)

\* A write that changes nothing keeps the resource version.
Store(cr) ==
    /\ api' = cr
    /\ IF InformerLag
       THEN cache' = cache /\ cacheFresh' = (cacheFresh /\ cr = api)
       ELSE cache' = cr /\ cacheFresh' = TRUE

StoreStatefulSet(s) ==
    /\ sts' = s
    /\ stsCache' = IF InformerLag THEN stsCache ELSE s

\* A write is accepted when it is based on the current version, and may
\* fail for other reasons too when API calls can.
Accepted == api.exists /\ rec.fresh
Rejected == ~Accepted \/ "apiError" \in Activity

\* An object without finalizers is removed, else marked for deletion.
Deleted(cr) == IF cr.finalizer THEN [cr EXCEPT !.deleting = TRUE]
                               ELSE Gone

\* The pass goes on at pc with obj as the API server returned it.
GoOn(pc, obj) == rec' = [rec EXCEPT !.pc = pc, !.obj = obj, !.fresh = TRUE]

\* The pass returns; controller-runtime runs it again, on an error sooner.
Return == rec' = Idle

SyncCR ==
    /\ ~cacheFresh
    /\ cache' = api /\ cacheFresh' = TRUE
    /\ UNCHANGED <<api, clusterVars, secrets, rec, now>>

SyncStatefulSet ==
    /\ stsCache # sts
    /\ stsCache' = sts
    /\ UNCHANGED <<crVars, sts, ingress, pod, events, secrets, rec, now>>

-----------------------------------------------------------------------------
(***************************************************************************)
(* The reconciliation pass, one action per call to the API server.         *)
(***************************************************************************)

\* Where a pass goes once it holds a copy of the custom resource that is
\* not being deleted and has its first status.
AfterFirstStatus(cr) ==
    IF Adopted # {} /\ ~cr.finalizer THEN "finalizer" ELSE "children"

\* Faulty variant: the finalizer is never handled.
AfterDeletingStatusIgnored(cr) == Return

AfterDeletingStatus(cr) == IF cr.finalizer THEN GoOn("deleteSecrets", cr) ELSE Return

Get ==
    /\ rec.pc = "idle"
    /\ cache.exists
    /\ rec' = [pc |-> IF cache.deleting THEN "deletingStatus"
                      ELSE IF cache.status = NewStatus THEN "firstStatus"
                      ELSE AfterFirstStatus(cache),
               obj |-> cache, fresh |-> cacheFresh, updates |-> NoUpdates]
    /\ UNCHANGED <<crVars, clusterVars, secrets, now>>

\* Faulty variants: the run ID of the other loop is overwritten; the whole
\* object of the pass is stored over the new version, its old spec included.
RunIDOverwritten(new, current) == new
StatusAgainWithOldSpec(obj, current) == obj

\* After a conflict the custom resource is read again and given the status
\* computed before, except for a run ID it has got in the meantime.
RunIDAfterConflict(new, current) ==
    IF new # NoRun /\ current # NoRun THEN current ELSE new

StatusAgain(obj, current) ==
    [current EXCEPT !.status =
        [obj.status EXCEPT !.runID = RunIDAfterConflict(@, current.status.runID)]]

\* Each of the three status updates that was refused is tried once more, on a
\* copy read again from the cache; users may write between the two calls.
GetAgain ==
    /\ rec.pc \in {"firstConflict", "deletingConflict", "conflict"}
    /\ IF ~cache.exists
       THEN Return
       ELSE rec' = [rec EXCEPT
              !.pc = CASE rec.pc = "firstConflict" -> "firstRetry"
                       [] rec.pc = "deletingConflict" -> "deletingRetry"
                       [] OTHER -> "retry",
              !.obj = IF rec.pc = "conflict" THEN StatusAgain(rec.obj, cache) ELSE cache,
              !.fresh = cacheFresh]
    /\ UNCHANGED <<crVars, clusterVars, secrets, now>>

\* The first status update renders the URL; after a conflict it is retried
\* with a new copy as it is, so the URL is only rendered by a later pass.
FirstStatusUpdate ==
    /\ rec.pc = "firstStatus"
    /\ LET cr == [rec.obj EXCEPT !.status.url = TRUE]
       IN  \/ Accepted /\ Store(cr) /\ GoOn(AfterFirstStatus(cr), cr)
           \/ Rejected /\ UNCHANGED crVars /\ rec' = [rec EXCEPT !.pc = "firstConflict"]
    /\ UNCHANGED <<clusterVars, secrets, now>>

FirstStatusRetry ==
    /\ rec.pc = "firstRetry"
    /\ \/ Accepted /\ Store(rec.obj) /\ GoOn(AfterFirstStatus(rec.obj), rec.obj)
       \/ Rejected /\ UNCHANGED crVars /\ Return
    /\ UNCHANGED <<clusterVars, secrets, now>>

AddFinalizer ==
    /\ rec.pc = "finalizer"
    /\ LET cr == [rec.obj EXCEPT !.finalizer = TRUE]
       IN  \/ Accepted /\ Store(cr) /\ GoOn("children", cr)
           \/ Rejected /\ UNCHANGED crVars /\ Return
    /\ UNCHANGED <<clusterVars, secrets, now>>

\* The custom resource is being deleted: report NotReady, ...
DeletingStatusUpdate ==
    /\ rec.pc = "deletingStatus"
    /\ LET cr == [rec.obj EXCEPT !.status.state = "NotReady"]
       IN  \/ Accepted /\ Store(cr) /\ AfterDeletingStatus(cr)
           \/ /\ Rejected /\ UNCHANGED crVars
              /\ rec' = [rec EXCEPT !.pc = "deletingConflict"]
    /\ UNCHANGED <<clusterVars, secrets, now>>

DeletingStatusRetry ==
    /\ rec.pc = "deletingRetry"
    /\ LET cr == [rec.obj EXCEPT !.status.state = "NotReady"]
       IN  \/ Accepted /\ Store(cr) /\ AfterDeletingStatus(cr)
           \/ Rejected /\ UNCHANGED crVars /\ Return
    /\ UNCHANGED <<clusterVars, secrets, now>>

\* Faulty variant: the errors of the deletions are dropped.
DeleteSecretsIgnoringErrors(failed) ==
    /\ rec.pc = "deleteSecrets"
    /\ failed = {} \/ "apiError" \in Activity
    /\ secrets' = secrets \cap failed
    /\ rec' = [rec EXCEPT !.pc = "removeFinalizer"]
    /\ UNCHANGED <<crVars, clusterVars, now>>

\* ... delete the adopted secrets (the ones in failed could not be), ...
DeleteSecrets(failed) ==
    /\ rec.pc = "deleteSecrets"
    /\ failed = {} \/ "apiError" \in Activity
    /\ secrets' = secrets \cap failed
    /\ IF failed = {} THEN rec' = [rec EXCEPT !.pc = "removeFinalizer"] ELSE Return
    /\ UNCHANGED <<crVars, clusterVars, now>>

\* ... and let go of the custom resource.
RemoveFinalizer ==
    /\ rec.pc = "removeFinalizer"
    /\ \/ Accepted /\ Store(Deleted([rec.obj EXCEPT !.finalizer = FALSE]))
       \/ Rejected /\ UNCHANGED crVars
    /\ Return
    /\ UNCHANGED <<clusterVars, secrets, now>>

\* ulid.Make never returns an ID that is in use.
InUse == {api.status.runID, cache.status.runID, rec.obj.status.runID,
          sts.runID, stsCache.runID, pod.runID}

\* The run ID the pass works with: none for a hibernated session, the one
\* in the status it read, or else a new one.
RunIDChoices(cr) ==
    IF cr.hibernated THEN {NoRun}
    ELSE IF cr.status.runID # NoRun THEN {cr.status.runID}
    ELSE RunIDs \ InUse

isFailedOrHibernated(cr) == cr.status.state \in {"Failed", "Hibernated"}

\* Faulty variant: "always" is treated like "whenFailedOrHibernated".
UpdatesTemplateLate(cr) == Strategy # "never" /\ isFailedOrHibernated(cr)

UpdatesTemplate(cr) ==
    \/ Strategy = "always"
    \/ Strategy = "whenFailedOrHibernated" /\ isFailedOrHibernated(cr)

\* Faulty variant: one replica too many.
DesiredTwice(cr, current) ==
    [exists |-> TRUE, replicas |-> IF cr.hibernated THEN 1 ELSE 2, runID |-> cr.status.runID]

\* The StatefulSet the session should have, given the informer's copy of it.
Desired(cr, current) ==
    [exists |-> TRUE,
     replicas |-> IF cr.hibernated THEN 0 ELSE 1,
     runID |-> IF ~current.exists \/ UpdatesTemplate(cr) THEN cr.status.runID
                                                        ELSE current.runID]

\* Faulty variant: the replicas are only set at creation.
PatchedTemplateOnly(current, desired) ==
    [exists |-> TRUE, replicas |-> sts.replicas, runID |-> desired.runID]

\* CreateOrPatch sends the fields in which desired differs from the copy of
\* the informer, so fields that copy has wrong may stay as they are.
Patched(current, desired) ==
    [exists |-> TRUE,
     replicas |-> IF desired.replicas = current.replicas THEN sts.replicas ELSE desired.replicas,
     runID |-> IF desired.runID = current.runID THEN sts.runID ELSE desired.runID]

CallbackOf(current, desired) ==
    IF ~current.exists \/ current.replicas = desired.replicas THEN "none"
    ELSE IF desired.replicas = 1 THEN "resumed" ELSE "hibernated"

\* The ingress of a hibernated session is deleted, else created or patched.
ReconcileIngress(cr) == ~cr.hibernated

\* What can fail on its own: the StatefulSet, the ingress, and the volumes, the
\* service and the secret ("other"), which have no further effect here.
Children == {"sts", "ingress", "other"}

\* One failing child fails the pass, after all were reconciled.
combineErrors(failed) == failed # {}

\* Creating a StatefulSet that is only missing from the cache fails, as does
\* patching one that is only left in the cache.
ReconcileChildren(runID, failed) ==
    /\ rec.pc = "children"
    /\ failed = {} \/ "childError" \in Activity
    /\ runID \in RunIDChoices(rec.obj)
    /\ LET cr      == [rec.obj EXCEPT !.status.runID = runID]
           current == stsCache
           desired == Desired(cr, current)
           errors  == failed \cup IF current.exists = sts.exists THEN {} ELSE {"sts"}
           sent    == IF current.exists THEN Patched(current, desired) ELSE desired
           stored  == IF desired = current THEN sts ELSE sent
           result  == IF desired = current THEN current ELSE sent
       IN  /\ IF "sts" \in errors THEN UNCHANGED <<sts, stsCache>>
                                   ELSE StoreStatefulSet(stored)
           /\ ingress' = IF "ingress" \in errors THEN ingress ELSE ReconcileIngress(cr)
           /\ IF combineErrors(errors)
              THEN Return
              ELSE rec' = [rec EXCEPT !.pc = "status", !.obj = cr,
                               !.updates = [replicas |-> result.replicas,
                                            callback |-> CallbackOf(current, desired)]]
    /\ UNCHANGED <<crVars, pod, events, secrets, now>>

\* What the metrics server may answer about the session container: its load
\* can be anything at the time of each pass.
CpuReadings == IF "load" \in Activity THEN IdleDecision ELSE {"Idle"}

\* The new status is computed and sent; the pass keeps it for a retry.
UpdateStatus(cpu) ==
    /\ rec.pc = "status"
    /\ cpu \in CpuReadings
    /\ LET cr == [rec.obj EXCEPT
                    !.status = StatusOf(rec.obj, rec.updates, pod.phase, events, cpu,
                                        ingress, CreationTimestamp, now)]
       IN  \/ Accepted /\ Store(cr) /\ GoOn("finish", cr)
           \/ /\ Rejected /\ UNCHANGED crVars
              /\ rec' = [rec EXCEPT !.pc = "conflict", !.obj = cr]
    /\ UNCHANGED <<clusterVars, secrets, now>>

\* What the callback had to tell is lost when the second update fails too.
RetryStatus ==
    /\ rec.pc = "retry"
    /\ \/ Accepted /\ Store(rec.obj) /\ GoOn("finish", rec.obj)
       \/ Rejected /\ UNCHANGED crVars /\ Return
    /\ UNCHANGED <<clusterVars, secrets, now>>

\* A session hibernated for too long is deleted, whatever its version.
DeleteSession ==
    /\ rec.pc = "finish"
    /\ NeedsDeletion(rec.obj, now)
    /\ \/ api.exists /\ Store(Deleted(api))
       \/ (~api.exists \/ "apiError" \in Activity) /\ UNCHANGED crVars
    /\ Return
    /\ UNCHANGED <<clusterVars, secrets, now>>

\* Faulty variant: only running sessions are culled.
NeedsHibernationRunning(cr) ==
    /\ ~cr.hibernated
    /\ cr.status.state = "Running"
    /\ needsScaleDown(cr.status.willHibernateAt, now)

\* A session past its hibernation date is hibernated.
NeedsHibernation(cr) ==
    /\ ~cr.hibernated
    /\ cr.status.state # "Hibernated"
    /\ needsScaleDown(cr.status.willHibernateAt, now)

updateHibernationState ==
    /\ rec.pc = "finish"
    /\ ~NeedsDeletion(rec.obj, now)
    /\ \/ /\ NeedsHibernation(rec.obj)
          /\ \/ Accepted /\ Store([rec.obj EXCEPT !.hibernated = TRUE])
             \/ Rejected /\ UNCHANGED crVars
       \/ ~NeedsHibernation(rec.obj) /\ UNCHANGED crVars
    /\ Return
    /\ UNCHANGED <<clusterVars, secrets, now>>

\* The operator is restarted; the new one starts with a filled cache.
Crash ==
    /\ "crash" \in Activity
    /\ rec.pc # "idle"
    /\ Return
    /\ cache' = api /\ cacheFresh' = TRUE /\ stsCache' = sts
    /\ UNCHANGED <<api, sts, ingress, pod, events, secrets, now>>

Reconciler ==
    \/ Get \/ GetAgain \/ FirstStatusUpdate \/ FirstStatusRetry \/ AddFinalizer
    \/ DeletingStatusUpdate \/ DeletingStatusRetry
    \/ \E failed \in SUBSET Adopted : DeleteSecrets(failed)
    \/ RemoveFinalizer
    \/ \E runID \in RunID, failed \in SUBSET Children :
           ReconcileChildren(runID, failed)
    \/ \E cpu \in IdleDecision : UpdateStatus(cpu)
    \/ RetryStatus \/ DeleteSession \/ updateHibernationState

-----------------------------------------------------------------------------
(***************************************************************************)
(* Users change the custom resource, the reconciler's copies of it are     *)
(* then out of date.                                                       *)
(***************************************************************************)
UserWrites(cr) ==
    /\ api.exists /\ ~api.deleting /\ cr # api
    /\ Store(cr)
    /\ rec' = [rec EXCEPT !.fresh = FALSE]
    /\ UNCHANGED <<clusterVars, secrets, now>>

UserHibernates == UserWrites([api EXCEPT !.hibernated = TRUE])
UserResumes    == UserWrites([api EXCEPT !.hibernated = FALSE])
UserInteracts  == UserWrites([api EXCEPT !.lastInteraction = now])
UserDeletes    == UserWrites(Deleted(api))

User ==
    \/ UserHibernates \/ UserResumes
    \/ "interaction" \in Activity /\ UserInteracts
    \/ "deletion" \in Activity /\ UserDeletes

-----------------------------------------------------------------------------
(***************************************************************************)
(* The StatefulSet controller, the scheduler, the kubelet and the garbage  *)
(* collector.                                                              *)
(***************************************************************************)
NoPod == [phase |-> "none", runID |-> NoRun]

PodWanted == sts.exists /\ sts.replicas = 1

PodCreated ==
    /\ pod.phase = "none" /\ PodWanted
    /\ pod' = [phase |-> "pending", runID |-> sts.runID]
    /\ UNCHANGED events

\* A changed template replaces the pod.
PodStopped ==
    /\ pod.phase \notin {"none", "terminating"}
    /\ ~PodWanted \/ pod.runID # sts.runID
    /\ pod' = [pod EXCEPT !.phase = "terminating"]
    /\ UNCHANGED events

PodGone ==
    /\ pod.phase = "terminating"
    /\ pod' = NoPod
    /\ UNCHANGED events

\* A pod that starts was scheduled, which matters where scheduling can fail.
PodScheduled ==
    events' = IF "scheduling" \in Activity THEN [events EXCEPT !.podEvent = "Scheduled"]
                                           ELSE events

PodReady ==
    /\ pod.phase \in {"pending", "failing"}
    /\ pod' = [pod EXCEPT !.phase = "fresh"]
    /\ PodScheduled

\* The session container is old enough for its load to count.
PodAges ==
    /\ "load" \in Activity
    /\ pod.phase = "fresh"
    /\ pod' = [pod EXCEPT !.phase = "running"]
    /\ UNCHANGED events

PodFails ==
    /\ "failure" \in Activity
    /\ pod.phase \in {"pending", "fresh", "running"}
    /\ pod' = [pod EXCEPT !.phase = "failing"]
    /\ PodScheduled

SchedulingFails ==
    /\ "scheduling" \in Activity
    /\ pod.phase = "pending"
    /\ events' = [events EXCEPT !.podEvent = "FailedScheduling"]
    /\ UNCHANGED pod

QuotaExceeded ==
    /\ "quota" \in Activity
    /\ pod.phase = "none" /\ PodWanted
    /\ events' = [events EXCEPT !.quota = TRUE]
    /\ UNCHANGED pod

EventsExpire ==
    /\ events' = [podEvent |-> "none", quota |-> FALSE]
    /\ events' # events
    /\ UNCHANGED pod

Pods ==
    /\ "pods" \in Activity
    /\ \/ PodCreated \/ PodStopped \/ PodGone \/ PodReady \/ PodAges \/ PodFails
       \/ SchedulingFails \/ QuotaExceeded \/ EventsExpire
    /\ UNCHANGED <<crVars, sts, stsCache, ingress, secrets, rec, now>>

GarbageCollected ==
    /\ ~api.exists /\ sts.exists
    /\ StoreStatefulSet([exists |-> FALSE, replicas |-> 0, runID |-> NoRun])
    /\ ingress' = FALSE
    /\ UNCHANGED <<crVars, pod, events, secrets, rec, now>>

Tick ==
    /\ now < MaxTime
    /\ now' = now + 1
    /\ UNCHANGED <<crVars, clusterVars, secrets, rec>>

Next ==
    \/ Reconciler \/ Crash \/ SyncCR \/ SyncStatefulSet
    \/ User \/ Pods \/ GarbageCollected \/ Tick

Spec == Init /\ [][Next]_vars

\* The work queue runs the reconciler again and again, the informer and the
\* clock go on; nobody has to use the session, and nothing has to fail.
FairSpec ==
    /\ Spec
    /\ WF_vars(Reconciler) /\ WF_vars(SyncCR) /\ WF_vars(SyncStatefulSet) /\ WF_vars(Tick)

-----------------------------------------------------------------------------
(***************************************************************************)
(* Properties.                                                             *)
(***************************************************************************)

\* A run of a session keeps its ID: the reconciler never replaces the run ID
\* in the status by another one, however stale the copy it started from was
\* ("Handle run ID being set by a concurrent loop").
RunIDStable ==
    [][(api.status.runID # NoRun /\ api'.status.runID # NoRun)
          => api'.status.runID = api.status.runID]_vars

\* NeedsDeletion measures how long a session has been hibernated from
\* hibernatedSince; a hibernated status without it would be deleted at once.
HibernatedSinceSet ==
    api.exists /\ api.status.state = "Hibernated" => api.status.hibernatedSince # Zero

\* The finalizer is only given up when the adopted secrets are gone, whatever
\* fails and whenever the operator restarts (deleteSecrets).
SecretsBeforeFinalizer ==
    [][api.exists /\ api.finalizer /\ ~(api'.finalizer /\ api'.exists) => secrets = {}]_vars

\* The reconciler overwrites no change a user made to the spec: only users
\* resume a session and only users move the last interaction.
NoLostUserUpdate ==
    [][api'.exists =>
         /\ api.hibernated /\ ~api'.hibernated => UserResumes
         /\ api'.lastInteraction # api.lastInteraction => UserInteracts]_vars

\* The reconciler only deletes a session whose status on the API server has
\* said Hibernated for longer than maxHibernatedDuration (NeedsDeletion).
DeletesOnlyHibernated ==
    [][(api.exists /\ ~api.deleting /\ (api'.deleting \/ ~api'.exists)) =>
         \/ UserDeletes
         \/ /\ api.status.state = "Hibernated"
            /\ now > api.status.hibernatedSince + culling.maxHibernatedDuration]_vars

\* The reconciler hibernates the session in this step.
Culls == ~api.hibernated /\ api'.hibernated /\ ~UserHibernates

\* The failure clock, which alone decides about hibernating a failing session,
\* only runs while the session is reported as failed.
FailureClockStops ==
    api.exists /\ ~api.deleting /\ api.status.failingSince # Zero
        => api.status.state = "Failed"

\* "A run is a continuous execution of the workload": the run ID of the
\* workload does not change while the workload is not scaled down.
WorkloadRunStable ==
    [][sts.exists /\ sts'.exists /\ sts.replicas = 1 /\ sts'.replicas = 1
         => sts'.runID = sts.runID]_vars

\* Deletion is completed: the finalizer does not hold the resource forever.
DeletionCompletes == api.deleting ~> ~api.exists

\* The StatefulSet follows the spec whenever users leave it alone.
ScaleFollowsSpec ==
    \A hibernated \in BOOLEAN :
        <>[](api.exists /\ ~api.deleting /\ api.hibernated = hibernated)
          => <>[](sts.exists /\ sts.replicas = IF hibernated THEN 0 ELSE 1)

\* The run ID in the status ends up on the workload.
RunIDReachesWorkload ==
    <>[](api.exists /\ ~api.deleting /\ ~api.hibernated)
      => <>[](api.status.runID # NoRun /\ sts.runID = api.status.runID)

\* Patches computed from stale copies are made good: in the end the workload
\* is the one the spec and the status say.
WorkloadConverges == ScaleFollowsSpec /\ RunIDReachesWorkload

\* "When the threshold is reached the session is hibernated", unless the date
\* is moved or the session deleted: a session does not outlive the hibernation
\* date in its status, whichever limit set it and whatever state it is in, and
\* conflicts with users do not keep the reconciler from it.
LimitsEnforced ==
    LET Due == /\ api.exists /\ ~api.deleting /\ ~api.hibernated
               /\ api.status.willHibernateAt # Zero /\ api.status.willHibernateAt < MaxTime
    IN  Due ~> ~Due

\* A session its users leave hibernated is not kept beyond maxHibernatedDuration:
\* it does not stay hibernated since a date once the clock can get past the limit.
RetentionEnds ==
    LET Due == /\ culling.maxHibernatedDuration > 0
               /\ api.exists /\ ~api.deleting
               /\ api.hibernated /\ api.status.state = "Hibernated"
               /\ api.status.hibernatedSince + culling.maxHibernatedDuration < MaxTime
    IN  Due ~> ~Due

\* A session whose pod stays unschedulable is reported as failed once it has
\* waited for maxWaitForClearFailedScheduling, whatever loops run meanwhile.
UnschedulableReported ==
    LET Due == /\ api.exists /\ ~api.deleting /\ ~api.hibernated
               /\ pod.phase = "pending" /\ events.podEvent = "FailedScheduling"
               /\ api.status.failedSchedulingSince # Zero
               /\ api.status.failedSchedulingSince
                    + maxWaitForClearFailedScheduling <= MaxTime
    IN  Due ~> (api.status.state = "Failed" \/ ~Due)

-----------------------------------------------------------------------------
(***************************************************************************)
(* Statements of the documentation that do not hold of the code; README.md *)
(* tells how each of them fails.                                           *)
(***************************************************************************)

\* A session is not hibernated while the status just written for it shows no
\* reason to: "How long should a server be idle for before it is hibernated".
CulledForCause ==
    [][Culls => needsScaleDown(calculateHibernationDate(CreationTimestamp, api.status,
                                   culling, api.lastInteraction), now)]_vars

\* "A timestamp denoting the time when a user has proven to have interacted
\* with the session, preventing it from culling".
InteractionPreventsCulling ==
    [][Culls => api.lastInteraction + culling.maxIdleDuration < now]_vars

\* A pass over a session that is hibernated and scaled down reports it so.
HibernationReported ==
    rec.pc = "finish" /\ rec.obj.hibernated /\ rec.updates.replicas = 0
        => rec.obj.status.state = "Hibernated"

\* "If the secret is adopted then the operator will delete the secret when
\* the custom resource that uses it is deleted."
AdoptedSecretsDeleted == ~api.exists => secrets = {}

\* "The ingress is setup and operational" is not said of a deleted ingress.
RoutingReadyTruthful ==
    rec.pc = "finish" /\ rec.obj.status.routingReady => ingress
=============================================================================
