----------------------------- MODULE JobSession -----------------------------
(***************************************************************************)
(* One AmaltheaSession of the NonInteractive type: the reconciler's passes *)
(* over it, the Kubernetes Job it is run as, and the metrics published     *)
(* about it.  Conflicting writes, stale copies and finalizers are the      *)
(* subject of SessionController, which shares that code; here a pass reads *)
(* what is stored, and users, the Job and its pod move between its calls.  *)
(*                                                                         *)
(* Events are looked up by the pod name of a StatefulSet and quota events  *)
(* by its kind, the CPU load by that pod name too: a job has neither       *)
(* events nor a load, and an unschedulable one is NotReady for good.       *)
(***************************************************************************)
EXTENDS Culling

CONSTANTS
    maxAge,                  \* spec.culling.maxAge
    maxHibernatedDuration,   \* spec.culling.maxHibernatedDuration
    Strategies,              \* the values of spec.reconcileStrategy to look at
    RunIDs, NoRun,
    MaxFaults,               \* bound: failed calls, stuck and evicted pods
    MaxTime                  \* bound: the clock stops there

ASSUME JobCullingAssumption == maxAge \in Nat /\ maxHibernatedDuration \in Nat
ASSUME StrategiesAssumption == Strategies \subseteq {"always", "never", "whenFailedOrHibernated"}
ASSUME NoRunAssumption == NoRun \notin RunIDs
ASSUME JobBoundsAssumption == MaxFaults \in Nat /\ MaxTime \in Nat

VARIABLES
    strategy,   \* spec.reconcileStrategy, chosen once
    cr,         \* the custom resource
    job,        \* the Job
    pod,        \* the phase of its pod
    rec,        \* the pass in progress
    series,     \* the states whose gauge shows 1; Absent without any series
    now,
    faults,
    doneAt      \* history: when the pod first failed, got stuck or completed

vars == <<strategy, cr, job, pod, rec, series, now, faults, doneAt>>

State == {"NotReady", "Running", "Failed", "Hibernated", "Succeeded"}

RunID == RunIDs \cup {NoRun}

Status == [state: State, idle: BOOLEAN, idleSince: Nat, failingSince: Nat,
           hibernatedSince: Nat, runID: RunID, url: BOOLEAN]

NewStatus == [state |-> "NotReady", idle |-> FALSE, idleSince |-> Zero,
              failingSince |-> Zero, hibernatedSince |-> Zero, runID |-> NoRun,
              url |-> FALSE]

CustomResource == [exists: BOOLEAN, hibernated: BOOLEAN, status: Status]

Gone == [exists |-> FALSE, hibernated |-> FALSE, status |-> NewStatus]

\* condition is the one that ends a Job, failed its count of failed pods.
NoJob == [exists |-> FALSE, suspend |-> FALSE, runID |-> NoRun, startTime |-> Zero,
          condition |-> "none", failed |-> FALSE]

\* A "fresh" pod is ready and younger than freshContainerMinimalAge; a
\* "stuck" one cannot start a container, for instance pull its image.
PodPhase == {"none", "pending", "stuck", "fresh", "running", "succeeded", "failed", "terminating"}

Active == {"pending", "stuck", "fresh", "running"}

Idle == [pc |-> "idle", obj |-> Gone, suspend |-> FALSE, active |-> FALSE]

Absent == {"absent"}

TypeOK ==
    /\ strategy \in Strategies
    /\ cr \in CustomResource
    /\ job \in [exists: BOOLEAN, suspend: BOOLEAN, runID: RunID, startTime: Nat,
                condition: {"none", "Complete", "Failed"}, failed: BOOLEAN]
    /\ pod \in PodPhase
    /\ rec \in [pc: {"idle", "children", "status", "finish"}, obj: CustomResource,
                suspend: BOOLEAN, active: BOOLEAN]
    /\ series = Absent \/ series \subseteq State
    /\ now \in Nat /\ faults \in 0 .. MaxFaults /\ doneAt \in Nat

Init ==
    /\ strategy \in Strategies
    /\ \E hibernated \in BOOLEAN :
           cr = [exists |-> TRUE, hibernated |-> hibernated, status |-> NewStatus]
    /\ job = NoJob /\ pod = "none" /\ rec = Idle /\ series = Absent
    /\ now = 1 /\ faults = 0 /\ doneAt = Zero

Fault == faults < MaxFaults /\ faults' = faults + 1

-----------------------------------------------------------------------------
(***************************************************************************)
(* What a pass computes.                                                   *)
(***************************************************************************)

\* The states the gauge has a series for: Succeeded is not among them.
RecordedStates == State \ {"Succeeded"}

RecordAmaltheaSessionMetrics(status) == series' = {status.state} \cap RecordedStates

RemoveAmaltheaSessionMetrics == series' = Absent

jobIsFinished == job.condition # "none"

\* Faulty variant: only the pod knows.
jobIsSuccessByPod == FALSE

jobIsSuccess == job.condition = "Complete"

jobFailureReason == job.failed

\* A pod that is being deleted is neither failing nor completed nor ready.
podFailureReason == pod \in {"stuck", "failed"}

podIsCompleted == pod \in {"succeeded", "failed"}

podIsReady == pod \in {"fresh", "running"}

\* The cases in the order of the code; rec.suspend and rec.active are of the
\* Job as reconciling it left it in memory, stored or not.
StateOf(obj) ==
    CASE obj.hibernated /\ rec.suspend -> "Hibernated"
      [] ~(obj.hibernated /\ rec.suspend) /\ (podFailureReason \/ jobFailureReason) -> "Failed"
      [] OTHER -> IF rec.active /\ podIsReady THEN "Running"
                  ELSE IF podIsCompleted \/ jobIsSuccess THEN "Succeeded" ELSE "NotReady"

\* A clock that starts when a condition begins to hold and stops with it.
Since(holds, since) ==
    IF ~holds THEN Zero ELSE IF since = Zero THEN now ELSE since

\* getIdleState finds no metrics and so resets the clock of a running pod;
\* the end of the job is dated by the first pass that sees it with its pod.
idleSince(status, state) ==
    IF pod = "none" THEN status.idleSince
    ELSE IF state = "Running" /\ pod = "running" THEN Zero
    ELSE IF state \in {"Succeeded", "Failed"} /\ status.idleSince = Zero THEN now
    ELSE status.idleSince

\* The callbacks that reset the clocks are registered for a Job as for a
\* StatefulSet, and never called.
StatusOf(obj) ==
    LET state == StateOf(obj)
    IN  [state |-> state,
         idle |-> pod # "none" /\ state \in {"Succeeded", "Failed"},
         idleSince |-> idleSince(obj.status, state),
         failingSince |-> Since(state = "Failed", obj.status.failingSince),
         hibernatedSince |-> Since(obj.hibernated, obj.status.hibernatedSince),
         runID |-> obj.status.runID,
         url |-> TRUE]

\* Faulty variants: a tick too early; by the date of the failure alone.
NeedsDeletionEarly(status) ==
    /\ status.idleSince # Zero
    /\ status.state \in {"Failed", "Succeeded"}
    /\ now >= status.idleSince + maxHibernatedDuration
NeedsDeletionFailing(status) ==
    /\ status.failingSince # Zero
    /\ status.state \in {"Failed", "Succeeded"}
    /\ now > status.failingSince + maxHibernatedDuration

\* A limit of zero is no exception, unlike for interactive sessions.
NeedsDeletion(status) ==
    LET doneSince == IF /\ status.failingSince # Zero
                        /\ status.failingSince < status.idleSince
                     THEN status.failingSince ELSE status.idleSince
    IN  /\ doneSince # Zero
        /\ status.state \in {"Failed", "Succeeded"}
        /\ now > doneSince + maxHibernatedDuration

-----------------------------------------------------------------------------
(***************************************************************************)
(* The pass.                                                               *)
(***************************************************************************)

\* A hibernated session has no run ID, any other keeps its own or gets one.
RunIDChoices ==
    IF cr.hibernated THEN {NoRun}
    ELSE IF cr.status.runID # NoRun THEN {cr.status.runID}
    ELSE RunIDs \ {job.runID}

\* The first status update renders the URL and publishes the first metrics.
Get ==
    /\ rec.pc = "idle" /\ cr.exists
    /\ \E runID \in RunIDChoices :
           rec' = [Idle EXCEPT !.pc = "children",
                       !.obj = [cr EXCEPT !.status.runID = runID, !.status.url = TRUE]]
    /\ cr' = [cr EXCEPT !.status.url = TRUE]
    /\ IF cr.status.url THEN UNCHANGED series ELSE RecordAmaltheaSessionMetrics(cr.status)
    /\ UNCHANGED <<strategy, job, pod, now, faults, doneAt>>

UpdatesTemplate(obj) ==
    \/ strategy = "always"
    \/ strategy = "whenFailedOrHibernated" /\ obj.status.state \in {"Failed", "Hibernated"}

\* The API server refuses a new template for a Job that has been started.
TemplateAccepted(new) == new.runID = job.runID \/ (job.suspend /\ job.startTime = Zero)

\* The Job the session should have.
Job(obj) ==
    IF ~job.exists
    THEN [NoJob EXCEPT !.exists = TRUE, !.suspend = obj.hibernated, !.runID = obj.status.runID]
    ELSE [job EXCEPT !.suspend = obj.hibernated,
                     !.runID = IF UpdatesTemplate(obj) THEN obj.status.runID ELSE @]

\* Faulty variant: the Job is only patched when it is not suspended.
ReconcileJobActive ==
    /\ rec.pc = "children"
    /\ job' = IF jobIsFinished \/ (job.exists /\ job.suspend) THEN job ELSE Job(rec.obj)
    /\ rec' = [rec EXCEPT !.pc = "status", !.suspend = job'.suspend, !.active = pod \in Active]
    /\ UNCHANGED <<strategy, cr, pod, series, now, faults, doneAt>>

\* A finished Job is left alone; an error about a Job does not end the pass,
\* which goes on with the Job it meant to store.
ReconcileJob ==
    /\ rec.pc = "children"
    /\ \/ /\ jobIsFinished
          /\ rec' = [rec EXCEPT !.pc = "status", !.suspend = job.suspend, !.active = pod \in Active]
          /\ UNCHANGED <<job, faults>>
       \/ /\ ~jobIsFinished
          /\ rec' = [rec EXCEPT !.pc = "status", !.suspend = rec.obj.hibernated,
                                !.active = job.exists /\ pod \in Active]
          /\ \/ job' = (IF job.exists /\ ~TemplateAccepted(Job(rec.obj)) THEN job ELSE Job(rec.obj))
                /\ UNCHANGED faults
             \/ Fault /\ UNCHANGED job
    /\ UNCHANGED <<strategy, cr, pod, series, now, doneAt>>

\* A conflict with a user leads to a retry on what the user stored.
UpdateStatus ==
    /\ rec.pc = "status"
    /\ \/ /\ cr.exists
          /\ cr' = [cr EXCEPT !.status = StatusOf(rec.obj)]
          /\ rec' = [rec EXCEPT !.pc = "finish", !.obj = cr']
          /\ RecordAmaltheaSessionMetrics(cr'.status)
          /\ UNCHANGED faults
       \/ ~cr.exists /\ rec' = Idle /\ UNCHANGED <<cr, series, faults>>
       \/ Fault /\ rec' = Idle /\ UNCHANGED <<cr, series>>
    /\ UNCHANGED <<strategy, job, pod, now, doneAt>>

\* updateHibernationState does nothing for a job.
Finish ==
    /\ rec.pc = "finish" /\ rec' = Idle
    /\ \/ /\ NeedsDeletion(rec.obj.status)
          /\ RemoveAmaltheaSessionMetrics
          /\ \/ cr' = Gone /\ UNCHANGED faults
             \/ Fault /\ UNCHANGED cr
       \/ ~NeedsDeletion(rec.obj.status) /\ UNCHANGED <<cr, series, faults>>
    /\ UNCHANGED <<strategy, job, pod, now, doneAt>>

Reconciler == Get \/ ReconcileJob \/ UpdateStatus \/ Finish

-----------------------------------------------------------------------------
(***************************************************************************)
(* Users; the Job controller, the kubelet and the garbage collector.       *)
(***************************************************************************)
User ==
    /\ cr.exists
    /\ \/ cr' = [cr EXCEPT !.hibernated = ~@]
       \/ cr' = Gone
    /\ UNCHANGED <<strategy, job, pod, rec, series, now, faults, doneAt>>

PodCreated ==
    /\ job.exists /\ ~job.suspend /\ ~jobIsFinished /\ pod = "none"
    /\ pod' = "pending" /\ job' = [job EXCEPT !.startTime = now]
    /\ UNCHANGED <<faults, doneAt>>

PodStopped ==
    /\ pod \in Active /\ (job.suspend \/ ~job.exists)
    /\ pod' = "terminating"
    /\ UNCHANGED <<job, faults, doneAt>>

\* Pods of finished Jobs may be removed at any time.
PodGone ==
    /\ pod = "terminating" \/ (pod \in {"succeeded", "failed"} /\ (jobIsFinished \/ ~job.exists))
    /\ pod' = "none"
    /\ UNCHANGED <<job, faults, doneAt>>

First(phase) == IF phase \in {"stuck", "succeeded", "failed"} /\ doneAt = Zero
                THEN now ELSE doneAt

PodMoves(phase) ==
    /\ <<pod, phase>> \in {<<"pending", "fresh">>, <<"stuck", "fresh">>, <<"fresh", "running">>,
                           <<"fresh", "succeeded">>, <<"running", "succeeded">>,
                           <<"fresh", "failed">>, <<"running", "failed">>}
    /\ pod' = phase /\ doneAt' = First(phase)
    /\ UNCHANGED <<job, faults>>

PodStuck ==
    /\ pod = "pending" /\ Fault
    /\ pod' = "stuck" /\ doneAt' = First("stuck")
    /\ UNCHANGED job

\* A Job has one pod that is not restarted: its end is the end of the Job.
JobEnds ==
    /\ job.exists /\ ~jobIsFinished
    /\ \/ /\ pod = "succeeded" /\ job' = [job EXCEPT !.condition = "Complete"]
       \/ /\ pod = "failed" /\ job' = [job EXCEPT !.condition = "Failed", !.failed = TRUE]
    /\ UNCHANGED <<pod, faults, doneAt>>

\* activeDeadlineSeconds, which is maxAge, has passed, or the pod is evicted.
JobStopped ==
    /\ job.exists /\ ~job.suspend /\ ~jobIsFinished /\ pod \in Active
    /\ \/ maxAge > 0 /\ now >= job.startTime + maxAge /\ UNCHANGED faults
       \/ Fault
    /\ job' = [job EXCEPT !.condition = "Failed", !.failed = TRUE]
    /\ pod' = "terminating" /\ doneAt' = First("failed")

GarbageCollected ==
    /\ ~cr.exists /\ job.exists
    /\ job' = NoJob
    /\ UNCHANGED <<pod, faults, doneAt>>

Cluster ==
    /\ \/ PodCreated \/ PodStopped \/ PodGone \/ PodStuck \/ JobEnds \/ JobStopped
       \/ \E phase \in PodPhase : PodMoves(phase)
       \/ GarbageCollected
    /\ UNCHANGED <<strategy, cr, rec, series, now>>

Tick ==
    /\ now < MaxTime /\ now' = now + 1
    /\ UNCHANGED <<strategy, cr, job, pod, rec, series, faults, doneAt>>

Next == Reconciler \/ User \/ Cluster \/ Tick

Spec == Init /\ [][Next]_vars

\* The work queue runs passes for ever and time goes on.
FairSpec == Spec /\ WF_vars(Reconciler) /\ WF_vars(Tick)

-----------------------------------------------------------------------------
(***************************************************************************)
(* Properties.                                                             *)
(***************************************************************************)

\* The result of a job outlives its pod: a session reported as Succeeded is
\* not started or failed by what happens to the pod later, only suspended.
ResultKept ==
    [][cr.status.state = "Succeeded" /\ cr'.exists => cr'.status.state \in {"Succeeded", "Hibernated"}]_vars

\* The reconciler deletes a job at the earliest maxHibernatedDuration after
\* the first time it was in trouble or done.
KeptSinceDone ==
    [][cr.exists /\ ~cr'.exists /\ ~User =>
         doneAt # Zero /\ now > doneAt + maxHibernatedDuration]_vars

\* A job seen to have ended is not kept for longer than
\* maxHibernatedDuration, unless users suspend it or the clock stops first.
RetentionEnds ==
    LET Due == /\ cr.exists /\ ~cr.hibernated /\ jobIsFinished
               /\ cr.status.idleSince # Zero
               /\ cr.status.idleSince + maxHibernatedDuration < MaxTime
    IN  Due ~> ~Due

\* With the strategy "never" a Job is suspended and resumed as users ask,
\* unless it ends first; failed writes are made up for by later passes.
JobFollowsSpec ==
    \A hibernated \in BOOLEAN :
        strategy = "never" /\ <>[](cr.exists /\ cr.hibernated = hibernated)
            => <>(jobIsFinished \/ [](job.exists /\ job.suspend = hibernated))

-----------------------------------------------------------------------------
(***************************************************************************)
(* Statements of the documentation that do not hold of the code; README.md *)
(* tells how each of them fails.                                           *)
(***************************************************************************)

\* "A value of zero indicates that hibernated servers or jobs will not be
\* automatically deleted by Amalthea after a period of time."
KeptWithoutLimit ==
    [][maxHibernatedDuration = 0 /\ cr.exists /\ ~cr'.exists => User]_vars

\* "... how long a Non-Interactive session will be kept around once it has
\* completed": one whose pod cannot start is deleted without having ended,
\* and the dates of an earlier attempt count against the next one.
KeptOnceCompleted ==
    [][cr.exists /\ ~cr'.exists /\ ~User => jobIsFinished]_vars

\* "Hibernating the session and deleting it will always work as expected
\* regardless of the strategy."
HibernationWorks ==
    <>[](cr.exists /\ cr.hibernated) => <>(jobIsFinished \/ job.suspend)

\* "Current state of an AmaltheaSession (1 when in that state, 0 otherwise)".
GaugeShowsState == rec.pc = "finish" => series = {rec.obj.status.state}

\* "RemoveAmaltheaSessionMetrics cleans up metrics for a deleted
\* AmaltheaSession": not for one a user deleted.
NoSeriesLeft == ~cr.exists /\ rec.pc = "idle" => series = Absent
=============================================================================
