-------------------------- MODULE JobSession_proofs --------------------------
(***************************************************************************)
(* The safety of JobSession, for all culling durations, strategies, run    *)
(* IDs and numbers of faults: from what the Job says about its pod, and    *)
(* from when the dates in a status can have been set.                      *)
(***************************************************************************)
EXTENDS JobSession, TLAPS

\* The sets of TypeOK for the Job and for the pass.
JobRecord == [exists: BOOLEAN, suspend: BOOLEAN, runID: RunID, startTime: Nat,
              condition: {"none", "Complete", "Failed"}, failed: BOOLEAN]

Pass == [pc: {"idle", "children", "status", "finish"}, obj: CustomResource,
         suspend: BOOLEAN, active: BOOLEAN]

\* The condition of a Job fits the pod that it is left with, and as long as
\* the session is there, a pod has its Job.
JobAndPod ==
    /\ job.failed <=> job.condition = "Failed"
    /\ job.condition = "Complete" => pod \in {"succeeded", "none"}
    /\ job.condition = "Failed" => pod \in {"failed", "terminating", "none"}
    /\ cr.exists => pod = "none" \/ job.exists

\* What Succeeded rests on.
ResultStored == cr.exists /\ cr.status.state = "Succeeded" => pod = "succeeded" \/ jobIsSuccess

\* A status has dates only since the pod was in trouble or done.
DatedAfterEnd(status) ==
    /\ status.idleSince # Zero => doneAt # Zero /\ doneAt <= status.idleSince
    /\ status.failingSince # Zero => doneAt # Zero /\ doneAt <= status.failingSince

EndDated ==
    /\ now >= 1 /\ doneAt <= now
    /\ pod \in {"stuck", "succeeded", "failed"} \/ jobIsFinished => doneAt # Zero
    /\ DatedAfterEnd(cr.status) /\ DatedAfterEnd(rec.obj.status)

IInv == TypeOK /\ JobAndPod /\ ResultStored /\ EndDated

-----------------------------------------------------------------------------
(***************************************************************************)
(* What a pass computes.                                                   *)
(***************************************************************************)
\* A new status is well-formed and keeps the run ID it started from.
LEMMA StatusOfType ==
    ASSUME TypeOK, NEW obj \in CustomResource
    PROVE  StatusOf(obj) \in Status
<1>1. StateOf(obj) \in State
  BY DEF StateOf, State
<1>2. obj.status \in Status /\ obj.hibernated \in BOOLEAN /\ now \in Nat
  BY DEF CustomResource, TypeOK
<1>3. idleSince(obj.status, StateOf(obj)) \in Nat
  BY <1>2 DEF idleSince, Zero, Status
<1>4. /\ Since(StateOf(obj) = "Failed", obj.status.failingSince) \in Nat
      /\ Since(obj.hibernated, obj.status.hibernatedSince) \in Nat
  BY <1>2 DEF Since, Zero, Status
<1> QED BY <1>1, <1>2, <1>3, <1>4 DEF StatusOf, Status

\* A session that has succeeded is found so again, or suspended.
LEMMA SuccessFoundAgain ==
    ASSUME IInv, NEW obj, pod = "succeeded" \/ jobIsSuccess
    PROVE  StateOf(obj) \in {"Succeeded", "Hibernated"}
BY DEF IInv, JobAndPod, jobIsSuccess, StateOf, podFailureReason, jobFailureReason, podIsReady,
       podIsCompleted

\* The state of a session that is done rests on its pod or its Job.
LEMMA StateIsFound ==
    ASSUME IInv, NEW obj
    PROVE  /\ StateOf(obj) = "Succeeded" => pod = "succeeded" \/ jobIsSuccess
           /\ StateOf(obj) \in {"Succeeded", "Failed"} => doneAt # Zero
<1>1. StateOf(obj) = "Succeeded" => pod = "succeeded" \/ jobIsSuccess
  BY DEF StateOf, podFailureReason, podIsCompleted
<1>2. StateOf(obj) = "Failed" => podFailureReason \/ jobFailureReason
  BY DEF StateOf
<1> QED BY <1>1, <1>2 DEF IInv, JobAndPod, EndDated, podFailureReason, jobFailureReason,
                          jobIsSuccess, jobIsFinished

\* The dates a pass sets are not before the end it saw.
LEMMA StatusOfDated ==
    ASSUME IInv, NEW obj \in CustomResource, DatedAfterEnd(obj.status)
    PROVE  DatedAfterEnd(StatusOf(obj))
<1> DEFINE state == StateOf(obj)
<1>1. state \in {"Succeeded", "Failed"} => doneAt # Zero
  BY StateIsFound
<1>2. doneAt <= now
  BY DEF IInv, EndDated
<1>3. /\ StatusOf(obj).idleSince = idleSince(obj.status, state)
      /\ StatusOf(obj).failingSince = Since(state = "Failed", obj.status.failingSince)
  BY DEF StatusOf
<1> HIDE DEF state
<1> QED BY <1>1, <1>2, <1>3 DEF idleSince, Since, DatedAfterEnd

-----------------------------------------------------------------------------
\* A new session has no Job and no dates.
LEMMA InitEstablishes == Init => IInv
<1> SUFFICES ASSUME Init PROVE IInv
  OBVIOUS
<1> USE DEF Init
<1>1. NewStatus \in Status
  BY DEF NewStatus, Status, State, RunID, Zero
<1>2. TypeOK
  BY <1>1, JobBoundsAssumption DEF TypeOK, CustomResource, NoJob, Idle, Gone, PodPhase, Zero, RunID
<1>3. JobAndPod /\ ResultStored
  BY DEF JobAndPod, ResultStored, NoJob, NewStatus
<1>4. EndDated
  BY DEF EndDated, DatedAfterEnd, NoJob, NewStatus, Idle, Gone, jobIsFinished, Zero
<1> QED BY <1>2, <1>3, <1>4 DEF IInv

\* A pass begins with a copy of what is stored.
LEMMA GetPreserves == ASSUME IInv, Get PROVE IInv'
<1> USE DEF IInv, Get
<1>1. PICK runID \in RunIDChoices :
        rec' = [Idle EXCEPT !.pc = "children",
                    !.obj = [cr EXCEPT !.status.runID = runID, !.status.url = TRUE]]
  OBVIOUS
<1>2. runID \in RunID
  BY <1>1 DEF RunIDChoices, RunID, TypeOK, CustomResource, Status
<1>3. TypeOK'
  <2>1. cr' \in CustomResource
    BY DEF TypeOK, CustomResource, Status
  <2>2. rec'.obj \in CustomResource /\ rec' = [Idle EXCEPT !.pc = "children", !.obj = rec'.obj]
    BY <1>1, <1>2 DEF Idle, TypeOK, CustomResource, Status
  <2>3. rec' \in Pass
    BY <2>2 DEF Idle, Pass
  <2>4. series' = Absent \/ series' \subseteq State
    BY DEF RecordAmaltheaSessionMetrics, RecordedStates, TypeOK
  <2> QED BY <2>1, <2>3, <2>4 DEF TypeOK, Pass
<1>4. JobAndPod' /\ ResultStored'
  BY DEF JobAndPod, ResultStored, jobIsSuccess, TypeOK, CustomResource, Status
<1>5. EndDated'
  BY <1>1 DEF EndDated, DatedAfterEnd, jobIsFinished, Idle, TypeOK, CustomResource, Status
<1> QED BY <1>3, <1>4, <1>5

\* A finished Job is not replaced, so its end keeps its date.
LEMMA ReconcileJobPreserves == ASSUME IInv, ReconcileJob PROVE IInv'
<1> USE DEF IInv, ReconcileJob
<1>1. \/ job' = job
      \/ ~jobIsFinished /\ job' = Job(rec.obj)
  OBVIOUS
<1>2. rec'.obj = rec.obj
  BY DEF TypeOK
<1>3. TypeOK'
  <2>1. job' \in JobRecord
    <3>1. job \in JobRecord /\ rec.obj.hibernated \in BOOLEAN /\ rec.obj.status.runID \in RunID
      BY DEF TypeOK, JobRecord, CustomResource, Status
    <3>2. NoJob \in JobRecord
      BY DEF NoJob, JobRecord, RunID, Zero
    <3>3. Job(rec.obj) \in JobRecord
      BY <3>1, <3>2 DEF Job, JobRecord
    <3> QED BY <1>1, <3>1, <3>3
  <2>2. rec' \in Pass
    <3>1. rec' = [rec EXCEPT !.pc = "status", !.suspend = rec'.suspend, !.active = rec'.active]
      BY DEF TypeOK
    <3>2. rec'.suspend \in BOOLEAN
      BY DEF TypeOK, CustomResource
    <3>3. rec'.active = (pod \in Active) \/ rec'.active = (job.exists /\ pod \in Active)
      BY DEF TypeOK
    <3>4. rec'.active \in BOOLEAN
      <4> HIDE DEF IInv, ReconcileJob
      <4>1. CASE rec'.active = (pod \in Active)
        BY <4>1
      <4>2. CASE rec'.active = (job.exists /\ pod \in Active)
        BY <4>2
      <4> QED BY <3>3, <4>1, <4>2
    <3> QED BY <3>1, <3>2, <3>4 DEF TypeOK, Pass
  <2>3. faults' \in 0 .. MaxFaults
    BY JobBoundsAssumption DEF Fault, TypeOK
  <2> QED BY <2>1, <2>2, <2>3 DEF TypeOK, JobRecord, Pass
<1>4. \/ job'.condition = job.condition /\ job'.failed = job.failed /\ (job.exists => job'.exists)
      \/ ~jobIsFinished /\ job'.condition = "none" /\ job'.failed = FALSE /\ job'.exists
  BY <1>1 DEF Job, NoJob, TypeOK
<1>5. JobAndPod' /\ ResultStored'
  BY <1>4 DEF JobAndPod, ResultStored, jobIsSuccess, jobIsFinished
<1>6. EndDated'
  BY <1>2, <1>4 DEF EndDated, DatedAfterEnd, jobIsFinished
<1> QED BY <1>3, <1>5, <1>6

\* The pass is given up, the session is gone: nothing is known any more.
LEMMA NothingKnown == Idle.obj = Gone /\ DatedAfterEnd(Gone.status) /\ Gone \in CustomResource
                      /\ Idle \in Pass
BY DEF Pass, Idle, Gone, NewStatus, CustomResource, Status, State, RunID, DatedAfterEnd, Zero

\* The status written dates the end that the pass has seen.
LEMMA UpdateStatusPreserves == ASSUME IInv, UpdateStatus PROVE IInv'
<1> USE DEF IInv, UpdateStatus
<1>1. faults' \in 0 .. MaxFaults
  BY JobBoundsAssumption DEF Fault, TypeOK
<1>2. CASE UNCHANGED <<cr, series>> /\ rec' = Idle
  <2>1. TypeOK'
    BY <1>1, <1>2, NothingKnown DEF TypeOK, Pass
  <2>2. JobAndPod' /\ ResultStored'
    BY <1>2 DEF JobAndPod, ResultStored, jobIsSuccess
  <2>3. EndDated'
    BY <1>2, NothingKnown DEF EndDated, DatedAfterEnd, jobIsFinished
  <2> QED BY <2>1, <2>2, <2>3
<1>3. CASE /\ cr' = [cr EXCEPT !.status = StatusOf(rec.obj)] /\ cr.exists
           /\ rec' = [rec EXCEPT !.pc = "finish", !.obj = cr']
           /\ RecordAmaltheaSessionMetrics(cr'.status)
  <2>1. StatusOf(rec.obj) \in Status /\ rec.obj \in CustomResource
    BY StatusOfType DEF TypeOK
  <2>2. cr'.status = StatusOf(rec.obj) /\ cr' \in CustomResource /\ cr'.exists
    BY <1>3, <2>1 DEF TypeOK, CustomResource
  <2>3. rec'.obj = cr' /\ rec' \in Pass
    BY <1>3, <2>2 DEF TypeOK, Pass
  <2>4. TypeOK'
    <3>1. series' \subseteq State
      BY <1>3 DEF RecordAmaltheaSessionMetrics, RecordedStates
    <3> QED BY <1>1, <2>2, <2>3, <3>1 DEF TypeOK, Pass
  <2>5. cr'.status.state = StateOf(rec.obj)
    BY <2>2 DEF StatusOf
  <2>6. JobAndPod' /\ ResultStored'
    BY <1>3, <2>2, <2>5, StateIsFound DEF JobAndPod, ResultStored, jobIsSuccess
  <2>7. DatedAfterEnd(StatusOf(rec.obj))
    BY <2>1, StatusOfDated DEF EndDated
  <2>8. EndDated'
    BY <2>2, <2>3, <2>7 DEF EndDated, DatedAfterEnd, jobIsFinished
  <2> QED BY <2>4, <2>6, <2>8
<1> QED BY <1>2, <1>3

\* The end of a pass deletes at most the session.
LEMMA FinishPreserves == ASSUME IInv, Finish PROVE IInv'
<1> USE DEF IInv, Finish
<1>1. TypeOK'
  <2>1. faults' \in 0 .. MaxFaults
    BY JobBoundsAssumption DEF Fault, TypeOK
  <2>2. (series' = Absent \/ series' \subseteq State) /\ cr' \in CustomResource
    BY NothingKnown DEF RemoveAmaltheaSessionMetrics, TypeOK
  <2> QED BY <2>1, <2>2, NothingKnown DEF TypeOK, Pass
<1>2. JobAndPod' /\ ResultStored'
  BY DEF JobAndPod, ResultStored, jobIsSuccess, Gone
<1>3. EndDated'
  BY NothingKnown DEF EndDated, DatedAfterEnd, jobIsFinished
<1> QED BY <1>1, <1>2, <1>3

\* Users change the spec or delete the session; the status stays.
LEMMA UserPreserves == ASSUME IInv, User PROVE IInv'
<1> USE DEF IInv, User
<1>1. TypeOK'
  <2>1. (~cr.hibernated) \in BOOLEAN
    BY Zenon
  <2>2. cr' \in CustomResource
    BY <2>1, NothingKnown DEF TypeOK, CustomResource
  <2> QED BY <2>2 DEF TypeOK
<1>2. JobAndPod' /\ ResultStored'
  BY DEF JobAndPod, ResultStored, jobIsSuccess, Gone, TypeOK, CustomResource
<1>3. EndDated'
  BY NothingKnown DEF EndDated, DatedAfterEnd, jobIsFinished, TypeOK, CustomResource
<1> QED BY <1>1, <1>2, <1>3

\* The end of a pod is dated when it is first seen, and not before.
LEMMA ClusterPreserves == ASSUME IInv, Cluster PROVE IInv'
<1> USE DEF IInv, Cluster
<1>1. TypeOK'
  <2>1. faults' \in 0 .. MaxFaults
    BY JobBoundsAssumption DEF PodCreated, PodStopped, PodGone, PodStuck, JobEnds, JobStopped,
       PodMoves, GarbageCollected, Fault, TypeOK
  <2>2. pod' \in PodPhase /\ doneAt' \in Nat
    BY DEF PodCreated, PodStopped, PodGone, PodStuck, JobEnds, JobStopped, PodMoves,
           GarbageCollected, PodPhase, First, TypeOK, Zero
  <2>3. job' \in JobRecord
    <3>1. job \in JobRecord /\ NoJob \in JobRecord /\ now \in Nat
      BY DEF TypeOK, JobRecord, NoJob, RunID, Zero
    <3>2. CASE PodCreated
      BY <3>1, <3>2 DEF PodCreated, JobRecord
    <3>3. CASE JobEnds \/ JobStopped
      BY <3>1, <3>3 DEF JobEnds, JobStopped, JobRecord
    <3>4. CASE job' = job \/ job' = NoJob
      BY <3>1, <3>4
    <3> QED BY <3>2, <3>3, <3>4 DEF PodStopped, PodGone, PodStuck, PodMoves, GarbageCollected
  <2> QED BY <2>1, <2>2, <2>3 DEF TypeOK, JobRecord
<1>2. JobAndPod'
  <2>1. CASE PodCreated \/ PodStopped \/ PodGone \/ PodStuck
    BY <2>1 DEF PodCreated, PodStopped, PodGone, PodStuck, JobAndPod, jobIsFinished, Active, TypeOK
  <2>2. CASE JobEnds \/ JobStopped
    BY <2>2 DEF JobEnds, JobStopped, JobAndPod, jobIsFinished, TypeOK
  <2>3. CASE (\E phase \in PodPhase : PodMoves(phase)) \/ GarbageCollected
    BY <2>3 DEF PodMoves, GarbageCollected, JobAndPod, NoJob
  <2> QED BY <2>1, <2>2, <2>3
<1>3. ResultStored'
  BY DEF PodCreated, PodStopped, PodGone, PodStuck, JobEnds, JobStopped, PodMoves, JobAndPod,
         GarbageCollected, ResultStored, jobIsSuccess, jobIsFinished, Active, NoJob, TypeOK
<1>4. EndDated'
  BY DEF PodCreated, PodStopped, PodGone, PodStuck, JobEnds, JobStopped, PodMoves, JobAndPod,
         GarbageCollected, EndDated, DatedAfterEnd, First, jobIsFinished, Active, NoJob, TypeOK, Zero
<1> QED BY <1>1, <1>2, <1>3, <1>4

\* The steps of all actors, and the clock.
LEMMA NextPreserves == IInv /\ [Next]_vars => IInv'
<1> SUFFICES ASSUME IInv, [Next]_vars PROVE IInv'
  OBVIOUS
<1>1. CASE Tick \/ UNCHANGED vars
  <2>1. TypeOK'
    BY <1>1 DEF IInv, Tick, vars, TypeOK
  <2>2. JobAndPod' /\ ResultStored'
    BY <1>1 DEF IInv, Tick, vars, JobAndPod, ResultStored, jobIsSuccess
  <2>3. EndDated'
    BY <1>1 DEF IInv, Tick, vars, EndDated, DatedAfterEnd, jobIsFinished, TypeOK
  <2> QED BY <2>1, <2>2, <2>3 DEF IInv
<1>2. CASE Reconciler
  BY <1>2, GetPreserves, ReconcileJobPreserves, UpdateStatusPreserves, FinishPreserves
     DEF Reconciler
<1> QED BY <1>1, <1>2, UserPreserves, ClusterPreserves DEF Next

-----------------------------------------------------------------------------
\* A job reported as Succeeded stays so whatever becomes of its pod: the Job
\* remembers it.
THEOREM ResultIsKept == Spec => ResultKept
<1>1. IInv /\ [Next]_vars =>
        [cr.status.state = "Succeeded" /\ cr'.exists
            => cr'.status.state \in {"Succeeded", "Hibernated"}]_vars
  <2> SUFFICES ASSUME IInv, Next, cr.status.state = "Succeeded", cr'.exists
               PROVE  cr'.status.state \in {"Succeeded", "Hibernated"}
    OBVIOUS
  <2>1. CASE UpdateStatus
    <3>1. CASE cr.exists /\ cr' = [cr EXCEPT !.status = StatusOf(rec.obj)]
      <4>1. pod = "succeeded" \/ jobIsSuccess
        BY <3>1 DEF IInv, ResultStored
      <4>2. StateOf(rec.obj) \in {"Succeeded", "Hibernated"}
        BY <4>1, SuccessFoundAgain
      <4>3. cr'.status.state = StateOf(rec.obj)
        BY <3>1 DEF IInv, TypeOK, CustomResource, StatusOf
      <4> QED BY <4>2, <4>3
    <3>2. CASE UNCHANGED cr
      BY <3>2
    <3> QED BY <2>1, <3>1, <3>2 DEF UpdateStatus
  <2>2. CASE ~UpdateStatus
    <3>1. cr' = Gone \/ cr' = cr \/ cr' = [cr EXCEPT !.status.url = TRUE]
          \/ cr' = [cr EXCEPT !.hibernated = ~@]
      BY <2>2 DEF Next, Reconciler, Get, ReconcileJob, Finish, User, Cluster, Tick
    <3> QED BY <3>1 DEF Gone, IInv, TypeOK, CustomResource, Status
  <2> QED BY <2>1, <2>2
<1> QED BY <1>1, InitEstablishes, NextPreserves, PTL DEF Spec, ResultKept

\* The reconciler deletes a job only when maxHibernatedDuration has passed
\* since its pod was first in trouble or done.
THEOREM KeptForDuration == Spec => KeptSinceDone
<1>1. IInv /\ [Next]_vars =>
        [cr.exists /\ ~cr'.exists /\ ~User =>
            doneAt # Zero /\ now > doneAt + maxHibernatedDuration]_vars
  <2> SUFFICES ASSUME IInv, Next, cr.exists, ~cr'.exists, ~User
               PROVE  doneAt # Zero /\ now > doneAt + maxHibernatedDuration
    OBVIOUS
  <2>1. Finish /\ NeedsDeletion(rec.obj.status)
    BY DEF Next, Reconciler, Get, ReconcileJob, UpdateStatus, Finish, Cluster, Tick, IInv, TypeOK,
           CustomResource
  <2>2. DatedAfterEnd(rec.obj.status) /\ rec.obj.status \in Status /\ now \in Nat /\ doneAt \in Nat
    BY DEF IInv, EndDated, TypeOK, CustomResource
  <2> QED BY <2>1, <2>2, JobCullingAssumption DEF NeedsDeletion, DatedAfterEnd, Status, Zero
<1> QED BY <1>1, InitEstablishes, NextPreserves, PTL DEF Spec, KeptSinceDone
=============================================================================
