---------------------- MODULE SessionController_proofs ----------------------
(***************************************************************************)
(* Proofs about SessionController, for every culling configuration, every  *)
(* set of adopted secrets, with and without a lagging informer and for     *)
(* every combination of failures.                                          *)
(***************************************************************************)
EXTENDS SessionController, TLAPS

-----------------------------------------------------------------------------
(***************************************************************************)
(* The status a pass computes.                                             *)
(***************************************************************************)

\* A hibernation date is a time.
LEMMA HibernationDateType ==
    ASSUME NEW creationTimestamp \in Nat, NEW status \in Status, NEW lastInteraction \in Nat
    PROVE  calculateHibernationDate(creationTimestamp, status, culling, lastInteraction) \in Nat
  <1>1. /\ culling.maxAge \in Nat /\ culling.maxIdleDuration \in Nat
        /\ culling.maxStartingDuration \in Nat /\ culling.maxFailedDuration \in Nat
    BY CullingAssumption DEF CullingConfig
  <1>2. /\ status.failingSince \in Nat /\ status.idleSince \in Nat
    BY DEF Status
  <1>3. \A start, duration \in Nat : DateAfter(start, duration) \in Nat
    BY DEF DateAfter, Zero
  <1>4. \A result, date \in Nat : Earlier(result, date) \in Nat
    BY DEF Earlier
  <1>5. hibernationDateByMaxAge(creationTimestamp, culling) \in Nat
    BY <1>1, <1>3 DEF hibernationDateByMaxAge
  <1>6. hibernationDateByStartingDuration(creationTimestamp, status, culling) \in Nat
    BY <1>1, <1>3 DEF hibernationDateByStartingDuration, Zero
  <1>7. hibernationDateByFailingSince(status, culling) \in Nat
    BY <1>1, <1>2, <1>3 DEF hibernationDateByFailingSince
  <1>8. hibernationDateByIdleSince(status, culling, lastInteraction) \in Nat
    BY <1>1, <1>2, <1>3 DEF hibernationDateByIdleSince
  <1> QED
    BY <1>4, <1>5, <1>6, <1>7, <1>8 DEF calculateHibernationDate

\* A clock shows a time.
LEMMA SinceType ==
    ASSUME NEW holds, NEW since \in Nat, NEW time \in Nat
    PROVE  Since(holds, since, time) \in Nat
  BY DEF Since, Zero

\* The status callback changes clocks only.
LEMMA CallbackStatus ==
    ASSUME NEW callback, NEW status \in Status, NEW time \in Nat
    PROVE  /\ statusCallback(callback, status, time) \in Status
           /\ statusCallback(callback, status, time).runID = status.runID
           /\ statusCallback(callback, status, time).state = status.state
           /\ statusCallback(callback, status, time).hibernatedSince =
                IF callback = "none" THEN status.hibernatedSince
                ELSE IF callback = "hibernated" THEN time ELSE Zero
  BY DEF statusCallback, Status, Zero

\* The computed status is well-typed, keeps the run ID the pass works with, says
\* Hibernated of hibernated sessions only and dates it unless a callback does.
LEMMA StatusOfType ==
    ASSUME NEW cr \in CustomResource, NEW updates, NEW phase, NEW evts, NEW cpu,
           NEW ing \in BOOLEAN, NEW time \in Nat
    PROVE  LET st == StatusOf(cr, updates, phase, evts, cpu, ing, CreationTimestamp, time)
           IN  /\ st \in Status
               /\ st.runID = cr.status.runID
               /\ st.state = "Hibernated" => cr.hibernated
               /\ st.hibernatedSince =
                    IF updates.callback = "none" THEN HibernatedSince(cr, time)
                    ELSE IF updates.callback = "hibernated" THEN time ELSE Zero
  <1> DEFINE inferred == checkEventsInferedState(cr, StateOf(cr, updates, phase), evts, time)
             idle == getIdleState(cr, inferred.state, phase, cpu, time)
             state == IF phase = "none" /\ evts.quota THEN "Failed" ELSE inferred.state
             base == [state |-> state, idle |-> idle.idle, idleSince |-> idle.since,
                      failingSince |-> Since(state = "Failed", cr.status.failingSince, time),
                      failedSchedulingSince |->
                          IF state \in {"Hibernated", "Running"} THEN Zero
                                                                ELSE inferred.failedSchedulingSince,
                      hibernatedSince |-> HibernatedSince(cr, time),
                      willHibernateAt |-> calculateHibernationDate(CreationTimestamp, cr.status,
                                                        culling, cr.lastInteraction),
                      runID |-> cr.status.runID,
                      routingReady |-> RoutingReady(cr, ing),
                      url |-> TRUE]
  <1>1. /\ cr.status \in Status /\ cr.lastInteraction \in Nat
    BY DEF CustomResource
  <1>2. /\ cr.status.failingSince \in Nat /\ cr.status.idleSince \in Nat
        /\ cr.status.failedSchedulingSince \in Nat /\ cr.status.hibernatedSince \in Nat
        /\ cr.status.runID \in RunID /\ cr.status.routingReady \in BOOLEAN
    BY <1>1 DEF Status
  <1>3. StateOf(cr, updates, phase) \in State
    BY DEF StateOf, State
  <1>4. inferred.state \in State /\ inferred.failedSchedulingSince \in Nat
    BY <1>2, <1>3 DEF checkEventsInferedState, State, Zero
  <1>5. idle.idle \in BOOLEAN /\ idle.since \in Nat
    BY <1>2, SinceType DEF getIdleState
  <1>6. state \in State
    BY <1>4 DEF State
  <1>7. /\ Since(state = "Failed", cr.status.failingSince, time) \in Nat
        /\ HibernatedSince(cr, time) \in Nat
    BY <1>2, SinceType DEF HibernatedSince
  <1>8. calculateHibernationDate(CreationTimestamp, cr.status, culling, cr.lastInteraction) \in Nat
    BY <1>1, HibernationDateType DEF CreationTimestamp
  <1>9. RoutingReady(cr, ing) \in BOOLEAN
    BY <1>2 DEF RoutingReady
  <1>10. base \in Status /\ base.runID = cr.status.runID
    BY <1>2, <1>4, <1>5, <1>6, <1>7, <1>8, <1>9 DEF Status, Zero
  <1>11. StatusOf(cr, updates, phase, evts, cpu, ing, CreationTimestamp, time)
           = statusCallback(updates.callback, base, time)
    BY DEF StatusOf
  <1>12. base.state = "Hibernated" => cr.hibernated
    BY DEF checkEventsInferedState, StateOf
  <1>13. base.hibernatedSince = HibernatedSince(cr, time)
    OBVIOUS
  <1> HIDE DEF base
  <1> QED
    BY <1>10, <1>11, <1>12, <1>13, CallbackStatus

-----------------------------------------------------------------------------
(***************************************************************************)
(* Type correctness.                                                       *)
(***************************************************************************)

\* The fields of a custom resource that actions replace.
LEMMA CRType ==
    ASSUME NEW cr \in CustomResource
    PROVE  /\ \A b \in BOOLEAN : [cr EXCEPT !.finalizer = b] \in CustomResource
           /\ \A b \in BOOLEAN : [cr EXCEPT !.hibernated = b] \in CustomResource
           /\ \A t \in Nat : [cr EXCEPT !.lastInteraction = t] \in CustomResource
           /\ \A st \in Status : [cr EXCEPT !.status = st] \in CustomResource
           /\ \A st \in State : [cr EXCEPT !.status.state = st] \in CustomResource
           /\ \A r \in RunID : [cr EXCEPT !.status.runID = r] \in CustomResource
           /\ [cr EXCEPT !.status.url = TRUE] \in CustomResource
           /\ Deleted(cr) \in CustomResource
           /\ cr.status \in Status /\ cr.status.runID \in RunID
  <1>1. NewStatus \in Status
    BY DEF NewStatus, Status, State, Zero, RunID
  <1>2. Gone \in CustomResource
    BY <1>1 DEF Gone, NewCR, CustomResource, Zero
  <1>3. Deleted(cr) \in CustomResource
    BY <1>2 DEF Deleted, CustomResource
  <1> QED
    BY <1>3 DEF CustomResource, Status

\* An idle pass.
LEMMA IdleType ==
    Idle \in [pc: PC, obj: CustomResource, fresh: BOOLEAN,
              updates: [replicas: {0, 1}, callback: Callback]]
  <1>1. NewStatus \in Status
    BY DEF NewStatus, Status, State, Zero, RunID
  <1>2. NewCR \in CustomResource
    BY <1>1 DEF NewCR, CustomResource, Zero
  <1> QED
    BY <1>2 DEF Idle, NoUpdates, PC, Callback

\* Storing a custom resource keeps the copies well-typed.
LEMMA StoreType ==
    ASSUME TypeOK, NEW cr \in CustomResource, Store(cr)
    PROVE  api' \in CustomResource /\ cache' \in CustomResource /\ cacheFresh' \in BOOLEAN
  BY DEF TypeOK, Store

\* So does storing a StatefulSet.
LEMMA StoreStatefulSetType ==
    ASSUME TypeOK, NEW s \in StatefulSet, StoreStatefulSet(s)
    PROVE  sts' \in StatefulSet /\ stsCache' \in StatefulSet
  BY DEF TypeOK, StoreStatefulSet

RecType == [pc: PC, obj: CustomResource, fresh: BOOLEAN,
            updates: [replicas: {0, 1}, callback: Callback]]

\* A pass that goes on or returns is well-typed.
LEMMA GoOnType ==
    ASSUME rec \in RecType, NEW where \in PC, NEW cr \in CustomResource
    PROVE  /\ GoOn(where, cr) => rec' \in RecType
           /\ Return => rec' \in RecType
           /\ \A w \in PC : [rec EXCEPT !.pc = w] \in RecType
           /\ [rec EXCEPT !.pc = where, !.obj = cr] \in RecType
           /\ \A b \in BOOLEAN :
                 [rec EXCEPT !.pc = where, !.obj = cr, !.fresh = b] \in RecType
           /\ [rec EXCEPT !.fresh = FALSE] \in RecType
  BY IdleType DEF GoOn, Return, RecType

\* What a step of the reconciler may leave the custom resource and the pass in.
StepType == /\ api' \in CustomResource /\ cache' \in CustomResource
            /\ cacheFresh' \in BOOLEAN /\ rec' \in RecType

\* Reading and the calls for a new or a deleted custom resource.
LEMMA EarlyCallsType ==
    ASSUME TypeOK,
           Get \/ FirstStatusUpdate \/ FirstStatusRetry \/ AddFinalizer \/ DeletingStatusUpdate
             \/ DeletingStatusRetry \/ RemoveFinalizer
    PROVE  StepType
  <1>1. /\ rec \in RecType /\ rec.obj \in CustomResource
        /\ api \in CustomResource /\ cache \in CustomResource /\ cacheFresh \in BOOLEAN
    BY DEF TypeOK, RecType
  <1>2. \A cr : AfterFirstStatus(cr) \in PC
    BY DEF AfterFirstStatus, PC
  <1>3. CASE Get
    BY <1>1, <1>2, <1>3 DEF Get, StepType, RecType, crVars, PC, NoUpdates, Callback
  <1>4. CASE FirstStatusUpdate
    <2> DEFINE cr == [rec.obj EXCEPT !.status.url = TRUE]
    <2>1. cr \in CustomResource /\ "firstConflict" \in PC
      BY <1>1, CRType DEF PC
    <2> HIDE DEF cr
    <2>2. CASE Store(cr) /\ GoOn(AfterFirstStatus(cr), cr)
      BY <1>1, <1>2, <2>1, <2>2, StoreType, GoOnType DEF StepType
    <2>3. CASE UNCHANGED crVars /\ rec' = [rec EXCEPT !.pc = "firstConflict"]
      BY <1>1, <2>1, <2>3, GoOnType DEF StepType, crVars
    <2> QED
      BY <1>4, <2>2, <2>3 DEF FirstStatusUpdate, cr
  <1>9. CASE FirstStatusRetry
    <2>1. CASE Store(rec.obj) /\ GoOn(AfterFirstStatus(rec.obj), rec.obj)
      BY <1>1, <1>2, <2>1, StoreType, GoOnType DEF StepType
    <2>2. CASE Return /\ UNCHANGED crVars
      BY <1>1, <1>2, <2>2, GoOnType DEF StepType, crVars
    <2> QED
      BY <1>9, <2>1, <2>2 DEF FirstStatusRetry
  <1>5. CASE AddFinalizer
    <2> DEFINE cr == [rec.obj EXCEPT !.finalizer = TRUE]
    <2>1. cr \in CustomResource /\ "children" \in PC
      BY <1>1, CRType DEF PC
    <2> HIDE DEF cr
    <2>2. CASE Store(cr) /\ GoOn("children", cr)
      BY <1>1, <2>1, <2>2, StoreType, GoOnType DEF StepType
    <2>3. CASE Return /\ UNCHANGED crVars
      BY <1>1, <2>1, <2>3, GoOnType DEF StepType, crVars
    <2> QED
      BY <1>5, <2>2, <2>3 DEF AddFinalizer, cr
  <1>6. CASE DeletingStatusUpdate
    <2> DEFINE cr == [rec.obj EXCEPT !.status.state = "NotReady"]
    <2>1. cr \in CustomResource /\ "deleteSecrets" \in PC /\ "deletingConflict" \in PC
      BY <1>1, CRType DEF PC, State
    <2> HIDE DEF cr
    <2>2. CASE Store(cr) /\ AfterDeletingStatus(cr)
      BY <1>1, <2>1, <2>2, StoreType, GoOnType DEF StepType, AfterDeletingStatus
    <2>3. CASE UNCHANGED crVars /\ rec' = [rec EXCEPT !.pc = "deletingConflict"]
      BY <1>1, <2>1, <2>3, GoOnType DEF StepType, crVars
    <2> QED
      BY <1>6, <2>2, <2>3 DEF DeletingStatusUpdate, cr
  <1>7. CASE DeletingStatusRetry
    <2> DEFINE cr == [rec.obj EXCEPT !.status.state = "NotReady"]
    <2>1. cr \in CustomResource /\ "deleteSecrets" \in PC
      BY <1>1, CRType DEF PC, State
    <2> HIDE DEF cr
    <2>2. CASE Store(cr) /\ AfterDeletingStatus(cr)
      BY <1>1, <2>1, <2>2, StoreType, GoOnType DEF StepType, AfterDeletingStatus
    <2>3. CASE UNCHANGED crVars /\ Return
      BY <1>1, <2>1, <2>3, GoOnType DEF StepType, crVars
    <2> QED
      BY <1>7, <2>2, <2>3 DEF DeletingStatusRetry, cr
  <1>8. CASE RemoveFinalizer
    <2> DEFINE cr == Deleted([rec.obj EXCEPT !.finalizer = FALSE])
    <2>1. cr \in CustomResource /\ "idle" \in PC
      BY <1>1, CRType DEF PC
    <2> HIDE DEF cr
    <2>2. CASE Store(cr) /\ Return
      BY <1>1, <2>1, <2>2, StoreType, GoOnType DEF StepType
    <2>3. CASE UNCHANGED crVars /\ Return
      BY <1>1, <2>1, <2>3, GoOnType DEF StepType, crVars
    <2> QED
      BY <1>8, <2>2, <2>3 DEF RemoveFinalizer, cr
  <1> QED
    BY <1>3, <1>4, <1>5, <1>6, <1>7, <1>8, <1>9

\* Reading the custom resource again: the object of the pass is a copy of it,
\* for the last update with the status computed before.
LEMMA StatusAgainType ==
    ASSUME NEW obj \in CustomResource, NEW current \in CustomResource
    PROVE  LET cr == StatusAgain(obj, current)
           IN  /\ cr \in CustomResource
               /\ cr = [current EXCEPT !.status = cr.status]
               /\ cr.exists = current.exists /\ cr.deleting = current.deleting
               /\ cr.status \in Status
               /\ cr.status = [obj.status EXCEPT !.runID = cr.status.runID]
               /\ cr.status.state = obj.status.state
               /\ cr.status.hibernatedSince = obj.status.hibernatedSince
               /\ cr.status.failingSince = obj.status.failingSince
               /\ (current.status.runID # NoRun /\ cr.status.runID # NoRun)
                     => cr.status.runID = current.status.runID
  <1> DEFINE st == [obj.status EXCEPT !.runID = RunIDAfterConflict(@, current.status.runID)]
  <1>1. /\ obj.status \in Status /\ obj.status.runID \in RunID /\ current.status.runID \in RunID
    BY CRType
  <1>2. /\ st \in Status
        /\ st = [obj.status EXCEPT !.runID = st.runID]
        /\ st.state = obj.status.state
        /\ st.hibernatedSince = obj.status.hibernatedSince
        /\ st.failingSince = obj.status.failingSince
        /\ current.status.runID # NoRun /\ st.runID # NoRun => st.runID = current.status.runID
    BY <1>1 DEF RunIDAfterConflict, Status
  <1>3. StatusAgain(obj, current) = [current EXCEPT !.status = st]
    BY DEF StatusAgain
  <1> HIDE DEF st
  <1>4. /\ [current EXCEPT !.status = st].status = st
        /\ [current EXCEPT !.status = st].exists = current.exists
        /\ [current EXCEPT !.status = st].deleting = current.deleting
        /\ [current EXCEPT !.status = st] \in CustomResource
    BY <1>2 DEF CustomResource
  <1> QED BY <1>2, <1>3, <1>4

\* What reading again does to the pass.
Conflicts == {"firstConflict", "deletingConflict", "conflict"}

LEMMA GetAgainPass ==
    ASSUME TypeOK, GetAgain
    PROVE  /\ rec.pc \in Conflicts /\ UNCHANGED <<crVars, secrets>>
           /\ \/ Return
              \/ /\ cache.exists /\ rec'.fresh = cacheFresh /\ rec'.updates = rec.updates
                 /\ \/ /\ rec.pc = "firstConflict" /\ rec'.pc = "firstRetry"
                       /\ rec'.obj = cache
                    \/ /\ rec.pc = "deletingConflict" /\ rec'.pc = "deletingRetry"
                       /\ rec'.obj = cache
                    \/ /\ rec.pc = "conflict" /\ rec'.pc = "retry"
                       /\ rec'.obj = StatusAgain(rec.obj, cache)
  <1>1. rec \in RecType
    BY DEF TypeOK, RecType
  <1>2. rec.pc \in Conflicts /\ UNCHANGED <<crVars, secrets>>
    BY DEF GetAgain, Conflicts
  <1>3. CASE ~cache.exists
    BY <1>2, <1>3 DEF GetAgain
  <1>4. CASE cache.exists
    <2> DEFINE where == CASE rec.pc = "firstConflict" -> "firstRetry"
                          [] rec.pc = "deletingConflict" -> "deletingRetry"
                          [] OTHER -> "retry"
               obj == IF rec.pc = "conflict" THEN StatusAgain(rec.obj, cache) ELSE cache
    <2>1. rec' = [rec EXCEPT !.pc = where, !.obj = obj, !.fresh = cacheFresh]
      BY <1>4 DEF GetAgain
    <2> HIDE DEF where, obj
    <2>2. /\ rec'.pc = where /\ rec'.obj = obj /\ rec'.fresh = cacheFresh
          /\ rec'.updates = rec.updates
      BY <1>1, <2>1 DEF RecType
    <2> QED BY <1>2, <1>4, <2>2 DEF where, obj, Conflicts
  <1> QED BY <1>3, <1>4

LEMMA GetAgainType ==
    ASSUME TypeOK, GetAgain
    PROVE  StepType
  <1>1. /\ rec \in RecType /\ rec.obj \in CustomResource
        /\ api \in CustomResource /\ cache \in CustomResource /\ cacheFresh \in BOOLEAN
        /\ "firstRetry" \in PC /\ "deletingRetry" \in PC /\ "retry" \in PC
    BY DEF TypeOK, RecType, PC
  <1>2. StatusAgain(rec.obj, cache) \in CustomResource
    BY <1>1, StatusAgainType
  <1>3. UNCHANGED crVars
    BY DEF GetAgain
  <1>4. CASE ~cache.exists
    BY <1>1, <1>3, <1>4, GoOnType DEF GetAgain, StepType, crVars
  <1>5. CASE cache.exists
    <2> DEFINE where == CASE rec.pc = "firstConflict" -> "firstRetry"
                          [] rec.pc = "deletingConflict" -> "deletingRetry"
                          [] OTHER -> "retry"
               obj == IF rec.pc = "conflict" THEN StatusAgain(rec.obj, cache) ELSE cache
    <2>1. rec' = [rec EXCEPT !.pc = where, !.obj = obj, !.fresh = cacheFresh]
      BY <1>5 DEF GetAgain
    <2>2. where \in PC /\ obj \in CustomResource
      BY <1>1, <1>2
    <2> HIDE DEF where, obj
    <2> QED BY <1>1, <1>3, <2>1, <2>2, GoOnType DEF StepType, crVars
  <1> QED BY <1>4, <1>5

\* The StatefulSet that is sent to the API server.
LEMMA ChildrenType ==
    ASSUME TypeOK, NEW cr \in CustomResource
    PROVE  LET desired == Desired(cr, stsCache)
           IN  /\ desired \in StatefulSet
               /\ Patched(stsCache, desired) \in StatefulSet
               /\ CallbackOf(stsCache, desired) \in Callback
  <1>1. /\ stsCache \in StatefulSet /\ sts \in StatefulSet /\ cr.status.runID \in RunID
    BY CRType DEF TypeOK
  <1>2. Desired(cr, stsCache) \in StatefulSet
    BY <1>1 DEF Desired, StatefulSet
  <1>3. \A d \in StatefulSet : Patched(stsCache, d) \in StatefulSet
    BY <1>1 DEF Patched, StatefulSet
  <1>4. \A d : CallbackOf(stsCache, d) \in Callback
    BY DEF CallbackOf, Callback
  <1> QED
    BY <1>2, <1>3, <1>4

\* Reconciling the children.
LEMMA ReconcileChildrenType ==
    ASSUME TypeOK, NEW runID \in RunID, NEW failed, ReconcileChildren(runID, failed)
    PROVE  TypeOK'
  <1> DEFINE cr      == [rec.obj EXCEPT !.status.runID = runID]
             desired == Desired(cr, stsCache)
             sent    == IF stsCache.exists THEN Patched(stsCache, desired) ELSE desired
             stored  == IF desired = stsCache THEN sts ELSE sent
             result  == IF desired = stsCache THEN stsCache ELSE sent
             errors  == failed \cup IF stsCache.exists = sts.exists THEN {} ELSE {"sts"}
  <1>1. /\ rec \in RecType /\ rec.obj \in CustomResource
        /\ sts \in StatefulSet /\ stsCache \in StatefulSet
    BY DEF TypeOK, RecType
  <1>2. cr \in CustomResource
    BY <1>1, CRType
  <1>3. /\ stored \in StatefulSet /\ result \in StatefulSet /\ cr.hibernated \in BOOLEAN
        /\ CallbackOf(stsCache, desired) \in Callback
    <2> HIDE DEF cr
    <2> QED BY <1>1, <1>2, ChildrenType DEF CustomResource
  <1>4. result.replicas \in {0, 1}
    <2> HIDE DEF result
    <2> QED BY <1>3 DEF StatefulSet
  <1>5. /\ IF "sts" \in errors THEN UNCHANGED <<sts, stsCache>>
                                ELSE StoreStatefulSet(stored)
        /\ ingress' = IF "ingress" \in errors THEN ingress ELSE ReconcileIngress(cr)
        /\ \/ Return
           \/ rec' = [rec EXCEPT !.pc = "status", !.obj = cr,
                          !.updates = [replicas |-> result.replicas,
                                       callback |-> CallbackOf(stsCache, desired)]]
        /\ UNCHANGED <<crVars, pod, events, secrets, now>>
    BY DEF ReconcileChildren
  <1> HIDE DEF cr, desired, sent, stored, result, errors
  <1>6. sts' \in StatefulSet /\ stsCache' \in StatefulSet
    BY <1>3, <1>5, StoreStatefulSetType DEF TypeOK
  <1>7. rec' \in RecType
    <2>1. CASE Return
      BY <1>1, <2>1, IdleType DEF Return, RecType
    <2> DEFINE upd == [replicas |-> result.replicas, callback |-> CallbackOf(stsCache, desired)]
    <2>2. upd \in [replicas: {0, 1}, callback: Callback]
      BY <1>3, <1>4
    <2>3. CASE rec' = [rec EXCEPT !.pc = "status", !.obj = cr, !.updates = upd]
      <3> HIDE DEF upd
      <3> QED BY <1>1, <1>2, <2>2, <2>3 DEF RecType, PC
    <2> QED BY <1>5, <2>1, <2>3
  <1>8. ingress' \in BOOLEAN
    BY <1>3, <1>5 DEF TypeOK, ReconcileIngress
  <1> QED
    BY <1>5, <1>6, <1>7, <1>8 DEF TypeOK, crVars, RecType

\* Updating the status and what follows it.
LEMMA LateCallsType ==
    ASSUME TypeOK,
           (\E cpu \in IdleDecision : UpdateStatus(cpu)) \/ RetryStatus
             \/ DeleteSession \/ updateHibernationState
    PROVE  StepType
  <1>1. /\ rec \in RecType /\ rec.obj \in CustomResource
        /\ api \in CustomResource /\ cache \in CustomResource /\ cacheFresh \in BOOLEAN
        /\ ingress \in BOOLEAN /\ now \in Nat
        /\ "finish" \in PC /\ "conflict" \in PC
    BY DEF TypeOK, RecType, PC
  <1>2. ASSUME NEW cpu \in IdleDecision, UpdateStatus(cpu) PROVE StepType
    <2> DEFINE st == StatusOf(rec.obj, rec.updates, pod.phase, events, cpu,
                              ingress, CreationTimestamp, now)
               cr == [rec.obj EXCEPT !.status = st]
    <2>1. st \in Status
      BY <1>1, StatusOfType
    <2> HIDE DEF st
    <2>2. cr \in CustomResource
      BY <1>1, <2>1, CRType
    <2>3. \/ Store(cr) /\ GoOn("finish", cr)
          \/ UNCHANGED crVars /\ rec' = [rec EXCEPT !.pc = "conflict", !.obj = cr]
      BY <1>2 DEF UpdateStatus, st
    <2> HIDE DEF cr
    <2>4. CASE Store(cr) /\ GoOn("finish", cr)
      BY <1>1, <2>2, <2>4, StoreType, GoOnType DEF StepType
    <2>5. CASE UNCHANGED crVars /\ rec' = [rec EXCEPT !.pc = "conflict", !.obj = cr]
      BY <1>1, <2>2, <2>5, GoOnType DEF StepType, crVars
    <2> QED
      BY <2>3, <2>4, <2>5
  <1>3. CASE RetryStatus
    <2>1. CASE Store(rec.obj) /\ GoOn("finish", rec.obj)
      BY <1>1, <2>1, StoreType, GoOnType DEF StepType
    <2>2. CASE UNCHANGED crVars /\ Return
      BY <1>1, <2>2, GoOnType DEF StepType, crVars
    <2> QED
      BY <1>3, <2>1, <2>2 DEF RetryStatus
  <1>4. CASE DeleteSession
    <2>1. Deleted(api) \in CustomResource
      BY <1>1, CRType
    <2>2. (Store(Deleted(api)) \/ UNCHANGED crVars) /\ Return
      BY <1>4 DEF DeleteSession
    <2> QED
      BY <1>1, <2>1, <2>2, StoreType, GoOnType DEF StepType, crVars
  <1>5. CASE updateHibernationState
    <2> DEFINE cr == [rec.obj EXCEPT !.hibernated = TRUE]
    <2>1. cr \in CustomResource
      BY <1>1, CRType
    <2>2. (Store(cr) \/ UNCHANGED crVars) /\ Return
      BY <1>5 DEF updateHibernationState
    <2> HIDE DEF cr
    <2> QED
      BY <1>1, <2>1, <2>2, StoreType, GoOnType DEF StepType, crVars
  <1> QED
    BY <1>2, <1>3, <1>4, <1>5

\* Users.
LEMMA UserType ==
    ASSUME TypeOK, User
    PROVE  StepType /\ UNCHANGED <<clusterVars, secrets, now>>
  <1>1. /\ rec \in RecType /\ api \in CustomResource /\ now \in Nat
    BY DEF TypeOK, RecType
  <1>2. ASSUME NEW cr \in CustomResource, UserWrites(cr)
        PROVE  StepType /\ UNCHANGED <<clusterVars, secrets, now>>
    <2>1. "idle" \in PC
      BY DEF PC
    <2> QED
      BY <1>1, <1>2, <2>1, StoreType, GoOnType DEF UserWrites, StepType
  <1>3. /\ [api EXCEPT !.hibernated = TRUE] \in CustomResource
        /\ [api EXCEPT !.hibernated = FALSE] \in CustomResource
        /\ [api EXCEPT !.lastInteraction = now] \in CustomResource
        /\ Deleted(api) \in CustomResource
    BY <1>1, CRType
  <1> QED
    BY <1>2, <1>3 DEF User, UserHibernates, UserResumes, UserInteracts, UserDeletes

\* Every step preserves the types.
LEMMA TypeStep ==
    ASSUME TypeOK, [Next]_vars
    PROVE  TypeOK'
  <1> DEFINE others == <<clusterVars, secrets, now>>
  <1>0. ASSUME StepType, UNCHANGED others PROVE TypeOK'
    BY <1>0 DEF TypeOK, StepType, RecType, clusterVars
  <1>1. CASE Get \/ FirstStatusUpdate \/ FirstStatusRetry \/ AddFinalizer
               \/ DeletingStatusUpdate \/ DeletingStatusRetry \/ RemoveFinalizer
    <2>1. UNCHANGED others
      BY <1>1 DEF Get, FirstStatusUpdate, FirstStatusRetry, AddFinalizer,
                  DeletingStatusUpdate, DeletingStatusRetry, RemoveFinalizer
    <2> QED
      BY <1>0, <1>1, <2>1, EarlyCallsType
  <1>13. CASE GetAgain
    <2>1. UNCHANGED others
      BY <1>13 DEF GetAgain
    <2> QED
      BY <1>0, <1>13, <2>1, GetAgainType
  <1>2. ASSUME NEW failed \in SUBSET Adopted, DeleteSecrets(failed) PROVE TypeOK'
    <2>1. rec' \in RecType
      <3>1. rec \in RecType /\ "removeFinalizer" \in PC
        BY DEF TypeOK, RecType, PC
      <3> QED BY <1>2, <3>1, IdleType DEF DeleteSecrets, Return, RecType
    <2> QED
      BY <1>2, <2>1 DEF DeleteSecrets, TypeOK, crVars, clusterVars, RecType
  <1>3. ASSUME NEW runID \in RunID, NEW failed, ReconcileChildren(runID, failed) PROVE TypeOK'
    BY <1>3, ReconcileChildrenType
  <1>4. CASE (\E cpu \in IdleDecision : UpdateStatus(cpu)) \/ RetryStatus
               \/ DeleteSession \/ updateHibernationState
    <2>1. UNCHANGED others
      BY <1>4 DEF UpdateStatus, RetryStatus, DeleteSession, updateHibernationState
    <2> QED
      BY <1>0, <1>4, <2>1, LateCallsType
  <1>5. CASE Reconciler
    BY <1>1, <1>2, <1>3, <1>4, <1>5, <1>13 DEF Reconciler
  <1>6. CASE Crash
    BY <1>6, IdleType DEF Crash, Return, TypeOK
  <1>7. CASE SyncCR \/ SyncStatefulSet
    BY <1>7 DEF SyncCR, SyncStatefulSet, TypeOK, clusterVars, crVars
  <1>8. CASE User
    BY <1>0, <1>8, UserType
  <1>9. CASE Pods
    <2>1. pod' \in [phase: PodPhase, runID: RunID] /\ events' \in Events
      <3> DEFINE Pod == [phase: PodPhase, runID: RunID]
      <3>1. pod \in Pod /\ events \in Events /\ sts.runID \in RunID
        BY DEF TypeOK, StatefulSet
      <3>2. CASE PodCreated
        BY <3>1, <3>2 DEF PodCreated, PodPhase
      <3>3. CASE PodStopped \/ PodAges
        BY <3>1, <3>3 DEF PodStopped, PodAges, PodPhase
      <3>6. CASE PodGone
        BY <3>1, <3>6 DEF PodGone, PodPhase, NoPod, RunID
      <3>4. CASE PodReady \/ PodFails
        BY <3>1, <3>4 DEF PodReady, PodFails, PodScheduled, PodPhase, Events
      <3>5. CASE SchedulingFails \/ QuotaExceeded
        BY <3>1, <3>5 DEF SchedulingFails, QuotaExceeded, Events
      <3>8. CASE EventsExpire
        <4>1. [podEvent |-> "none", quota |-> FALSE] \in Events
          BY DEF Events
        <4> QED BY <3>1, <3>8, <4>1 DEF EventsExpire
      <3> QED
        BY <1>9, <3>2, <3>3, <3>4, <3>5, <3>6, <3>8 DEF Pods
    <2> QED
      BY <1>9, <2>1 DEF Pods, TypeOK, crVars
  <1>10. CASE GarbageCollected
    <2>1. [exists |-> FALSE, replicas |-> 0, runID |-> NoRun] \in StatefulSet
      BY DEF StatefulSet, RunID
    <2>2. sts' \in StatefulSet /\ stsCache' \in StatefulSet
      BY <1>10, <2>1, StoreStatefulSetType DEF GarbageCollected
    <2> QED
      BY <1>10, <2>2 DEF GarbageCollected, TypeOK, crVars
  <1>11. CASE Tick
    BY <1>11 DEF Tick, TypeOK, crVars, clusterVars
  <1>12. CASE UNCHANGED vars
    BY <1>12 DEF vars, TypeOK, crVars, clusterVars
  <1> QED
    BY <1>5, <1>6, <1>7, <1>8, <1>9, <1>10, <1>11, <1>12 DEF Next

\* The initial states are well-typed.
LEMMA TypeInit == Init => TypeOK
  <1>1. NewStatus \in Status
    BY DEF NewStatus, Status, State, Zero, RunID
  <1>2. NewCR \in CustomResource
    BY <1>1 DEF NewCR, CustomResource, Zero
  <1>3. \A h \in BOOLEAN : [NewCR EXCEPT !.hibernated = h] \in CustomResource
    BY <1>2, CRType
  <1>4. ASSUME Init PROVE api \in CustomResource /\ cache \in CustomResource
    BY <1>3, <1>4 DEF Init
  <1>5. ASSUME Init PROVE sts \in StatefulSet /\ stsCache \in StatefulSet
    BY <1>5 DEF Init, StatefulSet, RunID
  <1>6. ASSUME Init PROVE pod \in [phase: PodPhase, runID: RunID]
    BY <1>6 DEF Init, PodPhase, RunID
  <1>7. ASSUME Init PROVE events \in Events
    BY <1>7 DEF Init, Events
  <1>8. ASSUME Init PROVE now \in Nat \ {0}
    BY <1>8 DEF Init, CreationTimestamp
  <1>10. ASSUME Init PROVE /\ cacheFresh \in BOOLEAN /\ ingress \in BOOLEAN
                           /\ secrets \in SUBSET Adopted
    BY <1>10, Zenon DEF Init
  <1>9. ASSUME Init PROVE rec \in RecType
    BY <1>9, IdleType DEF Init, RecType
  <1> QED
    BY <1>4, <1>5, <1>6, <1>7, <1>8, <1>9, <1>10 DEF TypeOK, RecType

\* Whatever the reconciler, the users, the cluster and the failures do, the
\* custom resource, its copies and the children keep their types.
THEOREM TypeCorrect == Spec => []TypeOK
  BY TypeInit, TypeStep, PTL DEF Spec

-----------------------------------------------------------------------------
(***************************************************************************)
(* The inductive invariant that the safety properties rest on, Copies:     *)
(* what the copies of the custom resource that the reconciler holds have   *)
(* to do with the one on the API server.                                   *)
(***************************************************************************)

\* The failure clock of a status only runs for a failed session.
FailureTimed(st) == st.failingSince # Zero => st.state = "Failed"

\* A hibernated status has its date; a session that is being deleted is
\* reported as NotReady and keeps its clocks.
Dated(cr) ==
    /\ cr.status.state = "Hibernated" => cr.status.hibernatedSince # Zero
    /\ ~cr.deleting => FailureTimed(cr.status)

\* The cache: a copy of the current version is the stored object, a deletion
\* it has seen is never taken back, and statuses are dated.
CacheInv ==
    /\ cacheFresh => cache = api
    /\ cache.exists /\ cache.deleting => api.deleting \/ ~api.exists
    /\ Dated(api) /\ Dated(cache)

\* The copy of a pass whose version is current is the stored object; only
\* while the status is computed it may have a run ID the stored one lacks, or
\* lack the one of a run that ends, and a retried status is still to be stored.
PassCurrent ==
    /\ rec.fresh /\ rec.pc \notin {"status", "conflict", "retry"} => rec.obj = api
    /\ rec.fresh /\ rec.pc = "retry" =>
         /\ rec.obj = [api EXCEPT !.status = rec.obj.status]
         /\ (api.status.runID # NoRun /\ rec.obj.status.runID # NoRun)
               => rec.obj.status.runID = api.status.runID
    /\ rec.fresh /\ rec.pc = "status" =>
         /\ rec.obj = [api EXCEPT !.status.runID = rec.obj.status.runID]
         /\ (api.status.runID # NoRun /\ rec.obj.status.runID # NoRun)
               => rec.obj.status.runID = api.status.runID

\* At the end of a pass nobody else has changed the status since.
StatusKept == rec.pc = "finish" /\ api.exists => api.status = rec.obj.status

DeletingPCs == {"deletingStatus", "deletingConflict", "deletingRetry", "deleteSecrets",
                "removeFinalizer"}

\* A pass only completes a deletion that was asked for, and once it has
\* deleted the adopted secrets.
PassDeletes ==
    /\ rec.pc \in DeletingPCs => api.deleting \/ ~api.exists
    /\ rec.pc = "removeFinalizer" => secrets = {}

\* The callback that clears the date is not registered for a hibernated session.
PassDated ==
    /\ Dated(rec.obj)
    /\ rec.pc \in {"conflict", "retry"} => FailureTimed(rec.obj.status)
    /\ rec.pc = "status" /\ rec.updates.callback = "resumed" => ~rec.obj.hibernated

PassInv == PassCurrent /\ StatusKept /\ PassDeletes /\ PassDated

Copies == CacheInv /\ PassInv

-----------------------------------------------------------------------------
(***************************************************************************)
(* What a step may do to the custom resource.                              *)
(***************************************************************************)

\* A status update replaces the status alone, and no run ID by another.
WritesStatus ==
    \E st \in Status :
        /\ api' = [api EXCEPT !.status = st]
        /\ api.status.runID # NoRun /\ st.runID # NoRun => st.runID = api.status.runID

\* The reconciler's own deletion, and its hibernation of the session.
Expires ==
    /\ rec.pc = "finish" /\ NeedsDeletion(api, now)
    /\ api' = Deleted(api)

Hibernates ==
    /\ rec.pc = "finish" /\ NeedsHibernation(rec.obj)
    /\ api' = [api EXCEPT !.hibernated = TRUE]

\* The object is let go of.
Released == api.deleting /\ secrets = {} /\ api' = Gone

CRStep ==
    \/ api' = api
    \/ api.exists /\ (\/ WritesStatus
                      \/ api' = [api EXCEPT !.finalizer = TRUE]
                      \/ Hibernates
                      \/ Expires
                      \/ Released)
    \/ User

\* The clocks of a computed status: a callback stops them; else they stop, go on
\* or start, the failure clock with the state Failed and the idle clock only
\* for a session that runs.
LEMMA StatusOfClocks ==
    ASSUME NEW cr \in CustomResource, NEW updates, NEW phase, NEW evts, NEW cpu,
           NEW ing \in BOOLEAN, NEW time \in Nat
    PROVE  LET st == StatusOf(cr, updates, phase, evts, cpu, ing, CreationTimestamp, time)
               off == cr.hibernated /\ updates.replicas = 0
           IN  /\ FailureTimed(st)
               /\ updates.callback # "none" => st.idleSince = Zero /\ st.failingSince = Zero
               /\ st.idleSince \in {Zero, cr.status.idleSince, time}
               /\ st.failingSince \in {Zero, cr.status.failingSince, time}
               /\ updates.callback = "none" /\ off => st.idleSince = cr.status.idleSince
               /\ off /\ ~cr.deleting /\ ~evts.quota => st.failingSince = Zero
               /\ st.state = "Hibernated" => off /\ st.failingSince = Zero
               /\ st.willHibernateAt = calculateHibernationDate(CreationTimestamp, cr.status,
                                                        culling, cr.lastInteraction)
  <1> DEFINE inferred == checkEventsInferedState(cr, StateOf(cr, updates, phase), evts, time)
             idle == getIdleState(cr, inferred.state, phase, cpu, time)
             state == IF phase = "none" /\ evts.quota THEN "Failed" ELSE inferred.state
             date == calculateHibernationDate(CreationTimestamp, cr.status, culling, cr.lastInteraction)
             off == cr.hibernated /\ updates.replicas = 0
             base == [state |-> state, idle |-> idle.idle, idleSince |-> idle.since,
                      failingSince |-> Since(state = "Failed", cr.status.failingSince, time),
                      failedSchedulingSince |->
                          IF state \in {"Hibernated", "Running"} THEN Zero
                                                                ELSE inferred.failedSchedulingSince,
                      hibernatedSince |-> HibernatedSince(cr, time),
                      willHibernateAt |-> date,
                      runID |-> cr.status.runID,
                      routingReady |-> RoutingReady(cr, ing),
                      url |-> TRUE]
             st == statusCallback(updates.callback, base, time)
  <1>1. inferred.state \in {"Failed", StateOf(cr, updates, phase)}
    BY DEF checkEventsInferedState
  <1>2. off => inferred.state # "Running"
    BY <1>1 DEF StateOf
  <1>3. off /\ ~cr.deleting => inferred.state = "Hibernated"
    BY DEF checkEventsInferedState, StateOf
  <1>4. inferred.state = "Hibernated" => off
    BY <1>1 DEF StateOf
  <1>5. /\ idle.since \in {Zero, cr.status.idleSince, time}
        /\ inferred.state # "Running" => idle.since = cr.status.idleSince
    BY DEF getIdleState, Since
  <1> DEFINE failing == Since(state = "Failed", cr.status.failingSince, time)
  <1>6. /\ failing \in {Zero, cr.status.failingSince, time}
        /\ failing # Zero => state = "Failed"
    BY DEF Since
  <1>7. /\ base.state = state /\ base.idleSince = idle.since /\ base.failingSince = failing
        /\ base.willHibernateAt = date
    OBVIOUS
  <1> HIDE DEF inferred, idle, date, failing
  <1>8. /\ st.state = state /\ st.willHibernateAt = date
        /\ updates.callback = "none" => st.idleSince = idle.since /\ st.failingSince = failing
        /\ updates.callback # "none" => st.idleSince = Zero /\ st.failingSince = Zero
    BY <1>7 DEF statusCallback
  <1>9. StatusOf(cr, updates, phase, evts, cpu, ing, CreationTimestamp, time) = st
    BY DEF StatusOf, inferred, idle, date, failing
  <1> HIDE DEF st, base
  <1>10. ~evts.quota => state = inferred.state
    OBVIOUS
  <1> QED
    BY <1>2, <1>3, <1>4, <1>5, <1>6, <1>8, <1>9, <1>10 DEF FailureTimed, date

\* A computed status that says Hibernated has its date, unless the callback
\* of a resumed session cleared it.
LEMMA StatusOfDated ==
    ASSUME NEW cr \in CustomResource, NEW updates, NEW phase, NEW evts, NEW cpu,
           NEW ing \in BOOLEAN, NEW time \in Nat \ {0}, updates.callback \in Callback,
           updates.callback = "resumed" => ~cr.hibernated
    PROVE  LET st == StatusOf(cr, updates, phase, evts, cpu, ing, CreationTimestamp, time)
           IN  st.state = "Hibernated" => st.hibernatedSince # Zero
  <1>1. cr.hibernated => HibernatedSince(cr, time) # Zero
    BY DEF HibernatedSince, Since, Zero
  <1> QED
    BY <1>1, StatusOfType DEF Callback, Zero

-----------------------------------------------------------------------------
(***************************************************************************)
(* The building blocks of the actions.                                     *)
(***************************************************************************)

\* Storing an object that takes no deletion back keeps the cache in order.
LEMMA StoreCache ==
    ASSUME TypeOK, CacheInv, NEW cr, Store(cr), Dated(cr), api.exists,
           api.deleting => cr.deleting \/ ~cr.exists
    PROVE  api' = cr /\ CacheInv'
  <1>1. api' = cr /\ (cache' = cr \/ cache' = cache)
    BY DEF Store
  <1>2. cacheFresh' => cache' = api'
    BY DEF Store, CacheInv
  <1>3. Dated(cr)' /\ Dated(api)' /\ Dated(cache)'
    BY <1>1 DEF CacheInv, Dated, FailureTimed
  <1> QED
    BY <1>1, <1>2, <1>3 DEF CacheInv

\* A pass that has returned claims nothing.
LEMMA ReturnPass ==
    ASSUME Return
    PROVE  PassInv'
  <1>1. rec' = Idle
    BY DEF Return
  <1>2. /\ rec'.pc = "idle" /\ rec'.fresh = FALSE
        /\ rec'.obj.status.state = "NotReady" /\ rec'.obj.status.failingSince = Zero
    BY <1>1 DEF Idle, NewCR, NewStatus
  <1> QED
    BY <1>2
    DEF PassInv, PassCurrent, StatusKept, PassDeletes, DeletingPCs, PassDated, Dated, FailureTimed

\* A pass that goes on with the stored object.
LEMMA GoOnPass ==
    ASSUME rec \in RecType, NEW where, NEW cr, GoOn(where, cr), api' = cr, Dated(cr),
           where \notin {"status", "conflict", "retry", "removeFinalizer"},
           where \in DeletingPCs => cr.deleting \/ ~cr.exists
    PROVE  PassInv'
  <1>1. rec'.pc = where /\ rec'.obj = cr /\ rec'.fresh = TRUE
    BY DEF GoOn, RecType
  <1> QED
    BY <1>1
    DEF PassInv, PassCurrent, StatusKept, PassDeletes, DeletingPCs, PassDated, Dated, FailureTimed
-----------------------------------------------------------------------------
(***************************************************************************)
(* One lemma per group of actions: the step is one of CRStep and preserves *)
(* the invariant.                                                          *)
(***************************************************************************)

\* Steps of the pass that write nothing and go on with the copy they have.
LEMMA PassOnly ==
    ASSUME Copies, rec \in RecType, UNCHANGED crVars, secrets' = secrets, NEW where \in PC,
           rec' = [rec EXCEPT !.pc = where],
           where \notin {"status", "conflict", "retry", "finish", "removeFinalizer"},
           rec.pc \notin {"status", "conflict", "retry"},
           where \in DeletingPCs => rec.pc \in DeletingPCs
    PROVE  Copies'
  <1>1. rec'.pc = where /\ rec'.obj = rec.obj /\ rec'.fresh = rec.fresh
    BY DEF RecType
  <1>2. CacheInv'
    BY DEF Copies, CacheInv, crVars, Dated, FailureTimed
  <1>3. Dated(rec.obj)'
    BY <1>1 DEF Copies, PassInv, PassDated, Dated, FailureTimed
  <1>4. PassCurrent' /\ StatusKept'
    BY <1>1 DEF Copies, PassInv, PassCurrent, StatusKept, crVars
  <1>5. PassDeletes'
    BY <1>1 DEF Copies, PassInv, PassDeletes, crVars
  <1> QED
    BY <1>1, <1>2, <1>3, <1>4, <1>5 DEF Copies, PassInv, PassDated

\* Reading the custom resource from the cache.
LEMMA GetStep ==
    ASSUME TypeOK, Copies, Get
    PROVE  CRStep /\ Copies'
  <1>1. /\ rec'.obj = cache /\ rec'.fresh = cacheFresh
        /\ rec'.pc = "deletingStatus" \/ rec'.pc \in {"firstStatus", "finalizer", "children"}
        /\ rec'.pc = "deletingStatus" => cache.exists /\ cache.deleting
        /\ UNCHANGED crVars
    BY DEF Get, AfterFirstStatus
  <1>2. CacheInv'
    BY <1>1 DEF Copies, CacheInv, crVars, Dated, FailureTimed
  <1>3. PassCurrent' /\ StatusKept'
    BY <1>1 DEF PassCurrent, StatusKept, crVars, Copies, CacheInv
  <1>4. PassDeletes' /\ PassDated'
    BY <1>1 DEF PassDeletes, DeletingPCs, PassDated, Dated, FailureTimed, crVars, Copies, CacheInv
  <1> QED
    BY <1>1, <1>2, <1>3, <1>4 DEF Copies, PassInv, CRStep, crVars

\* Reading it again after a conflict.
LEMMA GetAgainStep ==
    ASSUME TypeOK, Copies, GetAgain
    PROVE  CRStep /\ Copies'
  <1>1. /\ rec.obj \in CustomResource /\ cache \in CustomResource /\ api \in CustomResource
        /\ UNCHANGED <<crVars, secrets>>
    BY GetAgainPass DEF TypeOK
  <1>2. CacheInv'
    BY <1>1 DEF Copies, CacheInv, crVars, Dated, FailureTimed
  <1>3. CASE Return
    BY <1>1, <1>2, <1>3, ReturnPass DEF Copies, CRStep, crVars
  <1>4. CASE /\ rec.pc \in {"firstConflict", "deletingConflict"}
             /\ rec'.pc \in {"firstRetry", "deletingRetry"}
             /\ rec'.pc = "deletingRetry" => rec.pc = "deletingConflict"
             /\ rec'.obj = cache /\ rec'.fresh = cacheFresh
    <2>1. PassCurrent' /\ StatusKept'
      BY <1>1, <1>4 DEF PassCurrent, StatusKept, crVars, Copies, CacheInv
    <2>2. PassDeletes' /\ PassDated'
      BY <1>1, <1>4
      DEF PassDeletes, DeletingPCs, PassDated, Dated, FailureTimed, crVars, Copies, CacheInv, PassInv
    <2> QED BY <1>1, <1>2, <2>1, <2>2 DEF Copies, PassInv, CRStep, crVars
  <1>5. CASE /\ rec.pc = "conflict" /\ rec'.pc = "retry" /\ rec'.fresh = cacheFresh
             /\ rec'.obj = StatusAgain(rec.obj, cache)
    <2> DEFINE cr == StatusAgain(rec.obj, cache)
    <2>1. /\ cr = [cache EXCEPT !.status = cr.status]
          /\ cr.status.state = rec.obj.status.state
          /\ cr.status.hibernatedSince = rec.obj.status.hibernatedSince
          /\ cr.status.failingSince = rec.obj.status.failingSince
          /\ (cache.status.runID # NoRun /\ cr.status.runID # NoRun)
                => cr.status.runID = cache.status.runID
      BY <1>1, StatusAgainType
    <2> HIDE DEF cr
    <2>2. rec'.obj = cr
      BY <1>5 DEF cr
    <2>3. PassCurrent' /\ StatusKept'
      BY <1>1, <1>5, <2>1, <2>2 DEF PassCurrent, StatusKept, crVars, Copies, CacheInv
    <2>4. FailureTimed(rec.obj.status)
      BY <1>5 DEF Copies, PassInv, PassDated
    <2>5. PassDeletes' /\ PassDated'
      BY <1>5, <2>1, <2>2, <2>4
      DEF PassDeletes, DeletingPCs, PassDated, Dated, FailureTimed, Copies, PassInv
    <2> QED BY <1>1, <1>2, <2>3, <2>5 DEF Copies, PassInv, CRStep, crVars
  <1> QED
    BY <1>3, <1>4, <1>5, GetAgainPass

\* The first status update and its retry.
LEMMA FirstStatusStep ==
    ASSUME TypeOK, Copies, FirstStatusUpdate \/ FirstStatusRetry
    PROVE  CRStep /\ Copies'
  <1> DEFINE cr == [rec.obj EXCEPT !.status.url = TRUE]
  <1>1. /\ rec \in RecType /\ rec.obj \in CustomResource /\ api \in CustomResource
        /\ rec.pc \in {"firstStatus", "firstRetry"}
    BY DEF TypeOK, RecType, FirstStatusUpdate, FirstStatusRetry
  <1>2. \A c : /\ AfterFirstStatus(c) \notin {"status", "conflict", "retry", "removeFinalizer"}
               /\ AfterFirstStatus(c) \notin DeletingPCs
    BY DEF AfterFirstStatus, DeletingPCs
  <1>3. CASE Accepted /\ Store(cr) /\ GoOn(AfterFirstStatus(cr), cr)
    <2>1. rec.obj = api /\ api.exists
      BY <1>1, <1>3 DEF Accepted, Copies, PassInv, PassCurrent
    <2>2. /\ cr = [api EXCEPT !.status = [api.status EXCEPT !.url = TRUE]]
          /\ [api.status EXCEPT !.url = TRUE] \in Status
          /\ [api.status EXCEPT !.url = TRUE].runID = api.status.runID
      BY <1>1, <2>1 DEF CustomResource, Status
    <2>3. Dated(cr) /\ cr.deleting = api.deleting
      BY <1>1, <2>1 DEF Copies, CacheInv, Dated, FailureTimed, CustomResource, Status
    <2> HIDE DEF cr
    <2>4. api' = cr /\ CacheInv'
      BY <1>3, <2>1, <2>3, StoreCache DEF Copies
    <2>5. PassInv'
      BY <1>1, <1>2, <1>3, <2>3, <2>4, GoOnPass
    <2> QED
      BY <2>1, <2>2, <2>4, <2>5 DEF Copies, CRStep, WritesStatus
  <1>4. CASE Accepted /\ Store(rec.obj) /\ GoOn(AfterFirstStatus(rec.obj), rec.obj)
    <2>1. rec.obj = api /\ api.exists /\ Dated(rec.obj)
      BY <1>1, <1>4 DEF Accepted, Copies, PassInv, PassCurrent, PassDated
    <2>2. api' = rec.obj /\ CacheInv'
      BY <1>4, <2>1, StoreCache DEF Copies
    <2>3. PassInv'
      BY <1>1, <1>2, <1>4, <2>1, <2>2, GoOnPass
    <2> QED
      BY <2>1, <2>2, <2>3 DEF Copies, CRStep
  <1>5. CASE /\ UNCHANGED crVars /\ secrets' = secrets /\ rec.pc = "firstStatus"
             /\ rec' = [rec EXCEPT !.pc = "firstConflict"]
    BY <1>1, <1>5, PassOnly DEF CRStep, crVars, PC, DeletingPCs
  <1>6. CASE Return /\ UNCHANGED crVars
    BY <1>6, ReturnPass DEF Copies, CRStep, crVars, CacheInv, Dated, FailureTimed
  <1> QED
    BY <1>3, <1>4, <1>5, <1>6 DEF FirstStatusUpdate, FirstStatusRetry

\* Adding the finalizer.
LEMMA FinalizerStep ==
    ASSUME TypeOK, Copies, AddFinalizer
    PROVE  CRStep /\ Copies'
  <1> DEFINE cr == [rec.obj EXCEPT !.finalizer = TRUE]
  <1>1. /\ rec \in RecType /\ rec.obj \in CustomResource /\ api \in CustomResource
        /\ rec.pc = "finalizer"
    BY DEF TypeOK, RecType, AddFinalizer
  <1>2. CASE Accepted /\ Store(cr) /\ GoOn("children", cr)
    <2>1. rec.obj = api /\ api.exists
      BY <1>1, <1>2 DEF Accepted, Copies, PassInv, PassCurrent
    <2>2. cr = [api EXCEPT !.finalizer = TRUE]
      BY <2>1
    <2>3. Dated(cr) /\ cr.deleting = api.deleting
      BY <1>1, <2>1 DEF Copies, CacheInv, Dated, FailureTimed, CustomResource
    <2> HIDE DEF cr
    <2>4. api' = cr /\ CacheInv'
      BY <1>2, <2>1, <2>3, StoreCache DEF Copies
    <2>5. PassInv'
      BY <1>1, <1>2, <2>3, <2>4, GoOnPass DEF DeletingPCs
    <2> QED
      BY <2>1, <2>2, <2>4, <2>5 DEF Copies, CRStep
  <1>3. CASE Return /\ UNCHANGED crVars
    BY <1>3, ReturnPass DEF Copies, CRStep, crVars, CacheInv, Dated, FailureTimed
  <1> QED
    BY <1>2, <1>3 DEF AddFinalizer

\* The status update of a custom resource that is being deleted, and its retry.
LEMMA DeletingStatusStep ==
    ASSUME TypeOK, Copies, DeletingStatusUpdate \/ DeletingStatusRetry
    PROVE  CRStep /\ Copies'
  <1> DEFINE cr == [rec.obj EXCEPT !.status.state = "NotReady"]
             st == [api.status EXCEPT !.state = "NotReady"]
  <1>1. /\ rec \in RecType /\ api \in CustomResource
        /\ rec.pc \in {"deletingStatus", "deletingRetry"}
    BY DEF TypeOK, RecType, DeletingStatusUpdate, DeletingStatusRetry
  <1>2. CASE Accepted /\ Store(cr) /\ AfterDeletingStatus(cr)
    <2>1. rec.obj = api /\ api.exists /\ api.deleting
      BY <1>1, <1>2 DEF Accepted, Copies, PassInv, PassCurrent, PassDeletes, DeletingPCs
    <2>2. /\ cr = [api EXCEPT !.status = st]
          /\ st \in Status /\ st.runID = api.status.runID
      BY <1>1, <2>1 DEF CustomResource, Status, State
    <2>3. Dated(cr) /\ cr.deleting
      BY <1>1, <2>1 DEF Dated, FailureTimed, CustomResource, Status
    <2>4. Store(cr) /\ (GoOn("deleteSecrets", cr) \/ Return)
      BY <1>2 DEF AfterDeletingStatus
    <2> HIDE DEF cr, st
    <2>5. api' = cr /\ CacheInv'
      BY <2>1, <2>3, <2>4, StoreCache DEF Copies
    <2>6. PassInv'
      BY <1>1, <2>3, <2>4, <2>5, GoOnPass, ReturnPass
    <2> QED
      BY <2>1, <2>2, <2>5, <2>6 DEF Copies, CRStep, WritesStatus
  <1>3. CASE /\ UNCHANGED crVars /\ secrets' = secrets
             /\ rec' = [rec EXCEPT !.pc = "deletingConflict"]
    BY <1>1, <1>3, PassOnly DEF CRStep, crVars, PC, DeletingPCs
  <1>4. CASE Return /\ UNCHANGED crVars
    BY <1>4, ReturnPass DEF Copies, CRStep, crVars, CacheInv, Dated, FailureTimed
  <1> QED
    BY <1>2, <1>3, <1>4 DEF DeletingStatusUpdate, DeletingStatusRetry

\* Deleting the secrets, completely or not.
LEMMA DeleteSecretsStep ==
    ASSUME TypeOK, Copies, NEW failed, DeleteSecrets(failed)
    PROVE  CRStep /\ Copies'
  <1>1. rec \in RecType /\ rec.pc = "deleteSecrets" /\ UNCHANGED crVars
    BY DEF TypeOK, RecType, DeleteSecrets
  <1>2. CacheInv'
    BY <1>1 DEF Copies, CacheInv, crVars, Dated, FailureTimed
  <1>3. CASE Return
    BY <1>1, <1>2, <1>3, ReturnPass DEF Copies, CRStep, crVars
  <1>4. CASE failed = {} /\ rec' = [rec EXCEPT !.pc = "removeFinalizer"]
    <2>1. /\ rec'.pc = "removeFinalizer" /\ rec'.obj = rec.obj /\ rec'.fresh = rec.fresh
          /\ secrets' = {}
      BY <1>1, <1>4 DEF RecType, DeleteSecrets
    <2>2. Dated(rec.obj)'
      BY <2>1 DEF Copies, PassInv, PassDated, Dated, FailureTimed
    <2>3. PassCurrent' /\ StatusKept'
      BY <1>1, <2>1 DEF Copies, PassInv, PassCurrent, StatusKept, crVars
    <2>4. PassDeletes'
      BY <1>1, <2>1 DEF Copies, PassInv, PassDeletes, DeletingPCs, crVars
    <2> QED
      BY <1>1, <1>2, <2>1, <2>2, <2>3, <2>4 DEF Copies, PassInv, PassDated, CRStep, crVars
  <1> QED
    BY <1>3, <1>4 DEF DeleteSecrets

\* Removing the finalizer.
LEMMA RemoveFinalizerStep ==
    ASSUME TypeOK, Copies, RemoveFinalizer
    PROVE  CRStep /\ Copies'
  <1> DEFINE cr == [rec.obj EXCEPT !.finalizer = FALSE]
  <1>1. /\ rec \in RecType /\ rec.obj \in CustomResource /\ rec.pc = "removeFinalizer"
        /\ PassInv'
    BY ReturnPass DEF TypeOK, RecType, RemoveFinalizer
  <1>2. CASE Accepted /\ Store(Deleted(cr))
    <2>1. /\ api.exists /\ secrets = {} /\ api.deleting
      BY <1>1, <1>2 DEF Accepted, Copies, PassInv, PassDeletes, DeletingPCs
    <2>2. ~cr.finalizer
      BY <1>1 DEF CustomResource
    <2> HIDE DEF cr
    <2>3. Deleted(cr) = Gone
      BY <2>2 DEF Deleted
    <2>4. Dated(Gone) /\ ~Gone.exists
      BY DEF Dated, FailureTimed, Gone, NewCR, NewStatus
    <2>5. api' = Gone /\ CacheInv'
      BY <1>2, <2>1, <2>3, <2>4, StoreCache DEF Copies
    <2> QED
      BY <1>1, <2>1, <2>5 DEF Copies, CRStep, Released
  <1>3. CASE UNCHANGED crVars
    BY <1>1, <1>3 DEF Copies, CRStep, crVars, CacheInv, Dated, FailureTimed
  <1> QED
    BY <1>2, <1>3 DEF RemoveFinalizer

\* Reconciling the children: the pass may start or end a run in its own copy.
LEMMA ChildrenStep ==
    ASSUME TypeOK, Copies, NEW runID \in RunID, NEW failed, ReconcileChildren(runID, failed)
    PROVE  CRStep /\ Copies'
  <1> DEFINE cr      == [rec.obj EXCEPT !.status.runID = runID]
             desired == Desired(cr, stsCache)
  <1>1. /\ rec \in RecType /\ rec.obj \in CustomResource /\ api \in CustomResource
        /\ rec.pc = "children" /\ UNCHANGED crVars
    BY DEF TypeOK, RecType, ReconcileChildren
  <1>2. CacheInv'
    BY <1>1 DEF Copies, CacheInv, crVars, Dated, FailureTimed
  <1>3. CASE Return
    BY <1>1, <1>2, <1>3, ReturnPass DEF Copies, CRStep, crVars
  <1>4. ASSUME NEW n,
               rec' = [rec EXCEPT !.pc = "status", !.obj = cr,
                           !.updates = [replicas |-> n, callback |-> CallbackOf(stsCache, desired)]]
        PROVE  CRStep /\ Copies'
    <2>1. /\ cr.status.runID = runID /\ cr.hibernated = rec.obj.hibernated
          /\ cr.deleting = rec.obj.deleting /\ cr.status.state = rec.obj.status.state
          /\ cr.status.failingSince = rec.obj.status.failingSince
          /\ cr.status.hibernatedSince = rec.obj.status.hibernatedSince
      BY <1>1 DEF CustomResource, Status
    <2>2. CallbackOf(stsCache, desired) = "resumed" => ~cr.hibernated
      BY DEF CallbackOf, Desired
    <2>3. rec.obj.status.runID # NoRun /\ runID # NoRun => runID = rec.obj.status.runID
      BY DEF ReconcileChildren, RunIDChoices
    <2>4. rec.fresh => rec.obj = api
      BY <1>1 DEF Copies, PassInv, PassCurrent
    <2>5. rec.fresh => cr = [api EXCEPT !.status.runID = runID]
      BY <2>4
    <2>6. Dated(cr)
      BY <2>1 DEF Copies, PassInv, PassDated, Dated, FailureTimed
    <2> HIDE DEF cr, desired
    <2>7. /\ rec'.pc = "status" /\ rec'.obj = cr /\ rec'.fresh = rec.fresh
          /\ rec'.updates.callback = CallbackOf(stsCache, desired)
      BY <1>1, <1>4 DEF RecType
    <2>8. PassCurrent'
      BY <1>1, <2>1, <2>3, <2>4, <2>5, <2>7 DEF PassCurrent, crVars
    <2>9. StatusKept' /\ PassDeletes' /\ PassDated'
      BY <2>2, <2>6, <2>7 DEF StatusKept, PassDeletes, DeletingPCs, PassDated, Dated, FailureTimed
    <2> QED
      BY <1>1, <1>2, <2>8, <2>9 DEF Copies, PassInv, CRStep, crVars
  <1> QED
    BY <1>3, <1>4 DEF ReconcileChildren

\* The status update: a fresh copy differs from the stored one in the status only.
LEMMA UpdateStatusStep ==
    ASSUME TypeOK, Copies, NEW cpu, UpdateStatus(cpu)
    PROVE  CRStep /\ Copies'
  <1> DEFINE st == StatusOf(rec.obj, rec.updates, pod.phase, events, cpu,
                            ingress, CreationTimestamp, now)
             cr == [rec.obj EXCEPT !.status = st]
  <1>1. /\ rec \in RecType /\ rec.obj \in CustomResource /\ api \in CustomResource
        /\ ingress \in BOOLEAN /\ now \in Nat \ {0} /\ now \in Nat
        /\ rec.updates.callback \in Callback /\ rec.pc = "status"
    BY DEF TypeOK, RecType, UpdateStatus
  <1>2. rec.updates.callback = "resumed" => ~rec.obj.hibernated
    BY <1>1 DEF Copies, PassInv, PassDated
  <1>3. st \in Status /\ st.runID = rec.obj.status.runID
    BY <1>1, StatusOfType
  <1>4. (st.state = "Hibernated" => st.hibernatedSince # Zero) /\ FailureTimed(st)
    BY <1>1, <1>2, StatusOfDated, StatusOfClocks
  <1>5. \/ Accepted /\ Store(cr) /\ GoOn("finish", cr)
        \/ /\ UNCHANGED crVars /\ secrets' = secrets
           /\ rec' = [rec EXCEPT !.pc = "conflict", !.obj = cr]
    BY DEF UpdateStatus
  <1> HIDE DEF st
  <1>6. Dated(cr) /\ cr.deleting = rec.obj.deleting /\ FailureTimed(cr.status)
    BY <1>1, <1>4 DEF Dated, FailureTimed, CustomResource
  <1>7. CASE Accepted /\ Store(cr) /\ GoOn("finish", cr)
    <2>1. /\ api.exists
          /\ rec.obj = [api EXCEPT !.status.runID = rec.obj.status.runID]
          /\ (api.status.runID # NoRun /\ rec.obj.status.runID # NoRun)
                => rec.obj.status.runID = api.status.runID
      BY <1>1, <1>7 DEF Accepted, Copies, PassInv, PassCurrent
    <2>2. \A r \in RunID, t \in Status :
             /\ [[api EXCEPT !.status.runID = r] EXCEPT !.status = t] = [api EXCEPT !.status = t]
             /\ [api EXCEPT !.status.runID = r].deleting = api.deleting
      BY <1>1 DEF CustomResource, Status
    <2>3. rec.obj.status.runID \in RunID
      BY <1>1, CRType
    <2>4. cr = [api EXCEPT !.status = st] /\ cr.deleting = api.deleting
      BY <1>3, <1>6, <2>1, <2>2, <2>3
    <2> HIDE DEF cr
    <2>5. api' = cr /\ CacheInv'
      BY <1>6, <1>7, <2>1, <2>4, StoreCache DEF Copies
    <2>6. PassInv'
      BY <1>1, <1>6, <1>7, <2>5, GoOnPass DEF DeletingPCs
    <2> QED
      BY <1>3, <2>1, <2>4, <2>5, <2>6 DEF Copies, CRStep, WritesStatus
  <1>8. CASE /\ UNCHANGED crVars /\ secrets' = secrets
             /\ rec' = [rec EXCEPT !.pc = "conflict", !.obj = cr]
    <2> HIDE DEF cr
    <2>1. rec'.pc = "conflict" /\ rec'.obj = cr
      BY <1>1, <1>8 DEF RecType
    <2>2. CacheInv'
      BY <1>8 DEF Copies, CacheInv, crVars, Dated, FailureTimed
    <2>3. PassInv'
      BY <1>6, <2>1
      DEF PassInv, PassCurrent, StatusKept, PassDeletes, DeletingPCs, PassDated, Dated, FailureTimed
    <2> QED
      BY <1>8, <2>2, <2>3 DEF Copies, CRStep, crVars
  <1> QED
    BY <1>5, <1>7, <1>8

\* The retry: the status goes into a copy read again, which keeps its run ID.
LEMMA RetryStatusStep ==
    ASSUME TypeOK, Copies, RetryStatus
    PROVE  CRStep /\ Copies'
  <1>1. /\ rec \in RecType /\ rec.obj \in CustomResource /\ rec.obj.status \in Status
        /\ api \in CustomResource /\ rec.pc = "retry" /\ Dated(rec.obj)
    BY CRType DEF TypeOK, RecType, RetryStatus, Copies, PassInv, PassDated
  <1>2. CASE Accepted /\ Store(rec.obj) /\ GoOn("finish", rec.obj)
    <2>1. /\ api.exists
          /\ rec.obj = [api EXCEPT !.status = rec.obj.status]
          /\ (api.status.runID # NoRun /\ rec.obj.status.runID # NoRun)
                => rec.obj.status.runID = api.status.runID
      BY <1>1, <1>2 DEF Accepted, Copies, PassInv, PassCurrent
    <2>2. \A t : [api EXCEPT !.status = t].deleting = api.deleting
      BY <1>1 DEF CustomResource
    <2>3. rec.obj.deleting = api.deleting
      BY <2>1, <2>2
    <2>4. api' = rec.obj /\ CacheInv'
      BY <1>1, <1>2, <2>1, <2>3, StoreCache DEF Copies
    <2>5. PassInv'
      BY <1>1, <1>2, <2>4, GoOnPass DEF DeletingPCs
    <2> QED
      BY <1>1, <2>1, <2>4, <2>5 DEF Copies, CRStep, WritesStatus
  <1>3. CASE Return /\ UNCHANGED crVars
    BY <1>3, ReturnPass DEF Copies, CRStep, crVars, CacheInv, Dated, FailureTimed
  <1> QED
    BY <1>2, <1>3 DEF RetryStatus

\* Deletion keeps or drops the object, never its status alone.
LEMMA DeletedKeeps ==
    ASSUME NEW cr \in CustomResource, Dated(cr)
    PROVE  /\ Dated(Deleted(cr))
           /\ Deleted(cr).exists => Deleted(cr).status = cr.status /\ Deleted(cr).deleting
  <1>1. CASE cr.finalizer
    BY <1>1 DEF Deleted, Dated, FailureTimed, CustomResource
  <1>2. CASE ~cr.finalizer
    BY <1>2 DEF Deleted, Dated, FailureTimed, Gone, NewCR, NewStatus
  <1> QED BY <1>1, <1>2

\* The end of a pass: a session past its retention is deleted ...
LEMMA DeleteSessionStep ==
    ASSUME TypeOK, Copies, DeleteSession
    PROVE  CRStep /\ Copies'
  <1>1. api \in CustomResource /\ Dated(api) /\ PassInv' /\ rec.pc = "finish"
    BY ReturnPass DEF TypeOK, Copies, CacheInv, DeleteSession
  <1>2. CASE api.exists /\ Store(Deleted(api))
    <2>1. NeedsDeletion(api, now)
      BY <1>1, <1>2 DEF DeleteSession, NeedsDeletion, Copies, PassInv, StatusKept
    <2>2. Dated(Deleted(api)) /\ (Deleted(api).deleting \/ ~Deleted(api).exists)
      BY <1>1, DeletedKeeps
    <2>3. api' = Deleted(api) /\ CacheInv'
      BY <1>2, <2>2, StoreCache DEF Copies
    <2> QED
      BY <1>1, <1>2, <2>1, <2>3 DEF Copies, CRStep, Expires
  <1>3. CASE UNCHANGED crVars
    BY <1>1, <1>3 DEF Copies, CRStep, crVars, CacheInv, Dated, FailureTimed
  <1> QED
    BY <1>2, <1>3 DEF DeleteSession

\* ... and one past its hibernation date is hibernated.
LEMMA HibernateStep ==
    ASSUME TypeOK, Copies, updateHibernationState
    PROVE  CRStep /\ Copies'
  <1> DEFINE cr == [rec.obj EXCEPT !.hibernated = TRUE]
  <1>1. /\ rec.obj \in CustomResource /\ PassInv' /\ rec.pc = "finish"
    BY ReturnPass DEF TypeOK, updateHibernationState
  <1>2. CASE NeedsHibernation(rec.obj) /\ Accepted /\ Store(cr)
    <2>1. rec.obj = api /\ api.exists
      BY <1>1, <1>2 DEF Accepted, Copies, PassInv, PassCurrent
    <2>2. Dated(cr) /\ cr.deleting = api.deleting /\ cr = [api EXCEPT !.hibernated = TRUE]
      BY <1>1, <2>1 DEF Copies, CacheInv, Dated, FailureTimed, CustomResource
    <2> HIDE DEF cr
    <2>3. api' = cr /\ CacheInv'
      BY <1>2, <2>1, <2>2, StoreCache DEF Copies
    <2> QED
      BY <1>1, <1>2, <2>1, <2>2, <2>3 DEF Copies, CRStep, Hibernates
  <1>3. CASE UNCHANGED crVars
    BY <1>1, <1>3 DEF Copies, CRStep, crVars, CacheInv, Dated, FailureTimed
  <1> QED
    BY <1>2, <1>3 DEF updateHibernationState

\* Users change the spec or delete the object; the pass in progress has an
\* outdated copy from then on.
LEMMA UserStep ==
    ASSUME TypeOK, Copies, User
    PROVE  CRStep /\ Copies'
  <1>1. rec \in RecType /\ api \in CustomResource /\ Dated(api)
    BY DEF TypeOK, RecType, Copies, CacheInv
  <1>2. ASSUME NEW cr, UserWrites(cr), Dated(cr), cr.exists => cr.status = api.status
        PROVE  Copies'
    <2>1. /\ api.exists /\ ~api.deleting /\ Store(cr) /\ secrets' = secrets
          /\ rec'.pc = rec.pc /\ rec'.obj = rec.obj /\ rec'.fresh = FALSE
          /\ rec'.updates = rec.updates
      BY <1>1, <1>2 DEF UserWrites, RecType
    <2>2. api' = cr /\ CacheInv'
      BY <1>2, <2>1, StoreCache DEF Copies
    <2>3. rec.pc \notin DeletingPCs
      BY <2>1 DEF Copies, PassInv, PassDeletes
    <2>4. PassCurrent' /\ StatusKept'
      BY <1>2, <2>1, <2>2 DEF PassCurrent, Copies, PassInv, StatusKept
    <2>5. PassDeletes' /\ PassDated'
      BY <2>1, <2>3 DEF Copies, PassInv, PassDeletes, DeletingPCs, PassDated, Dated, FailureTimed
    <2> QED
      BY <2>2, <2>4, <2>5 DEF Copies, PassInv
  <1>3. \A b : /\ Dated([api EXCEPT !.hibernated = b])
               /\ [api EXCEPT !.hibernated = b].status = api.status
               /\ Dated([api EXCEPT !.lastInteraction = b])
               /\ [api EXCEPT !.lastInteraction = b].status = api.status
    BY <1>1 DEF Dated, FailureTimed, CustomResource
  <1>4. Dated(Deleted(api)) /\ (Deleted(api).exists => Deleted(api).status = api.status)
    BY <1>1, DeletedKeeps
  <1> QED
    BY <1>2, <1>3, <1>4
    DEF User, UserHibernates, UserResumes, UserInteracts, UserDeletes, CRStep

\* Every step of the system.
LEMMA CopiesStep ==
    ASSUME TypeOK, Copies, [Next]_vars
    PROVE  CRStep /\ Copies'
  <1>1. CASE Reconciler
    BY <1>1, GetStep, GetAgainStep, FirstStatusStep, FinalizerStep, DeletingStatusStep, DeleteSecretsStep,
       RemoveFinalizerStep, ChildrenStep, UpdateStatusStep, RetryStatusStep,
       DeleteSessionStep, HibernateStep DEF Reconciler
  <1>2. CASE Crash
    <2>1. api' = api /\ cache' = api /\ PassInv'
      BY <1>2, ReturnPass DEF Crash
    <2>2. CacheInv'
      BY <2>1 DEF Copies, CacheInv, Dated, FailureTimed
    <2> QED BY <2>1, <2>2 DEF Copies, CRStep
  <1>3. ASSUME api' = api, rec' = rec, secrets' = secrets,
               \/ cache' = api
               \/ cache' = cache /\ cacheFresh' = cacheFresh
        PROVE  CRStep /\ Copies'
    <2>1. CacheInv'
      BY <1>3 DEF Copies, CacheInv, Dated, FailureTimed
    <2>2. PassCurrent' /\ StatusKept'
      BY <1>3 DEF Copies, PassInv, PassCurrent, StatusKept
    <2>3. PassDeletes' /\ PassDated'
      BY <1>3 DEF Copies, PassInv, PassDeletes, PassDated, Dated, FailureTimed
    <2> QED BY <1>3, <2>1, <2>2, <2>3 DEF Copies, PassInv, CRStep
  <1>4. CASE SyncCR
    BY <1>3, <1>4 DEF SyncCR
  <1>5. CASE SyncStatefulSet \/ Pods \/ GarbageCollected \/ Tick \/ UNCHANGED vars
    BY <1>3, <1>5 DEF SyncStatefulSet, Pods, GarbageCollected, Tick, vars, crVars
  <1>6. CASE User
    BY <1>6, UserStep
  <1> QED
    BY <1>1, <1>2, <1>4, <1>5, <1>6 DEF Next

\* The invariant holds initially.
LEMMA CopiesInit == Init => Copies
  <1> SUFFICES ASSUME Init PROVE Copies
    OBVIOUS
  <1>1. /\ NewCR.status = NewStatus /\ NewStatus.state = "NotReady" /\ NewStatus.failingSince = Zero
        /\ NewCR.deleting = FALSE
    BY DEF NewCR, NewStatus
  <1>2. \A h : /\ [NewCR EXCEPT !.hibernated = h].status = NewStatus
               /\ [NewCR EXCEPT !.hibernated = h].deleting = FALSE
    BY DEF NewCR
  <1>3. api.status = NewStatus /\ api.deleting = FALSE /\ cache = api
    BY <1>2 DEF Init
  <1>4. rec.pc = "idle" /\ rec.fresh = FALSE /\ rec.obj = NewCR
    BY DEF Init, Idle
  <1>5. CacheInv
    BY <1>1, <1>3 DEF CacheInv, Dated, FailureTimed
  <1>6. PassInv
    BY <1>1, <1>4
    DEF PassInv, PassCurrent, StatusKept, PassDeletes, DeletingPCs, PassDated, Dated, FailureTimed
  <1> QED
    BY <1>5, <1>6 DEF Copies

\* The invariant.
THEOREM CopiesInvariant == Spec => [](TypeOK /\ Copies)
  <1>1. Init => TypeOK /\ Copies
    BY TypeInit, CopiesInit
  <1>2. TypeOK /\ Copies /\ [Next]_vars => (TypeOK /\ Copies)'
    BY TypeStep, CopiesStep
  <1> QED
    BY <1>1, <1>2, PTL DEF Spec
=============================================================================
