------------------------ MODULE SessionSafety_proofs ------------------------
(***************************************************************************)
(* The safety properties of SessionController, for every value of its      *)
(* constants: what its steps may do to the custom resource, that they are  *)
(* steps in the life of a session, and what its clocks measure.            *)
(***************************************************************************)
EXTENDS SessionController_proofs, SessionRefinement, SessionHistory

-----------------------------------------------------------------------------
(***************************************************************************)
(* The properties.                                                         *)
(***************************************************************************)

\* What a step of users leaves alone.
LEMMA UserKeeps ==
    ASSUME TypeOK, User
    PROVE  \/ UserDeletes /\ api' = Deleted(api) /\ ~api.deleting
           \/ /\ api' = [api EXCEPT !.hibernated = api'.hibernated,
                                    !.lastInteraction = api'.lastInteraction]
              /\ api'.lastInteraction # api.lastInteraction => UserInteracts
              /\ api.hibernated /\ ~api'.hibernated => UserResumes
  <1>1. api \in CustomResource
    BY DEF TypeOK
  <1>2. CASE UserDeletes
    BY <1>2 DEF UserDeletes, UserWrites, Store
  <1>3. CASE UserHibernates
    BY <1>1, <1>3 DEF UserHibernates, UserWrites, Store, CustomResource
  <1>4. CASE UserResumes
    <2>1. api' = [api EXCEPT !.hibernated = FALSE]
      BY <1>4 DEF UserResumes, UserWrites, Store
    <2> QED BY <1>1, <1>4, <2>1 DEF CustomResource
  <1>5. CASE UserInteracts
    <2>1. api' = [api EXCEPT !.lastInteraction = now]
      BY <1>5 DEF UserInteracts, UserWrites, Store
    <2> QED BY <1>1, <1>5, <2>1 DEF CustomResource
  <1> QED
    BY <1>2, <1>3, <1>4, <1>5 DEF User

\* A hibernated status always has the date its retention is measured from,
\* whatever copies the passes that wrote it started from.
THEOREM HibernationIsDated == Spec => []HibernatedSinceSet
  <1>1. Copies => HibernatedSinceSet
    BY DEF Copies, CacheInv, Dated, FailureTimed, HibernatedSinceSet
  <1> QED
    BY <1>1, CopiesInvariant, PTL

\* The failure clock, which alone decides about hibernating a failing session,
\* only runs while the status says Failed.
THEOREM FailureClockIsTimed == Spec => []FailureClockStops
  <1>1. Copies => FailureClockStops
    BY DEF Copies, CacheInv, Dated, FailureTimed, FailureClockStops
  <1> QED
    BY <1>1, CopiesInvariant, PTL

\* No run ID is ever replaced by another one, however stale the copies are.
THEOREM RunIDIsStable == Spec => RunIDStable
  <1>1. ASSUME TypeOK, Copies, [Next]_vars, api.status.runID # NoRun, api'.status.runID # NoRun
        PROVE  api'.status.runID = api.status.runID
    <2>1. CRStep /\ api \in CustomResource
      BY <1>1, CopiesStep DEF TypeOK
    <2>2. CASE WritesStatus
      BY <1>1, <2>1, <2>2 DEF WritesStatus, CustomResource
    <2>3. Deleted(api).status = api.status \/ Deleted(api).status.runID = NoRun
      BY <2>1 DEF Deleted, Gone, NewCR, NewStatus, CustomResource
    <2>4. CASE Expires \/ Released
      BY <1>1, <2>3, <2>4 DEF Expires, Released, Gone, NewCR, NewStatus
    <2>5. CASE User
      BY <1>1, <2>1, <2>3, <2>5, UserKeeps DEF CustomResource
    <2> QED
      BY <2>1, <2>2, <2>4, <2>5 DEF CRStep, Hibernates, CustomResource
  <1>2. TypeOK /\ Copies /\ [Next]_vars =>
          [(api.status.runID # NoRun /\ api'.status.runID # NoRun)
              => api'.status.runID = api.status.runID]_vars
    BY <1>1
  <1> QED
    BY <1>2, CopiesInvariant, PTL DEF Spec, RunIDStable

\* The reconciler takes no change of a user back.
THEOREM UserUpdatesKept == Spec => NoLostUserUpdate
  <1>1. ASSUME TypeOK, Copies, [Next]_vars, api'.exists
        PROVE  /\ api.hibernated /\ ~api'.hibernated => UserResumes
               /\ api'.lastInteraction # api.lastInteraction => UserInteracts
    <2>1. CRStep /\ api \in CustomResource
      BY <1>1, CopiesStep DEF TypeOK
    <2>2. Deleted(api).exists => /\ Deleted(api).hibernated = api.hibernated
                                 /\ Deleted(api).lastInteraction = api.lastInteraction
      BY <2>1 DEF Deleted, Gone, NewCR, CustomResource
    <2>3. CASE WritesStatus
      BY <2>1, <2>3 DEF WritesStatus, CustomResource
    <2>4. CASE Expires \/ Released
      BY <1>1, <2>2, <2>4 DEF Expires, Released, Gone, NewCR
    <2>5. CASE User
      BY <1>1, <2>2, <2>5, UserKeeps
    <2>6. CASE api' = [api EXCEPT !.finalizer = TRUE] \/ Hibernates
      BY <2>1, <2>6 DEF Hibernates, CustomResource
    <2> QED
      BY <2>1, <2>3, <2>4, <2>5, <2>6 DEF CRStep
  <1>2. TypeOK /\ Copies /\ [Next]_vars =>
          [api'.exists =>
             /\ api.hibernated /\ ~api'.hibernated => UserResumes
             /\ api'.lastInteraction # api.lastInteraction => UserInteracts]_vars
    BY <1>1
  <1> QED
    BY <1>2, CopiesInvariant, PTL DEF Spec, NoLostUserUpdate

\* The finalizer is only given up when the adopted secrets are gone.
THEOREM SecretsGoFirst == Spec => SecretsBeforeFinalizer
  <1>1. ASSUME TypeOK, Copies, [Next]_vars, api.exists, api.finalizer,
               ~(api'.finalizer /\ api'.exists)
        PROVE  secrets = {}
    <2>1. CRStep /\ api \in CustomResource
      BY <1>1, CopiesStep DEF TypeOK
    <2>2. Deleted(api) = [api EXCEPT !.deleting = TRUE]
      BY <1>1 DEF Deleted
    <2>3. CASE WritesStatus
      BY <1>1, <2>1, <2>3 DEF WritesStatus, CustomResource
    <2>4. CASE Expires
      BY <1>1, <2>1, <2>2, <2>4 DEF Expires, CustomResource
    <2>5. CASE User
      BY <1>1, <2>1, <2>2, <2>5, UserKeeps DEF CustomResource
    <2>6. CASE api' = [api EXCEPT !.finalizer = TRUE] \/ Hibernates
      BY <1>1, <2>1, <2>6 DEF Hibernates, CustomResource
    <2> QED
      BY <1>1, <2>1, <2>3, <2>4, <2>5, <2>6 DEF CRStep, Released
  <1>2. TypeOK /\ Copies /\ [Next]_vars =>
          [api.exists /\ api.finalizer /\ ~(api'.finalizer /\ api'.exists) => secrets = {}]_vars
    BY <1>1
  <1> QED
    BY <1>2, CopiesInvariant, PTL DEF Spec, SecretsBeforeFinalizer

\* The reconciler only deletes sessions whose stored status has said Hibernated
\* for longer than maxHibernatedDuration, although its own copy may be outdated
\* and the deletion has no precondition.
THEOREM DeletesHibernatedOnly == Spec => DeletesOnlyHibernated
  <1>1. ASSUME TypeOK, Copies, [Next]_vars,
               api.exists, ~api.deleting, api'.deleting \/ ~api'.exists
        PROVE  \/ UserDeletes
               \/ /\ api.status.state = "Hibernated"
                  /\ now > api.status.hibernatedSince + culling.maxHibernatedDuration
    <2>1. CRStep /\ api \in CustomResource /\ Dated(api)
      BY <1>1, CopiesStep DEF TypeOK, Copies, CacheInv
    <2>2. CASE Expires
      BY <2>1, <2>2 DEF Expires, NeedsDeletion, Dated, FailureTimed
    <2>3. CASE WritesStatus
      BY <1>1, <2>1, <2>3 DEF WritesStatus, CustomResource
    <2>4. CASE User
      BY <1>1, <2>1, <2>4, UserKeeps DEF CustomResource
    <2>5. CASE api' = [api EXCEPT !.finalizer = TRUE] \/ Hibernates
      BY <1>1, <2>1, <2>5 DEF Hibernates, CustomResource
    <2> QED
      BY <1>1, <2>1, <2>2, <2>3, <2>4, <2>5 DEF CRStep, Released
  <1>2. TypeOK /\ Copies /\ [Next]_vars =>
          [(api.exists /\ ~api.deleting /\ (api'.deleting \/ ~api'.exists)) =>
             \/ UserDeletes
             \/ /\ api.status.state = "Hibernated"
                /\ now > api.status.hibernatedSince + culling.maxHibernatedDuration]_vars
    BY <1>1
  <1> QED
    BY <1>2, CopiesInvariant, PTL DEF Spec, DeletesOnlyHibernated

-----------------------------------------------------------------------------
(***************************************************************************)
(* The refinement of SessionLifecycle.  Copies and CRStep say what a step  *)
(* does to the stored custom resource; what is added here is that a        *)
(* session that is being deleted is held by its finalizer for as long as   *)
(* its secrets are deleted.                                                *)
(***************************************************************************)
\* A custom resource is marked for deletion only with a finalizer, and is
\* there while a pass deletes its secrets; what is gone has no state left.
Held ==
    /\ api.exists /\ api.deleting => api.finalizer
    /\ ~api.exists => api = Gone
    /\ rec.pc \in {"deleteSecrets", "removeFinalizer"} => api.exists /\ api.deleting

LifeInv == TypeOK /\ Copies /\ Held

\* Deleting marks an object that has a finalizer and drops any other.
LEMMA DeletedIs ==
    ASSUME NEW cr \in CustomResource, cr.exists
    PROVE  /\ cr.finalizer => Deleted(cr) = [cr EXCEPT !.deleting = TRUE]
           /\ ~cr.finalizer => Deleted(cr) = Gone
           /\ Deleted(cr).exists => Deleted(cr).finalizer
           /\ ~Deleted(cr).exists => Deleted(cr) = Gone
  <1>1. CASE cr.finalizer
    BY <1>1 DEF Deleted, CustomResource
  <1>2. CASE ~cr.finalizer
    BY <1>2 DEF Deleted, Gone, NewCR
  <1> QED BY <1>1, <1>2

\* What any step may do to the stored resource keeps it held.
LEMMA HeldResource ==
    ASSUME TypeOK, Held, CRStep
    PROVE  /\ api'.exists /\ api'.deleting => api'.finalizer
           /\ ~api'.exists => api' = Gone
  <1>1. api \in CustomResource
    BY DEF TypeOK
  <1>2. CASE api' = api
    BY <1>2 DEF Held
  <1>3. CASE api.exists /\ WritesStatus
    BY <1>1, <1>3 DEF WritesStatus, Held, CustomResource
  <1>4. CASE api.exists /\ (api' = [api EXCEPT !.finalizer = TRUE] \/ api' = [api EXCEPT !.hibernated = TRUE])
    BY <1>1, <1>4 DEF Held, CustomResource
  <1>5. CASE api.exists /\ Expires
    BY <1>1, <1>5, DeletedIs DEF Expires
  <1>6. CASE Released
    BY <1>6 DEF Released, Gone, NewCR
  <1>7. CASE User
    <2>1. api.exists
      BY <1>7 DEF User, UserHibernates, UserResumes, UserInteracts, UserDeletes, UserWrites
    <2> QED
      BY <1>1, <1>7, <2>1, DeletedIs, UserKeeps DEF Held, CustomResource
  <1> QED
    BY <1>2, <1>3, <1>4, <1>5, <1>6, <1>7 DEF CRStep, Hibernates

\* The calls that lead to the deletion of the secrets and on from it.
LEMMA HeldPass ==
    ASSUME TypeOK, Copies, Held, [Next]_vars,
           rec'.pc \in {"deleteSecrets", "removeFinalizer"}
    PROVE  api'.exists /\ api'.deleting
  <1>1. /\ rec \in RecType /\ api \in CustomResource /\ cache \in CustomResource
        /\ rec.obj \in CustomResource
    BY DEF TypeOK, RecType
  <1>2. ~Return
    BY DEF Return, Idle
  <1>3. CASE DeletingStatusUpdate
    <2>1. rec'.pc # "deletingConflict"
      OBVIOUS
    <2>2. Accepted /\ Store([rec.obj EXCEPT !.status.state = "NotReady"])
      BY <1>1, <1>3, <2>1 DEF DeletingStatusUpdate, RecType
    <2>3. rec.obj = api /\ api.exists /\ api.deleting
      BY <1>3, <2>2 DEF DeletingStatusUpdate, Accepted, Copies, PassInv, PassCurrent, PassDeletes,
                        DeletingPCs
    <2> QED
      BY <1>1, <2>2, <2>3 DEF Store, CustomResource
  <1>4. CASE DeletingStatusRetry
    <2>1. Accepted /\ Store([rec.obj EXCEPT !.status.state = "NotReady"])
      BY <1>2, <1>4 DEF DeletingStatusRetry
    <2>2. rec.obj = api /\ api.exists /\ api.deleting
      BY <1>4, <2>1 DEF DeletingStatusRetry, Accepted, Copies, PassInv, PassCurrent, PassDeletes,
                        DeletingPCs
    <2> QED
      BY <1>1, <2>1, <2>2 DEF Store, CustomResource
  <1>5. CASE \E failed \in SUBSET Adopted : DeleteSecrets(failed)
    BY <1>5 DEF DeleteSecrets, Held, crVars
  <1>6. CASE User
    <2>1. ~api.deleting /\ rec'.pc = rec.pc
      BY <1>1, <1>6 DEF User, UserHibernates, UserResumes, UserInteracts, UserDeletes, UserWrites,
                        RecType
    <2> QED BY <2>1 DEF Held
  <1>7. CASE UNCHANGED <<api, rec>>
    BY <1>7 DEF Held
  <1>8. CASE SyncCR \/ SyncStatefulSet \/ Pods \/ GarbageCollected \/ Tick \/ UNCHANGED vars
    BY <1>7, <1>8 DEF SyncCR, SyncStatefulSet, Pods, GarbageCollected, Tick, vars, crVars
  <1>9. CASE FirstStatusUpdate \/ FirstStatusRetry \/ AddFinalizer
    <2>1. \A cr : AfterFirstStatus(cr) \in {"finalizer", "children"}
      BY DEF AfterFirstStatus
    <2> QED
      BY <1>1, <1>2, <1>9, <2>1 DEF FirstStatusUpdate, FirstStatusRetry, AddFinalizer, GoOn, RecType
  <1>15. CASE GetAgain
    BY <1>2, <1>15, GetAgainPass
  <1>10. CASE Get
    BY <1>10 DEF Get, AfterFirstStatus
  <1>11. CASE \E cpu \in IdleDecision : UpdateStatus(cpu)
    <2>1. PICK cpu \in IdleDecision : UpdateStatus(cpu)
      BY <1>11
    <2>2. rec'.pc \in {"finish", "conflict"}
      BY <1>1, <2>1 DEF UpdateStatus, GoOn, RecType
    <2> QED BY <2>2
  <1>12. CASE RetryStatus
    BY <1>1, <1>2, <1>12 DEF RetryStatus, GoOn, RecType
  <1>13. CASE \E runID \in RunID, failed \in SUBSET Children : ReconcileChildren(runID, failed)
    <2>1. PICK runID \in RunID, failed \in SUBSET Children : ReconcileChildren(runID, failed)
      BY <1>13
    <2>2. rec'.pc = "status"
      BY <1>1, <1>2, <2>1 DEF ReconcileChildren, RecType
    <2> QED BY <2>2
  <1>14. CASE RemoveFinalizer \/ DeleteSession \/ updateHibernationState \/ Crash
    BY <1>2, <1>14 DEF RemoveFinalizer, DeleteSession, updateHibernationState, Crash
  <1> QED
    BY <1>3, <1>4, <1>5, <1>6, <1>8, <1>9, <1>10, <1>11, <1>12, <1>13, <1>14, <1>15
    DEF Next, Reconciler

\* The invariant of the refinement.
LEMMA LifeInvStep ==
    ASSUME LifeInv, [Next]_vars
    PROVE  LifeInv'
  <1>1. TypeOK' /\ Copies' /\ CRStep
    BY TypeStep, CopiesStep DEF LifeInv
  <1>2. Held'
    BY <1>1, HeldResource, HeldPass DEF LifeInv, Held
  <1> QED
    BY <1>1, <1>2 DEF LifeInv

\* It holds initially.
LEMMA LifeInvInit == Init => LifeInv
  <1> SUFFICES ASSUME Init PROVE LifeInv
    OBVIOUS
  <1>1. TypeOK /\ Copies
    BY TypeInit, CopiesInit
  <1>2. api.exists /\ ~api.deleting /\ rec.pc = "idle"
    BY DEF Init, NewCR, Idle
  <1> QED
    BY <1>1, <1>2 DEF LifeInv, Held

-----------------------------------------------------------------------------
\* Only a pass at "deleteSecrets" touches the secrets, and nothing else.
LEMMA SecretsStep ==
    ASSUME [Next]_vars
    PROVE  \/ secrets' = secrets
           \/ rec.pc = "deleteSecrets" /\ api' = api /\ secrets' \in SUBSET secrets
  <1>1. CASE \E failed \in SUBSET Adopted : DeleteSecrets(failed)
    BY <1>1 DEF DeleteSecrets, crVars
  <1>2. CASE \/ Get \/ GetAgain \/ FirstStatusUpdate \/ FirstStatusRetry \/ AddFinalizer
             \/ DeletingStatusUpdate \/ DeletingStatusRetry
    BY <1>2 DEF Get, GetAgain, FirstStatusUpdate, FirstStatusRetry, AddFinalizer,
                DeletingStatusUpdate, DeletingStatusRetry
  <1>3. CASE \/ RemoveFinalizer \/ RetryStatus \/ DeleteSession \/ updateHibernationState
             \/ \E runID \in RunID, failed \in SUBSET Children : ReconcileChildren(runID, failed)
             \/ \E cpu \in IdleDecision : UpdateStatus(cpu)
    BY <1>3 DEF RemoveFinalizer, RetryStatus, DeleteSession, updateHibernationState,
                ReconcileChildren, UpdateStatus
  <1>4. CASE User
    BY <1>4 DEF User, UserHibernates, UserResumes, UserInteracts, UserDeletes, UserWrites
  <1>5. CASE \/ Crash \/ SyncCR \/ SyncStatefulSet \/ Pods \/ GarbageCollected \/ Tick
             \/ UNCHANGED vars
    BY <1>5 DEF Crash, SyncCR, SyncStatefulSet, Pods, GarbageCollected, Tick, vars
  <1> QED
    BY <1>1, <1>2, <1>3, <1>4, <1>5 DEF Next, Reconciler

\* What a step does to the stored resource is a step in the life of the session.
LEMMA ResourceStep ==
    ASSUME TypeOK, Held, CRStep, secrets' = secrets
    PROVE  [Life!LifeNext]_(Life!lifeVars)
  <1>1. api \in CustomResource /\ api.status \in Status /\ api.status.runID \in RunID
    BY CRType DEF TypeOK
  <1>2. CASE api' = api
    BY <1>2 DEF Life!lifeVars
  <1>3. CASE api.exists /\ WritesStatus
    <2>1. PICK st \in Status :
             /\ api' = [api EXCEPT !.status = st]
             /\ api.status.runID # NoRun /\ st.runID # NoRun => st.runID = api.status.runID
      BY <1>3 DEF WritesStatus
    <2>2. /\ api'.exists = api.exists /\ api'.deleting = api.deleting
          /\ api'.finalizer = api.finalizer /\ api'.hibernated = api.hibernated
          /\ api'.status.runID = st.runID /\ st.runID \in RunID
      BY <1>1, <2>1 DEF CustomResource, Status
    <2>3. CASE api.status.runID = st.runID
      BY <2>2, <2>3 DEF Life!lifeVars
    <2>4. CASE api.status.runID = NoRun /\ st.runID # NoRun
      <3>1. Life!StartRun
        BY <1>3, <2>2, <2>4 DEF Life!StartRun, RunID
      <3> QED BY <3>1 DEF Life!LifeNext
    <2>5. CASE api.status.runID # NoRun /\ st.runID = NoRun
      <3>1. Life!EndRun
        BY <1>3, <2>2, <2>5 DEF Life!EndRun
      <3> QED BY <3>1 DEF Life!LifeNext
    <2> QED BY <2>1, <2>3, <2>4, <2>5
  <1>4. CASE api.exists /\ api' = [api EXCEPT !.finalizer = TRUE]
    <2>1. /\ api'.exists = api.exists /\ api'.deleting = api.deleting /\ api'.finalizer = TRUE
          /\ api'.hibernated = api.hibernated /\ api'.status = api.status
      BY <1>1, <1>4 DEF CustomResource
    <2>2. CASE api.finalizer
      BY <1>1, <2>1, <2>2 DEF Life!lifeVars, CustomResource
    <2>3. CASE ~api.finalizer
      <3>1. Life!TakeCharge
        BY <1>4, <2>1, <2>3 DEF Life!TakeCharge, Held
      <3> QED BY <3>1 DEF Life!LifeNext
    <2> QED BY <2>2, <2>3
  <1>5. CASE /\ api.exists /\ (~api.deleting \/ api'.hibernated)
             /\ \E t : api' = [api EXCEPT !.hibernated = api'.hibernated, !.lastInteraction = t]
             /\ api'.hibernated \in BOOLEAN
    <2>1. /\ api'.exists = api.exists /\ api'.deleting = api.deleting
          /\ api'.finalizer = api.finalizer /\ api'.status = api.status
      BY <1>1, <1>5 DEF CustomResource
    <2>2. CASE api'.hibernated = api.hibernated
      BY <2>1, <2>2 DEF Life!lifeVars
    <2>3. CASE ~api.hibernated /\ api'.hibernated
      <3>1. Life!Hibernate
        BY <1>5, <2>1, <2>3 DEF Life!Hibernate
      <3> QED BY <3>1 DEF Life!LifeNext
    <2>4. CASE api.hibernated /\ ~api'.hibernated
      <3>1. Life!Resume
        BY <1>5, <2>1, <2>4 DEF Life!Resume
      <3> QED BY <3>1 DEF Life!LifeNext
    <2> QED BY <1>1, <1>5, <2>2, <2>3, <2>4 DEF CustomResource
  <1>6. CASE api.exists /\ api' = [api EXCEPT !.hibernated = TRUE]
    BY <1>1, <1>5, <1>6 DEF CustomResource
  <1>7. CASE api.exists /\ api' = Deleted(api)
    <2>1. CASE api.finalizer
      <3>1. /\ api'.exists = api.exists /\ api'.deleting /\ api'.finalizer = api.finalizer
            /\ api'.hibernated = api.hibernated /\ api'.status = api.status
        BY <1>1, <1>7, <2>1, DeletedIs DEF CustomResource
      <3>2. CASE api.deleting
        BY <3>1, <3>2 DEF Life!lifeVars
      <3>3. CASE ~api.deleting
        <4>1. Life!Delete
          BY <1>7, <2>1, <3>1, <3>3 DEF Life!Delete
        <4> QED BY <4>1 DEF Life!LifeNext
      <3> QED BY <3>2, <3>3
    <2>2. CASE ~api.finalizer
      <3>1. api' = Gone /\ ~api.deleting
        BY <1>1, <1>7, <2>2, DeletedIs DEF Held
      <3>2. Life!Delete
        BY <1>7, <2>2, <3>1 DEF Life!Delete, Gone, NewCR, NewStatus
      <3> QED BY <3>2 DEF Life!LifeNext
    <2> QED BY <2>1, <2>2
  <1>8. CASE api.exists /\ Released
    <2>1. Life!Release
      BY <1>8 DEF Life!Release, Released, Gone, NewCR, NewStatus
    <2> QED BY <2>1 DEF Life!LifeNext
  <1>9. CASE User
    <2>1. api.exists /\ ~api.deleting
      BY <1>9 DEF User, UserHibernates, UserResumes, UserInteracts, UserDeletes, UserWrites
    <2>2. CASE api' = Deleted(api)
      BY <1>7, <2>1, <2>2
    <2>3. CASE api' = [api EXCEPT !.hibernated = api'.hibernated,
                                  !.lastInteraction = api'.lastInteraction]
      <3>1. api'.hibernated \in BOOLEAN
        <4>1. \A cr : Store(cr) => api' = cr
          BY DEF Store
        <4>2. \/ api' = [api EXCEPT !.hibernated = TRUE]
              \/ api' = [api EXCEPT !.hibernated = FALSE]
              \/ api' = [api EXCEPT !.lastInteraction = now]
              \/ api' = Deleted(api)
          BY <1>9, <4>1
          DEF User, UserHibernates, UserResumes, UserInteracts, UserDeletes, UserWrites
        <4>3. Deleted(api).hibernated \in BOOLEAN
          BY <1>1, CRType DEF CustomResource
        <4> QED BY <1>1, <4>2, <4>3 DEF CustomResource
      <3> QED BY <1>5, <2>1, <2>3, <3>1
    <2> QED BY <1>9, <2>2, <2>3, UserKeeps
  <1> QED
    BY <1>2, <1>3, <1>4, <1>6, <1>7, <1>8, <1>9 DEF CRStep, Hibernates, Expires

\* A step of the system is a step in the life of the session, or none.
LEMMA LifeStep ==
    ASSUME LifeInv, [Next]_vars
    PROVE  [Life!LifeNext]_(Life!lifeVars)
  <1>1. CRStep
    BY CopiesStep DEF LifeInv
  <1>2. CASE secrets' = secrets
    BY <1>1, <1>2, ResourceStep DEF LifeInv
  <1>3. CASE rec.pc = "deleteSecrets" /\ api' = api /\ secrets' \in SUBSET secrets
    <2>1. api.exists /\ api.deleting
      BY <1>3 DEF LifeInv, Held
    <2>2. Life!DeleteSecrets
      BY <1>3, <2>1 DEF Life!DeleteSecrets
    <2> QED BY <2>2 DEF Life!LifeNext
  <1> QED
    BY <1>2, <1>3, SecretsStep

\* The reconciler, with all its copies, conflicts, retries, errors and
\* restarts, implements the life of a session: users see one run at a time,
\* a deletion that is final, and secrets that go before the session does.
THEOREM ImplementsTheLifecycle == Spec => ImplementsLifecycle
  <1>1. Init => Life!LifeInit
    <2> SUFFICES ASSUME Init PROVE Life!LifeInit
      OBVIOUS
    <2>1. PICK h \in BOOLEAN : api = [NewCR EXCEPT !.hibernated = h]
      BY DEF Init
    <2>2. /\ api.exists /\ ~api.deleting /\ api.finalizer = FALSE /\ api.hibernated = h
          /\ api.status = NewStatus
      BY <2>1 DEF NewCR
    <2> QED
      BY <2>2 DEF Init, Life!LifeInit, NewStatus
  <1>2. LifeInv /\ [Next]_vars => LifeInv'
    BY LifeInvStep
  <1>3. LifeInv /\ [Next]_vars => [Life!LifeNext]_(Life!lifeVars)
    BY LifeStep
  <1> QED
    BY <1>1, <1>2, <1>3, LifeInvInit, PTL DEF Spec, ImplementsLifecycle, Life!LifeSpec

-----------------------------------------------------------------------------
(***************************************************************************)
(* The clocks.  A pass that scales the StatefulSet down resets them in the *)
(* status update at its end.  As long as the status was told so (~untold)  *)
(* and copies are up to date, no clock of one run counts against the next. *)
(***************************************************************************)
Off == ~sts.exists \/ sts.replicas = 0

\* A clock of the current run.
OfThisRun(t) == t = Zero \/ t >= scaledAt

\* An event about an exceeded quota starts the failure clock of a session that
\* is hibernated.
Settled(st) ==
    /\ Off => /\ st.idleSince = Zero
              /\ ~quotaHit => st.failingSince = Zero
              /\ st.hibernatedSince = Zero \/ (sts.exists /\ st.hibernatedSince >= scaledAt)
    /\ ~Off => OfThisRun(st.idleSince) /\ (~quotaHit => OfThisRun(st.failingSince))

Cleared(st) == st.state = "Hibernated" => st.idleSince = Zero /\ st.failingSince = Zero

SameClocks(a, b) ==
    /\ a.idleSince = b.idleSince /\ a.failingSince = b.failingSince
    /\ a.hibernatedSince = b.hibernatedSince

\* A date at which one of the limits has been reached.
Justified(date) ==
    date # Zero =>
        \/ culling.maxAge > 0 /\ date >= CreationTimestamp + culling.maxAge
        \/ \E limit \in {culling.maxIdleDuration, culling.maxFailedDuration} :
               limit > 0 /\ date >= scaledAt + limit

First == {"firstStatus", "firstConflict", "firstRetry"}

\* The copies are those of the API server.
InStep ==
    /\ cache = api /\ cacheFresh /\ stsCache = sts
    /\ scaledAt \in Nat /\ untold \in BOOLEAN /\ quotaHit \in BOOLEAN
    /\ scaledAt <= now
    /\ ~quotaHit => ~events.quota
    /\ ~api.exists => api.status = NewStatus
    /\ rec.obj.deleting /\ api.exists => api.deleting
    /\ rec.pc \in First => api.status = NewStatus

StatusSettled ==
    ~untold => /\ Cleared(api.status)
               /\ api.exists /\ ~api.deleting => Settled(api.status)

\* The pass before it reconciles the StatefulSet, ...
Early == First \cup {"finalizer", "children"}

PassEarly == rec.pc \in Early /\ api.exists /\ ~untold => Settled(rec.obj.status)

\* ... once it has done so, ...
PassScaled ==
    rec.pc = "status" /\ api.exists =>
        /\ sts.exists /\ sts.replicas = rec.updates.replicas
        /\ rec.updates.replicas = IF rec.obj.hibernated THEN 0 ELSE 1
        /\ rec.updates.callback = "hibernated" => sts.replicas = 0
        /\ sts.replicas = 1 /\ ~untold => /\ OfThisRun(rec.obj.status.idleSince)
                                          /\ ~quotaHit => OfThisRun(rec.obj.status.failingSince)
        /\ sts.replicas = 0 /\ rec.updates.callback = "none" /\ ~untold => Settled(rec.obj.status)

\* ... and once it has computed the status, which ends the run for good when
\* it is stored by the pass that scaled down.
Late == {"conflict", "retry", "finish"}

LateStatus(st, deleting) ==
    /\ st.state = "Hibernated" => sts.replicas = 0
    /\ rec.updates.callback = "hibernated" => sts.replicas = 0
    /\ ~untold \/ rec.updates.callback = "hibernated" =>
         /\ Cleared(st)
         /\ ~deleting => Settled(st)
    /\ sts.replicas = 1 /\ ~untold /\ ~quotaHit /\ culling.maxStartingDuration = 0
          => Justified(st.willHibernateAt)

PassLate ==
    rec.pc \in Late /\ api.exists => sts.exists /\ LateStatus(rec.obj.status, rec.obj.deleting)

ClockInv == InStep /\ StatusSettled /\ PassEarly /\ PassScaled /\ PassLate

\* The limits a computed date can come from.
LEMMA DateJustified ==
    ASSUME InStep, NEW st \in Status, NEW interaction \in Nat, culling.maxStartingDuration = 0,
           OfThisRun(st.idleSince), OfThisRun(st.failingSince)
    PROVE  Justified(calculateHibernationDate(CreationTimestamp, st, culling, interaction))
  <1> DEFINE age      == hibernationDateByMaxAge(CreationTimestamp, culling)
             starting == hibernationDateByStartingDuration(CreationTimestamp, st, culling)
             failing  == hibernationDateByFailingSince(st, culling)
             idle     == hibernationDateByIdleSince(st, culling, interaction)
             date     == calculateHibernationDate(CreationTimestamp, st, culling, interaction)
  <1>1. /\ culling.maxAge \in Nat /\ culling.maxFailedDuration \in Nat /\ culling.maxIdleDuration \in Nat
        /\ st.idleSince \in Nat /\ st.failingSince \in Nat /\ scaledAt \in Nat
    BY CullingAssumption DEF CullingConfig, Status, InStep
  <1>2. Justified(age)
    BY <1>1 DEF Justified, hibernationDateByMaxAge, DateAfter, Zero, CreationTimestamp
  <1>3. starting = Zero
    BY DEF hibernationDateByStartingDuration, DateAfter, Zero
  <1>4. Justified(failing)
    <2>1. failing # Zero => /\ culling.maxFailedDuration > 0
                            /\ failing >= scaledAt + culling.maxFailedDuration
      BY <1>1 DEF hibernationDateByFailingSince, DateAfter, Zero, OfThisRun
    <2> HIDE DEF failing
    <2> QED BY <2>1 DEF Justified
  <1>5. Justified(idle)
    <2>1. idle # Zero => /\ culling.maxIdleDuration > 0
                         /\ idle >= scaledAt + culling.maxIdleDuration
      BY <1>1 DEF hibernationDateByIdleSince, DateAfter, Zero, OfThisRun
    <2> HIDE DEF idle
    <2> QED BY <2>1 DEF Justified
  <1>6. date = Earlier(Earlier(Earlier(age, starting), failing), idle)
    BY DEF calculateHibernationDate
  <1>7. Justified(Zero)
    BY DEF Justified
  <1> HIDE DEF age, starting, failing, idle, date
  <1>8. date \in {age, starting, failing, idle}
    BY <1>6 DEF Earlier
  <1> QED
    BY <1>2, <1>3, <1>4, <1>5, <1>7, <1>8 DEF date

\* The status of a new session has no clocks running.
LEMMA NewIsSettled == Settled(NewStatus) /\ Cleared(NewStatus)
  BY DEF Settled, Cleared, NewStatus, OfThisRun

\* The same clocks on the same StatefulSet.
LEMMA SettledStays ==
    ASSUME NEW a, NEW b, SameClocks(a, b)
    PROVE  /\ Settled(b) => Settled(a)
           /\ a.state = b.state /\ Cleared(b) => Cleared(a)
  BY DEF SameClocks, Settled, OfThisRun, Cleared

\* Without lag the cache is what was stored.
LEMMA StoredInStep ==
    ASSUME ~InformerLag, NEW cr, Store(cr)
    PROVE  api' = cr /\ cache' = api' /\ cacheFresh'
  BY DEF Store

\* A step that leaves the workload, the events and the clock alone, and what
\* is then remembered.
Still == /\ UNCHANGED <<sts, stsCache, now, events, scaledAt, quotaHit>>
         /\ untold' = (untold /\ ~Told)

LEMMA StillStep ==
    ASSUME InStep, Remember, UNCHANGED <<sts, stsCache, now, events>>
    PROVE  Still
  <1>1. ~Scaled
    BY DEF Scaled
  <1>2. scaledAt' = scaledAt /\ quotaHit' = quotaHit
    BY <1>1 DEF Remember, InStep
  <1>3. untold' = (untold /\ ~Told)
    BY <1>1 DEF Remember, ScaledDown, InStep
  <1> QED BY <1>2, <1>3 DEF Still

\* A pass that ends, or does not get to the StatefulSet.
LEMMA PassElsewhere ==
    ASSUME ClockInv, Still, cache' = api', cacheFresh',
           rec'.pc \in {"idle"} \cup DeletingPCs,
           rec'.obj.deleting /\ api'.exists => api'.deleting,
           ~api'.exists => api'.status = NewStatus,
           ~untold => Cleared(api'.status),
           api'.exists /\ ~api'.deleting =>
               /\ api.exists /\ ~api.deleting /\ SameClocks(api'.status, api.status)
    PROVE  ClockInv'
  <1>1. untold' = untold /\ rec'.pc \notin First /\ untold \in BOOLEAN
    BY DEF Still, Told, First, DeletingPCs, ClockInv, InStep
  <1>2. InStep'
    BY <1>1 DEF ClockInv, InStep, Still
  <1>3. StatusSettled'
    <2> SUFFICES ASSUME ~untold PROVE /\ Cleared(api.status)'
                                     /\ (api.exists /\ ~api.deleting)' => Settled(api.status)'
      BY <1>1 DEF StatusSettled
    <2>1. Cleared(api.status)'
      BY DEF Cleared
    <2>2. ASSUME api'.exists, ~api'.deleting PROVE Settled(api.status)'
      <3>1. Settled(api'.status)
        BY <2>2, SettledStays DEF ClockInv, StatusSettled
      <3> QED BY <3>1 DEF Settled, Off, OfThisRun, Still
    <2> QED BY <2>1, <2>2
  <1>4. PassEarly' /\ PassScaled' /\ PassLate'
    BY <1>1 DEF PassEarly, PassScaled, PassLate, Early, Late, DeletingPCs
  <1> QED BY <1>2, <1>3, <1>4 DEF ClockInv

\* A pass on its way to the StatefulSet.
LEMMA PassOnItsWay ==
    ASSUME ClockInv, Still, cache' = api', cacheFresh',
           rec'.pc \in Early,
           rec'.pc \in First => api'.status = NewStatus,
           rec'.obj.deleting /\ api'.exists => api'.deleting,
           ~api'.exists => api'.status = NewStatus,
           ~untold =>
               /\ Cleared(api'.status)
               /\ api'.exists => Settled(rec'.obj.status)
               /\ api'.exists /\ ~api'.deleting => Settled(api'.status)
    PROVE  ClockInv'
  <1>1. untold' = untold
    BY DEF Still, Told, First, Early, ClockInv, InStep
  <1>2. InStep'
    BY <1>1 DEF ClockInv, InStep, Still
  <1>3. StatusSettled'
    BY <1>1 DEF StatusSettled, Cleared, Settled, Off, OfThisRun, Still
  <1>4. PassEarly'
    BY <1>1 DEF PassEarly, Settled, Off, OfThisRun, Still
  <1>5. PassScaled' /\ PassLate'
    BY DEF PassScaled, PassLate, Early, First, Late
  <1> QED BY <1>2, <1>3, <1>4, <1>5 DEF ClockInv

\* The steps of the pass up to the StatefulSet.
LEMMA ClockGet ==
    ASSUME ClockInv, Remember, Get
    PROVE  ClockInv'
  <1>1. /\ cache = api /\ api.exists /\ rec'.obj = api /\ Still
        /\ cache' = api' /\ cacheFresh' /\ api' = api
        /\ \/ rec'.pc = "deletingStatus" /\ api.deleting
           \/ rec'.pc \in Early /\ ~api.deleting /\ (rec'.pc \in First => api.status = NewStatus)
    <2>1. Still
      BY StillStep DEF ClockInv, Get, clusterVars
    <2> QED
      BY <2>1 DEF Get, ClockInv, InStep, Early, First, AfterFirstStatus, crVars
  <1>2. ~untold => Cleared(api'.status) /\ (~api.deleting => Settled(api.status))
    BY <1>1 DEF ClockInv, StatusSettled
  <1>3. CASE api.deleting
    BY <1>1, <1>2, <1>3, PassElsewhere DEF DeletingPCs
  <1>4. CASE ~api.deleting
    BY <1>1, <1>2, <1>4, PassOnItsWay
  <1> QED BY <1>3, <1>4

\* A pass that returns without a write.
LEMMA ClockReturn ==
    ASSUME ClockInv, Still, Return, api' = api, cache' = api', cacheFresh'
    PROVE  ClockInv'
  <1>1. rec'.pc = "idle" /\ rec'.obj.deleting = FALSE
    BY DEF Return, Idle, NewCR
  <1>2. (~untold => Cleared(api.status)) /\ (~api.exists => api.status = NewStatus)
    BY DEF ClockInv, StatusSettled, InStep
  <1> QED BY <1>1, <1>2, PassElsewhere DEF SameClocks

\* The first status write stores the status of a new session.
LEMMA ClockFirstStatus ==
    ASSUME ~InformerLag, TypeOK, Copies, ClockInv, Remember, FirstStatusUpdate \/ FirstStatusRetry
    PROVE  ClockInv'
  <1> DEFINE url == [rec.obj EXCEPT !.status.url = TRUE]
  <1>1. /\ rec \in RecType /\ rec.obj \in CustomResource /\ api \in CustomResource
        /\ rec.pc \in {"firstStatus", "firstRetry"} /\ Still
    <2>1. UNCHANGED <<sts, stsCache, now, events>>
      BY DEF FirstStatusUpdate, FirstStatusRetry, clusterVars
    <2> QED BY <2>1, StillStep DEF TypeOK, RecType, FirstStatusUpdate, FirstStatusRetry, ClockInv
  <1>2. \A x : AfterFirstStatus(x) \in Early /\ AfterFirstStatus(x) \notin First
    BY DEF AfterFirstStatus, Early, First
  <1>3. api.status = NewStatus /\ cache = api /\ cacheFresh
    BY <1>1 DEF ClockInv, InStep, First
  <1>4. ASSUME NEW cr, cr \in {rec.obj, url}, Accepted, Store(cr), GoOn(AfterFirstStatus(cr), cr)
        PROVE  ClockInv'
    <2>1. rec.obj = api /\ api.exists
      BY <1>1, <1>4 DEF Accepted, Copies, PassInv, PassCurrent
    <2>2. /\ SameClocks(cr.status, api.status) /\ cr.status.state = api.status.state
          /\ cr.exists = api.exists /\ cr.deleting = api.deleting
      <3>1. \A c \in CustomResource : LET u == [c EXCEPT !.status.url = TRUE]
              IN  /\ SameClocks(u.status, c.status) /\ u.status.state = c.status.state
                  /\ u.exists = c.exists /\ u.deleting = c.deleting
        BY DEF SameClocks, CustomResource, Status
      <3>2. cr = rec.obj \/ cr = [rec.obj EXCEPT !.status.url = TRUE]
        BY <1>4
      <3> QED BY <1>1, <2>1, <3>1, <3>2 DEF SameClocks
    <2>3. Cleared(cr.status) /\ Settled(cr.status)
      BY <1>3, <2>2, NewIsSettled, SettledStays
    <2>4. api' = cr /\ cache' = api' /\ cacheFresh' /\ rec'.pc = AfterFirstStatus(cr) /\ rec'.obj = cr
      BY <1>1, <1>4, StoredInStep DEF GoOn, RecType
    <2> QED BY <1>1, <1>2, <2>1, <2>2, <2>3, <2>4, PassOnItsWay
  <1>5. CASE UNCHANGED crVars /\ rec' = [rec EXCEPT !.pc = "firstConflict"]
    <2>1. /\ api' = api /\ cache' = api' /\ cacheFresh' /\ rec'.pc = "firstConflict"
          /\ rec'.obj = rec.obj
      BY <1>1, <1>3, <1>5 DEF RecType, crVars
    <2>2. /\ ~untold /\ api.exists => Settled(rec.obj.status)
          /\ Cleared(api.status) /\ Settled(api.status)
          /\ rec.obj.deleting /\ api.exists => api.deleting
      BY <1>1, <1>3, NewIsSettled DEF ClockInv, PassEarly, Early, First, InStep
    <2> QED BY <1>1, <1>3, <2>1, <2>2, PassOnItsWay DEF Early, First
  <1>6. CASE Return /\ UNCHANGED crVars
    BY <1>1, <1>3, <1>6, ClockReturn DEF crVars
  <1> QED
    BY <1>4, <1>5, <1>6 DEF FirstStatusUpdate, FirstStatusRetry

\* Reading again after a conflict.
LEMMA ClockGetAgain ==
    ASSUME TypeOK, ClockInv, Remember, GetAgain
    PROVE  ClockInv'
  <1>1. /\ cache = api /\ api' = api /\ cache' = api' /\ cacheFresh' /\ Still
        /\ rec.obj \in CustomResource /\ api \in CustomResource
    <2>1. UNCHANGED <<sts, stsCache, now, events>>
      BY DEF GetAgain, clusterVars
    <2> QED BY <2>1, StillStep DEF TypeOK, ClockInv, InStep, GetAgain, crVars
  <1>2. (~untold => Cleared(api.status)) /\ (~api.exists => api.status = NewStatus)
    BY DEF ClockInv, StatusSettled, InStep
  <1>3. CASE Return
    BY <1>1, <1>3, ClockReturn
  <1>4. CASE rec.pc = "firstConflict" /\ rec'.pc = "firstRetry" /\ rec'.obj = cache
    <2>1. api.status = NewStatus
      BY <1>4 DEF ClockInv, InStep, First
    <2> QED BY <1>1, <1>4, <2>1, NewIsSettled, PassOnItsWay DEF Early, First
  <1>5. CASE rec.pc = "deletingConflict" /\ rec'.pc = "deletingRetry" /\ rec'.obj = cache
    BY <1>1, <1>2, <1>5, PassElsewhere DEF DeletingPCs, SameClocks
  <1>6. CASE /\ rec.pc = "conflict" /\ rec'.pc = "retry" /\ rec'.updates = rec.updates
             /\ rec'.obj = StatusAgain(rec.obj, cache)
    <2> DEFINE cr == StatusAgain(rec.obj, api)
    <2>1. /\ SameClocks(cr.status, rec.obj.status) /\ cr.status.state = rec.obj.status.state
          /\ cr.status.willHibernateAt = rec.obj.status.willHibernateAt
          /\ cr.deleting = api.deleting
      <3>1. /\ cr.status = [rec.obj.status EXCEPT !.runID = cr.status.runID]
            /\ cr.deleting = api.deleting /\ rec.obj.status \in Status
        BY <1>1, StatusAgainType, CRType
      <3>2. \A r : LET st == [rec.obj.status EXCEPT !.runID = r]
                   IN  /\ SameClocks(st, rec.obj.status) /\ st.state = rec.obj.status.state
                       /\ st.willHibernateAt = rec.obj.status.willHibernateAt
        BY <3>1 DEF SameClocks, Status
      <3> HIDE DEF cr
      <3> QED BY <3>1, <3>2
    <2> HIDE DEF cr
    <2>2. rec'.obj = cr /\ untold' = untold /\ untold \in BOOLEAN
      BY <1>1, <1>6 DEF cr, Still, Told, ClockInv, InStep
    <2>3. InStep' /\ StatusSettled'
      BY <1>1, <1>6, <2>1, <2>2
      DEF ClockInv, InStep, StatusSettled, First, Still, Cleared, Settled, Off, OfThisRun
    <2>4. api.exists => sts.exists /\ LateStatus(cr.status, cr.deleting)
      <3> SUFFICES ASSUME api.exists PROVE sts.exists /\ LateStatus(cr.status, cr.deleting)
        OBVIOUS
      <3>1. sts.exists /\ LateStatus(rec.obj.status, rec.obj.deleting)
        BY <1>6 DEF ClockInv, PassLate, Late
      <3>2. ~cr.deleting => ~rec.obj.deleting
        BY <2>1 DEF ClockInv, InStep
      <3> QED BY <2>1, <3>1, <3>2, SettledStays DEF LateStatus
    <2>5. PassLate'
      BY <1>1, <1>6, <2>2, <2>4
      DEF PassLate, LateStatus, Cleared, Settled, Off, OfThisRun, Justified, Still
    <2> QED BY <1>6, <2>3, <2>5 DEF ClockInv, PassEarly, PassScaled, Early, First
  <1> QED
    BY <1>3, <1>4, <1>5, <1>6, GetAgainPass

\* Adding the finalizer writes the status unchanged.
LEMMA ClockFinalizer ==
    ASSUME ~InformerLag, TypeOK, Copies, ClockInv, Remember, AddFinalizer
    PROVE  ClockInv'
  <1> DEFINE cr == [rec.obj EXCEPT !.finalizer = TRUE]
  <1>1. /\ rec \in RecType /\ rec.obj \in CustomResource
        /\ rec.pc = "finalizer" /\ Still
    BY StillStep DEF TypeOK, RecType, AddFinalizer, ClockInv, clusterVars
  <1>2. CASE Accepted /\ Store(cr) /\ GoOn("children", cr)
    <2>1. rec.obj = api /\ api.exists
      BY <1>1, <1>2 DEF Accepted, Copies, PassInv, PassCurrent
    <2>2. cr.status = api.status /\ cr.exists = api.exists /\ cr.deleting = api.deleting
      BY <1>1, <2>1 DEF CustomResource
    <2> HIDE DEF cr
    <2>3. ~untold => Cleared(api.status) /\ Settled(api.status)
      BY <1>1, <2>1 DEF ClockInv, StatusSettled, PassEarly, Early
    <2>4. api' = cr /\ cache' = api' /\ cacheFresh' /\ rec'.pc = "children" /\ rec'.obj = cr
      BY <1>1, <1>2, StoredInStep DEF GoOn, RecType
    <2> QED BY <1>1, <2>1, <2>2, <2>3, <2>4, PassOnItsWay DEF Early, First
  <1>3. CASE UNCHANGED crVars /\ Return
    BY <1>1, <1>3, ClockReturn DEF ClockInv, InStep, crVars
  <1> QED
    BY <1>2, <1>3 DEF AddFinalizer

\* The deletion of the session.
LEMMA ClockDeleting ==
    ASSUME ~InformerLag, TypeOK, Copies, ClockInv, Remember,
           \/ DeletingStatusUpdate \/ DeletingStatusRetry
           \/ \E failed \in SUBSET Adopted : DeleteSecrets(failed)
    PROVE  ClockInv'
  <1> DEFINE cr == [rec.obj EXCEPT !.status.state = "NotReady"]
  <1>1. /\ rec \in RecType /\ rec.obj \in CustomResource /\ api \in CustomResource /\ Still
        /\ rec.pc \in {"deletingStatus", "deletingRetry", "deleteSecrets"}
    <2>1. UNCHANGED <<sts, stsCache, now, events>>
      BY DEF DeletingStatusUpdate, DeletingStatusRetry, DeleteSecrets, clusterVars
    <2> QED
      BY <2>1, StillStep
      DEF TypeOK, RecType, DeletingStatusUpdate, DeletingStatusRetry, DeleteSecrets, ClockInv
  <1>2. /\ cache = api /\ cacheFresh /\ (rec.obj.deleting /\ api.exists => api.deleting)
        /\ (~untold => Cleared(api.status)) /\ (~api.exists => api.status = NewStatus)
    BY DEF ClockInv, InStep, StatusSettled
  <1>3. api.deleting \/ ~api.exists
    BY <1>1 DEF Copies, PassInv, PassDeletes, DeletingPCs
  <1>4. CASE Accepted /\ Store(cr) /\ AfterDeletingStatus(cr)
    <2>1. cr.status.state = "NotReady" /\ cr.exists /\ cr.deleting
      <3>1. rec.obj = api /\ api.exists
        BY <1>1, <1>4 DEF Accepted, Copies, PassInv, PassCurrent
      <3> QED BY <1>1, <1>3, <3>1 DEF CustomResource, Status
    <2>2. Store(cr) /\ (GoOn("deleteSecrets", cr) \/ Return)
      BY <1>4 DEF AfterDeletingStatus
    <2> HIDE DEF cr
    <2>3. api' = cr /\ cache' = api' /\ cacheFresh'
      BY <2>2, StoredInStep
    <2>4. rec'.pc \in {"deleteSecrets", "idle"}
      <3>1. GoOn("deleteSecrets", cr) => rec'.pc = "deleteSecrets"
        BY <1>1 DEF GoOn, RecType
      <3>2. Return => rec'.pc = "idle"
        BY DEF Return, Idle
      <3> QED BY <2>2, <3>1, <3>2
    <2>5. Cleared(api'.status)
      BY <2>1, <2>3 DEF Cleared
    <2> QED BY <1>1, <2>1, <2>3, <2>4, <2>5, PassElsewhere DEF DeletingPCs
  <1>5. CASE UNCHANGED crVars /\ Return
    BY <1>1, <1>2, <1>5, ClockReturn DEF crVars
  <1>6. ASSUME UNCHANGED crVars, NEW where \in DeletingPCs, rec' = [rec EXCEPT !.pc = where]
        PROVE  ClockInv'
    <2>1. /\ api' = api /\ cache' = api' /\ cacheFresh' /\ rec'.pc = where /\ rec'.obj = rec.obj
      BY <1>1, <1>2, <1>6 DEF crVars, RecType
    <2> QED BY <1>1, <1>2, <1>3, <1>6, <2>1, PassElsewhere
  <1>7. "deletingConflict" \in DeletingPCs /\ "removeFinalizer" \in DeletingPCs
    BY DEF DeletingPCs
  <1>8. CASE DeletingStatusUpdate \/ DeletingStatusRetry
    BY <1>4, <1>5, <1>6, <1>7, <1>8 DEF DeletingStatusUpdate, DeletingStatusRetry
  <1>9. CASE \E failed \in SUBSET Adopted : DeleteSecrets(failed)
    <2>1. UNCHANGED crVars /\ (Return \/ rec' = [rec EXCEPT !.pc = "removeFinalizer"])
      BY <1>9 DEF DeleteSecrets
    <2> QED BY <1>5, <1>6, <1>7, <2>1
  <1> QED
    BY <1>8, <1>9

\* The end of the object, and the hibernation.
LEMMA ClockEnds ==
    ASSUME ~InformerLag, TypeOK, Copies, ClockInv, Remember,
           RemoveFinalizer \/ DeleteSession \/ updateHibernationState
    PROVE  ClockInv'
  <1>1. /\ rec.obj \in CustomResource /\ api \in CustomResource /\ Still /\ Return
        /\ rec.pc \in {"removeFinalizer", "finish"}
    <2>1. UNCHANGED <<sts, stsCache, now, events>>
      BY DEF RemoveFinalizer, DeleteSession, updateHibernationState, clusterVars
    <2> QED
      BY <2>1, StillStep DEF TypeOK, RemoveFinalizer, DeleteSession, updateHibernationState, ClockInv
  <1>2. /\ rec'.pc = "idle" /\ rec'.obj.deleting = FALSE
        /\ ~untold => Cleared(api.status)
    BY <1>1 DEF ClockInv, StatusSettled, Return, Idle, NewCR
  <1>3. CASE UNCHANGED crVars
    BY <1>1, <1>3, ClockReturn DEF ClockInv, InStep, crVars
  <1>4. ASSUME NEW cr, Store(cr), ~cr.exists => cr.status = NewStatus,
               cr.status \in {api.status, NewStatus},
               cr.exists /\ ~cr.deleting => /\ api.exists /\ ~api.deleting /\ cr.status = api.status
        PROVE  ClockInv'
    <2>1. api' = cr /\ cache' = api' /\ cacheFresh'
      BY <1>4, StoredInStep
    <2>2. ~untold => Cleared(cr.status)
      BY <1>2, <1>4, NewIsSettled
    <2> QED BY <1>1, <1>2, <1>4, <2>1, <2>2, PassElsewhere DEF SameClocks
  <1>5. /\ ~Gone.exists /\ Gone.status = NewStatus
    BY DEF Gone, NewCR
  <1>6. CASE Accepted /\ Store(Deleted([rec.obj EXCEPT !.finalizer = FALSE]))
    <2>1. Deleted([rec.obj EXCEPT !.finalizer = FALSE]) = Gone
      BY <1>1 DEF Deleted, CustomResource
    <2> QED BY <1>4, <1>5, <1>6, <2>1
  <1>7. CASE api.exists /\ Store(Deleted(api))
    <2>1. CASE api.finalizer
      <3>1. Deleted(api).exists /\ Deleted(api).deleting /\ Deleted(api).status = api.status
        BY <1>1, <1>7, <2>1 DEF Deleted, CustomResource
      <3> QED BY <1>4, <1>7, <3>1
    <2>2. CASE ~api.finalizer
      <3>1. Deleted(api) = Gone
        BY <2>2 DEF Deleted
      <3> QED BY <1>4, <1>5, <1>7, <3>1
    <2> QED BY <2>1, <2>2
  <1>8. CASE rec.pc = "finish" /\ Accepted /\ Store([rec.obj EXCEPT !.hibernated = TRUE])
    <2> DEFINE cr == [rec.obj EXCEPT !.hibernated = TRUE]
    <2>1. rec.obj = api /\ api.exists
      BY <1>8 DEF Accepted, Copies, PassInv, PassCurrent
    <2>2. cr.status = api.status /\ cr.exists = api.exists /\ cr.deleting = api.deleting /\ Store(cr)
      BY <1>1, <1>8, <2>1 DEF CustomResource
    <2> HIDE DEF cr
    <2> QED BY <1>4, <2>1, <2>2
  <1> QED
    BY <1>3, <1>6, <1>7, <1>8 DEF RemoveFinalizer, DeleteSession, updateHibernationState

\* What scaling the StatefulSet as the spec says does to the clocks that count:
\* a scaling down is not told yet, and a scaling up finds them at rest.
LEMMA ScaledSettled ==
    ASSUME InStep, now \in Nat, sts \in StatefulSet, sts' \in StatefulSet, Remember, rec'.pc # "finish",
           sts' = sts \/ sts'.exists, NEW st
    PROVE  /\ ~untold' => ~untold
           /\ ~untold' /\ Settled(st) => Settled(st)'
  <1>1. ~Told /\ untold' = (ScaledDown \/ untold) /\ (~quotaHit' => ~quotaHit)
    BY DEF Told, Remember, InStep
  <1>2. sts.replicas \in {0, 1} /\ sts'.replicas \in {0, 1} /\ sts.exists \in BOOLEAN
    BY DEF StatefulSet
  <1>3. CASE Scaled
    <2>1. sts'.exists /\ scaledAt' = now
      BY <1>3 DEF Scaled, Remember
    <2>2. ~untold' => Off
      BY <1>1, <1>2, <1>3, <2>1 DEF ScaledDown, Scaled, Off
    <2>3. sts'.replicas = 0 /\ ~untold' => ~sts.exists
      BY <1>1, <1>3 DEF ScaledDown
    <2> QED BY <1>1, <2>1, <2>2, <2>3 DEF Settled, Off, OfThisRun
  <1>4. CASE ~Scaled
    <2>1. scaledAt' = scaledAt
      BY <1>4 DEF Remember
    <2>2. sts' = sts \/ (sts.exists /\ sts'.exists /\ sts'.replicas = sts.replicas)
      BY <1>4 DEF Scaled
    <2> QED BY <1>1, <1>2, <2>1, <2>2 DEF Settled, Off, OfThisRun
  <1> QED BY <1>3, <1>4

\* The StatefulSet is scaled as the spec says: a change of its replicas starts or
\* ends a run.  When a child fails nothing else happens.
LEMMA ClockChildren ==
    ASSUME ~InformerLag, TypeOK, TypeOK', Copies, ClockInv, Remember, NEW runID \in RunID, NEW failed,
           ReconcileChildren(runID, failed)
    PROVE  ClockInv'
  <1> DEFINE cr      == [rec.obj EXCEPT !.status.runID = runID]
             desired == Desired(cr, sts)
  <1>1. /\ rec \in RecType /\ rec.obj \in CustomResource /\ api \in CustomResource
        /\ sts \in StatefulSet /\ sts' \in StatefulSet /\ now \in Nat /\ scaledAt \in Nat
        /\ rec.pc = "children" /\ UNCHANGED <<api, cache, cacheFresh, events, now>>
        /\ InStep /\ untold \in BOOLEAN
    BY DEF TypeOK, RecType, ReconcileChildren, crVars, ClockInv, InStep
  <1>2. stsCache = sts
    BY DEF ClockInv, InStep
  <1>3. /\ cr.hibernated = rec.obj.hibernated /\ cr.deleting = rec.obj.deleting
        /\ SameClocks(cr.status, rec.obj.status)
    BY <1>1 DEF CustomResource, Status, SameClocks
  <1>4. /\ desired.exists /\ desired.replicas = (IF rec.obj.hibernated THEN 0 ELSE 1)
        /\ desired = [exists |-> TRUE, replicas |-> desired.replicas, runID |-> desired.runID]
    BY <1>3 DEF Desired
  <1>5. Patched(sts, desired) = desired
    BY <1>4 DEF Patched
  <1>6. /\ UNCHANGED <<sts, stsCache>> \/ StoreStatefulSet(desired)
        /\ \/ Return
           \/ /\ StoreStatefulSet(desired)
              /\ rec' = [rec EXCEPT !.pc = "status", !.obj = cr,
                             !.updates = [replicas |-> desired.replicas,
                                          callback |-> CallbackOf(sts, desired)]]
    <2> HIDE DEF cr
    <2>1. desired = Desired(cr, sts)
      OBVIOUS
    <2> HIDE DEF desired
    <2> QED BY <1>2, <1>5, <2>1 DEF ReconcileChildren, combineErrors, cr
  <1> HIDE DEF cr, desired
  <1>7. /\ stsCache' = sts' /\ (sts' = sts \/ sts'.exists)
        /\ StoreStatefulSet(desired) => sts' = desired
    BY <1>2, <1>4, <1>6 DEF StoreStatefulSet
  <1>8. rec'.pc # "finish" /\ rec'.pc \notin First
    <2>1. CASE Return
      BY <2>1 DEF Return, Idle, First
    <2>2. ASSUME NEW u, rec' = [rec EXCEPT !.pc = "status", !.obj = cr, !.updates = u]
          PROVE  rec'.pc = "status"
      BY <1>1, <2>2 DEF RecType
    <2> QED BY <1>6, <2>1, <2>2 DEF First
  <1>9. /\ ~untold' => ~untold
        /\ \A st : ~untold' /\ Settled(st) => Settled(st)'
    BY <1>1, <1>7, <1>8, ScaledSettled
  <1>10. sts'.exists => sts'.replicas \in {0, 1}
    BY <1>1 DEF StatefulSet
  <1>11. ASSUME rec'.obj.deleting => rec.obj.deleting
         PROVE  InStep'
    <2>1. scaledAt' \in Nat /\ scaledAt' <= now
      BY <1>1 DEF Remember, InStep
    <2>2. untold' \in BOOLEAN /\ quotaHit' \in BOOLEAN /\ (~quotaHit' => ~events'.quota)
      <3>1. events.quota \in BOOLEAN
        BY DEF TypeOK, Events
      <3> QED BY <1>1, <3>1, Zenon DEF Remember, InStep, ScaledDown, Scaled, Told
    <2> QED BY <1>1, <1>7, <1>8, <1>11, <2>1, <2>2 DEF InStep
  <1>12. StatusSettled'
    <2>1. ASSUME ~untold' PROVE Cleared(api.status)'
      BY <1>1, <1>9, <2>1 DEF ClockInv, StatusSettled, Cleared
    <2>2. ASSUME ~untold', api'.exists, ~api'.deleting PROVE Settled(api.status)'
      <3>1. Settled(api.status)
        BY <1>1, <1>9, <2>2 DEF ClockInv, StatusSettled
      <3> QED BY <1>1, <1>9, <1>10, <2>2, <3>1 DEF Settled, Off, OfThisRun
    <2> QED BY <2>1, <2>2 DEF StatusSettled
  <1>13. CASE Return
    <2>1. rec'.pc = "idle" /\ rec'.obj.deleting = FALSE
      BY <1>13 DEF Return, Idle, NewCR
    <2> QED
      BY <1>11, <1>12, <2>1 DEF ClockInv, PassEarly, PassScaled, PassLate, Early, First, Late
  <1>14. CASE /\ StoreStatefulSet(desired)
              /\ rec' = [rec EXCEPT !.pc = "status", !.obj = cr,
                             !.updates = [replicas |-> desired.replicas,
                                          callback |-> CallbackOf(sts, desired)]]
    <2>1. /\ rec'.pc = "status" /\ rec'.obj = cr
          /\ rec'.updates.replicas = desired.replicas
          /\ rec'.updates.callback = CallbackOf(sts, desired)
          /\ sts' = desired
      BY <1>1, <1>7, <1>14 DEF RecType
    <2>2. CallbackOf(sts, desired) = "hibernated" => desired.replicas = 0
      BY <1>4 DEF CallbackOf
    <2>3. ASSUME api.exists, ~untold'
          PROVE  /\ desired.replicas = 1 =>
                       /\ OfThisRun(rec.obj.status.idleSince)'
                       /\ ~quotaHit' => OfThisRun(rec.obj.status.failingSince)'
                 /\ desired.replicas = 0 => Settled(rec.obj.status)'
      <3>1. Settled(cr.status)
        BY <1>1, <1>3, <1>9, <2>3, SettledStays DEF ClockInv, PassEarly, Early
      <3> QED BY <1>4, <1>9, <2>1, <2>3, <3>1 DEF Settled, Off, OfThisRun
    <2>4. PassScaled'
      BY <1>1, <1>3, <1>4, <2>1, <2>2, <2>3 DEF PassScaled
    <2> QED
      BY <1>3, <1>11, <1>12, <2>1, <2>4 DEF ClockInv, PassEarly, PassLate, Early, First, Late
  <1> QED BY <1>6, <1>13, <1>14

\* What the status computed for the scaled StatefulSet says.
LEMMA ComputedSettled ==
    ASSUME TypeOK, ClockInv, rec.pc = "status", api.exists, NEW cpu
    PROVE  LateStatus(StatusOf(rec.obj, rec.updates, pod.phase, events, cpu,
                               ingress, CreationTimestamp, now), rec.obj.deleting)
  <1> DEFINE st == StatusOf(rec.obj, rec.updates, pod.phase, events, cpu,
                            ingress, CreationTimestamp, now)
             off == rec.obj.hibernated /\ rec.updates.replicas = 0
             old == rec.obj.status
             told == rec.updates.callback = "hibernated"
  <1>1. /\ rec.obj \in CustomResource /\ ingress \in BOOLEAN /\ now \in Nat /\ scaledAt \in Nat
        /\ rec.updates.callback \in Callback /\ old \in Status /\ rec.obj.lastInteraction \in Nat
        /\ sts.replicas \in {0, 1} /\ InStep
    BY CRType DEF TypeOK, RecType, StatefulSet, CustomResource, ClockInv, InStep
  <1>2. /\ scaledAt <= now /\ (~quotaHit => ~events.quota)
        /\ sts.exists /\ sts.replicas = rec.updates.replicas
        /\ rec.updates.replicas = IF rec.obj.hibernated THEN 0 ELSE 1
        /\ told => sts.replicas = 0
        /\ sts.replicas = 1 /\ ~untold => /\ OfThisRun(old.idleSince)
                                          /\ ~quotaHit => OfThisRun(old.failingSince)
        /\ sts.replicas = 0 /\ rec.updates.callback = "none" /\ ~untold => Settled(old)
    BY DEF ClockInv, InStep, PassScaled
  <1>3. /\ rec.updates.callback # "none" => st.idleSince = Zero /\ st.failingSince = Zero
        /\ st.idleSince \in {Zero, old.idleSince, now}
        /\ st.failingSince \in {Zero, old.failingSince, now}
        /\ rec.updates.callback = "none" /\ off => st.idleSince = old.idleSince
        /\ off /\ ~rec.obj.deleting /\ ~events.quota => st.failingSince = Zero
        /\ st.state = "Hibernated" => off /\ st.failingSince = Zero
        /\ st.willHibernateAt = calculateHibernationDate(CreationTimestamp, old,
                                                 culling, rec.obj.lastInteraction)
    BY <1>1, StatusOfClocks
  <1>4. st.hibernatedSince \in {Zero, old.hibernatedSince, now}
    BY <1>1, StatusOfType DEF Callback, HibernatedSince, Since
  <1>5. off /\ rec.updates.callback # "none" => st.hibernatedSince \in {Zero, now}
    BY <1>1, StatusOfType DEF Callback
  <1> HIDE DEF st
  <1>6. off /\ (~untold \/ told) => st.idleSince = Zero
    BY <1>2, <1>3 DEF Settled, Off
  <1>7. /\ st.state = "Hibernated" => sts.replicas = 0
        /\ ~untold \/ told => Cleared(st)
    BY <1>2, <1>3, <1>6 DEF Cleared
  <1>8. ASSUME ~rec.obj.deleting, ~untold \/ told PROVE Settled(st)
    <2>1. CASE sts.replicas = 0
      <3>1. off /\ Off /\ (~quotaHit => st.failingSince = Zero) /\ st.idleSince = Zero
        BY <1>2, <1>3, <1>6, <1>8, <2>1 DEF Off
      <3>2. st.hibernatedSince = Zero \/ st.hibernatedSince >= scaledAt
        BY <1>1, <1>2, <1>4, <1>5, <1>8, <2>1, <3>1 DEF Settled
      <3> QED BY <1>2, <3>1, <3>2 DEF Settled
    <2>2. CASE sts.replicas = 1
      <3>1. ~Off /\ ~untold
        BY <1>2, <1>8, <2>2 DEF Off
      <3>2. OfThisRun(st.idleSince) /\ (~quotaHit => OfThisRun(st.failingSince))
        BY <1>1, <1>2, <1>3, <2>2, <3>1 DEF OfThisRun
      <3> QED BY <3>1, <3>2 DEF Settled
    <2> QED BY <1>1, <2>1, <2>2
  <1>9. ASSUME sts.replicas = 1, ~untold, ~quotaHit, culling.maxStartingDuration = 0
        PROVE  Justified(st.willHibernateAt)
    BY <1>1, <1>2, <1>3, <1>9, DateJustified
  <1> QED BY <1>2, <1>7, <1>8, <1>9 DEF st, LateStatus

\* A status that is stored at the end of a pass: when it is the one of the pass
\* that scaled down, the end of the run is told.
LEMMA ClockStored ==
    ASSUME ~InformerLag, ClockInv, Still, rec \in RecType, rec.pc \in {"status", "retry"},
           NEW cr, api.exists, cr.exists, Store(cr), GoOn("finish", cr),
           sts.exists, LateStatus(cr.status, cr.deleting)
    PROVE  ClockInv'
  <1>1. /\ api' = cr /\ cache' = api' /\ cacheFresh' /\ rec'.pc = "finish" /\ rec'.obj = cr
        /\ rec'.updates = rec.updates
    BY StoredInStep DEF GoOn, RecType
  <1>2. /\ ~untold' <=> ~untold \/ rec.updates.callback = "hibernated"
        /\ untold' \in BOOLEAN
    BY <1>1 DEF Still, Told, ClockInv, InStep
  <1>3. InStep'
    BY <1>1, <1>2 DEF ClockInv, InStep, Still, First
  <1>4. ~untold' => Cleared(cr.status) /\ (~cr.deleting => Settled(cr.status))
    BY <1>2 DEF LateStatus
  <1>5. StatusSettled'
    BY <1>1, <1>4 DEF StatusSettled, Cleared, Settled, Off, OfThisRun, Still
  <1>6. (sts.replicas = 1 /\ ~untold' /\ ~quotaHit /\ culling.maxStartingDuration = 0)
           => Justified(cr.status.willHibernateAt)
    BY <1>2 DEF LateStatus
  <1>7. PassLate'
    BY <1>1, <1>4, <1>6
    DEF PassLate, LateStatus, Cleared, Settled, Off, OfThisRun, Justified, Still
  <1> QED BY <1>1, <1>3, <1>5, <1>7 DEF ClockInv, PassEarly, PassScaled, Early, First

\* The status update resets the clocks of a run that has ended.
LEMMA ClockUpdateStatus ==
    ASSUME ~InformerLag, TypeOK, Copies, ClockInv, Remember, NEW cpu, UpdateStatus(cpu)
    PROVE  ClockInv'
  <1> DEFINE st == StatusOf(rec.obj, rec.updates, pod.phase, events, cpu,
                            ingress, CreationTimestamp, now)
             cr == [rec.obj EXCEPT !.status = st]
  <1>1. /\ rec \in RecType /\ rec.obj \in CustomResource /\ api \in CustomResource
        /\ rec.pc = "status" /\ Still
    BY StillStep DEF TypeOK, RecType, UpdateStatus, ClockInv, clusterVars
  <1>2. api.exists => sts.exists /\ LateStatus(st, rec.obj.deleting)
    BY <1>1, ComputedSettled DEF ClockInv, PassScaled
  <1>3. \/ Accepted /\ Store(cr) /\ GoOn("finish", cr)
        \/ UNCHANGED crVars /\ rec' = [rec EXCEPT !.pc = "conflict", !.obj = cr]
    BY DEF UpdateStatus
  <1> HIDE DEF st
  <1>4. cr.status = st /\ cr.exists = rec.obj.exists /\ cr.deleting = rec.obj.deleting
    BY <1>1 DEF CustomResource
  <1> HIDE DEF cr
  <1>5. CASE Accepted /\ Store(cr) /\ GoOn("finish", cr)
    <2>1. api.exists /\ rec.obj.exists = api.exists
      BY <1>1, <1>5 DEF Accepted, Copies, PassInv, PassCurrent, CustomResource
    <2> QED BY <1>1, <1>2, <1>4, <1>5, <2>1, ClockStored
  <1>6. CASE UNCHANGED crVars /\ rec' = [rec EXCEPT !.pc = "conflict", !.obj = cr]
    <2>1. /\ api' = api /\ cache' = cache /\ cacheFresh' = cacheFresh
          /\ rec'.pc = "conflict" /\ rec'.obj = cr /\ rec'.updates = rec.updates
      BY <1>1, <1>6 DEF crVars, RecType
    <2>2. untold' = untold
      BY <1>1, <2>1 DEF Still, Told, ClockInv, InStep
    <2>3. InStep'
      BY <1>1, <1>4, <2>1, <2>2 DEF ClockInv, InStep, Still, First
    <2>4. StatusSettled' /\ PassLate'
      BY <1>1, <1>2, <1>4, <2>1, <2>2
      DEF ClockInv, StatusSettled, PassLate, LateStatus, Cleared, Settled, Off, OfThisRun,
          Justified, Still
    <2> QED BY <2>1, <2>3, <2>4 DEF ClockInv, PassEarly, PassScaled, Early, First
  <1> QED BY <1>3, <1>5, <1>6

\* The retry after a conflict stores the clocks of the pass on the current copy;
\* when it is refused as well, they are not told.
LEMMA ClockRetry ==
    ASSUME ~InformerLag, TypeOK, Copies, ClockInv, Remember, RetryStatus
    PROVE  ClockInv'
  <1>1. /\ rec \in RecType /\ rec.obj \in CustomResource /\ api \in CustomResource
        /\ rec.pc = "retry" /\ Still
    BY StillStep DEF TypeOK, RecType, RetryStatus, ClockInv, clusterVars
  <1>2. CASE Accepted /\ Store(rec.obj) /\ GoOn("finish", rec.obj)
    <2>1. api.exists /\ rec.obj = [api EXCEPT !.status = rec.obj.status]
      BY <1>1, <1>2 DEF Accepted, Copies, PassInv, PassCurrent
    <2>2. \A x : [api EXCEPT !.status = x].exists = api.exists
      BY <1>1 DEF CustomResource
    <2>3. rec.obj.exists
      BY <2>1, <2>2
    <2>4. sts.exists /\ LateStatus(rec.obj.status, rec.obj.deleting)
      BY <1>1, <2>1 DEF ClockInv, PassLate, Late
    <2> QED BY <1>1, <1>2, <2>1, <2>3, <2>4, ClockStored
  <1>3. CASE UNCHANGED crVars /\ Return
    BY <1>1, <1>3, ClockReturn DEF ClockInv, InStep, crVars
  <1> QED BY <1>2, <1>3 DEF RetryStatus

\* Users change the spec only, or delete the session.
LEMMA ClockUser ==
    ASSUME ~InformerLag, TypeOK, ClockInv, Remember, User
    PROVE  ClockInv'
  <1>1. rec \in RecType /\ api \in CustomResource
    BY DEF TypeOK, RecType
  <1>2. ASSUME NEW cr, UserWrites(cr), ~cr.exists => cr.status = NewStatus,
               cr.exists => cr.status = api.status
        PROVE  ClockInv'
    <2>1. /\ api.exists /\ ~api.deleting /\ Store(cr) /\ Still
          /\ rec'.pc = rec.pc /\ rec'.obj = rec.obj /\ rec'.updates = rec.updates
      BY <1>1, <1>2, StillStep DEF UserWrites, RecType, ClockInv, clusterVars
    <2>2. api' = cr /\ cache' = api' /\ cacheFresh' /\ untold' = untold
      BY <2>1, StoredInStep DEF Still, Told, ClockInv, InStep
    <2>3. cr.status \in {api.status, NewStatus}
      BY <1>2
    <2>4. InStep'
      BY <1>2, <2>1, <2>2 DEF ClockInv, InStep, Still
    <2>5. StatusSettled'
      <3>1. ~untold => Cleared(cr.status) /\ (cr.exists => Settled(cr.status))
        BY <1>2, <2>1, <2>3, NewIsSettled DEF ClockInv, StatusSettled
      <3> QED BY <2>1, <2>2, <3>1 DEF StatusSettled, Cleared, Settled, Off, OfThisRun, Still
    <2>6. PassEarly' /\ PassScaled'
      BY <2>1, <2>2 DEF ClockInv, PassEarly, PassScaled, Settled, Off, OfThisRun, Still
    <2>7. PassLate'
      BY <2>1, <2>2 DEF ClockInv, PassLate, LateStatus, Cleared, Settled, Off, OfThisRun, Justified, Still
    <2> QED BY <2>4, <2>5, <2>6, <2>7 DEF ClockInv
  <1>3. \A b : /\ [api EXCEPT !.hibernated = b].status = api.status
               /\ [api EXCEPT !.hibernated = b].exists = api.exists
               /\ [api EXCEPT !.lastInteraction = b].status = api.status
               /\ [api EXCEPT !.lastInteraction = b].exists = api.exists
    BY <1>1 DEF CustomResource
  <1>4. /\ ~Deleted(api).exists => Deleted(api).status = NewStatus
        /\ Deleted(api).exists => Deleted(api).status = api.status
    <2>1. Gone.exists = FALSE /\ Gone.status = NewStatus
      BY DEF Gone, NewCR
    <2>2. CASE api.finalizer
      <3>1. Deleted(api).exists = api.exists /\ Deleted(api).status = api.status
        BY <1>1, <2>2 DEF Deleted, CustomResource
      <3> QED BY <3>1 DEF ClockInv, InStep
    <2>3. CASE ~api.finalizer
      BY <2>1, <2>3 DEF Deleted
    <2> QED BY <2>2, <2>3
  <1>5. ~api.exists => api.status = NewStatus
    BY DEF ClockInv, InStep
  <1> QED
    BY <1>2, <1>3, <1>4, <1>5
    DEF User, UserHibernates, UserResumes, UserInteracts, UserDeletes

\* Everything else leaves the custom resource and the pass alone.
LEMMA ClockElsewhere ==
    ASSUME TypeOK, TypeOK', ClockInv, Remember, UNCHANGED <<api, cache, cacheFresh, rec>>,
           now' >= now, stsCache' = sts', sts' = sts \/ (~api.exists /\ ~sts'.exists)
    PROVE  ClockInv'
  <1>1. ~Scaled /\ ~ScaledDown /\ ~Told
    BY DEF Scaled, ScaledDown, Told
  <1>2. /\ scaledAt' = scaledAt /\ untold' = untold
        /\ quotaHit' \in BOOLEAN /\ (~quotaHit' => ~quotaHit /\ ~events'.quota)
    <2>1. events'.quota \in BOOLEAN
      BY DEF TypeOK, Events
    <2> QED BY <1>1, <2>1 DEF Remember, ClockInv, InStep
  <1>3. now \in Nat /\ now' \in Nat
    BY DEF TypeOK
  <1>4. InStep'
    BY <1>2, <1>3 DEF ClockInv, InStep
  <1>5. StatusSettled'
    BY <1>2 DEF ClockInv, StatusSettled, Cleared, Settled, Off, OfThisRun
  <1>6. PassEarly' /\ PassScaled'
    BY <1>2 DEF ClockInv, PassEarly, PassScaled, Settled, Off, OfThisRun
  <1>7. PassLate'
    BY <1>2 DEF ClockInv, PassLate, LateStatus, Cleared, Settled, Off, OfThisRun, Justified
  <1> QED BY <1>4, <1>5, <1>6, <1>7 DEF ClockInv

\* The cluster, the clock and a step of nobody.
LEMMA ClockCluster ==
    ASSUME ~InformerLag, TypeOK, TypeOK', ClockInv, Remember,
           Pods \/ GarbageCollected \/ Tick \/ UNCHANGED vars
    PROVE  ClockInv'
  <1>1. now \in Nat /\ stsCache = sts
    BY DEF TypeOK, ClockInv, InStep
  <1>2. CASE Pods \/ UNCHANGED vars
    <2>1. UNCHANGED <<api, cache, cacheFresh, rec, now, sts, stsCache>>
      BY <1>2 DEF Pods, vars, crVars, clusterVars
    <2> QED BY <1>1, <2>1, ClockElsewhere
  <1>3. CASE GarbageCollected
    <2>1. /\ UNCHANGED <<api, cache, cacheFresh, rec, now>> /\ ~api.exists
          /\ stsCache' = sts' /\ ~sts'.exists
      BY <1>3 DEF GarbageCollected, StoreStatefulSet, crVars
    <2> QED BY <1>1, <2>1, ClockElsewhere
  <1>4. CASE Tick
    <2>1. /\ UNCHANGED <<api, cache, cacheFresh, rec, sts, stsCache>>
          /\ now' = now + 1
      BY <1>4 DEF Tick, crVars, clusterVars
    <2> QED BY <1>1, <2>1, ClockElsewhere
  <1> QED BY <1>2, <1>3, <1>4

\* All steps, the ones that cut a pass short included.
LEMMA ClockStep ==
    ASSUME ~InformerLag, TypeOK, Copies, ClockInv, [Next]_vars, Remember
    PROVE  ClockInv'
  <1>1. TypeOK'
    BY TypeStep
  <1>2. CASE Reconciler
    BY <1>1, <1>2, ClockGet, ClockGetAgain, ClockFirstStatus, ClockFinalizer, ClockDeleting,
       ClockEnds, ClockChildren, ClockUpdateStatus, ClockRetry DEF Reconciler
  <1>3. CASE Crash
    <2>1. Still /\ api' = api /\ cache' = api' /\ cacheFresh' /\ Return
      <3>1. stsCache = sts
        BY DEF ClockInv, InStep
      <3> QED BY <1>3, <3>1, StillStep DEF Crash, ClockInv
    <2> QED BY <2>1, ClockReturn
  <1>4. ~SyncCR /\ ~SyncStatefulSet
    BY DEF SyncCR, SyncStatefulSet, ClockInv, InStep
  <1>5. CASE User
    BY <1>5, ClockUser
  <1>6. CASE Pods \/ GarbageCollected \/ Tick \/ UNCHANGED vars
    BY <1>1, <1>6, ClockCluster
  <1> QED BY <1>2, <1>3, <1>4, <1>5, <1>6 DEF Next

\* A new session has no clocks running.
LEMMA ClockInit ==
    ASSUME HistoryInit
    PROVE  ClockInv
  <1>1. \A h : /\ [NewCR EXCEPT !.hibernated = h].status = NewStatus
               /\ [NewCR EXCEPT !.hibernated = h].exists = TRUE
    BY DEF NewCR
  <1>2. Init /\ scaledAt = Zero /\ untold = FALSE /\ quotaHit = FALSE
    BY DEF HistoryInit
  <1>3. api.status = NewStatus /\ cache = api /\ cacheFresh /\ api.exists
    BY <1>1, <1>2 DEF Init
  <1>4. rec.pc = "idle" /\ rec.obj.deleting = FALSE
    BY <1>2 DEF Init, Idle, NewCR
  <1>5. InStep
    <2>1. /\ stsCache = sts /\ now = 1 /\ events.quota = FALSE
      BY <1>2 DEF Init, CreationTimestamp
    <2>2. scaledAt \in Nat /\ scaledAt <= now
      BY <1>2, <2>1 DEF Zero
    <2>3. untold \in BOOLEAN /\ quotaHit \in BOOLEAN
      BY <1>2, Zenon
    <2> QED BY <1>3, <1>4, <2>1, <2>2, <2>3 DEF InStep, First
  <1>6. StatusSettled /\ PassEarly /\ PassScaled /\ PassLate
    BY <1>3, <1>4, NewIsSettled DEF StatusSettled, PassEarly, PassScaled, PassLate, Early, First, Late
  <1> QED BY <1>5, <1>6 DEF ClockInv

\* The memory only adds to the steps of the system.
LEMMA HistoryStep ==
    ASSUME TypeOK, ClockInv, [HistoryNext]_<<vars, history>>
    PROVE  [Next]_vars /\ Remember
  <1>1. CASE HistoryNext
    BY <1>1 DEF HistoryNext
  <1>2. CASE UNCHANGED <<vars, history>>
    <2>1. ~Scaled /\ ~ScaledDown /\ ~Told /\ events' = events
      BY <1>2 DEF vars, clusterVars, Scaled, ScaledDown, Told
    <2>2. events.quota \in BOOLEAN
      BY DEF TypeOK, Events
    <2> QED BY <1>2, <2>1, <2>2 DEF Remember, history, ClockInv, InStep
  <1> QED BY <1>1, <1>2

ClockInvs == TypeOK /\ Copies /\ ClockInv

\* The invariant of the clocks, with types and copies.
LEMMA ClockInvariant ==
    ASSUME ~InformerLag
    PROVE  HistorySpec => []ClockInvs
  <1>1. HistoryInit => ClockInvs
    BY TypeInit, CopiesInit, ClockInit DEF HistoryInit, ClockInvs
  <1>2. ClockInvs /\ [HistoryNext]_<<vars, history>> => ClockInvs'
    BY HistoryStep, TypeStep, CopiesStep, ClockStep DEF ClockInvs
  <1> QED
    BY <1>1, <1>2, PTL DEF HistorySpec

\* No clock goes on when what it measures has ended: hibernation stops the idle
\* clock and the failure clock if the status was told of it, whatever failed
\* and whoever wrote in between, and the latter only runs for a failed session.
THEOREM ClocksAreStopped ==
    ASSUME ~InformerLag
    PROVE  HistorySpec => []ClocksStop
  <1>1. ClockInvs => ClocksStop
    BY DEF ClockInvs, Copies, CacheInv, Dated, FailureTimed, ClocksStop, FailureClockStops,
           ClockInv, StatusSettled, Cleared, HibernatedStatusCleared
  <1> QED
    BY <1>1, ClockInvariant, PTL

\* A session is only deleted for its age when its workload is scaled down and, if
\* the status was told so, has been for maxHibernatedDuration, with whatever
\* event of an exceeded quota.
THEOREM RetentionIsHonoured ==
    ASSUME ~InformerLag
    PROVE  HistorySpec => RetentionHonoured
  <1>1. ASSUME TypeOK, Copies, ClockInv, [Next]_vars, api.exists, ~api.deleting,
               api'.deleting \/ ~api'.exists, ~UserDeletes
        PROVE  /\ sts.replicas = 0
               /\ untold \/ now > scaledAt + culling.maxHibernatedDuration
    <2>1. api \in CustomResource /\ scaledAt \in Nat /\ now \in Nat
          /\ api.status.hibernatedSince \in Nat /\ culling.maxHibernatedDuration \in Nat
      BY <1>1, CRType, CullingAssumption DEF TypeOK, CullingConfig, Status, ClockInv, InStep
    <2>2. Expires
      <3>1. CRStep
        BY <1>1, CopiesStep
      <3>2. api' # api /\ ~Released
        BY <1>1 DEF Released
      <3>3. \A st, b : /\ [api EXCEPT !.status = st].exists /\ ~[api EXCEPT !.status = st].deleting
                       /\ [api EXCEPT !.finalizer = b].exists /\ ~[api EXCEPT !.finalizer = b].deleting
                       /\ [api EXCEPT !.hibernated = b].exists /\ ~[api EXCEPT !.hibernated = b].deleting
        BY <1>1, <2>1 DEF CustomResource
      <3>4. ~WritesStatus /\ ~Hibernates /\ api' # [api EXCEPT !.finalizer = TRUE]
        BY <1>1, <3>3 DEF WritesStatus, Hibernates
      <3>5. ~User
        BY <1>1, <2>1, UserKeeps DEF CustomResource
      <3> QED BY <3>1, <3>2, <3>4, <3>5 DEF CRStep
    <2>3. /\ rec.pc = "finish" /\ api.status.state = "Hibernated"
          /\ now > api.status.hibernatedSince + culling.maxHibernatedDuration
      BY <1>1, <2>2 DEF Expires, NeedsDeletion, Copies, CacheInv, Dated
    <2>4. sts.exists /\ sts.replicas = 0 /\ (~untold => Settled(api.status))
      BY <1>1, <2>3
      DEF Copies, PassInv, StatusKept, ClockInv, PassLate, Late, LateStatus, StatusSettled
    <2>5. ~untold => api.status.hibernatedSince >= scaledAt
      BY <1>1, <2>3, <2>4 DEF Settled, Off, Copies, CacheInv, Dated
    <2> QED BY <2>1, <2>3, <2>4, <2>5
  <1>2. ClockInvs /\ [HistoryNext]_<<vars, history>> =>
          [(api.exists /\ ~api.deleting /\ (api'.deleting \/ ~api'.exists) /\ ~UserDeletes) =>
              /\ sts.replicas = 0
              /\ untold \/ now > scaledAt + culling.maxHibernatedDuration]_vars
    BY <1>1, HistoryStep DEF ClockInvs
  <1> QED
    BY <1>2, ClockInvariant, PTL DEF HistorySpec, RetentionHonoured

\* No clock of an earlier run whose end was told hibernates a session: a workload
\* is given the time of one of its limits.  (maxStartingDuration counts from the
\* creation of the session, and an exceeded quota starts the failure clock of a
\* hibernated one.)
THEOREM NotHibernatedEarly ==
    ASSUME ~InformerLag, culling.maxStartingDuration = 0
    PROVE  HistorySpec => NoEarlyHibernation
  <1>1. ASSUME TypeOK, Copies, ClockInv, [Next]_vars, Culls, sts.replicas = 1, ~untold, ~quotaHit
        PROVE  \/ culling.maxAge > 0 /\ now > CreationTimestamp + culling.maxAge
               \/ \E limit \in {culling.maxIdleDuration, culling.maxStartingDuration,
                                culling.maxFailedDuration} :
                     limit > 0 /\ now > scaledAt + limit
    <2>1. /\ api \in CustomResource /\ scaledAt \in Nat /\ now \in Nat
          /\ rec.obj.status.willHibernateAt \in Nat /\ culling.maxAge \in Nat
          /\ culling.maxIdleDuration \in Nat /\ culling.maxFailedDuration \in Nat
      BY <1>1, CRType, CullingAssumption DEF TypeOK, RecType, CullingConfig, Status, ClockInv, InStep
    <2>2. ~api.hibernated /\ api'.hibernated /\ ~UserHibernates
      BY <1>1 DEF Culls
    <2>3. api.exists /\ Hibernates
      <3>1. CRStep
        BY <1>1, CopiesStep
      <3>2. api' # api
        BY <2>2
      <3>3. \A st, b : /\ [api EXCEPT !.status = st].hibernated = api.hibernated
                       /\ [api EXCEPT !.finalizer = b].hibernated = api.hibernated
        BY <2>1 DEF CustomResource
      <3>4. Gone.hibernated = FALSE /\ Deleted(api).hibernated = FALSE
        <4>1. Gone.hibernated = FALSE
          BY DEF Gone, NewCR
        <4>2. [api EXCEPT !.deleting = TRUE].hibernated = api.hibernated
          BY <2>1 DEF CustomResource
        <4>3. api.hibernated = FALSE
          BY <2>1, <2>2 DEF CustomResource
        <4> QED BY <4>1, <4>2, <4>3 DEF Deleted
      <3>5. ~WritesStatus /\ api' # [api EXCEPT !.finalizer = TRUE] /\ ~Expires /\ ~Released
        BY <2>2, <3>3, <3>4 DEF WritesStatus, Expires, Released
      <3>6. ~User
        <4>1. ~UserDeletes
          BY <2>2, <3>4 DEF UserDeletes, UserWrites, Store
        <4>2. ~UserResumes
          BY <2>1, <2>2 DEF UserResumes, UserWrites, Store, CustomResource
        <4>3. ~UserInteracts
          BY <2>1, <2>2 DEF UserInteracts, UserWrites, Store, CustomResource
        <4> QED BY <2>2, <4>1, <4>2, <4>3 DEF User
      <3> QED BY <3>1, <3>2, <3>5, <3>6 DEF CRStep
    <2>4. /\ rec.pc = "finish"
          /\ needsScaleDown(rec.obj.status.willHibernateAt, now)
      BY <2>3 DEF Hibernates, NeedsHibernation
    <2>5. Justified(rec.obj.status.willHibernateAt)
      BY <1>1, <2>3, <2>4 DEF ClockInv, PassLate, Late, LateStatus
    <2>6. rec.obj.status.willHibernateAt # Zero /\ now > rec.obj.status.willHibernateAt
      BY <2>1, <2>4 DEF needsScaleDown
    <2> QED BY <2>1, <2>5, <2>6 DEF Justified, CreationTimestamp
  <1>2. ClockInvs /\ [HistoryNext]_<<vars, history>> =>
          [Culls /\ sts.replicas = 1 /\ ~untold /\ ~quotaHit =>
             \/ culling.maxAge > 0 /\ now > CreationTimestamp + culling.maxAge
             \/ \E limit \in {culling.maxIdleDuration, culling.maxStartingDuration,
                              culling.maxFailedDuration} :
                   limit > 0 /\ now > scaledAt + limit]_vars
    BY <1>1, HistoryStep DEF ClockInvs
  <1> QED
    BY <1>2, ClockInvariant, PTL DEF HistorySpec, NoEarlyHibernation
=============================================================================
