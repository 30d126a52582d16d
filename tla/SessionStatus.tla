--------------------------- MODULE SessionStatus ---------------------------
(***************************************************************************)
(* What one reconciliation pass writes into the status of an interactive   *)
(* session: ChildResourceUpdates.Status (internal/controller/children.go)  *)
(* and what it calls.  The inputs are                                      *)
(*   cr      the custom resource as the pass read it,                      *)
(*   updates what reconciling the StatefulSet returned: the replicas of    *)
(*           the manifest and which status callback was registered,        *)
(*   pod     the session pod, see Pod,                                     *)
(*   events  the Kubernetes events about the pod and the StatefulSet,      *)
(*   cpu     the idle decision drawn from the metrics server,              *)
(*   ingress whether the ingress exists.                                   *)
(***************************************************************************)
EXTENDS Culling

CONSTANTS
    culling,          \* spec.culling without lastInteraction
    maxWaitForClearFailedScheduling,
    RunIDs,           \* the ULIDs that can be drawn
    NoRun             \* the empty run ID

ASSUME CullingAssumption == culling \in CullingConfig
ASSUME WaitAssumption == maxWaitForClearFailedScheduling \in Nat
ASSUME NoRunAssumption == NoRun \notin RunIDs

RunID == RunIDs \cup {NoRun}

State == {"Running", "Failed", "Hibernated", "NotReady"}

Status == [state: State, idle: BOOLEAN, idleSince: Nat, failingSince: Nat,
           failedSchedulingSince: Nat, hibernatedSince: Nat,
           willHibernateAt: Nat, runID: RunID, routingReady: BOOLEAN,
           url: BOOLEAN]

\* The status the API server defaults a new custom resource to; url says
\* whether the first status update has rendered the URL.
NewStatus == [state |-> "NotReady", idle |-> FALSE, idleSince |-> Zero,
              failingSince |-> Zero, failedSchedulingSince |-> Zero,
              hibernatedSince |-> Zero, willHibernateAt |-> Zero,
              runID |-> NoRun, routingReady |-> FALSE, url |-> FALSE]

\* The pod as the pass sees it.  A "fresh" pod is ready but its session
\* container is younger than freshContainerMinimalAge; a "failing" pod has
\* a container, or the session a child, that failureMessage reports.
PodPhase == {"none", "pending", "fresh", "running", "failing", "terminating"}

\* podEvent is the later of the Scheduled and FailedScheduling events of
\* the pod name, quota a FailedCreate event about an exceeded quota.
Events == [podEvent: {"none", "Scheduled", "FailedScheduling"}, quota: BOOLEAN]

IdleDecision == {"Unknown", "Idle", "NotIdle"}

Callback == {"none", "resumed", "hibernated"}

failureMessage(pod) == pod = "failing"

IsRunning(pod) == pod \in {"fresh", "running"}

\* ChildResourceUpdates.State: the cases in the order of the code's switch.
StateOf(cr, updates, pod) ==
    IF cr.deleting THEN "NotReady"
    ELSE IF cr.hibernated /\ updates.replicas = 0 THEN "Hibernated"
    ELSE IF failureMessage(pod) THEN "Failed"
    ELSE IF IsRunning(pod) THEN "Running"
    ELSE "NotReady"

\* Faulty variant: the waiting time is never compared with the limit.
EventsInferedStateNeverFails(cr, events, now) ==
    CASE events.podEvent = "Scheduled" -> "Scheduled"
      [] events.podEvent = "none" -> "None"
      [] OTHER -> IF cr.status.failedSchedulingSince = Zero
                  THEN "Initially Failed" ELSE "Temporary Failed"

\* The events of the pod name, whichever pod of that name they are about.
EventsInferedState(cr, events, now) ==
    LET since == cr.status.failedSchedulingSince
    IN  CASE events.podEvent = "Scheduled" -> "Scheduled"
          [] events.podEvent = "none" -> "None"
          [] events.podEvent = "FailedScheduling" /\ since = Zero -> "Initially Failed"
          [] OTHER -> IF since + maxWaitForClearFailedScheduling <= now
                      THEN "Finally Failed" ELSE "Temporary Failed"

\* The start of the scheduling problem and the state they lead to.
checkEventsInferedState(cr, state, events, now) ==
    LET since  == cr.status.failedSchedulingSince
        result == IF state = "NotReady" THEN EventsInferedState(cr, events, now)
                                        ELSE "None"
    IN  [state |-> IF result = "Finally Failed" THEN "Failed" ELSE state,
         failedSchedulingSince |->
             CASE result = "Initially Failed" -> now
               [] result = "Scheduled" -> Zero
               [] OTHER -> since]

\* Faulty variant: the clock is never stopped.
SinceForever(holds, since, now) == IF holds /\ since = Zero THEN now ELSE since

\* A clock that starts when a condition begins to hold and stops with it.
Since(holds, since, now) ==
    IF ~holds THEN Zero ELSE IF since = Zero THEN now ELSE since

\* Faulty variant: the date is left to the status callback.
HibernatedSinceByCallback(cr, now) == cr.status.hibernatedSince

HibernatedSince(cr, now) == Since(cr.hibernated, cr.status.hibernatedSince, now)

\* getIdleState is only asked about a running pod whose container is old
\* enough; anything but a low CPU reading, a missing one included, resets it.
getIdleState(cr, state, pod, cpu, now) ==
    IF state = "Running" /\ pod = "running"
    THEN [idle |-> cpu = "Idle", since |-> Since(cpu = "Idle", cr.status.idleSince, now)]
    ELSE [idle |-> FALSE, since |-> cr.status.idleSince]

\* The RoutingReady condition: set once the ingress exists, never unset
\* while the custom resource asks for an ingress.
RoutingReady(cr, ingress) == cr.status.routingReady \/ ingress

\* Faulty variants: the callback forgets a clock; nothing is called back.
statusCallbackKeepsIdle(callback, status, now) ==
    IF callback = "none"
    THEN status
    ELSE [status EXCEPT !.failingSince = Zero, !.failedSchedulingSince = Zero,
                        !.hibernatedSince = IF callback = "hibernated" THEN now ELSE Zero]
statusCallbackDropped(callback, status, now) == status

\* The status callback of the StatefulSet, applied last.
statusCallback(callback, status, now) ==
    IF callback = "none"
    THEN status
    ELSE [status EXCEPT !.idleSince = Zero, !.failingSince = Zero,
                        !.failedSchedulingSince = Zero,
                        !.hibernatedSince = IF callback = "hibernated" THEN now ELSE Zero]

StatusOf(cr, updates, pod, events, cpu, ingress, creationTimestamp, now) ==
    LET inferred == checkEventsInferedState(cr, StateOf(cr, updates, pod), events, now)
        idle     == getIdleState(cr, inferred.state, pod, cpu, now)
        state    == IF pod = "none" /\ events.quota THEN "Failed" ELSE inferred.state
    IN  statusCallback(updates.callback,
          [state |-> state,
           idle |-> idle.idle,
           idleSince |-> idle.since,
           failingSince |-> Since(state = "Failed", cr.status.failingSince, now),
           failedSchedulingSince |->
               IF state \in {"Hibernated", "Running"} THEN Zero
                                                      ELSE inferred.failedSchedulingSince,
           hibernatedSince |-> HibernatedSince(cr, now),
           willHibernateAt |-> calculateHibernationDate(creationTimestamp, cr.status,
                                                        culling, cr.lastInteraction),
           runID |-> cr.status.runID,
           routingReady |-> RoutingReady(cr, ingress),
           url |-> TRUE],
          now)

\* Faulty variants: any state, a limit one tick early, a limit read inversely.
NeedsDeletionAnyState(cr, now) ==
    /\ culling.maxHibernatedDuration > 0
    /\ \/ cr.status.hibernatedSince = Zero
       \/ now > cr.status.hibernatedSince + culling.maxHibernatedDuration
NeedsDeletionEarly(cr, now) ==
    /\ cr.status.state = "Hibernated"
    /\ culling.maxHibernatedDuration > 0
    /\ now >= cr.status.hibernatedSince + culling.maxHibernatedDuration
NeedsDeletionInverted(cr, now) ==
    /\ cr.status.state = "Hibernated"
    /\ culling.maxHibernatedDuration = 0

NeedsDeletion(cr, now) ==
    /\ cr.status.state = "Hibernated"
    /\ culling.maxHibernatedDuration > 0
    /\ \/ cr.status.hibernatedSince = Zero    \* the zero time is centuries ago
       \/ now > cr.status.hibernatedSince + culling.maxHibernatedDuration
=============================================================================
