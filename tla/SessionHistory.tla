--------------------------- MODULE SessionHistory ---------------------------
(***************************************************************************)
(* SessionController with a memory of what the clocks in the status are    *)
(* supposed to measure: when the workload was last scaled, and whether the *)
(* status callback that reports a scaling down has reached the status.     *)
(* The callback is only registered in the pass that scales the StatefulSet *)
(* and is lost with it: when a child fails, the operator restarts, or the  *)
(* status update fails and the one after the second read fails too.        *)
(***************************************************************************)
EXTENDS SessionController

VARIABLES
    scaledAt,  \* when the replicas of sts last changed
    untold,    \* was sts scaled down and no status stored that was told so?
    quotaHit   \* has an exceeded quota been reported?

history == <<scaledAt, untold, quotaHit>>

Scaled == sts'.exists /\ (~sts.exists \/ sts'.replicas # sts.replicas)

ScaledDown == sts.exists /\ Scaled /\ sts'.replicas = 0

\* The status just stored was cleared by the callback of the scaling pass.
Told == /\ rec.pc \in {"status", "retry"} /\ rec'.pc = "finish"
        /\ rec.updates.callback = "hibernated"

Remember ==
    /\ scaledAt' = IF Scaled THEN now ELSE scaledAt
    /\ untold' = (ScaledDown \/ (untold /\ ~Told))
    /\ quotaHit' = (quotaHit \/ events'.quota)

HistoryInit == Init /\ scaledAt = Zero /\ untold = FALSE /\ quotaHit = FALSE

HistoryNext == Next /\ Remember

HistorySpec == HistoryInit /\ [][HistoryNext]_<<vars, history>>

-----------------------------------------------------------------------------
(***************************************************************************)
(* Properties.                                                             *)
(***************************************************************************)

\* A workload that was started or resumed is given the time of at least one
\* of its limits before it is hibernated (maxAge counts from its creation):
\* no clock of an earlier run counts against it, whatever calls fail and users
\* write in between, if the status was told that the earlier run ended and no
\* exceeded quota was reported.
NoEarlyHibernation ==
    [][Culls /\ sts.replicas = 1 /\ ~untold /\ ~quotaHit =>
         \/ culling.maxAge > 0 /\ now > CreationTimestamp + culling.maxAge
         \/ \E limit \in {culling.maxIdleDuration, culling.maxStartingDuration,
                          culling.maxFailedDuration} :
               limit > 0 /\ now > scaledAt + limit]_vars

\* A session is only deleted by the reconciler when its workload is off, and
\* has been for maxHibernatedDuration if the status was told when it ended.
RetentionHonoured ==
    [][(api.exists /\ ~api.deleting /\ (api'.deleting \/ ~api'.exists) /\ ~UserDeletes) =>
         /\ sts.replicas = 0
         /\ untold \/ now > scaledAt + culling.maxHibernatedDuration]_vars

\* The clocks of a run are reset when the session is hibernated and the status
\* is told so.
HibernatedStatusCleared ==
    api.status.state = "Hibernated" /\ ~untold =>
        api.status.idleSince = Zero /\ api.status.failingSince = Zero

\* No clock of a session goes on when what it measures has ended.
ClocksStop == HibernatedStatusCleared /\ FailureClockStops
=============================================================================
