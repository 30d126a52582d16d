------------------------------ MODULE Culling ------------------------------
(***************************************************************************)
(* The hibernation dates of internal/controller/cull.go.  Times are        *)
(* natural numbers; 0 is the zero value of metav1.Time ("never set"), and  *)
(* a duration of 0 switches a limit off.  A culling configuration is a     *)
(* record of the five durations of spec.culling; lastInteraction, the only *)
(* field users keep changing, is passed beside it.                         *)
(***************************************************************************)
EXTENDS Naturals

Zero == 0

CullingConfig == [maxAge: Nat, maxIdleDuration: Nat, maxStartingDuration: Nat,
                  maxFailedDuration: Nat, maxHibernatedDuration: Nat]

\* The zero date when the limit is off or its clock is not running.
DateAfter(start, duration) ==
    IF start # Zero /\ duration > 0 THEN start + duration ELSE Zero

hibernationDateByMaxAge(creationTimestamp, culling) ==
    DateAfter(creationTimestamp, culling.maxAge)

\* Counted from the creation of the custom resource, whatever the run.
hibernationDateByStartingDuration(creationTimestamp, status, culling) ==
    IF status.state = "NotReady"
    THEN DateAfter(creationTimestamp, culling.maxStartingDuration)
    ELSE Zero

hibernationDateByFailingSince(status, culling) ==
    DateAfter(status.failingSince, culling.maxFailedDuration)

\* A last interaction only counts when it is later than a running idle clock.
hibernationDateByIdleSince(status, culling, lastInteraction) ==
    LET lastIdleSince ==
          IF status.idleSince # Zero /\ lastInteraction > status.idleSince
          THEN lastInteraction
          ELSE status.idleSince
    IN  DateAfter(lastIdleSince, culling.maxIdleDuration)

\* One round of the loop of calculateHibernationDate.
Earlier(result, date) ==
    IF result = Zero \/ (date # Zero /\ date < result) THEN date ELSE result

calculateHibernationDate(creationTimestamp, status, culling, lastInteraction) ==
    Earlier(Earlier(Earlier(
        hibernationDateByMaxAge(creationTimestamp, culling),
        hibernationDateByStartingDuration(creationTimestamp, status, culling)),
        hibernationDateByFailingSince(status, culling)),
        hibernationDateByIdleSince(status, culling, lastInteraction))

needsScaleDown(hibernationDate, now) ==
    hibernationDate # Zero /\ hibernationDate < now
=============================================================================
