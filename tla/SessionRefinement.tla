------------------------- MODULE SessionRefinement -------------------------
(***************************************************************************)
(* The reconciler and its cluster (SessionController) implement the life   *)
(* of a session (SessionLifecycle): the custom resource on the API server  *)
(* is the session, whatever the copies of it say.                          *)
(***************************************************************************)
EXTENDS SessionController

Life == INSTANCE SessionLifecycle WITH
    phase <- IF ~api.exists THEN "gone" ELSE IF api.deleting THEN "deleting" ELSE "active",
    holding <- api.finalizer,
    hibernated <- api.hibernated,
    run <- api.status.runID

\* However stale the copies of a pass are, whatever calls fail and whenever
\* the operator restarts, each of its writes is one step in the life of a
\* session: no run replaces another one without an end, a session that is
\* being deleted is not brought back, resumed or released while an adopted
\* secret is left, and no secret is deleted before that.
ImplementsLifecycle == Life!LifeSpec
=============================================================================
