------------------------ MODULE MCSessionController ------------------------
(***************************************************************************)
(* Instances of SessionController for TLC, with its refinement mapping.    *)
(***************************************************************************)
EXTENDS SessionRefinement, TLC

\* Limits per run: 0 switches a limit off.
NoCulling == [maxAge |-> 0, maxIdleDuration |-> 0, maxStartingDuration |-> 0,
              maxFailedDuration |-> 0, maxHibernatedDuration |-> 0]

IdleCulling == [NoCulling EXCEPT !.maxIdleDuration = 1]

RetentionCulling == [NoCulling EXCEPT !.maxHibernatedDuration = 1]

FailedAndRetentionCulling ==
    [RetentionCulling EXCEPT !.maxFailedDuration = 1]

RunIDSymmetry == Permutations(RunIDs)
=============================================================================
