------------------------- MODULE MCSessionHistory -------------------------
(***************************************************************************)
(* An instance of SessionHistory for TLC.                                  *)
(***************************************************************************)
EXTENDS SessionHistory, TLC

\* Limits; 0 switches one off.
IdleFailedRetention ==
    [maxAge |-> 0, maxIdleDuration |-> 1, maxStartingDuration |-> 0,
     maxFailedDuration |-> 1, maxHibernatedDuration |-> 1]

RunIDSymmetry == Permutations(RunIDs)
=============================================================================
