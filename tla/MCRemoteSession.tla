-------------------------- MODULE MCRemoteSession --------------------------
(***************************************************************************)
(* Instances of RemoteSidecar for TLC.                                     *)
(***************************************************************************)
EXTENDS RemoteSidecar, TLC

Scratch(path, default) == [path |-> path, dataType |-> "Scratch", defaultWorkDir |-> default]

Home == [path |-> "/users", dataType |-> "Users", defaultWorkDir |-> FALSE]

\* A default scratch file system, none that is the default, no scratch at all;
\* bound: the session keeps its directory over restarts.
ClusterFileSystems ==
    {<<Scratch("/scratch", TRUE), Scratch("/capstor", FALSE)>>,
     <<Scratch("/capstor", FALSE), Scratch("/scratch", FALSE)>>,
     <<Home, Home>>}

JobSymmetry == Permutations(JobIDs) \cup Permutations(Repositories)
=============================================================================
