--------------------------- MODULE RemoteSidecar ---------------------------
(***************************************************************************)
(* The sidecar of a remote session as a whole                              *)
(* (internal/remote/server/server.go, controller/controller.go): the       *)
(* process validates its configuration and creates the controller of the   *)
(* backend that it selects, FirecREST (module RemoteSession) or Run:ai     *)
(* (module RunaiSession), on the same volume and behind the same HTTP      *)
(* endpoints.                                                              *)
(***************************************************************************)
EXTENDS RemoteSession, RemoteConfig

VARIABLES
    cfg,    \* the configuration, forgotten once the controller is created
    kind    \* the backend, "exit" when there is none

sidecarVars == <<kind, cfg, main, tick, c, file, job, ctxDone, gaps, site>>

Runai == INSTANCE RunaiSession

NoConfig == [auth |-> "", probe |-> "none", set |-> {}]

SidecarTypeOK ==
    /\ cfg \in Configs
    /\ kind \in {"unknown", "firecrest", "runai", "exit"}
    /\ IF kind = "runai" THEN Runai!TypeOK ELSE TypeOK

SidecarInit == Init /\ cfg \in Configs /\ kind = "unknown"

\* Faulty variant: one complete group of settings is enough.
NewRemoteSessionControllerLax ==
    /\ kind = "unknown"
    /\ kind' = IF "systemName" \in cfg.set THEN "firecrest" ELSE "runai"
    /\ IF kind' = "runai"
       THEN c' = Runai!NewController /\ tick' = "wait" /\ file' = Runai!NoFile
       ELSE UNCHANGED <<c, tick, file>>
    /\ cfg' = NoConfig
    /\ UNCHANGED <<main, job, ctxDone, gaps, site>>

\* Validate and NewRemoteSessionController: an error of either is os.Exit(1).
NewRemoteSessionController ==
    /\ kind = "unknown"
    /\ kind' = IF Created(cfg) THEN RemoteKind(cfg) ELSE "exit"
    /\ IF kind' = "runai"
       THEN c' = Runai!NewController /\ tick' = "wait" /\ file' = Runai!NoFile
       ELSE UNCHANGED <<c, tick, file>>
    /\ cfg' = NoConfig
    /\ UNCHANGED <<main, job, ctxDone, gaps, site>>

Controller ==
    \/ kind = "firecrest" /\ Next
    \/ kind = "runai" /\ Runai!Next /\ UNCHANGED site

SidecarNext ==
    \/ NewRemoteSessionController
    \/ Controller /\ UNCHANGED <<cfg, kind>>

SidecarSpec == SidecarInit /\ [][SidecarNext]_sidecarVars

-----------------------------------------------------------------------------
\* A backend runs in a state it knows, and its session has one job at a time,
\* over all its restarts, unless a job was lost track of.
SidecarInv == SidecarTypeOK /\ SingleJob

\* A backend is only chosen when everything its controller, its API client
\* and its authentication read has a value, whatever is left over in the
\* configuration of the other one.
ConfigurationSuffices ==
    [][kind = "unknown" /\ kind' \in {"firecrest", "runai"}
         => Needed(kind', cfg.auth) \subseteq cfg.set]_sidecarVars

\* A FirecREST session that is told to stop leaves no job behind.
FirecrestStopLeavesNoJob == [][kind = "firecrest" => LeavesNoJob]_sidecarVars

\* A job that a FirecREST session submits finds its files.
FirecrestJobFindsItsFiles == [][kind = "firecrest" => JobFindsItsFiles]_sidecarVars

\* Statements of comments that do not hold (see RemoteSession, RunaiSession).
FirecrestLogPathsKnown == kind = "firecrest" => LogPathsKnown

\* "Stop stops the remote session using the Runai API": no workspace is left.
RunaiStopLeavesNoJob ==
    [][kind = "runai" /\ (Runai!Stop \/ Runai!DeleteWorkspace) /\ main' = "down" /\ gaps' = {}
         => \A j \in JobIDs : job'[j] # "RUNNING"]_sidecarVars
=============================================================================
