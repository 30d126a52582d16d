---------------------------- MODULE RemoteConfig ----------------------------
(***************************************************************************)
(* The configuration of the remote session sidecar                         *)
(* (internal/remote/config): which settings a backend needs, and which     *)
(* backend a configuration selects.  A configuration is the kind of        *)
(* authentication, the readiness probe and the set of settings with a      *)
(* value; URLs are assumed to parse.                                       *)
(***************************************************************************)

AuthKinds == {"", "renku", "renku_v2", "client_credentials", "other"}

ReadinessProbeTypes == {"none", "tcp", "http"}

Settings == {"firecrestAPIURL", "systemName", "tokenURI", "renkuAccessToken",
             "renkuRefreshToken", "renkuTokenURI", "renkuClientID", "renkuClientSecret",
             "firecrestClientID", "firecrestClientSecret",
             "runaiBaseURL", "runaiProject", "runaiClientID", "runaiClientSecret"}

Configs == [auth: AuthKinds, probe: ReadinessProbeTypes \cup {"other"}, set: SUBSET Settings]

validateRenku(cfg) ==
    {"tokenURI", "renkuRefreshToken", "renkuTokenURI", "renkuClientID", "renkuClientSecret"}
        \subseteq cfg.set

validateRenkuV2(cfg) ==
    {"tokenURI", "renkuAccessToken", "renkuRefreshToken", "renkuTokenURI"} \subseteq cfg.set

validateClientCredentials(cfg) ==
    {"tokenURI", "firecrestClientID", "firecrestClientSecret"} \subseteq cfg.set

ValidFirecrestAuth(cfg) ==
    \/ cfg.auth = "renku" /\ validateRenku(cfg)
    \/ cfg.auth = "renku_v2" /\ validateRenkuV2(cfg)
    \/ cfg.auth = "client_credentials" /\ validateClientCredentials(cfg)

ValidFirecrest(cfg) == {"firecrestAPIURL", "systemName"} \subseteq cfg.set /\ ValidFirecrestAuth(cfg)

\* Its token URI is made from the base URL.
ValidRunaiAuth(cfg) ==
    cfg.auth = "client_credentials" /\ {"runaiClientID", "runaiClientSecret"} \subseteq cfg.set

ValidRunai(cfg) == "runaiBaseURL" \in cfg.set /\ ValidRunaiAuth(cfg)

Valid(cfg) == cfg.probe \in ReadinessProbeTypes /\ (ValidFirecrest(cfg) \/ ValidRunai(cfg))

\* FirecREST has priority, also over a valid configuration of Run:ai.
RemoteKind(cfg) == IF ValidFirecrest(cfg) THEN "firecrest" ELSE "runai"

\* The constructors check the rest: Run:ai needs a project.
Created(cfg) == Valid(cfg) /\ (RemoteKind(cfg) = "runai" => "runaiProject" \in cfg.set)

-----------------------------------------------------------------------------
\* What the authentication and the API client of a backend read.
Needed(kind, auth) ==
    CASE kind = "runai" -> {"runaiBaseURL", "runaiProject", "runaiClientID", "runaiClientSecret"}
      [] kind = "firecrest" /\ auth = "client_credentials" ->
            {"firecrestAPIURL", "systemName", "tokenURI", "firecrestClientID", "firecrestClientSecret"}
      [] kind = "firecrest" /\ auth = "renku" ->
            {"firecrestAPIURL", "systemName", "tokenURI", "renkuRefreshToken", "renkuTokenURI",
             "renkuClientID", "renkuClientSecret"}
      [] OTHER ->
            {"firecrestAPIURL", "systemName", "tokenURI", "renkuAccessToken", "renkuRefreshToken",
             "renkuTokenURI"}
=============================================================================
