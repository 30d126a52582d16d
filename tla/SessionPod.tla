----------------------------- MODULE SessionPod -----------------------------
(***************************************************************************)
(* From the spec of a session to its pod (Manifests) and on to what the    *)
(* init containers of that pod do on the session's volume (Cloner).        *)
(*                                                                         *)
(* The spec is chosen at the start and forgotten when the pod has been     *)
(* built from it.                                                          *)
(***************************************************************************)
EXTENDS Cloner, Sequences, FiniteSets

M == INSTANCE Manifests

VARIABLES
    spec,   \* the spec of the session
    built   \* what became of it: "no" until a pass has built the pod

podVars == <<vars, spec, built>>

AllSecrets == {"tls", "auth", "remote", "data", "clone", "pull"}

\* The images a/b:t, a/c/b:t and ab/b:t; the second rule is only reached when
\* the first does not match, the third is malformed.
Images == {[path |-> <<"a", "b">>, tag |-> "t"], [path |-> <<"a", "c", "b">>, tag |-> "t"],
           [path |-> <<"ab", "b">>, tag |-> "t"]}

Rules == <<[source |-> <<"a", "c">>, target |-> <<"x">>],
           [source |-> <<"a">>, target |-> <<"y">>],
           [source |-> <<>>, target |-> <<"z">>]>>

AnImage == [path |-> <<"a", "b">>, tag |-> "t"]

\* The choices that matter: a key and the cookie setting for the methods
\* that look at them, a remote secret and data sources where they apply.
Specs ==
    {s \in [type: {"Interactive", "NonInteractive"}, location: {"local", "remote"},
            authentication: {"none", "disabled", "token", "oauth2proxy", "oidc"},
            key: BOOLEAN, noneSameSite: BOOLEAN, stripURLPath: BOOLEAN, ingress: BOOLEAN,
            repositories: {<<>>, <<TRUE>>, <<FALSE, FALSE>>, <<TRUE, FALSE>>, <<TRUE, TRUE>>},
            dataSources: {<<>>, <<"/data">>, <<"/data", "/data">>, <<"/data", "/more">>},
            remoteSecret: BOOLEAN, pullSecrets: BOOLEAN, adopt: {{}, AllSecrets},
            shm: {TRUE}, image: {AnImage}] :
        /\ s.noneSameSite => s.authentication = "token"
        /\ ~s.key => s.authentication \in {"token", "oauth2proxy"}
        /\ s.remoteSecret => s.location = "remote"
        /\ s.dataSources # <<>> => s.location = "local"}

SomeSpec == [type |-> "Interactive", location |-> "local", authentication |-> "none",
             key |-> TRUE, noneSameSite |-> FALSE, stripURLPath |-> FALSE, ingress |-> TRUE,
             repositories |-> <<>>, dataSources |-> <<>>, remoteSecret |-> FALSE,
             pullSecrets |-> FALSE, adopt |-> {}, shm |-> TRUE, image |-> AnImage]

SpecsOfImages == {[SomeSpec EXCEPT !.image = i, !.pullSecrets = b] : i \in Images, b \in BOOLEAN}

PodInit ==
    /\ spec \in Specs \cup SpecsOfImages
    /\ cfg = [command |-> "nostrategy", isGitProxyEnabled |-> FALSE, lfsAutoFetch |-> FALSE,
              isAnonymous |-> FALSE, private |-> {},
              credentials |-> [r \in Repository |-> "none"], clonePath |-> [r \in Repository |-> r]]
    /\ built = "no"
    /\ EmptyVolume

\* The pod cannot be built, and no pass over the session gets any further.
RefusePod ==
    /\ built = "no" /\ M!Pod(spec).error
    /\ built' = "refused" /\ spec' = SomeSpec
    /\ UNCHANGED vars

\* What a container that runs "clone" leaves unused; whether a repository is
\* private only matters when there are no credentials for it.
CloneOnly(c) ==
    /\ ~c.isGitProxyEnabled /\ ~c.lfsAutoFetch /\ ~c.isAnonymous
    /\ \A r \in c.private : c.credentials[r] = "none"

SessionContainers == {c \in CloneConfig : c.command = "notifexist" /\ CloneOnly(c)}

\* Bound: without --config.
UserContainers ==
    {c \in CloneConfig :
        /\ c.command # "notifexist" /\ (c.command # "shell" => CloneOnly(c))
        /\ \A r \in Repository : c.credentials[r] = "none"}

\* The init containers clone the repositories of the spec one by one, with
\* --config for those with a CloningConfigSecretRef, or are an extra one of
\* the user's, who may run any command of the cloner.
InitContainersOf(repositories) ==
    IF repositories = <<>> THEN UserContainers
    ELSE {c \in SessionContainers :
             \A r \in Repository : repositories[r] <=> c.credentials[r] # "none"}

\* The API server refuses a pod in which several repositories have credentials
\* (RepositoriesWithCredentials).  Bound: a session has all Repositories or none.
Runs == Len(spec.repositories) \in {0, Repositories}
        /\ Len(M!Credentialed(spec, Len(spec.repositories))) <= 1

BuildPod ==
    /\ built = "no" /\ ~M!Pod(spec).error
    /\ spec' = SomeSpec
    /\ \/ /\ Runs
          /\ built' = "built"
          /\ cfg' \in InitContainersOf(spec.repositories)
          /\ step' = IF cfg'.command = "shell" THEN "load" ELSE "strategy"
       \/ /\ ~Runs
          /\ built' = "elsewhere" /\ UNCHANGED <<cfg, step>>
    /\ UNCHANGED <<phase, at, user, misread, dir, origin, outer, faults, gaps>>

PodNext ==
    \/ RefusePod \/ BuildPod
    \/ built = "built" /\ Next /\ UNCHANGED <<spec, built>>

PodSpec ==
    /\ PodInit /\ [][PodNext]_podVars
    /\ WF_podVars(built = "built" /\ Container /\ UNCHANGED <<spec, built>>)

-----------------------------------------------------------------------------
\* A repository that cannot be cloned, a failing command or a replaced pod
\* never keep a session with "shell" from starting.  With "clone" and
\* repositories that can be read, only a target that exists does.
SessionStarts ==
    /\ built = "built" /\ phase = "init"
    /\ cfg.command = "shell" \/ \A r \in Repository : Readable(r)
    ~> phase = "started" \/ TargetRefused

-----------------------------------------------------------------------------
(***************************************************************************)
(* Properties of the objects that are built.                               *)
(***************************************************************************)
Built == M!Pod(spec)

Elements(s) == {s[i] : i \in 1 .. Len(s)}

Containers == Elements(Built.initContainers) \cup Elements(Built.containers)

Distinct(s) == \A i, j \in 1 .. Len(s) : s[i] = s[j] => i = j

\* The API server accepts the pod: names are unique, every mount is of a
\* volume of the pod, and no container has two mounts at one path, unless
\* the spec has two data sources at one path or two repositories with
\* credentials (the mounts of which all are at /git-clone-secrets).
PodIsValid ==
    [][BuildPod =>
         /\ Cardinality({c.name : c \in Containers})
              = Len(Built.initContainers) + Len(Built.containers)
         /\ Distinct([i \in 1 .. Len(Built.volumes) |-> Built.volumes[i].name])
         /\ \A c \in Containers :
               /\ \A m \in Elements(c.mounts) :
                     \E v \in Elements(Built.volumes) : v.name = m.volume
               /\ \/ Distinct([i \in 1 .. Len(c.mounts) |-> c.mounts[i].path])
                  \/ ~Distinct(spec.dataSources)
                  \/ Len(M!Credentialed(spec, Len(spec.repositories))) > 1]_podVars

\* The secrets there are: those the spec refers to, and the one made for the
\* session with its keys.
Provided == {"auth", "data", "clone", "none"}

\* The pod starts: all the secrets its containers read are there with the
\* keys they read, except for the oidc method (OidcPodStarts).
SecretsProvided ==
    [][BuildPod /\ (spec.type = "Interactive" => spec.authentication # "oidc") =>
         /\ \A v \in Elements(Built.volumes) : v.secret \in Provided
         /\ \A c \in Containers : \A need \in c.needs :
               \/ need[1] = "remote" /\ spec.remoteSecret
               \/ need[1] = "internal" /\ \E entry \in M!Secret(spec, 1) : entry[1] = need[2]]_podVars

Listeners(port) == {c \in Elements(Built.containers) : port \in c.listens}

\* The containers a request that comes in at a port passes.
Route(port) ==
    LET hop[p \in M!Ports \cup {"none"}, n \in 0 .. 3] ==
          IF n = 0 \/ p = "none" THEN {}
          ELSE Listeners(p) \cup UNION {hop[c.remote, n - 1] : c \in Listeners(p)}
    IN  hop[port, 3]

\* "The ingress and service will point to the authentication container and
\* the authentication proxy container will proxy to this port": requests
\* reach the session's port over containers of the pod of which exactly one
\* authenticates them when authentication is enabled; then their path is
\* stripped when it should be.  Only the tunnel is reached without that.
SessionProtected ==
    [][BuildPod /\ spec.type = "Interactive" =>
         LET route   == Route(M!Service(spec))
             enabled == spec.authentication \in {"token", "oauth2proxy", "oidc"}
         IN  /\ \A c \in route : Cardinality(Listeners(c.remote)) = 1 \/ c.remote = "none"
             /\ \E c \in route : "session" \in c.listens
             /\ Cardinality({c \in route : c.authenticates}) = IF enabled THEN 1 ELSE 0
             /\ enabled => ((\E c \in route : c.strips) <=> spec.stripURLPath)
             /\ \A path \in M!Ingress(spec) : path[2] \in {M!Service(spec), "tunnel"}]_podVars

\* The secrets the objects of the session refer to.
Used ==
    {v.secret : v \in Elements(Built.volumes)}
      \cup UNION {{need[1] : need \in c.needs} : c \in Containers}
      \cup (IF spec.ingress THEN {"tls"} ELSE {})
      \cup (IF spec.pullSecrets THEN {"pull"} ELSE {})

\* No adopted secret is left behind: one that is used by an object of the
\* session is among those that are deleted with it.
UsedSecretsAdopted ==
    [][BuildPod => spec.adopt \cap Used \subseteq M!AdoptedSecrets(spec)]_podVars

\* "Preserve existing random tunnel secret values when updating": the tunnel
\* and the remote job, which read the secret at different times, agree on it
\* however many passes there are between.
TunnelSecretKept ==
    [][BuildPod =>
         LET first  == M!Secret(spec, 1)
             second == M!ReconcileSecret(first, M!Secret(spec, 2))
             third  == M!ReconcileSecret(second, M!Secret(spec, 3))
         IN  \A entry \in third : entry[2] = (IF entry[1] = "WSTUNNEL_SECRET" THEN 1 ELSE 3)]_podVars

\* An image is only rewritten by a rule for a directory it is in, by the first
\* such rule, and keeps its name and tag; one with pull secrets is kept.
ImageRewritten ==
    [][BuildPod =>
         LET new  == M!SessionImage(spec, Rules, spec.image)
             In(i) == \E k \in 2 .. Len(spec.image.path) :
                         SubSeq(spec.image.path, 1, k - 1) = Rules[i].source
         IN  \/ new = spec.image /\ (spec.pullSecrets \/ \A i \in {1, 2} : ~In(i))
             \/ /\ ~spec.pullSecrets
                /\ \E i \in {1, 2} :
                      /\ In(i) /\ \A j \in 1 .. (i - 1) : ~In(j)
                      /\ new.path = Rules[i].target \o M!After(spec.image.path, Rules[i].source)
                      /\ new.tag = spec.image.tag]_podVars

\* The objects made from a spec fit together: the API server accepts the pod,
\* the secrets its containers read are there and stay what they were, those
\* that were adopted go with the session, and its image is the one the rules
\* of the operator's configuration give.
ObjectsFit ==
    PodIsValid /\ SecretsProvided /\ TunnelSecretKept /\ UsedSecretsAdopted /\ ImageRewritten

-----------------------------------------------------------------------------
(***************************************************************************)
(* Statements that do not hold of the code; README.md tells how each of    *)
(* them fails.                                                             *)
(***************************************************************************)

\* "Do not clone if target already exists": a session that asks for the
\* strategy notifexist starts again on the volume of its earlier pods.
ExistingTargetSkipped ==
    /\ built = "built" /\ phase = "init"
    /\ cfg.command = "notifexist" /\ \A r \in Repository : Readable(r)
    ~> phase = "started"
\* "If the type of authentication is 'oidc' then the secret with OAuth
\* configuration ... will be in a format acceptable to oauth2proxy": the
\* secret made under another name than the one that is mounted.
OidcPodStarts ==
    [][BuildPod => \A v \in Elements(Built.volumes) : v.secret \in Provided]_podVars

\* "Will strip the url path defined in URLPath above from all requests that
\* reach the session": only the authentication proxy does.
PathStripped ==
    [][BuildPod /\ spec.type = "Interactive" /\ spec.stripURLPath =>
         \E c \in Route(M!Service(spec)) : c.strips]_podVars

\* Several repositories may have credentials of their own.
RepositoriesWithCredentials ==
    [][BuildPod => \A c \in Elements(Built.initContainers) :
                      Distinct([i \in 1 .. Len(c.mounts) |-> c.mounts[i].path])]_podVars
=============================================================================
