----------------------------- MODULE Manifests -----------------------------
(***************************************************************************)
(* The Kubernetes objects the operator derives from the spec of a session  *)
(* (api/v1alpha1: amaltheasession_children.go, auth_templates.go and       *)
(* code_repo_templates.go), as far as they have to fit together: who       *)
(* listens where and passes requests on to whom, which volumes are mounted *)
(* where, which secrets are needed, which are made and which are adopted.  *)
(*                                                                         *)
(* A spec is a record; names, images and settings that are only copied     *)
(* from it are left out.  The ports the operator reserves are known by     *)
(* their names.                                                            *)
(***************************************************************************)
EXTENDS Naturals, Sequences

\* authenticatedPort, AuthProxyMetaPort, secondProxyPort, ... and
\* spec.session.port.
Ports == {"authenticated", "meta", "second", "controller", "tunnel", "session"}

\* A container: its mounts, the ports it listens on, the port it passes
\* requests on to, whether it authenticates them and strips their path, and
\* the <<secret, key>> pairs it cannot start without.
Container(name, mounts, listens) ==
    [name |-> name, mounts |-> mounts, listens |-> listens, remote |-> "none",
     authenticates |-> FALSE, strips |-> FALSE, needs |-> {}]

Mount(volume, path) == [volume |-> volume, path |-> path]

\* A volume and the secret it shows, if any.  The names of containers and
\* volumes are numbered where there is one per item of the spec, else 0.
Volume(name, secret) == [name |-> name, secret |-> secret]

NoSecret == "none"

NoManifests == [containers |-> <<>>, volumes |-> <<>>, error |-> FALSE]

\* s[1] \o s[2] \o ... for a sequence of sequences.
Flat(s) ==
    LET f[i \in 0 .. Len(s)] == IF i = 0 THEN <<>> ELSE f[i - 1] \o s[i]
    IN  f[Len(s)]

-----------------------------------------------------------------------------
(***************************************************************************)
(* The parts of the pod.                                                   *)
(***************************************************************************)
SessionVolumes(spec) ==
    [volumes |-> <<Volume(<<"volume", 0>>, NoSecret)>>
                   \o (IF spec.shm THEN <<Volume(<<"dev-shm", 0>>, NoSecret)>> ELSE <<>>),
     mounts |-> <<Mount(<<"volume", 0>>, "/workspace")>>
                   \o (IF spec.shm THEN <<Mount(<<"dev-shm", 0>>, "/dev/shm")>> ELSE <<>>)]

\* Remote sessions get no data sources; the claim of a data source reads
\* the name of its secret, which must be there.
DataSources(spec) ==
    IF spec.location = "remote" THEN [volumes |-> <<>>, mounts |-> <<>>]
    ELSE [volumes |-> [i \in 1 .. Len(spec.dataSources) |-> Volume(<<"ds", i>>, "data")],
          mounts |-> [i \in 1 .. Len(spec.dataSources) |->
                        Mount(<<"ds", i>>, spec.dataSources[i])]]

\* The repositories up to the i-th that come with credentials.
Credentialed(spec, i) == SelectSeq([j \in 1 .. i |-> j], LAMBDA j : spec.repositories[j])

\* Faulty variant: every container mounts credentials.
CloneMountsForgotten(spec, i) == <<Mount(<<"volume", 0>>, "/workspace"),
                                   Mount(<<"git-clone-cred", i>>, "/git-clone-secrets")>>

\* The mounts are collected: a container also gets those of the earlier ones.
CloneMounts(spec, i) ==
    <<Mount(<<"volume", 0>>, "/workspace")>>
      \o [k \in 1 .. Len(Credentialed(spec, i)) |->
            Mount(<<"git-clone-cred", Credentialed(spec, i)[k]>>, "/git-clone-secrets")]

cloneInit(spec) ==
    LET all == Credentialed(spec, Len(spec.repositories))
    IN  [NoManifests EXCEPT
           !.containers = [i \in 1 .. Len(spec.repositories) |->
                             Container(<<"git-clone", i>>, CloneMounts(spec, i), {})],
           !.volumes = [k \in 1 .. Len(all) |-> Volume(<<"git-clone-cred", all[k]>>, "clone")]]

\* The authentication proxy of the sidecars: it authenticates only with the
\* configuration the token method gives it.
get_rewrite_authn_proxy(spec, listenPort) ==
    [Container(<<"authproxy", 0>>, <<>>, {listenPort, "meta"}) EXCEPT
        !.remote = "session", !.strips = spec.stripURLPath]

oauth2Proxy(mounts) ==
    [Container(<<"oauth2-proxy", 0>>, mounts, {"authenticated"}) EXCEPT
        !.remote = "second", !.authenticates = TRUE]

\* With oidc the configuration is mounted from a secret with the session's
\* name; the key of the secret is not used.
auth(spec) ==
    LET enabled == spec.authentication \in {"token", "oauth2proxy", "oidc"}
        config  == <<"proxy-configuration-secret", 0>>
    IN  CASE ~enabled -> NoManifests
          [] enabled /\ spec.authentication # "oidc" /\ ~spec.key ->
               [NoManifests EXCEPT !.error = TRUE]
          [] spec.authentication = "oauth2proxy" /\ spec.key ->
               [NoManifests EXCEPT
                  !.containers = <<oauth2Proxy(<<Mount(config, "/etc/oauth2-proxy")>>),
                                   get_rewrite_authn_proxy(spec, "second")>>,
                  !.volumes = <<Volume(config, "auth")>>]
          [] spec.authentication = "token" /\ spec.key ->
               IF spec.noneSameSite THEN [NoManifests EXCEPT !.error = TRUE]
               ELSE [NoManifests EXCEPT
                       !.containers = <<[get_rewrite_authn_proxy(spec, "authenticated") EXCEPT
                                           !.mounts = <<Mount(config, "/etc/authproxy")>>,
                                           !.authenticates = TRUE]>>,
                       !.volumes = <<Volume(config, "auth")>>]
          [] spec.authentication = "oidc" ->
               [NoManifests EXCEPT
                  !.containers = <<[oauth2Proxy(<<Mount(<<"fixed", 0>>, "/etc/oauth2-proxy"),
                                                  Mount(<<"emails", 0>>, "/authorized_emails")>>)
                                      EXCEPT !.needs = {<<"auth", "all">>}],
                                   get_rewrite_authn_proxy(spec, "second")>>,
                  !.volumes = <<Volume(<<"fixed", 0>>, "session"), Volume(<<"emails", 0>>, "auth")>>]

sessionContainerLocal(mounts) == Container(<<"session", 0>>, mounts, {"session"})

\* The remote session controller; the session's port is served by the
\* tunnel once the remote job has connected to it.
sessionContainerRemote(spec, mounts) ==
    [Container(<<"session", 0>>, mounts, {"controller"}) EXCEPT
        !.needs = {<<"internal", "WSTUNNEL_SECRET">>}
                    \cup (IF spec.remoteSecret THEN {<<"remote", "all">>} ELSE {})]

tunnelContainer ==
    [Container(<<"tunnel", 0>>, <<>>, {"tunnel", "session"}) EXCEPT
        !.needs = {<<"internal", "WSTUNNEL_SECRET">>}]

Pod(spec) ==
    LET authn   == IF spec.type = "NonInteractive" THEN NoManifests ELSE auth(spec)
        mounts  == SessionVolumes(spec).mounts \o DataSources(spec).mounts
        session == IF spec.location = "remote" THEN sessionContainerRemote(spec, mounts)
                                               ELSE sessionContainerLocal(mounts)
    IN  [error |-> authn.error,
         initContainers |-> cloneInit(spec).containers,
         containers |-> <<session>> \o authn.containers
                          \o (IF spec.location = "remote" THEN <<tunnelContainer>> ELSE <<>>),
         volumes |-> Flat(<<SessionVolumes(spec).volumes, cloneInit(spec).volumes,
                            DataSources(spec).volumes, authn.volumes>>)]

-----------------------------------------------------------------------------
(***************************************************************************)
(* The other objects.                                                      *)
(***************************************************************************)

\* Faulty variant: straight to the session.
ServiceUnprotected(spec) == "session"

\* The target of the port the ingress points to.
Service(spec) ==
    IF spec.authentication \in {"token", "oauth2proxy", "oidc"} THEN "authenticated" ELSE "session"

\* The paths of the ingress and the ports they lead to; "/" stands for the
\* path prefix.
Ingress(spec) ==
    IF spec.type = "NonInteractive" \/ ~spec.ingress THEN {}
    ELSE {<<"/", Service(spec)>>}
           \cup (IF spec.location = "remote" THEN {<<"/__amalthea__/tunnel", "tunnel">>} ELSE {})

\* Faulty variant: only interactive authentication is thought of.
SecretWithoutTunnel(spec, drawn) ==
    IF spec.authentication = "oidc" THEN {<<"oauth2-proxy-config.yaml", drawn>>} ELSE {}

\* The keys of the secret made for the session; drawn is its random value.
Secret(spec, drawn) ==
    (IF spec.location = "remote" THEN {<<"WSTUNNEL_SECRET", drawn>>} ELSE {})
      \cup (IF spec.authentication = "oidc" THEN {<<"oauth2-proxy-config.yaml", drawn>>} ELSE {})

\* Faulty variant: a pass overwrites the secret.
ReconcileSecretAll(current, desired) == desired

\* A pass with the strategy "always" over a secret that exists.
ReconcileSecret(current, desired) ==
    LET tunnel == {entry \in current : entry[1] = "WSTUNNEL_SECRET"}
    IN  IF tunnel = {} THEN desired
        ELSE tunnel \cup {entry \in desired : entry[1] # "WSTUNNEL_SECRET"}

\* Faulty variant: the secrets of the repositories are left out.
AdoptedSecretsFew(spec) ==
    {s \in spec.adopt :
        \/ s = "tls" /\ spec.ingress
        \/ s = "auth" /\ spec.authentication \in {"token", "oauth2proxy", "oidc"}
        \/ s = "remote" /\ spec.remoteSecret
        \/ s = "data" /\ spec.dataSources # <<>>}

\* The secrets to be deleted with the session.
AdoptedSecrets(spec) ==
    {s \in spec.adopt :
        \/ s = "tls" /\ spec.ingress
        \/ s = "auth" /\ spec.authentication \in {"token", "oauth2proxy", "oidc"}
        \/ s = "remote" /\ spec.remoteSecret
        \/ s = "data" /\ spec.dataSources # <<>>
        \/ s = "clone" /\ \E i \in 1 .. Len(spec.repositories) : spec.repositories[i]
        \/ s = "pull"}

-----------------------------------------------------------------------------
(***************************************************************************)
(* The rules that rewrite the image of a session.  The domain and path of  *)
(* an image and the prefixes of a rule are sequences of the names between  *)
(* slashes: a rule only matches up to a slash, never within a name.        *)
(***************************************************************************)
After(s, prefix) == SubSeq(s, Len(prefix) + 1, Len(s))

\* Malformed rules are skipped.
ruleMatches(rule, domainAndPath) ==
    /\ rule.source # <<>> /\ rule.target # <<>>
    /\ Len(rule.source) < Len(domainAndPath)
    /\ SubSeq(domainAndPath, 1, Len(rule.source)) = rule.source

\* The tag and the digest stay.
Rewrite(rules, image) ==
    LET matching == {i \in 1 .. Len(rules) : ruleMatches(rules[i], image.path)}
        rule     == rules[CHOOSE i \in matching : \A j \in matching : i <= j]
    IN  IF matching = {} THEN image
        ELSE [image EXCEPT !.path = rule.target \o After(@, rule.source)]

\* Images that need credentials are left alone.
SessionImage(spec, rules, image) == IF spec.pullSecrets THEN image ELSE Rewrite(rules, image)
=============================================================================
