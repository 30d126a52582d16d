------------------------------ MODULE GitProxy ------------------------------
(***************************************************************************)
(* The git HTTPS proxy (internal/git-https-proxy: root.go, proxy/proxy.go, *)
(* config/config.go) on top of its token store.  A request passes the      *)
(* handlers of the configured repositories in their order; the ones that   *)
(* match ask the token store for the token of their provider and put it    *)
(* into the Authorization header, and the first error is answered with     *)
(* 401.  What is left goes to its host as it is.                           *)
(*                                                                         *)
(* A URL has a host name that begins with "www." or not, a port that may   *)
(* be missing, and a path cut into pieces so that one string is a prefix   *)
(* of another when its pieces are.                                         *)
(***************************************************************************)
EXTENDS TokenStore, Sequences, SequencesExt

CONSTANTS
    Repositories,  \* the configured repositories, in their order
    URLs,          \* the URLs that are requested; bound
    Settings       \* the configurations the proxy is started with; bound

ASSUME RepositoriesAssumption == Repositories \in Seq(Range(Repositories))

VARIABLES
    mode,     \* what the process does
    url,      \* the URL of every request, NoURL between two requests
    handler,  \* the handler every request is at
    header    \* the Authorization header of every request: the provider of its token

proxyVars == <<mode, url, handler, header>>
gitProxyVars == <<vars, proxyVars>>

NoURL == [scheme |-> "none", www |-> FALSE, host |-> "", port |-> "", path |-> <<>>]

NoHeader == ""

\* AnonymousSession, RenkuAuthenticationVersion, the settings with a value,
\* and RefreshCheckPeriodSeconds.
TokenSettings == {"access_token", "refresh_token", "url", "realm", "client_id", "client_secret",
                  "token_url"}

validateRenkuAuthenticationV2(cfg) == {"access_token", "refresh_token", "token_url"} \subseteq cfg.set

Validate(cfg) ==
    \/ cfg.anonymous
    \/ cfg.v2 /\ validateRenkuAuthenticationV2(cfg)
    \/ ~cfg.v2 /\ TokenSettings \ {"token_url"} \subseteq cfg.set /\ cfg.period > 0

ProxyInit ==
    /\ Init
    /\ mode = "starting"
    /\ url = [r \in Requests |-> NoURL]
    /\ handler = [r \in Requests |-> 1]
    /\ header = [r \in Requests |-> NoHeader]

-----------------------------------------------------------------------------
(***************************************************************************)
(* Which requests a repository is responsible for.                         *)
(***************************************************************************)
getPort(u) == CASE u.port # "" -> u.port
                [] u.port = "" /\ u.scheme = "http" -> "80"
                [] OTHER -> "443"

\* With and without "www." on either side.
hostsMatch(u, v) == u.host = v.host

\* ReqHostIs: the host as configured or with "www." before it, without a port
\* or with 443.  Only these connections are eavesdropped on.
conditions(u, repoURL) ==
    hostsMatch(u, repoURL) /\ (repoURL.www => u.www) /\ u.port \in {"", "443"}

\* Faulty variant: the path alone decides.
validGitRequestByPath(u, repoURL) == IsPrefix(repoURL.path, u.path)

validGitRequest(u, repoURL) ==
    /\ u.scheme = repoURL.scheme
    /\ hostsMatch(u, repoURL)
    /\ getPort(u) = getPort(repoURL)
    /\ IsPrefix(repoURL.path, u.path)

\* The repositories that have a handler: not those without a provider, or with
\* one that is not configured.
GetProxyHandler == {i \in DOMAIN Repositories : Repositories[i].provider \in Providers \ {""}}

\* Behind the last handler.
End == Len(Repositories) + 1

ProxyTypeOK ==
    /\ TypeOK
    /\ mode \in {"starting", "anonymous", "serving", "closing", "exit", "panic"}
    /\ url \in [Requests -> URLs \cup {NoURL}]
    /\ handler \in [Requests -> 1 .. End]
    /\ header \in [Requests -> Providers \cup {NoHeader}]

Handles(repo, u) == conditions(u, repo.url) /\ validGitRequest(u, repo.url)

-----------------------------------------------------------------------------
\* The configuration is read and checked; the ticker of the token store
\* panics when its period is zero.
gitproxy(cfg) ==
    /\ mode = "starting" /\ cfg.v2 = v2
    /\ mode' = CASE ~Validate(cfg) -> "exit"
                 [] cfg.anonymous -> "anonymous"
                 [] Validate(cfg) /\ ~cfg.anonymous /\ cfg.period = 0 -> "panic"
                 [] OTHER -> "serving"
    /\ UNCHANGED <<vars, url, handler, header>>

\* SIGTERM: no new requests.
Shutdown ==
    /\ mode \in {"anonymous", "serving"}
    /\ mode' = "closing"
    /\ UNCHANGED <<vars, url, handler, header>>

\* Shutdown waits for the requests under way, but not for the hijacked
\* connections, which are all the HTTPS ones: they end with the process.
Exit ==
    /\ mode = "closing"
    /\ \A r \in Requests : url[r].scheme # "http"
    /\ mode' = "exit"
    /\ url' = [r \in Requests |-> NoURL]
    /\ handler' = [r \in Requests |-> 1]
    /\ header' = [r \in Requests |-> NoHeader]
    /\ UNCHANGED vars

\* The handlers a request does not match let it through; the next one that
\* it matches, or the end.
NextHandler(u, from) ==
    LET matching == {i \in GetProxyHandler : i >= from /\ Handles(Repositories[i], u)}
    IN IF matching = {} THEN End ELSE Min(matching)

Receive(r, u) ==
    /\ mode \in {"anonymous", "serving"}
    /\ url[r] = NoURL
    /\ url' = [url EXCEPT ![r] = u]
    /\ handler' = [handler EXCEPT ![r] = IF mode = "anonymous" THEN End
                                         ELSE NextHandler(u, 1)]
    /\ UNCHANGED <<vars, mode, header>>

AskForToken(r) ==
    /\ url[r] # NoURL /\ pc[r] = "idle" /\ handler[r] < End
    /\ GetGitAccessToken(r, Repositories[handler[r]].provider)
    /\ UNCHANGED proxyVars

Finish(r) ==
    /\ url' = [url EXCEPT ![r] = NoURL]
    /\ handler' = [handler EXCEPT ![r] = 1]
    /\ header' = [header EXCEPT ![r] = NoHeader]
    /\ UNCHANGED mode

\* Faulty variant: an error is taken for no answer, and the next handler asked.
TokenStepLenient(r) ==
    /\ pc[r] # "idle" /\ Work(r)
    /\ \/ pc'[r] # "idle" /\ UNCHANGED proxyVars
       \/ /\ pc'[r] = "idle"
          /\ header' = IF ReadToken(r)
                       THEN [header EXCEPT ![r] = provider[r]]
                       ELSE header
          /\ handler' = [handler EXCEPT ![r] = NextHandler(url[r], @ + 1)]
          /\ UNCHANGED <<mode, url>>

\* The token store works for a request; its token replaces the one of an
\* earlier handler, its error is answered with 401.
TokenStep(r) ==
    /\ pc[r] # "idle"
    /\ \/ Work(r) /\ pc'[r] # "idle" /\ UNCHANGED proxyVars
       \/ /\ ReadToken(r)
          /\ header' = [header EXCEPT ![r] = provider[r]]
          /\ handler' = [handler EXCEPT ![r] = NextHandler(url[r], @ + 1)]
          /\ UNCHANGED <<mode, url>>
       \/ Work(r) /\ pc[r] # "read" /\ pc'[r] = "idle" /\ Finish(r)

Forward(r) ==
    /\ url[r] # NoURL /\ pc[r] = "idle" /\ handler[r] = End
    /\ Finish(r)
    /\ UNCHANGED vars

Handle(r) ==
    /\ mode \in {"anonymous", "serving", "closing"}
    /\ AskForToken(r) \/ TokenStep(r) \/ Forward(r)

RefresherStep == mode \in {"serving", "closing"} /\ Work(Refresher) /\ UNCHANGED proxyVars

ProxyNext ==
    \/ \E cfg \in Settings : gitproxy(cfg)
    \/ Shutdown \/ Exit
    \/ \E r \in Requests, u \in URLs : Receive(r, u)
    \/ \E r \in Requests : Handle(r)
    \/ RefresherStep
    \/ mode = "serving" /\ Expire /\ UNCHANGED proxyVars

ProxySpec == ProxyInit /\ [][ProxyNext]_gitProxyVars

\* Goroutines run; sync.RWMutex lets everyone in who waits for it.
FairProxySpec ==
    /\ ProxySpec
    /\ \A r \in Requests : SF_gitProxyVars(Handle(r))
    /\ SF_gitProxyVars(RefresherStep)

-----------------------------------------------------------------------------
\* The repositories a request may carry the token of: same scheme, same host
\* but for "www.", same port, a path below.
Below(u, repoURL) ==
    /\ u.scheme = repoURL.scheme /\ u.host = repoURL.host /\ IsPrefix(repoURL.path, u.path)
    /\ getPort(u) = getPort(repoURL)

\* The state of the proxy is well-formed at every handler a request passes,
\* and its refresh token is used once and kept.
ProxyInv == ProxyTypeOK /\ RefreshTokenSafe

\* "in all other cases we leave the request alone": the token of a provider
\* leaves the proxy only in a request to one of that provider's repositories,
\* whichever handlers the request passed and whoever refreshed the token.
TokenStaysWithProvider ==
    [][\A r \in Requests : Forward(r) /\ header[r] # NoHeader =>
          \E i \in DOMAIN Repositories :
              /\ Repositories[i].provider = header[r]
              /\ Below(url[r], Repositories[i].url)]_gitProxyVars

\* A request to a repository with a handler leaves the proxy with a token or
\* it does not leave it, also when the first of two handlers found one: the
\* error of a token store is never an unauthenticated request.
AuthenticatedOrRefused ==
    [][\A r \in Requests :
         Forward(r) /\ mode = "serving" /\ (\E i \in GetProxyHandler : Handles(Repositories[i], url[r]))
            => header[r] # NoHeader]_gitProxyVars

\* Every request is answered, also while others refresh and when calls fail,
\* unless the process ends.
RequestsAnswered == \A r \in Requests : url[r] # NoURL ~> url[r] = NoURL

-----------------------------------------------------------------------------
(***************************************************************************)
(* Statements that do not hold of the code; README.md tells why.           *)
(***************************************************************************)

\* "ensure www.hostname.com matches hostname.com and vice versa": a request
\* below a repository with a handler is not forwarded without a token.
WwwMatches ==
    [][\A r \in Requests :
         Forward(r) /\ mode = "serving" /\ (\E i \in GetProxyHandler : Below(url[r], Repositories[i].url))
            => header[r] # NoHeader]_gitProxyVars

\* A request to a repository carries the token of that repository's provider,
\* also when the path of another one is a prefix of its path.
OwnToken ==
    [][\A r \in Requests, i \in GetProxyHandler :
         Forward(r) /\ header[r] # NoHeader /\ url[r].path = Repositories[i].url.path \o <<"/info">>
                    /\ Below(url[r], Repositories[i].url)
            => header[r] = Repositories[i].provider]_gitProxyVars

\* "the refresh token period is invalid": no configuration makes it panic.
NoPanic == mode # "panic"
=============================================================================
