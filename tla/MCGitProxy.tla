----------------------------- MODULE MCGitProxy -----------------------------
(***************************************************************************)
(* Instances of GitProxy for TLC.                                          *)
(***************************************************************************)
EXTENDS GitProxy

CONSTANTS github, gitlab

URL(scheme, www, host, port, path) ==
    [scheme |-> scheme, www |-> www, host |-> host, port |-> port, path |-> path]

\* A public repository and one of an unknown provider get no handler; the
\* path of one repository is a prefix of that of another, on the same host.
ProxiedRepositories ==
    <<[url |-> URL("https", FALSE, "github.com", "", <<"org", "/lib">>), provider |-> github],
      [url |-> URL("https", FALSE, "github.com", "", <<"org", "/lib", "2">>), provider |-> ""],
      [url |-> URL("https", TRUE, "gitlab.org", "", <<"org", "/lib">>), provider |-> gitlab],
      [url |-> URL("https", FALSE, "github.com", "", <<"org", "/lib", "2">>), provider |-> gitlab]>>

\* HTTPS requests come with the port of the CONNECT request.
RequestedURLs ==
    {URL("https", TRUE, "github.com", "443", <<"org", "/lib", "2", "/info">>),
     URL("http", FALSE, "github.com", "", <<"org", "/lib", "/info">>)}

AllTokenSettings ==
    {"access_token", "refresh_token", "url", "realm", "client_id", "client_secret", "token_url"}

ProxySettings ==
    [anonymous: BOOLEAN, v2: BOOLEAN, set: {{}, {"access_token", "refresh_token", "token_url"}, AllTokenSettings},
     period: {0, 600}]

\* For the statements that do not hold.
RepositoriesReversed == Reverse(ProxiedRepositories)

URLsWithoutWww ==
    RequestedURLs \cup {URL("https", FALSE, "gitlab.org", "443", <<"org", "/lib", "/info">>)}
=============================================================================
