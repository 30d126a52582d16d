SPECIFICATION FairProxySpec
CONSTANTS
    Requests = {q1, q2}
    github = github
    gitlab = gitlab
    Providers = {github, gitlab}
    Refresher = Refresher
    Nobody = Nobody
    MayFail = TRUE
    Repositories <- ProxiedRepositories
    URLs <- RequestedURLs
    Settings <- ProxySettings
INVARIANTS ProxyInv
PROPERTIES TokenStaysWithProvider AuthenticatedOrRefused FreshTokenReturned RequestsAnswered
CHECK_DEADLOCK FALSE
