SPECIFICATION FairSpec
CONSTANTS
    Callers = {g1, g2}
    Refresher = Refresher
    Nobody = Nobody
    Kinds = {"renku", "renku_v2", "client_credentials", "runai"}
    MaxExpiries = 2
    MaxFaults = 1
    MaxTokens = 3
INVARIANTS AuthInv
PROPERTIES TokenRequestedWhenStale AccessRestored
