----------------------------- MODULE TokenStore -----------------------------
(***************************************************************************)
(* The token store of the git proxy                                        *)
(* (internal/git-https-proxy/tokenstore/tokenstore.go): concurrent         *)
(* requests for git access tokens, the goroutine that keeps the renku      *)
(* refresh token alive, and the two read-write locks between them.         *)
(*                                                                         *)
(* A critical section under a read lock is one step; a write lock is held  *)
(* over the HTTP calls made under it: the request with the refresh token   *)
(* and its answer are two steps.  A token is valid, or expired once it is  *)
(* past its expiry with the leeway; tokens expire at any time.             *)
(*                                                                         *)
(* External: renku.  The endpoint of version v2 takes a refresh token once *)
(* and answers with the next one; the one of Keycloak, before v2, goes on  *)
(* accepting a used one, and its answer may leave the refresh token out.   *)
(***************************************************************************)
EXTENDS Naturals, FiniteSets

CONSTANTS
    Requests,     \* goroutines of the proxy that serve git requests
    Providers,    \* the configured git providers
    Refresher,    \* the goroutine of periodicTokenRefresh
    Nobody,       \* no goroutine: the lock is free
    MayFail       \* can HTTP calls fail?

ASSUME GoroutinesAssumption ==
    /\ Refresher \notin Requests
    /\ Nobody \notin Requests \cup {Refresher}
ASSUME MayFailAssumption == MayFail \in BOOLEAN

Goroutines == Requests \cup {Refresher}

VARIABLES
    git,        \* gitAccessTokens: the token of every provider
    access,     \* renkuAccessToken
    refresh,    \* renkuRefreshToken
    v2,         \* RenkuAuthenticationVersion
    held,       \* what renkuRefreshToken is to renku: one it takes, a used up one, none
    sent,       \* the refresh token every goroutine has under way
    gitLock,    \* who holds gitAccessTokensLock for writing
    renkuLock,  \* who holds renkuAccessTokenLock for writing
    pc,         \* the next step of every goroutine
    provider,   \* the provider of every request
    stale,      \* history: is the provider's token one that was expired at its request?
    lost        \* history: did the token that replaced the one held not reach the store?

vars == <<git, access, refresh, v2, held, sent, gitLock, renkuLock, pc, provider, stale, lost>>
tokens == <<git, access, refresh>>
locks == <<gitLock, renkuLock>>
world == <<v2, held, sent, lost>>
request == <<provider, stale>>

PC == {"idle", "lockGit", "check", "lockRenku", "refresh", "exchange", "read"}

Token == {"valid", "expired"}

RefreshToken == {"current", "used", "none"}

\* What a goroutine has between two requests.
NoProvider == CHOOSE p \in Providers : TRUE

TypeOK ==
    /\ git \in [Providers -> Token \cup {"none"}] /\ access \in Token
    /\ refresh \in Token \cup {"none"}
    /\ v2 \in BOOLEAN /\ held \in RefreshToken /\ sent \in [Goroutines -> RefreshToken]
    /\ gitLock \in Requests \cup {Nobody}
    /\ renkuLock \in Goroutines \cup {Nobody}
    /\ pc \in [Goroutines -> PC]
    /\ provider \in [Requests -> Providers \cup {NoProvider}] /\ stale \in [Requests -> BOOLEAN]
    /\ lost \in BOOLEAN

Init ==
    /\ git = [p \in Providers |-> "none"]
    /\ access = "valid" /\ refresh = "valid"
    /\ v2 \in BOOLEAN /\ held = "current" /\ sent = [g \in Goroutines |-> "none"]
    /\ gitLock = Nobody /\ renkuLock = Nobody
    /\ pc = [g \in Goroutines |-> "idle"]
    /\ provider = [r \in Requests |-> NoProvider]
    /\ stale = [r \in Requests |-> FALSE]
    /\ lost = FALSE

Goto(g, where) == pc' = [pc EXCEPT ![g] = where]

IsNotExpired(token) == token = "valid"

-----------------------------------------------------------------------------
\* Faulty variant: any token will do.
GetGitAccessTokenAnyAge(r, p) ==
    /\ pc[r] = "idle"
    /\ gitLock = Nobody
    /\ provider' = [provider EXCEPT ![r] = p]
    /\ stale' = [stale EXCEPT ![r] = git[p] = "expired"]
    /\ Goto(r, IF git[p] # "none" THEN "read" ELSE "lockGit")
    /\ UNCHANGED <<tokens, locks, world>>

\* GetGitAccessToken: a read of the map decides whether to refresh.
GetGitAccessToken(r, p) ==
    /\ pc[r] = "idle"
    /\ gitLock = Nobody
    /\ provider' = [provider EXCEPT ![r] = p]
    /\ stale' = [stale EXCEPT ![r] = git[p] = "expired"]
    /\ Goto(r, IF IsNotExpired(git[p]) THEN "read" ELSE "lockGit")
    /\ UNCHANGED <<tokens, locks, world>>

\* refreshGitAccessToken takes the lock whatever happened meanwhile.
LockGit(r) ==
    /\ pc[r] = "lockGit"
    /\ gitLock = Nobody
    /\ gitLock' = r
    /\ Goto(r, "check")
    /\ UNCHANGED <<tokens, renkuLock, world, request>>

\* getValidRenkuAccessToken: is the renku token still good?
CheckRenkuAccessToken(r) ==
    /\ pc[r] = "check"
    /\ renkuLock = Nobody
    /\ Goto(r, IF IsNotExpired(access) THEN "exchange" ELSE "lockRenku")
    /\ UNCHANGED <<tokens, locks, world, request>>

\* The next step of a goroutine whose refresh of the renku token worked.
AfterRefresh(g) == IF g = Refresher THEN "idle" ELSE "exchange"

\* A failed request returns its error; every return path unlocks.
Unlocked(lock, g) == IF lock = g THEN Nobody ELSE lock

\* The request is over.
Forget(g) ==
    /\ provider' = [r \in Requests |-> IF r = g THEN NoProvider ELSE provider[r]]
    /\ stale' = [r \in Requests |-> r # g /\ stale[r]]

\* Faulty variant: a failing request keeps the lock.
FailLocked(g) ==
    /\ MayFail
    /\ Forget(g)
    /\ Goto(g, "idle")
    /\ renkuLock' = Unlocked(renkuLock, g)
    /\ UNCHANGED <<tokens, gitLock>>

Fail(g) ==
    /\ MayFail
    /\ Forget(g)
    /\ Goto(g, "idle")
    /\ renkuLock' = Unlocked(renkuLock, g) /\ gitLock' = Unlocked(gitLock, g)
    /\ UNCHANGED tokens

\* periodicTokenRefresh: the refresh token is about to expire.
CheckRefreshToken ==
    /\ pc[Refresher] = "idle"
    /\ renkuLock = Nobody
    /\ ~IsNotExpired(refresh)
    /\ Goto(Refresher, "lockRenku")
    /\ UNCHANGED <<tokens, locks, world, request>>

\* Faulty variant: the refresh does not wait for the one that is running.
LockRenkuAnyway(g) ==
    /\ pc[g] = "lockRenku"
    /\ renkuLock' = g
    /\ sent' = [sent EXCEPT ![g] = held]
    /\ Goto(g, "refresh")
    /\ UNCHANGED <<tokens, gitLock, v2, held, lost, request>>

\* refreshRenkuAccessToken: the refresh token is read under the lock and sent.
LockRenku(g) ==
    /\ pc[g] = "lockRenku"
    /\ renkuLock = Nobody
    /\ renkuLock' = g
    /\ sent' = [sent EXCEPT ![g] = held]
    /\ Goto(g, "refresh")
    /\ UNCHANGED <<tokens, gitLock, v2, held, lost, request>>

\* External: the refresh tokens renku takes.
Accepts(token) == token = "current"

\* External: what another token is to renku once it has issued a new one.
Replaced(token, new) == IF v2 /\ new /\ token = "current" THEN "used" ELSE token

\* What is under way once g is answered.
Answered(g, new) ==
    sent' = [h \in Goroutines |-> IF h = g THEN "none" ELSE Replaced(sent[h], new)]

\* Faulty variant: a missing refresh token is always kept.
KeepRefreshTokenMissing(new) ==
    \/ new /\ refresh' = "valid" /\ held' = "current"
    \/ ~new /\ refresh' = "none" /\ held' = "none"

\* The refresh token of the answer is kept; v2 also keeps the missing one.
KeepRefreshToken(new) ==
    \/ new /\ refresh' = "valid" /\ held' = "current"
    \/ ~new /\ ~v2 /\ UNCHANGED <<refresh, held>>
    \/ ~new /\ v2 /\ refresh' = "none" /\ held' = "none"

\* The refresh token buys a new access token and a new refresh token, also
\* when their answer gets lost.
refreshRenkuAccessToken(g) ==
    /\ pc[g] = "refresh"
    /\ \/ /\ Accepts(sent[g])
          /\ \E new \in BOOLEAN :
                /\ v2 /\ ~new => MayFail
                /\ KeepRefreshToken(new) /\ Answered(g, new)
                /\ lost' = (lost \/ (v2 /\ ~new))
          /\ access' = "valid"
          /\ renkuLock' = Nobody
          /\ Goto(g, AfterRefresh(g))
          /\ UNCHANGED <<git, gitLock, v2, request>>
       \/ Fail(g) /\ Answered(g, FALSE) /\ UNCHANGED <<v2, held, lost>>
       \/ /\ Fail(g) /\ Accepts(sent[g]) /\ Answered(g, TRUE)
          /\ held' = Replaced(held, TRUE)
          /\ lost' = (lost \/ v2)
          /\ UNCHANGED v2

\* The git token is bought with the renku access token, read once more; one
\* that has just entered its leeway is still accepted.
refreshGitAccessToken(r) ==
    /\ pc[r] = "exchange"
    /\ renkuLock = Nobody
    /\ \/ /\ git' = [git EXCEPT ![provider[r]] = "valid"]
          /\ stale' = [q \in Requests |-> stale[q] /\ provider[q] # provider[r]]
          /\ gitLock' = Nobody
          /\ Goto(r, "read")
          /\ UNCHANGED <<access, refresh, renkuLock, world, provider>>
       \/ Fail(r) /\ UNCHANGED world

\* The token of the provider is read again and given to the request.
ReadToken(r) ==
    /\ pc[r] = "read"
    /\ gitLock = Nobody
    /\ Forget(r)
    /\ Goto(r, "idle")
    /\ UNCHANGED <<tokens, locks, world>>

\* Time passes.
Expire ==
    /\ \/ \E p \in Providers : /\ git[p] = "valid"
                              /\ git' = [git EXCEPT ![p] = "expired"]
                              /\ UNCHANGED <<access, refresh>>
       \/ access = "valid" /\ access' = "expired" /\ UNCHANGED <<git, refresh>>
       \/ refresh = "valid" /\ refresh' = "expired" /\ UNCHANGED <<git, access>>
    /\ UNCHANGED <<locks, world, pc, request>>

Work(g) ==
    \/ g = Refresher /\ CheckRefreshToken
    \/ LockRenku(g) \/ refreshRenkuAccessToken(g)
    \/ /\ g \in Requests
       /\ LockGit(g) \/ CheckRenkuAccessToken(g) \/ refreshGitAccessToken(g) \/ ReadToken(g)

-----------------------------------------------------------------------------
\* renkuAccessTokenLock ensures that the renku token is not refreshed "twice
\* at the same time": one refresh is under way at most, so no refresh token
\* is used twice.
OneRefreshAtATime ==
    Cardinality({g \in Goroutines : pc[g] = "refresh"}) <= 1

\* The refresh token the store holds is one that renku accepts, and so is the
\* one under way: no goroutine sends what another one has just used up, or
\* stores an answer over a newer one.  With v2 this ends when a new token
\* does not reach the store; before v2 it holds whatever is lost.
RefreshTokenCurrent ==
    \/ lost
    \/ Accepts(held) /\ \A g \in Goroutines : pc[g] = "refresh" => Accepts(sent[g])

\* No refresh token is used twice and none that is needed is thrown away.
RefreshTokenSafe == OneRefreshAtATime /\ RefreshTokenCurrent

\* "Returns a valid access token": a request is never given a token that was
\* already expired when it asked, even when requests refresh for each other.
FreshTokenReturned ==
    [][\A r \in Requests : ReadToken(r) => git[provider[r]] # "none" /\ ~stale[r]]_vars
=============================================================================
