----------------------------- MODULE RemoteAuth -----------------------------
(***************************************************************************)
(* Authentication of the remote session controllers against their APIs     *)
(* (internal/remote/firecrest/auth, internal/remote/runai/auth and the     *)
(* API client of Run:ai): goroutines that send API requests share an       *)
(* access token, which is bought with a Renku token (kinds "renku" and     *)
(* "renku_v2") or with client credentials ("client_credentials" for        *)
(* FirecREST, "runai" for Run:ai).  A goroutine keeps the refresh token of *)
(* Renku alive.                                                            *)
(*                                                                         *)
(* Tokens are numbers, 0 for none, the larger the newer.  A token is stale *)
(* when its expiry with the margin is past, and dead when the server that  *)
(* accepts it rejects it.                                                  *)
(*                                                                         *)
(* External: Renku.  The endpoint of kind "renku_v2" takes a refresh token *)
(* once and answers with the next one; the one of Keycloak, kind "renku",  *)
(* goes on accepting it until it expires.                                  *)
(***************************************************************************)
EXTENDS Naturals

CONSTANTS
    Callers,      \* goroutines that send API requests
    Refresher,    \* the goroutine of periodicTokenRefresh
    Nobody,       \* no goroutine: the lock is free
    Kinds,        \* the kinds of authentication in this instance
    MaxExpiries,  \* bound: how many tokens become stale or are revoked
    MaxFaults,    \* bound: how many token requests fail
    MaxTokens     \* bound: with how many tokens the refreshes of "renku", which
                  \* does not renew its refresh token, stop

ASSUME CallersAssumption == Refresher \notin Callers /\ Nobody \notin Callers \cup {Refresher}
ASSUME KindsAssumption == Kinds \subseteq {"renku", "renku_v2", "client_credentials", "runai"}
ASSUME BoundsAssumption == MaxExpiries \in Nat /\ MaxFaults \in Nat /\ MaxTokens \in Nat

VARIABLES
    kind,         \* the kind of authentication, chosen once
    api,          \* accessToken, for the API of the backend
    renku,        \* renkuAccessToken
    refresh,      \* renkuRefreshToken
    apiLock,      \* who holds accessTokenLock for writing
    renkuLock,    \* who holds renkuAccessTokenLock for writing
    sent,         \* the refresh token every goroutine has under way
    pc,           \* the next step of every goroutine
    local,        \* the Renku token a caller has read
    header,       \* the token in the Authorization header of its request
    attempt,      \* the attempt to send the request
    stale, dead,  \* the tokens that are stale (of those in use), and dead
    last,         \* the newest token
    current,      \* the refresh token "renku_v2" accepts
    expiries,     \* expired and revoked tokens so far
    faults,       \* failed token requests so far
    lost,         \* history: how new refresh tokens of "renku_v2" got lost
    staleBefore   \* history: the access token that was stale when a request began

tokens == <<api, renku, refresh>>
locks == <<apiLock, renkuLock, sent>>
request == <<local, header, attempt, staleBefore>>
world == <<stale, dead, expiries, last, current, faults, lost>>
vars == <<kind, tokens, locks, pc, request, world>>

Goroutines == Callers \cup {Refresher}

PC == {"idle", "check", "renku", "lockRenku", "refresh", "readRenku", "lock", "fetch",
       "read", "send"}

TypeOK ==
    /\ kind \in Kinds
    /\ api \in Nat /\ renku \in Nat /\ refresh \in Nat
    /\ apiLock \in Callers \cup {Nobody} /\ renkuLock \in Goroutines \cup {Nobody}
    /\ sent \in [Goroutines -> Nat] /\ pc \in [Goroutines -> PC]
    /\ local \in [Callers -> Nat] /\ header \in [Callers -> Nat]
    /\ attempt \in [Callers -> 1 .. 2] /\ staleBefore \in [Callers -> Nat]
    /\ stale \subseteq 1 .. last /\ dead \subseteq 1 .. last /\ last \in Nat /\ current \in Nat
    /\ expiries \in 0 .. MaxExpiries /\ faults \in 0 .. MaxFaults
    /\ lost \subseteq {"network", "cancel", "absent"}

UsesRenku == kind \in {"renku", "renku_v2"}

\* A "renku" configuration may come without an access token.
Init ==
    /\ kind \in Kinds
    /\ api = 0 /\ refresh = 2
    /\ renku \in IF kind = "renku" THEN {0, 1} ELSE {1}
    /\ apiLock = Nobody /\ renkuLock = Nobody /\ sent = [g \in Goroutines |-> 0]
    /\ pc = [g \in Goroutines |-> "idle"]
    /\ local = [g \in Callers |-> 0] /\ header = [g \in Callers |-> 0]
    /\ attempt = [g \in Callers |-> 1] /\ staleBefore = [g \in Callers |-> 0]
    /\ stale = {} /\ dead = {} /\ last = 2 /\ current = 2
    /\ expiries = 0 /\ faults = 0 /\ lost = {}

Goto(g, where) == pc' = [pc EXCEPT ![g] = where]

\* Faulty variant: nor is it read in a "renku_v2" configuration.
IsNotExpiredInitial(token) == token # 0 /\ (token \notin stale \/ token = 1)

\* The expiry of the access token a "renku" configuration comes with is not
\* read, and the zero time counts as not expired.
IsNotExpired(token) == token # 0 /\ (token \notin stale \/ (kind = "renku" /\ token = 1))

Unlocked(lock, g) == IF lock = g THEN Nobody ELSE lock

RequestEnds(g) ==
    /\ local' = [local EXCEPT ![g] = 0] /\ header' = [header EXCEPT ![g] = 0]
    /\ attempt' = [attempt EXCEPT ![g] = 1] /\ staleBefore' = [staleBefore EXCEPT ![g] = 0]

\* An error is returned to the API client; every return path unlocks.
ReturnError(g) ==
    /\ Goto(g, "idle")
    /\ apiLock' = Unlocked(apiLock, g) /\ renkuLock' = Unlocked(renkuLock, g)
    /\ sent' = [sent EXCEPT ![g] = 0]
    /\ IF g \in Callers THEN RequestEnds(g) ELSE UNCHANGED request
    /\ UNCHANGED <<kind, api>>

Fault == faults < MaxFaults /\ faults' = faults + 1

\* RequestEditorInjectAccessToken leaves a header alone that is there.
InjectAccessToken(g, token) == IF header[g] = 0 THEN [header EXCEPT ![g] = token] ELSE header

-----------------------------------------------------------------------------
(***************************************************************************)
(* GetAccessToken.                                                         *)
(***************************************************************************)
StartRequest(g) ==
    /\ pc[g] = "idle"
    /\ Goto(g, "check")
    /\ staleBefore' = [staleBefore EXCEPT ![g] = IF api \in stale THEN api ELSE 0]
    /\ UNCHANGED <<kind, tokens, locks, local, header, attempt, world>>

\* Faulty variant: any token will do.
GetAccessTokenAnyAge(g) ==
    /\ pc[g] = "check" /\ apiLock = Nobody
    /\ IF api # 0
       THEN header' = InjectAccessToken(g, api) /\ Goto(g, "send")
       ELSE header' = header /\ Goto(g, IF UsesRenku THEN "renku" ELSE "lock")
    /\ UNCHANGED <<kind, tokens, locks, local, attempt, staleBefore, world>>

GetAccessToken(g) ==
    /\ pc[g] = "check" /\ apiLock = Nobody
    /\ IF IsNotExpired(api)
       THEN header' = InjectAccessToken(g, api) /\ Goto(g, "send")
       ELSE header' = header /\ Goto(g, IF UsesRenku THEN "renku" ELSE "lock")
    /\ UNCHANGED <<kind, tokens, locks, local, attempt, staleBefore, world>>

\* The Renku token is read before the lock for the exchange is taken.
getRenkuAccessToken(g) ==
    /\ pc[g] = "renku" /\ renkuLock = Nobody
    /\ IF IsNotExpired(renku)
       THEN local' = [local EXCEPT ![g] = renku] /\ Goto(g, "lock")
       ELSE local' = local /\ Goto(g, "lockRenku")
    /\ UNCHANGED <<kind, tokens, locks, header, attempt, staleBefore, world>>

\* Faulty variant: the refresh does not wait for the one that is running.
LockRenkuAnyway(g) ==
    /\ pc[g] = "lockRenku"
    /\ renkuLock' = g /\ sent' = [sent EXCEPT ![g] = refresh]
    /\ Goto(g, "refresh")
    /\ UNCHANGED <<kind, tokens, apiLock, request, world>>

\* The refresh token is read under the lock and sent.
LockRenku(g) ==
    /\ pc[g] = "lockRenku" /\ renkuLock = Nobody
    /\ renkuLock' = g /\ sent' = [sent EXCEPT ![g] = refresh]
    /\ Goto(g, "refresh")
    /\ UNCHANGED <<kind, tokens, apiLock, request, world>>

AfterRefresh(g) == IF g = Refresher THEN "idle" ELSE "readRenku"

\* External: does Renku accept the refresh token that g has sent?
Accepted(g) == IF kind = "renku_v2" THEN sent[g] = current ELSE sent[g] \notin dead

\* refreshRenkuAccessToken keeps its refresh token.
refreshRenkuAccessTokenV1 ==
    /\ renku' = last + 1 /\ last' = last + 1
    /\ stale' = stale \ {renku}
    /\ UNCHANGED <<refresh, current>>

\* Faulty variant: the new refresh token is not kept.
refreshRenkuAccessTokenV2Old ==
    /\ renku' = last + 1
    /\ last' = last + 2 /\ current' = last + 2
    /\ stale' = stale \ {renku}
    /\ UNCHANGED refresh

\* refreshRenkuAccessTokenV2 keeps both tokens of the answer.
refreshRenkuAccessTokenV2 ==
    /\ renku' = last + 1 /\ refresh' = last + 2
    /\ last' = last + 2 /\ current' = last + 2
    /\ stale' = stale \ {renku, refresh}

\* The answer has no refresh token: the one there is is overwritten by none.
StoreNoRefreshToken ==
    /\ renku' = last + 1 /\ refresh' = 0
    /\ last' = last + 1
    /\ stale' = stale \ {renku, refresh}
    /\ lost' = lost \cup {"absent"}
    /\ UNCHANGED current

\* The access token has no expiry that can be read: both are kept, with the
\* expiry of the old one, before the error is returned.
StoreWithOldExpiry ==
    /\ renku' = last + 1 /\ refresh' = last + 2
    /\ last' = last + 2 /\ current' = last + 2
    /\ stale' = (stale \ {renku, refresh}) \cup IF renku \in stale THEN {last + 1} ELSE {}

\* Renku takes the refresh token, but its answer does not arrive; a refresh of
\* V2 also ends when the context of the caller does.
LoseAnswer(g) ==
    /\ last' = last + 2 /\ current' = last + 2
    /\ lost' \in {lost \cup {how} : how \in IF g = Refresher THEN {"network"}
                                            ELSE {"network", "cancel"}}
    /\ UNCHANGED <<renku, refresh, stale>>

RefreshSucceeds(g) ==
    /\ renkuLock' = Nobody /\ sent' = [sent EXCEPT ![g] = 0]
    /\ Goto(g, AfterRefresh(g))
    /\ UNCHANGED <<kind, api, apiLock, request>>

\* The answer to a refresh.
refreshRenkuAccessToken(g) ==
    /\ pc[g] = "refresh"
    /\ \/ /\ Accepted(g) /\ RefreshSucceeds(g)
          /\ IF kind = "renku_v2" THEN refreshRenkuAccessTokenV2 ELSE refreshRenkuAccessTokenV1
          /\ UNCHANGED <<faults, lost>>
       \/ /\ Accepted(g) /\ kind = "renku_v2" /\ Fault
          /\ \/ RefreshSucceeds(g) /\ StoreNoRefreshToken
             \/ ReturnError(g) /\ StoreWithOldExpiry /\ UNCHANGED lost
             \/ ReturnError(g) /\ LoseAnswer(g)
       \/ /\ ReturnError(g) /\ UNCHANGED <<renku, refresh, stale, last, current, lost>>
          /\ Fault \/ (~Accepted(g) /\ UNCHANGED faults)
    /\ UNCHANGED <<dead, expiries>>

ReadRenkuAccessToken(g) ==
    /\ pc[g] = "readRenku" /\ renkuLock = Nobody
    /\ local' = [local EXCEPT ![g] = renku]
    /\ Goto(g, "lock")
    /\ UNCHANGED <<kind, tokens, locks, header, attempt, staleBefore, world>>

\* Faulty variant: what another goroutine has fetched meanwhile is not used.
refreshAccessTokenUnchecked(g) ==
    /\ pc[g] = "lock" /\ apiLock = Nobody
    /\ apiLock' = g /\ header' = header /\ Goto(g, "fetch")
    /\ UNCHANGED <<kind, tokens, renkuLock, sent, local, attempt, staleBefore, world>>

\* refreshAccessToken takes the lock; only Run:ai then looks once more whether
\* there is a token by now.
refreshAccessToken(g) ==
    /\ pc[g] = "lock" /\ apiLock = Nobody
    /\ IF kind = "runai" /\ IsNotExpired(api)
       THEN header' = InjectAccessToken(g, api) /\ Goto(g, "send") /\ UNCHANGED apiLock
       ELSE apiLock' = g /\ header' = header /\ Goto(g, "fetch")
    /\ UNCHANGED <<kind, tokens, renkuLock, sent, local, attempt, staleBefore, world>>

\* requestNewAccessToken, or requestNewAccessTokenFromRenku with the Renku
\* token read before.
requestNewAccessToken(g) ==
    /\ pc[g] = "fetch"
    /\ \/ /\ UsesRenku => local[g] \notin dead
          /\ api' = last + 1 /\ last' = last + 1 /\ stale' = stale \ {api}
          /\ apiLock' = Nobody
          /\ Goto(g, "read")
          /\ UNCHANGED <<kind, renkuLock, sent, request, faults>>
       \/ /\ ReturnError(g) /\ UNCHANGED <<stale, last>>
          /\ Fault \/ (UsesRenku /\ local[g] \in dead /\ UNCHANGED faults)
    /\ UNCHANGED <<renku, refresh, dead, expiries, current, lost>>

\* FirecREST reads the token again, Run:ai has kept the lock until here.
ReadAccessToken(g) ==
    /\ pc[g] = "read" /\ apiLock = Nobody
    /\ header' = InjectAccessToken(g, api)
    /\ Goto(g, "send")
    /\ UNCHANGED <<kind, tokens, locks, local, attempt, staleBefore, world>>

\* Faulty variant: the request is repeated until it works.
SendRequestForever(g) ==
    /\ pc[g] = "send"
    /\ IF header[g] \in dead
       THEN /\ attempt' = [attempt EXCEPT ![g] = @ + 1]
            /\ Goto(g, "check") /\ UNCHANGED <<local, header, staleBefore>>
       ELSE RequestEnds(g) /\ Goto(g, "idle")
    /\ UNCHANGED <<kind, tokens, locks, world>>

\* The answer of the API.  Only the client of Run:ai tries again after a 401.
SendRequest(g) ==
    /\ pc[g] = "send"
    /\ IF header[g] \in dead /\ kind = "runai" /\ attempt[g] = 1
       THEN /\ attempt' = [attempt EXCEPT ![g] = 2]
            /\ Goto(g, "check") /\ UNCHANGED <<local, header, staleBefore>>
       ELSE RequestEnds(g) /\ Goto(g, "idle")
    /\ UNCHANGED <<kind, tokens, locks, world>>

-----------------------------------------------------------------------------
\* periodicTokenRefresh: the refresh token is about to expire, or is none.
periodicTokenRefresh ==
    /\ UsesRenku /\ pc[Refresher] = "idle" /\ renkuLock = Nobody
    /\ refresh \in stale \cup {0}
    /\ kind = "renku" => last < MaxTokens
    /\ Goto(Refresher, "lockRenku")
    /\ UNCHANGED <<kind, tokens, locks, request, world>>

InUse == {api, renku, refresh} \ {0}

\* Time passes: the margin before a token's expiry is reached.
BecomeStale(token) ==
    /\ token \in InUse \ stale
    /\ \/ token \in dead /\ UNCHANGED expiries
       \/ token \notin dead /\ expiries < MaxExpiries /\ expiries' = expiries + 1
    /\ stale' = stale \cup {token}
    /\ UNCHANGED <<kind, tokens, locks, pc, request, dead, last, current, faults, lost>>

\* A stale token expires; an access token may also be revoked before.  The
\* refresh token of V2 is renewed four minutes before it expires, in four
\* attempts.
Die(token) ==
    /\ token \in InUse \ dead
    /\ \/ token \in stale /\ UNCHANGED expiries
       \/ /\ token \notin stale /\ token # refresh
          /\ expiries < MaxExpiries /\ expiries' = expiries + 1
    /\ token = refresh => kind = "renku"
    /\ dead' = dead \cup {token}
    /\ UNCHANGED <<kind, tokens, locks, pc, request, stale, last, current, faults, lost>>

Work(g) ==
    \/ g = Refresher /\ periodicTokenRefresh
    \/ LockRenku(g) \/ refreshRenkuAccessToken(g)
    \/ /\ g \in Callers
       /\ \/ StartRequest(g) \/ GetAccessToken(g) \/ getRenkuAccessToken(g)
          \/ ReadRenkuAccessToken(g) \/ refreshAccessToken(g) \/ requestNewAccessToken(g)
          \/ ReadAccessToken(g) \/ SendRequest(g)

Clock == \E token \in InUse \cap dead : BecomeStale(token)

Next ==
    \/ \E g \in Goroutines : Work(g)
    \/ \E token \in InUse : BecomeStale(token) \/ Die(token)

Spec == Init /\ [][Next]_vars

\* Goroutines waiting for a lock get it (sync.RWMutex is fair), the session
\* goes on to send requests, and the expiry of a token passes in the end.
FairSpec == Spec /\ (\A g \in Goroutines : SF_vars(Work(g))) /\ WF_vars(Clock)

-----------------------------------------------------------------------------
(***************************************************************************)
(* Properties.                                                             *)
(***************************************************************************)

\* "injects a valid access token": a request is never sent with a token that
\* was already past its margin when the request began.
FreshTokenInjected ==
    [][\A g \in Callers : SendRequest(g) /\ attempt[g] = 1 =>
          header[g] # 0 /\ header[g] # staleBefore[g]]_vars

\* "Re-check if another goroutine has already refreshed the token": Run:ai is
\* never asked for a token while the one it gave out last is good.
NoNeedlessTokenRequest ==
    [][kind = "runai" /\ api' # api => ~IsNotExpired(api)]_vars

\* A token is requested when the one there is has gone stale, before it is
\* used again, and by Run:ai's client only then.
TokenRequestedWhenStale == FreshTokenInjected /\ NoNeedlessTokenRequest

\* Every refresh token of V2 is good for one refresh.  The one held, and the
\* one under way, is the one Renku accepts, whoever used it last: no goroutine
\* sends what another one has used up, unless a new one got lost.
RefreshTokenCurrent ==
    kind = "renku_v2" /\ lost = {} =>
        /\ refresh = current
        /\ \A g \in Goroutines : pc[g] = "refresh" => sent[g] = current

\* The tokens held and used are ones the servers have given out, and the one
\* that gives access to all others is kept.
AuthInv == TypeOK /\ RefreshTokenCurrent

\* Requests keep working: whatever expires, is revoked or fails in between,
\* in the end an API request gets through again, as long as no refresh token
\* was lost.  Not so with the initial access token of kind "renku".
AccessRestored ==
    kind # "renku" =>
        \A g \in Callers : []<><<SendRequest(g) /\ header[g] \notin dead>>_vars \/ <>(lost # {})

(***************************************************************************)
(* Statements of comments that do not hold; README.md tells how each fails.*)
(***************************************************************************)

\* "NOTE: we do not let the refresh request be cancelled by the caller": the
\* end of a caller's context never costs the session its refresh token.
RefreshNotCancelled == "cancel" \notin lost

\* "Retry with new token": a retried request does not carry the rejected
\* token again once there is a newer one.
RetriedWithNewToken ==
    [][\A g \in Callers : SendRequest(g) /\ attempt[g] = 2 /\ header[g] \in dead => header[g] = api]_vars

\* "Used to make sure the refresh token does not expire."
RefreshTokenAlive == refresh \notin dead
=============================================================================
