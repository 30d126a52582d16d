-------------------------- MODULE RemoteAuth_proofs --------------------------
(***************************************************************************)
(* The safety of RemoteAuth, for any number of callers, expiries, faults   *)
(* and kinds of authentication: from the order of tokens (the newer the    *)
(* larger) and the ownership of the lock a token is fetched under.         *)
(***************************************************************************)
EXTENDS RemoteAuth, TLAPS

\* Every token was given out, and the token for the API is none of Renku's:
\* forgetting that one of these was stale says nothing about the other.
TokensApart ==
    /\ last >= 2 /\ renku <= last /\ refresh <= last /\ current <= last /\ api <= last
    /\ api # 0 => api > 2 /\ api # renku /\ api # refresh

\* Who asks for a token of the API holds the lock for it.
FetchLocked == \A g \in Callers : pc[g] = "fetch" <=> apiLock = g

\* The token that was stale when a request began stays so until there is a
\* newer one, which is there when the request reads the token again.
StaleRemembered ==
    \A g \in Callers :
        /\ staleBefore[g] <= last
        /\ staleBefore[g] # 0 /\ staleBefore[g] = api => api \in stale
        /\ pc[g] = "read" => staleBefore[g] < api

\* The header of a request is empty until it is sent for the first time.
HeaderFresh ==
    \A g \in Callers :
        attempt[g] = 1 => IF pc[g] = "send" THEN header[g] # 0 /\ header[g] # staleBefore[g]
                                            ELSE header[g] = 0

\* Run:ai is asked only when there is no good token, and nobody else can fetch
\* one meanwhile.
RunaiNeedsToken ==
    \A g \in Callers : pc[g] = "fetch" /\ kind = "runai" => ~IsNotExpired(api)

\* Who refreshes the Renku tokens holds the lock for them.
RefreshLocked == \A g \in Goroutines : pc[g] = "refresh" <=> renkuLock = g

\* The goroutines that refresh have Renku tokens.
RenkuOnly ==
    \A g \in Goroutines : pc[g] \in {"renku", "lockRenku", "refresh", "readRenku"} => UsesRenku

IInv == /\ AuthInv /\ TokensApart /\ FetchLocked /\ StaleRemembered /\ HeaderFresh
        /\ RunaiNeedsToken /\ RefreshLocked /\ RenkuOnly

-----------------------------------------------------------------------------
\* In the initial state nobody has asked for anything.
LEMMA InitEstablishes == Init => IInv
BY CallersAssumption, BoundsAssumption
   DEF Init, IInv, AuthInv, TypeOK, Goroutines, PC, RefreshTokenCurrent, TokensApart, FetchLocked,
       StaleRemembered, HeaderFresh, RunaiNeedsToken, RefreshLocked, RenkuOnly, IsNotExpired,
       UsesRenku

\* A goroutine that returns an error leaves well-formed locks and requests.
LEMMA ReturnErrorTypes ==
    ASSUME TypeOK, NEW g \in Goroutines, ReturnError(g)
    PROVE  /\ kind' \in Kinds
           /\ api' \in Nat
           /\ apiLock' \in Callers \cup {Nobody} /\ renkuLock' \in Goroutines \cup {Nobody}
           /\ sent' \in [Goroutines -> Nat] /\ pc' \in [Goroutines -> PC]
           /\ local' \in [Callers -> Nat] /\ header' \in [Callers -> Nat]
           /\ attempt' \in [Callers -> 1 .. 2] /\ staleBefore' \in [Callers -> Nat]
BY DEF ReturnError, RequestEnds, Unlocked, TypeOK, Goto, PC, tokens, request

\* A counter below its bound may be increased.
LEMMA Counted ==
    ASSUME NEW n, NEW max \in Nat, n \in 0 .. max, n < max
    PROVE  n + 1 \in 0 .. max
OBVIOUS

\* Tokens that were given out stay so.
LEMMA GivenOut ==
    ASSUME NEW n \in Nat, NEW m \in Nat, NEW S, S \subseteq 1 .. n
    PROVE  S \subseteq 1 .. n + m /\ n + m \in Nat
OBVIOUS

-----------------------------------------------------------------------------
(***************************************************************************)
(* Every action preserves the invariant.                                   *)
(***************************************************************************)
\* It remembers the token that is stale now.
LEMMA StartRequestPreserves ==
    ASSUME IInv, NEW g \in Callers, StartRequest(g)
    PROVE  IInv'
<1> USE CallersAssumption, BoundsAssumption
    DEF IInv, AuthInv, StartRequest, Goto, tokens, locks, request, world
<1>1. TypeOK'
  BY DEF TypeOK, PC, Goroutines
<1>2. RefreshTokenCurrent'
  BY DEF RefreshTokenCurrent, TypeOK, Goroutines
<1>3. TokensApart'
  BY DEF TokensApart, TypeOK
<1>4. FetchLocked'
  BY DEF FetchLocked, TypeOK, Goroutines
<1>5. StaleRemembered'
  BY DEF StaleRemembered, TokensApart, TypeOK, Goroutines
<1>6. HeaderFresh'
  BY DEF HeaderFresh, StaleRemembered, TokensApart, IsNotExpired, TypeOK, Goroutines
<1>7. RunaiNeedsToken'
  BY DEF RunaiNeedsToken, FetchLocked, RenkuOnly, UsesRenku, IsNotExpired, TypeOK, Goroutines
<1>8. RenkuOnly' /\ RefreshLocked'
  BY DEF RenkuOnly, RefreshLocked, UsesRenku, TypeOK, Goroutines
<1> QED BY <1>1, <1>2, <1>3, <1>4, <1>5, <1>6, <1>7, <1>8

\* A token that is used at once is not the one that was stale.
LEMMA GetAccessTokenPreserves ==
    ASSUME IInv, NEW g \in Callers, GetAccessToken(g)
    PROVE  IInv'
<1> USE CallersAssumption, BoundsAssumption
    DEF IInv, AuthInv, GetAccessToken, InjectAccessToken, UsesRenku, Goto, tokens,
        locks, request, world
<1>1. TypeOK'
  BY DEF TypeOK, PC, Goroutines
<1>2. RefreshTokenCurrent'
  BY DEF RefreshTokenCurrent, TypeOK, Goroutines
<1>3. TokensApart'
  BY DEF TokensApart, TypeOK
<1>4. FetchLocked'
  BY DEF FetchLocked, TypeOK, Goroutines
<1>5. StaleRemembered'
  BY DEF StaleRemembered, TokensApart, TypeOK, Goroutines
<1>6. HeaderFresh'
  BY DEF HeaderFresh, StaleRemembered, TokensApart, IsNotExpired, TypeOK, Goroutines
<1>7. RunaiNeedsToken'
  BY DEF RunaiNeedsToken, FetchLocked, RenkuOnly, UsesRenku, IsNotExpired, TypeOK, Goroutines
<1>8. RenkuOnly' /\ RefreshLocked'
  BY DEF RenkuOnly, RefreshLocked, UsesRenku, TypeOK, Goroutines
<1> QED BY <1>1, <1>2, <1>3, <1>4, <1>5, <1>6, <1>7, <1>8

\* The Renku token is read.
LEMMA getRenkuAccessTokenPreserves ==
    ASSUME IInv, NEW g \in Callers, getRenkuAccessToken(g)
    PROVE  IInv'
<1> USE CallersAssumption, BoundsAssumption
    DEF IInv, AuthInv, getRenkuAccessToken, Goto, tokens, locks, request, world
<1>1. TypeOK'
  BY DEF TypeOK, PC, Goroutines
<1>2. RefreshTokenCurrent'
  BY DEF RefreshTokenCurrent, TypeOK, Goroutines
<1>3. TokensApart'
  BY DEF TokensApart, TypeOK
<1>4. FetchLocked'
  BY DEF FetchLocked, TypeOK, Goroutines
<1>5. StaleRemembered'
  BY DEF StaleRemembered, TokensApart, TypeOK, Goroutines
<1>6. HeaderFresh'
  BY DEF HeaderFresh, StaleRemembered, TokensApart, IsNotExpired, TypeOK, Goroutines
<1>7. RunaiNeedsToken'
  BY DEF RunaiNeedsToken, FetchLocked, RenkuOnly, UsesRenku, IsNotExpired, TypeOK, Goroutines
<1>8. RenkuOnly' /\ RefreshLocked'
  BY DEF RenkuOnly, RefreshLocked, UsesRenku, TypeOK, Goroutines
<1> QED BY <1>1, <1>2, <1>3, <1>4, <1>5, <1>6, <1>7, <1>8

\* The lock for the Renku tokens is taken.
LEMMA LockRenkuPreserves ==
    ASSUME IInv, NEW g \in Goroutines, LockRenku(g)
    PROVE  IInv'
<1> USE CallersAssumption, BoundsAssumption
    DEF IInv, AuthInv, LockRenku, Goto, tokens, locks, request, world
<1>1. TypeOK'
  BY DEF TypeOK, PC, Goroutines
<1>2. RefreshTokenCurrent'
  BY DEF RefreshTokenCurrent, TypeOK, Goroutines
<1>3. TokensApart'
  BY DEF TokensApart, TypeOK
<1>4. FetchLocked'
  BY DEF FetchLocked, TypeOK, Goroutines
<1>5. StaleRemembered'
  BY DEF StaleRemembered, TokensApart, TypeOK, Goroutines
<1>6. HeaderFresh'
  BY DEF HeaderFresh, StaleRemembered, TokensApart, IsNotExpired, TypeOK, Goroutines
<1>7. RunaiNeedsToken'
  BY DEF RunaiNeedsToken, FetchLocked, RenkuOnly, UsesRenku, IsNotExpired, TypeOK, Goroutines
<1>8. RenkuOnly' /\ RefreshLocked'
  BY DEF RenkuOnly, RefreshLocked, UsesRenku, TypeOK, Goroutines
<1> QED BY <1>1, <1>2, <1>3, <1>4, <1>5, <1>6, <1>7, <1>8

\* The locks and the request of a goroutine whose refresh is over.
RefreshOver(g) == RefreshSucceeds(g) \/ ReturnError(g)

\* What the tokens are after a refresh: those of the answer, or the ones there
\* were; only a token that was lost makes the one held a used one.
TokensAfterRefresh ==
    /\ last' \in Nat /\ last' >= last /\ renku' \in Nat /\ refresh' \in Nat /\ current' \in Nat
    /\ renku' <= last' /\ refresh' <= last' /\ current' <= last'
    /\ renku' = renku \/ renku' > last
    /\ refresh' = refresh \/ refresh' = 0 \/ refresh' > last

SetsAfterRefresh ==
    /\ stale' \subseteq 1 .. last' /\ stale \ {renku, refresh} \subseteq stale'
    /\ lost' \subseteq {"network", "cancel", "absent"}

KeptByRefresh ==
    kind = "renku_v2" /\ lost' = {} =>
        lost = {} /\ (refresh' = current' \/ UNCHANGED <<refresh, current>>)

\* Every way in which a refresh ends leaves such tokens.
LEMMA RefreshTokens ==
    ASSUME IInv, NEW g \in Goroutines, refreshRenkuAccessToken(g)
    PROVE  /\ RefreshOver(g) /\ TokensAfterRefresh /\ SetsAfterRefresh /\ KeptByRefresh
           /\ faults' \in 0 .. MaxFaults /\ UNCHANGED <<dead, expiries>>
<1> USE BoundsAssumption DEF IInv, AuthInv, TypeOK, TokensApart
<1>1. RefreshOver(g) /\ UNCHANGED <<dead, expiries>>
  BY DEF refreshRenkuAccessToken, RefreshOver
<1>2. faults' \in 0 .. MaxFaults
  BY Counted DEF refreshRenkuAccessToken, Fault
<1>3. CASE UNCHANGED <<renku, refresh, stale, last, current, lost>>
  <2>a. TokensAfterRefresh
    BY <1>3 DEF TokensAfterRefresh
  <2>b. SetsAfterRefresh
    BY <1>3 DEF SetsAfterRefresh
  <2>c. KeptByRefresh
    BY <1>3 DEF KeptByRefresh
  <2> QED BY <1>1, <1>2, <2>a, <2>b, <2>c
<1>4. CASE kind # "renku_v2" /\ refreshRenkuAccessTokenV1 /\ UNCHANGED lost
  <2>1. last' \in Nat /\ stale' \subseteq 1 .. last'
    BY <1>4, GivenOut DEF refreshRenkuAccessTokenV1
  <2>a. TokensAfterRefresh
    BY <1>4, <2>1 DEF TokensAfterRefresh, refreshRenkuAccessTokenV1
  <2>b. SetsAfterRefresh
    BY <1>4, <2>1 DEF SetsAfterRefresh, refreshRenkuAccessTokenV1
  <2>c. KeptByRefresh
    BY <1>4, <2>1 DEF KeptByRefresh, refreshRenkuAccessTokenV1
  <2> QED BY <1>1, <1>2, <2>a, <2>b, <2>c
<1>5. CASE refreshRenkuAccessTokenV2 /\ UNCHANGED lost
  <2>1. last' \in Nat /\ stale' \subseteq 1 .. last'
    BY <1>5, GivenOut DEF refreshRenkuAccessTokenV2
  <2>a. TokensAfterRefresh
    BY <1>5, <2>1 DEF TokensAfterRefresh, refreshRenkuAccessTokenV2
  <2>b. SetsAfterRefresh
    BY <1>5, <2>1 DEF SetsAfterRefresh, refreshRenkuAccessTokenV2
  <2>c. KeptByRefresh
    BY <1>5, <2>1 DEF KeptByRefresh, refreshRenkuAccessTokenV2
  <2> QED BY <1>1, <1>2, <2>a, <2>b, <2>c
<1>6. CASE StoreNoRefreshToken
  <2>1. last' \in Nat /\ stale' \subseteq 1 .. last'
    BY <1>6, GivenOut DEF StoreNoRefreshToken
  <2>2. lost' # {} /\ lost' \subseteq {"network", "cancel", "absent"}
    BY <1>6 DEF StoreNoRefreshToken
  <2>a. TokensAfterRefresh
    BY <1>6, <2>1, <2>2 DEF TokensAfterRefresh, StoreNoRefreshToken
  <2>b. SetsAfterRefresh
    BY <1>6, <2>1, <2>2 DEF SetsAfterRefresh, StoreNoRefreshToken
  <2>c. KeptByRefresh
    BY <1>6, <2>1, <2>2 DEF KeptByRefresh, StoreNoRefreshToken
  <2> QED BY <1>1, <1>2, <2>a, <2>b, <2>c
<1>7. CASE StoreWithOldExpiry /\ UNCHANGED lost
  <2>1. last' \in Nat /\ stale \subseteq 1 .. last' /\ last + 1 \in 1 .. last'
    BY <1>7, GivenOut DEF StoreWithOldExpiry
  <2>2. stale' \subseteq 1 .. last'
    BY <1>7, <2>1 DEF StoreWithOldExpiry
  <2>a. TokensAfterRefresh
    BY <1>7, <2>1, <2>2 DEF TokensAfterRefresh, StoreWithOldExpiry
  <2>b. SetsAfterRefresh
    BY <1>7, <2>1, <2>2 DEF SetsAfterRefresh, StoreWithOldExpiry
  <2>c. KeptByRefresh
    BY <1>7, <2>1, <2>2 DEF KeptByRefresh, StoreWithOldExpiry
  <2> QED BY <1>1, <1>2, <2>a, <2>b, <2>c
<1>8. CASE LoseAnswer(g)
  <2>1. PICK how \in {"network", "cancel"} : lost' = lost \cup {how}
    BY <1>8 DEF LoseAnswer
  <2>2. lost' # {} /\ lost' \subseteq {"network", "cancel", "absent"}
    BY <2>1
  <2>3. last' \in Nat /\ last' = last + 2 /\ stale' \subseteq 1 .. last'
    BY <1>8, GivenOut DEF LoseAnswer
  <2>a. TokensAfterRefresh
    BY <1>8, <2>2, <2>3 DEF TokensAfterRefresh, LoseAnswer
  <2>b. SetsAfterRefresh
    BY <1>8, <2>2, <2>3 DEF SetsAfterRefresh, LoseAnswer
  <2>c. KeptByRefresh
    BY <1>8, <2>2, <2>3 DEF KeptByRefresh, LoseAnswer
  <2> QED BY <1>1, <1>2, <2>a, <2>b, <2>c
<1> QED BY <1>1, <1>2, <1>3, <1>4, <1>5, <1>6, <1>7, <1>8 DEF refreshRenkuAccessToken

\* Who refreshes is alone: nobody else has a refresh token under way that it
\* uses up, and the one it gets is the one Renku accepts, or it was lost.
LEMMA refreshRenkuAccessTokenPreserves ==
    ASSUME IInv, NEW g \in Goroutines, refreshRenkuAccessToken(g)
    PROVE  IInv'
<1>0. /\ RefreshOver(g) /\ TokensAfterRefresh /\ SetsAfterRefresh /\ KeptByRefresh
      /\ faults' \in 0 .. MaxFaults /\ UNCHANGED <<dead, expiries>>
      /\ pc[g] = "refresh"
  BY RefreshTokens DEF refreshRenkuAccessToken
<1>a. /\ kind' = kind /\ api' = api /\ pc'[g] \in {"idle", "readRenku"}
      /\ \A h \in Goroutines \ {g} : pc'[h] = pc[h]
      /\ \A h \in Callers : pc'[h] \in {"idle", "readRenku", pc[h]}
      /\ apiLock' = Unlocked(apiLock, g) /\ renkuLock' = Nobody
  <2> USE <1>0 DEF IInv, AuthInv, TypeOK, RefreshLocked, FetchLocked
  <2>1. CASE RefreshSucceeds(g)
    BY <2>1, CallersAssumption DEF RefreshSucceeds, Goto, AfterRefresh, Unlocked, Goroutines
  <2>2. CASE ReturnError(g)
    BY <2>2 DEF ReturnError, Goto, Unlocked, Goroutines
  <2> QED BY <1>0, <2>1, <2>2 DEF RefreshOver
<1>b. \A h \in Callers :
        \/ /\ header'[h] = header[h] /\ attempt'[h] = attempt[h]
           /\ staleBefore'[h] = staleBefore[h]
        \/ /\ h = g /\ header'[h] = 0 /\ attempt'[h] = 1 /\ staleBefore'[h] = 0 /\ pc'[h] = "idle"
  <2> USE <1>0 DEF IInv, AuthInv, TypeOK
  <2>1. CASE RefreshSucceeds(g)
    BY <2>1 DEF RefreshSucceeds, request
  <2>2. CASE ReturnError(g)
    BY <2>2 DEF ReturnError, Goto, RequestEnds, request, Goroutines
  <2> QED BY <1>0, <2>1, <2>2 DEF RefreshOver
<1>1. TypeOK'
  <2>1. CASE RefreshSucceeds(g)
    BY <1>0, <2>1, GivenOut
       DEF RefreshSucceeds, AfterRefresh, Goto, request, IInv, AuthInv, TypeOK, PC,
           TokensAfterRefresh, SetsAfterRefresh
  <2>2. CASE ReturnError(g)
    BY <1>0, <2>2, ReturnErrorTypes DEF IInv, AuthInv, TypeOK, TokensAfterRefresh, SetsAfterRefresh
  <2> QED BY <1>0, <2>1, <2>2 DEF RefreshOver
<1> USE <1>0, <1>a, <1>b, CallersAssumption DEF IInv, AuthInv
<1>2. RefreshTokenCurrent'
  <2>1. \A h \in Goroutines : pc'[h] # "refresh"
    BY DEF RefreshLocked
  <2>2. kind' = "renku_v2" /\ lost' = {} => refresh' = current'
    BY DEF RefreshTokenCurrent, KeptByRefresh
  <2> QED BY <2>1, <2>2 DEF RefreshTokenCurrent
<1>3. TokensApart'
  BY DEF TokensApart, TypeOK, TokensAfterRefresh
<1>4. FetchLocked'
  BY DEF FetchLocked, TypeOK, Unlocked, Goroutines
<1>5. StaleRemembered'
  BY DEF StaleRemembered, TokensApart, TypeOK, TokensAfterRefresh, SetsAfterRefresh, Goroutines
<1>6. HeaderFresh'
  BY DEF HeaderFresh, TypeOK, Goroutines
<1>7. RunaiNeedsToken'
  BY DEF RunaiNeedsToken, RenkuOnly, UsesRenku, TypeOK
<1>8. RenkuOnly' /\ RefreshLocked'
  BY DEF RenkuOnly, RefreshLocked, UsesRenku, TypeOK, Goroutines
<1> QED BY <1>1, <1>2, <1>3, <1>4, <1>5, <1>6, <1>7, <1>8

\* The Renku token is read again.
LEMMA ReadRenkuAccessTokenPreserves ==
    ASSUME IInv, NEW g \in Callers, ReadRenkuAccessToken(g)
    PROVE  IInv'
<1> USE CallersAssumption, BoundsAssumption
    DEF IInv, AuthInv, ReadRenkuAccessToken, Goto, tokens, locks, request, world
<1>1. TypeOK'
  BY DEF TypeOK, PC, Goroutines
<1>2. RefreshTokenCurrent'
  BY DEF RefreshTokenCurrent, TypeOK, Goroutines
<1>3. TokensApart'
  BY DEF TokensApart, TypeOK
<1>4. FetchLocked'
  BY DEF FetchLocked, TypeOK, Goroutines
<1>5. StaleRemembered'
  BY DEF StaleRemembered, TokensApart, TypeOK, Goroutines
<1>6. HeaderFresh'
  BY DEF HeaderFresh, StaleRemembered, TokensApart, IsNotExpired, TypeOK, Goroutines
<1>7. RunaiNeedsToken'
  BY DEF RunaiNeedsToken, FetchLocked, RenkuOnly, UsesRenku, IsNotExpired, TypeOK, Goroutines
<1>8. RenkuOnly' /\ RefreshLocked'
  BY DEF RenkuOnly, RefreshLocked, UsesRenku, TypeOK, Goroutines
<1> QED BY <1>1, <1>2, <1>3, <1>4, <1>5, <1>6, <1>7, <1>8

\* Run:ai is asked only after the second look at the token.
LEMMA refreshAccessTokenPreserves ==
    ASSUME IInv, NEW g \in Callers, refreshAccessToken(g)
    PROVE  IInv'
<1> USE CallersAssumption, BoundsAssumption
    DEF IInv, AuthInv, refreshAccessToken, InjectAccessToken, Goto, tokens, locks,
        request, world
<1>1. TypeOK'
  BY DEF TypeOK, PC, Goroutines
<1>2. RefreshTokenCurrent'
  BY DEF RefreshTokenCurrent, TypeOK, Goroutines
<1>3. TokensApart'
  BY DEF TokensApart, TypeOK
<1>4. FetchLocked'
  BY DEF FetchLocked, TypeOK, Goroutines
<1>5. StaleRemembered'
  BY DEF StaleRemembered, TokensApart, TypeOK, Goroutines
<1>6. HeaderFresh'
  BY DEF HeaderFresh, StaleRemembered, TokensApart, IsNotExpired, TypeOK, Goroutines
<1>7. RunaiNeedsToken'
  BY DEF RunaiNeedsToken, FetchLocked, RenkuOnly, UsesRenku, IsNotExpired, TypeOK, Goroutines
<1>8. RenkuOnly' /\ RefreshLocked'
  BY DEF RenkuOnly, RefreshLocked, UsesRenku, TypeOK, Goroutines
<1> QED BY <1>1, <1>2, <1>3, <1>4, <1>5, <1>6, <1>7, <1>8

\* The new token is newer than any that was stale.
LEMMA requestNewAccessTokenPreserves ==
    ASSUME IInv, NEW g \in Callers, requestNewAccessToken(g)
    PROVE  IInv'
<1> USE CallersAssumption, BoundsAssumption
    DEF IInv, AuthInv, requestNewAccessToken, Fault, ReturnError, Unlocked,
        RequestEnds, Goto, tokens, locks, request, world
<1>1. TypeOK'
  <2> USE DEF TypeOK
  <2>0. faults' \in 0 .. MaxFaults
    BY Counted
  <2> HIDE DEF ReturnError, Fault
  <2>1. CASE /\ api' = last + 1 /\ last' = last + 1 /\ stale' = stale \ {api}
             /\ apiLock' = Nobody /\ Goto(g, "read")
             /\ UNCHANGED <<kind, renkuLock, sent, request, faults>>
    <3>1. last' \in Nat /\ stale' \subseteq 1 .. last' /\ dead' \subseteq 1 .. last'
      BY <2>1, GivenOut
    <3> QED BY <2>1, <3>1 DEF PC
  <2>2. CASE ReturnError(g) /\ UNCHANGED <<stale, last>>
    BY <2>0, <2>2, ReturnErrorTypes DEF Goroutines
  <2> QED BY <2>1, <2>2 DEF ReturnError, Fault
<1>2. RefreshTokenCurrent'
  BY DEF RefreshTokenCurrent, TypeOK, Goroutines
<1>3. TokensApart'
  BY DEF TokensApart, TypeOK
<1>4. FetchLocked'
  BY DEF FetchLocked, TypeOK, Goroutines
<1>5. StaleRemembered'
  BY DEF StaleRemembered, TokensApart, TypeOK, Goroutines
<1>6. HeaderFresh'
  BY DEF HeaderFresh, StaleRemembered, TokensApart, IsNotExpired, TypeOK, Goroutines
<1>7. RunaiNeedsToken'
  BY DEF RunaiNeedsToken, FetchLocked, RenkuOnly, UsesRenku, IsNotExpired, TypeOK, Goroutines
<1>8. RenkuOnly' /\ RefreshLocked'
  BY DEF RenkuOnly, RefreshLocked, UsesRenku, TypeOK, Goroutines
<1> QED BY <1>1, <1>2, <1>3, <1>4, <1>5, <1>6, <1>7, <1>8

\* The token read is newer than the one that was stale at the beginning.
LEMMA ReadAccessTokenPreserves ==
    ASSUME IInv, NEW g \in Callers, ReadAccessToken(g)
    PROVE  IInv'
<1> USE CallersAssumption, BoundsAssumption
    DEF IInv, AuthInv, ReadAccessToken, InjectAccessToken, Goto, tokens, locks,
        request, world
<1>1. TypeOK'
  BY DEF TypeOK, PC, Goroutines
<1>2. RefreshTokenCurrent'
  BY DEF RefreshTokenCurrent, TypeOK, Goroutines
<1>3. TokensApart'
  BY DEF TokensApart, TypeOK
<1>4. FetchLocked'
  BY DEF FetchLocked, TypeOK, Goroutines
<1>5. StaleRemembered'
  BY DEF StaleRemembered, TokensApart, TypeOK, Goroutines
<1>6. HeaderFresh'
  BY DEF HeaderFresh, StaleRemembered, TokensApart, IsNotExpired, TypeOK, Goroutines
<1>7. RunaiNeedsToken'
  BY DEF RunaiNeedsToken, FetchLocked, RenkuOnly, UsesRenku, IsNotExpired, TypeOK, Goroutines
<1>8. RenkuOnly' /\ RefreshLocked'
  BY DEF RenkuOnly, RefreshLocked, UsesRenku, TypeOK, Goroutines
<1> QED BY <1>1, <1>2, <1>3, <1>4, <1>5, <1>6, <1>7, <1>8

\* A second attempt keeps the header of the first.
LEMMA SendRequestPreserves ==
    ASSUME IInv, NEW g \in Callers, SendRequest(g)
    PROVE  IInv'
<1> USE CallersAssumption, BoundsAssumption
    DEF IInv, AuthInv, SendRequest, RequestEnds, Goto, tokens, locks, request, world
<1>1. TypeOK'
  BY DEF TypeOK, PC, Goroutines
<1>2. RefreshTokenCurrent'
  BY DEF RefreshTokenCurrent, TypeOK, Goroutines
<1>3. TokensApart'
  BY DEF TokensApart, TypeOK
<1>4. FetchLocked'
  BY DEF FetchLocked, TypeOK, Goroutines
<1>5. StaleRemembered'
  BY DEF StaleRemembered, TokensApart, TypeOK, Goroutines
<1>6. HeaderFresh'
  BY DEF HeaderFresh, StaleRemembered, TokensApart, IsNotExpired, TypeOK, Goroutines
<1>7. RunaiNeedsToken'
  BY DEF RunaiNeedsToken, FetchLocked, RenkuOnly, UsesRenku, IsNotExpired, TypeOK, Goroutines
<1>8. RenkuOnly' /\ RefreshLocked'
  BY DEF RenkuOnly, RefreshLocked, UsesRenku, TypeOK, Goroutines
<1> QED BY <1>1, <1>2, <1>3, <1>4, <1>5, <1>6, <1>7, <1>8

\* The goroutine that keeps the refresh token alive starts.
LEMMA periodicTokenRefreshPreserves ==
    ASSUME IInv, periodicTokenRefresh
    PROVE  IInv'
<1> USE CallersAssumption, BoundsAssumption
    DEF IInv, AuthInv, periodicTokenRefresh, Goto, tokens, locks, request, world
<1>1. TypeOK'
  BY DEF TypeOK, PC, Goroutines
<1>2. RefreshTokenCurrent'
  BY DEF RefreshTokenCurrent, TypeOK, Goroutines
<1>3. TokensApart'
  BY DEF TokensApart, TypeOK
<1>4. FetchLocked'
  BY DEF FetchLocked, TypeOK, Goroutines
<1>5. StaleRemembered'
  BY DEF StaleRemembered, TokensApart, TypeOK, Goroutines
<1>6. HeaderFresh'
  BY DEF HeaderFresh, StaleRemembered, TokensApart, IsNotExpired, TypeOK, Goroutines
<1>7. RunaiNeedsToken'
  BY DEF RunaiNeedsToken, FetchLocked, RenkuOnly, UsesRenku, IsNotExpired, TypeOK, Goroutines
<1>8. RenkuOnly' /\ RefreshLocked'
  BY DEF RenkuOnly, RefreshLocked, UsesRenku, TypeOK, Goroutines
<1> QED BY <1>1, <1>2, <1>3, <1>4, <1>5, <1>6, <1>7, <1>8

\* Tokens become stale at any time, also between the looks at them.
LEMMA BecomeStalePreserves ==
    ASSUME IInv, NEW token \in InUse, BecomeStale(token)
    PROVE  IInv'
<1> USE CallersAssumption, BoundsAssumption
    DEF IInv, AuthInv, BecomeStale, InUse, Goto, tokens, locks, request, world
<1>1. TypeOK'
  <2>1. expiries' \in 0 .. MaxExpiries
    BY Counted DEF TypeOK
  <2>2. token \in 1 .. last
    BY DEF TypeOK, TokensApart
  <2> QED BY <2>1, <2>2 DEF TypeOK
<1>2. RefreshTokenCurrent'
  BY DEF RefreshTokenCurrent, TypeOK, Goroutines
<1>3. TokensApart'
  BY DEF TokensApart, TypeOK
<1>4. FetchLocked'
  BY DEF FetchLocked, TypeOK, Goroutines
<1>5. StaleRemembered'
  BY DEF StaleRemembered, TokensApart, TypeOK, Goroutines
<1>6. HeaderFresh'
  BY DEF HeaderFresh, StaleRemembered, TokensApart, IsNotExpired, TypeOK, Goroutines
<1>7. RunaiNeedsToken'
  BY DEF RunaiNeedsToken, FetchLocked, RenkuOnly, UsesRenku, IsNotExpired, TypeOK, Goroutines
<1>8. RenkuOnly' /\ RefreshLocked'
  BY DEF RenkuOnly, RefreshLocked, UsesRenku, TypeOK, Goroutines
<1> QED BY <1>1, <1>2, <1>3, <1>4, <1>5, <1>6, <1>7, <1>8

\* Tokens die at any time.
LEMMA DiePreserves ==
    ASSUME IInv, NEW token \in InUse, Die(token)
    PROVE  IInv'
<1> USE CallersAssumption, BoundsAssumption
    DEF IInv, AuthInv, Die, InUse, Goto, tokens, locks, request, world
<1>1. TypeOK'
  <2>1. expiries' \in 0 .. MaxExpiries
    BY Counted DEF TypeOK
  <2>2. token \in 1 .. last
    BY DEF TypeOK, TokensApart
  <2> QED BY <2>1, <2>2 DEF TypeOK
<1>2. RefreshTokenCurrent'
  BY DEF RefreshTokenCurrent, TypeOK, Goroutines
<1>3. TokensApart'
  BY DEF TokensApart, TypeOK
<1>4. FetchLocked'
  BY DEF FetchLocked, TypeOK, Goroutines
<1>5. StaleRemembered'
  BY DEF StaleRemembered, TokensApart, TypeOK, Goroutines
<1>6. HeaderFresh'
  BY DEF HeaderFresh, StaleRemembered, TokensApart, IsNotExpired, TypeOK, Goroutines
<1>7. RunaiNeedsToken'
  BY DEF RunaiNeedsToken, FetchLocked, RenkuOnly, UsesRenku, IsNotExpired, TypeOK, Goroutines
<1>8. RenkuOnly' /\ RefreshLocked'
  BY DEF RenkuOnly, RefreshLocked, UsesRenku, TypeOK, Goroutines
<1> QED BY <1>1, <1>2, <1>3, <1>4, <1>5, <1>6, <1>7, <1>8

-----------------------------------------------------------------------------
\* The steps of the callers, the periodic refresh and the servers.
LEMMA NextPreserves == IInv /\ [Next]_vars => IInv'
<1> SUFFICES ASSUME IInv, [Next]_vars PROVE IInv'
  OBVIOUS
<1>1. CASE UNCHANGED vars
  BY <1>1 DEF vars, tokens, locks, request, world, IInv, AuthInv, TypeOK, RefreshTokenCurrent,
              TokensApart, FetchLocked, StaleRemembered, HeaderFresh, RunaiNeedsToken,
              RefreshLocked, RenkuOnly, UsesRenku, IsNotExpired
<1>2. CASE \E g \in Goroutines : Work(g)
  <2>1. PICK g \in Goroutines : Work(g)
    BY <1>2
  <2>2. CASE periodicTokenRefresh
    BY <2>2, periodicTokenRefreshPreserves
  <2>3. CASE LockRenku(g) \/ refreshRenkuAccessToken(g)
    BY <2>3, LockRenkuPreserves, refreshRenkuAccessTokenPreserves
  <2>4. CASE g \in Callers /\ (StartRequest(g) \/ GetAccessToken(g) \/ getRenkuAccessToken(g)
                               \/ ReadRenkuAccessToken(g))
    BY <2>4, StartRequestPreserves, GetAccessTokenPreserves, getRenkuAccessTokenPreserves,
       ReadRenkuAccessTokenPreserves
  <2>5. CASE g \in Callers /\ (refreshAccessToken(g) \/ requestNewAccessToken(g)
                               \/ ReadAccessToken(g) \/ SendRequest(g))
    BY <2>5, refreshAccessTokenPreserves, requestNewAccessTokenPreserves,
       ReadAccessTokenPreserves, SendRequestPreserves
  <2> QED BY <2>1, <2>2, <2>3, <2>4, <2>5 DEF Work
<1>3. CASE \E token \in InUse : BecomeStale(token) \/ Die(token)
  BY <1>3, BecomeStalePreserves, DiePreserves
<1> QED BY <1>1, <1>2, <1>3 DEF Next

\* The state of the authentication is well-formed, and the refresh token of
\* V2 the session holds, or has under way, is the one Renku accepts, however
\* many goroutines refresh and whatever expires, as long as no new refresh
\* token is lost.
THEOREM TokensKept == Spec => []AuthInv
<1>1. IInv => AuthInv
  BY DEF IInv
<1> QED BY <1>1, InitEstablishes, NextPreserves, PTL DEF Spec

\* No request is sent with a token that was stale when it began, and Run:ai
\* is not asked for a token while the last one is good: the goroutines share
\* one token and may refresh it for each other.
THEOREM StaleTokenReplaced == Spec => TokenRequestedWhenStale
<1>1. IInv /\ [Next]_vars =>
        [\A g \in Callers : SendRequest(g) /\ attempt[g] = 1 =>
            header[g] # 0 /\ header[g] # staleBefore[g]]_vars
  BY DEF IInv, HeaderFresh, SendRequest
<1>2. IInv /\ [Next]_vars => [kind = "runai" /\ api' # api => ~IsNotExpired(api)]_vars
  <2> SUFFICES ASSUME IInv, Next, kind = "runai", api' # api PROVE ~IsNotExpired(api)
    OBVIOUS
  <2>1. PICK g \in Callers : requestNewAccessToken(g)
    BY DEF Next, Work, periodicTokenRefresh, LockRenku, refreshRenkuAccessToken, ReturnError,
           RefreshSucceeds, StartRequest, GetAccessToken,
           getRenkuAccessToken, ReadRenkuAccessToken, refreshAccessToken, ReadAccessToken,
           SendRequest, BecomeStale, Die, tokens
  <2> QED BY <2>1 DEF IInv, RunaiNeedsToken, requestNewAccessToken
<1> QED BY <1>1, <1>2, InitEstablishes, NextPreserves, PTL
        DEF Spec, TokenRequestedWhenStale, FreshTokenInjected, NoNeedlessTokenRequest
=============================================================================
