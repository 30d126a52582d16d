--------------------------- MODULE GitProxy_proofs ---------------------------
(***************************************************************************)
(* The safety of GitProxy and its token store, for any number of requests, *)
(* providers, repositories and URLs: from who holds which lock, and from   *)
(* what the handlers a request has passed have left in its header.         *)
(***************************************************************************)
EXTENDS GitProxy, WellFoundedInduction, FiniteSetTheorems, TLAPS

\* A goroutine that refreshes the renku token holds its lock, and a request
\* that gets a new git token the other one, whatever it does meanwhile.
Locked ==
    /\ \A g \in Goroutines : pc[g] = "refresh" <=> renkuLock = g
    /\ \A r \in Requests : pc[r] \in {"check", "lockRenku", "refresh", "exchange"} <=> gitLock = r
    /\ pc[Refresher] \in {"idle", "lockRenku", "refresh"}

\* The token a request is about to be given is newer than its question.
ReadFresh ==
    \A r \in Requests :
        /\ pc[r] # "idle" => provider[r] \in Providers
        /\ pc[r] = "read" => git[provider[r]] # "none" /\ ~stale[r]

StoreInv == TypeOK /\ RefreshTokenCurrent /\ Locked /\ ReadFresh

\* A request is at a handler that it matches, or behind the last one.
AtHandler ==
    \A r \in Requests : url[r] # NoURL =>
        \/ handler[r] = End
        \/ handler[r] \in GetProxyHandler /\ Handles(Repositories[handler[r]], url[r])

\* The token store works for the handler the request is at, until the process
\* ends.
Asked ==
    mode # "exit" =>
        \A r \in Requests : pc[r] # "idle" =>
            url[r] # NoURL /\ handler[r] # End /\ provider[r] = Repositories[handler[r]].provider

\* The token in a header is that of a repository the URL is below of.
HeaderBelow ==
    \A r \in Requests : header[r] # NoHeader =>
        /\ url[r] # NoURL
        /\ \E i \in DOMAIN Repositories : /\ Repositories[i].provider = header[r]
                                          /\ Below(url[r], Repositories[i].url)

\* A request that has passed a handler that it matches has a token.
Passed ==
    /\ mode = "starting" => \A r \in Requests : url[r] = NoURL
    /\ mode = "serving" =>
        \A r \in Requests : url[r] # NoURL =>
            \A i \in GetProxyHandler :
                i < handler[r] /\ Handles(Repositories[i], url[r]) => header[r] # NoHeader

IInv == ProxyTypeOK /\ StoreInv /\ AtHandler /\ Asked /\ HeaderBelow /\ Passed

-----------------------------------------------------------------------------
(***************************************************************************)
(* Which handler is the next one.                                          *)
(***************************************************************************)
\* A set of numbers that is not empty has a smallest element.
LEMMA MinIsSmallest ==
    ASSUME NEW S \in SUBSET Nat, S # {}
    PROVE  Min(S) \in S /\ \A y \in S : Min(S) <= y
<1>1. PICK x \in S : \A y \in S : ~(<<y, x>> \in OpToRel(<, Nat))
  BY NatLessThanWellFounded, WFMin, Zenon
<1>2. \A y \in S : y < x => <<y, x>> \in OpToRel(<, Nat)
  <2> SUFFICES ASSUME NEW y \in S, y < x PROVE <<y, x>> \in OpToRel(<, Nat)
    OBVIOUS
  <2>1. <<y, x>> \in Nat \X Nat /\ <<y, x>>[1] = y /\ <<y, x>>[2] = x
    OBVIOUS
  <2>2. <<y, x>>[1] < <<y, x>>[2]
    BY <2>1
  <2> QED BY <2>1, <2>2, Zenon DEF OpToRel
<1>3. \A y \in S : ~(y < x)
  BY <1>1, <1>2, Zenon
<1>4. \A y \in S : x <= y
  BY <1>3
<1> QED BY <1>4 DEF Min

\* The handlers are numbered 1, 2 and so on, the end comes behind all of them.
LEMMA HandlersNumbered ==
    /\ End \in Nat /\ 1 \in 1 .. End
    /\ \A i \in DOMAIN Repositories : i \in 1 .. End /\ i < End /\ i \in Nat
    /\ GetProxyHandler \subseteq DOMAIN Repositories
<1>1. Len(Repositories) \in Nat /\ DOMAIN Repositories = 1 .. Len(Repositories)
  BY RepositoriesAssumption
<1>2. End \in Nat /\ 1 \in 1 .. End
  BY <1>1 DEF End
<1>3. \A i \in DOMAIN Repositories : i \in 1 .. End /\ i < End /\ i \in Nat
  BY <1>1 DEF End
<1>4. GetProxyHandler \subseteq DOMAIN Repositories
  BY DEF GetProxyHandler
<1> QED BY <1>2, <1>3, <1>4

\* The next handler matches, and all that are skipped do not.
LEMMA NextHandlerIsNext ==
    ASSUME NEW u, NEW from \in Nat
    PROVE  /\ NextHandler(u, from) \in 1 .. End
           /\ \/ NextHandler(u, from) = End
              \/ /\ NextHandler(u, from) \in GetProxyHandler
                 /\ Handles(Repositories[NextHandler(u, from)], u)
           /\ \A i \in GetProxyHandler :
                i >= from /\ i < NextHandler(u, from) => ~Handles(Repositories[i], u)
<1> DEFINE matching == {i \in GetProxyHandler : i >= from /\ Handles(Repositories[i], u)}
<1>1. NextHandler(u, from) = IF matching = {} THEN End ELSE Min(matching)
  BY DEF NextHandler
<1>2. matching \in SUBSET Nat
  BY HandlersNumbered
<1>3. CASE matching = {}
  BY <1>1, <1>3, HandlersNumbered
<1>4. CASE matching # {}
  <2>1. Min(matching) \in matching /\ \A y \in matching : Min(matching) <= y
    BY <1>2, <1>4, MinIsSmallest
  <2>2. NextHandler(u, from) = Min(matching)
    BY <1>1, <1>4
  <2>3. \A i \in GetProxyHandler : i >= from /\ i < NextHandler(u, from) => i \notin matching
    BY <1>2, <2>1, <2>2, HandlersNumbered
  <2> QED BY <2>1, <2>2, <2>3, HandlersNumbered
<1> QED BY <1>3, <1>4

\* A repository whose handler takes a request has the request below it.
LEMMA HandledBelow == ASSUME NEW repo, NEW u, Handles(repo, u) PROVE Below(u, repo.url)
BY DEF Handles, validGitRequest, hostsMatch, Below

-----------------------------------------------------------------------------
(***************************************************************************)
(* The token store.                                                        *)
(***************************************************************************)
LEMMA StoreInit == Init => StoreInv
<1> USE GoroutinesAssumption DEF Init, Goroutines
<1>1. Init => TypeOK
  BY DEF TypeOK, PC, Token, RefreshToken
<1>2. Init => RefreshTokenCurrent /\ Locked /\ ReadFresh
  BY DEF RefreshTokenCurrent, Accepts, Locked, ReadFresh
<1> QED BY <1>1, <1>2 DEF StoreInv

\* A request asks for a token.
LEMMA GetGitAccessTokenPreserves ==
    ASSUME StoreInv, NEW r \in Requests, NEW p \in Providers, GetGitAccessToken(r, p)
    PROVE  StoreInv'
<1> USE GoroutinesAssumption DEF StoreInv, GetGitAccessToken, Goto, tokens, locks, world, Goroutines
<1>1. TypeOK'
  BY DEF TypeOK, PC
<1>2. RefreshTokenCurrent' /\ Locked'
  BY DEF RefreshTokenCurrent, Locked, TypeOK, Accepts
<1>3. ReadFresh'
  BY DEF ReadFresh, TypeOK, IsNotExpired
<1> QED BY <1>1, <1>2, <1>3

\* The step of a request that takes the first lock or looks at the renku token.
LEMMA LockGitPreserves ==
    ASSUME StoreInv, NEW r \in Requests, LockGit(r) \/ CheckRenkuAccessToken(r)
    PROVE  StoreInv'
<1> USE GoroutinesAssumption
    DEF StoreInv, LockGit, CheckRenkuAccessToken, Goto, tokens, locks, world, request, Goroutines
<1>1. TypeOK'
  BY DEF TypeOK, PC
<1>2. RefreshTokenCurrent' /\ Locked'
  BY DEF RefreshTokenCurrent, Locked, TypeOK, Accepts
<1>3. ReadFresh'
  BY DEF ReadFresh, TypeOK
<1> QED BY <1>1, <1>2, <1>3

\* Taking the lock of the renku tokens, and looking at the refresh token.
LEMMA LockRenkuPreserves ==
    ASSUME StoreInv, NEW g \in Goroutines, LockRenku(g) \/ (g = Refresher /\ CheckRefreshToken)
    PROVE  StoreInv'
<1> USE GoroutinesAssumption
    DEF StoreInv, LockRenku, CheckRefreshToken, Goto, tokens, locks, world, request, Goroutines
<1>1. TypeOK'
  BY DEF TypeOK, PC
<1>2. RefreshTokenCurrent' /\ Locked'
  BY DEF RefreshTokenCurrent, Locked, TypeOK, Accepts
<1>3. ReadFresh'
  BY DEF ReadFresh, TypeOK
<1> QED BY <1>1, <1>2, <1>3

\* A request that fails gives up the locks it holds.
LEMMA FailPreserves ==
    ASSUME StoreInv, NEW g \in Goroutines, Fail(g), pc[g] \in {"refresh", "exchange"},
           v2' \in BOOLEAN, held' \in RefreshToken, lost' \in BOOLEAN,
           sent' \in [Goroutines -> RefreshToken], RefreshTokenCurrent'
    PROVE  StoreInv'
<1> USE GoroutinesAssumption DEF StoreInv, Fail, Forget, Goto, tokens, Unlocked, Goroutines
<1>1. TypeOK'
  BY DEF TypeOK, PC
<1>2. Locked'
  BY DEF Locked, TypeOK
<1>3. ReadFresh'
  BY DEF ReadFresh, TypeOK
<1> QED BY <1>1, <1>2, <1>3

\* What is under way stays a token when one goroutine is answered.
LEMMA AnsweredTyped ==
    ASSUME TypeOK, NEW g \in Goroutines, NEW new \in BOOLEAN, Answered(g, new)
    PROVE  sent' \in [Goroutines -> RefreshToken]
BY DEF TypeOK, Answered, Replaced, RefreshToken

\* Who refreshes is alone, and what it gets is kept: the refresh token is one
\* that renku accepts.
LEMMA refreshRenkuAccessTokenPreserves ==
    ASSUME StoreInv, NEW g \in Goroutines, refreshRenkuAccessToken(g)
    PROVE  StoreInv'
<1>1. pc[g] = "refresh" /\ \A h \in Goroutines : pc[h] = "refresh" => h = g
  BY DEF refreshRenkuAccessToken, StoreInv, Locked
<1>2. ASSUME Fail(g), NEW new \in BOOLEAN, Answered(g, new), v2' = v2,
             UNCHANGED <<held, lost>> \/ (held' = Replaced(held, TRUE) /\ lost' = (lost \/ v2))
      PROVE  StoreInv'
  <2>1. \A h \in Goroutines : pc'[h] # "refresh"
    BY <1>1, <1>2 DEF Fail, Goto, StoreInv, TypeOK
  <2>2. RefreshTokenCurrent'
    BY <1>2, <2>1 DEF StoreInv, TypeOK, RefreshTokenCurrent, Accepts, Replaced
  <2>3. /\ v2' \in BOOLEAN /\ held' \in RefreshToken /\ lost' \in BOOLEAN
        /\ sent' \in [Goroutines -> RefreshToken]
    BY <1>2, AnsweredTyped DEF StoreInv, TypeOK, Replaced, RefreshToken
  <2> QED BY <1>1, <1>2, <2>2, <2>3, FailPreserves
<1>3. ASSUME NEW new \in BOOLEAN, KeepRefreshToken(new), Answered(g, new),
             lost' = (lost \/ (v2 /\ ~new)), access' = "valid", renkuLock' = Nobody,
             Goto(g, AfterRefresh(g)), UNCHANGED <<git, gitLock, v2, request>>
      PROVE  StoreInv'
  <2> USE <1>1, <1>3, GoroutinesAssumption
      DEF StoreInv, KeepRefreshToken, AfterRefresh, Goto, request, Goroutines
  <2>1. TypeOK'
    <3>1. sent' \in [Goroutines -> RefreshToken]
      BY AnsweredTyped
    <3> QED BY <3>1 DEF TypeOK, PC, Token, RefreshToken
  <2>2. Locked'
    BY DEF Locked, TypeOK
  <2>3. RefreshTokenCurrent'
    BY DEF RefreshTokenCurrent, TypeOK, Accepts
  <2>4. ReadFresh'
    BY DEF ReadFresh, TypeOK
  <2> QED BY <2>1, <2>2, <2>3, <2>4
<1> QED BY <1>2, <1>3 DEF refreshRenkuAccessToken

\* A new git token is one for all that wait for it.
LEMMA refreshGitAccessTokenPreserves ==
    ASSUME StoreInv, NEW r \in Requests, refreshGitAccessToken(r)
    PROVE  StoreInv'
<1>1. CASE Fail(r) /\ UNCHANGED world
  BY <1>1, FailPreserves
     DEF StoreInv, refreshGitAccessToken, world, RefreshTokenCurrent, TypeOK, Goroutines,
         Fail, Goto, Accepts
<1>2. CASE /\ pc[r] = "exchange"
           /\ git' = [git EXCEPT ![provider[r]] = "valid"]
           /\ stale' = [q \in Requests |-> stale[q] /\ provider[q] # provider[r]]
           /\ gitLock' = Nobody
           /\ Goto(r, "read")
           /\ UNCHANGED <<access, refresh, renkuLock, world, provider>>
  <2> USE <1>2, GoroutinesAssumption DEF StoreInv, Goto, world, Goroutines
  <2>1. TypeOK'
    BY DEF TypeOK, PC, Token
  <2>2. RefreshTokenCurrent' /\ Locked'
    BY DEF RefreshTokenCurrent, Locked, TypeOK, Accepts
  <2>3. ReadFresh'
    BY DEF ReadFresh, TypeOK
  <2> QED BY <2>1, <2>2, <2>3
<1> QED BY <1>1, <1>2 DEF refreshGitAccessToken

\* Reading the token under the lock just taken.
LEMMA ReadTokenPreserves ==
    ASSUME StoreInv, NEW r \in Requests, ReadToken(r)
    PROVE  StoreInv'
<1> USE GoroutinesAssumption
    DEF StoreInv, ReadToken, Forget, Goto, tokens, locks, world, Goroutines
<1>1. TypeOK'
  BY DEF TypeOK, PC
<1>2. RefreshTokenCurrent' /\ Locked'
  BY DEF RefreshTokenCurrent, Locked, TypeOK, Accepts
<1>3. ReadFresh'
  BY DEF ReadFresh, TypeOK
<1> QED BY <1>1, <1>2, <1>3

\* Tokens expire at any time: the ones a request has been told to read are
\* still newer than its question.
LEMMA ExpirePreserves ==
    ASSUME StoreInv, Expire
    PROVE  StoreInv'
<1> USE DEF StoreInv, Expire, locks, world, request
<1>1. TypeOK'
  BY DEF TypeOK, Token
<1>2. RefreshTokenCurrent' /\ Locked'
  BY DEF RefreshTokenCurrent, Locked, Accepts
<1>3. ReadFresh'
  BY DEF ReadFresh, TypeOK
<1> QED BY <1>1, <1>2, <1>3

\* Every step of a goroutine in the token store.
LEMMA WorkPreserves ==
    ASSUME StoreInv, NEW g \in Goroutines, Work(g)
    PROVE  StoreInv'
BY LockGitPreserves, LockRenkuPreserves, refreshRenkuAccessTokenPreserves,
   refreshGitAccessTokenPreserves, ReadTokenPreserves DEF Work

\* Steps outside the token store leave its invariant alone.
LEMMA StoreStutters == ASSUME StoreInv, UNCHANGED vars PROVE StoreInv'
BY DEF StoreInv, vars, TypeOK, RefreshTokenCurrent, Accepts, Locked, ReadFresh

-----------------------------------------------------------------------------
(***************************************************************************)
(* The proxy.                                                              *)
(***************************************************************************)
LEMMA InitEstablishes == ProxyInit => IInv
<1> SUFFICES ASSUME ProxyInit PROVE IInv
  OBVIOUS
<1>1. StoreInv
  BY StoreInit DEF ProxyInit
<1>2. ProxyTypeOK
  BY <1>1, HandlersNumbered DEF ProxyInit, ProxyTypeOK, StoreInv
<1>3. AtHandler /\ HeaderBelow /\ Passed
  BY DEF ProxyInit, AtHandler, HeaderBelow, Passed
<1>4. Asked
  BY DEF ProxyInit, Init, Asked, Goroutines
<1> QED BY <1>1, <1>2, <1>3, <1>4 DEF IInv

\* The process starts, is told to stop, and ends with what is left of its
\* requests.
LEMMA ProcessPreserves ==
    ASSUME IInv, (\E cfg \in Settings : gitproxy(cfg)) \/ Shutdown \/ Exit
    PROVE  IInv'
<1> USE DEF IInv, gitproxy, Shutdown, Exit
<1>1. StoreInv'
  BY StoreStutters DEF vars
<1>2. ProxyTypeOK'
  BY <1>1, HandlersNumbered DEF ProxyTypeOK, StoreInv
<1>3. AtHandler' /\ HeaderBelow'
  BY DEF AtHandler, HeaderBelow
<1>4. Asked'
  BY DEF Asked, vars
<1>5. Passed'
  BY DEF Passed
<1> QED BY <1>1, <1>2, <1>3, <1>4, <1>5

\* A request arrives at the first handler that it matches.
LEMMA ReceivePreserves ==
    ASSUME IInv, NEW r \in Requests, NEW u \in URLs, Receive(r, u)
    PROVE  IInv'
<1>1. /\ NextHandler(u, 1) \in 1 .. End
      /\ NextHandler(u, 1) = End
         \/ (NextHandler(u, 1) \in GetProxyHandler /\ Handles(Repositories[NextHandler(u, 1)], u))
      /\ \A i \in GetProxyHandler :
            i >= 1 /\ i < NextHandler(u, 1) => ~Handles(Repositories[i], u)
  BY NextHandlerIsNext
<1>2. \A i \in GetProxyHandler : i >= 1
  BY HandlersNumbered
<1>3. End \in 1 .. End
  BY HandlersNumbered
<1> USE DEF IInv, Receive
<1>4. StoreInv'
  BY StoreStutters
<1>5. ProxyTypeOK'
  BY <1>1, <1>3, <1>4 DEF ProxyTypeOK, StoreInv
<1>6. AtHandler'
  BY <1>1 DEF AtHandler, ProxyTypeOK
<1>7. Asked'
  BY DEF Asked, ProxyTypeOK, vars
<1>8. HeaderBelow'
  BY DEF HeaderBelow, ProxyTypeOK
<1>9. Passed'
  BY <1>1, <1>2 DEF Passed, ProxyTypeOK
<1> QED BY <1>4, <1>5, <1>6, <1>7, <1>8, <1>9

\* The handler asks the token store for the token of its provider.
LEMMA AskForTokenPreserves ==
    ASSUME IInv, NEW r \in Requests, AskForToken(r)
    PROVE  IInv'
<1> USE DEF IInv
<1>1. /\ GetGitAccessToken(r, Repositories[handler[r]].provider) /\ UNCHANGED proxyVars
      /\ url[r] # NoURL /\ handler[r] \in GetProxyHandler
  BY HandlersNumbered DEF AskForToken, AtHandler, ProxyTypeOK
<1>2. Repositories[handler[r]].provider \in Providers
  BY <1>1 DEF GetProxyHandler
<1>3. StoreInv'
  BY <1>1, <1>2, GetGitAccessTokenPreserves
<1>4. ProxyTypeOK' /\ AtHandler' /\ HeaderBelow' /\ Passed'
  BY <1>1, <1>3 DEF ProxyTypeOK, AtHandler, HeaderBelow, Passed, proxyVars, StoreInv
<1>5. Asked'
  BY <1>1, HandlersNumbered DEF Asked, proxyVars, GetGitAccessToken, Goto, StoreInv, TypeOK, Goroutines
<1> QED BY <1>3, <1>4, <1>5

\* A step of the token store for a goroutine leaves the others at theirs.
LEMMA WorkOfOthers ==
    ASSUME StoreInv, NEW g \in Goroutines, Work(g), NEW q \in Requests
    PROVE  /\ q # g => pc'[q] = pc[q] /\ provider'[q] = provider[q]
           /\ pc'[q] # "idle" => provider'[q] = provider[q]
           /\ g = Refresher => q # g
<1> USE GoroutinesAssumption DEF Goroutines, StoreInv, TypeOK
<1>1. CASE LockRenku(g) \/ LockGit(g) \/ CheckRenkuAccessToken(g) \/ CheckRefreshToken
  BY <1>1 DEF LockRenku, LockGit, CheckRenkuAccessToken, CheckRefreshToken, Goto, request
<1>2. CASE refreshRenkuAccessToken(g) \/ refreshGitAccessToken(g)
  BY <1>2 DEF refreshRenkuAccessToken, refreshGitAccessToken, Fail, Forget, Goto, request
<1>3. CASE ReadToken(g)
  BY <1>3 DEF ReadToken, Forget, Goto
<1> QED BY <1>1, <1>2, <1>3 DEF Work

\* A request gets its token and goes on to the next handler, or is answered
\* with an error.
LEMMA TokenStepPreserves ==
    ASSUME IInv, NEW r \in Requests, mode # "exit", TokenStep(r)
    PROVE  IInv'
<1> USE DEF IInv
<1>1. Work(r) /\ r \in Goroutines
  BY DEF TokenStep, Work, Goroutines
<1>2. StoreInv'
  BY <1>1, WorkPreserves
<1>3. /\ url[r] # NoURL /\ handler[r] \in GetProxyHandler
      /\ Handles(Repositories[handler[r]], url[r])
      /\ provider[r] = Repositories[handler[r]].provider
  BY DEF TokenStep, Asked, AtHandler
<1>4. CASE pc'[r] # "idle" /\ UNCHANGED proxyVars
  <2>1. ProxyTypeOK' /\ AtHandler' /\ HeaderBelow' /\ Passed'
    BY <1>2, <1>4 DEF ProxyTypeOK, AtHandler, HeaderBelow, Passed, proxyVars, StoreInv
  <2>2. Asked'
    BY <1>1, <1>4, WorkOfOthers DEF TokenStep, Asked, proxyVars
  <2> QED BY <1>2, <2>1, <2>2
<1>5. CASE ReadToken(r) /\ header' = [header EXCEPT ![r] = provider[r]]
           /\ handler' = [handler EXCEPT ![r] = NextHandler(url[r], @ + 1)]
           /\ UNCHANGED <<mode, url>>
  <2> DEFINE h == handler[r]
             n == NextHandler(url[r], h + 1)
  <2>1. /\ h \in Nat /\ h + 1 \in Nat
        /\ n \in 1 .. End
        /\ n = End \/ (n \in GetProxyHandler /\ Handles(Repositories[n], url[r]))
        /\ handler' = [handler EXCEPT ![r] = n]
    BY <1>3, <1>5, HandlersNumbered, NextHandlerIsNext
  <2>2. pc'[r] = "idle"
    BY <1>5 DEF ReadToken, Goto, StoreInv, TypeOK, Goroutines
  <2>3. provider[r] \in Providers /\ provider[r] # NoHeader
    BY <1>3 DEF GetProxyHandler, NoHeader
  <2> HIDE DEF n
  <2>4. ProxyTypeOK'
    BY <1>2, <1>5, <2>1, <2>3 DEF ProxyTypeOK, StoreInv
  <2>5. AtHandler'
    BY <1>5, <2>1 DEF AtHandler, ProxyTypeOK
  <2>6. Asked'
    BY <1>1, <1>5, <2>1, <2>2, WorkOfOthers DEF Asked, ProxyTypeOK
  <2>7. HeaderBelow'
    <3>1. h \in DOMAIN Repositories /\ Below(url[r], Repositories[h].url)
      BY <1>3, HandledBelow, HandlersNumbered
    <3> QED BY <1>3, <1>5, <3>1 DEF HeaderBelow, ProxyTypeOK
  <2>8. Passed'
    BY <1>5, <2>1, <2>3 DEF Passed, ProxyTypeOK
  <2> QED BY <1>2, <2>4, <2>5, <2>6, <2>7, <2>8
<1>6. CASE pc'[r] = "idle" /\ Finish(r)
  <2>1. ProxyTypeOK' /\ AtHandler' /\ HeaderBelow' /\ Passed'
    BY <1>2, <1>6, HandlersNumbered
       DEF ProxyTypeOK, AtHandler, HeaderBelow, Passed, Finish, StoreInv
  <2>2. Asked'
    BY <1>1, <1>6, WorkOfOthers DEF Asked, Finish, ProxyTypeOK
  <2> QED BY <1>2, <2>1, <2>2
<1> QED BY <1>4, <1>5, <1>6 DEF TokenStep

\* The request leaves the proxy.
LEMMA ForwardPreserves ==
    ASSUME IInv, NEW r \in Requests, Forward(r)
    PROVE  IInv'
<1> USE DEF IInv, Forward, Finish
<1>1. StoreInv'
  BY StoreStutters
<1>2. ProxyTypeOK'
  BY <1>1, HandlersNumbered DEF ProxyTypeOK, StoreInv
<1>3. AtHandler' /\ HeaderBelow' /\ Passed'
  BY DEF AtHandler, HeaderBelow, Passed, ProxyTypeOK
<1>4. Asked'
  BY DEF Asked, vars, ProxyTypeOK
<1> QED BY <1>1, <1>2, <1>3, <1>4

\* The goroutine that refreshes, and the expiry of tokens, touch no request.
LEMMA BackgroundPreserves ==
    ASSUME IInv, RefresherStep \/ (Expire /\ UNCHANGED proxyVars)
    PROVE  IInv'
<1> USE DEF IInv
<1>1. StoreInv'
  BY WorkPreserves, ExpirePreserves DEF RefresherStep, Goroutines
<1>2. ProxyTypeOK' /\ AtHandler' /\ HeaderBelow' /\ Passed'
  BY <1>1 DEF RefresherStep, ProxyTypeOK, AtHandler, HeaderBelow, Passed, proxyVars, StoreInv
<1>3. \A r \in Requests : pc'[r] = pc[r] /\ provider'[r] = provider[r]
  BY WorkOfOthers DEF RefresherStep, Expire, request, Goroutines
<1>4. Asked'
  BY <1>3 DEF RefresherStep, Asked, proxyVars
<1> QED BY <1>1, <1>2, <1>4

\* Every step of the proxy: requests, the periodic refresh, the process.
LEMMA NextPreserves == IInv /\ [ProxyNext]_gitProxyVars => IInv'
<1> SUFFICES ASSUME IInv, [ProxyNext]_gitProxyVars PROVE IInv'
  OBVIOUS
<1>1. CASE UNCHANGED gitProxyVars
  <2>1. UNCHANGED vars /\ UNCHANGED proxyVars
    BY <1>1 DEF gitProxyVars
  <2>2. StoreInv'
    BY <2>1, StoreStutters DEF IInv
  <2> QED BY <2>1, <2>2 DEF IInv, vars, proxyVars, ProxyTypeOK, StoreInv, AtHandler, Asked,
                            HeaderBelow, Passed
<1>2. CASE \E r \in Requests : Handle(r)
  BY <1>2, AskForTokenPreserves, TokenStepPreserves, ForwardPreserves DEF Handle
<1>3. CASE (\E cfg \in Settings : gitproxy(cfg)) \/ Shutdown \/ Exit
  BY <1>3, ProcessPreserves
<1>4. CASE \E r \in Requests, u \in URLs : Receive(r, u)
  BY <1>4, ReceivePreserves
<1>5. CASE RefresherStep \/ (mode = "serving" /\ Expire /\ UNCHANGED proxyVars)
  BY <1>5, BackgroundPreserves
<1> QED BY <1>1, <1>2, <1>3, <1>4, <1>5 DEF ProxyNext

-----------------------------------------------------------------------------
\* One goroutine at most refreshes the renku token: the one with the lock.
LEMMA RefreshIsExclusive == ASSUME StoreInv PROVE OneRefreshAtATime
<1> DEFINE refreshing == {g \in Goroutines : pc[g] = "refresh"}
<1>1. refreshing \in SUBSET {renkuLock}
  BY DEF StoreInv, Locked
<1>2. IsFiniteSet({renkuLock}) /\ Cardinality({renkuLock}) = 1
  BY FS_Singleton
<1>3. Cardinality(refreshing) <= 1
  BY <1>1, <1>2, FS_Subset
<1> QED BY <1>3 DEF OneRefreshAtATime

\* However many requests refresh for each other, and whatever fails or expires
\* meanwhile, one goroutine at a time refreshes, and the refresh token held,
\* and the one under way, are accepted by renku unless v2's new one did not
\* reach the store.
THEOREM ProxySafe == ProxySpec => []ProxyInv
<1>1. IInv => ProxyInv
  BY RefreshIsExclusive DEF IInv, ProxyInv, RefreshTokenSafe, StoreInv
<1> QED BY <1>1, InitEstablishes, NextPreserves, PTL DEF ProxySpec

\* GetGitAccessToken never returns a token that was expired when it was asked.
THEOREM TokensReturnedAreFresh == ProxySpec => FreshTokenReturned
<1>1. IInv => [\A r \in Requests : ReadToken(r) => git[provider[r]] # "none" /\ ~stale[r]]_vars
  BY DEF IInv, StoreInv, ReadFresh, ReadToken
<1> QED BY <1>1, InitEstablishes, NextPreserves, PTL DEF ProxySpec, FreshTokenReturned

\* The token of a provider leaves the proxy only for a repository of it.
THEOREM TokensStayWithProvider == ProxySpec => TokenStaysWithProvider
<1>1. IInv => [\A r \in Requests : Forward(r) /\ header[r] # NoHeader =>
                \E i \in DOMAIN Repositories :
                    /\ Repositories[i].provider = header[r]
                    /\ Below(url[r], Repositories[i].url)]_gitProxyVars
  BY DEF IInv, HeaderBelow
<1> QED BY <1>1, InitEstablishes, NextPreserves, PTL DEF ProxySpec, TokenStaysWithProvider

\* A request that a handler is responsible for is forwarded with a token, or
\* not at all.
THEOREM NoneUnauthenticated == ProxySpec => AuthenticatedOrRefused
<1>1. IInv => [\A r \in Requests :
                Forward(r) /\ mode = "serving"
                /\ (\E i \in GetProxyHandler : Handles(Repositories[i], url[r]))
                    => header[r] # NoHeader]_gitProxyVars
  <2> SUFFICES ASSUME IInv, NEW r \in Requests, Forward(r), mode = "serving",
                      NEW i \in GetProxyHandler, Handles(Repositories[i], url[r])
               PROVE  header[r] # NoHeader
    OBVIOUS
  <2>1. url[r] # NoURL /\ i < handler[r]
    BY HandlersNumbered DEF Forward
  <2> QED BY <2>1 DEF IInv, Passed
<1> QED BY <1>1, InitEstablishes, NextPreserves, PTL DEF ProxySpec, AuthenticatedOrRefused
=============================================================================
