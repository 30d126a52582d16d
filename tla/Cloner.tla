------------------------------- MODULE Cloner -------------------------------
(***************************************************************************)
(* The repository cloner (internal/cloner), which runs in the init         *)
(* containers of a session and fills the session's volume: the command     *)
(* "shell", which sets up all repositories from its environment, and the   *)
(* command "clone", run once per repository with its credentials.  A       *)
(* container that fails is run again; a pod that is replaced runs all of   *)
(* them again on the volume of the last one.                               *)
(*                                                                         *)
(* The directory of a repository is the set of what has been done to it.   *)
(***************************************************************************)
EXTENDS Naturals

CONSTANTS
    Repositories,   \* the repositories are 1 .. Repositories
    MaxFaults       \* bound: failed commands and killed containers

ASSUME RepositoriesAssumption == Repositories \in Nat \ {0}
ASSUME FaultsAssumption == MaxFaults \in Nat

VARIABLES
    cfg,      \* the configuration, chosen once
    phase,    \* "init" while the init containers run, then "started"
    at,       \* the repository being set up
    step,     \* the next step for it
    user,     \* has "shell" got a token for it?
    misread,  \* history: did git rev-parse fail on it although it exists?
    dir,      \* what each directory of the volume holds
    origin,   \* the repository each directory was cloned from, 0 for none
    outer,    \* did the user make the mount path a repository itself?
    faults,   \* the failures so far
    gaps      \* history: directories "shell" has left in the middle of a clone

vars == <<cfg, phase, at, step, user, misread, dir, origin, outer, faults, gaps>>

Repository == 1 .. Repositories

\* Two repositories share a directory when the last segments of their URLs
\* are the same.
Paths == Repository

\* The values of --strategy.  The command line parser stores it in a variable
\* of Command that hides the one applyPreCloningStrategy reads.
Strategies == {"notifexist", "overwrite", "nostrategy"}

\* The file named by --config: there is none, the server accepts what is in
\* it or not, or it has neither a user name nor a usable key.
Credentials == {"none", "valid", "rejected", "invalid"}

CloneConfig == [command: {"shell"} \cup Strategies,
                isGitProxyEnabled: BOOLEAN,
                lfsAutoFetch: BOOLEAN,
                isAnonymous: BOOLEAN,
                private: SUBSET Repository,
                credentials: [Repository -> Credentials],
                clonePath: {[r \in Repository |-> r], [r \in Repository |-> 1]}]

Marks == {"directory", "init", "identity", "remote", "objects", "checkout",
          "lfs", "submodules", "proxy", "ERROR", "work"}

Cloned == {"directory", "init", "identity", "remote", "objects", "checkout", "submodules"}

Steps == {"load", "execute", "token", "init", "configure", "remote", "fetch",
          "branch", "checkout", "lfs", "submodules", "failed", "proxy", "next",
          "strategy", "config", "plainClone", "cloning"}

TypeOK ==
    /\ cfg \in CloneConfig
    /\ phase \in {"init", "started"} /\ at \in Repository /\ step \in Steps
    /\ user \in BOOLEAN /\ misread \in BOOLEAN
    /\ dir \in [Paths -> SUBSET Marks] /\ origin \in [Paths -> 0 .. Repositories]
    /\ outer \in BOOLEAN /\ faults \in 0 .. MaxFaults /\ gaps \subseteq Paths

FirstStep == IF cfg.command = "shell" THEN "load" ELSE "strategy"

\* A new pod on an empty volume.
EmptyVolume ==
    /\ phase = "init" /\ at = 1 /\ step = FirstStep /\ user = FALSE /\ misread = FALSE
    /\ dir = [p \in Paths |-> {}] /\ origin = [p \in Paths |-> 0]
    /\ outer = FALSE /\ faults = 0 /\ gaps = {}

Init ==
    /\ cfg \in CloneConfig
    /\ cfg.command # "shell" => ~cfg.isGitProxyEnabled /\ ~cfg.lfsAutoFetch /\ ~cfg.isAnonymous
    /\ EmptyVolume

clonePath == cfg.clonePath[at]

On(s) == phase = "init" /\ step = s

\* A directory with some of the marks of a clone by "shell" and not all of
\* them, and no ERROR file that says so.
CutShort(p) ==
    /\ cfg.command = "shell"
    /\ "init" \in dir[p] /\ ~(Cloned \subseteq dir[p]) /\ "ERROR" \notin dir[p]

\* An external git command, or the network, fails.
Fault == faults < MaxFaults /\ faults' = faults + 1

Add(marks) == dir' = [dir EXCEPT ![clonePath] = @ \cup marks]

-----------------------------------------------------------------------------
(***************************************************************************)
(* How a container ends: log.Fatal, or with success.                       *)
(***************************************************************************)

\* The container is run again.  Only the command "shell" starts over with
\* the first repository.
Fatal ==
    /\ at' = IF cfg.command = "shell" THEN 1 ELSE at
    /\ step' = FirstStep /\ user' = FALSE /\ misread' = FALSE
    /\ gaps' = gaps \cup {p \in {clonePath} : CutShort(p)}
    /\ UNCHANGED <<cfg, phase, dir, origin, outer>>

\* One repository is done; after the last one the session's containers start.
NextRepository ==
    /\ On("next")
    /\ \/ at < Repositories /\ at' = at + 1 /\ phase' = phase
       \/ at = Repositories /\ at' = 1 /\ phase' = "started"
    /\ step' = IF cfg.command = "shell" /\ at < Repositories THEN "execute" ELSE FirstStep
    /\ user' = FALSE /\ misread' = FALSE
    /\ UNCHANGED <<cfg, dir, origin, outer, faults, gaps>>

\* The pod is evicted or deleted while it sets up a repository.
Kill ==
    /\ phase = "init" /\ Fault
    /\ at' = 1 /\ step' = FirstStep /\ user' = FALSE /\ misread' = FALSE
    /\ gaps' = gaps \cup {p \in {clonePath} : CutShort(p)}
    /\ UNCHANGED <<cfg, phase, dir, origin, outer>>

\* The session is hibernated and resumed, or its pod replaced.
NewPod ==
    /\ phase = "started"
    /\ phase' = "init" /\ at' = 1 /\ step' = FirstStep /\ user' = FALSE /\ misread' = FALSE
    /\ UNCHANGED <<cfg, dir, origin, outer, faults, gaps>>

-----------------------------------------------------------------------------
(***************************************************************************)
(* The command "shell".                                                    *)
(***************************************************************************)

\* Faulty variant: a clone path that exists is an error.
loadRepositoriesNew ==
    /\ On("load")
    /\ dir' = [p \in Paths |-> IF \E r \in Repository : cfg.clonePath[r] = p
                               THEN dir[p] \cup {"directory"} ELSE dir[p]]
    /\ step' = IF \E r \in Repository : dir[cfg.clonePath[r]] # {} THEN "load" ELSE "execute"
    /\ UNCHANGED <<cfg, phase, at, user, misread, origin, outer, faults, gaps>>

\* loadRepositories creates the clone paths that do not exist.
loadRepositories ==
    /\ On("load")
    /\ dir' = [p \in Paths |-> IF \E r \in Repository : cfg.clonePath[r] = p
                               THEN dir[p] \cup {"directory"} ELSE dir[p]]
    /\ step' = "execute"
    /\ UNCHANGED <<cfg, phase, at, user, misread, origin, outer, faults, gaps>>

\* git rev-parse --is-inside-work-tree also answers for a directory above.
Exists == "init" \in dir[clonePath] \/ outer

\* Faulty variant: a repository that exists is cloned again.
executeAlways ==
    /\ On("execute")
    /\ step' = "token"
    /\ UNCHANGED <<cfg, phase, at, user, misread, dir, origin, outer, faults, gaps>>

\* A git rev-parse that fails, for whatever reason, is a no.
execute ==
    /\ On("execute")
    /\ \/ step' = (IF Exists THEN "proxy" ELSE "token") /\ UNCHANGED <<misread, faults>>
       \/ step' = "token" /\ misread' = Exists /\ Fault
    /\ UNCHANGED <<cfg, phase, at, user, dir, origin, outer, gaps>>

\* Without a token the cloner goes on without credentials.
getAccessToken ==
    /\ On("token")
    /\ \/ user' = ~cfg.isAnonymous /\ faults' = faults
       \/ user' = FALSE /\ Fault
    /\ step' = "init"
    /\ UNCHANGED <<cfg, phase, at, misread, dir, origin, outer, gaps>>

initializeRepository ==
    \/ /\ On("init")
       /\ Add({"init"}) /\ step' = "configure"
       /\ UNCHANGED <<cfg, phase, at, user, misread, origin, outer, faults, gaps>>
    \/ /\ On("configure")
       /\ Add({"identity"}) /\ step' = "remote"
       /\ UNCHANGED <<cfg, phase, at, user, misread, origin, outer, faults, gaps>>
    \/ (On("init") \/ On("configure")) /\ Fault /\ Fatal

\* A step of clone that fails ends it.
CloneFails ==
    /\ step' = "failed"
    /\ UNCHANGED <<cfg, phase, at, user, misread, dir, origin, outer, gaps>>

\* git remote add: the only possible error is that the remote already exists.
AddRemote ==
    /\ On("remote")
    /\ \/ /\ "remote" \notin dir[clonePath]
          /\ Add({"remote"}) /\ origin' = [origin EXCEPT ![clonePath] = at]
          /\ step' = "fetch"
          /\ UNCHANGED <<cfg, phase, at, user, misread, outer, faults, gaps>>
       \/ "remote" \in dir[clonePath] /\ CloneFails /\ UNCHANGED faults
       \/ Fault /\ CloneFails

Fetch ==
    /\ On("fetch")
    /\ \/ /\ user \/ at \notin cfg.private
          /\ Add({"objects"}) /\ step' = "branch"
          /\ UNCHANGED <<cfg, phase, at, user, misread, origin, outer, faults, gaps>>
       \/ ~user /\ at \in cfg.private /\ CloneFails /\ UNCHANGED faults
       \/ Fault /\ CloneFails

\* When the head of the remote cannot be determined, "the repository is
\* likely empty", and nothing is checked out.
DefaultBranch ==
    /\ On("branch")
    /\ \/ step' = "checkout" /\ UNCHANGED <<faults, gaps>>
       \/ /\ Fault
          /\ step' = "lfs" /\ gaps' = gaps \cup {clonePath}
    /\ UNCHANGED <<cfg, phase, at, user, misread, dir, origin, outer>>

Checkout ==
    /\ On("checkout")
    /\ \/ /\ Add({"checkout"}) /\ step' = "lfs"
          /\ UNCHANGED <<cfg, phase, at, user, misread, origin, outer, faults, gaps>>
       \/ Fault /\ CloneFails

\* The size of the files is compared with the free space, then they are pulled.
PullLFS ==
    /\ On("lfs")
    /\ \/ /\ Add(IF cfg.lfsAutoFetch THEN {"lfs"} ELSE {})
          /\ step' = "submodules"
          /\ UNCHANGED <<cfg, phase, at, user, misread, origin, outer, faults, gaps>>
       \/ cfg.lfsAutoFetch /\ Fault /\ CloneFails

UpdateSubmodules ==
    /\ On("submodules")
    /\ \/ /\ Add({"submodules"}) /\ step' = "proxy"
          /\ UNCHANGED <<cfg, phase, at, user, misread, origin, outer, faults, gaps>>
       \/ Fault /\ CloneFails

\* Faulty variant: a failed clone is only logged.
WriteErrorNothing ==
    /\ On("failed")
    /\ dir' = dir /\ step' = "next"
    /\ UNCHANGED <<cfg, phase, at, user, misread, origin, outer, faults, gaps>>

\* A failed clone leaves an ERROR file for the user, and is no error.
WriteError ==
    /\ On("failed")
    /\ Add({"ERROR"}) /\ step' = "next"
    /\ UNCHANGED <<cfg, phase, at, user, misread, origin, outer, faults, gaps>>

\* git config writes to the repository the directory is in.
setupProxy ==
    /\ On("proxy")
    /\ \/ /\ Add(IF cfg.isGitProxyEnabled /\ "init" \in dir[clonePath] THEN {"proxy"} ELSE {})
          /\ step' = "next"
          /\ UNCHANGED <<cfg, phase, at, user, misread, origin, outer, faults, gaps>>
       \/ cfg.isGitProxyEnabled /\ Fault /\ Fatal

-----------------------------------------------------------------------------
(***************************************************************************)
(* The command "clone".                                                    *)
(***************************************************************************)
\* The strategy it reads is always "nostrategy": "let git handle this".
applyPreCloningStrategy ==
    /\ On("strategy")
    /\ step' = "config"
    /\ UNCHANGED <<cfg, phase, at, user, misread, dir, origin, outer, faults, gaps>>

\* The file with the credentials is read and parsed.
ReadCloneConfig ==
    /\ On("config")
    /\ \/ /\ cfg.credentials[at] # "invalid"
          /\ step' = "plainClone"
          /\ UNCHANGED <<cfg, phase, at, user, misread, dir, origin, outer, faults, gaps>>
       \/ cfg.credentials[at] = "invalid" /\ Fatal /\ UNCHANGED faults
       \/ cfg.credentials[at] # "none" /\ Fault /\ Fatal

\* git.PlainClone refuses a directory that is a repository.
PlainClone ==
    /\ On("plainClone")
    /\ \/ /\ "init" \notin dir[clonePath]
          /\ Add({"directory", "init"}) /\ origin' = [origin EXCEPT ![clonePath] = at]
          /\ step' = "cloning"
          /\ UNCHANGED <<cfg, phase, at, user, misread, outer, faults, gaps>>
       \/ "init" \in dir[clonePath] /\ Fatal /\ UNCHANGED faults

\* The server lets the container read the repository.
Readable(r) ==
    cfg.credentials[r] = "valid" \/ (cfg.credentials[r] = "none" /\ r \notin cfg.private)

\* It fetches, checks out and initialises submodules; when that fails it
\* removes the directory it has made.
FinishPlainClone ==
    /\ On("cloning")
    /\ \/ /\ Readable(at)
          /\ Add(Cloned) /\ step' = "next"
          /\ UNCHANGED <<cfg, phase, at, user, misread, origin, outer, faults, gaps>>
       \/ /\ (~Readable(at) /\ UNCHANGED faults) \/ Fault
          /\ dir' = [dir EXCEPT ![clonePath] = {}]
          /\ step' = FirstStep
          /\ UNCHANGED <<cfg, phase, at, user, misread, origin, outer, gaps>>

-----------------------------------------------------------------------------
(***************************************************************************)
(* The user of the running session.                                        *)
(***************************************************************************)
UserWorks(p) ==
    /\ phase = "started" /\ "init" \in dir[p]
    /\ dir' = [dir EXCEPT ![p] = @ \cup {"work"}]
    /\ UNCHANGED <<cfg, phase, at, step, user, misread, origin, outer, faults, gaps>>

UserRemoves(p) ==
    /\ phase = "started"
    /\ dir' = [dir EXCEPT ![p] = {}] /\ gaps' = gaps \ {p}
    /\ UNCHANGED <<cfg, phase, at, step, user, misread, origin, outer, faults>>

UserInitsMountPath ==
    /\ phase = "started" /\ ~outer
    /\ outer' = TRUE
    /\ UNCHANGED <<cfg, phase, at, step, user, misread, dir, origin, faults, gaps>>

Shell ==
    \/ loadRepositories \/ execute \/ getAccessToken \/ initializeRepository
    \/ AddRemote \/ Fetch \/ DefaultBranch \/ Checkout \/ PullLFS \/ UpdateSubmodules
    \/ WriteError \/ setupProxy

Container == Shell \/ applyPreCloningStrategy \/ ReadCloneConfig \/ PlainClone \/ FinishPlainClone \/ NextRepository

Next ==
    \/ Container \/ Kill \/ NewPod \/ UserInitsMountPath
    \/ \E p \in Paths : UserWorks(p) \/ UserRemoves(p)

Spec == Init /\ [][Next]_vars

\* The kubelet runs the init containers until they succeed.
FairSpec == Spec /\ WF_vars(Container)

-----------------------------------------------------------------------------
(***************************************************************************)
(* Properties.                                                             *)
(***************************************************************************)

IsCloned(r) == Cloned \subseteq dir[cfg.clonePath[r]] /\ origin[cfg.clonePath[r]] = r

\* What "shell" leaves for a repository.
ClonedOrError(r) ==
    \/ IsCloned(r)
    \/ "ERROR" \in dir[cfg.clonePath[r]]
    \/ cfg.clonePath[r] \in gaps
    \/ \E s \in Repository \ {r} : cfg.clonePath[s] = cfg.clonePath[r]

ProxySetUp(r) == cfg.isGitProxyEnabled => dir[cfg.clonePath[r]] \cap {"proxy", "ERROR"} # {}

Ready(r) ==
    IF cfg.command = "shell" THEN outer \/ (ClonedOrError(r) /\ ProxySetUp(r)) ELSE IsCloned(r)

\* However often the containers were run and whatever failed before, a session
\* whose containers run "clone" only starts with every repository cloned, each
\* from its own URL.  One whose container runs "shell" starts with each cloned
\* or with an ERROR file in place of it, and behind the git proxy when that is
\* enabled, except where an earlier run was cut short in a directory, two
\* repositories share one, or the whole mount path is a repository.
SessionHasRepositories ==
    [][phase = "init" /\ phase' = "started" => \A r \in Repository : Ready(r)]_vars

\* "Repository exists, skipping cloning": the containers of a later pod take
\* nothing from a directory the user has worked in and add nothing to it but
\* the proxy, unless git rev-parse has just failed there.  Then a directory
\* that was completely cloned gets an ERROR file, and one that was not may
\* get the rest of the clone.
WorkKept ==
    [][phase = "init" =>
         \A p \in Paths : "work" \in dir[p] =>
             /\ dir[p] \subseteq dir'[p]
             /\ dir'[p] \ dir[p] \subseteq
                   {"proxy"} \cup (IF ~(misread /\ p = clonePath) THEN {}
                                  ELSE IF Cloned \subseteq dir[p] THEN {"ERROR"}
                                  ELSE Marks \ {"work"})]_vars

\* The container finds a repository where it should clone one.
TargetRefused == On("plainClone") /\ "init" \in dir[clonePath]
=============================================================================
