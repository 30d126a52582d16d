------------------------- MODULE SessionPod_proofs -------------------------
(***************************************************************************)
(* What the init containers of a session do on its volume (Cloner), for    *)
(* any number of repositories and of failures: the pod of every spec that  *)
(* SessionPod builds starts the session with its repositories, and no      *)
(* container touches the work of the user.                                 *)
(***************************************************************************)
EXTENDS SessionPod, TLAPS

\* The steps of "shell" once it has seen that the repository does not exist.
ShellCloning == {"configure", "remote", "fetch", "branch", "checkout", "lfs", "submodules", "failed"}

ShellSteps == ShellCloning \cup {"load", "execute", "token", "init", "proxy"}

CloneSteps == {"strategy", "config", "plainClone", "cloning"}

\* The steps during which the directory holds a part of a clone.
Cloning == phase = "init" /\ step \in ShellCloning \cup {"cloning"}

\* A step belongs to the command that is run, and a pod that has started is
\* followed by one that begins at the beginning.
StepOfCommand ==
    /\ step \in ShellSteps => cfg.command = "shell"
    /\ step \in CloneSteps => cfg.command # "shell"
    /\ phase = "started" => at = 1 /\ step = FirstStep

\* A directory has the marks in the order in which they are made, and is
\* cloned from a repository that belongs there.
MarkedAt(p) ==
    /\ "work" \in dir[p] => "init" \in dir[p]
    /\ "init" \in dir[p] => "directory" \in dir[p]
    /\ "remote" \in dir[p] => "init" \in dir[p]
    /\ "remote" \in dir[p] => origin[p] \in Repository /\ cfg.clonePath[origin[p]] = p
    /\ "submodules" \in dir[p] => "remote" \in dir[p]

Marked == \A p \in Paths : MarkedAt(p)

\* The clone paths are there once "shell" has loaded its repositories.
Loaded ==
    cfg.command = "shell" /\ step # "load" =>
        \A r \in Repository : "directory" \in dir[cfg.clonePath[r]]

\* What a step can rely on in the directory it works in; the user has not
\* worked there yet, unless git rev-parse has failed on it.
Progress ==
    LET d == dir[clonePath]
    IN  /\ step \in {"token", "init"} => "init" \notin d \/ misread
        /\ step \in ShellCloning => ("work" \notin d \/ misread) /\ "init" \in d
        /\ step = "cloning" => "work" \notin d /\ "init" \in d
        /\ step \in {"fetch", "branch", "checkout", "lfs", "submodules"} => "submodules" \notin d
        /\ step \in {"remote", "fetch", "branch", "checkout", "lfs", "submodules"} => "identity" \in d
        /\ step \in {"fetch", "branch", "checkout", "lfs", "submodules"} => "remote" \in d
        /\ step \in {"branch", "checkout", "lfs", "submodules"} => "objects" \in d
        /\ step \in {"lfs", "submodules"} => "checkout" \in d \/ clonePath \in gaps
        /\ step = "cloning" => origin[clonePath] = at
        /\ step = "proxy" => outer \/ "init" \in d

\* A clone that is not complete is being made, or was cut short.
Complete == \A p \in Paths : CutShort(p) => p \in gaps \/ (Cloning /\ p = clonePath)

\* The repositories the pod is done with are there.
Done(r) == phase = "init" /\ (r < at \/ (r = at /\ step = "next"))

DoneThere == \A r \in Repository : Done(r) => Ready(r)

VolumeInv == StepOfCommand /\ Marked /\ Loaded /\ Progress /\ Complete /\ DoneThere

-----------------------------------------------------------------------------
(***************************************************************************)
(* Types.                                                                  *)
(***************************************************************************)

\* The clone paths are directories of the volume.
LEMMA ConfigType ==
    ASSUME TypeOK
    PROVE  /\ cfg.clonePath \in [Repository -> Paths] /\ clonePath \in Paths
           /\ at \in Repository /\ Repositories \in Nat /\ at \in Nat
           /\ FirstStep \in {"load", "strategy"} /\ FirstStep \in Steps
           /\ 1 \in Repository /\ 1 <= at
  <1>1. Repositories \in Nat \ {0} /\ 1 \in Repository
    BY RepositoriesAssumption DEF Repository
  <1>2. [r \in Repository |-> r] \in [Repository -> Paths]
    BY DEF Paths
  <1>3. [r \in Repository |-> 1] \in [Repository -> Paths]
    BY <1>1 DEF Paths
  <1>4. cfg.clonePath \in [Repository -> Paths]
    BY <1>2, <1>3 DEF TypeOK, CloneConfig
  <1>5. at \in Repository /\ at \in Nat /\ 1 <= at
    BY <1>1 DEF TypeOK, Repository
  <1> QED
    BY <1>1, <1>4, <1>5 DEF clonePath, FirstStep, Steps

\* The building blocks of the actions keep the types.
LEMMA BlockType ==
    ASSUME TypeOK
    PROVE  /\ \A marks \in SUBSET Marks : Add(marks) => dir' \in [Paths -> SUBSET Marks]
           /\ [dir EXCEPT ![clonePath] = {}] \in [Paths -> SUBSET Marks]
           /\ [origin EXCEPT ![clonePath] = at] \in [Paths -> 0 .. Repositories]
           /\ Fault => faults' \in 0 .. MaxFaults
           /\ Fatal => /\ cfg' = cfg /\ phase' = phase /\ dir' = dir /\ origin' = origin /\ outer' = outer
                       /\ at' \in Repository /\ step' \in Steps /\ user' \in BOOLEAN
                       /\ misread' \in BOOLEAN /\ gaps' \subseteq Paths
  <1>1. /\ dir \in [Paths -> SUBSET Marks] /\ origin \in [Paths -> 0 .. Repositories]
        /\ faults \in 0 .. MaxFaults /\ gaps \subseteq Paths
    BY DEF TypeOK
  <1>2. \A marks \in SUBSET Marks : Add(marks) => dir' \in [Paths -> SUBSET Marks]
    BY <1>1 DEF Add
  <1>3. at \in 0 .. Repositories
    BY ConfigType DEF Repository
  <1>4. Fault => faults' \in 0 .. MaxFaults
    BY <1>1, FaultsAssumption DEF Fault
  <1>5. Fatal => /\ cfg' = cfg /\ phase' = phase /\ dir' = dir /\ origin' = origin /\ outer' = outer
                 /\ at' \in Repository /\ step' \in Steps /\ user' \in BOOLEAN
                 /\ misread' \in BOOLEAN /\ gaps' \subseteq Paths
    BY <1>1, ConfigType DEF Fatal
  <1> QED
    BY <1>1, <1>2, <1>3, <1>4, <1>5

\* Every step of the cloner keeps the types.
LEMMA CloneTypes ==
    ASSUME TypeOK, [Next]_vars
    PROVE  TypeOK'
  <1> USE ConfigType, BlockType
  <1>1. /\ {"directory"} \in SUBSET Marks /\ {"init"} \in SUBSET Marks /\ {"identity"} \in SUBSET Marks
        /\ {"remote"} \in SUBSET Marks /\ {"objects"} \in SUBSET Marks /\ {"checkout"} \in SUBSET Marks
        /\ {"lfs"} \in SUBSET Marks /\ {"submodules"} \in SUBSET Marks /\ {"proxy"} \in SUBSET Marks
        /\ {"ERROR"} \in SUBSET Marks /\ {"directory", "init"} \in SUBSET Marks
        /\ Cloned \in SUBSET Marks /\ {} \in SUBSET Marks
    BY DEF Marks, Cloned
  <1>2. CASE loadRepositories
    <2>1. dir' \in [Paths -> SUBSET Marks]
      BY <1>1, <1>2 DEF loadRepositories, TypeOK
    <2> QED BY <1>2, <2>1 DEF loadRepositories, TypeOK, Steps
  <1>3. CASE execute
    <2>1. misread' \in BOOLEAN
      BY <1>3 DEF execute, Exists, TypeOK
    <2>2. faults' \in 0 .. MaxFaults
      BY <1>3 DEF execute, TypeOK
    <2> QED BY <1>3, <2>1, <2>2 DEF execute, TypeOK, Steps
  <1>4. CASE getAccessToken
    <2>1. user' \in BOOLEAN
      BY <1>4 DEF getAccessToken
    <2>2. faults' \in 0 .. MaxFaults
      BY <1>4 DEF getAccessToken, TypeOK
    <2> QED BY <1>4, <2>1, <2>2 DEF getAccessToken, TypeOK, Steps
  <1>5. CASE initializeRepository
    BY <1>1, <1>5 DEF initializeRepository, TypeOK, Steps
  <1>6. CASE AddRemote
    BY <1>1, <1>6 DEF AddRemote, CloneFails, TypeOK, Steps
  <1>7. CASE Fetch
    BY <1>1, <1>7 DEF Fetch, CloneFails, TypeOK, Steps
  <1>8. CASE DefaultBranch
    BY <1>8 DEF DefaultBranch, TypeOK, Steps
  <1>9. CASE Checkout
    BY <1>1, <1>9 DEF Checkout, CloneFails, TypeOK, Steps
  <1>10. CASE PullLFS
    <2>1. (IF cfg.lfsAutoFetch THEN {"lfs"} ELSE {}) \in SUBSET Marks
      BY <1>1
    <2> QED BY <1>10, <2>1 DEF PullLFS, CloneFails, TypeOK, Steps
  <1>11. CASE UpdateSubmodules
    BY <1>1, <1>11 DEF UpdateSubmodules, CloneFails, TypeOK, Steps
  <1>12. CASE WriteError
    BY <1>1, <1>12 DEF WriteError, TypeOK, Steps
  <1>13. CASE setupProxy
    <2>1. (IF cfg.isGitProxyEnabled /\ "init" \in dir[clonePath] THEN {"proxy"} ELSE {}) \in SUBSET Marks
      BY <1>1
    <2> QED BY <1>13, <2>1 DEF setupProxy, TypeOK, Steps
  <1>14. CASE applyPreCloningStrategy
    BY <1>14 DEF applyPreCloningStrategy, TypeOK, Steps
  <1>15. CASE PlainClone \/ ReadCloneConfig
    BY <1>1, <1>15 DEF PlainClone, ReadCloneConfig, TypeOK, Steps
  <1>16. CASE FinishPlainClone
    BY <1>1, <1>16 DEF FinishPlainClone, TypeOK, Steps
  <1>17. CASE NextRepository
    <2>1. at' \in Repository
      BY <1>17 DEF NextRepository, Repository
    <2>2. step' \in Steps /\ phase' \in {"init", "started"}
      BY <1>17 DEF NextRepository, Steps, TypeOK
    <2> QED BY <1>17, <2>1, <2>2 DEF NextRepository, TypeOK
  <1>18. CASE Kill \/ NewPod
    BY <1>18 DEF Kill, NewPod, TypeOK
  <1>19. CASE UserInitsMountPath \/ UNCHANGED vars
    BY <1>19 DEF UserInitsMountPath, TypeOK, vars
  <1>20. CASE \E p \in Paths : UserWorks(p) \/ UserRemoves(p)
    <2>1. "work" \in Marks
      BY DEF Marks
    <2>2. dir' \in [Paths -> SUBSET Marks] /\ gaps' \subseteq Paths
      BY <1>20, <2>1 DEF UserWorks, UserRemoves, TypeOK
    <2> QED BY <1>20, <2>2 DEF UserWorks, UserRemoves, TypeOK
  <1> QED
    BY <1>2, <1>3, <1>4, <1>5, <1>6, <1>7, <1>8, <1>9, <1>10, <1>11, <1>12, <1>13, <1>14,
       <1>15, <1>16, <1>17, <1>18, <1>19, <1>20 DEF Next, Container, Shell

-----------------------------------------------------------------------------
(***************************************************************************)
(* The volume.  A step works on one directory, starts over, or is one of   *)
(* the few others.                                                         *)
(***************************************************************************)

\* A step that works on the directory of the current repository; only the
\* strategies of the command "clone" take something away from it.
WorksOn ==
    /\ phase = "init" /\ step # "load"
    /\ UNCHANGED <<cfg, phase, at, outer>>
    /\ \A p \in Paths \ {clonePath} :
          dir'[p] = dir[p] /\ origin'[p] = origin[p] /\ (p \in gaps' <=> p \in gaps)
    /\ cfg.command = "shell" => dir[clonePath] \subseteq dir'[clonePath]
    /\ step' \in ShellSteps \ {"load"} => cfg.command = "shell"
    /\ step' \in CloneSteps => cfg.command # "shell"
    /\ step' # "load"

\* A step that works on one directory need only be looked at there.
LEMMA WorkOnOne ==
    ASSUME TypeOK, TypeOK', VolumeInv, WorksOn, MarkedAt(clonePath)', Progress',
           CutShort(clonePath)' => clonePath \in gaps' \/ Cloning',
           step' = "next" => Ready(at)',
           cfg.command # "shell" =>
               \A r \in Repository \ {at} : cfg.clonePath[r] = clonePath /\ IsCloned(r) => IsCloned(r)'
    PROVE  VolumeInv'
  <1>1. /\ clonePath' = clonePath /\ clonePath \in Paths /\ at \in Repository
        /\ cfg.clonePath \in [Repository -> Paths] /\ cfg' = cfg /\ at' = at /\ phase' = phase
        /\ phase = "init" /\ outer' = outer
    BY ConfigType DEF WorksOn, clonePath
  <1>2. StepOfCommand'
    BY <1>1 DEF StepOfCommand, WorksOn
  <1>3. Marked'
    BY <1>1 DEF WorksOn, VolumeInv, Marked, MarkedAt
  <1>4. Loaded'
    <2> SUFFICES ASSUME cfg.command = "shell", NEW r \in Repository
                 PROVE  "directory" \in dir'[cfg.clonePath[r]]
      BY <1>1 DEF Loaded
    <2>1. "directory" \in dir[cfg.clonePath[r]]
      BY DEF VolumeInv, Loaded, WorksOn
    <2> QED BY <1>1, <2>1 DEF WorksOn
  <1>5. Complete'
    <2> SUFFICES ASSUME NEW p \in Paths, CutShort(p)', p # clonePath PROVE p \in gaps'
      BY <1>1 DEF Complete
    <2>1. CutShort(p)
      BY DEF CutShort, WorksOn
    <2> QED BY <1>1, <2>1 DEF VolumeInv, Complete, WorksOn
  <1>6. DoneThere'
    <2> SUFFICES ASSUME NEW r \in Repository, Done(r)' PROVE Ready(r)'
      BY DEF DoneThere
    <2>1. CASE r = at
      <3>1. step' = "next"
        BY <1>1, <2>1, ConfigType DEF Done
      <3>2. at' = at /\ r = at
        BY <1>1, <2>1
      <3> QED BY <3>1, <3>2
    <2>2. CASE r # at
      <3>1. Ready(r)
        BY <1>1, <2>2 DEF Done, VolumeInv, DoneThere
      <3>2. CASE cfg.clonePath[r] # clonePath
        BY <1>1, <3>1, <3>2 DEF Ready, IsCloned, ClonedOrError, ProxySetUp, WorksOn
      <3>3. CASE cfg.clonePath[r] = clonePath /\ cfg.command = "shell"
        <4>1. ClonedOrError(r)'
          BY <1>1, <2>2, <3>3 DEF ClonedOrError, clonePath
        <4>2. ProxySetUp(r) => ProxySetUp(r)'
          BY <1>1, <3>3 DEF ProxySetUp, WorksOn
        <4> QED BY <1>1, <3>1, <3>3, <4>1, <4>2 DEF Ready
      <3>4. CASE cfg.clonePath[r] = clonePath /\ cfg.command # "shell"
        BY <1>1, <2>2, <3>1, <3>4 DEF Ready
      <3> QED BY <3>2, <3>3, <3>4
    <2> QED BY <2>1, <2>2
  <1> QED
    BY <1>2, <1>3, <1>4, <1>5, <1>6 DEF VolumeInv

\* A step with which the containers start over, for the same repository or for
\* the first one.
LEMMA StartOver ==
    ASSUME TypeOK, TypeOK', VolumeInv, UNCHANGED <<cfg, dir, origin, outer>>, step' = FirstStep,
           at' \in {1, at}, phase' = "init", at' = at => phase = "init" \/ at = 1,
           \/ gaps' = gaps \cup {p \in {clonePath} : CutShort(p)}
           \/ gaps' = gaps /\ phase = "started"
    PROVE  VolumeInv'
  <1>1. /\ FirstStep \in {"load", "strategy"} /\ cfg' = cfg /\ dir' = dir /\ outer' = outer
        /\ origin' = origin /\ (step' = "load" <=> cfg.command = "shell")
    BY ConfigType DEF FirstStep
  <1>2. StepOfCommand'
    BY <1>1 DEF StepOfCommand, ShellSteps, ShellCloning, CloneSteps
  <1>3. Marked' /\ Loaded' /\ Progress'
    BY <1>1 DEF VolumeInv, Marked, MarkedAt, Loaded, Progress, ShellCloning
  <1>4. Complete'
    <2> SUFFICES ASSUME NEW p \in Paths, CutShort(p)' PROVE p \in gaps'
      BY DEF Complete
    <2>1. CutShort(p)
      BY <1>1 DEF CutShort
    <2> QED BY <2>1 DEF VolumeInv, Complete, Cloning
  <1>5. DoneThere'
    <2> SUFFICES ASSUME NEW r \in Repository, Done(r)' PROVE Ready(r)'
      BY DEF DoneThere
    <2>1. r < at'
      BY <1>1 DEF Done
    <2>2. at' = at /\ phase = "init"
      BY <2>1, RepositoriesAssumption DEF Repository
    <2>3. Ready(r)
      BY <2>1, <2>2 DEF Done, VolumeInv, DoneThere
    <2>4. gaps \subseteq gaps'
      OBVIOUS
    <2> QED BY <1>1, <2>3, <2>4 DEF Ready, IsCloned, ClonedOrError, ProxySetUp
  <1> QED
    BY <1>2, <1>3, <1>4, <1>5 DEF VolumeInv

\* A command that adds marks to the current directory touches no other.
LEMMA Added ==
    ASSUME TypeOK, NEW marks, Add(marks)
    PROVE  /\ dir'[clonePath] = dir[clonePath] \cup marks
           /\ \A p \in Paths \ {clonePath} : dir'[p] = dir[p]
  BY ConfigType DEF Add, TypeOK

\* The current directory before a step.
LEMMA Here ==
    ASSUME TypeOK, VolumeInv
    PROVE  /\ MarkedAt(clonePath) /\ Progress
           /\ CutShort(clonePath) => clonePath \in gaps \/ Cloning
           /\ cfg.command = "shell" /\ step # "load" => "directory" \in dir[clonePath]
  BY ConfigType DEF VolumeInv, Marked, Complete, Loaded, clonePath

\* A clone that fails goes on to its ERROR file.
LEMMA FailsStep ==
    ASSUME TypeOK, TypeOK', VolumeInv, CloneFails, phase = "init", step \in ShellCloning
    PROVE  VolumeInv'
  <1>1. /\ UNCHANGED <<cfg, phase, at, misread, outer, dir, origin, gaps>> /\ step' = "failed"
        /\ clonePath' = clonePath /\ cfg.command = "shell"
    BY DEF CloneFails, clonePath, VolumeInv, StepOfCommand, ShellSteps
  <1>2. WorksOn
    BY <1>1 DEF WorksOn, ShellSteps, ShellCloning, CloneSteps, VolumeInv, StepOfCommand
  <1>3. MarkedAt(clonePath)'
    BY <1>1, Here DEF MarkedAt
  <1>4. Progress' /\ Cloning'
    BY <1>1, Here DEF Progress, ShellCloning, Cloning
  <1> QED
    BY <1>1, <1>2, <1>3, <1>4, WorkOnOne

\* A step of "shell" that adds marks and goes on.
LEMMA AddsStep ==
    ASSUME TypeOK, TypeOK', VolumeInv, phase = "init", step \in ShellCloning \cup {"init"},
           NEW marks \in SUBSET (Cloned \cup {"lfs"}), Add(marks),
           UNCHANGED <<cfg, phase, at, misread, outer, gaps>>,
           step' \in ShellCloning \cup {"proxy"},
           "remote" \in marks => origin'[clonePath] = at,
           "remote" \notin marks => origin'[clonePath] = origin[clonePath],
           \A p \in Paths \ {clonePath} : origin'[p] = origin[p],
           "init" \in dir'[clonePath],
           "submodules" \in marks => "remote" \in dir'[clonePath],
           step' \in {"fetch", "branch", "checkout", "lfs", "submodules"}
               => "submodules" \notin dir'[clonePath],
           step' \in {"remote", "fetch", "branch", "checkout", "lfs", "submodules"}
               => "identity" \in dir'[clonePath],
           step' \in {"fetch", "branch", "checkout", "lfs", "submodules"} => "remote" \in dir'[clonePath],
           step' \in {"branch", "checkout", "lfs", "submodules"} => "objects" \in dir'[clonePath],
           step' \in {"lfs", "submodules"} => "checkout" \in dir'[clonePath] \/ clonePath \in gaps,
           step' = "proxy" => Cloned \subseteq dir'[clonePath] \/ clonePath \in gaps
    PROVE  VolumeInv'
  <1>1. /\ clonePath' = clonePath /\ cfg.command = "shell" /\ "directory" \in dir[clonePath]
        /\ clonePath \in Paths /\ at \in Repository /\ cfg' = cfg /\ phase' = "init" /\ at' = at
        /\ gaps' = gaps /\ outer' = outer /\ misread' = misread
    BY Here, ConfigType DEF clonePath, VolumeInv, StepOfCommand, ShellSteps, ShellCloning
  <1>2. /\ dir'[clonePath] = dir[clonePath] \cup marks
        /\ \A p \in Paths \ {clonePath} : dir'[p] = dir[p]
    BY Added
  <1>3. "work" \notin marks
    BY DEF Cloned
  <1>4. "work" \notin dir[clonePath] \/ misread
    BY Here DEF Progress, MarkedAt, ShellCloning
  <1>5. WorksOn
    BY <1>1, <1>2 DEF WorksOn, ShellSteps, ShellCloning, CloneSteps
  <1>6. MarkedAt(clonePath)'
    BY <1>1, <1>2, <1>3, Here DEF MarkedAt, clonePath
  <1>7. Progress'
    BY <1>1, <1>2, <1>3, <1>4 DEF Progress, ShellCloning
  <1>8. CutShort(clonePath)' => clonePath \in gaps' \/ Cloning'
    BY <1>1 DEF CutShort, Cloning
  <1> QED
    BY <1>1, <1>5, <1>6, <1>7, <1>8, WorkOnOne DEF ShellCloning

\* The steps of "shell" that clone.
LEMMA ShellClones ==
    ASSUME TypeOK, TypeOK', VolumeInv,
           AddRemote \/ Fetch \/ DefaultBranch \/ Checkout \/ PullLFS \/ UpdateSubmodules
    PROVE  VolumeInv'
  <1>1. phase = "init" /\ step \in ShellCloning
    BY DEF AddRemote, Fetch, DefaultBranch, Checkout, PullLFS, UpdateSubmodules, On, ShellCloning
  <1>2. CASE CloneFails
    BY <1>1, <1>2, FailsStep
  <1>3. Progress /\ MarkedAt(clonePath) /\ clonePath \in Paths /\ "directory" \in dir[clonePath]
    BY <1>1, Here, ConfigType DEF VolumeInv, StepOfCommand, ShellCloning, ShellSteps
  <1>4. "init" \in dir[clonePath]
    BY <1>1, <1>3 DEF Progress
  <1>5. CASE AddRemote /\ ~CloneFails
    <2>1. /\ step = "remote" /\ step' = "fetch" /\ Add({"remote"})
          /\ UNCHANGED <<cfg, phase, at, misread, outer, gaps>>
          /\ origin' = [origin EXCEPT ![clonePath] = at] /\ "remote" \notin dir[clonePath]
      BY <1>5 DEF AddRemote, On
    <2>2. origin'[clonePath] = at /\ \A p \in Paths \ {clonePath} : origin'[p] = origin[p]
      BY <1>3, <2>1 DEF TypeOK
    <2>3. "identity" \in dir[clonePath] /\ "submodules" \notin dir[clonePath]
      BY <1>3, <2>1 DEF Progress, MarkedAt
    <2>4. dir'[clonePath] = dir[clonePath] \cup {"remote"}
      BY <2>1, Added
    <2>5. {"remote"} \in SUBSET (Cloned \cup {"lfs"})
      BY DEF Cloned
    <2> QED BY <1>1, <1>4, <2>1, <2>2, <2>3, <2>4, <2>5, AddsStep DEF ShellCloning
  <1>6. CASE Fetch /\ ~CloneFails
    <2>1. /\ step = "fetch" /\ step' = "branch" /\ Add({"objects"})
          /\ UNCHANGED <<cfg, phase, at, misread, outer, gaps, origin>>
      BY <1>6 DEF Fetch, On
    <2>2. /\ "identity" \in dir[clonePath] /\ "remote" \in dir[clonePath]
          /\ "submodules" \notin dir[clonePath]
      BY <1>3, <2>1 DEF Progress
    <2>3. dir'[clonePath] = dir[clonePath] \cup {"objects"}
      BY <2>1, Added
    <2>4. {"objects"} \in SUBSET (Cloned \cup {"lfs"})
      BY DEF Cloned
    <2> QED BY <1>1, <1>4, <2>1, <2>2, <2>3, <2>4, AddsStep DEF ShellCloning
  <1>7. CASE DefaultBranch
    <2>1. /\ step = "branch" /\ UNCHANGED <<cfg, phase, at, misread, outer, dir, origin>>
          /\ \/ step' = "checkout" /\ gaps' = gaps
             \/ step' = "lfs" /\ gaps' = gaps \cup {clonePath}
      BY <1>7 DEF DefaultBranch, On
    <2>2. clonePath' = clonePath /\ cfg.command = "shell"
      BY <1>1, <2>1 DEF clonePath, VolumeInv, StepOfCommand, ShellSteps
    <2>3. WorksOn
      BY <1>1, <2>1 DEF WorksOn, ShellSteps, ShellCloning, CloneSteps, VolumeInv, StepOfCommand
    <2>4. MarkedAt(clonePath)'
      BY <1>3, <2>1, <2>2 DEF MarkedAt
    <2>5. Progress' /\ Cloning' /\ step' # "next"
      BY <1>1, <1>3, <2>1, <2>2 DEF Progress, Cloning, ShellCloning
    <2> QED BY <2>2, <2>3, <2>4, <2>5, WorkOnOne
  <1>8. CASE Checkout /\ ~CloneFails
    <2>1. /\ step = "checkout" /\ step' = "lfs" /\ Add({"checkout"})
          /\ UNCHANGED <<cfg, phase, at, misread, outer, gaps, origin>>
      BY <1>8 DEF Checkout, On
    <2>2. /\ "identity" \in dir[clonePath] /\ "remote" \in dir[clonePath] /\ "objects" \in dir[clonePath]
          /\ "submodules" \notin dir[clonePath]
      BY <1>3, <2>1 DEF Progress
    <2>3. dir'[clonePath] = dir[clonePath] \cup {"checkout"}
      BY <2>1, Added
    <2>4. {"checkout"} \in SUBSET (Cloned \cup {"lfs"})
      BY DEF Cloned
    <2> QED BY <1>1, <1>4, <2>1, <2>2, <2>3, <2>4, AddsStep DEF ShellCloning
  <1>9. CASE PullLFS /\ ~CloneFails
    <2>1. PICK marks \in {{"lfs"}, {}} :
             /\ step = "lfs" /\ step' = "submodules" /\ Add(marks)
             /\ UNCHANGED <<cfg, phase, at, misread, outer, gaps, origin>>
      BY <1>9 DEF PullLFS, On
    <2>2. /\ "identity" \in dir[clonePath] /\ "remote" \in dir[clonePath] /\ "objects" \in dir[clonePath]
          /\ "checkout" \in dir[clonePath] \/ clonePath \in gaps
          /\ "submodules" \notin dir[clonePath]
      BY <1>3, <2>1 DEF Progress
    <2>3. dir'[clonePath] = dir[clonePath] \cup marks
      BY <2>1, Added
    <2>4. marks \in SUBSET (Cloned \cup {"lfs"}) /\ "remote" \notin marks
      BY DEF Cloned
    <2> QED BY <1>1, <1>4, <2>1, <2>2, <2>3, <2>4, AddsStep DEF ShellCloning
  <1>10. CASE UpdateSubmodules /\ ~CloneFails
    <2>1. /\ step = "submodules" /\ step' = "proxy" /\ Add({"submodules"})
          /\ UNCHANGED <<cfg, phase, at, misread, outer, gaps, origin>>
      BY <1>10 DEF UpdateSubmodules, On
    <2>2. /\ "identity" \in dir[clonePath] /\ "remote" \in dir[clonePath] /\ "objects" \in dir[clonePath]
          /\ "checkout" \in dir[clonePath] \/ clonePath \in gaps
          /\ "submodules" \notin dir[clonePath]
      BY <1>3, <2>1 DEF Progress
    <2>3. dir'[clonePath] = dir[clonePath] \cup {"submodules"}
      BY <2>1, Added
    <2>4. {"submodules"} \in SUBSET (Cloned \cup {"lfs"})
      BY DEF Cloned
    <2>5. Cloned \subseteq dir'[clonePath] \/ clonePath \in gaps
      BY <1>3, <1>4, <2>2, <2>3 DEF Cloned
    <2> QED BY <1>1, <1>4, <2>1, <2>2, <2>3, <2>4, <2>5, AddsStep DEF ShellCloning
  <1> QED
    BY <1>2, <1>5, <1>6, <1>7, <1>8, <1>9, <1>10

\* A container that fails, or a pod that is killed, starts over.
LEMMA FatalStep ==
    ASSUME TypeOK, TypeOK', VolumeInv, phase = "init", Fatal
    PROVE  VolumeInv'
  <1>1. /\ UNCHANGED <<cfg, dir, origin, outer>> /\ step' = FirstStep /\ at' \in {1, at}
        /\ phase' = "init" /\ gaps' = gaps \cup {p \in {clonePath} : CutShort(p)}
    BY DEF Fatal
  <1> QED BY <1>1, StartOver

\* The clone paths are made.
LEMMA LoadStep ==
    ASSUME TypeOK, TypeOK', VolumeInv, loadRepositories
    PROVE  VolumeInv'
  <1>1. /\ phase = "init" /\ step = "load" /\ step' = "execute"
        /\ UNCHANGED <<cfg, phase, at, origin, outer, gaps>> /\ cfg.command = "shell"
    BY DEF loadRepositories, On, VolumeInv, StepOfCommand, ShellSteps
  <1>2. /\ \A p \in Paths : dir'[p] \in {dir[p], dir[p] \cup {"directory"}}
        /\ \A r \in Repository : "directory" \in dir'[cfg.clonePath[r]]
    BY ConfigType DEF loadRepositories
  <1>3. cfg.clonePath \in [Repository -> Paths]
    BY ConfigType
  <1>4. StepOfCommand' /\ Loaded'
    BY <1>1, <1>2 DEF StepOfCommand, Loaded, ShellSteps, ShellCloning, CloneSteps
  <1>5. Marked'
    BY <1>1, <1>2 DEF VolumeInv, Marked, MarkedAt
  <1>6. Progress'
    BY <1>1 DEF Progress, ShellCloning
  <1>7. Complete'
    <2> SUFFICES ASSUME NEW p \in Paths, CutShort(p)' PROVE p \in gaps
      BY <1>1 DEF Complete
    <2>1. CutShort(p)
      BY <1>1, <1>2 DEF CutShort, Cloned
    <2> QED BY <1>1, <2>1 DEF VolumeInv, Complete, Cloning, ShellCloning
  <1>8. DoneThere'
    <2> SUFFICES ASSUME NEW r \in Repository, Done(r)' PROVE Ready(r)'
      BY DEF DoneThere
    <2>1. Ready(r)
      BY <1>1 DEF Done, VolumeInv, DoneThere
    <2>2. dir[cfg.clonePath[r]] \subseteq dir'[cfg.clonePath[r]]
      BY <1>2, <1>3
    <2> QED BY <1>1, <2>1, <2>2 DEF Ready, IsCloned, ClonedOrError, ProxySetUp
  <1> QED BY <1>4, <1>5, <1>6, <1>7, <1>8 DEF VolumeInv

\* The steps of "shell" before and after a clone.
LEMMA ShellElse ==
    ASSUME TypeOK, TypeOK', VolumeInv,
           execute \/ getAccessToken \/ initializeRepository \/ WriteError \/ setupProxy
    PROVE  VolumeInv'
  <1>1. /\ phase = "init" /\ step \in {"execute", "token", "init", "configure", "failed", "proxy"}
        /\ cfg.command = "shell"
    BY DEF execute, getAccessToken, initializeRepository, WriteError, setupProxy, On,
           VolumeInv, StepOfCommand, ShellSteps, ShellCloning
  <1>2. /\ Progress /\ MarkedAt(clonePath) /\ clonePath \in Paths /\ "directory" \in dir[clonePath]
        /\ CutShort(clonePath) => clonePath \in gaps \/ Cloning
    BY <1>1, Here, ConfigType
  <1>3. CASE Fatal
    BY <1>1, <1>3, FatalStep
  <1>4. CASE execute \/ getAccessToken
    <2>1. /\ UNCHANGED <<cfg, phase, at, outer, dir, origin, gaps>>
          /\ step \in {"execute", "token"}
          /\ \/ step' = "proxy" /\ ("init" \in dir[clonePath] \/ outer)
             \/ step' \in {"token", "init"} /\ ("init" \notin dir[clonePath] \/ misread')
      BY <1>2, <1>4 DEF execute, getAccessToken, On, Exists, Progress
    <2>2. clonePath' = clonePath
      BY <2>1 DEF clonePath
    <2>3. WorksOn
      BY <1>1, <2>1 DEF WorksOn, ShellSteps, ShellCloning, CloneSteps
    <2>4. MarkedAt(clonePath)' /\ Progress'
      BY <1>2, <2>1, <2>2 DEF MarkedAt, Progress, ShellCloning
    <2>5. CutShort(clonePath)' => clonePath \in gaps'
      BY <1>2, <2>1, <2>2 DEF CutShort, Cloning, ShellCloning
    <2> QED BY <1>1, <2>1, <2>2, <2>3, <2>4, <2>5, WorkOnOne
  <1>5. CASE initializeRepository /\ ~Fatal
    <2>1. PICK marks \in {{"init"}, {"identity"}} :
             /\ Add(marks) /\ UNCHANGED <<cfg, phase, at, misread, outer, gaps, origin>>
             /\ \/ step = "init" /\ step' = "configure" /\ marks = {"init"}
                \/ step = "configure" /\ step' = "remote" /\ marks = {"identity"}
      BY <1>5 DEF initializeRepository, On
    <2>2. dir'[clonePath] = dir[clonePath] \cup marks
      BY <2>1, Added
    <2>3. "init" \in dir'[clonePath]
      BY <1>2, <2>1, <2>2 DEF Progress, ShellCloning
    <2>4. marks \in SUBSET (Cloned \cup {"lfs"}) /\ "remote" \notin marks /\ "submodules" \notin marks
      BY DEF Cloned
    <2> QED BY <1>1, <2>1, <2>2, <2>3, <2>4, AddsStep DEF ShellCloning
  <1>6. CASE WriteError
    <2>1. /\ step = "failed" /\ step' = "next" /\ Add({"ERROR"})
          /\ UNCHANGED <<cfg, phase, at, misread, outer, gaps, origin>>
      BY <1>6 DEF WriteError, On
    <2>2. /\ dir'[clonePath] = dir[clonePath] \cup {"ERROR"}
          /\ \A p \in Paths \ {clonePath} : dir'[p] = dir[p]
      BY <2>1, Added
    <2>3. clonePath' = clonePath
      BY <2>1 DEF clonePath
    <2>4. WorksOn
      BY <1>1, <2>1, <2>2 DEF WorksOn, ShellSteps, ShellCloning, CloneSteps
    <2>5. MarkedAt(clonePath)' /\ Progress'
      BY <1>1, <1>2, <2>1, <2>2, <2>3 DEF MarkedAt, Progress, ShellCloning
    <2>6. ~CutShort(clonePath)'
      BY <2>2, <2>3 DEF CutShort
    <2>7. Ready(at)'
      BY <1>1, <2>1, <2>2, <2>3 DEF Ready, ClonedOrError, ProxySetUp, clonePath
    <2> QED BY <1>1, <2>1, <2>3, <2>4, <2>5, <2>6, <2>7, WorkOnOne
  <1>7. CASE setupProxy /\ ~Fatal
    <2>1. PICK marks \in {{"proxy"}, {}} :
             /\ step = "proxy" /\ step' = "next" /\ Add(marks)
             /\ cfg.isGitProxyEnabled /\ "init" \in dir[clonePath] => marks = {"proxy"}
             /\ UNCHANGED <<cfg, phase, at, misread, outer, gaps, origin>>
      BY <1>7 DEF setupProxy, On
    <2>2. /\ dir'[clonePath] = dir[clonePath] \cup marks
          /\ \A p \in Paths \ {clonePath} : dir'[p] = dir[p]
      BY <2>1, Added
    <2>3. clonePath' = clonePath
      BY <2>1 DEF clonePath
    <2>4. WorksOn
      BY <1>1, <2>1, <2>2 DEF WorksOn, ShellSteps, ShellCloning, CloneSteps
    <2>5. MarkedAt(clonePath)' /\ Progress'
      BY <1>1, <1>2, <2>1, <2>2, <2>3 DEF MarkedAt, Progress, ShellCloning
    <2>6. CutShort(clonePath)' => clonePath \in gaps'
      <3>1. CutShort(clonePath)' => CutShort(clonePath)
        BY <2>1, <2>2, <2>3 DEF CutShort, Cloned
      <3> QED BY <1>2, <2>1, <3>1 DEF Cloning, ShellCloning
    <2>7. ASSUME ~outer PROVE ClonedOrError(at)' /\ ProxySetUp(at)'
      <3>1. "init" \in dir[clonePath]
        BY <1>2, <2>1, <2>7 DEF Progress
      <3>2. ClonedOrError(at)
        <4>1. CASE Cloned \subseteq dir[clonePath]
          <5>1. origin[clonePath] \in Repository /\ cfg.clonePath[origin[clonePath]] = clonePath
            BY <1>2, <4>1 DEF MarkedAt, Cloned
          <5> QED BY <4>1, <5>1 DEF ClonedOrError, IsCloned, clonePath
        <4>2. CASE ~(Cloned \subseteq dir[clonePath])
          <5>1. "ERROR" \in dir[clonePath] \/ clonePath \in gaps
            BY <1>1, <1>2, <2>1, <3>1, <4>2 DEF CutShort, Cloning, ShellCloning
          <5> QED BY <5>1 DEF ClonedOrError, clonePath
        <4> QED BY <4>1, <4>2
      <3>3. ClonedOrError(at)'
        BY <2>1, <2>2, <2>3, <3>2 DEF ClonedOrError, IsCloned, clonePath
      <3>4. ProxySetUp(at)'
        BY <2>1, <2>2, <2>3, <3>1 DEF ProxySetUp, clonePath
      <3> QED BY <3>3, <3>4
    <2>8. Ready(at)'
      BY <1>1, <2>1, <2>7 DEF Ready
    <2> QED BY <1>1, <2>1, <2>3, <2>4, <2>5, <2>6, <2>8, WorkOnOne
  <1> QED
    BY <1>3, <1>4, <1>5, <1>6, <1>7

\* The steps of the command "clone".
LEMMA CloneStep ==
    ASSUME TypeOK, TypeOK', VolumeInv,
           applyPreCloningStrategy \/ ReadCloneConfig \/ PlainClone \/ FinishPlainClone
    PROVE  VolumeInv'
  <1>1. /\ phase = "init" /\ step \in {"strategy", "config", "plainClone", "cloning"}
        /\ cfg.command # "shell"
    BY DEF applyPreCloningStrategy, ReadCloneConfig, PlainClone, FinishPlainClone, On,
           VolumeInv, StepOfCommand, CloneSteps
  <1>2. /\ Progress /\ MarkedAt(clonePath) /\ clonePath \in Paths /\ at \in Repository
        /\ CutShort(clonePath) => clonePath \in gaps \/ Cloning
        /\ dir \in [Paths -> SUBSET Marks] /\ origin \in [Paths -> 0 .. Repositories]
    BY <1>1, Here, ConfigType DEF TypeOK
  <1>3. CASE Fatal
    BY <1>1, <1>3, FatalStep
  <1>4. CASE (applyPreCloningStrategy \/ ReadCloneConfig) /\ ~Fatal
    <2>1. /\ UNCHANGED <<cfg, phase, at, outer, dir, origin, gaps>> /\ clonePath' = clonePath
          /\ step \in {"strategy", "config"} /\ step' \in {"config", "plainClone"}
      BY <1>4 DEF applyPreCloningStrategy, ReadCloneConfig, On, clonePath
    <2>2. WorksOn
      BY <1>1, <2>1 DEF WorksOn, ShellSteps, ShellCloning, CloneSteps
    <2>3. MarkedAt(clonePath)' /\ Progress' /\ ~CutShort(clonePath)'
      BY <1>1, <1>2, <2>1 DEF MarkedAt, Progress, ShellCloning, CutShort
    <2>4. \A r \in Repository : IsCloned(r) => IsCloned(r)'
      BY <2>1 DEF IsCloned
    <2> QED BY <2>1, <2>2, <2>3, <2>4, WorkOnOne
  <1>5. CASE PlainClone /\ ~Fatal
    <2>1. /\ step = "plainClone" /\ step' = "cloning" /\ UNCHANGED <<cfg, phase, at, outer, gaps>>
          /\ Add({"directory", "init"}) /\ origin' = [origin EXCEPT ![clonePath] = at]
          /\ "init" \notin dir[clonePath] /\ clonePath' = clonePath
      BY <1>5 DEF PlainClone, On, clonePath
    <2>2. /\ dir'[clonePath] = dir[clonePath] \cup {"directory", "init"}
          /\ \A p \in Paths \ {clonePath} : dir'[p] = dir[p]
      BY <2>1, Added
    <2>3. origin'[clonePath] = at /\ \A p \in Paths \ {clonePath} : origin'[p] = origin[p]
      BY <1>2, <2>1
    <2>4. WorksOn
      BY <1>1, <2>1, <2>2, <2>3 DEF WorksOn, ShellSteps, ShellCloning, CloneSteps
    <2>5. "work" \notin dir[clonePath] /\ "remote" \notin dir[clonePath]
      BY <1>2, <2>1 DEF MarkedAt
    <2>6. MarkedAt(clonePath)' /\ Progress' /\ Cloning'
      BY <1>1, <1>2, <2>1, <2>2, <2>3, <2>5 DEF MarkedAt, Progress, Cloning, ShellCloning
    <2>7. \A r \in Repository : cfg.clonePath[r] = clonePath => ~IsCloned(r)
      BY <2>1 DEF IsCloned, Cloned
    <2> QED BY <2>1, <2>4, <2>6, <2>7, WorkOnOne
  <1>6. CASE FinishPlainClone
    <2>1. /\ step = "cloning" /\ UNCHANGED <<cfg, phase, at, outer, origin, gaps>>
          /\ clonePath' = clonePath
          /\ \/ step' = "next" /\ Add(Cloned)
             \/ step' = "strategy" /\ dir' = [dir EXCEPT ![clonePath] = {}]
      BY <1>1, <1>6 DEF FinishPlainClone, On, clonePath, FirstStep
    <2>2. origin[clonePath] = at /\ "work" \notin dir[clonePath]
      BY <1>2, <2>1 DEF Progress
    <2>r. \A r \in Repository \ {at} : cfg.clonePath[r] = clonePath => ~IsCloned(r)
      BY <2>2 DEF IsCloned
    <2>3. CASE step' = "next" /\ Add(Cloned)
      <3>1. /\ dir'[clonePath] = dir[clonePath] \cup Cloned
            /\ \A p \in Paths \ {clonePath} : dir'[p] = dir[p]
        BY <2>3, Added
      <3>2. WorksOn
        BY <1>1, <2>1, <2>3, <3>1 DEF WorksOn, ShellSteps, ShellCloning, CloneSteps
      <3>3. Cloned \subseteq dir'[clonePath] /\ "init" \in dir'[clonePath] /\ "directory" \in dir'[clonePath]
        BY <3>1 DEF Cloned
      <3>4. MarkedAt(clonePath)'
        BY <1>2, <2>1, <2>2, <3>1, <3>3 DEF MarkedAt, Cloned, clonePath
      <3>5. Progress' /\ ~CutShort(clonePath)'
        BY <2>1, <2>3, <3>3 DEF Progress, ShellCloning, CutShort
      <3>6. Ready(at)'
        BY <1>1, <2>1, <2>2, <3>3 DEF Ready, IsCloned, clonePath
      <3> QED BY <2>1, <2>r, <3>2, <3>4, <3>5, <3>6, WorkOnOne
    <2>4. CASE step' = "strategy" /\ dir' = [dir EXCEPT ![clonePath] = {}]
      <3>1. dir'[clonePath] = {} /\ \A p \in Paths \ {clonePath} : dir'[p] = dir[p]
        BY <1>2, <2>4
      <3>2. WorksOn
        BY <1>1, <2>1, <2>4, <3>1 DEF WorksOn, ShellSteps, ShellCloning, CloneSteps
      <3>3. MarkedAt(clonePath)' /\ Progress' /\ ~CutShort(clonePath)'
        BY <2>1, <2>4, <3>1 DEF MarkedAt, Progress, ShellCloning, CutShort
      <3> QED BY <2>1, <2>4, <2>r, <3>2, <3>3, WorkOnOne
    <2> QED BY <2>1, <2>3, <2>4
  <1> QED
    BY <1>3, <1>4, <1>5, <1>6

\* The next repository, or the start of the session.
LEMMA NextStep ==
    ASSUME TypeOK, TypeOK', VolumeInv, NextRepository
    PROVE  VolumeInv'
  <1>1. /\ phase = "init" /\ step = "next" /\ UNCHANGED <<cfg, dir, origin, outer, gaps>>
        /\ FirstStep' = FirstStep /\ FirstStep = (IF cfg.command = "shell" THEN "load" ELSE "strategy")
        /\ at \in Nat /\ Repositories \in Nat
    BY ConfigType DEF NextRepository, On, FirstStep
  <1>2. \/ /\ at' = at + 1 /\ phase' = phase
           /\ step' \in {"execute", FirstStep} /\ (step' = "execute" => cfg.command = "shell")
        \/ at' = 1 /\ phase' = "started" /\ step' = FirstStep
    BY <1>1 DEF NextRepository
  <1>3. step' \in {"execute", "load", "strategy"}
    BY <1>1, <1>2
  <1>4. StepOfCommand'
    BY <1>1, <1>2 DEF StepOfCommand, ShellSteps, ShellCloning, CloneSteps
  <1>5. Marked' /\ Loaded'
    BY <1>1 DEF VolumeInv, Marked, MarkedAt, Loaded
  <1>6. Progress'
    BY <1>3 DEF Progress, ShellCloning
  <1>7. Complete'
    BY <1>1 DEF VolumeInv, Complete, CutShort, Cloning, ShellCloning
  <1>8. DoneThere'
    <2> SUFFICES ASSUME NEW r \in Repository, Done(r)' PROVE Ready(r)'
      BY DEF DoneThere
    <2>1. phase' = "init" /\ at' = at + 1 /\ r < at'
      BY <1>2, <1>3 DEF Done
    <2>2. Done(r)
      BY <1>1, <2>1 DEF Done, Repository
    <2>3. Ready(r)
      BY <2>2 DEF VolumeInv, DoneThere
    <2> QED BY <1>1, <2>3 DEF Ready, IsCloned, ClonedOrError, ProxySetUp
  <1> QED BY <1>4, <1>5, <1>6, <1>7, <1>8 DEF VolumeInv

\* The user of a session that has started.
LEMMA UserOfVolume ==
    ASSUME TypeOK, TypeOK', VolumeInv,
           UserInitsMountPath \/ \E p \in Paths : UserWorks(p) \/ UserRemoves(p)
    PROVE  VolumeInv'
  <1>1. /\ phase = "started" /\ UNCHANGED <<cfg, phase, at, step, origin>>
        /\ (outer => outer')
    BY DEF UserInitsMountPath, UserWorks, UserRemoves
  <1>2. step = FirstStep /\ FirstStep \in {"load", "strategy"} /\ FirstStep' = FirstStep
        /\ (cfg.command = "shell" => step = "load") /\ clonePath' = clonePath
    BY <1>1, ConfigType DEF VolumeInv, StepOfCommand, FirstStep, clonePath
  <1>3. dir \in [Paths -> SUBSET Marks]
    BY DEF TypeOK
  <1>4. \A p \in Paths :
           \/ dir'[p] = dir[p] /\ (p \in gaps => p \in gaps')
           \/ dir'[p] = dir[p] \cup {"work"} /\ "init" \in dir[p] /\ (p \in gaps => p \in gaps')
           \/ dir'[p] = {}
    <2>1. CASE UserInitsMountPath
      BY <2>1 DEF UserInitsMountPath
    <2>2. ASSUME NEW q \in Paths, UserWorks(q) \/ UserRemoves(q)
          PROVE  <1>4!:
      BY <1>3, <2>2 DEF UserWorks, UserRemoves
    <2> QED BY <2>1, <2>2
  <1>5. StepOfCommand' /\ Loaded' /\ Progress'
    BY <1>1, <1>2
    DEF VolumeInv, StepOfCommand, Loaded, Progress, ShellCloning
  <1>6. Marked'
    BY <1>1, <1>4 DEF VolumeInv, Marked, MarkedAt
  <1>7. Complete'
    <2> SUFFICES ASSUME NEW p \in Paths, CutShort(p)' PROVE p \in gaps'
      BY DEF Complete
    <2>1. CutShort(p) /\ (p \in gaps => p \in gaps')
      BY <1>1, <1>4 DEF CutShort, Cloned
    <2> QED BY <1>1, <2>1 DEF VolumeInv, Complete, Cloning
  <1>8. DoneThere'
    BY <1>1 DEF DoneThere, Done
  <1> QED BY <1>5, <1>6, <1>7, <1>8 DEF VolumeInv

\* Every step of the containers, the kubelet and the user keeps the invariant.
LEMMA VolumeStep ==
    ASSUME TypeOK, VolumeInv, [Next]_vars
    PROVE  TypeOK' /\ VolumeInv'
  <1>1. TypeOK'
    BY CloneTypes
  <1>2. CASE Container
    BY <1>1, <1>2, LoadStep, ShellElse, ShellClones, CloneStep, NextStep DEF Container, Shell
  <1>3. CASE Kill
    <2>1. /\ UNCHANGED <<cfg, dir, origin, outer>> /\ step' = FirstStep /\ at' = 1
          /\ phase' = "init" /\ phase = "init" /\ gaps' = gaps \cup {p \in {clonePath} : CutShort(p)}
      BY <1>3 DEF Kill
    <2> QED BY <1>1, <2>1, StartOver
  <1>4. CASE NewPod
    <2>1. /\ UNCHANGED <<cfg, dir, origin, outer, gaps>> /\ step' = FirstStep /\ at' = 1
          /\ phase' = "init" /\ phase = "started"
      BY <1>4 DEF NewPod
    <2> QED BY <1>1, <2>1, StartOver
  <1>5. CASE UserInitsMountPath \/ \E p \in Paths : UserWorks(p) \/ UserRemoves(p)
    BY <1>1, <1>5, UserOfVolume
  <1>6. CASE UNCHANGED vars
    <2>1. UNCHANGED <<cfg, phase, at, step, misread, dir, origin, outer, gaps>> /\ clonePath' = clonePath
      BY <1>6 DEF vars, clonePath
    <2>2. StepOfCommand' /\ Marked' /\ Loaded'
      BY <2>1 DEF VolumeInv, StepOfCommand, Marked, MarkedAt, Loaded, FirstStep
    <2>3. Progress' /\ Complete'
      BY <2>1 DEF VolumeInv, Progress, Complete, CutShort, Cloning
    <2>4. DoneThere'
      BY <2>1 DEF VolumeInv, DoneThere, Done, Ready, IsCloned, ClonedOrError, ProxySetUp
    <2> QED BY <1>1, <2>2, <2>3, <2>4 DEF VolumeInv
  <1> QED
    BY <1>1, <1>2, <1>3, <1>4, <1>5, <1>6 DEF Next

\* The invariant holds on an empty volume.
LEMMA VolumeInit ==
    cfg \in CloneConfig /\ EmptyVolume => TypeOK /\ VolumeInv
  <1> SUFFICES ASSUME cfg \in CloneConfig, EmptyVolume PROVE TypeOK /\ VolumeInv
    OBVIOUS
  <1>1. TypeOK
    <2>1. 1 \in Repository /\ 0 \in 0 .. Repositories /\ 0 \in 0 .. MaxFaults
      BY RepositoriesAssumption, FaultsAssumption DEF Repository
    <2>2. step \in Steps
      BY DEF EmptyVolume, FirstStep, Steps
    <2>3. dir \in [Paths -> SUBSET Marks] /\ origin \in [Paths -> 0 .. Repositories]
      BY <2>1 DEF EmptyVolume
    <2>4. user \in BOOLEAN /\ misread \in BOOLEAN /\ outer \in BOOLEAN /\ gaps \subseteq Paths
      BY DEF EmptyVolume
    <2> QED BY <2>1, <2>2, <2>3, <2>4 DEF TypeOK, EmptyVolume
  <1>2. /\ phase = "init" /\ at = 1 /\ step = FirstStep /\ dir = [p \in Paths |-> {}]
        /\ FirstStep = (IF cfg.command = "shell" THEN "load" ELSE "strategy") /\ gaps = {}
    BY DEF EmptyVolume, FirstStep
  <1>3. StepOfCommand /\ Loaded
    BY <1>2 DEF StepOfCommand, Loaded, ShellSteps, ShellCloning, CloneSteps
  <1>4. Marked /\ Complete
    BY <1>2 DEF Marked, MarkedAt, Complete, CutShort
  <1>5. Progress
    BY <1>2 DEF Progress, ShellCloning
  <1>6. DoneThere
    BY <1>2 DEF DoneThere, Done, Repository
  <1> QED BY <1>1, <1>3, <1>4, <1>5, <1>6 DEF VolumeInv

\* The same of the state after a step: BuildPod hands an empty volume over.
LEMMA VolumeInitNext ==
    (cfg \in CloneConfig /\ EmptyVolume => TypeOK /\ VolumeInv)'
  BY VolumeInit, PTL

\* The volume is empty until the pod is built.
PodInv == TypeOK /\ VolumeInv /\ (built = "no" => EmptyVolume)

\* Building the pod starts the cloner; refusing it leaves the volume alone.
LEMMA PodStep ==
    ASSUME PodInv, [PodNext]_podVars
    PROVE  PodInv'
  <1>1. CASE BuildPod /\ built' = "built"
    <2>1. cfg' \in CloneConfig /\ step' = (IF cfg'.command = "shell" THEN "load" ELSE "strategy")
      BY <1>1 DEF BuildPod, InitContainersOf, SessionContainers, UserContainers
    <2>2. EmptyVolume'
      BY <1>1, <2>1 DEF PodInv, BuildPod, EmptyVolume, FirstStep
    <2> QED BY <1>1, <2>1, <2>2, VolumeInitNext DEF PodInv
  <1>2. ASSUME [Next]_vars, built' = "no" => built = "no" /\ UNCHANGED vars PROVE PodInv'
    <2>1. TypeOK' /\ VolumeInv'
      BY <1>2, VolumeStep DEF PodInv
    <2>2. built' = "no" => EmptyVolume'
      BY <1>2 DEF PodInv, EmptyVolume, FirstStep, vars
    <2> QED BY <2>1, <2>2 DEF PodInv
  <1>3. CASE BuildPod /\ built' # "built"
    BY <1>2, <1>3 DEF BuildPod, vars
  <1>4. CASE RefusePod
    BY <1>2, <1>4 DEF RefusePod
  <1>5. CASE built = "built" /\ Next /\ UNCHANGED <<spec, built>>
    <2>1. built' # "no"
      BY <1>5
    <2>2. [Next]_vars
      BY <1>5, Zenon
    <2> QED BY <1>2, <2>1, <2>2
  <1>6. CASE UNCHANGED podVars
    BY <1>2, <1>6 DEF podVars
  <1> QED
    BY <1>1, <1>3, <1>4, <1>5, <1>6 DEF PodNext

\* The volume is empty at the beginning.
LEMMA PodInvInit == PodInit => PodInv
  <1> SUFFICES ASSUME PodInit PROVE PodInv
    OBVIOUS
  <1>1. cfg \in CloneConfig
    <2>1. {} \in SUBSET Repository
      OBVIOUS
    <2>2. [r \in Repository |-> "none"] \in [Repository -> Credentials]
      BY DEF Credentials
    <2> QED BY <2>1, <2>2 DEF PodInit, CloneConfig, Strategies
  <1>2. EmptyVolume
    BY Zenon DEF PodInit
  <1> QED BY <1>1, <1>2, VolumeInit DEF PodInv

\* The init containers keep the invariant of the volume, whether they run alone
\* (internal/cloner) or in the pod that AmaltheaSession.Pod describes.
THEOREM VolumeInvariant ==
    /\ Spec => [](TypeOK /\ VolumeInv)
    /\ PodSpec => [](TypeOK /\ VolumeInv)
  <1>1. Init => TypeOK /\ VolumeInv
    BY VolumeInit DEF Init
  <1>2. TypeOK /\ VolumeInv /\ [Next]_vars => (TypeOK /\ VolumeInv)'
    BY VolumeStep
  <1>3. Spec => [](TypeOK /\ VolumeInv)
    BY <1>1, <1>2, PTL DEF Spec
  <1>4. PodInv /\ [PodNext]_podVars => PodInv'
    BY PodStep
  <1>5. PodInv => TypeOK /\ VolumeInv
    BY DEF PodInv
  <1>6. PodSpec => [](TypeOK /\ VolumeInv)
    BY <1>4, <1>5, PodInvInit, PTL DEF PodSpec
  <1> QED BY <1>3, <1>6

-----------------------------------------------------------------------------
(***************************************************************************)
(* The properties.                                                         *)
(***************************************************************************)

\* A step of the pod is one of its containers, or leaves the volume alone.
LEMMA PodSteps ==
    ASSUME [PodNext]_podVars
    PROVE  [Next]_vars \/ (dir' = dir /\ phase' = phase)
  BY DEF PodNext, RefusePod, BuildPod, podVars

\* The pod starts only when it is done with its last repository.
LEMMA StartsComplete ==
    ASSUME TypeOK, VolumeInv, [Next]_vars, phase = "init", phase' = "started",
           NEW r \in Repository
    PROVE  Ready(r)
  <1>1. phase' # phase
    OBVIOUS
  <1>2. NextRepository
    BY <1>1
    DEF Next, Container, Shell, Kill, NewPod, UserInitsMountPath, UserWorks, UserRemoves,
        loadRepositories, execute, getAccessToken, initializeRepository, AddRemote, Fetch,
        DefaultBranch, Checkout, PullLFS, UpdateSubmodules, WriteError, setupProxy, CloneFails,
        applyPreCloningStrategy, ReadCloneConfig, PlainClone, FinishPlainClone, Fatal, vars
  <1>3. step = "next" /\ at = Repositories
    BY <1>1, <1>2 DEF NextRepository, On
  <1>4. Done(r)
    BY <1>3, RepositoriesAssumption DEF Done, Repository
  <1> QED BY <1>4 DEF VolumeInv, DoneThere

\* A session starts with its repositories cloned, or with the command "shell"
\* also with an ERROR file in place of those that Cloner.clone failed for, and
\* with the git proxy set up, whatever failed before.
THEOREM SessionStartsComplete ==
    (Spec => SessionHasRepositories) /\ (PodSpec => SessionHasRepositories)
  <1> DEFINE Starts == phase = "init" /\ phase' = "started" => \A r \in Repository : Ready(r)
  <1>1. TypeOK /\ VolumeInv /\ [Next]_vars => [Starts]_vars
    BY StartsComplete
  <1>2. TypeOK /\ VolumeInv /\ [PodNext]_podVars => [Starts]_vars
    BY <1>1, PodSteps
  <1> HIDE DEF Starts
  <1>3. Spec => [][Starts]_vars
    BY <1>1, VolumeInvariant, PTL DEF Spec
  <1>4. PodSpec => [][Starts]_vars
    BY <1>2, VolumeInvariant, PTL DEF PodSpec
  <1> QED BY <1>3, <1>4 DEF SessionHasRepositories, Starts

\* What the containers may add to a directory with work in it.
MayAdd(p) ==
    {"proxy"} \cup (IF ~(misread /\ p = clonePath) THEN {}
                   ELSE IF Cloned \subseteq dir[p] THEN {"ERROR"}
                   ELSE Marks \ {"work"})

Keeps(p) == dir[p] \subseteq dir'[p] /\ dir'[p] \ dir[p] \subseteq MayAdd(p)

\* A step of "shell" that adds a mark works where git rev-parse has failed, or
\* not where the user has worked; in a complete clone it finds its marks.
LEMMA AddKeeps ==
    ASSUME TypeOK, NEW p \in Paths, "work" \in dir[p], NEW mark \in Marks, Add({mark}),
           clonePath = p => misread, clonePath = p /\ Cloned \subseteq dir[p] => mark \in dir[p] \cup {"ERROR"}
    PROVE  Keeps(p)
  <1>1. dir'[clonePath] = dir[clonePath] \cup {mark} /\ \A q \in Paths \ {clonePath} : dir'[q] = dir[q]
    BY Added
  <1>2. CASE clonePath # p
    BY <1>1, <1>2 DEF Keeps
  <1>3. CASE clonePath = p /\ Cloned \subseteq dir[p]
    BY <1>1, <1>3 DEF Keeps, MayAdd
  <1>4. CASE clonePath = p /\ ~(Cloned \subseteq dir[p])
    BY <1>1, <1>4 DEF Keeps, MayAdd
  <1> QED BY <1>2, <1>3, <1>4

\* No container touches a directory with work in it beyond MayAdd.
LEMMA WorkUntouched ==
    ASSUME TypeOK, VolumeInv, [Next]_vars, phase = "init", NEW p \in Paths, "work" \in dir[p]
    PROVE  Keeps(p)
  <1>1. /\ clonePath \in Paths /\ dir \in [Paths -> SUBSET Marks]
        /\ Progress /\ MarkedAt(clonePath) /\ MarkedAt(p)
    BY ConfigType, Here DEF TypeOK, VolumeInv, Marked
  <1>2. "directory" \in dir[p] /\ "init" \in dir[p]
    BY <1>1 DEF MarkedAt
  <1>3. /\ step \in ShellCloning \cup {"init"} => (clonePath = p => misread)
        /\ step = "cloning" => clonePath # p
        /\ step \in {"fetch", "branch", "checkout", "lfs", "submodules"} /\ clonePath = p => "submodules" \notin dir[p]
    BY <1>1, <1>2 DEF Progress
  <1>4. /\ "submodules" \in Cloned /\ "remote" \in Cloned /\ "init" \in Cloned /\ "identity" \in Cloned
        /\ Cloned \subseteq Marks /\ "ERROR" \in Marks /\ "lfs" \in Marks /\ "checkout" \in Cloned /\ "objects" \in Cloned
    BY DEF Cloned, Marks
  <1>5. ASSUME dir'[p] = dir[p] PROVE Keeps(p)
    BY <1>5 DEF Keeps
  <1>6. CASE loadRepositories
    <2>1. dir'[p] = dir[p]
      BY <1>2, <1>6 DEF loadRepositories
    <2> QED BY <2>1, <1>5
  <1>7. CASE setupProxy
    <2>1. dir' = dir \/ Add({"proxy"}) \/ Add({})
      BY <1>7 DEF setupProxy, Fatal
    <2>2. dir'[p] = dir[p] \/ dir'[p] = dir[p] \cup {"proxy"}
      BY <2>1, Added
    <2> QED BY <2>2 DEF Keeps, MayAdd
  <1>8. CASE initializeRepository
    <2>1. step \in ShellCloning \cup {"init"} /\ (dir' = dir \/ Add({"init"}) \/ Add({"identity"}))
      BY <1>8 DEF initializeRepository, Fatal, On, ShellCloning
    <2> QED BY <1>3, <1>4, <1>5, <2>1, AddKeeps
  <1>9. CASE AddRemote
    <2>1. step \in ShellCloning /\ (dir' = dir \/ ("remote" \notin dir[clonePath] /\ Add({"remote"})))
      BY <1>9 DEF AddRemote, CloneFails, On, ShellCloning
    <2> QED BY <1>3, <1>4, <1>5, <2>1, AddKeeps
  <1>10. CASE Fetch \/ DefaultBranch \/ Checkout \/ PullLFS \/ UpdateSubmodules
    <2>1. /\ step \in {"fetch", "branch", "checkout", "lfs", "submodules"}
          /\ \/ dir' = dir \/ Add({})
             \/ Add({"objects"}) \/ Add({"checkout"}) \/ Add({"lfs"}) \/ Add({"submodules"})
      BY <1>10 DEF Fetch, DefaultBranch, Checkout, PullLFS, UpdateSubmodules, CloneFails, On
    <2>2. step \in ShellCloning /\ (clonePath = p => ~(Cloned \subseteq dir[p]))
      BY <1>3, <1>4, <2>1 DEF ShellCloning
    <2>3. Add({}) => dir'[p] = dir[p]
      BY Added
    <2> QED BY <1>3, <1>4, <1>5, <2>1, <2>2, <2>3, AddKeeps
  <1>11. CASE WriteError
    <2>1. step \in ShellCloning /\ Add({"ERROR"})
      BY <1>11 DEF WriteError, On, ShellCloning
    <2> QED BY <1>3, <1>4, <2>1, AddKeeps
  <1>12. CASE PlainClone
    <2>1. dir' = dir \/ ("init" \notin dir[clonePath] /\ Add({"directory", "init"}))
      BY <1>12 DEF PlainClone, Fatal
    <2>2. dir'[p] = dir[p]
      BY <1>2, <2>1, Added
    <2> QED BY <1>5, <2>2
  <1>13. CASE FinishPlainClone
    <2>1. clonePath # p
      BY <1>3, <1>13 DEF FinishPlainClone, On
    <2>2. CASE Add(Cloned)
      BY <1>5, <2>1, <2>2, Added
    <2>3. CASE dir' = [dir EXCEPT ![clonePath] = {}]
      BY <1>1, <1>5, <2>1, <2>3
    <2> QED BY <1>13, <2>2, <2>3 DEF FinishPlainClone
  <1>14. CASE \/ execute \/ getAccessToken \/ applyPreCloningStrategy \/ ReadCloneConfig
              \/ NextRepository \/ Kill \/ NewPod \/ UserInitsMountPath \/ UNCHANGED vars
    <2>1. dir' = dir
      BY <1>14
      DEF execute, getAccessToken, applyPreCloningStrategy, ReadCloneConfig, Fatal,
          NextRepository, Kill, NewPod, UserInitsMountPath, vars
    <2> QED BY <1>5, <2>1
  <1>15. \A q : ~UserWorks(q) /\ ~UserRemoves(q)
    BY DEF UserWorks, UserRemoves
  <1> QED
    BY <1>6, <1>7, <1>8, <1>9, <1>10, <1>11, <1>12, <1>13, <1>14, <1>15 DEF Next, Container, Shell

\* The containers of a later pod take nothing from a directory the user has
\* worked in, and add to it at most the proxy, or what follows when git
\* rev-parse has failed on it (Cloner.execute).
THEOREM WorkIsKept == (Spec => WorkKept) /\ (PodSpec => WorkKept)
  <1> DEFINE Kept ==
        phase = "init" =>
          \A p \in Paths : "work" \in dir[p] =>
             /\ dir[p] \subseteq dir'[p]
             /\ dir'[p] \ dir[p] \subseteq
                   {"proxy"} \cup (IF ~(misread /\ p = clonePath) THEN {}
                                  ELSE IF Cloned \subseteq dir[p] THEN {"ERROR"}
                                  ELSE Marks \ {"work"})
  <1>1. TypeOK /\ VolumeInv /\ [Next]_vars => [Kept]_vars
    BY WorkUntouched DEF Keeps, MayAdd
  <1>2. ASSUME dir' = dir PROVE Kept
    BY <1>2
  <1>3. TypeOK /\ VolumeInv /\ [PodNext]_podVars => [Kept]_vars
    BY <1>1, <1>2, PodSteps
  <1> HIDE DEF Kept
  <1>4. Spec => [][Kept]_vars
    BY <1>1, VolumeInvariant, PTL DEF Spec
  <1>5. PodSpec => [][Kept]_vars
    BY <1>3, VolumeInvariant, PTL DEF PodSpec
  <1> QED BY <1>4, <1>5 DEF WorkKept, Kept
=============================================================================
