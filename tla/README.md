# A TLA+ model of Amalthea

Amalthea is a Kubernetes operator. It runs the interactive sessions and the batch
jobs of Renku that users describe as `AmaltheaSession` custom resources, hibernates
them when they are idle, too old or failing, and deletes them after a retention
time. Beside the operator the repository holds the sidecars of a session: a
controller for sessions that run on a remote cluster, a git proxy, a git cloner,
an authentication proxy and a tunnel. This directory models the parts with state
that several actors share or that have to survive failures, checks them with TLC on
small instances, and proves the safety of the operator's reconciler with TLAPS for
all instances.

## 1. The system

| Part | Source | State | Operations | What is hard |
|---|---|---|---|---|
| Reconciler | `internal/controller/amaltheasession_controller.go` | the custom resource (spec, status, finalizer, deletion mark), a cached copy of it, the copy a pass works on | one pass: read, first status, finalizer, deletion branch, run ID, children, status and its retry, retention, hibernation | every write may conflict with a user's; the read may be stale; the operator may restart between any two calls |
| Children | `internal/controller/children.go`, `api/v1alpha1/amaltheasession_children.go` | StatefulSet or Job, ingress, service, volumes, secret | create or patch; delete the ingress when hibernated | the patch is computed from a cached copy; one child fails and others do not |
| Status | `internal/controller/children.go`, `status.go`, `children_conditions.go` | clocks (`idleSince`, `failingSince`, `failedSchedulingSince`, `hibernatedSince`), conditions, state | computed in each pass from the last one, the pod, the Job, the events and the metrics | clocks carried over from one run to the next; events that outlive their cause |
| Culling | `internal/controller/cull.go` | `willHibernateAt`, `spec.hibernated` | earliest of four dates, hibernate after it | dates computed from an old status |
| Manifests | `api/v1alpha1/amaltheasession_children.go`, `auth_templates.go`, `code_repo_templates.go`, `internal/controller/config/image_field_rewriter.go` | none | containers, volumes, secrets, service, ingress, images from a spec | every combination of options has to fit together |
| Cloner | `internal/cloner` | the directories of the repositories | init, fetch, checkout, submodules, proxy | killed between two git commands and run again on the same volume |
| FirecREST controller | `internal/remote/firecrest/controller.go`, `status.go`, `firecrest_gen.go`, `internal/remote/server/server.go` | job ID, log paths, status, `state.json`, the session directory on the cluster | Start, Stop, a tick per minute | two goroutines without a lock; a crash between submitting a job and saving its ID; a dozen calls to set up a directory |
| Log streaming | same file | offset, partial line, saved offset | fetch, print lines, save | answers that end inside a line; restarts |
| Run:ai controller | `internal/remote/runai` | job name and ID, `state.json` | Start, Stop, tick | as FirecREST; the ID is saved and not recovered |
| Remote authentication | `internal/remote/firecrest/auth`, `internal/remote/runai/auth` | two tokens behind two locks | get, refresh, inject, retry, refresh periodically | refresh tokens that work once; callers that give up; tokens that are revoked |
| Remote configuration | `internal/remote/config` | settings | validate, select a backend | two backends validated in different places |
| Token store | `internal/git-https-proxy/tokenstore` | renku access and refresh token, git tokens, two read-write locks | get a git token, refresh either, refresh periodically | nested locks held over HTTP calls; refresh tokens that work once |
| Git proxy | `internal/git-https-proxy/proxy`, `root.go`, `config` | requests under way | match, authenticate, forward or refuse | several handlers see one request |
| Others | `internal/authproxy`, `internal/tunnel`, `cmd`, generated deep copies, packaging | none that is shared | | |

How they interact. Users and the reconciler share the custom resource through
the API server (optimistic concurrency). The reconciler drives the StatefulSet or
Job and reads pods, events and metrics. The pod it builds (`Manifests`) runs the
cloner in its init containers on the session's volume; `SessionPod` composes the two.
The sidecars share nothing with the reconciler but the pod's readiness. In the remote
sidecar a validated configuration selects one of two controllers behind one
interface; `RemoteSidecar` composes them. The git proxy calls its token store for each
request; `GitProxy` extends `TokenStore`. `RemoteAuth` is used by the API clients of
both remote controllers, which see it as calls that work or fail.

What makes each part correct:

- Reconciler: every write is one step in the life of a session; it never loses a
  user's change, never gives a run a second ID, deletes only sessions whose retention
  is over, keeps the finalizer until the secrets are gone, and gets it done in the end.
- Status and culling: no clock of one run counts against another; limits
  are enforced; failures are reported while they last; a job's result is kept.
- Pod: what is built fits together, requests pass the authentication once, the
  session starts on its repositories, and work in them survives the next pod.
- Remote controller: at most one job per session, none after Stop, no secret where
  others can read it, no job without its files.
- Logs: every line is printed whole, none lost, little repeated.
- Tokens: no refresh token is used twice or thrown away, no stale token is used, no
  token goes to another host, every request is answered.

## 2. Modules

| Module | Models | Notes |
|---|---|---|
| `Culling` | `cull.go` | pure: dates are numbers, 0 is the zero time, duration 0 is "off" |
| `SessionStatus` | `ChildResourceUpdates.Status` and what it calls, `NeedsDeletion` | pure: old status, child updates, pod, events, load, clock to new status |
| `SessionController` | `reconcileInner`, one action per call to the API server, with users, cluster, informer and clock | uses the two above |
| `SessionHistory` | | `SessionController` with a memory of when the workload was scaled and whether the status was told |
| `SessionLifecycle` | | abstract: what a session promises its users |
| `SessionRefinement` | | `SessionController` implements `SessionLifecycle` |
| `JobSession` | the same code for sessions of type `NonInteractive`, and the state gauge | uses `Culling` |
| `Manifests` | the objects made from a spec | pure |
| `Cloner` | both commands of the cloner | |
| `SessionPod` | | composes `Manifests` and `Cloner` |
| `FirecrestClient` | requests and Parse functions of the generated client | pure |
| `RemoteSession` | the FirecREST controller and its process | extends `FirecrestClient` |
| `RunaiSession` | the Run:ai controller | has the variables of `RemoteSession` |
| `RemoteConfig` | validation of the configuration | pure |
| `RemoteSidecar` | `server.go`, `controller.go` | composes the three above |
| `LogStream` | `fetchLogStream` and the saved offset | |
| `RemoteAuth` | the four ways of authentication, the retry of Run:ai's client | |
| `TokenStore` | the token store | |
| `GitProxy` | proxy, configuration, process | extends `TokenStore` |
| `SessionController_proofs` | | the reconciler: types and inductive invariant |
| `SessionSafety_proofs` | | the reconciler: safety, refinement, clocks |
| `JobSession_proofs`, `SessionPod_proofs`, `RemoteSidecar_proofs`, `RemoteAuth_proofs`, `LogStream_proofs`, `GitProxy_proofs` | | the safety of the modules they extend |
| `MCSessionController`, `MCSessionHistory`, `MCRemoteSession`, `MCGitProxy` | | instances for TLC |

Operators keep the names of the Go functions they translate. An operator after a
comment "Faulty variant" is a mistake someone could make in the operator below it,
and violates a property, which shows that the property depends on that code.

### SessionController

`rec.pc` is the next API call of the pass, `rec.obj` the Go variable
`amaltheasession`, `rec.updates` what reconciling the children returned.

- Resource versions are replaced by the question they answer: is this copy of the
  current version (`cacheFresh`, `rec.fresh`)? A write is accepted when it is.
- With `InformerLag` the cache may keep an old version of the custom resource and
  of the StatefulSet. When it catches up it takes the current version; versions in
  between are not modelled. The ingress is read without lag.
- A write of any actor other than the pass makes `rec.fresh` false. So does, for
  later passes, the pass's own write when the cache lags.
- Each of the three status updates that is refused is tried once more: the second
  read (`GetAgain`) and the second write are steps of their own, users may write between
  them, and a second refusal ends the pass.
- `CreateOrPatch` sends the difference between the desired and the *cached*
  StatefulSet (`Patched`), and fails when only one of cached and stored exists.
- `Children`: the StatefulSet, the ingress and "other" may each fail; any failure
  ends the pass before the status is written (`combineErrors`).
- A pod is a phase: `none`, `pending`, `fresh` (ready, container younger than
  `freshContainerMinimalAge`), `running`, `failing`, `terminating`. Failure
  messages of the pod, the volumes, the service and the ingress are one phase,
  `failing`. The readiness of the StatefulSet is that of its pod. The states
  `Succeeded` and `RunningDegraded` do not occur: a StatefulSet's pod is restarted
  always.
- The latest scheduling event of the pod's name and a quota event are the
  `events`; they may expire.
- `ulid.Make` draws an ID not in use.
- The session may be deleted at any time, with or without a finalizer; children
  without an owner are collected.
- The CPU reading is any of `IdleDecision` at the time of each pass, none included.
- `Activity` switches kinds of events on, so that each run pays for the ones it
  is about: `pods`, `load`, `failure`, `scheduling`, `quota`, `interaction`,
  `deletion`, `crash`, `childError`, `apiError`.
- `culling` is constant in a behaviour (users change `lastInteraction` only);
  one session is modelled, as the reconciler never runs two passes for one
  session at a time and sessions share nothing.

### SessionHistory

The clocks in the status are reset by a callback that is registered only in the pass
that scales the StatefulSet, and applied in its status update. `scaledAt` is when the
replicas last changed. `untold` holds from a scaling down until a status is stored that
this callback has cleared: it stays when a child of the pass fails, the operator
restarts, the API fails, or both status updates meet a user's write. `quotaHit` holds
once an exceeded quota was reported. The three variables only remember; they enable and
disable nothing.

### SessionLifecycle and SessionRefinement

The abstract specification has five variables: the phase of a session (active,
deleting, gone), whether it holds on to its adopted secrets, what its users asked for,
its run, and the secrets left. Its steps are the ones a user could observe: hibernate,
resume, start a run, end it, ask for deletion, delete one secret, go. The mapping reads
all of them from the stored resource; the cache and the pass's copies do not occur. So
the refinement says that stale copies, conflicts, retries, errors and restarts have
no effect a user could see. A session being deleted may still be hibernated, not resumed:
a pass that decided to hibernate may read, after a conflict, a copy that is being deleted,
and writes its decision to that.

### JobSession

A pass is read, reconcile the Job, update the status, finish. Conflicts are left to
`SessionController`: here a pass reads what is stored, and users, the Job
controller and the pod move between its calls. `rec.suspend` and `rec.active` are of
the Job as the pass changed it in memory, written or not: the error of that write is
not among those `combineErrors` looks at, and the pass goes on. Events and load are
looked up under the name of a StatefulSet's pod, so a Job has neither. `doneAt` is
history: the first time the job was in trouble or done. `series` is the label set of
the state gauge.

### Manifests and SessionPod

A container is its mounts, the ports it listens on, the port it passes requests on
to, whether it authenticates and strips paths, and the keys of secrets it needs.
Names and settings that are copied are left out. `Init` chooses any spec from the
options that change what is built; `BuildPod` builds the objects, on which the
properties are stated, and hands the cloning containers to `Cloner`, each with the
credentials its repository has in the spec (accepted by the server, rejected, or not
usable at all); or a container of the user's own, which may run any command of the
cloner, without credentials. Images are sequences of path segments, as the rules compare
prefixes that end at a "/".

### Cloner

The directory of a repository is the set of things done to it (`init`, `remote`,
`objects`, `checkout`, ...). One action per git command; a command fails or the
container is killed at most `MaxFaults` times. The user works in a started session, the
pod is replaced, and all init containers run again.

`shell` (`shellclone`) asks `git rev-parse` whether there is a repository, and takes any
failure for a no; `misread` remembers that it was wrong. `gaps` records the directories
`shell` was cut short in so that its next run takes them for done (after `git init`, or
when `set-head` failed).

`clone` is run with `--strategy notifexist` for the repositories of a session. The flag is
bound to a local variable of `Command` (`root.go:35`, `:53`) that hides the package variable
(`clone.go:58`) read by `applyPreCloningStrategy` (`:68`), which therefore always finds
`nostrategy`: an existing repository is left to `git.PlainClone`, which refuses it, and
`log.Fatal` ends the container (`TargetRefused`). The model does what the code does.

### FirecrestClient and RemoteSession

An answer is a status code, a content type and a body that is complete, without the
fields asked for, malformed, or cut short. The Parse functions are translated for
the operations the controller uses; the controller's calls accept the answers their
code accepts. A call may have been performed whatever its answer.

`main` is the next step of the goroutine of `server.Start`, `Start` and `Stop`;
`tick` that of `periodicSessionStatus`. Both use the controller's fields and
the file without a lock. `os.WriteFile` is two steps, truncate and write; two
overlapping writes may leave a mixture; a file removed while open stays removed.
`site` is what is in the session directory of each file system. `recoverState` is one
step: the first tick is a minute later. A failing `Start` ends the process without
Stop; the kubelet starts it again. `gaps` records where a job was lost track of: its
ID was not yet saved ("submission"), the file was being written ("writing"), it could
not be read and was taken for missing, so that a second job is submitted ("reading"), it
was removed and the cancellation did not happen ("cancelling").

### RunaiSession, RemoteConfig and RemoteSidecar

Run:ai's controller has the same shape, an unreadable state file included: recover, name
the job, get the project, create the workspace, save. Only Start writes the file. A tick asks for the workloads
and uses no more than whether that worked, so the status is empty or NotReady and never
Running. A configuration is the set of settings with a value; `RemoteSidecar` begins
with any configuration and runs the controller it selects, or exits.

### LogStream

A byte is its position in the log; `log` says which bytes are newlines. One tick
fetches at most `Size` bytes behind offset and buffer, prints whole lines and saves
the offset. `Start` saves too, concurrently with a tick. The two streams run the
same code, one is modelled. A failed write to stdout is only logged by the code
and counts as printed.

### RemoteAuth

Tokens are numbers, the larger the newer. `stale` tokens are past their margin, `dead`
ones are rejected by the server; tokens are made so at any time, `MaxExpiries` times.
A goroutine of a caller reads under the read lock, refreshes under the write lock,
injects the header and sends; Run:ai's client retries once when the answer is 401.

A refresh is two steps under the lock: the refresh token is read and sent (`LockRenku`,
`sent`), and the answer is stored. Kind `renku_v2` stores both tokens of the answer
whatever they are: an answer without a refresh token overwrites the one there is, and an
access token whose expiry cannot be read is stored with the old expiry before the error is
returned. Kind `renku` never stores a refresh token. Renku's two endpoints are external:
that of v2 accepts the last refresh token it gave out, Keycloak's any that has not
expired. `lost` records how a new refresh token of v2 did not arrive: with a failing call
("network"), a caller that gave up ("cancel"), or because it was not in the answer
("absent").

### TokenStore and GitProxy

A section under a read lock is one step; a write lock is held across HTTP calls.
A token is valid or expired, and expires at any time. A refresh is two steps under the
lock, as in `RemoteAuth`, and the same is assumed of renku's two endpoints. Before v2 an
answer without a refresh token leaves the one there is, with v2 it overwrites it
(`KeepRefreshToken`). `held` is what the refresh token in the store is to renku, `sent`
what every goroutine has under way; a call may fail before or after renku acted on it, and
`lost` records that a new token of v2 did not reach the store. A goroutine that waits for a write lock does not bar readers; that
only adds behaviours. A URL has a host that begins with "www." or not, a port, and
a path cut into pieces, so that prefixes of strings are prefixes of sequences. Every
configured repository that has a provider (not "") among the configured ones has a
handler; a request passes the handlers it matches in the order of the configuration.
The process validates its configuration, panics, serves, passes everything on (anonymous
sessions) or ends.

## 3. Runs

States are distinct states; times are for two workers.

| Run | Bounds | Shows | States |
|---|---|---|---|
| `SessionFaults` | informer lag, 2 adopted secrets, 3 run IDs, retention 1, clock to 3; users hibernate, resume, delete; child and API errors, restarts | `ImplementsLifecycle`: the refinement; `TypeOK`; `RunIDStable`, `NoLostUserUpdate`: stale copies and retries replace no run ID and no user's change; `HibernatedSinceSet`; `SecretsBeforeFinalizer`; `DeletesOnlyHibernated` | 578,829, 45 s |
| `SessionCulling` | idle, failed and retention limits of 1, clock to 3, 2 run IDs; pods, load, failures, quota events, child and API errors, restarts; users hibernate and resume between any two calls | of `SessionHistory`: `ClocksStop`, `NoEarlyHibernation`: hibernating resets the clocks, so a resumed workload gets its time; `RetentionHonoured`: retention counts from the hibernation | 2,656,545, 135 s |
| `SessionLimits` | failed limit and retention of 1, waiting time 1, 2 run IDs, clock to 4; unschedulable pods; fair | `UnschedulableReported`; `LimitsEnforced`: no session outlives its hibernation date; `RetentionEnds`: none that is left hibernated outlives its retention | 556,348, 180 s |
| `SessionConverges` | informer lag, 3 run IDs, 1 adopted secret; users hibernate, resume, interact, delete; fair | `WorkloadConverges`: patches computed from stale copies are made good; `DeletionCompletes` | 585,654, 180 s |
| `JobSession` | age limit and retention of 1, clock to 3, both strategies, 2 run IDs, 1 fault; fair | `ResultKept`, `KeptSinceDone`, `RetentionEnds`, `JobFollowsSpec` | 735,655, 86 s |
| `RemoteFaults` | all configurations, both backends, 2 jobs, 2 repositories, a tunnel secret, 3 kinds of file system lists; crashes, API and disk errors at every step | `SidecarInv`, `FirecrestStopLeavesNoJob` outside the gaps; `SecretPrivate`; `FirecrestJobFindsItsFiles`; `ConfigurationSuffices` | 689,469, 40 s |
| `LogStream` | logs of up to 6 bytes, answers of up to 2; restarts; fair | `LogFaithful`, `NoNeedlessRepetition`, `LinesPrinted` | 6,434, 8 s |
| `GitProxy` | 2 requests, 2 providers, 4 repositories, 2 URLs, 24 configurations with both versions of the token endpoint, failing calls, any number of expiries; fair | `ProxyInv`: one refresh at a time, no refresh token sent that was used up; `TokenStaysWithProvider`, `AuthenticatedOrRefused`, `FreshTokenReturned`, `RequestsAnswered` | 149,157, 70 s |
| `RemoteAuth` | 2 callers and the periodic refresh, 4 kinds of authentication, 2 expiries, 1 fault, refreshes of `renku` until there are 3 tokens; fair | `AuthInv`: no refresh token of v2 is sent that was used up; `TokenRequestedWhenStale`; `AccessRestored` | 1,101,581, 190 s |
| `SessionPod` | all specs with up to 2 repositories and data sources, all kinds of credentials; 2 faults; fair | `ObjectsFit`, `SessionProtected`; `SessionHasRepositories`, `WorkKept`, `SessionStarts` | 1,108,829, 135 s |

Why the bounds are enough. A limit of 1 with a clock to 3 has room for a run
before, at and after its date, and for a second run. Run IDs are compared only, and at
most six places hold one; three IDs let two loops draw different ones while an older
one is still in use; without lag two are enough for a run and the next one. Two jobs let
a job be submitted, lost track of and submitted again beside it. Two repositories can
share a path, or have one cloned and one not; two faults are a failure and another one in the run that makes up for it. Two expiries let
a token that replaced a stale one go stale. Logs of six bytes and answers of two
split lines inside, at and behind a newline, over several answers.

What a run leaves out: interactions are not among the events of `SessionFaults`, so the part
of `NoLostUserUpdate` about them rests on its proof; of the limits only the one for failed
sessions is set in `SessionLimits`. `DeletesOnlyHibernated` is about the status stored: a
user who resumes a session between the status update of a pass and its Delete loses it,
with a workload that has not been started again (`RetentionHonoured`).

`CHECK_DEADLOCK FALSE` is set for sessions, which end when they are deleted and the
clock has stopped, for the log, whose length is bounded, for processes that exit, and
for the remote session, whose jobs are bounded. Symmetry is used only without fairness.

Fairness. `Reconciler`: every pass ends with a requeue (at once or after 10 s) or
an error, which the work queue retries. Informer and clock go on. No fairness is
assumed of users, pods, or failures; in the fair session runs API calls do not
fail, as nothing helps against an API that always does, but conflicts happen.
`RetentionEnds` is about sessions that users leave hibernated. `LogStream`: ticks go on and
some request is answered. `GitProxy` and `RemoteAuth`:
strong fairness of each goroutine, as `sync.RWMutex` passes the lock to waiters in
turn, and calls end. `Cloner`: containers go on, and the kubelet restarts failed ones.

### Disagreements between the code and what is said about it

Two runs are expected to find a violation.

| Run | Property | What happens |
|---|---|---|
| `KeptWithoutLimit` | `KeptWithoutLimit` | `maxHibernatedDuration` 0 stands for "no automatic deletion"; for Jobs `NeedsDeletion` takes it for a limit of zero, and a job is deleted as soon as it is done. |
| `RemoteStateResurrected` | `StateRemovedByStop` | A tick writes `state.json` after Stop removed it. The next start takes the cancelled job for running. |

The following statements fail too. They are at the end of their modules; to see
the trace, put one in place of the properties of the run given, with the changes. The
first one is the gravest: it stops every session with a repository that is resumed, or
whose pod is replaced, on a volume that was kept.

| Property | Run and changes | What happens |
|---|---|---|
| `ExistingTargetSkipped` | `SessionPod`: `Repositories = 1`, `MaxFaults = 0` | "Do not clone if target already exists" (`src/internal/cloner/clone.go:45`) is what `--strategy notifexist` stands for; its value never reaches the code that looks at it (`root.go:35`, `:53`). The init container of a new pod fails on the repository that the last one cloned, and so does every restart of it. |
| `CulledForCause` | `SessionConverges`: `Spec`, `culling <- IdleCulling`, no lag, `Activity = {"pods", "load"}`, `MaxTime = 4` | `Status` computes the date from the status of the pass before: a session found busy in this pass is hibernated by this pass. |
| `InteractionPreventsCulling` | the same with `{"pods", "load", "interaction"}` | An interaction recorded during a pass makes its status write conflict; the retry stores and obeys the date computed before. |
| `NoEarlyHibernation` | `SessionCulling`: `maxStartingDuration` 1 in `IdleFailedRetention`, `Activity = {"pods"}` | `maxStartingDuration` is counted from the creation of the session: one resumed later is hibernated while it starts. |
| `NoEarlyHibernation` without `~quotaHit` | `SessionCulling`: `Activity = {"pods", "quota"}` | A quota event that has not expired starts the failure clock of a workload that has had no time to start. |
| `WorkloadRunStable` | `SessionConverges`: `Spec`, `Activity = {}` | A pass whose cached copy does not show the run ID the last one stored draws another and patches the running workload with it; only its status write conflicts. |
| `RetentionHonoured` without `untold` | `SessionCulling`: `Activity = {}` | The pass that scales down, or up again, loses its callback: its status update conflicts with a user's write, and so does the second one. `hibernatedSince` is not cleared, and the second retention is counted from the first hibernation. The same with `{"childError"}`, without any conflict. |
| `HibernatedStatusCleared` without `~untold` | `SessionCulling`: `Activity = {"pods", "load"}`, or with `"childError"` | The pass that scales down loses its callback in the same ways: the idle clock stays. |
| `NoEarlyHibernation` without `~untold` | `SessionCulling`: `Activity = {"pods", "load", "failure"}` | After that the next run is hibernated by the clock of the one before. |
| `HibernationReported` | `SessionLimits`: `Spec`, `"quota"` added to `Activity` | A quota event makes a hibernated session, which has no pod, be reported as failed. |
| `AdoptedSecretsDeleted` | `SessionFaults` | Deleted before the finalizer is added, the session leaves its secrets behind. |
| `RoutingReadyTruthful` | `SessionFaults` | Hibernating deletes the ingress; the condition `RoutingReady` stays true. |
| `KeptOnceCompleted` | `JobSession` | A job whose pod could not start is deleted without having been done; dates of an earlier attempt count against the next one. |
| `HibernationWorks` | `JobSession` | With the strategy "always" or when the write fails, a hibernated Job goes on. |
| `GaugeShowsState`, `NoSeriesLeft` | `JobSession` | The series of earlier states are not removed at once, those of a session that a user deleted never. |
| `SavedStateReadable` | `RemoteStateResurrected`: `Activity = {"crash"}` | A crash between truncating and writing `state.json`; every later start fails to parse it. |
| `FirecrestLogPathsKnown` | the same | A tick saves the state before the job's metadata arrived; after a restart nobody asks for it again. |
| `RunaiStopLeavesNoJob` | `RemoteFaults` | The job ID is saved and not recovered: a process that was restarted deletes no workspace. |
| `RefreshNotCancelled` | `RemoteAuth` | The v2 refresh uses the caller's context: a caller that gives up may cost the refresh token. |
| `RetriedWithNewToken` | `RemoteAuth` | The header of the retried request is already set, and the editor leaves it: the rejected token is sent again. |
| `RefreshTokenAlive` | `RemoteAuth` | The refresh of kind `renku` keeps the first refresh token, so it expires in spite of the periodic refresh. |
| `WwwMatches` | `GitProxy`: `URLs <- URLsWithoutWww` | A repository configured with "www." has no handler for its host without it. |
| `OwnToken` | `GitProxy`: `Repositories <- RepositoriesReversed` | Paths are compared as strings: `org/lib` matches `org/lib2`, and the last handler wins. |
| `NoPanic` | `GitProxy` | A refresh period of 0 passes the v2 validation and makes the ticker panic. |
| `OidcPodStarts` | `SessionPod` | The oidc volume refers to a secret by the session's name; the secret made has another. |
| `PathStripped` | `SessionPod` | Without authentication nobody strips the path. |
| `RepositoriesWithCredentials` | `SessionPod` | Two repositories with credentials give one container two mounts at one path. |

Seen while modelling, in the code next to what is modelled: Run:ai's `Validate` does
not look at the project; `getPreferredScratch` returns the last scratch file system where its
comment says the first (`firecrest/controller.go:903`); the batch script is uploaded
with the context without the timeout of Start (`:312`); Stop takes any 2xx answer for
a cancellation (`:398`); the git proxy's health handler uses the answer of a failed
request (`root.go:145`), and `Shutdown` does not wait for intercepted connections (`:103`).

## 4. Proofs

TLAPS proves the following for every value of the constants. The assumptions on
constants are named, in the modules that declare them, and say what the constants are:
durations, sizes and bounds are numbers (`CullingAssumption`, `JobCullingAssumption`,
`WaitAssumption`, `TimeAssumption`, `JobBoundsAssumption`, `SizeAssumption`,
`MaxLogAssumption`, `BoundsAssumption`, `FaultsAssumption`), switches are Boolean
(`LagAssumption`, `MayFailAssumption`), strategies and kinds are among those the code
knows (`StrategyAssumption`, `StrategiesAssumption`, `KindsAssumption`), the value for
"none" is not one of the others (`NoRunAssumption`, `NoJobAssumption`,
`GoroutinesAssumption`, `CallersAssumption`), lists are sequences
(`FileSystemsAssumption`, `RepositoriesAssumption` of the proxy), and there is a
repository to clone (`RepositoriesAssumption` of the cloner). The bounds on failures,
clocks and logs are constants too, so a theorem holds whatever they are. TLC evaluates
the assumptions in every run, and has checked each inductive invariant on the instances
of section 3.

| Theorem | Module | Statement |
|---|---|---|
| `TypeCorrect` | `SessionController_proofs` | `Spec => []TypeOK` |
| `CopiesInvariant` | `SessionController_proofs` | `Spec => []Copies` |
| `RunIDIsStable` | `SessionSafety_proofs` | `Spec => RunIDStable` |
| `UserUpdatesKept` | `SessionSafety_proofs` | `Spec => NoLostUserUpdate` |
| `SecretsGoFirst` | `SessionSafety_proofs` | `Spec => SecretsBeforeFinalizer` |
| `HibernationIsDated` | `SessionSafety_proofs` | `Spec => []HibernatedSinceSet` |
| `DeletesHibernatedOnly` | `SessionSafety_proofs` | `Spec => DeletesOnlyHibernated` |
| `FailureClockIsTimed` | `SessionSafety_proofs` | `Spec => []FailureClockStops` |
| `ImplementsTheLifecycle` | `SessionSafety_proofs` | `Spec => ImplementsLifecycle` |
| `ClocksAreStopped` | `SessionSafety_proofs` | `HistorySpec => []ClocksStop`, if `~InformerLag` |
| `RetentionIsHonoured` | `SessionSafety_proofs` | `HistorySpec => RetentionHonoured`, if `~InformerLag` |
| `NotHibernatedEarly` | `SessionSafety_proofs` | `HistorySpec => NoEarlyHibernation`, if `~InformerLag` and `maxStartingDuration` is 0 |
| `ResultIsKept` | `JobSession_proofs` | `Spec => ResultKept` |
| `KeptForDuration` | `JobSession_proofs` | `Spec => KeptSinceDone` |
| `SessionStartsComplete` | `SessionPod_proofs` | `SessionHasRepositories`, of the cloner's `Spec` and of `PodSpec` |
| `WorkIsKept` | `SessionPod_proofs` | `WorkKept`, of both |
| `OneJobPerSession` | `RemoteSidecar_proofs` | `SidecarSpec => []SidecarInv` |
| `SecretStaysPrivate` | `RemoteSidecar_proofs` | `SidecarSpec => []SecretPrivate` |
| `ConfigurationIsEnough` | `RemoteSidecar_proofs` | `SidecarSpec => ConfigurationSuffices` |
| `StopCancelsTheJob` | `RemoteSidecar_proofs` | `SidecarSpec => FirecrestStopLeavesNoJob` |
| `JobsFindTheirFiles` | `RemoteSidecar_proofs` | `SidecarSpec => FirecrestJobFindsItsFiles` |
| `TokensKept` | `RemoteAuth_proofs` | `Spec => []AuthInv` |
| `StaleTokenReplaced` | `RemoteAuth_proofs` | `Spec => TokenRequestedWhenStale` |
| `LogIsFaithful` | `LogStream_proofs` | `Spec => []LogFaithful` |
| `RepeatsOnlyUnsaved` | `LogStream_proofs` | `Spec => NoNeedlessRepetition` |
| `ProxySafe` | `GitProxy_proofs` | `ProxySpec => []ProxyInv` |
| `TokensReturnedAreFresh` | `GitProxy_proofs` | `ProxySpec => FreshTokenReturned` |
| `TokensStayWithProvider` | `GitProxy_proofs` | `ProxySpec => TokenStaysWithProvider` |
| `NoneUnauthenticated` | `GitProxy_proofs` | `ProxySpec => AuthenticatedOrRefused` |

Each module begins with its inductive invariant, one named part per idea, then has one
lemma per action, and the theorems at the end.

Reconciler. None of the properties is inductive: each speaks of the stored resource,
and the next write is computed from a copy taken steps before. The invariant `Copies`
says what a copy has to do with the stored resource. `CacheInv`: a fresh cache is equal
to it, a deletion the cache has seen was asked for, and both are `Dated`. `PassCurrent`:
a pass whose version is current holds the stored resource, but for the run ID while it
computes the status, and for the status computed before the conflict between the second
read and the second write. `StatusKept`: at the end of a pass the stored status is the one
it wrote, so the decisions taken from the copy hold for the stored resource.
`PassDeletes`: the deletion branch is only taken for a resource being deleted, and at
"removeFinalizer" the secrets are gone. `PassDated`: the pass's copy is dated, and
the callback that clears the date is registered only for a session that is not
hibernated. `CRStep` lists what any step may do to
the stored resource; one lemma per action shows that it is a `CRStep` and preserves
`Copies`, and the theorems follow from the two. So does the refinement: every kind of
`CRStep` is mapped to a step of `SessionLifecycle`, with `Held` (a pass that deletes
secrets has a session that waits for it).

Clocks. A pass that scales the StatefulSet resets the clocks in the status update at its
end, or in the retry of it. `ClockInv` says where that promise is at every point, as long
as the end of the last run is not `untold`: `InStep` (cache and stored resource agree),
`StatusSettled` (the dates stored are of this run, unless a pass is about to reset them),
`PassEarly`, `PassScaled` and `PassLate` (what the pass holds before, at and after the
scaling; `LateStatus` says what the status is that it is about to store, first or second).
`HistoryStep` says what the memory adds to a step. Failures of children and calls, restarts
and conflicts, second ones included, are not excluded: they are what makes a run `untold`,
and the theorems say nothing of the next run then, as section 3 shows that they could not.
They do assume a cache that is up to date (`~InformerLag`): a pass that starts from an
outdated StatefulSet registers no callback, or one for a scaling that has been made.
`NotHibernatedEarly` needs that no `maxStartingDuration` is set; section 3 shows that it
fails with one, and without `~quotaHit`. `FailureClockStops` needs none of it, as `Status`
computes the state and this clock together.

Jobs. `JobAndPod`: the condition of a Job fits the pod it is left with. `ResultStored`:
Succeeded rests on the pod or the condition. `EndDated`: every date in a status, stored
or held by a pass, is not before the first trouble or end.

Cloner. `MarkedAt`: the marks of a directory follow the order of the commands, and the
origin is a repository that belongs there. `Progress`: what each step relies on in the
directory it works in, in particular that the user has not worked there unless
`git rev-parse` was misread. `Complete`: an
incomplete clone is being made or recorded in `gaps`. `DoneThere`: the repositories
behind the current one are there. `Loaded`, `StepOfCommand`: the two commands do not mix.
`BuildPod` hands an empty volume over, so the proof for the cloner holds for the pod.

Remote session. `FileTracked`, `JobTracked`: outside the gaps, the one of a file that could
not be read included, the ID of the active job is in the file between two processes, and
in the controller within one; what a tick is about
to write is that ID. `Uploaded`: what the directory holds at each step of Start; an answer
the client accepts is one to a call that was performed, so each upload is there before
the next call. `RunaiTracked`, `RunaiSingle`: the same of Run:ai. `BackendInv` joins them
under the configuration that selects one.

Authentication. `FetchLocked`: who fetches a token holds the lock. `RefreshLocked`: who has a refresh
token under way holds the lock of the Renku tokens, so nobody else can use it up before the answer
is stored; this is what `AuthInv` rests on, and the same in the git proxy. `TokensApart`,
`StaleRemembered`, `HeaderFresh`, `RunaiNeedsToken`: tokens grow, so a token read after a
refresh is newer than the stale one the request began with.

Logs. `BufferBehindOffset`: the buffer is the log behind the offset. `OffsetsAtLines`: the
offset used and the offset saved are at the beginning of lines. `PrintedToOffset`: the
lines in front of the offset have been printed.

Git proxy. `Locked`: who refreshes holds the lock, so what it checked under the lock
still holds. `ReadFresh`: a token about to be returned is newer than the question.
`AtHandler`, `Asked`, `HeaderBelow`, `Passed`: what a request's header holds after each
handler.

Only model-checked. Liveness, which is outside the prover's reach: `WorkloadConverges`,
`DeletionCompletes`, `LimitsEnforced`, `RetentionEnds`, `UnschedulableReported`,
`JobFollowsSpec`, `LinesPrinted`, `RequestsAnswered`, `AccessRestored`, `SessionStarts`.
`ObjectsFit` and `SessionProtected` of the pod are about the objects made from a fixed,
finite set of specs, which TLC goes through completely.

## 5. What is not modelled

- The text of messages, scripts and settings; resources, labels and probes of the
  manifests; container counts; histograms of the metrics.
- `fakeStart` of the remote controllers, a switch for tests.
- A git configuration file of a repository that cannot be opened, which FirecREST's
  controller leaves out (`firecrest/controller.go:426`).
- Characters of several bytes at the end of an answer with log text.
- Timeouts: HTTP calls end. Those of the token stores to renku use `http.DefaultClient`,
  which has none.
- Users who write a session that is being deleted, other than by deleting it.
- The operations of the generated FirecREST client that nobody calls (most of its
  ten thousand lines), and the generated deep copies.
- The health endpoint of the git proxy; the authentication proxy and the tunnel, which
  keep no state; the entry points; packaging.

`PROJECT.json` lists every part with its reason, and the hazards of the code with
the properties that cover them.

## 6. Plan

1. Done: the reconciler for StatefulSets and Jobs, its abstract specification and the
   refinement; the pod and the cloner; the remote sidecar with both backends, its
   client, configuration and authentication; logs; the git proxy and its token store. All
   safety properties and the refinement proved, but for the two about the objects of a pod.
2. `ObjectsFit` and `SessionProtected` for any number of repositories and data sources:
   lemmas about the containers, volumes and mounts that `Manifests` makes, one per kind.
3. Run:ai's `Stop`: the condition under which it leaves no workspace (a process that was
   not restarted since it created it), stated and proved.
4. The clocks after a run whose end the status was not told: how long the statements about
   clocks take to hold again, and what they say with an informer that lags.
