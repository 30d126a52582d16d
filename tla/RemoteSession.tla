--------------------------- MODULE RemoteSession ---------------------------
(***************************************************************************)
(* The FirecREST remote session controller                                 *)
(* (internal/remote/firecrest/controller.go) and the process around it     *)
(* (internal/remote/server/server.go): the main goroutine that starts the  *)
(* session, waits for a signal and stops it, the goroutine of              *)
(* periodicSessionStatus, the state file both write, the session directory *)
(* and the Slurm jobs on the cluster, and crashes and restarts of the      *)
(* process.  Every call of the FirecREST API may fail before or after it   *)
(* is performed (module FirecrestClient).                                  *)
(***************************************************************************)
EXTENDS FirecrestClient, Sequences, FiniteSets, FiniteSetsExt

CONSTANTS
    JobIDs,           \* the IDs the cluster gives to jobs; bound: how many it accepts
    NoJob,            \* the empty job ID
    Repositories,     \* the git repositories in the working directory
    HasTunnelSecret,  \* is RSC_WSTUNNEL_SECRET set?
    FileSystemLists,  \* the lists of file systems the cluster reports
    Activity          \* the failures that happen: "crash", "apiError", "diskError"

ASSUME NoJobAssumption == NoJob \notin JobIDs
ASSUME FileSystemsAssumption == \A l \in FileSystemLists : Len(l) \in Nat /\ DOMAIN l = 1 .. Len(l)

VARIABLES
    main,     \* the next step of the main goroutine
    tick,     \* the next step of periodicSessionStatus and the state it is saving
    c,        \* the fields of the controller
    file,     \* state.json
    job,      \* the Slurm state of every job
    ctxDone,  \* was the process told to terminate?
    gaps,     \* history: where a job was lost track of
    site      \* the session directory on each file system: what it holds

vars == <<main, tick, c, file, job, ctxDone, gaps, site>>

SlurmState == {"unused", "PENDING", "RUNNING", "COMPLETED", "FAILED", "CANCELLED"}

RemoteSessionState == {"NotReady", "Running", "Completed", "Failed"}

\* What is known of the log files: their default names, or the names in the
\* job metadata.
LogPaths == {"unknown", "default", "reported"}

savedState == [jobID: JobIDs \cup {NoJob}, paths: LogPaths]

\* A file that was truncated and not yet written is "empty"; a short text
\* written over a longer one leaves the end of that, so it is "corrupt".
\* Only a "written" file holds a state.
StateFile == [text: {"none", "empty", "corrupt", "written"}, state: savedState]

Main == {"down", "recover", "system", "user", "secrets", "chmod", "secret", "repos",
         "repoDir", "repoConfig", "script", "submit", "paths", "metadata", "save",
         "write", "wait", "cancel"}

NoFileSystem == "none"

FileSystemPaths == UNION {{l[i].path : i \in DOMAIN l} : l \in FileSystemLists}

\* "private" is no file but the mode 700 of the session directory.
Files == {"private", "wstunnel_secret", "session_script.sh"} \cup Repositories

NoState == [jobID |-> NoJob, paths |-> "unknown"]

NoFile == [text |-> "none", state |-> NoState]

EmptyFile == [text |-> "empty", state |-> NoState]

CorruptFile == [text |-> "corrupt", state |-> NoState]

Written(s) == [text |-> "written", state |-> s]

Unreadable == file \in {EmptyFile, CorruptFile}

\* fs and todo are local variables of Start: the file system of the session
\* path and the repositories still to be set up.
NewController ==
    [jobID |-> NoJob, paths |-> "unknown", status |-> "NotReady", fs |-> NoFileSystem, todo |-> {}]

NotTicking == [pc |-> "wait", saving |-> NoState]

TypeOK ==
    /\ main \in Main
    /\ tick \in [pc: {"wait", "save", "write", "returned"}, saving: savedState]
    /\ c \in [jobID: JobIDs \cup {NoJob}, paths: LogPaths, status: RemoteSessionState,
              fs: FileSystemPaths \cup {NoFileSystem}, todo: SUBSET Repositories]
    /\ file \in StateFile
    /\ job \in [JobIDs -> SlurmState]
    /\ ctxDone \in BOOLEAN
    /\ gaps \subseteq {"submission", "writing", "reading", "cancelling"}
    /\ site \in [FileSystemPaths -> SUBSET Files]

Init ==
    /\ main = "recover"
    /\ tick = NotTicking
    /\ c = NewController
    /\ file = NoFile
    /\ job = [id \in JobIDs |-> "unused"]
    /\ ctxDone = FALSE
    /\ gaps = {}
    /\ site = [fs \in FileSystemPaths |-> {}]

Up == main # "down"

Active(j) == job[j] \in {"PENDING", "RUNNING"}

\* A request that is served, one that fails, and one whose context ends
\* before its answer arrives.
Served(request, done) ==
    (IF done THEN {} ELSE {[done |-> TRUE, answer |-> Success(request)]})
    \cup (IF done THEN {[done |-> b, answer |-> NoAnswer] : b \in BOOLEAN} ELSE {})
    \cup (IF ~done /\ "apiError" \in Activity THEN Failures(request) ELSE {})

\* What the caller sees of it: was it performed, and is the answer among those
\* it accepts?
Results(request, accepted, done) ==
    {[done |-> o.done, ok |-> o.answer \in accepted] : o \in Served(request, done)}

-----------------------------------------------------------------------------
(***************************************************************************)
(* The end of the process, and the next one.                               *)
(***************************************************************************)

\* The gap a process that ends here leaves its job in: not yet in the state
\* file, in one being written, or no more in one and not yet cancelled.
GapsOnExit ==
    CASE c.jobID = NoJob -> {}
      [] main = "cancel" -> {"cancelling"}
      [] Unreadable -> {"writing"}
      [] file.state.jobID # c.jobID -> {"submission"}
      [] OTHER -> {}

Exit == main' = "down" /\ UNCHANGED <<tick, c, file>>

\* Start or the server failed: os.Exit(1), which stops no job.
Fatal == Exit /\ gaps' = gaps \cup GapsOnExit /\ UNCHANGED <<job, ctxDone>>

Crash == "crash" \in Activity /\ Up /\ Fatal

\* The container is restarted, or the session resumed; the volume persists.
Restart ==
    /\ main = "down"
    /\ main' = "recover" /\ tick' = NotTicking /\ c' = NewController /\ ctxDone' = FALSE
    /\ UNCHANGED <<file, job, gaps>>

Interrupt ==
    /\ Up /\ ~ctxDone
    /\ ctxDone' = TRUE
    /\ UNCHANGED <<main, tick, c, file, job, gaps>>

-----------------------------------------------------------------------------
(***************************************************************************)
(* The state file.  os.WriteFile truncates and then writes; two goroutines *)
(* may do so at the same time, and a removed file stays removed when its   *)
(* writer goes on.                                                         *)
(***************************************************************************)
Truncate == file' = EmptyFile

Write(s) ==
    file' \in IF file = NoFile THEN {NoFile}
              ELSE IF file \in {EmptyFile, Written(s)} THEN {Written(s)}
              ELSE {Written(s), CorruptFile}

\* Faulty variant: the job is forgotten.
recoverStateForgetful ==
    /\ main = "recover"
    /\ main' = "system" /\ c' = c
    /\ UNCHANGED <<tick, file, job, ctxDone, gaps>>

\* Any error of os.ReadFile is taken for a missing file; a file that is read
\* and cannot be parsed is an error.
recoverState ==
    /\ main = "recover"
    /\ \/ /\ file = NoFile \/ "diskError" \in Activity
          /\ main' = "system"
          /\ gaps' = gaps \cup IF file.text = "written" /\ Active(file.state.jobID)
                               THEN {"reading"} ELSE {}
          /\ UNCHANGED <<tick, c, file, job, ctxDone>>
       \/ /\ file.text = "written"
          /\ main' = "wait"
          /\ c' = [c EXCEPT !.jobID = file.state.jobID, !.paths = file.state.paths]
          /\ UNCHANGED <<tick, file, job, ctxDone, gaps>>
       \/ Unreadable /\ Fatal

-----------------------------------------------------------------------------
(***************************************************************************)
(* Start and Stop, on the main goroutine.                                  *)
(***************************************************************************)

\* A call of the API: it may change the session directory, and any answer
\* but the accepted ones ends the process.  Nothing is undone.
Call(here, request, accepted, performed, next) ==
    /\ main = here
    /\ \E o \in Results(request, accepted, ctxDone) :
         /\ site' = IF o.done THEN [site EXCEPT ![c.fs] = @ \cup performed] ELSE site
         /\ IF o.ok
            THEN main' = next /\ UNCHANGED <<tick, c, file, job, ctxDone, gaps>>
            ELSE Fatal

\* The last default scratch of the list, or else its last scratch.
getPreferredScratch(l) ==
    LET scratches == {i \in DOMAIN l : l[i].dataType = "Scratch"}
        preferred == {i \in scratches : l[i].defaultWorkDir}
    IN CASE preferred # {} -> l[Max(preferred)].path
         [] preferred = {} /\ scratches # {} -> l[Max(scratches)].path
         [] OTHER -> NoFileSystem

\* Incomplete is an answer without the system of the session.
GetCurrentSystem ==
    /\ main = "system"
    /\ \E o \in Results(NewGetSystemsRequest, {a \in Answers : ParseGetSystemsResponse(a) = "complete"},
                       ctxDone), l \in FileSystemLists :
         IF o.ok
         THEN /\ c' = [c EXCEPT !.fs = getPreferredScratch(l)]
              /\ main' = "user"
              /\ UNCHANGED <<tick, file, job, ctxDone, gaps>>
         ELSE Fatal
    /\ UNCHANGED site

\* Incomplete is an answer without a user name.
getUserInfo ==
    /\ main = "user"
    /\ \E o \in Results(NewGetUserinfoRequest, {a \in Answers : ParseGetUserinfoResponse(a) = "complete"},
                       ctxDone) :
         IF o.ok /\ c.fs # NoFileSystem
         THEN main' = "secrets" /\ UNCHANGED <<tick, c, file, job, ctxDone, gaps>>
         ELSE Fatal
    /\ UNCHANGED site

Is2xx(parsed) == parsed \in {"complete", "incomplete"}

\* Faulty variant: any answer will do.
uploadFileUnchecked == {a \in Answers : ParsePostUploadResponse(a) = "nil"}

\* The answers these calls take for success.
mkdir == {a \in Answers : Is2xx(ParsePostMkdirResponse(a))}

chmod == {a \in Answers : Is2xx(ParsePutChmodResponse(a))}

uploadFile == {a \in Answers : ParsePostUploadResponse(a) = "nil" /\ a.code = 204}

SetupSecrets == Call("secrets", NewPostMkdirRequest, mkdir, {}, "chmod")

\* Faulty variant: the mode is set, but whether that worked is not asked.
SetupPermissionsUnchecked ==
    Call("chmod", NewPutChmodRequest, Answers \cup {NoAnswer}, {"private"},
         IF HasTunnelSecret THEN "secret" ELSE "repos")

SetupPermissions ==
    Call("chmod", NewPutChmodRequest, chmod, {"private"},
         IF HasTunnelSecret THEN "secret" ELSE "repos")

UploadSecret == Call("secret", NewPostUploadRequest, uploadFile, {"wstunnel_secret"}, "repos")

AfterRepository(todo) == IF todo = {} THEN "script" ELSE "repoDir"

collectGitRepositories ==
    /\ main = "repos"
    /\ \/ /\ ~ctxDone
          /\ main' = AfterRepository(Repositories)
          /\ c' = [c EXCEPT !.todo = Repositories]
          /\ UNCHANGED <<tick, file, job, ctxDone, gaps>>
       \/ (ctxDone \/ "diskError" \in Activity) /\ Fatal
    /\ UNCHANGED site

MakeRepository == Call("repoDir", NewPostMkdirRequest, mkdir, {}, "repoConfig")

\* The git configuration is read from the volume and uploaded.
UploadRepositoryConfig(r) ==
    /\ main = "repoConfig" /\ r \in c.todo
    /\ \/ \E o \in Results(NewPostUploadRequest, uploadFile, ctxDone) :
             /\ site' = IF o.done THEN [site EXCEPT ![c.fs] = @ \cup {r}] ELSE site
             /\ IF o.ok
                THEN /\ c' = [c EXCEPT !.todo = @ \ {r}]
                     /\ main' = AfterRepository(c.todo \ {r})
                     /\ UNCHANGED <<tick, file, job, ctxDone, gaps>>
                ELSE Fatal
       \/ "diskError" \in Activity /\ Fatal /\ UNCHANGED site

UploadScript == Call("script", NewPostUploadRequest, uploadFile, {"session_script.sh"}, "submit")

Setup ==
    \/ GetCurrentSystem \/ getUserInfo \/ SetupSecrets \/ SetupPermissions \/ UploadSecret
    \/ collectGitRepositories \/ MakeRepository
    \/ \E r \in Repositories : UploadRepositoryConfig(r)
    \/ UploadScript

\* Incomplete is an answer without a job ID: the job is not known.
submitJob(id) ==
    /\ main = "submit"
    /\ \/ /\ job[id] = "unused"
          /\ \E o \in Results(NewPostJobSubmitRequest,
                             {a \in Answers : ParsePostJobSubmitResponse(a) = "complete"}, ctxDone) :
               /\ job' = IF o.done THEN [job EXCEPT ![id] = "PENDING"] ELSE job
               /\ c' = IF o.ok THEN [c EXCEPT !.jobID = id, !.fs = NoFileSystem] ELSE c
               /\ main' = IF o.ok THEN "paths" ELSE "down"
               /\ gaps' = gaps \cup (IF o.done /\ ~o.ok THEN {"submission"} ELSE {})
               /\ UNCHANGED <<tick, file, ctxDone>>
       \/ (\A j \in JobIDs : job[j] # "unused") /\ Fatal

DefaultPaths ==
    /\ main = "paths"
    /\ c' = [c EXCEPT !.paths = "default"]
    /\ main' = "metadata"
    /\ UNCHANGED <<tick, file, job, ctxDone, gaps>>

GetJobMetadata ==
    /\ main = "metadata"
    /\ \E o \in Results(NewGetJobMetadataRequest,
                       {a \in Answers : ParseGetJobMetadataResponse(a) = "complete"}, ctxDone) :
         c' = IF o.ok THEN [c EXCEPT !.paths = "reported"] ELSE c
    /\ main' = "save"
    /\ UNCHANGED <<tick, file, job, ctxDone, gaps>>

saveState ==
    /\ main = "save"
    /\ \/ Truncate /\ main' = "write" /\ UNCHANGED <<tick, c, job, ctxDone, gaps>>
       \/ "diskError" \in Activity /\ Fatal

WriteState ==
    /\ main = "write"
    /\ \/ /\ Write([jobID |-> c.jobID, paths |-> c.paths])
          /\ main' = "wait"
          /\ UNCHANGED <<tick, c, job, ctxDone, gaps>>
       \/ "diskError" \in Activity /\ Fatal

\* Start has returned and the signal arrived: Stop removes the state first,
\* an error is only logged.
Stop ==
    /\ main = "wait" /\ ctxDone
    /\ \/ /\ c.jobID = NoJob
          /\ Exit /\ UNCHANGED <<job, ctxDone, gaps>>
       \/ /\ c.jobID # NoJob
          /\ file' \in {NoFile} \cup (IF "diskError" \in Activity THEN {file} ELSE {})
          /\ main' = "cancel"
          /\ UNCHANGED <<tick, c, job, ctxDone, gaps>>

\* Faulty variant: a pending job is not cancelled.
CancelJobRunning ==
    /\ main = "cancel"
    /\ job' = IF job[c.jobID] = "RUNNING" THEN [job EXCEPT ![c.jobID] = "CANCELLED"] ELSE job
    /\ gaps' = gaps
    /\ Exit /\ UNCHANGED ctxDone

\* Its context is a new one, so the call is not cancelled by the signal.
CancelJob ==
    /\ main = "cancel"
    /\ \E o \in Results(NewDeleteJobRequest, {a \in Answers : a.code \div 100 = 2}, FALSE) :
         /\ job' = IF o.done /\ Active(c.jobID) THEN [job EXCEPT ![c.jobID] = "CANCELLED"] ELSE job
         /\ gaps' = gaps \cup (IF o.done THEN {} ELSE {"cancelling"})
    /\ Exit /\ UNCHANGED ctxDone

-----------------------------------------------------------------------------
(***************************************************************************)
(* periodicSessionStatus.  It runs from before recoverState until the      *)
(* process ends; once the context is done it may return, but select also   *)
(* picks a tick that is due.                                               *)
(***************************************************************************)

\* Faulty variant: the state is passed on as it is.
GetRemoteSessionStateRaw(state) == state

GetRemoteSessionState(state) ==
    CASE state = "PENDING" -> "NotReady"
      [] state = "RUNNING" -> "Running"
      [] state = "COMPLETED" -> "Completed"
      [] OTHER -> "Failed"

\* getCurrentStatus, and then fetchSessionLogs (module LogStream).
TickStatus ==
    /\ Up /\ tick.pc = "wait"
    /\ \/ /\ c.jobID = NoJob
          /\ c' = [c EXCEPT !.status = "NotReady"]
       \/ /\ c.jobID # NoJob
          /\ \E o \in Results(NewGetJobRequest, {a \in Answers : ParseGetJobResponse(a) = "complete"},
                             ctxDone) :
               c' = [c EXCEPT !.status = IF o.ok THEN GetRemoteSessionState(job[c.jobID])
                                         ELSE "Failed"]
    /\ tick' = [tick EXCEPT !.pc = "save"]
    /\ UNCHANGED <<main, file, job, ctxDone, gaps>>

\* A job ID that has arrived is saved, an error is only logged.
TickSave ==
    /\ Up /\ tick.pc = "save"
    /\ \/ /\ c.jobID # NoJob
          /\ Truncate
          /\ tick' = [pc |-> "write", saving |-> [jobID |-> c.jobID, paths |-> c.paths]]
       \/ /\ c.jobID = NoJob \/ "diskError" \in Activity
          /\ tick' = NotTicking /\ UNCHANGED file
    /\ UNCHANGED <<main, c, job, ctxDone, gaps>>

TickWrite ==
    /\ Up /\ tick.pc = "write"
    /\ Write(tick.saving) \/ ("diskError" \in Activity /\ UNCHANGED file)
    /\ tick' = NotTicking
    /\ UNCHANGED <<main, c, job, ctxDone, gaps>>

TickReturns ==
    /\ Up /\ tick.pc = "wait" /\ ctxDone
    /\ tick' = [tick EXCEPT !.pc = "returned"]
    /\ UNCHANGED <<main, c, file, job, ctxDone, gaps>>

-----------------------------------------------------------------------------
\* Slurm runs and ends the jobs.
JobStep(id) ==
    /\ \/ job[id] = "PENDING" /\ job' = [job EXCEPT ![id] = "RUNNING"]
       \/ /\ job[id] = "RUNNING"
          /\ \E end \in {"COMPLETED", "FAILED"} : job' = [job EXCEPT ![id] = end]
    /\ UNCHANGED <<main, tick, c, file, ctxDone, gaps>>

MainStep ==
    \/ Restart \/ recoverState
    \/ \E id \in JobIDs : submitJob(id)
    \/ DefaultPaths \/ GetJobMetadata \/ saveState \/ WriteState \/ Stop \/ CancelJob

Ticker == TickStatus \/ TickSave \/ TickWrite \/ TickReturns

Next ==
    \/ Setup
    \/ /\ MainStep \/ Ticker \/ Interrupt \/ Crash \/ \E id \in JobIDs : JobStep(id)
       /\ UNCHANGED site

Spec == Init /\ [][Next]_vars

-----------------------------------------------------------------------------
(***************************************************************************)
(* Properties.                                                             *)
(***************************************************************************)

\* The session has one job at a time, over all its restarts, unless the
\* process ended with a job no readable file holds, the file of a running job
\* was not read, or a cancellation failed ("a remote job is already running").
SingleJob == gaps = {} => Cardinality({j \in JobIDs : Active(j)}) <= 1

\* A process that was told to stop and ends leaves no job behind, whichever
\* process of the session submitted it.
LeavesNoJob ==
    (Stop \/ CancelJob) /\ main' = "down" /\ gaps' = {}
        => \A j \in JobIDs : job'[j] \notin {"PENDING", "RUNNING"}

\* "Makes sure that only the session owner can read session files": the
\* tunnel secret is never in a directory others can read, whatever failed in
\* this or an earlier start.
SecretPrivate == \A fs \in FileSystemPaths : "wstunnel_secret" \in site[fs] => "private" \in site[fs]

\* Every job that is submitted, known or not, finds in its directory the
\* script it runs and all the files it reads, although each of them is
\* uploaded by a call of its own.
JobFindsItsFiles ==
    \A id \in JobIDs :
        job[id] = "unused" /\ job'[id] = "PENDING"
            => Files \ (IF HasTunnelSecret THEN {} ELSE {"wstunnel_secret"}) \subseteq site[c.fs]

\* "Remove the saved state: if the session gets restarted later, we need to
\* submit a fresh job": no state is left when Stop has ended the process.
StateRemovedByStop == [][CancelJob => file = NoFile]_vars

-----------------------------------------------------------------------------
(***************************************************************************)
(* Statements of the documentation that do not hold of the code; README.md *)
(* tells how each of them fails.                                           *)
(***************************************************************************)

\* "Persist offsets so we can resume after a restart": a process never comes
\* up with a state file it cannot read.
SavedStateReadable == main = "recover" => ~Unreadable

\* "retrieves any new lines from the remote Slurm stdout/stderr files": the
\* controller knows the log files of a session that it has started.
LogPathsKnown == main = "wait" /\ ~ctxDone => c.paths = "reported"
=============================================================================
