---------------------------- MODULE RunaiSession ----------------------------
(***************************************************************************)
(* The Run:ai remote session controller                                    *)
(* (internal/remote/runai/controller.go): Start, Stop, the goroutine of    *)
(* periodicSessionStatus, and the state file only Start writes.  It has    *)
(* the variables of RemoteSession, the other controller of the same        *)
(* process, so that module RemoteSidecar can choose between the two.       *)
(***************************************************************************)
CONSTANTS
    JobIDs,    \* the workload IDs Run:ai gives out; bound: how many workspaces it makes
    NoJob,     \* the empty workload ID
    Activity   \* the failures that happen: "crash", "apiError", "diskError"

VARIABLES
    main,     \* the next step of the main goroutine
    tick,     \* the next step of periodicSessionStatus
    c,        \* the fields of the controller
    file,     \* state.json
    job,      \* the workspaces
    ctxDone,  \* was the process told to terminate?
    gaps      \* history: where a workspace was lost track of

vars == <<main, tick, c, file, job, ctxDone, gaps>>

\* Job names are made from the time; all that matters is whether there is one.
savedState == [jobName: BOOLEAN, jobId: JobIDs \cup {NoJob}]

NoState == [jobName |-> FALSE, jobId |-> NoJob]

NoFile == [text |-> "none", state |-> NoState]

EmptyFile == [text |-> "empty", state |-> NoState]

Written(s) == [text |-> "written", state |-> s]

\* currentStatus is the empty string once a job has its name.
NewController == [jobName |-> FALSE, jobID |-> NoJob, status |-> "NotReady", error |-> FALSE]

TypeOK ==
    /\ main \in {"down", "recover", "name", "project", "create", "save", "write", "wait", "cancel"}
    /\ tick \in {"wait", "returned"}
    /\ c \in [jobName: BOOLEAN, jobID: JobIDs \cup {NoJob}, status: {"NotReady", ""}, error: BOOLEAN]
    /\ file \in [text: {"none", "empty", "written"}, state: savedState]
    /\ job \in [JobIDs -> {"unused", "RUNNING", "DELETED"}]
    /\ ctxDone \in BOOLEAN
    /\ gaps \subseteq {"submission", "writing", "reading", "cancelling"}

Init ==
    /\ main = "recover" /\ tick = "wait" /\ c = NewController
    /\ file = NoFile /\ job = [id \in JobIDs |-> "unused"]
    /\ ctxDone = FALSE /\ gaps = {}

Up == main # "down"

\* A call with a cancelled context, an error answer or an answer that cannot
\* be decoded.
ApiFails == ctxDone \/ "apiError" \in Activity

Active(j) == job[j] = "RUNNING"

-----------------------------------------------------------------------------
\* A workspace that a process leaves behind not in the file, or in one that
\* was truncated and not written.
GapsOnExit ==
    CASE c.jobID = NoJob \/ ~Active(c.jobID) -> {}
      [] main = "cancel" -> {"cancelling"}
      [] file = EmptyFile -> {"writing"}
      [] file.state.jobId # c.jobID -> {"submission"}
      [] OTHER -> {}

Exit == main' = "down" /\ UNCHANGED <<tick, c, file>>

Fatal == Exit /\ gaps' = gaps \cup GapsOnExit /\ UNCHANGED <<job, ctxDone>>

Crash == "crash" \in Activity /\ Up /\ Fatal

Restart ==
    /\ main = "down"
    /\ main' = "recover" /\ tick' = "wait" /\ c' = NewController /\ ctxDone' = FALSE
    /\ UNCHANGED <<file, job, gaps>>

Interrupt ==
    /\ Up /\ ~ctxDone
    /\ ctxDone' = TRUE
    /\ UNCHANGED <<main, tick, c, file, job, gaps>>

-----------------------------------------------------------------------------
(***************************************************************************)
(* Start and Stop.                                                         *)
(***************************************************************************)

\* Any error of os.ReadFile is taken for a missing file.  Only the name of the
\* job is recovered; with it Start does nothing more.
recoverJobInfo ==
    /\ main = "recover"
    /\ \/ /\ file = NoFile \/ "diskError" \in Activity
          /\ main' = "name"
          /\ gaps' = gaps \cup IF file.text = "written" /\ Active(file.state.jobId)
                               THEN {"reading"} ELSE {}
          /\ UNCHANGED <<tick, c, file, job, ctxDone>>
       \/ /\ file.text = "written"
          /\ c' = [c EXCEPT !.jobName = file.state.jobName]
          /\ main' = "wait" /\ UNCHANGED <<tick, file, job, ctxDone, gaps>>
       \/ file = EmptyFile /\ Fatal

\* The name is given before anything is known to work.
NameJob ==
    /\ main = "name"
    /\ c' = [c EXCEPT !.jobName = TRUE]
    /\ main' = "project"
    /\ UNCHANGED <<tick, file, job, ctxDone, gaps>>

\* The first project of that name; none is an error.
getProject ==
    /\ main = "project"
    /\ \/ /\ ~ctxDone
          /\ main' = "create" /\ UNCHANGED <<tick, c, file, job, ctxDone, gaps>>
       \/ ApiFails /\ Fatal

\* The answer to a request that worked may be lost.
CreateWorkspace(id) ==
    /\ main = "create"
    /\ \/ /\ ~ctxDone /\ job[id] = "unused"
          /\ job' = [job EXCEPT ![id] = "RUNNING"]
          /\ c' = [c EXCEPT !.jobID = id]
          /\ main' = "save" /\ UNCHANGED <<tick, file, ctxDone, gaps>>
       \/ /\ ApiFails /\ job[id] = "unused"
          /\ job' = [job EXCEPT ![id] = "RUNNING"]
          /\ gaps' = gaps \cup {"submission"}
          /\ Exit /\ UNCHANGED ctxDone
       \/ (ApiFails \/ \A j \in JobIDs : job[j] # "unused") /\ Fatal

\* os.WriteFile truncates and then writes.
saveJobInfo ==
    \/ /\ main = "save"
       /\ file' = EmptyFile
       /\ main' = "write" /\ UNCHANGED <<tick, c, job, ctxDone, gaps>>
    \/ /\ main = "write"
       /\ file' = Written([jobName |-> c.jobName, jobId |-> c.jobID])
       /\ main' = "wait" /\ UNCHANGED <<tick, c, job, ctxDone, gaps>>
    \/ main \in {"save", "write"} /\ "diskError" \in Activity /\ Fatal

\* Without a job ID there is "no job to cancel", and the state file stays.
Stop ==
    /\ main = "wait" /\ ctxDone
    /\ \/ /\ c.jobID = NoJob
          /\ Exit /\ UNCHANGED <<job, ctxDone, gaps>>
       \/ /\ c.jobID # NoJob
          /\ file' \in {NoFile} \cup (IF "diskError" \in Activity THEN {file} ELSE {})
          /\ main' = "cancel" /\ UNCHANGED <<tick, c, job, ctxDone, gaps>>

DeleteWorkspace ==
    /\ main = "cancel"
    /\ \/ job' = [job EXCEPT ![c.jobID] = "DELETED"] /\ gaps' = gaps
       \/ /\ "apiError" \in Activity
          /\ gaps' = gaps \cup {"cancelling"} /\ UNCHANGED job
    /\ Exit /\ UNCHANGED ctxDone

-----------------------------------------------------------------------------
\* getCurrentStatus asks for the workloads and uses only whether that worked.
getCurrentStatus ==
    /\ Up /\ tick = "wait"
    /\ \/ ~ctxDone /\ c' = [c EXCEPT !.error = FALSE,
                                     !.status = IF c.jobName THEN "" ELSE "NotReady"]
       \/ ApiFails /\ c' = [c EXCEPT !.error = TRUE, !.status = "NotReady"]
    /\ UNCHANGED <<main, tick, file, job, ctxDone, gaps>>

TickReturns ==
    /\ Up /\ tick = "wait" /\ ctxDone
    /\ tick' = "returned"
    /\ UNCHANGED <<main, c, file, job, ctxDone, gaps>>

Next ==
    \/ Crash \/ Restart \/ Interrupt
    \/ recoverJobInfo \/ NameJob \/ getProject \/ \E id \in JobIDs : CreateWorkspace(id)
    \/ saveJobInfo \/ Stop \/ DeleteWorkspace
    \/ getCurrentStatus \/ TickReturns

Spec == Init /\ [][Next]_vars
=============================================================================
