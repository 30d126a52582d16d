------------------------ MODULE RemoteSidecar_proofs ------------------------
(***************************************************************************)
(* The safety of RemoteSidecar with either backend, for any number of jobs,*)
(* repositories and file systems and whatever fails: from where the ID of  *)
(* an active job is to be found at every point of a process, and from what *)
(* has been uploaded at every point of Start.                              *)
(***************************************************************************)
EXTENDS RemoteSidecar, WellFoundedInduction, FiniteSetTheorems, TLAPS

\* Before and after the job is submitted.
Preparing == {"system", "user", "secrets", "chmod", "secret", "repos", "repoDir", "repoConfig",
              "script", "submit"}

Started == {"paths", "metadata", "save", "write", "wait", "cancel"}

\* The sets of TypeOK for the controller and for periodicSessionStatus.
Fields == [jobID: JobIDs \cup {NoJob}, paths: LogPaths, status: RemoteSessionState,
           fs: FileSystemPaths \cup {NoFileSystem}, todo: SUBSET Repositories]

Ticking == [pc: {"wait", "save", "write", "returned"}, saving: savedState]

\* A file that was written holds a job, and what is being written is the job
\* of the process.  While Start runs, the file may be that of an earlier job.
FileTracked ==
    /\ file \in {NoFile, EmptyFile, CorruptFile} \/ (file.text = "written" /\ file.state.jobID # NoJob)
    /\ main \in Preparing \cup {"recover"} => c.jobID = NoJob /\ tick.pc # "write"
    /\ main \in Started =>
        /\ c.jobID # NoJob
        /\ tick.pc = "write" => tick.saving.jobID = c.jobID

\* Where the active job is known: in the file between two processes, in the
\* controller afterwards.
JobTracked ==
    gaps = {} =>
        \A j \in JobIDs : Active(j) =>
            /\ main \in {"down", "recover"} => file.text = "written" /\ file.state.jobID = j
            /\ main \notin Preparing
            /\ main \in Started => j = c.jobID

\* What the session directory holds at every step of Start.
Uploaded ==
    /\ main \in Preparing \ {"system", "user"} => c.fs \in FileSystemPaths
    /\ main \in Preparing \ {"system", "user", "secrets", "chmod"} => "private" \in site[c.fs]
    /\ main \in {"repos", "repoDir", "repoConfig", "script", "submit"} /\ HasTunnelSecret
        => "wstunnel_secret" \in site[c.fs]
    /\ main \in {"repoDir", "repoConfig"} => Repositories \ c.todo \subseteq site[c.fs]
    /\ main \in {"script", "submit"} => Repositories \subseteq site[c.fs]
    /\ main = "submit" => "session_script.sh" \in site[c.fs]

FirecrestInv == TypeOK /\ FileTracked /\ JobTracked /\ Uploaded /\ SecretPrivate

-----------------------------------------------------------------------------
(***************************************************************************)
(* The API: an answer that is accepted is one to a request that was        *)
(* performed.                                                              *)
(***************************************************************************)
LEMMA AcceptedIsDone ==
    ASSUME NEW request, NEW accepted \in SUBSET Answers, NEW done \in BOOLEAN,
           \A a \in accepted : a.code = SuccessCode(request) /\ (a.json \/ a.code = 204),
           NEW o \in Results(request, accepted, done), o.ok
    PROVE  o.done
<1>1. PICK s \in Served(request, done) : o = [done |-> s.done, ok |-> s.answer \in accepted]
  BY DEF Results
<1>2. s.answer \in accepted /\ o.done = s.done
  BY <1>1
<1>3. s.answer # NoAnswer
  BY <1>2 DEF NoAnswer, Answers, Codes
<1>4. CASE s \in Failures(request)
  <2> DEFINE successes == {b \in Answers : b.code = SuccessCode(request) /\ (b.json \/ b.code = 204)}
             excluded == {[done |-> FALSE, answer |-> a] : a \in successes}
  <2>1. s = [done |-> s.done, answer |-> s.answer] /\ s.done \in BOOLEAN
    BY <1>4 DEF Failures
  <2>2. s.answer \in successes
    BY <1>2
  <2>3. s \notin excluded
    BY <1>4 DEF Failures
  <2> HIDE DEF successes
  <2> QED BY <1>2, <2>1, <2>2, <2>3
<1> QED BY <1>1, <1>2, <1>3, <1>4 DEF Served

\* A call is performed or not, and its answer accepted or not.
LEMMA ResultsAreBoolean ==
    ASSUME NEW request, NEW accepted, NEW done \in BOOLEAN, NEW o \in Results(request, accepted, done)
    PROVE  o.done \in BOOLEAN /\ o.ok \in BOOLEAN
<1>1. PICK s \in Served(request, done) : o = [done |-> s.done, ok |-> s.answer \in accepted]
  BY DEF Results
<1>2. s.done \in BOOLEAN
  <2>1. CASE s \in Failures(request)
    BY <2>1 DEF Failures
  <2>2. CASE s \notin Failures(request)
    <3>1. \/ s \in {[done |-> TRUE, answer |-> Success(request)]}
          \/ s \in {[done |-> b, answer |-> NoAnswer] : b \in BOOLEAN}
      BY <2>2 DEF Served
    <3>2. CASE s \in {[done |-> TRUE, answer |-> Success(request)]}
      <4>1. s.done = TRUE
        BY <3>2
      <4> QED BY <4>1
    <3>3. CASE s \in {[done |-> b, answer |-> NoAnswer] : b \in BOOLEAN}
      <4>1. PICK b \in BOOLEAN : s = [done |-> b, answer |-> NoAnswer]
        BY <3>3
      <4>2. s.done = b
        BY <4>1
      <4> QED BY <4>2
    <3> QED BY <3>1, <3>2, <3>3
  <2> QED BY <2>1, <2>2
<1>3. o.ok = (s.answer \in accepted) /\ o.done = s.done
  BY <1>1
<1>4. o.ok \in BOOLEAN
  BY <1>3
<1> QED BY <1>2, <1>3, <1>4

\* chmod and the uploads are of this kind.
LEMMA ChmodIsDone ==
    ASSUME NEW done \in BOOLEAN, NEW o \in Results(NewPutChmodRequest, chmod, done), o.ok
    PROVE  o.done
<1>1. SuccessCode(NewPutChmodRequest) = 200
  BY DEF SuccessCode, NewPutChmodRequest, Request
<1>2. \A a \in chmod : a.code = 200 /\ a.json
  BY DEF chmod, Is2xx, ParsePutChmodResponse, ParseJSON
<1>3. chmod \in SUBSET Answers
  BY DEF chmod
<1> QED BY <1>1, <1>2, <1>3, AcceptedIsDone

\* An upload whose answer uploadFile accepts was performed.
LEMMA UploadIsDone ==
    ASSUME NEW done \in BOOLEAN, NEW o \in Results(NewPostUploadRequest, uploadFile, done), o.ok
    PROVE  o.done
<1>1. SuccessCode(NewPostUploadRequest) = 204
  BY DEF SuccessCode, NewPostUploadRequest, Request
<1>2. \A a \in uploadFile : a.code = 204
  BY DEF uploadFile
<1>3. uploadFile \in SUBSET Answers
  BY DEF uploadFile
<1> QED BY <1>1, <1>2, <1>3, AcceptedIsDone

\* The list of file systems that is preferred is one that was reported.
LEMMA MaxIsIn ==
    ASSUME NEW n \in Nat, NEW S \in SUBSET (1 .. n), S # {}
    PROVE  Max(S) \in S
<1> DEFINE T == {n - x : x \in S}
           R == OpToRel(<, Nat)
<1>1. T \subseteq Nat /\ T # {}
  <2>1. \A x \in S : n - x \in Nat
    OBVIOUS
  <2> QED BY <2>1
<1>2. PICK m \in T : \A k \in T : ~(<<k, m>> \in R)
  BY <1>1, NatLessThanWellFounded, WFMin, Zenon
<1>3. \A k \in T : k < m => <<k, m>> \in R
  <2> SUFFICES ASSUME NEW k \in T, k < m PROVE <<k, m>> \in R
    OBVIOUS
  <2>1. <<k, m>> \in Nat \X Nat /\ <<k, m>>[1] = k /\ <<k, m>>[2] = m
    BY <1>1
  <2>2. <<k, m>>[1] < <<k, m>>[2]
    BY <2>1
  <2> QED BY <2>1, <2>2, Zenon DEF OpToRel
<1>4. \A k \in T : ~(k < m)
  BY <1>2, <1>3, Zenon
<1> HIDE DEF R
<1>5. PICK x \in S : m = n - x
  OBVIOUS
<1>6. \A y \in S : ~(n - y < n - x)
  BY <1>4, <1>5
<1> HIDE DEF T
<1>7. ASSUME NEW y \in S PROVE x >= y
  <2>1. x \in 1 .. n /\ y \in 1 .. n
    OBVIOUS
  <2> QED BY <1>6, <2>1
<1> QED BY <1>7 DEF Max

\* The file system chosen is one that the system reported, or none.
LEMMA PreferredScratchReported ==
    ASSUME NEW l \in FileSystemLists
    PROVE  getPreferredScratch(l) \in FileSystemPaths \cup {NoFileSystem}
<1> DEFINE scratches == {i \in DOMAIN l : l[i].dataType = "Scratch"}
           preferred == {i \in scratches : l[i].defaultWorkDir}
<1>1. Len(l) \in Nat /\ scratches \in SUBSET (1 .. Len(l)) /\ preferred \in SUBSET (1 .. Len(l))
  BY FileSystemsAssumption
<1>2. \A i \in DOMAIN l : l[i].path \in FileSystemPaths
  BY DEF FileSystemPaths
<1>3. preferred # {} => Max(preferred) \in DOMAIN l
  BY <1>1, MaxIsIn
<1>4. scratches # {} => Max(scratches) \in DOMAIN l
  BY <1>1, MaxIsIn
<1>5. CASE preferred # {}
  <2>1. getPreferredScratch(l) = l[Max(preferred)].path
    BY <1>5 DEF getPreferredScratch
  <2> QED BY <1>2, <1>3, <1>5, <2>1
<1>6. CASE preferred = {} /\ scratches # {}
  <2>1. getPreferredScratch(l) = l[Max(scratches)].path
    BY <1>6 DEF getPreferredScratch
  <2> QED BY <1>2, <1>4, <1>6, <2>1
<1>7. CASE preferred = {} /\ scratches = {}
  <2>1. getPreferredScratch(l) = NoFileSystem
    BY <1>7 DEF getPreferredScratch
  <2> QED BY <2>1
<1> QED BY <1>5, <1>6, <1>7

-----------------------------------------------------------------------------
(***************************************************************************)
(* FirecREST.                                                              *)
(***************************************************************************)

\* The session directories hold what they may hold, and the secret only where
\* others cannot read it.
SitesOK == site \in [FileSystemPaths -> SUBSET Files] /\ SecretPrivate

\* A new process has no job and no state file.
LEMMA FirecrestStarts == Init => FirecrestInv
<1> SUFFICES ASSUME Init PROVE FirecrestInv
  OBVIOUS
<1>1. TypeOK
  BY DEF Init, TypeOK, Main, NotTicking, NoState, savedState, LogPaths, NewController,
         RemoteSessionState, NoFile, StateFile, SlurmState
<1>2. FileTracked
  BY DEF Init, FileTracked, Preparing, Started, NotTicking, NewController
<1>3. JobTracked
  BY DEF Init, JobTracked, Active
<1>4. Uploaded
  BY DEF Init, Uploaded, Preparing
<1>5. SecretPrivate
  BY DEF Init, SecretPrivate
<1> QED BY <1>1, <1>2, <1>3, <1>4, <1>5 DEF FirecrestInv

\* A process that ends outside a gap leaves its active job in the file.
LEMMA GapsTyped == GapsOnExit \subseteq {"submission", "writing", "reading", "cancelling"}
  BY DEF GapsOnExit

\* A process that exits outside the gaps leaves the ID of its job in the file.
LEMMA ExitKeepsJob ==
    ASSUME FirecrestInv, main \in Started, GapsOnExit = {}
    PROVE  file.text = "written" /\ file.state.jobID = c.jobID
<1>1. c.jobID # NoJob
  BY DEF FirecrestInv, FileTracked
<1>2. file \notin {EmptyFile, CorruptFile}
  BY <1>1 DEF GapsOnExit, Unreadable
<1>3. file.state.jobID = c.jobID
  BY <1>1, <1>2 DEF GapsOnExit, Unreadable
<1>4. file # NoFile
  BY <1>1, <1>3 DEF NoFile, NoState
<1> QED BY <1>2, <1>3, <1>4 DEF FirecrestInv, FileTracked

\* The process may exit anywhere: what it forgets is in the file, or in the gaps.
LEMMA FatalKeeps ==
    ASSUME FirecrestInv, Up, Fatal, SitesOK'
    PROVE  FirecrestInv'
<1>1. TypeOK'
  <2>1. gaps' \subseteq {"submission", "writing", "reading", "cancelling"}
    BY GapsTyped DEF FirecrestInv, TypeOK, Fatal
  <2> QED BY <2>1 DEF FirecrestInv, TypeOK, Fatal, Exit, SitesOK, Main
<1>2. FileTracked'
  BY DEF FirecrestInv, FileTracked, Fatal, Exit, Preparing, Started
<1>3. JobTracked'
  <2> SUFFICES ASSUME gaps' = {}, NEW j \in JobIDs, Active(j)'
               PROVE  file.text = "written" /\ file.state.jobID = j
    BY DEF JobTracked, Fatal, Exit, Preparing, Started
  <2>1. gaps = {} /\ GapsOnExit = {} /\ Active(j)
    BY DEF Fatal, Active
  <2>2. CASE main \in Started
    BY <2>1, <2>2, ExitKeepsJob DEF FirecrestInv, JobTracked
  <2>3. CASE main \notin Started
    BY <2>1, <2>3 DEF FirecrestInv, JobTracked, TypeOK, Main, Preparing, Started, Up
  <2> QED BY <2>2, <2>3
<1>4. Uploaded'
  BY DEF Uploaded, Fatal, Exit, Preparing
<1> QED BY <1>1, <1>2, <1>3, <1>4 DEF FirecrestInv, SitesOK

\* A step of Start before the job is submitted.
LEMMA PreparingKeeps ==
    ASSUME FirecrestInv, main \in Preparing, main' \in Preparing, SitesOK', Uploaded',
           c' \in Fields, c'.jobID = c.jobID, UNCHANGED <<tick, file, job, ctxDone, gaps>>
    PROVE  FirecrestInv'
<1>1. TypeOK'
  BY DEF FirecrestInv, TypeOK, SitesOK, Main, Preparing, Fields
<1>2. FileTracked'
  <2>1. main' \notin Started
    BY DEF Preparing, Started
  <2> QED BY <2>1 DEF FirecrestInv, FileTracked
<1>3. JobTracked'
  BY DEF FirecrestInv, JobTracked, Active
<1> QED BY <1>1, <1>2, <1>3 DEF FirecrestInv, SitesOK

\* What a call adds to the directory of the session.
LEMMA CallKeeps ==
    ASSUME FirecrestInv, NEW here, NEW request, NEW accepted, NEW performed \in SUBSET Files, NEW next,
           main \in Preparing, next \in Preparing, c.fs \in FileSystemPaths,
           "wstunnel_secret" \in performed => "private" \in site[c.fs],
           Call(here, request, accepted, performed, next),
           \A o \in Results(request, accepted, ctxDone) :
               o.ok /\ main' = next /\ c' = c
               /\ site' = (IF o.done THEN [site EXCEPT ![c.fs] = @ \cup performed] ELSE site)
                   => Uploaded'
    PROVE  FirecrestInv'
<1>1. PICK o \in Results(request, accepted, ctxDone) :
         /\ site' = IF o.done THEN [site EXCEPT ![c.fs] = @ \cup performed] ELSE site
         /\ IF o.ok
            THEN main' = next /\ UNCHANGED <<tick, c, file, job, ctxDone, gaps>>
            ELSE Fatal
  BY DEF Call
<1>2. SitesOK'
  <2>1. site' \in [FileSystemPaths -> SUBSET Files]
    BY <1>1 DEF FirecrestInv, TypeOK
  <2>2. SecretPrivate'
    BY <1>1 DEF FirecrestInv, TypeOK, SecretPrivate
  <2> QED BY <2>1, <2>2 DEF SitesOK
<1>3. CASE o.ok
  <2>1. main' = next /\ UNCHANGED <<tick, c, file, job, ctxDone, gaps>>
    BY <1>1, <1>3
  <2>2. Uploaded'
    BY <1>1, <1>3, <2>1
  <2>3. c' \in Fields
    BY <2>1 DEF FirecrestInv, TypeOK, Fields
  <2> QED BY <1>2, <2>1, <2>2, <2>3, PreparingKeeps
<1>4. CASE ~o.ok
  BY <1>1, <1>2, <1>4, FatalKeeps DEF Up, Preparing
<1> QED BY <1>3, <1>4

\* The directory after a call that worked.
LEMMA UploadedAdds ==
    ASSUME FirecrestInv, c.fs \in FileSystemPaths, NEW performed \in SUBSET Files, NEW o,
           o.done, site' = (IF o.done THEN [site EXCEPT ![c.fs] = @ \cup performed] ELSE site)
    PROVE  site'[c.fs] = site[c.fs] \cup performed
  BY DEF FirecrestInv, TypeOK

\* A call adds files to the session directory and removes none.
LEMMA UploadedStays ==
    ASSUME FirecrestInv, c.fs \in FileSystemPaths, NEW performed \in SUBSET Files, NEW o,
           site' = (IF o.done THEN [site EXCEPT ![c.fs] = @ \cup performed] ELSE site)
    PROVE  site[c.fs] \subseteq site'[c.fs]
  BY DEF FirecrestInv, TypeOK

\* The calls in front of the submission: each leaves its file before the next is made.
LEMMA SetupKeeps == FirecrestInv /\ Setup => FirecrestInv'
<1> SUFFICES ASSUME FirecrestInv, Setup PROVE FirecrestInv'
  OBVIOUS
<1>0. ctxDone \in BOOLEAN /\ c \in Fields
  BY DEF FirecrestInv, TypeOK, Fields
<1>1. CASE GetCurrentSystem
  <2>1. PICK o \in Results(NewGetSystemsRequest,
                           {a \in Answers : ParseGetSystemsResponse(a) = "complete"}, ctxDone),
             l \in FileSystemLists :
         IF o.ok
         THEN /\ c' = [c EXCEPT !.fs = getPreferredScratch(l)]
              /\ main' = "user"
              /\ UNCHANGED <<tick, file, job, ctxDone, gaps>>
         ELSE Fatal
    BY <1>1 DEF GetCurrentSystem
  <2>2. SitesOK'
    BY <1>1 DEF GetCurrentSystem, FirecrestInv, TypeOK, SitesOK, SecretPrivate
  <2>3. main \in Preparing /\ Up
    BY <1>1 DEF GetCurrentSystem, Preparing, Up
  <2>4. CASE o.ok
    <3>1. c' = [c EXCEPT !.fs = getPreferredScratch(l)] /\ main' = "user"
          /\ UNCHANGED <<tick, file, job, ctxDone, gaps>>
      BY <2>1, <2>4
    <3>2. c' \in Fields /\ c'.jobID = c.jobID
      BY <1>0, <3>1, PreferredScratchReported DEF Fields
    <3>3. Uploaded'
      BY <3>1 DEF Uploaded, Preparing
    <3>4. main' \in Preparing
      BY <3>1 DEF Preparing
    <3> QED BY <2>2, <2>3, <3>1, <3>2, <3>3, <3>4, PreparingKeeps
  <2>5. CASE ~o.ok
    BY <2>1, <2>2, <2>3, <2>5, FatalKeeps
  <2> QED BY <2>4, <2>5
<1>2. CASE getUserInfo
  <2>1. SitesOK'
    BY <1>2 DEF getUserInfo, FirecrestInv, TypeOK, SitesOK, SecretPrivate
  <2>2. main \in Preparing /\ Up
    BY <1>2 DEF getUserInfo, Preparing, Up
  <2>3. CASE Fatal
    BY <2>1, <2>2, <2>3, FatalKeeps
  <2>4. CASE ~Fatal
    <3>1. c.fs # NoFileSystem /\ main' = "secrets" /\ UNCHANGED <<tick, c, file, job, ctxDone, gaps>>
      BY <1>2, <2>4 DEF getUserInfo
    <3>2. Uploaded'
      BY <1>0, <3>1 DEF Uploaded, Preparing, Fields
    <3>3. main' \in Preparing
      BY <3>1 DEF Preparing
    <3> QED BY <1>0, <2>1, <2>2, <3>1, <3>2, <3>3, PreparingKeeps
  <2> QED BY <2>3, <2>4
<1>3. CASE SetupSecrets
  <2>1. main = "secrets" /\ main \in Preparing /\ "chmod" \in Preparing
    BY <1>3 DEF SetupSecrets, Call, Preparing
  <2>2. c.fs \in FileSystemPaths
    BY <2>1 DEF FirecrestInv, Uploaded, Preparing
  <2>3. ASSUME main' = "chmod", c' = c PROVE Uploaded'
    BY <2>2, <2>3 DEF Uploaded, Preparing
  <2> QED BY <1>3, <2>1, <2>2, <2>3, CallKeeps DEF SetupSecrets
<1>4. CASE SetupPermissions
  <2> DEFINE next == IF HasTunnelSecret THEN "secret" ELSE "repos"
  <2>1. main = "chmod" /\ main \in Preparing /\ next \in Preparing
    BY <1>4 DEF SetupPermissions, Call, Preparing
  <2>2. c.fs \in FileSystemPaths
    BY <2>1 DEF FirecrestInv, Uploaded, Preparing
  <2>3. ASSUME NEW o \in Results(NewPutChmodRequest, chmod, ctxDone), o.ok, main' = next, c' = c,
               site' = (IF o.done THEN [site EXCEPT ![c.fs] = @ \cup {"private"}] ELSE site)
        PROVE  Uploaded'
    <3>1. o.done
      BY <1>0, <2>3, ChmodIsDone
    <3>2. {"private"} \in SUBSET Files
      BY DEF Files
    <3>3. site'[c.fs] = site[c.fs] \cup {"private"}
      BY <2>2, <2>3, <3>1, <3>2, UploadedAdds
    <3> QED BY <2>2, <2>3, <3>3 DEF Uploaded, Preparing
  <2>4. Call("chmod", NewPutChmodRequest, chmod, {"private"}, next)
    BY <1>4 DEF SetupPermissions
  <2>5. {"private"} \in SUBSET Files
    BY DEF Files
  <2> HIDE DEF next
  <2> QED BY <2>1, <2>2, <2>3, <2>4, <2>5, CallKeeps
<1>5. CASE UploadSecret
  <2>1. main = "secret" /\ main \in Preparing /\ "repos" \in Preparing
    BY <1>5 DEF UploadSecret, Call, Preparing
  <2>2. c.fs \in FileSystemPaths /\ "private" \in site[c.fs]
    BY <2>1 DEF FirecrestInv, Uploaded, Preparing
  <2>3. {"wstunnel_secret"} \in SUBSET Files
    BY DEF Files
  <2>4. ASSUME NEW o \in Results(NewPostUploadRequest, uploadFile, ctxDone), o.ok, main' = "repos",
               c' = c,
               site' = (IF o.done THEN [site EXCEPT ![c.fs] = @ \cup {"wstunnel_secret"}] ELSE site)
        PROVE  Uploaded'
    <3>1. o.done
      BY <1>0, <2>4, UploadIsDone
    <3>2. site'[c.fs] = site[c.fs] \cup {"wstunnel_secret"}
      BY <2>2, <2>3, <2>4, <3>1, UploadedAdds
    <3> QED BY <2>2, <2>4, <3>2 DEF Uploaded, Preparing
  <2> QED BY <1>5, <2>1, <2>2, <2>3, <2>4, CallKeeps DEF UploadSecret
<1>6. CASE collectGitRepositories
  <2>1. SitesOK'
    BY <1>6 DEF collectGitRepositories, FirecrestInv, TypeOK, SitesOK, SecretPrivate
  <2>2. main = "repos" /\ main \in Preparing /\ Up
    BY <1>6 DEF collectGitRepositories, Preparing, Up
  <2>3. CASE Fatal
    BY <2>1, <2>2, <2>3, FatalKeeps
  <2>4. CASE ~Fatal
    <3>1. /\ main' = AfterRepository(Repositories) /\ c' = [c EXCEPT !.todo = Repositories]
          /\ UNCHANGED <<tick, file, job, ctxDone, gaps, site>>
      BY <1>6, <2>4 DEF collectGitRepositories
    <3>2. c' \in Fields /\ c'.jobID = c.jobID /\ c'.fs = c.fs /\ c'.todo = Repositories
      BY <1>0, <3>1 DEF Fields
    <3>3. main' \in Preparing /\ main' \in {"script", "repoDir"} /\ (main' = "script" => Repositories = {})
      BY <3>1 DEF Preparing, AfterRepository
    <3>4. c.fs \in FileSystemPaths /\ "private" \in site[c.fs]
          /\ (HasTunnelSecret => "wstunnel_secret" \in site[c.fs])
      BY <2>2 DEF FirecrestInv, Uploaded, Preparing
    <3>5. Uploaded'
      BY <3>1, <3>2, <3>3, <3>4 DEF Uploaded, Preparing
    <3> QED BY <2>1, <2>2, <3>1, <3>2, <3>3, <3>5, PreparingKeeps
  <2> QED BY <2>3, <2>4
<1>7. CASE MakeRepository
  <2>1. main = "repoDir" /\ main \in Preparing /\ "repoConfig" \in Preparing
    BY <1>7 DEF MakeRepository, Call, Preparing
  <2>2. /\ c.fs \in FileSystemPaths /\ "private" \in site[c.fs]
        /\ HasTunnelSecret => "wstunnel_secret" \in site[c.fs]
        /\ Repositories \ c.todo \subseteq site[c.fs]
    BY <2>1 DEF FirecrestInv, Uploaded, Preparing
  <2>3. ASSUME NEW o \in Results(NewPostMkdirRequest, mkdir, ctxDone), main' = "repoConfig", c' = c,
               site' = (IF o.done THEN [site EXCEPT ![c.fs] = @ \cup {}] ELSE site)
        PROVE  Uploaded'
    <3>1. site[c.fs] \subseteq site'[c.fs]
      BY <2>2, <2>3, UploadedStays
    <3> QED BY <2>2, <2>3, <3>1 DEF Uploaded, Preparing
  <2> QED BY <1>7, <2>1, <2>2, <2>3, CallKeeps DEF MakeRepository
<1>8. ASSUME NEW r \in Repositories, UploadRepositoryConfig(r) PROVE FirecrestInv'
  <2>1. main = "repoConfig" /\ main \in Preparing /\ Up /\ r \in c.todo
    BY <1>8 DEF UploadRepositoryConfig, Preparing, Up
  <2>2. /\ c.fs \in FileSystemPaths /\ "private" \in site[c.fs]
        /\ HasTunnelSecret => "wstunnel_secret" \in site[c.fs]
        /\ Repositories \ c.todo \subseteq site[c.fs]
    BY <2>1 DEF FirecrestInv, Uploaded, Preparing
  <2>3. CASE \E o \in Results(NewPostUploadRequest, uploadFile, ctxDone) :
                /\ site' = IF o.done THEN [site EXCEPT ![c.fs] = @ \cup {r}] ELSE site
                /\ IF o.ok
                   THEN /\ c' = [c EXCEPT !.todo = @ \ {r}]
                        /\ main' = AfterRepository(c.todo \ {r})
                        /\ UNCHANGED <<tick, file, job, ctxDone, gaps>>
                   ELSE Fatal
    <3>1. PICK o \in Results(NewPostUploadRequest, uploadFile, ctxDone) :
                /\ site' = IF o.done THEN [site EXCEPT ![c.fs] = @ \cup {r}] ELSE site
                /\ IF o.ok
                   THEN /\ c' = [c EXCEPT !.todo = @ \ {r}]
                        /\ main' = AfterRepository(c.todo \ {r})
                        /\ UNCHANGED <<tick, file, job, ctxDone, gaps>>
                   ELSE Fatal
      BY <2>3
    <3>2. SitesOK'
      <4>1. site' \in [FileSystemPaths -> SUBSET Files]
        BY <2>2, <3>1 DEF FirecrestInv, TypeOK, Files
      <4>2. SecretPrivate'
        BY <2>2, <3>1 DEF FirecrestInv, TypeOK, SecretPrivate
      <4> QED BY <4>1, <4>2 DEF SitesOK
    <3>3. CASE o.ok
      <4>1. /\ c' = [c EXCEPT !.todo = @ \ {r}] /\ main' = AfterRepository(c.todo \ {r})
            /\ UNCHANGED <<tick, file, job, ctxDone, gaps>>
        BY <3>1, <3>3
      <4>2. c' \in Fields /\ c'.jobID = c.jobID /\ c'.fs = c.fs /\ c'.todo = c.todo \ {r}
        BY <1>0, <4>1 DEF Fields
      <4>3. main' \in Preparing /\ main' \in {"script", "repoDir"}
            /\ (main' = "script" => c.todo \ {r} = {})
        BY <4>1 DEF Preparing, AfterRepository
      <4>4. {r} \in SUBSET Files
        BY DEF Files
      <4>5. site'[c.fs] = site[c.fs] \cup {r}
        <5>1. o.done
          BY <1>0, <3>3, UploadIsDone
        <5> QED BY <2>2, <3>1, <4>4, <5>1, UploadedAdds
      <4>6. Uploaded'
        BY <2>2, <4>2, <4>3, <4>5 DEF Uploaded, Preparing
      <4> QED BY <2>1, <3>2, <4>1, <4>2, <4>3, <4>6, PreparingKeeps
    <3>4. CASE ~o.ok
      BY <2>1, <3>1, <3>2, <3>4, FatalKeeps
    <3> QED BY <3>3, <3>4
  <2>4. CASE Fatal /\ UNCHANGED site
    <3>1. SitesOK'
      BY <2>4 DEF FirecrestInv, TypeOK, SitesOK, SecretPrivate
    <3> QED BY <2>1, <2>4, <3>1, FatalKeeps
  <2> QED BY <1>8, <2>3, <2>4 DEF UploadRepositoryConfig
<1>9. CASE UploadScript
  <2>1. main = "script" /\ main \in Preparing /\ "submit" \in Preparing
    BY <1>9 DEF UploadScript, Call, Preparing
  <2>2. /\ c.fs \in FileSystemPaths /\ "private" \in site[c.fs]
        /\ HasTunnelSecret => "wstunnel_secret" \in site[c.fs]
        /\ Repositories \subseteq site[c.fs]
    BY <2>1 DEF FirecrestInv, Uploaded, Preparing
  <2>3. {"session_script.sh"} \in SUBSET Files
    BY DEF Files
  <2>4. ASSUME NEW o \in Results(NewPostUploadRequest, uploadFile, ctxDone), o.ok, main' = "submit",
               c' = c,
               site' = (IF o.done THEN [site EXCEPT ![c.fs] = @ \cup {"session_script.sh"}] ELSE site)
        PROVE  Uploaded'
    <3>1. o.done
      BY <1>0, <2>4, UploadIsDone
    <3>2. site'[c.fs] = site[c.fs] \cup {"session_script.sh"}
      BY <2>2, <2>3, <2>4, <3>1, UploadedAdds
    <3> QED BY <2>2, <2>4, <3>2 DEF Uploaded, Preparing
  <2> QED BY <1>9, <2>1, <2>2, <2>3, <2>4, CallKeeps DEF UploadScript
<1> QED BY <1>1, <1>2, <1>3, <1>4, <1>5, <1>6, <1>7, <1>8, <1>9 DEF Setup

\* Once the job is submitted, a step that leaves the jobs, their ID and what is
\* known of them alone has only the state file to care about.
LEMMA StartedKeeps ==
    ASSUME FirecrestInv, UNCHANGED <<job, gaps, site>>, c' \in Fields, c'.jobID = c.jobID,
           main \in Started, main' \in Started, tick' \in Ticking, ctxDone' \in BOOLEAN,
           tick'.pc = "write" => tick'.saving.jobID = c.jobID,
           \/ file' \in {file, NoFile, EmptyFile, CorruptFile}
           \/ \E s \in savedState : file' = Written(s) /\ s.jobID = c.jobID
    PROVE  FirecrestInv'
<1>0. c.jobID # NoJob
  BY DEF FirecrestInv, FileTracked
<1>1. TypeOK'
  <2>1. file' \in StateFile
    BY DEF FirecrestInv, TypeOK, StateFile, Written, NoFile, EmptyFile, CorruptFile, NoState,
           savedState, LogPaths
  <2> QED BY <2>1 DEF FirecrestInv, TypeOK, Fields, Ticking, Main, Started
<1>2. FileTracked'
  <2>1. main' \notin Preparing \cup {"recover"}
    BY DEF Started, Preparing
  <2>2. CASE file' \in {file, NoFile, EmptyFile, CorruptFile}
    <3>1. file' # file => file'.text # "written"
      BY <2>2 DEF NoFile, EmptyFile, CorruptFile
    <3> QED BY <1>0, <2>1, <2>2, <3>1 DEF FirecrestInv, FileTracked, NoFile, EmptyFile, CorruptFile
  <2>3. CASE \E s \in savedState : file' = Written(s) /\ s.jobID = c.jobID
    <3>1. file'.text = "written" /\ file'.state.jobID = c.jobID
      BY <2>3 DEF Written
    <3> QED BY <1>0, <2>1, <3>1 DEF FileTracked
  <2> QED BY <2>2, <2>3
<1>3. JobTracked'
  BY DEF FirecrestInv, JobTracked, Active, Started, Preparing
<1>4. Uploaded'
  BY DEF Uploaded, Started, Preparing
<1>5. SecretPrivate'
  BY DEF FirecrestInv, SecretPrivate
<1> QED BY <1>1, <1>2, <1>3, <1>4, <1>5 DEF FirecrestInv

\* What a writer of the state of the job may leave in the file.
LEMMA WriteResults ==
    ASSUME NEW s \in savedState, Write(s)
    PROVE  \/ file' \in {file, NoFile, EmptyFile, CorruptFile}
           \/ file' = Written(s)
  BY DEF Write

\* A job is submitted only when no other is tracked.
LEMMA SubmitKeeps ==
    ASSUME FirecrestInv, NEW id \in JobIDs, submitJob(id), UNCHANGED site
    PROVE  FirecrestInv'
<1>0. ctxDone \in BOOLEAN /\ c \in Fields /\ id # NoJob /\ SitesOK'
  BY NoJobAssumption DEF FirecrestInv, TypeOK, Fields, SitesOK, SecretPrivate
<1>1. CASE Fatal
  BY <1>0, <1>1, FatalKeeps DEF submitJob, Up
<1>2. CASE ~Fatal
  <2> DEFINE accepted == {a \in Answers : ParsePostJobSubmitResponse(a) = "complete"}
  <2>1. /\ main = "submit" /\ job[id] = "unused"
        /\ \E o \in Results(NewPostJobSubmitRequest, accepted, ctxDone) :
               /\ job' = IF o.done THEN [job EXCEPT ![id] = "PENDING"] ELSE job
               /\ c' = IF o.ok THEN [c EXCEPT !.jobID = id, !.fs = NoFileSystem] ELSE c
               /\ main' = IF o.ok THEN "paths" ELSE "down"
               /\ gaps' = gaps \cup (IF o.done /\ ~o.ok THEN {"submission"} ELSE {})
               /\ UNCHANGED <<tick, file, ctxDone>>
    BY <1>2 DEF submitJob
  <2>2. PICK o \in Results(NewPostJobSubmitRequest, accepted, ctxDone) :
               /\ job' = IF o.done THEN [job EXCEPT ![id] = "PENDING"] ELSE job
               /\ c' = IF o.ok THEN [c EXCEPT !.jobID = id, !.fs = NoFileSystem] ELSE c
               /\ main' = IF o.ok THEN "paths" ELSE "down"
               /\ gaps' = gaps \cup (IF o.done /\ ~o.ok THEN {"submission"} ELSE {})
               /\ UNCHANGED <<tick, file, ctxDone>>
    BY <2>1
  <2> HIDE DEF accepted
  <2>3. tick.pc # "write" /\ c.jobID = NoJob
    BY <2>1 DEF FirecrestInv, FileTracked, Preparing
  <2>4. c' \in Fields /\ (o.ok => c'.jobID = id) /\ (~o.ok => c' = c)
    BY <1>0, <2>2 DEF Fields
  <2>5. TypeOK'
    <3>1. job' \in [JobIDs -> SlurmState]
      BY <2>2 DEF FirecrestInv, TypeOK, SlurmState
    <3>2. gaps' \subseteq {"submission", "writing", "reading", "cancelling"}
      BY <2>2 DEF FirecrestInv, TypeOK
    <3> QED BY <2>2, <2>4, <3>1, <3>2, <1>0 DEF FirecrestInv, TypeOK, Fields, SitesOK, Main
  <2>6. FileTracked'
    BY <1>0, <2>2, <2>3, <2>4 DEF FirecrestInv, FileTracked, Preparing, Started
  <2>7. JobTracked'
    <3> SUFFICES ASSUME gaps' = {}, NEW j \in JobIDs, Active(j)'
                 PROVE  main' = "paths" /\ j = c'.jobID
      BY DEF JobTracked, Preparing, Started
    <3>1. gaps = {} /\ (o.done => o.ok)
      BY <2>2
    <3>2. ~Active(j)
      BY <2>1, <3>1 DEF FirecrestInv, JobTracked, Preparing
    <3>3. o.done /\ j = id
      BY <2>2, <3>2 DEF Active, FirecrestInv, TypeOK
    <3> QED BY <2>2, <2>4, <3>1, <3>3
  <2>8. Uploaded'
    BY <2>2 DEF Uploaded, Preparing
  <2> QED BY <1>0, <2>5, <2>6, <2>7, <2>8 DEF FirecrestInv, SitesOK
<1> QED BY <1>1, <1>2

\* The other steps of Start and Stop, and the restart.
LEMMA MainStepKeeps == FirecrestInv /\ MainStep /\ UNCHANGED site => FirecrestInv'
<1> SUFFICES ASSUME FirecrestInv, MainStep, UNCHANGED site PROVE FirecrestInv'
  OBVIOUS
<1>0. ctxDone \in BOOLEAN /\ c \in Fields /\ tick \in Ticking /\ SitesOK'
  BY DEF FirecrestInv, TypeOK, Fields, Ticking, SitesOK, SecretPrivate
<1>f. CASE Up /\ Fatal
  BY <1>0, <1>f, FatalKeeps
<1>1. CASE Restart
  <2>1. TypeOK'
    BY <1>0, <1>1 DEF Restart, FirecrestInv, TypeOK, SitesOK, Main, NotTicking, NoState, savedState,
                      LogPaths, NewController, RemoteSessionState
  <2>2. FileTracked'
    BY <1>1 DEF Restart, FirecrestInv, FileTracked, Preparing, Started, NewController, NotTicking
  <2>3. JobTracked'
    BY <1>1 DEF Restart, FirecrestInv, JobTracked, Active, Preparing, Started
  <2>4. Uploaded'
    BY <1>1 DEF Restart, Uploaded, Preparing
  <2> QED BY <1>0, <2>1, <2>2, <2>3, <2>4 DEF FirecrestInv, SitesOK
<1>2. CASE recoverState /\ ~Fatal
  <2>1. main = "recover" /\ UNCHANGED <<tick, file, job, ctxDone>>
    BY <1>2 DEF recoverState
  <2>2. CASE /\ main' = "system" /\ c' = c
             /\ gaps' = gaps \cup (IF file.text = "written" /\ Active(file.state.jobID)
                                   THEN {"reading"} ELSE {})
    <3>0. gaps' \subseteq {"submission", "writing", "reading", "cancelling"}
      BY <2>2 DEF FirecrestInv, TypeOK
    <3>1. TypeOK'
      BY <1>0, <2>1, <2>2, <3>0 DEF FirecrestInv, TypeOK, SitesOK, Main
    <3>2. FileTracked'
      BY <2>1, <2>2 DEF FirecrestInv, FileTracked, Preparing, Started
    <3>3. JobTracked'
      <4> SUFFICES ASSUME gaps' = {}, NEW j \in JobIDs, Active(j)' PROVE FALSE
        BY DEF JobTracked
      <4>1. gaps = {} /\ Active(j) /\ ~(file.text = "written" /\ Active(file.state.jobID))
        BY <2>1, <2>2 DEF Active
      <4> QED BY <2>1, <4>1 DEF FirecrestInv, JobTracked
    <3>4. Uploaded'
      BY <2>2 DEF Uploaded, Preparing
    <3> QED BY <1>0, <3>1, <3>2, <3>3, <3>4 DEF FirecrestInv, SitesOK
  <2>3. CASE /\ file.text = "written" /\ main' = "wait" /\ gaps' = gaps
             /\ c' = [c EXCEPT !.jobID = file.state.jobID, !.paths = file.state.paths]
    <3>0. c' \in Fields /\ c'.jobID = file.state.jobID
      <4>1. file.state.jobID \in JobIDs \cup {NoJob} /\ file.state.paths \in LogPaths
        BY DEF FirecrestInv, TypeOK, StateFile, savedState
      <4> QED BY <1>0, <2>3, <4>1 DEF Fields
    <3>1. TypeOK'
      BY <1>0, <2>1, <2>3, <3>0 DEF FirecrestInv, TypeOK, SitesOK, Main, Fields
    <3>2. FileTracked'
      <4>1. file.state.jobID # NoJob
        BY <2>3 DEF FirecrestInv, FileTracked, NoFile, EmptyFile, CorruptFile
      <4> QED BY <2>1, <2>3, <3>0, <4>1 DEF FirecrestInv, FileTracked, Preparing, Started
    <3>3. JobTracked'
      BY <2>1, <2>3, <3>0 DEF FirecrestInv, JobTracked, Active, Preparing
    <3>4. Uploaded'
      BY <2>3 DEF Uploaded, Preparing
    <3> QED BY <1>0, <3>1, <3>2, <3>3, <3>4 DEF FirecrestInv, SitesOK
  <2> QED BY <1>2, <2>2, <2>3 DEF recoverState
<1>3. ASSUME NEW id \in JobIDs, submitJob(id) PROVE FirecrestInv'
  BY <1>3, SubmitKeeps
<1>4. CASE DefaultPaths
  <2>1. c' \in Fields /\ c'.jobID = c.jobID
    BY <1>0, <1>4 DEF DefaultPaths, Fields, LogPaths
  <2>2. main \in Started /\ main' \in Started /\ UNCHANGED <<tick, file, job, ctxDone, gaps>>
    BY <1>4 DEF DefaultPaths, Started
  <2>3. tick'.pc = "write" => tick'.saving.jobID = c.jobID
    BY <2>2 DEF FirecrestInv, FileTracked
  <2> QED BY <1>0, <2>1, <2>2, <2>3, StartedKeeps
<1>5. CASE GetJobMetadata
  <2>1. c' = c \/ c' = [c EXCEPT !.paths = "reported"]
    BY <1>5 DEF GetJobMetadata
  <2>2. c' \in Fields /\ c'.jobID = c.jobID
    BY <1>0, <2>1 DEF Fields, LogPaths
  <2>3. main \in Started /\ main' \in Started /\ UNCHANGED <<tick, file, job, ctxDone, gaps>>
    BY <1>5 DEF GetJobMetadata, Started
  <2>4. tick'.pc = "write" => tick'.saving.jobID = c.jobID
    BY <2>3 DEF FirecrestInv, FileTracked
  <2> QED BY <1>0, <2>2, <2>3, <2>4, StartedKeeps
<1>6. CASE (saveState \/ WriteState) /\ ~Fatal
  <2>1. main \in Started /\ main' \in Started /\ UNCHANGED <<tick, c, job, ctxDone, gaps>>
    BY <1>6 DEF saveState, WriteState, Started
  <2>2. tick'.pc = "write" => tick'.saving.jobID = c.jobID
    BY <2>1 DEF FirecrestInv, FileTracked
  <2> DEFINE s == [jobID |-> c.jobID, paths |-> c.paths]
  <2>3. s \in savedState /\ s.jobID = c.jobID
    BY <1>0 DEF savedState, Fields
  <2>4. file' = EmptyFile \/ Write(s)
    BY <1>6 DEF saveState, WriteState, Truncate
  <2>5. \/ file' \in {file, NoFile, EmptyFile, CorruptFile}
        \/ file' = Written(s)
    BY <2>3, <2>4, WriteResults
  <2> HIDE DEF s
  <2> QED BY <1>0, <2>1, <2>2, <2>3, <2>5, StartedKeeps
<1>7. CASE Stop
  <2>1. c.jobID # NoJob
    BY <1>7 DEF Stop, FirecrestInv, FileTracked, Started
  <2>2. /\ main \in Started /\ main' \in Started /\ UNCHANGED <<tick, c, job, ctxDone, gaps>>
        /\ file' \in {file, NoFile}
    BY <1>7, <2>1 DEF Stop, Started
  <2>3. tick'.pc = "write" => tick'.saving.jobID = c.jobID
    BY <2>2 DEF FirecrestInv, FileTracked
  <2> QED BY <1>0, <2>2, <2>3, StartedKeeps
<1>8. CASE CancelJob
  <2>1. main = "cancel" /\ main' = "down" /\ UNCHANGED <<tick, c, file, ctxDone>>
    BY <1>8 DEF CancelJob, Exit
  <2>2. /\ job' \in {job, [job EXCEPT ![c.jobID] = "CANCELLED"]}
        /\ gaps' \in {gaps, gaps \cup {"cancelling"}}
        /\ gaps' = {} => gaps = {} /\ (Active(c.jobID) => job' = [job EXCEPT ![c.jobID] = "CANCELLED"])
    BY <1>8 DEF CancelJob
  <2>3. TypeOK'
    <3>1. job' \in [JobIDs -> SlurmState]
      BY <2>2 DEF FirecrestInv, TypeOK, SlurmState
    <3> QED BY <1>0, <2>1, <2>2, <3>1 DEF FirecrestInv, TypeOK, SitesOK, Main
  <2>4. FileTracked'
    BY <2>1 DEF FirecrestInv, FileTracked, Preparing, Started
  <2>5. JobTracked'
    <3> SUFFICES ASSUME gaps' = {}, NEW j \in JobIDs, Active(j)' PROVE FALSE
      BY DEF JobTracked
    <3>1. gaps = {} /\ Active(j)
      BY <2>2 DEF Active, FirecrestInv, TypeOK
    <3>2. j = c.jobID
      BY <2>1, <3>1 DEF FirecrestInv, JobTracked, Started
    <3>3. job' = [job EXCEPT ![c.jobID] = "CANCELLED"]
      BY <2>2, <3>1, <3>2
    <3> QED BY <3>2, <3>3 DEF Active, FirecrestInv, TypeOK
  <2>6. Uploaded'
    BY <2>1 DEF Uploaded, Preparing
  <2> QED BY <1>0, <2>3, <2>4, <2>5, <2>6 DEF FirecrestInv, SitesOK
<1> QED
  BY <1>f, <1>1, <1>2, <1>3, <1>4, <1>5, <1>6, <1>7, <1>8
  DEF MainStep, Up, recoverState, saveState, WriteState

\* The other goroutine changes the status, its own step and the file.
LEMMA TickerKeeps ==
    ASSUME FirecrestInv, UNCHANGED <<main, job, ctxDone, gaps, site>>, c' \in Fields,
           c'.jobID = c.jobID, c'.fs = c.fs, c'.todo = c.todo, tick' \in Ticking,
           tick'.pc = "write" => c.jobID # NoJob /\ tick'.saving.jobID = c.jobID,
           \/ file' = file
           \/ /\ main \in Started
              /\ \/ file' \in {NoFile, EmptyFile, CorruptFile}
                 \/ \E s \in savedState : file' = Written(s) /\ s.jobID = c.jobID
    PROVE  FirecrestInv'
<1>0. ctxDone \in BOOLEAN
  BY DEF FirecrestInv, TypeOK
<1>1. CASE main \in Started
  <2>1. \/ file' \in {file, NoFile, EmptyFile, CorruptFile}
        \/ \E s \in savedState : file' = Written(s) /\ s.jobID = c.jobID
    OBVIOUS
  <2> QED BY <1>0, <1>1, <2>1, StartedKeeps
<1>2. CASE main \notin Started
  <2>1. file' = file
    BY <1>2
  <2>2. TypeOK'
    BY <2>1 DEF FirecrestInv, TypeOK, Fields, Ticking
  <2>3. FileTracked'
    BY <1>2, <2>1 DEF FirecrestInv, FileTracked
  <2>4. JobTracked'
    BY <1>2, <2>1 DEF FirecrestInv, JobTracked, Active
  <2>5. Uploaded'
    BY DEF FirecrestInv, Uploaded
  <2>6. SecretPrivate'
    BY DEF FirecrestInv, SecretPrivate
  <2> QED BY <2>2, <2>3, <2>4, <2>5, <2>6 DEF FirecrestInv
<1> QED BY <1>1, <1>2

\* Before the job is submitted there is nothing to save.
LEMMA UpWithJob ==
    ASSUME FirecrestInv, Up, c.jobID # NoJob
    PROVE  main \in Started
  BY DEF FirecrestInv, FileTracked, TypeOK, Main, Up, Preparing, Started

\* A tick reads the fields while Start or Stop changes them.
LEMMA TicksKeep == FirecrestInv /\ Ticker /\ UNCHANGED site => FirecrestInv'
<1> SUFFICES ASSUME FirecrestInv, Ticker, UNCHANGED site PROVE FirecrestInv'
  OBVIOUS
<1>0. c \in Fields /\ tick \in Ticking
  BY DEF FirecrestInv, TypeOK, Fields, Ticking
<1>1. CASE TickStatus
  <2>1. \E x \in RemoteSessionState : c' = [c EXCEPT !.status = x]
    <3>1. \A x : GetRemoteSessionState(x) \in RemoteSessionState
      BY DEF GetRemoteSessionState, RemoteSessionState
    <3> QED BY <1>1, <3>1 DEF TickStatus, RemoteSessionState
  <2>2. c' \in Fields /\ c'.jobID = c.jobID /\ c'.fs = c.fs /\ c'.todo = c.todo
    BY <1>0, <2>1 DEF Fields
  <2>3. tick' \in Ticking /\ tick'.pc = "save" /\ UNCHANGED <<main, file, job, ctxDone, gaps>>
    BY <1>0, <1>1 DEF TickStatus, Ticking
  <2> QED BY <2>2, <2>3, TickerKeeps
<1>2. CASE TickSave
  <2>1. UNCHANGED <<main, c, job, ctxDone, gaps>>
    BY <1>2 DEF TickSave
  <2>2. CASE /\ c.jobID # NoJob /\ file' = EmptyFile
             /\ tick' = [pc |-> "write", saving |-> [jobID |-> c.jobID, paths |-> c.paths]]
    <3>1. tick' \in Ticking /\ tick'.saving.jobID = c.jobID
      BY <1>0, <2>2 DEF Ticking, Fields, savedState
    <3>2. main \in Started
      BY <1>2, <2>2, UpWithJob DEF TickSave
    <3> QED BY <1>0, <2>1, <2>2, <3>1, <3>2, TickerKeeps
  <2>3. CASE tick' = NotTicking /\ UNCHANGED file
    <3>1. tick' \in Ticking /\ tick'.pc = "wait"
      BY <2>3 DEF NotTicking, Ticking, NoState, savedState, LogPaths
    <3> QED BY <1>0, <2>1, <2>3, <3>1, TickerKeeps
  <2> QED BY <1>2, <2>2, <2>3 DEF TickSave, Truncate
<1>3. CASE TickWrite
  <2>1. UNCHANGED <<main, c, job, ctxDone, gaps>> /\ Up /\ tick.pc = "write"
    BY <1>3 DEF TickWrite
  <2>2. tick' \in Ticking /\ tick'.pc = "wait"
    BY <1>3 DEF TickWrite, NotTicking, Ticking, NoState, savedState, LogPaths
  <2>3. main \in Started /\ tick.saving.jobID = c.jobID
    BY <2>1 DEF FirecrestInv, FileTracked, TypeOK, Main, Up, Preparing, Started
  <2>4. tick.saving \in savedState
    BY <1>0 DEF Ticking
  <2>5. Write(tick.saving) \/ file' = file
    BY <1>3 DEF TickWrite
  <2>6. file' \in {file, NoFile, EmptyFile, CorruptFile} \/ file' = Written(tick.saving)
    BY <2>4, <2>5, WriteResults
  <2> QED BY <1>0, <2>1, <2>2, <2>3, <2>4, <2>6, TickerKeeps
<1>4. CASE TickReturns
  <2>1. tick' \in Ticking /\ tick'.pc = "returned" /\ UNCHANGED <<main, c, file, job, ctxDone, gaps>>
    BY <1>0, <1>4 DEF TickReturns, Ticking
  <2> QED BY <1>0, <2>1, TickerKeeps
<1> QED BY <1>1, <1>2, <1>3, <1>4 DEF Ticker

\* No job becomes active on the cluster by itself.
LEMMA ClusterKeeps ==
    ASSUME FirecrestInv, UNCHANGED site, Interrupt \/ \E id \in JobIDs : JobStep(id)
    PROVE  FirecrestInv'
<1>1. UNCHANGED <<main, tick, c, file, gaps>> /\ ctxDone' \in BOOLEAN
  BY DEF FirecrestInv, TypeOK, Interrupt, JobStep
<1>2. job' \in [JobIDs -> SlurmState] /\ \A j \in JobIDs : Active(j)' => Active(j)
  <2>1. CASE Interrupt
    BY <2>1 DEF Interrupt, FirecrestInv, TypeOK, Active
  <2>2. ASSUME NEW id \in JobIDs, JobStep(id) PROVE <1>2!:
    BY <2>2 DEF JobStep, FirecrestInv, TypeOK, Active, SlurmState
  <2> QED BY <2>1, <2>2
<1>3. TypeOK'
  BY <1>1, <1>2 DEF FirecrestInv, TypeOK
<1>4. FileTracked' /\ Uploaded' /\ SecretPrivate'
  BY <1>1 DEF FirecrestInv, FileTracked, Uploaded, SecretPrivate
<1>5. JobTracked'
  BY <1>1, <1>2 DEF FirecrestInv, JobTracked
<1> QED BY <1>3, <1>4, <1>5 DEF FirecrestInv

\* Every step of the FirecREST controller, its process and the cluster.
LEMMA FirecrestKeeps == FirecrestInv /\ Next => FirecrestInv'
<1> SUFFICES ASSUME FirecrestInv, Next PROVE FirecrestInv'
  OBVIOUS
<1>1. CASE Crash /\ UNCHANGED site
  <2>1. SitesOK'
    BY <1>1 DEF FirecrestInv, TypeOK, SitesOK, SecretPrivate
  <2> QED BY <1>1, <2>1, FatalKeeps DEF Crash
<1> QED BY <1>1, SetupKeeps, MainStepKeeps, TicksKeep, ClusterKeeps DEF Next

\* Outside the gaps the only active job is the one the controller or the file knows.
LEMMA OneActiveJob ==
    ASSUME FirecrestInv, gaps = {},
           NEW i \in JobIDs, NEW j \in JobIDs, Active(i), Active(j)
    PROVE  i = j
  BY DEF FirecrestInv, JobTracked, TypeOK, Main, Preparing, Started

\* At most one element, at most one.
LEMMA AtMostOne ==
    ASSUME NEW S, \A x, y \in S : x = y
    PROVE  Cardinality(S) <= 1
<1>1. CASE S = {}
  BY <1>1, FS_EmptySet
<1>2. CASE S # {}
  <2>1. PICK x \in S : S = {x}
    BY <1>2
  <2> QED BY <2>1, FS_Singleton
<1> QED BY <1>1, <1>2

-----------------------------------------------------------------------------
(***************************************************************************)
(* Run:ai.  Only Start writes the file, and a process that recovers does   *)
(* not learn the ID of its job: what counts is that it creates no other.   *)
(***************************************************************************)

\* The file between two processes, and the ID a process has.
RunaiTracked ==
    /\ file \in {Runai!NoFile, Runai!EmptyFile} \/ file.text = "written"
    /\ main \in {"recover", "name", "project", "create"} => c.jobID = NoJob
    /\ main \in {"save", "write", "cancel"} => c.jobID # NoJob
    /\ main = "wait" => file.text = "written"

\* The active job is one, and is in the file or known to the process.
RunaiSingle ==
    gaps = {} =>
        /\ \A i, j \in JobIDs : Runai!Active(i) /\ Runai!Active(j) => i = j
        /\ \A j \in JobIDs : Runai!Active(j) =>
               /\ main \in {"down", "recover"} => file.text = "written" /\ file.state.jobId = j
               /\ main = "wait" => file.state.jobId = j
               /\ main \notin {"name", "project", "create"}
               /\ main \in {"save", "write", "wait", "cancel"} /\ c.jobID # NoJob => j = c.jobID

RunaiInv == Runai!TypeOK /\ RunaiTracked /\ RunaiSingle

\* A new process has no workspace and no state file.
LEMMA RunaiStarts == Runai!Init => RunaiInv
<1> SUFFICES ASSUME Runai!Init PROVE RunaiInv
  OBVIOUS
<1>1. Runai!TypeOK
  BY DEF Runai!Init, Runai!TypeOK, Runai!NewController, Runai!NoFile, Runai!NoState, Runai!savedState
<1>2. RunaiTracked
  BY DEF Runai!Init, RunaiTracked, Runai!NewController
<1>3. RunaiSingle
  BY DEF Runai!Init, RunaiSingle, Runai!Active
<1> QED BY <1>1, <1>2, <1>3 DEF RunaiInv

\* The gaps of Run:ai are among those of FirecREST.
LEMMA RunaiGapsTyped == Runai!GapsOnExit \subseteq {"submission", "writing", "reading", "cancelling"}
  BY DEF Runai!GapsOnExit

\* The process may exit anywhere: what it forgets is in the file, or in the gaps.
LEMMA RunaiFatalKeeps ==
    ASSUME RunaiInv, Runai!Up, Runai!Fatal
    PROVE  RunaiInv'
<1>1. Runai!TypeOK'
  <2>1. gaps' \subseteq {"submission", "writing", "reading", "cancelling"}
    BY RunaiGapsTyped DEF RunaiInv, Runai!TypeOK, Runai!Fatal
  <2> QED BY <2>1 DEF RunaiInv, Runai!TypeOK, Runai!Fatal, Runai!Exit
<1>2. RunaiTracked'
  BY DEF RunaiInv, RunaiTracked, Runai!Fatal, Runai!Exit
<1>3. RunaiSingle'
  <2> SUFFICES ASSUME gaps' = {}
               PROVE  /\ \A i, j \in JobIDs : Runai!Active(i)' /\ Runai!Active(j)' => i = j
                      /\ \A j \in JobIDs : Runai!Active(j)' =>
                             file.text = "written" /\ file.state.jobId = j
    BY DEF RunaiSingle, Runai!Fatal, Runai!Exit
  <2>1. gaps = {} /\ Runai!GapsOnExit = {} /\ \A j \in JobIDs : Runai!Active(j)' <=> Runai!Active(j)
    BY DEF Runai!Fatal, Runai!Active
  <2>2. ASSUME NEW j \in JobIDs, Runai!Active(j) PROVE file.text = "written" /\ file.state.jobId = j
    <3>1. CASE main \in {"save", "write", "cancel"}
      <4>1. c.jobID # NoJob /\ j = c.jobID
        BY <2>1, <2>2, <3>1 DEF RunaiInv, RunaiTracked, RunaiSingle
      <4>2. file # Runai!EmptyFile
        BY <2>1, <2>2, <4>1 DEF Runai!GapsOnExit
      <4>3. file.state.jobId = c.jobID
        BY <2>1, <2>2, <4>1, <4>2 DEF Runai!GapsOnExit
      <4>4. file # Runai!NoFile
        BY <4>1, <4>3 DEF Runai!NoFile, Runai!NoState
      <4> QED BY <4>1, <4>2, <4>3, <4>4 DEF RunaiInv, RunaiTracked
    <3>2. CASE main \notin {"save", "write", "cancel"}
      BY <2>1, <2>2, <3>2 DEF RunaiInv, RunaiTracked, RunaiSingle, Runai!TypeOK, Runai!Up
    <3> QED BY <3>1, <3>2
  <2> QED BY <2>1, <2>2 DEF RunaiInv, RunaiSingle
<1> QED BY <1>1, <1>2, <1>3 DEF RunaiInv

\* A workspace is created only when no other is tracked.
LEMMA CreateKeeps ==
    ASSUME RunaiInv, NEW id \in JobIDs, Runai!CreateWorkspace(id), ~Runai!Fatal
    PROVE  RunaiInv'
<1>1. /\ main = "create" /\ job[id] = "unused" /\ job' = [job EXCEPT ![id] = "RUNNING"]
      /\ UNCHANGED <<tick, file, ctxDone>>
  BY DEF Runai!CreateWorkspace, Runai!Exit
<1>2. \/ c' = [c EXCEPT !.jobID = id] /\ main' = "save" /\ gaps' = gaps
      \/ c' = c /\ main' = "down" /\ gaps' = gaps \cup {"submission"}
  BY DEF Runai!CreateWorkspace, Runai!Exit
<1>3. id # NoJob
  BY NoJobAssumption
<1>4. Runai!TypeOK'
  <2>1. job' \in [JobIDs -> {"unused", "RUNNING", "DELETED"}]
    BY <1>1 DEF RunaiInv, Runai!TypeOK
  <2> QED BY <1>1, <1>2, <2>1 DEF RunaiInv, Runai!TypeOK
<1>5. main' = "save" => c'.jobID = id
  BY <1>2 DEF RunaiInv, Runai!TypeOK
<1>6. RunaiTracked'
  BY <1>1, <1>2, <1>3, <1>5 DEF RunaiInv, RunaiTracked
<1>7. RunaiSingle'
  <2> SUFFICES ASSUME gaps' = {}, NEW j \in JobIDs, Runai!Active(j)' PROVE main' = "save" /\ j = id
    BY <1>5 DEF RunaiSingle
  <2>1. gaps = {} /\ main' = "save"
    BY <1>2
  <2>2. ~Runai!Active(j)
    BY <1>1, <2>1 DEF RunaiInv, RunaiSingle
  <2> QED BY <1>1, <2>1, <2>2 DEF RunaiInv, Runai!TypeOK, Runai!Active
<1> QED BY <1>4, <1>6, <1>7 DEF RunaiInv

\* Every step of the Run:ai controller, its process and the cluster.
LEMMA RunaiKeeps == RunaiInv /\ Runai!Next => RunaiInv'
<1> SUFFICES ASSUME RunaiInv, Runai!Next PROVE RunaiInv'
  OBVIOUS
<1>f. CASE Runai!Up /\ Runai!Fatal
  BY <1>f, RunaiFatalKeeps
<1>1. CASE Runai!Restart
  <2>1. Runai!TypeOK'
    BY <1>1 DEF RunaiInv, Runai!Restart, Runai!TypeOK, Runai!NewController
  <2>2. RunaiTracked'
    BY <1>1 DEF RunaiInv, Runai!Restart, RunaiTracked, Runai!NewController
  <2>3. RunaiSingle'
    BY <1>1 DEF RunaiInv, Runai!Restart, RunaiSingle, Runai!Active
  <2> QED BY <2>1, <2>2, <2>3 DEF RunaiInv
<1>2. CASE Runai!Interrupt \/ Runai!TickReturns \/ Runai!getCurrentStatus
  <2>1. UNCHANGED <<main, file, job, gaps>> /\ tick' \in {tick, "returned"} /\ ctxDone' \in BOOLEAN
    BY <1>2 DEF RunaiInv, Runai!TypeOK, Runai!Interrupt, Runai!TickReturns, Runai!getCurrentStatus
  <2>2. \E e \in BOOLEAN, x \in {"NotReady", ""} :
            c' = c \/ c' = [c EXCEPT !.error = e, !.status = x]
    BY <1>2 DEF Runai!Interrupt, Runai!TickReturns, Runai!getCurrentStatus
  <2>3. c' \in [jobName: BOOLEAN, jobID: JobIDs \cup {NoJob}, status: {"NotReady", ""}, error: BOOLEAN]
        /\ c'.jobID = c.jobID
    BY <2>2 DEF RunaiInv, Runai!TypeOK
  <2>4. Runai!TypeOK'
    BY <2>1, <2>3 DEF RunaiInv, Runai!TypeOK
  <2>5. RunaiTracked'
    BY <2>1, <2>3 DEF RunaiInv, RunaiTracked
  <2>6. RunaiSingle'
    BY <2>1, <2>3 DEF RunaiInv, RunaiSingle, Runai!Active
  <2> QED BY <2>4, <2>5, <2>6 DEF RunaiInv
<1>3. CASE Runai!recoverJobInfo /\ ~Runai!Fatal
  <2>1. /\ main = "recover" /\ UNCHANGED <<tick, file, job, ctxDone>>
        /\ \/ /\ main' = "name" /\ c' = c
              /\ gaps' = gaps \cup (IF file.text = "written" /\ Runai!Active(file.state.jobId)
                                    THEN {"reading"} ELSE {})
           \/ /\ file.text = "written" /\ main' = "wait" /\ gaps' = gaps
              /\ c' = [c EXCEPT !.jobName = file.state.jobName]
    BY <1>3 DEF Runai!recoverJobInfo
  <2>2. file.state.jobName \in BOOLEAN
    BY DEF RunaiInv, Runai!TypeOK, Runai!savedState
  <2>3. c' \in [jobName: BOOLEAN, jobID: JobIDs \cup {NoJob}, status: {"NotReady", ""}, error: BOOLEAN]
        /\ c'.jobID = c.jobID
    BY <2>1, <2>2 DEF RunaiInv, Runai!TypeOK
  <2>4. Runai!TypeOK'
    <3>1. gaps' \subseteq {"submission", "writing", "reading", "cancelling"}
      BY <2>1 DEF RunaiInv, Runai!TypeOK
    <3> QED BY <2>1, <2>3, <3>1 DEF RunaiInv, Runai!TypeOK
  <2>5. RunaiTracked'
    BY <2>1, <2>3 DEF RunaiInv, RunaiTracked
  <2>6. RunaiSingle'
    <3>1. c'.jobID = NoJob
      BY <2>1, <2>3 DEF RunaiInv, RunaiTracked
    <3>2. ASSUME gaps' = {} PROVE gaps = {}
      BY <2>1, <3>2
    <3>3. ASSUME gaps' = {}, main' = "name", NEW j \in JobIDs, Runai!Active(j) PROVE FALSE
      <4>1. file.text = "written" /\ file.state.jobId = j
        BY <2>1, <3>2, <3>3 DEF RunaiInv, RunaiSingle
      <4> QED BY <2>1, <3>3, <4>1
    <3>4. main' \in {"name", "wait"}
      BY <2>1
    <3> QED BY <2>1, <3>1, <3>2, <3>3, <3>4 DEF RunaiInv, RunaiSingle, Runai!Active
  <2> QED BY <2>4, <2>5, <2>6 DEF RunaiInv
<1>4. CASE (Runai!NameJob \/ Runai!getProject) /\ ~Runai!Fatal
  <2>1. /\ main \in {"name", "project"} /\ main' \in {"project", "create"}
        /\ c' \in {c, [c EXCEPT !.jobName = TRUE]} /\ UNCHANGED <<tick, file, job, ctxDone, gaps>>
    BY <1>4 DEF Runai!NameJob, Runai!getProject
  <2>2. Runai!TypeOK' /\ c'.jobID = c.jobID
    BY <2>1 DEF RunaiInv, Runai!TypeOK
  <2>3. RunaiTracked'
    BY <2>1, <2>2 DEF RunaiInv, RunaiTracked
  <2>4. RunaiSingle'
    BY <2>1 DEF RunaiInv, RunaiSingle, Runai!Active
  <2> QED BY <2>2, <2>3, <2>4 DEF RunaiInv
<1>5. ASSUME NEW id \in JobIDs, Runai!CreateWorkspace(id) PROVE RunaiInv'
  BY <1>f, <1>5, CreateKeeps DEF Runai!CreateWorkspace, Runai!Up
<1>6. CASE Runai!saveJobInfo /\ ~Runai!Fatal
  <2>1. UNCHANGED <<tick, c, job, ctxDone, gaps>>
    BY <1>6 DEF Runai!saveJobInfo
  <2>2. CASE main = "save" /\ file' = Runai!EmptyFile /\ main' = "write"
    <3>1. Runai!TypeOK'
      BY <2>1, <2>2 DEF RunaiInv, Runai!TypeOK, Runai!EmptyFile, Runai!NoState, Runai!savedState
    <3>2. RunaiTracked'
      BY <2>1, <2>2 DEF RunaiInv, RunaiTracked
    <3>3. RunaiSingle'
      BY <2>1, <2>2 DEF RunaiInv, RunaiSingle, Runai!Active
    <3> QED BY <3>1, <3>2, <3>3 DEF RunaiInv
  <2>3. CASE /\ main = "write" /\ main' = "wait"
             /\ file' = Runai!Written([jobName |-> c.jobName, jobId |-> c.jobID])
    <3>1. file'.text = "written" /\ file'.state.jobId = c.jobID
      BY <2>3 DEF Runai!Written
    <3>2. Runai!TypeOK'
      <4>1. c.jobName \in BOOLEAN /\ c.jobID \in JobIDs \cup {NoJob}
        BY DEF RunaiInv, Runai!TypeOK
      <4>2. file' \in [text: {"none", "empty", "written"}, state: Runai!savedState]
        BY <2>3, <4>1 DEF Runai!Written, Runai!savedState
      <4> QED BY <2>1, <2>3, <4>2 DEF RunaiInv, Runai!TypeOK
    <3>3. RunaiTracked'
      BY <2>1, <2>3, <3>1 DEF RunaiInv, RunaiTracked
    <3>4. RunaiSingle'
      BY <2>1, <2>3, <3>1 DEF RunaiInv, RunaiTracked, RunaiSingle, Runai!Active
    <3> QED BY <3>2, <3>3, <3>4 DEF RunaiInv
  <2> QED BY <1>6, <2>2, <2>3 DEF Runai!saveJobInfo
<1>7. CASE Runai!Stop
  <2>1. main = "wait" /\ UNCHANGED <<tick, c, job, ctxDone, gaps>> /\ file.text = "written"
    BY <1>7 DEF Runai!Stop, Runai!Exit, RunaiInv, RunaiTracked
  <2>2. \/ c.jobID = NoJob /\ main' = "down" /\ file' = file
        \/ c.jobID # NoJob /\ main' = "cancel" /\ file' \in {file, Runai!NoFile}
    BY <1>7 DEF Runai!Stop, Runai!Exit
  <2>3. Runai!TypeOK'
    <3>1. Runai!NoFile \in [text: {"none", "empty", "written"}, state: Runai!savedState]
      BY DEF Runai!NoFile, Runai!NoState, Runai!savedState
    <3> QED BY <2>1, <2>2, <3>1 DEF RunaiInv, Runai!TypeOK
  <2>4. RunaiTracked'
    BY <2>1, <2>2 DEF RunaiInv, RunaiTracked
  <2>5. RunaiSingle'
    BY <2>1, <2>2 DEF RunaiInv, RunaiSingle, Runai!Active
  <2> QED BY <2>3, <2>4, <2>5 DEF RunaiInv
<1>8. CASE Runai!DeleteWorkspace
  <2>1. main = "cancel" /\ main' = "down" /\ UNCHANGED <<tick, c, file, ctxDone>>
    BY <1>8 DEF Runai!DeleteWorkspace, Runai!Exit
  <2>2. \/ job' = [job EXCEPT ![c.jobID] = "DELETED"] /\ gaps' = gaps
        \/ job' = job /\ gaps' = gaps \cup {"cancelling"}
    BY <1>8 DEF Runai!DeleteWorkspace
  <2>3. Runai!TypeOK'
    <3>1. job' \in [JobIDs -> {"unused", "RUNNING", "DELETED"}]
      BY <2>2 DEF RunaiInv, Runai!TypeOK
    <3> QED BY <2>1, <2>2, <3>1 DEF RunaiInv, Runai!TypeOK
  <2>4. RunaiTracked'
    BY <2>1 DEF RunaiInv, RunaiTracked
  <2>5. RunaiSingle'
    <3> SUFFICES ASSUME gaps' = {}, NEW j \in JobIDs, Runai!Active(j)' PROVE FALSE
      BY DEF RunaiSingle
    <3>1. gaps = {} /\ job' = [job EXCEPT ![c.jobID] = "DELETED"]
      BY <2>2
    <3>2. Runai!Active(j) /\ j # c.jobID
      BY <3>1 DEF Runai!Active, RunaiInv, Runai!TypeOK
    <3> QED BY <2>1, <3>1, <3>2 DEF RunaiInv, RunaiTracked, RunaiSingle
  <2> QED BY <2>3, <2>4, <2>5 DEF RunaiInv
<1> QED
  BY <1>f, <1>1, <1>2, <1>3, <1>4, <1>5, <1>6, <1>7, <1>8
  DEF Runai!Next, Runai!Crash, Runai!Up, Runai!recoverJobInfo, Runai!NameJob, Runai!getProject,
      Runai!saveJobInfo

-----------------------------------------------------------------------------
(***************************************************************************)
(* The sidecar: nothing happens before a backend is chosen, and then only  *)
(* what that backend does.                                                 *)
(***************************************************************************)
BackendInv ==
    /\ cfg \in Configs
    /\ kind \in {"unknown", "firecrest", "runai", "exit"}
    /\ SecretPrivate
    /\ kind \in {"unknown", "exit"} => Init
    /\ kind = "firecrest" => FirecrestInv
    /\ kind = "runai" => RunaiInv

\* No backend is chosen yet, and nothing was done.
LEMMA BackendStarts == SidecarInit => BackendInv
<1> SUFFICES ASSUME SidecarInit PROVE BackendInv
  OBVIOUS
<1>1. Init /\ cfg \in Configs /\ kind = "unknown"
  BY DEF SidecarInit
<1>2. SecretPrivate
  BY <1>1, FirecrestStarts DEF FirecrestInv
<1> QED BY <1>1, <1>2 DEF BackendInv

\* The backend that the configuration selects begins in its initial state.
LEMMA ChosenBackendStarts == BackendInv /\ NewRemoteSessionController => BackendInv'
<1> SUFFICES ASSUME BackendInv, NewRemoteSessionController PROVE BackendInv'
  OBVIOUS
<1>1. Init /\ UNCHANGED <<main, job, ctxDone, gaps, site>> /\ SecretPrivate'
  BY DEF BackendInv, NewRemoteSessionController, SecretPrivate
<1>2. kind' \in {"firecrest", "runai", "exit"}
  BY DEF NewRemoteSessionController, RemoteKind
<1>3. cfg' \in Configs
  BY DEF NewRemoteSessionController, NoConfig, Configs, AuthKinds, ReadinessProbeTypes
<1>4. CASE kind' = "runai"
  <2>1. c' = Runai!NewController /\ tick' = "wait" /\ file' = Runai!NoFile
    BY <1>4 DEF NewRemoteSessionController
  <2>2. Runai!Init'
    BY <1>1, <2>1 DEF Init, Runai!Init
  <2>3. RunaiInv'
    BY <2>2, RunaiStarts, PTL
  <2> QED BY <1>1, <1>2, <1>3, <1>4, <2>3 DEF BackendInv
<1>5. CASE kind' # "runai"
  <2>1. UNCHANGED <<c, tick, file>>
    BY <1>5 DEF NewRemoteSessionController
  <2>2. Init'
    BY <1>1, <2>1 DEF Init
  <2>3. FirecrestInv'
    BY <2>2, FirecrestStarts, PTL
  <2> QED BY <1>1, <1>2, <1>3, <1>5, <2>2, <2>3 DEF BackendInv
<1> QED BY <1>4, <1>5

\* The chosen backend goes on, the other does nothing.
LEMMA BackendKeeps == BackendInv /\ [SidecarNext]_sidecarVars => BackendInv'
<1> SUFFICES ASSUME BackendInv, [SidecarNext]_sidecarVars PROVE BackendInv'
  OBVIOUS
<1>1. CASE NewRemoteSessionController
  BY <1>1, ChosenBackendStarts
<1>2. CASE Controller /\ UNCHANGED <<cfg, kind>>
  <2>1. CASE kind = "firecrest" /\ Next
    <3>1. FirecrestInv'
      BY <2>1, FirecrestKeeps DEF BackendInv
    <3> QED BY <1>2, <2>1, <3>1 DEF BackendInv, FirecrestInv
  <2>2. CASE kind = "runai" /\ Runai!Next /\ UNCHANGED site
    <3>1. RunaiInv'
      BY <2>2, RunaiKeeps DEF BackendInv
    <3> QED BY <1>2, <2>2, <3>1 DEF BackendInv, SecretPrivate
  <2> QED BY <1>2, <2>1, <2>2 DEF Controller
<1>3. CASE UNCHANGED sidecarVars
  <2>1. UNCHANGED <<main, tick, c, file, job, ctxDone, gaps, site, cfg, kind>>
    BY <1>3 DEF sidecarVars
  <2>2. Init => Init'
    BY <2>1 DEF Init
  <2>3. FirecrestInv => FirecrestInv'
    BY <2>1 DEF FirecrestInv, TypeOK, FileTracked, JobTracked, Active, Uploaded, SecretPrivate
  <2>4. RunaiInv => RunaiInv'
    <3>1. Runai!TypeOK => Runai!TypeOK'
      BY <2>1 DEF Runai!TypeOK
    <3>2. RunaiTracked => RunaiTracked'
      BY <2>1 DEF RunaiTracked
    <3>3. RunaiSingle => RunaiSingle'
      BY <2>1 DEF RunaiSingle, Runai!Active
    <3> QED BY <3>1, <3>2, <3>3 DEF RunaiInv
  <2> QED BY <2>1, <2>2, <2>3, <2>4 DEF BackendInv, SecretPrivate
<1> QED BY <1>1, <1>2, <1>3 DEF SidecarNext

\* The invariant of the whole sidecar.
LEMMA BackendAlways == SidecarSpec => []BackendInv
  BY BackendStarts, BackendKeeps, PTL DEF SidecarSpec

\* The sets of jobs that either backend calls active are the same.
LEMMA BackendIsSafe == BackendInv => SidecarInv
<1> SUFFICES ASSUME BackendInv PROVE SidecarInv
  OBVIOUS
<1>1. SidecarTypeOK
  BY FirecrestStarts DEF BackendInv, SidecarTypeOK, FirecrestInv, RunaiInv
<1>2. SingleJob
  <2> SUFFICES ASSUME gaps = {}, NEW i \in JobIDs, NEW j \in JobIDs, Active(i), Active(j) PROVE i = j
    BY AtMostOne DEF SingleJob
  <2>1. CASE kind = "runai"
    <3>1. Runai!Active(i) /\ Runai!Active(j)
      BY <2>1 DEF BackendInv, RunaiInv, Runai!TypeOK, Runai!Active, Active
    <3> QED BY <2>1, <3>1 DEF BackendInv, RunaiInv, RunaiSingle
  <2>2. CASE kind # "runai"
    <3>1. FirecrestInv
      BY <2>2, FirecrestStarts DEF BackendInv
    <3> QED BY <3>1, OneActiveJob
  <2> QED BY <2>1, <2>2
<1> QED BY <1>1, <1>2 DEF SidecarInv

\* A session has one job at a time with either backend, over crashes,
\* restarts and failed calls, unless a job was lost track of: where
\* os.WriteFile, the submission or the cancellation of it was cut short, or
\* where os.ReadFile failed on the file of a job that runs.
THEOREM OneJobPerSession == SidecarSpec => []SidecarInv
  BY BackendAlways, BackendIsSafe, PTL

\* The tunnel secret that UploadFile copies to the cluster is never in a
\* directory whose mode SetupPermissions has not changed.
THEOREM SecretStaysPrivate == SidecarSpec => []SecretPrivate
<1>1. BackendInv => SecretPrivate
  BY DEF BackendInv
<1> QED BY <1>1, BackendAlways, PTL

\* Validate and the constructors let a backend start only with everything
\* that it reads.
THEOREM ConfigurationIsEnough == SidecarSpec => ConfigurationSuffices
<1>1. ASSUME [SidecarNext]_sidecarVars, kind = "unknown", kind' \in {"firecrest", "runai"}
      PROVE  Needed(kind', cfg.auth) \subseteq cfg.set
  <2>1. NewRemoteSessionController
    BY <1>1 DEF SidecarNext, sidecarVars, Controller
  <2>2. Created(cfg) /\ kind' = RemoteKind(cfg)
    BY <1>1, <2>1 DEF NewRemoteSessionController
  <2>3. CASE ValidFirecrest(cfg)
    BY <2>2, <2>3 DEF RemoteKind, ValidFirecrest, ValidFirecrestAuth, validateRenku, validateRenkuV2,
                      validateClientCredentials, Needed
  <2>4. CASE ~ValidFirecrest(cfg)
    BY <2>2, <2>4 DEF Created, Valid, RemoteKind, ValidRunai, ValidRunaiAuth, Needed
  <2> QED BY <2>3, <2>4
<1> QED BY <1>1, PTL DEF SidecarSpec, ConfigurationSuffices

\* Stop cancels the job of a FirecREST session, whichever process submitted
\* it, or the call failed.
THEOREM StopCancelsTheJob == SidecarSpec => FirecrestStopLeavesNoJob
<1>1. ASSUME BackendInv, kind = "firecrest" PROVE LeavesNoJob
  <2> SUFFICES ASSUME Stop \/ CancelJob, main' = "down", gaps' = {}, NEW j \in JobIDs
               PROVE  job'[j] \notin {"PENDING", "RUNNING"}
    BY DEF LeavesNoJob
  <2>1. FirecrestInv
    BY <1>1 DEF BackendInv
  <2>2. CancelJob
    BY <2>1 DEF Stop, FirecrestInv, FileTracked, Started
  <2>3. /\ main = "cancel" /\ gaps = {} /\ job' \in {job, [job EXCEPT ![c.jobID] = "CANCELLED"]}
        /\ Active(c.jobID) => job' = [job EXCEPT ![c.jobID] = "CANCELLED"]
    BY <2>2 DEF CancelJob
  <2>4. Active(j) => j = c.jobID
    BY <2>1, <2>3 DEF FirecrestInv, JobTracked, Started
  <2> QED BY <2>1, <2>3, <2>4 DEF FirecrestInv, TypeOK, Active
<1> QED BY <1>1, BackendAlways, PTL DEF SidecarSpec, FirecrestStopLeavesNoJob

\* Only submitJob makes an unused job pending.
LEMMA OnlySubmitJobSubmits ==
    ASSUME FirecrestInv, Next, NEW id \in JobIDs, job[id] = "unused", job'[id] = "PENDING"
    PROVE  main = "submit"
<1>1. ASSUME NEW i \in JobIDs, JobStep(i) PROVE FALSE
  BY <1>1 DEF JobStep, FirecrestInv, TypeOK
<1>2. CASE CancelJob
  <2>1. job' \in {job, [job EXCEPT ![c.jobID] = "CANCELLED"]}
    BY <1>2 DEF CancelJob
  <2> QED BY <2>1 DEF FirecrestInv, TypeOK
<1>3. Setup => job' = job
  BY DEF Setup, GetCurrentSystem, getUserInfo, SetupSecrets, SetupPermissions, UploadSecret,
         collectGitRepositories, MakeRepository, UploadRepositoryConfig, UploadScript, Call, Fatal
<1>4. Restart \/ recoverState \/ DefaultPaths \/ GetJobMetadata \/ saveState \/ WriteState \/ Stop
      \/ Ticker \/ Interrupt \/ Crash => job' = job
  BY DEF Restart, recoverState, DefaultPaths, GetJobMetadata, saveState, WriteState, Stop, Ticker,
         TickStatus, TickSave, TickWrite, TickReturns, Interrupt, Crash, Fatal
<1>5. CASE \E i \in JobIDs : submitJob(i)
  BY <1>5 DEF submitJob
<1> QED BY <1>1, <1>2, <1>3, <1>4, <1>5 DEF Next, MainStep

\* Every job that submitJob brings to the cluster finds the files that the
\* steps of Start before it have uploaded.
THEOREM JobsFindTheirFiles == SidecarSpec => FirecrestJobFindsItsFiles
<1>1. ASSUME BackendInv, [SidecarNext]_sidecarVars, kind = "firecrest" PROVE JobFindsItsFiles
  <2> SUFFICES ASSUME NEW id \in JobIDs, job[id] = "unused", job'[id] = "PENDING"
               PROVE  Files \ (IF HasTunnelSecret THEN {} ELSE {"wstunnel_secret"}) \subseteq site[c.fs]
    BY DEF JobFindsItsFiles
  <2>1. FirecrestInv
    BY <1>1 DEF BackendInv
  <2>2. Next
    BY <1>1 DEF SidecarNext, NewRemoteSessionController, Controller, sidecarVars
  <2>3. main = "submit"
    BY <2>1, <2>2, OnlySubmitJobSubmits
  <2> QED BY <2>1, <2>3 DEF FirecrestInv, Uploaded, Preparing, Files
<1> QED BY <1>1, BackendAlways, PTL DEF SidecarSpec, FirecrestJobFindsItsFiles
=============================================================================
