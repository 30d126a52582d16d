----------------------------- MODULE LogStream -----------------------------
(***************************************************************************)
(* How the FirecREST controller forwards a log file of the remote job      *)
(* (fetchLogStream in internal/remote/firecrest/controller.go): it reads   *)
(* the file from where it stopped, keeps a partial line in a buffer and    *)
(* prints whole lines.  The offset, not the buffer, is saved for the next  *)
(* process.  A byte of the file is known by its position, 1 being the      *)
(* first one.                                                              *)
(***************************************************************************)
EXTENDS Naturals, Sequences

CONSTANTS
    Size,        \* how many bytes one request returns at most
    MaxLog       \* bound: the length of the log file

ASSUME SizeAssumption == Size \in Nat \ {0}
ASSUME MaxLogAssumption == MaxLog \in Nat

VARIABLES
    log,       \* for every byte of the file, is it a newline?
    offset,    \* stdoutOffset
    buf,       \* stdoutBuf: the positions of the bytes in it
    saved,     \* the offset in the state file
    flushing,  \* is fetchLogStream in its loop over the lines?
    starting,  \* is Start, which saves the state at its end, still running?
    printed    \* history: the lines written to stdout, each as its positions

vars == <<log, offset, buf, saved, flushing, starting, printed>>

TypeOK ==
    /\ log \in Seq(BOOLEAN)
    /\ offset \in Nat
    /\ buf \in Seq(Nat)
    /\ saved \in Nat
    /\ flushing \in BOOLEAN
    /\ starting \in BOOLEAN
    /\ printed \subseteq Seq(Nat)

Init ==
    /\ log = << >>
    /\ offset = 0
    /\ buf = << >>
    /\ saved = 0
    /\ flushing = FALSE
    /\ starting = TRUE
    /\ printed = {}

\* The job appends to its log.
JobWrites(newline) ==
    /\ Len(log) < MaxLog
    /\ log' = Append(log, newline)
    /\ UNCHANGED <<offset, buf, saved, flushing, starting, printed>>

\* Faulty variant: the bytes in the buffer are requested again.
apiOffsetWithoutBuffer == offset

apiOffset == offset + Len(buf)

\* What FirecREST answers: a part of the file, nothing behind its end.
View(from) ==
    [i \in 1 .. (IF from >= Len(log) THEN 0
                 ELSE IF Len(log) - from < Size THEN Len(log) - from ELSE Size) |-> from + i]

\* A request that fails leaves everything as it is, for the next tick.
Fetch ==
    /\ ~flushing
    /\ View(apiOffset) # << >>
    /\ buf' = buf \o View(apiOffset)
    /\ flushing' = TRUE
    /\ UNCHANGED <<log, offset, saved, starting, printed>>

\* The first newline in the buffer.
IsFirstNewline(idx) ==
    /\ idx \in 1 .. Len(buf)
    /\ log[buf[idx]]
    /\ \A i \in 1 .. idx - 1 : ~log[buf[i]]

\* Faulty variant: the offset stops in front of the newline.
PrintLineShort(idx) ==
    /\ flushing
    /\ IsFirstNewline(idx)
    /\ printed' = printed \cup {SubSeq(buf, 1, idx)}
    /\ buf' = SubSeq(buf, idx + 1, Len(buf))
    /\ offset' = offset + idx - 1
    /\ UNCHANGED <<log, saved, flushing, starting>>

PrintLine(idx) ==
    /\ flushing
    /\ IsFirstNewline(idx)
    /\ printed' = printed \cup {SubSeq(buf, 1, idx)}
    /\ buf' = SubSeq(buf, idx + 1, Len(buf))
    /\ offset' = offset + idx
    /\ UNCHANGED <<log, saved, flushing, starting>>

\* Faulty variant: what is in the buffer counts as consumed.
OffsetToSaveWithBuffer == offset + Len(buf)

OffsetToSave == offset

\* No whole line is left; the tick saves the state.
TickEnds ==
    /\ flushing
    /\ \A i \in 1 .. Len(buf) : ~log[buf[i]]
    /\ flushing' = FALSE
    /\ saved' = OffsetToSave
    /\ UNCHANGED <<log, offset, buf, starting, printed>>

\* Start saves the state too, whatever a tick is doing meanwhile.
StartEnds ==
    /\ starting
    /\ starting' = FALSE
    /\ saved' = OffsetToSave
    /\ UNCHANGED <<log, offset, buf, flushing, printed>>

\* Faulty variant: the new process reads the log from its start.
RestartAtZero ==
    /\ buf' = << >> /\ flushing' = FALSE /\ starting' = FALSE
    /\ offset' = 0
    /\ UNCHANGED <<log, saved, printed>>

\* The process ends at any point, the next one recovers the saved state.
Restart ==
    /\ buf' = << >> /\ flushing' = FALSE /\ starting' = FALSE
    /\ offset' = saved
    /\ UNCHANGED <<log, saved, printed>>

Next ==
    \/ \E newline \in BOOLEAN : JobWrites(newline)
    \/ Fetch
    \/ \E idx \in 1 .. Len(buf) : PrintLine(idx)
    \/ TickEnds \/ StartEnds \/ Restart

Spec == Init /\ [][Next]_vars

\* The ticks go on and their requests are answered in the end.
Tick == Fetch \/ TickEnds \/ \E idx \in 1 .. Len(buf) : PrintLine(idx)
FairSpec == Spec /\ WF_vars(Tick)

-----------------------------------------------------------------------------
\* The line of the log that is in positions from .. to, its newline included.
IsLineOfLog(from, to) ==
    /\ from = 1 \/ (from - 1 \in DOMAIN log /\ log[from - 1])
    /\ to \in DOMAIN log /\ log[to]
    /\ \A i \in from .. to - 1 : i \in DOMAIN log /\ ~log[i]

\* Whatever the sizes of the answers and wherever the process is restarted,
\* every line printed is one of the log: none is cut, joined or made of bytes
\* fetched twice ("Append new content and flush any complete lines").
PrintedLinesWhole ==
    \A line \in printed :
        /\ line # << >>
        /\ IsLineOfLog(line[1], line[Len(line)])
        /\ \A i \in 1 .. Len(line) : line[i] = line[1] + i - 1

\* No line is lost: all lines in front of the offset a restart would resume
\* from have been printed ("Persist offsets so we can resume after a restart").
NoLineLost ==
    \A from, to \in 1 .. MaxLog :
        from <= to /\ to <= saved /\ IsLineOfLog(from, to)
            => [i \in 1 .. to - from + 1 |-> from + i - 1] \in printed

\* What is printed is the log up to where a restart would resume, and nothing
\* that is not in it.
LogFaithful == PrintedLinesWhole /\ NoLineLost

\* A line is printed again only when no offset behind it had been saved: a
\* restart repeats at most the lines of the interrupted tick.
NoNeedlessRepetition ==
    [][\A idx \in 1 .. Len(buf) : PrintLine(idx) /\ SubSeq(buf, 1, idx) \in printed
          => saved <= offset]_vars

\* Every whole line of the log is printed in the end, unless the process keeps
\* being restarted.
LinesPrinted ==
    <>[][~Restart]_vars =>
      \A from, to \in 1 .. MaxLog :
        (from <= to /\ IsLineOfLog(from, to))
            ~> ([i \in 1 .. to - from + 1 |-> from + i - 1] \in printed)
=============================================================================
