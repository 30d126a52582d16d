-------------------------- MODULE LogStream_proofs --------------------------
(***************************************************************************)
(* The safety of LogStream for logs of any length and answers of any size: *)
(* the buffer is the part of the log behind the offset, and an offset that *)
(* is used or saved is always at the beginning of a line.                  *)
(***************************************************************************)
EXTENDS LogStream, SequenceTheorems, TLAPS

\* What is in front of position n + 1 are whole lines.
AtLineStart(n) == n = 0 \/ (n \in DOMAIN log /\ log[n])

\* The buffer holds the bytes behind the offset, each once and in order.
BufferBehindOffset ==
    /\ offset + Len(buf) <= Len(log)
    /\ \A i \in 1 .. Len(buf) : buf[i] = offset + i

OffsetsAtLines == AtLineStart(offset) /\ AtLineStart(saved) /\ saved <= offset

\* The lines in front of the offset have been printed.
PrintedToOffset ==
    \A from, to \in 1 .. MaxLog :
        from <= to /\ to <= offset /\ IsLineOfLog(from, to)
            => [i \in 1 .. to - from + 1 |-> from + i - 1] \in printed

\* PrintedLinesWhole is inductive only with what the buffer holds, and
\* NoLineLost only for the offset the process has reached.
LogInv == TypeOK /\ BufferBehindOffset /\ OffsetsAtLines /\ PrintedToOffset /\ PrintedLinesWhole

-----------------------------------------------------------------------------
\* A log that grows keeps its lines, and gets no new ones in front of its end.
LEMMA LinesStay ==
    ASSUME TypeOK, NEW newline \in BOOLEAN, log' = Append(log, newline), NEW from \in Nat, NEW to \in Nat
    PROVE  /\ IsLineOfLog(from, to) => IsLineOfLog(from, to)'
           /\ to <= Len(log) /\ from <= to /\ from >= 1 /\ IsLineOfLog(from, to)' => IsLineOfLog(from, to)
BY DEF TypeOK, IsLineOfLog

\* The positions up to the first newline in the buffer, in the log.
LEMMA UpToNewline ==
    ASSUME LogInv, NEW idx \in 1 .. Len(buf), IsFirstNewline(idx)
    PROVE  /\ \A i \in 1 .. idx : buf[i] = offset + i /\ offset + i \in DOMAIN log
           /\ \A i \in 1 .. idx - 1 : ~log[offset + i]
           /\ log[offset + idx]
<1> USE DEF LogInv, TypeOK, BufferBehindOffset
<1>1. \A i \in 1 .. idx : buf[i] = offset + i /\ offset + i \in DOMAIN log
  OBVIOUS
<1>2. \A i \in 1 .. idx - 1 : i \in 1 .. idx
  OBVIOUS
<1> QED BY <1>1, <1>2 DEF IsFirstNewline

\* The first line in the buffer, as it is printed.
LEMMA FirstLine ==
    ASSUME LogInv, NEW idx \in 1 .. Len(buf), IsFirstNewline(idx)
    PROVE  /\ SubSeq(buf, 1, idx) \in Seq(Nat)
           /\ SubSeq(buf, 1, idx) = [i \in 1 .. idx |-> offset + i]
           /\ IsLineOfLog(offset + 1, offset + idx)
<1> USE DEF LogInv, TypeOK, BufferBehindOffset
<1>1. SubSeq(buf, 1, idx) = [i \in 1 .. idx |-> offset + i]
  BY UpToNewline
<1>2. SubSeq(buf, 1, idx) \in Seq(Nat)
  OBVIOUS
<1>3. \A i \in offset + 1 .. offset + idx - 1 : i \in DOMAIN log /\ ~log[i]
  <2> SUFFICES ASSUME NEW i \in offset + 1 .. offset + idx - 1 PROVE i \in DOMAIN log /\ ~log[i]
    OBVIOUS
  <2>1. i - offset \in 1 .. idx - 1 /\ i - offset \in 1 .. idx /\ i = offset + (i - offset)
    OBVIOUS
  <2> QED BY <2>1, UpToNewline
<1>4. offset + idx \in DOMAIN log /\ log[offset + idx]
  BY UpToNewline
<1>5. IsLineOfLog(offset + 1, offset + idx)
  BY <1>3, <1>4 DEF IsLineOfLog, OffsetsAtLines, AtLineStart
<1> QED BY <1>1, <1>2, <1>5

\* There is no other line between the offset and the first newline in the
\* buffer.
LEMMA OnlyLine ==
    ASSUME LogInv, NEW idx \in 1 .. Len(buf), IsFirstNewline(idx),
           NEW from \in Nat, NEW to \in Nat,
           1 <= from, from <= to, offset < to, to <= offset + idx, IsLineOfLog(from, to)
    PROVE  from = offset + 1 /\ to = offset + idx
<1>1. \A i \in 1 .. idx - 1 : offset + i \in DOMAIN log /\ ~log[offset + i]
  <2>1. \A i \in 1 .. idx - 1 : i \in 1 .. idx
    BY DEF LogInv, TypeOK
  <2> QED BY <2>1, UpToNewline
<1> USE DEF LogInv, TypeOK, BufferBehindOffset
<1>2. to = offset + idx
  <2> SUFFICES ASSUME to # offset + idx PROVE FALSE
    OBVIOUS
  <2>1. to - offset \in 1 .. idx - 1 /\ offset + (to - offset) = to
    OBVIOUS
  <2> QED BY <1>1, <2>1 DEF IsLineOfLog
<1>3. from > offset
  BY DEF IsLineOfLog, OffsetsAtLines, AtLineStart
<1>4. from = offset + 1
  <2> SUFFICES ASSUME from # offset + 1 PROVE FALSE
    OBVIOUS
  <2>1. from - 1 - offset \in 1 .. idx - 1 /\ offset + (from - 1 - offset) = from - 1
    BY <1>3
  <2>2. from - 1 \in DOMAIN log /\ ~log[from - 1]
    BY <1>1, <2>1
  <2> QED BY <1>3, <2>2 DEF IsLineOfLog
<1> QED BY <1>2, <1>4

-----------------------------------------------------------------------------
\* Nothing is written, fetched or printed.
LEMMA InitEstablishes == Init => LogInv
<1> SUFFICES ASSUME Init PROVE LogInv
  OBVIOUS
<1> USE DEF Init
<1>1. TypeOK /\ BufferBehindOffset /\ OffsetsAtLines
  <2>1. TypeOK
    BY EmptySeq DEF TypeOK
  <2>2. Len(buf) = 0 /\ Len(log) = 0
    BY EmptySeq
  <2> QED BY <2>1, <2>2 DEF BufferBehindOffset, OffsetsAtLines, AtLineStart
<1>2. PrintedToOffset
  BY MaxLogAssumption DEF PrintedToOffset
<1>3. PrintedLinesWhole
  BY DEF PrintedLinesWhole
<1> QED BY <1>1, <1>2, <1>3 DEF LogInv

\* The job appends to its log: what was read of it stays as it is.
LEMMA JobWritesPreserves ==
    ASSUME LogInv, NEW newline \in BOOLEAN, JobWrites(newline)
    PROVE  LogInv'
<1> USE MaxLogAssumption DEF LogInv, JobWrites
<1>1. TypeOK'
  BY DEF TypeOK
<1>2. BufferBehindOffset'
  BY DEF BufferBehindOffset, TypeOK
<1>3. OffsetsAtLines'
  BY DEF OffsetsAtLines, AtLineStart, TypeOK
<1>4. PrintedToOffset'
  <2> SUFFICES ASSUME NEW from \in 1 .. MaxLog, NEW to \in 1 .. MaxLog,
                      from <= to, to <= offset, IsLineOfLog(from, to)'
               PROVE  [i \in 1 .. to - from + 1 |-> from + i - 1] \in printed
    BY DEF PrintedToOffset
  <2>1. to <= Len(log) /\ from \in Nat /\ to \in Nat /\ 1 <= from
    BY DEF BufferBehindOffset, TypeOK
  <2>2. IsLineOfLog(from, to)
    BY <2>1, LinesStay
  <2> QED BY <2>2 DEF PrintedToOffset
<1>5. PrintedLinesWhole'
  BY LinesStay DEF PrintedLinesWhole, TypeOK
<1> QED BY <1>1, <1>2, <1>3, <1>4, <1>5

\* What is fetched follows the bytes in the buffer.
LEMMA FetchPreserves ==
    ASSUME LogInv, Fetch
    PROVE  LogInv'
<1> DEFINE seen == offset + Len(buf)
           left == Len(log) - seen
           n == IF seen >= Len(log) THEN 0 ELSE IF left < Size THEN left ELSE Size
<1>1. /\ Len(buf) \in Nat /\ Len(log) \in Nat /\ offset \in Nat /\ seen \in Nat
      /\ seen <= Len(log)
  BY DEF LogInv, TypeOK, BufferBehindOffset
<1>2. View(apiOffset) = [i \in 1 .. n |-> seen + i]
  BY DEF View, apiOffset
<1> HIDE DEF seen
<1>3. n \in Nat /\ seen + n <= Len(log)
  BY <1>1, SizeAssumption
<1> HIDE DEF n
<1>4. /\ View(apiOffset) \in Seq(Nat) /\ Len(View(apiOffset)) = n
      /\ \A i \in 1 .. n : View(apiOffset)[i] = seen + i
  BY <1>1, <1>2, <1>3
<1>5. /\ buf' = buf \o View(apiOffset) /\ flushing' = TRUE
      /\ UNCHANGED <<log, offset, saved, starting, printed>>
  BY DEF Fetch
<1>6. TypeOK' /\ BufferBehindOffset'
  <2>1. /\ buf' \in Seq(Nat) /\ Len(buf') = Len(buf) + n
        /\ \A i \in 1 .. Len(buf) + n : buf'[i] = IF i <= Len(buf) THEN buf[i]
                                                  ELSE View(apiOffset)[i - Len(buf)]
    BY <1>4, <1>5, ConcatProperties DEF LogInv, TypeOK
  <2>2. ASSUME NEW i \in 1 .. Len(buf') PROVE buf'[i] = offset + i
    <3>1. CASE i <= Len(buf)
      BY <1>1, <1>3, <2>1, <3>1 DEF LogInv, BufferBehindOffset
    <3>2. CASE i > Len(buf)
      <4>1. i - Len(buf) \in 1 .. n
        BY <1>1, <1>3, <2>1, <3>2
      <4>2. buf'[i] = seen + (i - Len(buf))
        BY <1>1, <1>3, <1>4, <2>1, <3>2, <4>1
      <4> QED BY <1>1, <1>3, <2>1, <4>2 DEF seen
    <3> QED BY <1>1, <1>3, <2>1, <3>1, <3>2
  <2>3. offset + Len(buf') <= Len(log)
    BY <1>1, <1>3, <2>1 DEF seen
  <2> QED BY <1>5, <2>1, <2>2, <2>3 DEF BufferBehindOffset, LogInv, TypeOK
<1>7. OffsetsAtLines' /\ PrintedToOffset' /\ PrintedLinesWhole'
  BY <1>5 DEF LogInv, OffsetsAtLines, AtLineStart, PrintedToOffset, PrintedLinesWhole, IsLineOfLog
<1> QED BY <1>6, <1>7 DEF LogInv

\* The buffer up to its first newline is a line of the log, and the offset moves behind it.
LEMMA PrintLinePreserves ==
    ASSUME LogInv, NEW idx \in 1 .. Len(buf), PrintLine(idx)
    PROVE  LogInv'
<1> DEFINE line == SubSeq(buf, 1, idx)
<1>1. /\ IsFirstNewline(idx) /\ idx \in Nat /\ offset' = offset + idx
      /\ buf' = SubSeq(buf, idx + 1, Len(buf))
      /\ printed' = printed \cup {line}
      /\ UNCHANGED <<log, saved, flushing, starting>>
  BY DEF PrintLine, LogInv, TypeOK
<1>2. /\ line \in Seq(Nat)
      /\ line = [i \in 1 .. idx |-> offset + i]
      /\ IsLineOfLog(offset + 1, offset + idx)
  BY <1>1, FirstLine
<1> USE DEF LogInv
<1>3. /\ buf' \in Seq(Nat) /\ Len(buf') = Len(buf) - idx
      /\ \A i \in 1 .. Len(buf') : buf'[i] = buf[idx + i]
  BY <1>1 DEF TypeOK
<1>4. TypeOK' /\ BufferBehindOffset'
  <2>1. \A i \in 1 .. Len(buf') : idx + i \in 1 .. Len(buf) /\ buf[idx + i] = offset + (idx + i)
    BY <1>1, <1>3 DEF TypeOK, BufferBehindOffset
  <2> HIDE DEF line
  <2>2. TypeOK'
    BY <1>1, <1>2, <1>3 DEF TypeOK
  <2>3. offset' + Len(buf') <= Len(log')
    <3>1. Len(buf) \in Nat /\ Len(log) \in Nat /\ offset \in Nat /\ offset + Len(buf) <= Len(log)
      BY DEF TypeOK, BufferBehindOffset
    <3> HIDE DEF LogInv
    <3>2. idx \in Nat /\ Len(buf') = Len(buf) - idx
      BY <1>1, <1>3
    <3>3. offset' = offset + idx /\ Len(log') = Len(log)
      BY <1>1
    <3>4. offset + idx + (Len(buf) - idx) <= Len(log)
      BY <3>1, <3>2
    <3> QED BY <3>2, <3>3, <3>4
  <2>4. \A i \in 1 .. Len(buf') : buf'[i] = offset' + i
    BY <1>1, <1>3, <2>1 DEF TypeOK
  <2> QED BY <2>2, <2>3, <2>4 DEF BufferBehindOffset
<1>5. OffsetsAtLines'
  BY <1>1, <1>2 DEF OffsetsAtLines, AtLineStart, IsLineOfLog, TypeOK
<1>6. PrintedToOffset'
  <2> SUFFICES ASSUME NEW from \in 1 .. MaxLog, NEW to \in 1 .. MaxLog,
                      from <= to, to <= offset + idx, IsLineOfLog(from, to)
               PROVE  [i \in 1 .. to - from + 1 |-> from + i - 1] \in printed \cup {line}
    BY <1>1 DEF PrintedToOffset, IsLineOfLog
  <2>1. CASE to <= offset
    BY <2>1 DEF PrintedToOffset
  <2>2. CASE offset < to
    <3>1. from = offset + 1 /\ to = offset + idx
      BY <1>1, <2>2, OnlyLine, MaxLogAssumption
    <3>2. [i \in 1 .. to - from + 1 |-> from + i - 1] = line
      BY <1>1, <1>2, <3>1 DEF TypeOK
    <3> QED BY <3>2
  <2>3. to <= offset \/ offset < to
    BY MaxLogAssumption DEF TypeOK
  <2> QED BY <2>1, <2>2, <2>3
<1>7. PrintedLinesWhole'
  <2>1. /\ line # << >>
        /\ IsLineOfLog(line[1], line[Len(line)])
        /\ \A i \in 1 .. Len(line) : line[i] = line[1] + i - 1
    <3>1. Len(line) = idx /\ line[1] = offset + 1 /\ line[idx] = offset + idx
      BY <1>2 DEF TypeOK
    <3>2. \A i \in 1 .. idx : line[i] = offset + i /\ offset + i = offset + 1 + i - 1
      BY <1>2 DEF TypeOK
    <3> HIDE DEF line
    <3>3. line # << >>
      BY <1>1, <1>2, <3>1, EmptySeq
    <3> QED BY <1>2, <3>1, <3>2, <3>3
  <2> QED BY <1>1, <2>1 DEF PrintedLinesWhole, IsLineOfLog
<1> QED BY <1>4, <1>5, <1>6, <1>7

\* The ends of a tick and of Start save the offset, a restart goes back to it.
LEMMA OthersPreserve ==
    ASSUME LogInv, TickEnds \/ StartEnds \/ Restart \/ UNCHANGED vars
    PROVE  LogInv'
<1> USE DEF LogInv, TickEnds, StartEnds, Restart, OffsetToSave, vars
<1>1. TypeOK'
  BY EmptySeq DEF TypeOK
<1>2. BufferBehindOffset'
  BY DEF BufferBehindOffset, OffsetsAtLines, TypeOK
<1>3. OffsetsAtLines'
  BY DEF OffsetsAtLines, AtLineStart, TypeOK
<1>4. PrintedToOffset'
  BY MaxLogAssumption DEF PrintedToOffset, OffsetsAtLines, IsLineOfLog, TypeOK
<1>5. PrintedLinesWhole'
  BY DEF PrintedLinesWhole, IsLineOfLog
<1> QED BY <1>1, <1>2, <1>3, <1>4, <1>5

\* The steps of the job, of the ticks and of the process.
LEMMA NextPreserves == LogInv /\ [Next]_vars => LogInv'
BY JobWritesPreserves, FetchPreserves, PrintLinePreserves, OthersPreserve DEF Next

-----------------------------------------------------------------------------
\* Whatever the sizes of the answers, and wherever the process is restarted,
\* fetchLogStream prints lines of the log as they are, and no line in front of
\* the offset it has saved is missing.
THEOREM LogIsFaithful == Spec => []LogFaithful
<1>1. LogInv => LogFaithful
  BY MaxLogAssumption
     DEF LogInv, LogFaithful, NoLineLost, PrintedToOffset, OffsetsAtLines, TypeOK
<1> QED BY <1>1, InitEstablishes, NextPreserves, PTL DEF Spec

\* A restart repeats no line in front of the offset that was saved.
THEOREM RepeatsOnlyUnsaved == Spec => NoNeedlessRepetition
<1>1. LogInv /\ [Next]_vars =>
        [\A idx \in 1 .. Len(buf) : PrintLine(idx) /\ SubSeq(buf, 1, idx) \in printed
            => saved <= offset]_vars
  BY DEF LogInv, OffsetsAtLines
<1> QED BY <1>1, InitEstablishes, NextPreserves, PTL DEF Spec, NoNeedlessRepetition
=============================================================================
