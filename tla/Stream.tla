------------------------------- MODULE Stream -------------------------------
(***************************************************************************)
(* A program made of xfmt, xlog, xbufio, xsync.Cond, xstrings and          *)
(* xstrconv: tasks print and log numbers to a xbufio.Writer, which writes  *)
(* to a pipe; when all have logged, the owner flushes the Writer and       *)
(* closes the pipe; a receiver reads it through a xbufio.Reader.  The      *)
(* pipe is a client of xsync.Cond that waits as cond.go:29-38 says.        *)
(***************************************************************************)
EXTENDS Logger, Cond, SequencesExt

CONSTANTS EOF,
          Broken,  \* an error of the pipe
          Faults   \* subset of {"broken", "short"}: what the pipe may do wrong

ASSUME StreamAssumption == Cardinality({Nil, ErrShortWrite, EOF, Broken}) = 4

VARIABLES
  sent, pos, closed,  \* the pipe: all it was given, how far it is read, whether it is closed
  pipepc, answer,     \* whether its Write has still to notify, and what it will return
  opc                 \* where the owner is

pipe == <<sent, pos, closed>>
svars == <<writer, reader, tpc, printing, logging, pipe, pipepc, answer, opc, condition>>

StreamInit ==
  /\ LInit /\ CondInit
  /\ sent = <<>> /\ pos = 0 /\ closed = FALSE
  /\ pipepc = "idle" /\ answer = [n |-> 0, err |-> Nil]
  /\ opc = "logging"

(***************************************************************************)
(* The pipe.                                                               *)
(***************************************************************************)
\* A short write without an error breaks the contract of io.Writer; Flush
\* expects it all the same (bufio_writer.go:79-81).  Of the counts of a partial
\* answer, here and in PipeRead, those next to none and to all are enough.
Answers(len) ==
  {[n |-> len, err |-> Nil]}
  \cup {[n |-> n, err |-> Broken] : n \in IF "broken" \in Faults THEN {0, 1, len - 1, len} ELSE {}}
  \cup {[n |-> n, err |-> Nil] : n \in IF "short" \in Faults THEN {1, len - 1} \ {0, len} ELSE {}}

PipeWrite ==
  /\ CallsWrite /\ pipepc = "idle" /\ L = NoOne
  /\ \E a \in Answers(Len(Outgoing)) :
       /\ answer' = a
       /\ sent' = sent \o First(Outgoing, a.n)
  /\ pipepc' = "notify"
  /\ UNCHANGED <<writer, reader, tpc, printing, logging, pos, closed, opc, condition>>

PipeNotify ==
  /\ pipepc = "notify" /\ pipepc' = "idle"
  /\ StreamWrote(answer.n, answer.err)
  /\ answer' = [n |-> 0, err |-> Nil]
  /\ Broadcast
  /\ UNCHANGED <<reader, tpc, printing, logging, pipe, opc, L, cwpc>>

InPipe == Len(sent) - pos

\* The pipe's Read has the lock for the first time, or again after its Wait.
PipeLocked == CallsRead /\ cwpc["receiver"] = "idle" /\ L \in {NoOne, "receiver"}

PipeWait ==
  /\ PipeLocked /\ InPipe = 0 /\ ~closed
  /\ L' = "receiver" /\ CondWait("receiver")
  /\ UNCHANGED <<writer, reader, tpc, printing, logging, pipe, pipepc, answer, opc>>

PipeRead ==
  /\ PipeLocked /\ InPipe > 0
  /\ \E n \in {1, Least(Room, InPipe)} :
       /\ pos' = pos + n
       /\ \/ StreamRead(SubSeq(sent, pos + 1, pos + n), Nil)
          \/ closed /\ n = InPipe /\ StreamRead(SubSeq(sent, pos + 1, pos + n), EOF)
  /\ L' = NoOne
  /\ UNCHANGED <<writer, tpc, printing, logging, sent, closed, pipepc, answer, opc, ticket, cwpc>>

PipeEOF ==
  /\ PipeLocked /\ InPipe = 0 /\ closed
  /\ StreamRead(<<>>, EOF) /\ L' = NoOne
  /\ UNCHANGED <<writer, tpc, printing, logging, pipe, pipepc, answer, opc, ticket, cwpc>>

(***************************************************************************)
(* The owner, the tasks, the receiver.                                     *)
(***************************************************************************)
OwnerFlush ==
  /\ opc = "logging" /\ opc' = "flush" /\ \A t \in Task : tpc[t] = "done"
  /\ Flush
  /\ UNCHANGED <<reader, tpc, printing, logging, pipe, pipepc, answer, condition>>

OwnerFlushed ==
  /\ opc = "flush" /\ opc' = "close"
  /\ WriterReturns
  /\ UNCHANGED <<reader, tpc, printing, logging, pipe, pipepc, answer, condition>>

OwnerClose ==
  /\ opc = "close" /\ opc' = "notify" /\ L = NoOne
  /\ closed' = TRUE
  /\ UNCHANGED <<writer, reader, tpc, printing, logging, sent, pos, pipepc, answer, condition>>

OwnerNotify ==
  /\ opc = "notify" /\ opc' = "end"
  /\ Broadcast
  /\ UNCHANGED <<writer, reader, tpc, printing, logging, pipe, pipepc, answer, L, cwpc>>

Owner == OwnerFlush \/ OwnerFlushed \/ OwnerClose \/ OwnerNotify

TaskStep(t) == LogStep(t) /\ UNCHANGED <<pipe, pipepc, answer, opc, condition>>

Buffering == WriterCode /\ UNCHANGED <<reader, tpc, printing, logging, pipe, pipepc, answer, opc, condition>>

\* The receiver reads until Read returns an error.
Receive(A) ==
  /\ gerr = Nil /\ A
  /\ UNCHANGED <<writer, tpc, printing, logging, pipe, pipepc, answer, opc, condition>>

ReceiverStep ==
  \/ \E k \in ReadSizes : Receive(Read(k))
  \/ PipeWait \/ PipeRead \/ PipeEOF
  \/ WaitStep("receiver")
     /\ UNCHANGED <<writer, reader, tpc, printing, logging, pipe, pipepc, answer, opc>>

StreamNext ==
  \/ \E t \in Task : TaskStep(t)
  \/ Buffering \/ PipeWrite \/ PipeNotify
  \/ ReceiverStep \/ Receive(ReadZero)
  \/ Owner

StreamSpec == StreamInit /\ [][StreamNext]_svars

\* Every goroutine that can take a step does.
FairSpec ==
  /\ StreamSpec
  /\ \A t \in Task : WF_svars(TaskStep(t))
  /\ WF_svars(Buffering \/ PipeWrite \/ PipeNotify)
  /\ WF_svars(ReceiverStep) /\ WF_svars(Owner)

-----------------------------------------------------------------------------
(***************************************************************************)
(* Properties.                                                             *)
(***************************************************************************)
\* Positions, buffers and errors keep to their values: no buffer overflows.
StreamTypeOK ==
  /\ Len(wbuf) <= WSize /\ Len(rbuf) <= RSize
  /\ werr \in {Nil, ErrShortWrite, Broken} /\ rerr \in {Nil, EOF} /\ gerr \in {Nil, EOF}
  /\ wpc \in {"idle", "loop", "direct", "flush", "flushOnly", "done"}
  /\ rpc \in {"idle", "direct", "fill"}
  /\ pos \in 0 .. Len(sent) /\ L \in {NoOne, "receiver"}
  /\ mu \in Task \cup {Nil} /\ ppFree \subseteq PP \ InUse

\* The Writer keeps the order of the bytes it accepts and neither loses nor
\* repeats one, whatever part of its buffer the stream takes: what the stream
\* has, then what the Writer still has, is what it was given; once it has failed,
\* a beginning of that.
WriterRight ==
  LET unsent == Skip(wbuf \o wp, answer.n) IN
  IF werr = Nil THEN sent \o unsent = log
  ELSE IsPrefix(sent \o wbuf, log)

\* The Reader returns the bytes of the stream in their order, those it has read
\* ahead included, and EOF only after the last of them.
ReaderRight ==
  /\ got \o rbuf = First(sent, pos)
  /\ rerr = EOF => closed /\ pos = Len(sent)
  /\ gerr = EOF => closed /\ got = sent

StreamInv == StreamTypeOK /\ WriterRight /\ ReaderRight

\* The parts of s that end with the byte b, without it.
Pieces(s, b) ==
  LET cuts == <<0>> \o SetToSortSeq({i \in DOMAIN s : s[i] = b}, <) IN
  [k \in 1 .. Len(cuts) - 1 |-> SubSeq(s, cuts[k] + 1, cuts[k + 1] - 1)]

HeaderLen == (IF "date" \in Flag THEN 11 ELSE 0) + (IF "time" \in Flag THEN 9 ELSE 0)

\* The numbers in a line, as Atoi reads them.
Parsed(line) ==
  LET fields == Pieces(Append(Skip(line, HeaderLen), Comma), Comma) IN
  [k \in DOMAIN fields |-> Atoi(fields[k])]

\* What arrives is lines, each of them the numbers of one task and all of them,
\* and no task's numbers arrive twice: neither the Logger's buffer nor a printer
\* is ever shared, and the conversions of xstrconv are inverse to each other.
LinesWhole ==
  LET lines == Pieces(got, Newline) IN
  \E task \in [DOMAIN lines -> Task] :
    \A k \in DOMAIN lines :
      /\ Parsed(lines[k]) = [i \in DOMAIN Numbers[task[k]] |-> [n |-> Numbers[task[k]][i], err |-> "nil"]]
      /\ \A j \in DOMAIN lines : j # k => task[j] # task[k]

\* The line that a task logs.
Line(t) == formatHeader(Now[t]) \o Message(t) \o EndOfLine(Message(t))

\* The Writer is given the lines one by one, each whole and by the task whose it
\* is: no other task's bytes, nor what a printer held before, are in the printer,
\* the Builder or the Logger's buffer that it passes through.
WritesWholeLine(t) == tpc[t] = "write" /\ tpc'[t] = "writing" /\ log' = log \o Line(t)

LinesGoWhole == [][log' # log => \E t \in Task : WritesWholeLine(t)]_svars

\* The comment at bufio_writer.go:6-7: once a write has failed, the Writer accepts
\* nothing more, passes nothing on, and keeps its error.
ErrorsStick == [][werr # Nil => werr' = werr /\ wbuf' = wbuf /\ sent' = sent]_svars

\* The receiver sees the end of the stream, and by then, if the Writer has not
\* failed, everything that was logged: no Wait misses its Broadcast, and nothing
\* stays behind in a buffer.
AllDelivered == <>(gerr = EOF /\ opc = "end" /\ (werr = Nil => got = log))
=============================================================================
