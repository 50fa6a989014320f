------------------------------- MODULE Logger -------------------------------
(***************************************************************************)
(* xfmt and xlog: a goroutine prints its text with Fprint into a Builder   *)
(* of its own, which goes through a pooled printer, and logs the result    *)
(* with Output, which formats it in the one buffer of the Logger and       *)
(* writes that to a xbufio.Writer under the Logger's mutex.                *)
(***************************************************************************)
EXTENDS Bufio, Text

CONSTANTS Task,     \* the goroutines that log, once each
          Numbers,  \* what each of them logs, a sequence of ints
          Flag,     \* subset of {"date", "time"}
          Now,      \* time.Now() of each task: year, month, day, hour, min, sec
          PP,       \* the printers that sync.Pool may have or make
          MaxBuf    \* free keeps no printer with a buffer larger than this

ASSUME LoggerAssumption ==
  /\ Nil \notin Task \cup PP
  /\ Numbers \in [Task -> Seq(Ints)]
  /\ Now \in [Task -> [year : Nat, month : Nat, day : Nat, hour : Nat, min : Nat, sec : Nat]]

VARIABLES
  tpc,       \* where the task is
  pp,        \* the printer it has
  ppbuf,     \* buf of each printer
  ppFree,    \* the pool of printers
  text,      \* the task's Builder
  mu, lbuf,  \* the Logger: who holds l.mu, l.buf
  log        \* all that the Writer was ever given, Write by Write

printing == <<pp, ppbuf, ppFree, text>>
logging == <<mu, lbuf, log>>

LInit ==
  /\ BInit
  /\ tpc = [t \in Task |-> "start"]
  /\ pp = [t \in Task |-> Nil]
  /\ ppbuf = [c \in PP |-> <<>>] /\ ppFree = {}
  /\ text = [t \in Task |-> <<>>]
  /\ mu = Nil /\ lbuf = <<>> /\ log = <<>>

LGoto(t, to) == tpc' = [tpc EXCEPT ![t] = to]

(***************************************************************************)
(* Fprint.                                                                 *)
(***************************************************************************)
\* What the task prints: its numbers, joined by commas.
Message(t) == Join([k \in DOMAIN Numbers[t] |-> Itoa(Numbers[t][k])], <<Comma>>)

InUse == {pp[t] : t \in Task} \ {Nil}

\* ppFree.Get: a printer out of the pool, or a new one.
newPrinter(t) ==
  /\ tpc[t] = "start" /\ LGoto(t, "print")
  /\ \/ \E c \in ppFree : /\ pp' = [pp EXCEPT ![t] = c]
                          /\ ppFree' = ppFree \ {c}
                          /\ UNCHANGED ppbuf
     \/ \E c \in PP \ (ppFree \cup InUse) :
          /\ pp' = [pp EXCEPT ![t] = c]
          /\ ppbuf' = [ppbuf EXCEPT ![c] = <<>>]
          /\ UNCHANGED ppFree
  /\ UNCHANGED <<text, logging, writer, reader>>

doPrint(t) ==
  /\ tpc[t] = "print" /\ LGoto(t, "builder")
  /\ ppbuf' = [ppbuf EXCEPT ![pp[t]] = @ \o Message(t)]
  /\ UNCHANGED <<pp, ppFree, text, logging, writer, reader>>

BuilderWrite(t) ==
  /\ tpc[t] = "builder" /\ LGoto(t, "free")
  /\ text' = [text EXCEPT ![t] = @ \o ppbuf[pp[t]]]
  /\ UNCHANGED <<pp, ppbuf, ppFree, logging, writer, reader>>

\* sync.Pool may drop what it is given; a printer too large is not given to it.
free(t) ==
  /\ tpc[t] = "free" /\ LGoto(t, "output")
  /\ \/ /\ Len(ppbuf[pp[t]]) <= MaxBuf
        /\ ppbuf' = [ppbuf EXCEPT ![pp[t]] = <<>>]
        /\ ppFree' = ppFree \cup {pp[t]}
     \/ UNCHANGED <<ppbuf, ppFree>>
  /\ pp' = [pp EXCEPT ![t] = Nil]
  /\ UNCHANGED <<text, logging, writer, reader>>

(***************************************************************************)
(* Logger.Output.                                                          *)
(***************************************************************************)
Slash == 47    Colon == 58    Space == 32

formatHeader(now) ==
  (IF "date" \in Flag THEN itoa(now.year, 4) \o <<Slash>> \o itoa(now.month, 2) \o <<Slash>>
                           \o itoa(now.day, 2) \o <<Space>> ELSE <<>>)
  \o (IF "time" \in Flag THEN itoa(now.hour, 2) \o <<Colon>> \o itoa(now.min, 2) \o <<Colon>>
                              \o itoa(now.sec, 2) \o <<Space>> ELSE <<>>)

EndOfLine(s) == IF s = <<>> \/ s[Len(s)] # Newline THEN <<Newline>> ELSE <<>>

\* A bug: Output does not lock the mutex.
MayLock_Always == TRUE
MayLock == mu = Nil

OutputLock(t) ==
  /\ tpc[t] = "output" /\ MayLock /\ LGoto(t, "format")
  /\ mu' = t
  /\ UNCHANGED <<printing, lbuf, log, writer, reader>>

OutputFormat(t) ==
  /\ tpc[t] = "format" /\ LGoto(t, "write")
  /\ lbuf' = formatHeader(Now[t]) \o text[t] \o EndOfLine(text[t])
  /\ UNCHANGED <<printing, mu, log, writer, reader>>

OutputWrite(t) ==
  /\ tpc[t] = "write" /\ LGoto(t, "writing")
  /\ Write(lbuf) /\ log' = log \o lbuf
  /\ UNCHANGED <<printing, mu, lbuf, reader>>

\* Output returns the error of the Writer, whether or not it has taken anything.
OutputReturns(t) ==
  /\ tpc[t] = "writing" /\ LGoto(t, "done")
  /\ WriterReturns /\ mu' = Nil
  /\ UNCHANGED <<printing, lbuf, log, reader>>

LogStep(t) ==
  \/ newPrinter(t) \/ doPrint(t) \/ BuilderWrite(t) \/ free(t)
  \/ OutputLock(t) \/ OutputFormat(t) \/ OutputWrite(t) \/ OutputReturns(t)
=============================================================================
