------------------------------- MODULE Bufio --------------------------------
(***************************************************************************)
(* xbufio: a Writer and a Reader, each with a buffer in front of a stream  *)
(* that is not part of it.  A step is what they do between two calls of    *)
(* that stream.  While wpc or rpc says that the stream is being called,    *)
(* `Outgoing' is what it is asked to take and `Room' how much it may give; *)
(* its answer is the argument of WroteDirect, Flushed, ReadDirect, Filled. *)
(***************************************************************************)
EXTENDS Integers, Sequences

CONSTANTS WSize,  \* len(b.buf) of the Writer
          RSize,  \* len(b.buf) of the Reader
          Nil,   \* nil, the error that is none
          ErrShortWrite,
          ReadSizes  \* the len(p) that Read is called with

ASSUME BufioAssumption ==
  /\ WSize \in Nat \ {0} /\ RSize \in Nat \ {0}
  /\ Nil # ErrShortWrite /\ ReadSizes \subseteq Nat

VARIABLES
  wbuf, werr,    \* buf[0:n] and err of the Writer
  wpc, wp, wnn,  \* where its operation is; what is left of p; nn
  rbuf, rerr,    \* buf[r:w] and err of the Reader
  rpc, rk,       \* where its operation is; len(p)
  got, gerr      \* all that Read has returned: the bytes, the last error

writer == <<wbuf, werr, wpc, wp, wnn>>
reader == <<rbuf, rerr, rpc, rk, got, gerr>>

BInit ==
  /\ wbuf = <<>> /\ werr = Nil /\ wpc = "idle" /\ wp = <<>> /\ wnn = 0
  /\ rbuf = <<>> /\ rerr = Nil /\ rpc = "idle" /\ rk = 0
  /\ got = <<>> /\ gerr = Nil

Least(m, n) == IF m < n THEN m ELSE n
First(s, n) == SubSeq(s, 1, n)
Skip(s, n) == SubSeq(s, n + 1, Len(s))

(***************************************************************************)
(* Writer.                                                                 *)
(***************************************************************************)
Available == WSize - Len(wbuf)

Write(p) ==
  /\ wpc = "idle" /\ wpc' = "loop"
  /\ wp' = p /\ wnn' = 0
  /\ UNCHANGED <<wbuf, werr>>

Looping == wpc = "loop" /\ Len(wp) > Available /\ werr = Nil

\* Large write, empty buffer: p goes to the stream itself.
WriteLarge ==
  /\ Looping /\ wbuf = <<>>
  /\ wpc' = "direct"
  /\ UNCHANGED <<wbuf, werr, wp, wnn>>

WroteDirect(n, err) ==
  /\ wpc = "direct" /\ wpc' = "loop"
  /\ wp' = Skip(wp, n) /\ wnn' = wnn + n
  /\ werr' = err /\ UNCHANGED wbuf

\* Fill the buffer up, then Flush it.
WriteFill ==
  /\ Looping /\ wbuf # <<>>
  /\ wbuf' = wbuf \o First(wp, Available)
  /\ wp' = Skip(wp, Available) /\ wnn' = wnn + Available
  /\ wpc' = "flush" /\ UNCHANGED werr

\* A bug: what the stream has taken stays in the buffer after an error.
Unsent_All(n) == wbuf
\* What is left in the buffer when the stream has taken n of its bytes.
Unsent(n) == Skip(wbuf, n)

\* The answer to Flush's write, within Write or by itself.
Flushed(n, err) ==
  LET e == IF n < Len(wbuf) /\ err = Nil THEN ErrShortWrite ELSE err IN
  /\ wpc \in {"flush", "flushOnly"}
  /\ wpc' = IF wpc = "flush" THEN "loop" ELSE "done"
  /\ wbuf' = IF e = Nil THEN <<>> ELSE Unsent(n)
  /\ werr' = e
  /\ UNCHANGED <<wp, wnn>>

\* A bug: Write takes what fits although an earlier write has failed.
Accepts_Always == TRUE
Accepts == werr = Nil

\* The end of Write: the error, or what is left of p goes to the buffer.
WriteEnd ==
  /\ wpc = "loop" /\ ~Looping
  /\ IF Accepts THEN wbuf' = wbuf \o wp /\ wnn' = wnn + Len(wp) /\ wp' = <<>>
                ELSE UNCHANGED <<wbuf, wnn, wp>>
  /\ wpc' = "done" /\ UNCHANGED werr

Flush ==
  /\ wpc = "idle"
  /\ wpc' = IF werr # Nil \/ wbuf = <<>> THEN "done" ELSE "flushOnly"
  /\ wp' = <<>> /\ wnn' = 0
  /\ UNCHANGED <<wbuf, werr>>

\* The caller has the results, wnn and werr.
WriterReturns ==
  /\ wpc = "done" /\ wpc' = "idle"
  /\ UNCHANGED <<wbuf, werr, wp, wnn>>

WriterCode == WriteLarge \/ WriteFill \/ WriteEnd

Outgoing == IF wpc = "direct" THEN wp ELSE wbuf
CallsWrite == wpc \in {"direct", "flush", "flushOnly"}
StreamWrote(n, err) == WroteDirect(n, err) \/ Flushed(n, err)

(***************************************************************************)
(* Reader.                                                                 *)
(***************************************************************************)
Returns(data, err) == got' = got \o data /\ gerr' = err /\ rpc' = "idle"

ReadZero ==
  /\ rpc = "idle" /\ 0 \in ReadSizes
  /\ Returns(<<>>, IF rbuf # <<>> THEN Nil ELSE rerr)
  /\ rerr' = IF rbuf # <<>> THEN rerr ELSE Nil
  /\ UNCHANGED <<rbuf, rk>>

ReadErr ==
  /\ rpc = "idle" /\ rbuf = <<>> /\ rerr # Nil
  /\ Returns(<<>>, rerr) /\ rerr' = Nil
  /\ UNCHANGED <<rbuf, rk>>

ReadBuffered(k) ==
  /\ rpc = "idle" /\ rbuf # <<>>
  /\ LET n == Least(k, Len(rbuf)) IN Returns(First(rbuf, n), Nil) /\ rbuf' = Skip(rbuf, n)
  /\ UNCHANGED <<rerr, rk>>

\* The buffer is empty: the stream is asked once, for p itself if p is large.
ReadMore(k) ==
  /\ rpc = "idle" /\ rbuf = <<>> /\ rerr = Nil
  /\ rpc' = IF k >= RSize THEN "direct" ELSE "fill"
  /\ rk' = k
  /\ UNCHANGED <<rbuf, rerr, got, gerr>>

\* n, b.err = b.rd.Read(p) and readErr: data and error are returned together.
ReadDirect(data, err) ==
  /\ rpc = "direct"
  /\ Returns(data, err)
  /\ UNCHANGED <<rbuf, rerr, rk>>

\* An error that comes with data has to wait until the data has been read.
Filled(data, err) ==
  /\ rpc = "fill"
  /\ IF data = <<>> THEN Returns(<<>>, err) /\ UNCHANGED <<rbuf, rerr>>
     ELSE /\ Returns(First(data, Least(rk, Len(data))), Nil)
          /\ rbuf' = Skip(data, Least(rk, Len(data)))
          /\ rerr' = err
  /\ UNCHANGED rk

Read(k) == k > 0 /\ (ReadErr \/ ReadBuffered(k) \/ ReadMore(k))

Room == IF rpc = "direct" THEN rk ELSE RSize
CallsRead == rpc \in {"direct", "fill"}
StreamRead(data, err) == ReadDirect(data, err) \/ Filled(data, err)
=============================================================================
