------------------------------- MODULE Server -------------------------------
(***************************************************************************)
(* xfasthttp/server.go on top of the worker pool: Serve accepts from a     *)
(* listener, counts the connection in s.open and gives it to the pool,     *)
(* whose workers run serveConn.  Serve is the pool's acceptor and          *)
(* serveConn its WorkerFunc, so their steps are woven between the pool's.  *)
(***************************************************************************)
EXTENDS WorkerPool

VARIABLES
  srv, sconn,  \* where Serve is, and the connection it has accepted
  scp,         \* where the serveConn of a worker is
  open,        \* s.open
  concurrency, \* s.concurrency
  net          \* each connection as the network sees it

server == <<srv, sconn, scp, open, concurrency, net>>
svars == <<vars, server>>

SInit ==
  /\ Init
  /\ srv = "start" /\ sconn = Nil
  /\ scp = [ch \in Chan |-> "enter"]
  /\ open = 0 /\ concurrency = 0
  /\ net = [c \in Conn |-> "backlog"]

(***************************************************************************)
(* Server.Serve and acceptConn.                                            *)
(***************************************************************************)
\* A bug: waiting to accept is not counted as an open connection.
WaitingToAccept_None == 0

WaitingToAccept == 1

CountWaiting ==
  /\ srv = "start" /\ srv' = "accept"
  /\ open' = open + WaitingToAccept
  /\ UNCHANGED <<vars, sconn, scp, concurrency, net>>

AcceptConn(c) ==
  /\ srv = "accept" /\ net[c] = "backlog"
  /\ net' = [net EXCEPT ![c] = "open"]
  /\ srv' = "count" /\ sconn' = c
  /\ UNCHANGED <<vars, scp, open, concurrency>>

\* A listener that returns neither a connection nor an error: acceptConn panics.
AcceptNil ==
  /\ srv = "accept"
  /\ srv' = "panic" /\ sconn' = Nil
  /\ UNCHANGED <<vars, scp, open, concurrency, net>>

CountAndServe ==
  /\ srv = "count" /\ srv' = "serve"
  /\ open' = open + 1
  /\ Serve(sconn)
  /\ UNCHANGED <<sconn, scp, concurrency, net>>

ServeReturns ==
  /\ srv = "serve" /\ apc = "idle"
  /\ IF outcome[sconn] = "refused"
       THEN srv' = "refused" /\ sconn' = sconn
       ELSE srv' = "accept" /\ sconn' = Nil
  /\ UNCHANGED <<vars, scp, open, concurrency, net>>

Uncount ==
  /\ srv = "refused" /\ srv' = "close"
  /\ open' = open - 1
  /\ UNCHANGED <<vars, sconn, scp, concurrency, net>>

CloseRefused ==
  /\ srv = "close" /\ srv' = "panic"
  /\ net' = [net EXCEPT ![sconn] = "closed"]
  /\ UNCHANGED <<vars, sconn, scp, open, concurrency>>

\* acceptConn makes io.EOF of any error; Serve then stops the pool.
AcceptFails ==
  /\ srv = "accept" /\ srv' = "stop"
  /\ StopClose
  /\ UNCHANGED <<sconn, scp, open, concurrency, net>>

\* The deferred decrement runs when Serve panics and when it returns.
Leave ==
  /\ \/ srv = "panic" /\ srv' = "panicked"
     \/ srv = "stop" /\ apc = "stopped" /\ srv' = "returned"
  /\ open' = open - WaitingToAccept
  /\ UNCHANGED <<vars, sconn, scp, concurrency, net>>

(***************************************************************************)
(* serveConn and its deferred serveConnCleanup.                            *)
(***************************************************************************)
EnterServeConn(ch) ==
  /\ wpc[ch] = "serving" /\ scp[ch] = "enter"
  /\ concurrency' = concurrency + 1
  /\ scp' = [scp EXCEPT ![ch] = "reply"]
  /\ UNCHANGED <<vars, srv, sconn, open, net>>

ReplyAndClose(ch) ==
  /\ scp[ch] = "reply"
  /\ net' = [net EXCEPT ![wconn[ch]] = "closed"]
  /\ scp' = [scp EXCEPT ![ch] = "open"]
  /\ UNCHANGED <<vars, srv, sconn, open, concurrency>>

CleanupOpen(ch) ==
  /\ scp[ch] = "open"
  /\ open' = open - 1
  /\ scp' = [scp EXCEPT ![ch] = "concurrency"]
  /\ UNCHANGED <<vars, srv, sconn, concurrency, net>>

\* A bug: serveConn returns without being counted out.
OneLess_Forgotten(n) == n

OneLess(n) == n - 1

CleanupConcurrency(ch) ==
  /\ scp[ch] = "concurrency"
  /\ concurrency' = OneLess(concurrency)
  /\ scp' = [scp EXCEPT ![ch] = "enter"]
  /\ WorkerFuncReturns(ch)
  /\ UNCHANGED <<srv, sconn, open, net>>

-----------------------------------------------------------------------------
ServeLoop == CountWaiting \/ CountAndServe \/ ServeReturns \/ Uncount
             \/ CloseRefused \/ Leave
ServeConn(ch) == EnterServeConn(ch) \/ ReplyAndClose(ch) \/ CleanupOpen(ch)
                 \/ CleanupConcurrency(ch)
PoolStep(A) == A /\ UNCHANGED server

SNext == \/ ServeLoop
         \/ \E c \in Conn : AcceptConn(c)
         \/ AcceptNil \/ AcceptFails
         \/ PoolStep(Acceptor)
         \/ \E ch \in Chan : ServeConn(ch) \/ PoolStep(WorkerLoop(ch))
         \/ PoolStep(Cleaner)
         \/ PoolStep(Tick)

SSpec == SInit /\ [][SNext]_svars

\* Every goroutine that can run does; no connection needs to arrive.
SFairness == /\ WF_svars(ServeLoop \/ PoolStep(Acceptor))
             /\ WF_svars(PoolStep(Cleaner))
             /\ \A ch \in Chan : WF_svars(ServeConn(ch) \/ PoolStep(WorkerLoop(ch)))

SFairSpec == SSpec /\ SFairness

-----------------------------------------------------------------------------
(***************************************************************************)
(* Properties.                                                             *)
(***************************************************************************)
\* The counters and the positions of the server's goroutines keep to their
\* values: open counts each connection once, concurrency each worker once.
ServerTypeOK ==
  /\ srv \in {"start", "accept", "count", "serve", "refused", "close", "panic",
              "panicked", "stop", "returned"}
  /\ sconn \in Conn \cup {Nil}
  /\ scp \in [Chan -> {"enter", "reply", "open", "concurrency"}]
  /\ open \in Nat /\ concurrency \in 0 .. Max
  /\ net \in [Conn -> {"backlog", "open", "closed"}]

\* Only Serve is ever inside the pool's acceptor, with the connection it accepted;
\* it stops at the first connection that is refused, and panics for nothing else but a
\* listener that returns nil.
ServeInTurn ==
  /\ apc \in {"getCh", "spawn", "send"} => srv = "serve" /\ aconn = sconn
  /\ srv \in {"count", "serve", "refused", "close"} => sconn \in Conn
  /\ srv \in {"refused", "close", "panic", "panicked"} =>
       sconn = Nil \/ outcome[sconn] = "refused"
  /\ \A c \in Conn : outcome[c] = "refused" =>
       c = sconn /\ srv \in {"serve", "refused", "close", "panic", "panicked"}

\* A serveConn runs in a worker that serves, and counts its connection out only
\* when it has closed it (server.go:394), although the comment at workerpool.go:17-18
\* asks WorkerFunc to leave the connection unclosed.
ServeConnInTurn == \A ch \in Chan :
  /\ scp[ch] # "enter" => wpc[ch] = "serving"
  /\ scp[ch] \in {"open", "concurrency"} => net[wconn[ch]] = "closed"

\* s.open counts the wait for a connection and every connection from the moment
\* Serve gives it to the pool until its serveConn, or Serve, counts it out.
Counted == {c \in Conn :
  \/ /\ outcome[c] = "offered"
     /\ \A ch \in Chan : ~(wpc[ch] = "serving" /\ wconn[ch] = c /\ scp[ch] = "concurrency")
  \/ outcome[c] = "refused" /\ srv \in {"serve", "refused"}}

OpenCounts ==
  open = Cardinality(Counted) + (IF srv \in {"start", "panicked", "returned"} THEN 0 ELSE 1)

\* A connection that is open is counted, but for the one that Serve is about to
\* count, or has counted out and is about to close.
OpenInTurn == \A c \in Conn :
  net[c] = "open" => c \in Counted \/ (c = sconn /\ srv \in {"count", "close"})

\* The comment at server.go:351-354: whoever reads s.open, at any moment, never
\* reads less than the number of connections accepted and not yet closed.
OpenCovers == open >= Cardinality({c \in Conn : net[c] = "open"})

\* s.concurrency counts the serveConns that have entered and not yet left, one to
\* a worker: it never exceeds the number of workers, so neither does it exceed
\* MaxWorkersCount, although it is counted outside the pool's lock.
ConcurrencyCounts == concurrency = Cardinality({ch \in Chan : scp[ch] # "enter"})
ConcurrencyWithinWorkers == concurrency <= workersCount

\* The pool's bookkeeping and both counters of the server, between any two updates.
ServerInv ==
  /\ PoolInv /\ ServerTypeOK
  /\ ServeInTurn /\ ServeConnInTurn
  /\ OpenCounts /\ OpenInTurn /\ OpenCovers
  /\ ConcurrencyCounts /\ ConcurrencyWithinWorkers

\* Every connection that was given to the pool has been served or refused: none
\* stays in the channel of a worker that left, or of a pool that was stopped.
AllAnswered == \A c \in Conn : outcome[c] # "offered"

\* After Stop every worker leaves, the busy ones included, and so does the cleaner.
PoolDrained == stopCh => apc = "stopped" /\ workersCount = 0 /\ cpc = "done"

\* Serve waits for a connection or has ended, and no connection is open or left in
\* the counters.
CountersDrained ==
  /\ srv \in {"accept", "returned", "panicked"}
  /\ open = (IF srv = "accept" THEN 1 ELSE 0) /\ concurrency = 0
  /\ \A c \in Conn : net[c] # "open"

\* When no more connections come, the server comes to rest, and has then done all
\* it has to: each of the above.
ComesToRest == <>[](AllAnswered /\ PoolDrained /\ CountersDrained)
=============================================================================
