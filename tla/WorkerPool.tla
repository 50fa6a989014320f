----------------------------- MODULE WorkerPool -----------------------------
(***************************************************************************)
(* xfasthttp/workerpool.go: a pool of worker goroutines fed by one         *)
(* acceptor.  Each worker owns a channel; idle workers wait in the LIFO    *)
(* `ready'; a cleaner retires the ones idle for too long; Stop sends nil   *)
(* to the idle ones and the busy ones notice mustStop.                     *)
(*                                                                         *)
(* An action is what a goroutine does between two points where another one *)
(* can interfere: a section under wp.lock, a channel operation, a write    *)
(* outside the lock.  Every section is one step except Stop's, which sends *)
(* on channels while it holds the lock.                                    *)
(***************************************************************************)
EXTENDS Integers, Sequences, FiniteSets

CONSTANTS Conn,     \* connections handed to Serve, each at most once
          Chan,     \* the workerChans of workerChanPool, free or in use
          Nil,      \* the nil connection that tells a worker to stop
          Max,      \* MaxWorkersCount
          Procs,    \* the values GOMAXPROCS may have when the program starts
          MaxIdle,  \* MaxIdleWorkerDuration
          MaxTime   \* bound: the clock stops here

ASSUME WorkerPoolAssumption ==
  /\ Nil \notin Conn \cup Chan
  /\ Max \in Nat \ {0} /\ Procs \subseteq Nat \ {0}
  /\ MaxIdle \in Nat \ {0} /\ MaxTime \in Nat

VARIABLES
  ready,         \* wp.ready
  workersCount,  \* wp.workersCount
  mustStop,      \* wp.mustStop
  stopCh,        \* TRUE once wp.stopCh is closed
  workerChanCap, \* the capacity of every channel
  buf,           \* the connections buffered in a channel
  wpc, wconn,    \* where the worker of a channel is, and its connection
  lastUse,       \* lastUseTime
  now,           \* the clock
  apc, ach, aconn,     \* the acceptor, in Serve or in Stop
  cpc, crit, scratch,  \* the cleaner, its criticalTime and its scratch
  outcome        \* what became of a connection, as its owner sees it

pool == <<ready, workersCount, mustStop>>
workers == <<wpc, wconn, lastUse>>
acceptor == <<apc, ach, aconn>>
cleaner == <<cpc, crit, scratch>>
vars == <<pool, stopCh, workerChanCap, buf, workers, now, acceptor, cleaner, outcome>>

Init ==
  /\ ready = <<>> /\ workersCount = 0 /\ mustStop = FALSE /\ stopCh = FALSE
  /\ workerChanCap \in {IF n = 1 THEN 0 ELSE 1 : n \in Procs}
  /\ buf = [ch \in Chan |-> <<>>]
  /\ wpc = [ch \in Chan |-> "none"]
  /\ wconn = [ch \in Chan |-> Nil]
  /\ lastUse = [ch \in Chan |-> 0]
  /\ now = 0
  /\ apc = "idle" /\ ach = Nil /\ aconn = Nil
  /\ cpc = "start" /\ crit = 0 /\ scratch = <<>>
  /\ outcome = [c \in Conn |-> "new"]

\* Stop holds wp.lock while it sends; no other section lasts longer than a step.
LockFree == apc # "stopSend"

(***************************************************************************)
(* Channels.                                                               *)
(***************************************************************************)
Deliver(ch, x) ==
  /\ wpc[ch] = "recv"
  /\ wpc' = [wpc EXCEPT ![ch] = IF x = Nil THEN "exit" ELSE "serving"]
  /\ wconn' = [wconn EXCEPT ![ch] = x]

\* ch.ch <- x: an unbuffered channel hands over, a buffered one needs room.
SendTo(ch, x) ==
  \/ workerChanCap = 0 /\ Deliver(ch, x) /\ UNCHANGED <<buf, lastUse>>
  \/ /\ Len(buf[ch]) < workerChanCap
     /\ buf' = [buf EXCEPT ![ch] = Append(@, x)]
     /\ UNCHANGED workers

(***************************************************************************)
(* The acceptor: Serve and Stop.                                           *)
(***************************************************************************)
Serve(c) ==
  /\ apc = "idle" /\ outcome[c] = "new"
  /\ apc' = "getCh" /\ aconn' = c
  /\ outcome' = [outcome EXCEPT ![c] = "offered"]
  /\ UNCHANGED <<pool, stopCh, buf, workers, now, ach, cleaner, workerChanCap>>

\* A bug: Serve's results swapped.
Answer_Swapped(ok) == IF ok THEN "refused" ELSE "offered"

\* What Serve reports to the owner of the connection: it has a worker, or none.
Answer(ok) == IF ok THEN "offered" ELSE "refused"

\* The most recently released worker gets the next connection.
TakeReady ==
  /\ apc = "getCh" /\ ready # <<>>
  /\ ach' = ready[Len(ready)]
  /\ ready' = SubSeq(ready, 1, Len(ready) - 1)
  /\ apc' = "send"
  /\ UNCHANGED <<workersCount, mustStop, stopCh, buf, workers, now, aconn, cleaner,
                 outcome, workerChanCap>>

\* A bug: one worker too many.
MayCreate_OffByOne == workersCount <= Max
MayCreate == workersCount < Max

CreateWorker ==
  /\ apc = "getCh" /\ ready = <<>> /\ MayCreate
  /\ workersCount' = workersCount + 1
  /\ apc' = "spawn"
  /\ UNCHANGED <<ready, mustStop, stopCh, buf, workers, now, ach, aconn, cleaner,
                 outcome, workerChanCap>>

Refuse ==
  /\ apc = "getCh" /\ ready = <<>> /\ ~MayCreate
  /\ apc' = "idle" /\ aconn' = Nil
  /\ outcome' = [outcome EXCEPT ![aconn] = Answer(FALSE)]
  /\ UNCHANGED <<pool, stopCh, buf, workers, now, ach, cleaner, workerChanCap>>

\* workerChanPool.Get returns a workerChan put back by a worker, or a new one.
Spawn ==
  /\ apc = "spawn"
  /\ \E ch \in Chan :
       /\ wpc[ch] = "none"
       /\ wpc' = [wpc EXCEPT ![ch] = "recv"]
       /\ ach' = ch
  /\ apc' = "send"
  /\ UNCHANGED <<pool, stopCh, buf, wconn, lastUse, now, aconn, cleaner, outcome,
                 workerChanCap>>

Send ==
  /\ apc = "send"
  /\ SendTo(ach, aconn)
  /\ apc' = "idle" /\ ach' = Nil /\ aconn' = Nil
  /\ outcome' = [outcome EXCEPT ![aconn] = Answer(TRUE)]
  /\ UNCHANGED <<pool, stopCh, now, cleaner, workerChanCap>>

StopClose ==
  /\ apc = "idle"
  /\ stopCh' = TRUE /\ apc' = "stopLock"
  /\ UNCHANGED <<pool, buf, workers, now, ach, aconn, cleaner, outcome, workerChanCap>>

StopLock ==
  /\ apc = "stopLock" /\ apc' = "stopSend"
  /\ UNCHANGED <<pool, stopCh, buf, workers, now, ach, aconn, cleaner, outcome, workerChanCap>>

\* Nobody looks at ready before Stop unlocks: it may shrink one by one.
StopSend ==
  /\ apc = "stopSend" /\ ready # <<>>
  /\ SendTo(Head(ready), Nil)
  /\ ready' = Tail(ready)
  /\ UNCHANGED <<workersCount, mustStop, stopCh, now, acceptor, cleaner, outcome,
                 workerChanCap>>

StopUnlock ==
  /\ apc = "stopSend" /\ ready = <<>>
  /\ mustStop' = TRUE /\ apc' = "stopped"
  /\ UNCHANGED <<ready, workersCount, stopCh, buf, workers, now, ach, aconn,
                 cleaner, outcome, workerChanCap>>

(***************************************************************************)
(* A worker: workerFunc, release and the goroutine of getCh.               *)
(***************************************************************************)
Receive(ch) ==
  /\ buf[ch] # <<>>
  /\ Deliver(ch, Head(buf[ch]))
  /\ buf' = [buf EXCEPT ![ch] = Tail(@)]
  /\ UNCHANGED <<pool, stopCh, lastUse, now, acceptor, cleaner, outcome, workerChanCap>>

WorkerFuncReturns(ch) ==
  /\ wpc[ch] = "serving"
  /\ wpc' = [wpc EXCEPT ![ch] = "served"]
  /\ wconn' = [wconn EXCEPT ![ch] = Nil]
  /\ outcome' = [outcome EXCEPT ![wconn[ch]] = "served"]
  /\ UNCHANGED <<pool, stopCh, buf, lastUse, now, acceptor, cleaner, workerChanCap>>

\* release reads the clock before it asks for the lock.
Stamp(ch) ==
  /\ wpc[ch] = "served"
  /\ lastUse' = [lastUse EXCEPT ![ch] = now]
  /\ wpc' = [wpc EXCEPT ![ch] = "release"]
  /\ UNCHANGED <<pool, stopCh, buf, wconn, now, acceptor, cleaner, outcome, workerChanCap>>

\* A bug: release does not look at mustStop.
MayReturn_Always == TRUE
MayReturn == ~mustStop

Release(ch) ==
  /\ wpc[ch] = "release" /\ LockFree
  /\ \/ MayReturn /\ ready' = Append(ready, ch) /\ wpc' = [wpc EXCEPT ![ch] = "recv"]
     \/ ~MayReturn /\ ready' = ready /\ wpc' = [wpc EXCEPT ![ch] = "exit"]
  /\ UNCHANGED <<workersCount, mustStop, stopCh, buf, wconn, lastUse, now, acceptor,
                 cleaner, outcome, workerChanCap>>

Exit(ch) ==
  /\ wpc[ch] = "exit" /\ LockFree
  /\ workersCount' = workersCount - 1
  /\ wpc' = [wpc EXCEPT ![ch] = "put"]
  /\ UNCHANGED <<ready, mustStop, stopCh, buf, wconn, lastUse, now, acceptor,
                 cleaner, outcome, workerChanCap>>

Put(ch) ==
  /\ wpc[ch] = "put"
  /\ wpc' = [wpc EXCEPT ![ch] = "none"]
  /\ UNCHANGED <<pool, stopCh, buf, wconn, lastUse, now, acceptor, cleaner, outcome,
                 workerChanCap>>

(***************************************************************************)
(* The cleaner: the goroutine of Start, and clean.                         *)
(***************************************************************************)
CleanStart ==
  /\ cpc = "start"
  /\ crit' = now - MaxIdle /\ cpc' = "lock"
  /\ UNCHANGED <<pool, stopCh, buf, workers, now, acceptor, scratch, outcome, workerChanCap>>

\* A bug: a worker idle for exactly the duration counts as expired.
Expired_NotStrict(t, ch) == t >= lastUse[ch]
Expired(t, ch) == t > lastUse[ch]

\* The number of workers that the binary search of clean decides to retire.
CleanUpTo(s, t) ==
  LET search[b \in (0 .. Len(s)) \X (-1 .. Len(s) - 1)] ==    \* b is <<l, r>>
        LET mid == (b[1] + b[2]) \div 2 IN
        IF b[1] > b[2] THEN b[2]
        ELSE IF Expired(t, s[mid + 1]) THEN search[<<mid + 1, b[2]>>]
                                       ELSE search[<<b[1], mid - 1>>]
  IN  search[<<0, Len(s) - 1>>] + 1

\* A bug: the retired workers stay in ready.
Kept_All(n) == ready
\* What clean leaves in ready once the first n workers are in its scratch.
Kept(n) == SubSeq(ready, n + 1, Len(ready))

CleanLocked ==
  /\ cpc = "lock" /\ LockFree
  /\ LET n == CleanUpTo(ready, crit) IN
       /\ scratch' = SubSeq(ready, 1, n)
       /\ ready' = Kept(n)
  /\ cpc' = "send"
  /\ UNCHANGED <<workersCount, mustStop, stopCh, buf, workers, now, acceptor, crit,
                 outcome, workerChanCap>>

CleanSend ==
  /\ cpc = "send" /\ scratch # <<>>
  /\ SendTo(Head(scratch), Nil)
  /\ scratch' = Tail(scratch)
  /\ UNCHANGED <<pool, stopCh, now, acceptor, cpc, crit, outcome, workerChanCap>>

\* The select between two rounds: leave if stopCh is closed, otherwise sleep
\* (for as long as the scheduler likes) and clean again.
CleanAgain ==
  /\ cpc = "send" /\ scratch = <<>>
  /\ cpc' = IF stopCh THEN "done" ELSE "start"
  /\ crit' = 0
  /\ UNCHANGED <<pool, stopCh, buf, workers, now, acceptor, scratch, outcome, workerChanCap>>

Tick ==
  /\ now < MaxTime /\ now' = now + 1
  /\ UNCHANGED <<pool, stopCh, buf, workers, acceptor, cleaner, outcome, workerChanCap>>

-----------------------------------------------------------------------------
\* What the acceptor does on its own once it is inside Serve or Stop.
Acceptor == TakeReady \/ CreateWorker \/ Refuse \/ Spawn \/ Send
            \/ StopLock \/ StopSend \/ StopUnlock
\* A worker but for the code of WorkerFunc.
WorkerLoop(ch) == Receive(ch) \/ Stamp(ch) \/ Release(ch) \/ Exit(ch) \/ Put(ch)
Cleaner == CleanStart \/ CleanLocked \/ CleanSend \/ CleanAgain

Next == \/ \E c \in Conn : Serve(c)
        \/ StopClose
        \/ Acceptor
        \/ \E ch \in Chan : WorkerLoop(ch) \/ WorkerFuncReturns(ch)
        \/ Cleaner
        \/ Tick

Spec == Init /\ [][Next]_vars

-----------------------------------------------------------------------------
(***************************************************************************)
(* Properties.                                                             *)
(***************************************************************************)
InUse == {"recv", "serving", "served", "release", "exit"}

\* Every variable of the pool, of its workers, of the acceptor and of the
\* cleaner keeps to its values; a channel never holds more than its capacity.
TypeOK ==
  /\ ready \in Seq(Chan) /\ workersCount \in 0 .. Max
  /\ mustStop \in BOOLEAN /\ stopCh \in BOOLEAN /\ workerChanCap \in {0, 1}
  /\ buf \in [Chan -> Seq(Conn \cup {Nil})]
  /\ \A ch \in Chan : Len(buf[ch]) <= workerChanCap
  /\ wpc \in [Chan -> InUse \cup {"none", "put"}]
  /\ wconn \in [Chan -> Conn \cup {Nil}]
  /\ lastUse \in [Chan -> 0 .. MaxTime] /\ now \in 0 .. MaxTime
  /\ apc \in {"idle", "getCh", "spawn", "send", "stopLock", "stopSend", "stopped"}
  /\ ach \in Chan \cup {Nil} /\ aconn \in Conn \cup {Nil}
  /\ cpc \in {"start", "lock", "send", "done"} /\ crit \in -MaxIdle .. MaxTime
  /\ scratch \in Seq(Chan)
  /\ outcome \in [Conn -> {"new", "offered", "refused", "served"}]

Places(s, ch) == Cardinality({i \in DOMAIN s : s[i] = ch})

\* How many ways there are for a message to reach the worker of ch: places in
\* ready, in the cleaner's list and in the acceptor's hands, and messages sent.
Handles(ch) == Places(ready, ch) + Places(scratch, ch) + Len(buf[ch])
               + (IF apc = "send" /\ ach = ch THEN 1 ELSE 0)

\* A worker that waits on its channel can be reached in exactly one way, by one
\* of the acceptor, the cleaner and Stop or by a message already sent; a worker
\* that serves or leaves, and a channel back in workerChanPool, in none.  So no
\* worker is forgotten, and no send blocks or reaches a worker that has left.
OneHandle == \A ch \in Chan : Handles(ch) = IF wpc[ch] = "recv" THEN 1 ELSE 0

\* workersCount counts the workers alive and the one about to be started, so
\* that there are never more than MaxWorkersCount.
WorkersCounted ==
  /\ workersCount = Cardinality({ch \in Chan : wpc[ch] \in InUse})
                     + (IF apc = "spawn" THEN 1 ELSE 0)
  /\ workersCount <= Max

\* Once Stop has set mustStop, no worker goes back to ready, where nobody would
\* ever send to it again.
NothingReadyAfterStop == mustStop => ready = <<>>

\* The acceptor sends on a channel it has got, and the cleaner starts each round
\* with an empty list.
InHand ==
  /\ apc = "send" => ach \in Chan
  /\ cpc # "send" => scratch = <<>>

\* A connection is on its way from the acceptor through one channel to one
\* worker: it is never in two of these places, and in none before Serve has it or
\* after its outcome is known.
Carried(c) == apc \in {"getCh", "spawn", "send"} /\ aconn = c
Holds(ch, c) ==
  \/ buf[ch] # <<>> /\ Head(buf[ch]) = c
  \/ wpc[ch] = "serving" /\ wconn[ch] = c

OnePlace ==
  /\ apc \in {"getCh", "spawn", "send"} => aconn \in Conn
  /\ \A ch \in Chan : wpc[ch] = "serving" => wconn[ch] \in Conn
  /\ \A c \in Conn :
       /\ Carried(c) => outcome[c] = "offered" /\ \A ch \in Chan : ~Holds(ch, c)
       /\ \A ch \in Chan : Holds(ch, c) =>
            outcome[c] = "offered" /\ \A k \in Chan : Holds(k, c) => k = ch

\* The bookkeeping under wp.lock is right whenever another goroutine can look.
PoolInv == TypeOK /\ WorkersCounted /\ NothingReadyAfterStop /\ InHand /\ OnePlace

\* Release may put a worker behind one whose lastUseTime is later than its own, for
\* it takes the time before the lock: the list that clean searches in need not be in
\* order.  Whatever it holds, and however late clean comes, the search ends where an
\* expired worker meets one that is not: the last one retired has expired and the
\* first one kept has not.  So on a list in order it finds just the expired ones.
InOrderOfUse == \A i, j \in DOMAIN ready : i < j => lastUse[ready[i]] <= lastUse[ready[j]]

CleanCutsRight == \A t \in -MaxIdle .. MaxTime :
  LET n == CleanUpTo(ready, t) IN
    /\ n > 0 => t > lastUse[ready[n]]
    /\ n < Len(ready) => t <= lastUse[ready[n + 1]]
    /\ InOrderOfUse => n = Cardinality({i \in DOMAIN ready : t > lastUse[ready[i]]})

\* A connection is served once, by one worker, or refused, never both, and at
\* most Max are served at a time: the pool implements the Dispatcher.
Serving == {c \in Conn : \E ch \in Chan : wpc[ch] = "serving" /\ wconn[ch] = c}
With(o) == {c \in Conn : outcome[c] = o}

D == INSTANCE Dispatcher
       WITH waiting <- With("offered") \ Serving, serving <- Serving,
            served <- With("served"), refused <- With("refused")
ImplementsDispatcher == D!Spec
=============================================================================
