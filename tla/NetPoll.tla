------------------------------ MODULE NetPoll ------------------------------
(***************************************************************************)
(* The network poller (src/netpoll): descriptors are opened, goroutines    *)
(* wait for one to be readable or writable, threads poll epoll for edges   *)
(* and wake them, and netpollBreak interrupts a thread that blocks there.  *)
(*                                                                         *)
(* An action is one load, store or compare-and-swap that another goroutine *)
(* can see, or a section under a lock.  A loop that ends with a successful *)
(* compare-and-swap of what it has loaded is the one step of that swap.    *)
(* Deadlines and closing are not in the code (netpoll4.go): closing stays  *)
(* FALSE, rd and wd stay 0, and everr is all that netpollcheckerr sees.    *)
(***************************************************************************)
EXTENDS Integers, FiniteSets, SequencesExt

CONSTANTS
  Initer,     \* the callers of netpollGenericInit
  FD,         \* descriptors, each opened once with success
  PD,         \* the pollDescs of one block of pollCache
  Thread,     \* the threads that call netpoll
  Blocker,    \* those whose calls have delay # 0: the scheduler lets one block at a time
  Breaker,    \* the callers of netpollBreak
  Mode,       \* "r" and "w": the ways to wait for a descriptor
  Flag,       \* "in": EPOLLIN or RDHUP, "out": EPOLLOUT, "err": EPOLLERR; EPOLLHUP is "in" and "out"
  None,
  MaxPipe     \* bound: the bytes in the pipe that netpollBreak writes to

ASSUME NetPollAssumption ==
  /\ IsFiniteSet(PD) /\ IsFiniteSet(FD)
  /\ Cardinality(FD) <= Cardinality(PD) /\ Cardinality(FD) < 128
  /\ Mode \subseteq {"r", "w"} /\ Flag \subseteq {"in", "out", "err"}
  /\ Blocker \subseteq Thread /\ None \notin FD \cup PD \cup Initer /\ MaxPipe \in Nat \ {0}

Waiter == FD \X Mode   \* internal/poll lets one reader and one writer in

VARIABLES
  inited, initLock, epfd,  \* netpollInited, netpollInitLock, whether epfd is open
  inits, ipc,              \* history: the calls of netpollinit; netpollGenericInit
  cache,                   \* pollcache, the first pollDesc first
  opc, pdOf,               \* where the opening of a descriptor is, its pollDesc
  word, everr,             \* rg and wg, and everr, of a pollDesc
  wpc,                     \* where a waiter is in poll_runtime_pollWait
  edge,                    \* epoll: the edges of a descriptor not yet reported
  pipe, wakeSig, bpc,      \* bytes in the pipe, netpollWakeSig, netpollBreak
  tpc,              \* where a thread is in netpoll, and its argument
  evs, brk,                \* its events that are still to be handled
  cur,                     \* the descriptor of the event being handled
  toRun

initing == <<inited, initLock, epfd, inits, ipc>>
opening == <<cache, opc, pdOf>>
breaking == <<pipe, wakeSig, bpc>>
polling == <<tpc, evs, brk, cur, toRun>>
vars == <<initing, opening, word, everr, wpc, edge, breaking, polling>>

NoFlags == [f \in FD |-> {}]

Init ==
  /\ inited = 0 /\ initLock = None /\ epfd = FALSE /\ inits = 0
  /\ ipc = [i \in Initer |-> "load"]
  /\ cache = <<>>
  /\ opc = [f \in FD |-> "new"] /\ pdOf = [f \in FD |-> None]
  /\ word = [d \in PD |-> [m \in Mode |-> "nil"]] /\ everr = [d \in PD |-> FALSE]
  /\ wpc = [x \in Waiter |-> "idle"]
  /\ edge = NoFlags
  /\ pipe = 0 /\ wakeSig = 0 /\ bpc = [b \in Breaker |-> "idle"]
  /\ tpc = [t \in Thread |-> "wait"]
  /\ evs = [t \in Thread |-> NoFlags] /\ brk = [t \in Thread |-> FALSE]
  /\ cur = [t \in Thread |-> None] /\ toRun = [t \in Thread |-> {}]

-----------------------------------------------------------------------------
(* netpollGenericInit *)

InitGoto(i, l) == ipc' = [ipc EXCEPT ![i] = l]

LoadInited(i) ==
  /\ ipc[i] = "load"
  /\ InitGoto(i, IF inited = 0 THEN "lock" ELSE "done")
  /\ UNCHANGED <<inited, initLock, epfd, inits, opening, word, everr, wpc, edge,
                 breaking, polling>>

\* A bug: the flag is not looked at again under the lock.
MustInit_Always == TRUE
MustInit == inited = 0

LockInit(i) ==
  /\ ipc[i] = "lock" /\ initLock = None
  /\ initLock' = i
  /\ InitGoto(i, IF MustInit THEN "create" ELSE "unlock")
  /\ UNCHANGED <<inited, epfd, inits, opening, word, everr, wpc, edge, breaking, polling>>

\* netpollinit: from here on netpoll does not return at once.
CreateEpoll(i) ==
  /\ ipc[i] = "create"
  /\ epfd' = TRUE /\ inits' = inits + 1
  /\ InitGoto(i, "store")
  /\ UNCHANGED <<inited, initLock, opening, word, everr, wpc, edge, breaking, polling>>

StoreInited(i) ==
  /\ ipc[i] = "store"
  /\ inited' = 1
  /\ InitGoto(i, "unlock")
  /\ UNCHANGED <<initLock, epfd, inits, opening, word, everr, wpc, edge, breaking, polling>>

UnlockInit(i) ==
  /\ ipc[i] = "unlock"
  /\ initLock' = None
  /\ InitGoto(i, "done")
  /\ UNCHANGED <<inited, epfd, inits, opening, word, everr, wpc, edge, breaking, polling>>

-----------------------------------------------------------------------------
(* poll_runtime_pollOpen *)

OpenGoto(f, l) == opc' = [opc EXCEPT ![f] = l]

\* internal/poll has the poller initialized before it opens a descriptor (bound:
\* no other call of netpollGenericInit is left, which would only find the flag
\* set).  An empty cache gets a block of new pollDescs first.
Alloc(f) ==
  /\ opc[f] = "new" /\ \A i \in Initer : ipc[i] = "done"
  /\ LET c == IF cache = <<>> THEN SetToSeq(PD) ELSE cache IN
       /\ pdOf' = [pdOf EXCEPT ![f] = Head(c)]
       /\ cache' = Tail(c)
  /\ OpenGoto(f, "reset")
  /\ UNCHANGED <<initing, word, everr, wpc, edge, breaking, polling>>

\* Under the lock of the pollDesc.
ResetDesc(f) ==
  /\ opc[f] = "reset"
  /\ IF \E m \in Mode : word[pdOf[f]][m] \notin {"nil", "ready"}
       THEN OpenGoto(f, "throw") /\ UNCHANGED <<word, everr>>
       ELSE /\ word' = [word EXCEPT ![pdOf[f]] = [m \in Mode |-> "nil"]]
            /\ everr' = [everr EXCEPT ![pdOf[f]] = FALSE]
            /\ OpenGoto(f, "add")
  /\ UNCHANGED <<initing, cache, pdOf, wpc, edge, breaking, polling>>

\* netpollopen arms the edges; what is ready now is reported as an edge.
AddToEpoll(f) ==
  /\ opc[f] = "add"
  /\ \E now \in SUBSET (Flag \ {"err"}) : edge' = [edge EXCEPT ![f] = now]
  /\ OpenGoto(f, "open")
  /\ UNCHANGED <<initing, cache, pdOf, word, everr, wpc, breaking, polling>>

\* It fails: the pollDesc goes back, and the caller may try again.
AddFails(f) ==
  /\ opc[f] = "add"
  /\ cache' = <<pdOf[f]>> \o cache
  /\ pdOf' = [pdOf EXCEPT ![f] = None]
  /\ OpenGoto(f, "new")
  /\ UNCHANGED <<initing, word, everr, wpc, edge, breaking, polling>>

-----------------------------------------------------------------------------
(* poll_runtime_pollWait and netpollblock *)

Desc(x) == pdOf[x[1]]
Sem(x) == word[Desc(x)][x[2]]
SetSem(x, v) == word' = [word EXCEPT ![Desc(x)][x[2]] = v]
WaitGoto(x, l) == wpc' = [wpc EXCEPT ![x] = l]
\* netpollcheckerr
CheckErr(x) == x[2] = "r" /\ everr[Desc(x)]

PollWait(x) ==
  /\ wpc[x] = "idle" /\ opc[x[1]] = "open"
  /\ ~CheckErr(x)
  /\ WaitGoto(x, "load")
  /\ UNCHANGED <<initing, opening, word, everr, edge, breaking, polling>>

\* A pending notification is consumed in two steps.
SetWait(x) ==
  /\ wpc[x] = "load"
  /\ CASE Sem(x) = "ready" -> WaitGoto(x, "consume") /\ UNCHANGED word
       [] Sem(x) = "nil"   -> WaitGoto(x, "recheck") /\ SetSem(x, "wait")
       [] OTHER            -> WaitGoto(x, "throw") /\ UNCHANGED word
  /\ UNCHANGED <<initing, opening, everr, edge, breaking, polling>>

Consume(x) ==
  /\ wpc[x] = "consume"
  /\ SetSem(x, "nil")
  /\ WaitGoto(x, "idle")
  /\ UNCHANGED <<initing, opening, everr, edge, breaking, polling>>

Recheck(x) ==
  /\ wpc[x] = "recheck"
  /\ WaitGoto(x, IF CheckErr(x) THEN "xchg" ELSE "commit")
  /\ UNCHANGED <<initing, opening, word, everr, edge, breaking, polling>>

\* A bug: the goroutine parks whatever has become of its semaphore.
MayPark_Always(x) == TRUE

\* netpollblockcommit, called by gopark: pdWait becomes the G pointer.
MayPark(x) == Sem(x) = "wait"

Commit(x) ==
  /\ wpc[x] = "commit"
  /\ IF MayPark(x) THEN SetSem(x, "G") /\ WaitGoto(x, "parked")
                   ELSE WaitGoto(x, "xchg") /\ UNCHANGED word
  /\ UNCHANGED <<initing, opening, everr, edge, breaking, polling>>

Exchange(x) ==
  /\ wpc[x] = "xchg"
  /\ SetSem(x, "nil")
  /\ WaitGoto(x, IF Sem(x) = "ready" THEN "idle" ELSE IF Sem(x) = "G" THEN "throw" ELSE "again")
  /\ UNCHANGED <<initing, opening, everr, edge, breaking, polling>>

Again(x) ==
  /\ wpc[x] = "again"
  /\ WaitGoto(x, IF CheckErr(x) THEN "idle" ELSE "load")
  /\ UNCHANGED <<initing, opening, word, everr, edge, breaking, polling>>

-----------------------------------------------------------------------------
(* netpoll, netpollready and netpollunblock *)

ThreadGoto(t, l) == tpc' = [tpc EXCEPT ![t] = l]

\* A call of netpoll as far as epollwait.  It reports all the descriptors with
\* edges, up to the 128 of events, and forgets the edges; the pipe it reports as
\* long as there is a byte in it.  A call that comes back with nothing, because
\* it need not block or was interrupted, has no effect and is not a step.
EpollWait(t) ==
  /\ tpc[t] = "wait" /\ epfd
  /\ edge # NoFlags \/ pipe > 0
  /\ evs' = [evs EXCEPT ![t] = edge] /\ edge' = NoFlags
  /\ brk' = [brk EXCEPT ![t] = pipe > 0]
  /\ ThreadGoto(t, "event")
  /\ UNCHANGED <<initing, opening, word, everr, wpc, breaking, cur, toRun>>

\* A bug: the flag is lowered before the pipe is emptied.
BreakStep_StoreFirst(k) == <<"store", "read", "event">>[k]

\* What a blocking thread does about the byte of netpollBreak, in this order.
BreakStep(k) == <<"read", "store", "event">>[k]

StepAfter(l) == BreakStep(1 + CHOOSE k \in 1 .. 2 : BreakStep(k) = l)

\* A thread that does not block leaves the byte to the one that does.
BreakEvent(t) ==
  /\ tpc[t] = "event" /\ brk[t]
  /\ brk' = [brk EXCEPT ![t] = FALSE]
  /\ ThreadGoto(t, IF t \in Blocker THEN BreakStep(1) ELSE "event")
  /\ UNCHANGED <<initing, opening, word, everr, wpc, edge, breaking, evs, cur, toRun>>

ReadPipe(t) ==
  /\ tpc[t] = "read"
  /\ pipe' = 0
  /\ ThreadGoto(t, StepAfter("read"))
  /\ UNCHANGED <<initing, opening, word, everr, wpc, edge, wakeSig, bpc, evs, brk, cur, toRun>>

StoreWakeSig(t) ==
  /\ tpc[t] = "store"
  /\ wakeSig' = 0
  /\ ThreadGoto(t, StepAfter("store"))
  /\ UNCHANGED <<initing, opening, word, everr, wpc, edge, pipe, bpc, evs, brk, cur, toRun>>

\* everr is cleared, and then set if the error is all there is to report.
Event(t, f) ==
  /\ tpc[t] = "event" /\ evs[t][f] # {}
  /\ cur' = [cur EXCEPT ![t] = f]
  /\ everr' = [everr EXCEPT ![pdOf[f]] = FALSE]
  /\ ThreadGoto(t, IF evs[t][f] = {"err"} THEN "everr" ELSE "r")
  /\ UNCHANGED <<initing, opening, word, wpc, edge, breaking, evs, brk, toRun>>

SetErr(t) ==
  /\ tpc[t] = "everr"
  /\ everr' = [everr EXCEPT ![pdOf[cur[t]]] = TRUE]
  /\ ThreadGoto(t, "r")
  /\ UNCHANGED <<initing, opening, word, wpc, edge, breaking, evs, brk, cur, toRun>>

\* The semaphores that flags notify.
ModeOf(flags) ==
  (IF flags \cap {"in", "err"} # {} THEN {"r"} ELSE {})
  \cup (IF flags \cap {"out", "err"} # {} THEN {"w"} ELSE {})

\* Bugs: a parked goroutine is woken and its semaphore left as it is; one
\* that is about to park is not notified.
NewSem_KeepsG(v) == IF v = "G" THEN "G" ELSE "ready"
NewSem_OnlyParked(v) == IF v = "wait" THEN "wait" ELSE "ready"

\* What a notification makes of a semaphore.
NewSem(v) == "ready"

\* netpollunblock with ioready: a parked goroutine goes to toRun.
Unblock(t, m) ==
  LET x == <<cur[t], m>> IN
  IF m \in Mode \cap ModeOf(evs[t][cur[t]])
    THEN /\ SetSem(x, NewSem(Sem(x)))
         /\ toRun' = [toRun EXCEPT ![t] = IF Sem(x) = "G" THEN @ \cup {x} ELSE @]
    ELSE UNCHANGED <<word, toRun>>

ReadyR(t) ==
  /\ tpc[t] = "r"
  /\ Unblock(t, "r")
  /\ ThreadGoto(t, "w")
  /\ UNCHANGED <<initing, opening, everr, wpc, edge, breaking, evs, brk, cur>>

ReadyW(t) ==
  /\ tpc[t] = "w"
  /\ Unblock(t, "w")
  /\ evs' = [evs EXCEPT ![t][cur[t]] = {}]
  /\ cur' = [cur EXCEPT ![t] = None]
  /\ ThreadGoto(t, "event")
  /\ UNCHANGED <<initing, opening, everr, wpc, edge, breaking, brk>>

\* netpoll returns and its caller makes the goroutines in toRun runnable.
Return(t) ==
  /\ tpc[t] = "event" /\ evs[t] = NoFlags /\ ~brk[t]
  /\ wpc' = [x \in Waiter |-> IF x \in toRun[t] THEN "xchg" ELSE wpc[x]]
  /\ toRun' = [toRun EXCEPT ![t] = {}]
  /\ ThreadGoto(t, "wait")
  /\ UNCHANGED <<initing, opening, word, everr, edge, breaking, evs, brk, cur>>

-----------------------------------------------------------------------------
(* netpollBreak, whose callers in the scheduler check netpollInited first *)

BreakCall(b) ==
  /\ bpc[b] = "idle" /\ inited = 1
  /\ bpc' = [bpc EXCEPT ![b] = "cas"]
  /\ UNCHANGED <<initing, opening, word, everr, wpc, edge, pipe, wakeSig, polling>>

BreakCAS(b) ==
  /\ bpc[b] = "cas"
  /\ bpc' = [bpc EXCEPT ![b] = IF wakeSig = 0 THEN "write" ELSE "idle"]
  /\ wakeSig' = 1
  /\ UNCHANGED <<initing, opening, word, everr, wpc, edge, pipe, polling>>

\* A write that is interrupted is repeated; a full pipe wakes the thread too.
BreakWrite(b) ==
  /\ bpc[b] = "write"
  /\ pipe' = IF pipe < MaxPipe THEN pipe + 1 ELSE pipe
  /\ bpc' = [bpc EXCEPT ![b] = "idle"]
  /\ UNCHANGED <<initing, opening, word, everr, wpc, edge, wakeSig, polling>>

\* The network: a descriptor has news for epoll.
Arrive(f, flag) ==
  /\ opc[f] = "open" /\ flag \notin edge[f]
  /\ edge' = [edge EXCEPT ![f] = @ \cup {flag}]
  /\ UNCHANGED <<initing, opening, word, everr, wpc, breaking, polling>>

-----------------------------------------------------------------------------
GenericInit(i) == LoadInited(i) \/ LockInit(i) \/ CreateEpoll(i) \/ StoreInited(i)
                  \/ UnlockInit(i)
Open(f) == Alloc(f) \/ ResetDesc(f) \/ AddToEpoll(f) \/ AddFails(f)
WaitStep(x) == SetWait(x) \/ Consume(x) \/ Recheck(x) \/ Commit(x) \/ Exchange(x) \/ Again(x)
ThreadStep(t) == EpollWait(t) \/ BreakEvent(t) \/ ReadPipe(t) \/ StoreWakeSig(t)
                 \/ (\E f \in FD : Event(t, f)) \/ SetErr(t)
                 \/ ReadyR(t) \/ ReadyW(t) \/ Return(t)
BreakerStep(b) == BreakCAS(b) \/ BreakWrite(b)

Next ==
  \/ \E i \in Initer : GenericInit(i)
  \/ \E f \in FD : Open(f) \/ \E flag \in Flag : Arrive(f, flag)
  \/ \E x \in Waiter : PollWait(x) \/ WaitStep(x)
  \/ \E t \in Thread : ThreadStep(t)
  \/ \E b \in Breaker : BreakCall(b) \/ BreakerStep(b)

Spec == Init /\ [][Next]_vars

(***************************************************************************)
(* Goroutines and threads that can take a step do, and the scheduler calls *)
(* netpoll again and again.  Nobody need open a descriptor, wait for it or *)
(* call netpollBreak.                                                      *)
(***************************************************************************)
Fairness ==
  /\ \A x \in Waiter : WF_vars(WaitStep(x))
  /\ \A t \in Thread : WF_vars(ThreadStep(t))
  /\ \A b \in Breaker : WF_vars(BreakerStep(b))

FairSpec == Spec /\ Fairness
-----------------------------------------------------------------------------
(* Properties *)

\* The variables hold values of their types, and no goroutine has thrown.
TypeOK ==
  /\ inited \in {0, 1} /\ epfd \in BOOLEAN /\ initLock \in Initer \cup {None}
  /\ cache \in Seq(PD) /\ pdOf \in [FD -> PD \cup {None}]
  /\ ipc \in [Initer -> {"load", "lock", "create", "store", "unlock", "done"}]
  /\ opc \in [FD -> {"new", "reset", "add", "open"}]
  /\ word \in [PD -> [Mode -> {"nil", "ready", "wait", "G"}]]
  /\ everr \in [PD -> BOOLEAN]
  /\ wpc \in [Waiter -> {"idle", "load", "consume", "recheck", "commit", "parked",
                         "xchg", "again"}]
  /\ edge \in [FD -> SUBSET Flag]
  /\ pipe \in 0 .. MaxPipe /\ wakeSig \in {0, 1}
  /\ bpc \in [Breaker -> {"idle", "cas", "write"}]
  /\ tpc \in [Thread -> {"wait", "event", "read", "store", "everr", "r", "w"}]
  /\ evs \in [Thread -> [FD -> SUBSET Flag]] /\ brk \in [Thread -> BOOLEAN]
  /\ cur \in [Thread -> FD \cup {None}] /\ toRun \in [Thread -> SUBSET Waiter]

\* "Initialize the poller. Only called once" (netpoll0.go:6), and complete for
\* whoever has passed netpollGenericInit.
InitOnce ==
  /\ inits <= 1
  /\ \A i \in Initer : ipc[i] = "done" => inited = 1 /\ epfd

\* While netpollWakeSig keeps other calls of netpollBreak from writing, there is
\* a byte in the pipe, or somebody who is about to write it or to lower the flag.
BreakAnnounced ==
  wakeSig = 1 => \/ pipe > 0
                 \/ \E b \in Breaker : bpc[b] = "write"
                 \/ \E t \in Thread : tpc[t] = "store"

\* The parts of the poller that do not concern the semaphores, at any moment.
PollerInv == TypeOK /\ InitOnce /\ BreakAnnounced

\* A parked goroutine has its pointer in the semaphore or is in the list of one
\* thread; nobody else is in a list.  So it is made runnable, and made so once,
\* although several threads report events of its descriptor at a time.
WokenOnce ==
  \A x \in Waiter :
    Cardinality({t \in Thread : x \in toRun[t]})
      = IF wpc[x] = "parked" /\ Sem(x) # "G" THEN 1 ELSE 0

\* rg and wg of an open descriptor are binary semaphores (netpoll0.go:39-56): no
\* notification is lost between the steps of netpollblock, and no goroutine
\* parks while there is one.
Notified(x) == pdOf[x[1]] # None /\ Sem(x) = "ready"
S == INSTANCE Semaphores
       WITH ready <- [x \in Waiter |-> Notified(x)],
            asleep <- [x \in Waiter |-> wpc[x] = "parked" /\ Sem(x) = "G"]
ImplementsSemaphores == S!Spec

\* A goroutine that waits in poll_runtime_pollWait returns once there is an edge
\* that concerns it, wherever between its steps the edge is reported.
ReadinessDelivered ==
  \A x \in Waiter : (wpc[x] # "idle" /\ x[2] \in ModeOf(edge[x[1]])) ~> wpc[x] = "idle"

\* "netpollBreak interrupts an epollwait" (netpoll_epoll.go:53): the thread that
\* may block in epollwait when netpollBreak is called comes out of it, also if
\* the call finds netpollWakeSig set and does nothing.
BreakInterrupts ==
  \A b \in Breaker, t \in Blocker : (bpc[b] = "cas" /\ tpc[t] = "wait") ~> tpc[t] # "wait"
=============================================================================
