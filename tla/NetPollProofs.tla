---------------------------- MODULE NetPollProofs ----------------------------
(***************************************************************************)
(* The poller is right for any number of descriptors, threads and callers: *)
(* its invariants, that each parked goroutine is woken once, and that rg   *)
(* and wg are binary semaphores.                                           *)
(***************************************************************************)
EXTENDS NetPoll, FiniteSetTheorems, FunctionTheorems, SequenceTheorems, TLAPS

-----------------------------------------------------------------------------
(***************************************************************************)
(* The pollDescs.                                                          *)
(***************************************************************************)
NoTwice(s) == \A i, j \in DOMAIN s : s[i] = s[j] => i = j

\* A block of new pollDescs holds each of them once.
LEMMA NewBlock ==
  /\ SetToSeq(PD) \in Seq(PD) /\ NoTwice(SetToSeq(PD))
  /\ \A d \in PD : \E i \in DOMAIN SetToSeq(PD) : SetToSeq(PD)[i] = d
<1> DEFINE n == Cardinality(PD)
           s == SetToSeq(PD)
<1>1. IsFiniteSet(PD) /\ n \in Nat
  BY NetPollAssumption, FS_CardinalityType
<1>2. \E f \in [1 .. n -> PD] : IsInjective(f)
  <2>1. PICK f : f \in Bijection(1 .. n, PD)
    BY <1>1, FS_CardinalityType DEF ExistsBijection
  <2> QED
    BY <2>1 DEF Bijection, Injection
<1>3. s \in [1 .. n -> PD] /\ IsInjective(s)
  BY <1>2 DEF SetToSeq
<1> HIDE DEF s
<1>4. DOMAIN s = 1 .. n /\ s \in Seq(PD) /\ NoTwice(s)
  BY <1>1, <1>3 DEF IsInjective, NoTwice
<1>5. s \in Injection(1 .. n, PD) /\ IsFiniteSet(1 .. n) /\ Cardinality(1 .. n) = Cardinality(PD)
  BY <1>1, <1>3, FS_Interval DEF Injection
<1>6. s \in Surjection(1 .. n, PD)
  BY <1>1, <1>5, FS_Injection
<1>7. \A d \in PD : \E i \in DOMAIN s : s[i] = d
  BY <1>4, <1>6 DEF Surjection
<1> QED
  BY <1>4, <1>7 DEF s

\* Descriptors that all have a pollDesc of their own, and one that has none, are
\* fewer than the pollDescs.
LEMMA OneLeft ==
  ASSUME NEW p \in [FD -> PD \cup {None}],
         \A f, g \in FD : p[f] = p[g] /\ p[f] # None => f = g,
         NEW f0 \in FD, p[f0] = None
  PROVE  \E d \in PD : \A f \in FD : p[f] # d
<1> SUFFICES ASSUME \A d \in PD : \E f \in FD : p[f] = d PROVE FALSE
  OBVIOUS
<1> DEFINE A == FD \ {f0}
           q == [d \in PD |-> CHOOSE f \in FD : p[f] = d]
<1>1. None \notin PD /\ IsFiniteSet(PD) /\ IsFiniteSet(FD) /\ Cardinality(FD) <= Cardinality(PD)
      /\ Cardinality(FD) \in Nat /\ Cardinality(PD) \in Nat
  BY NetPollAssumption, FS_CardinalityType
<1>2. IsFiniteSet(A) /\ Cardinality(A) = Cardinality(FD) - 1 /\ Cardinality(A) \in Nat
  BY <1>1, FS_RemoveElement, FS_CardinalityType
<1>3. \A d \in PD : q[d] \in FD /\ p[q[d]] = d
  OBVIOUS
<1>4. q \in [PD -> A]
  BY <1>1, <1>3
<1> HIDE DEF q
<1>5. PICK d, e \in PD : d # e /\ q[d] = q[e]
  BY <1>1, <1>2, <1>4, FS_PigeonHole
<1> QED
  BY <1>3, <1>5

-----------------------------------------------------------------------------
(***************************************************************************)
(* The inductive invariant.                                                *)
(***************************************************************************)
\* The stages of netpollGenericInit: who is past the check holds the lock, and
\* the flag is up only when netpollinit has run, once.
InitStages ==
  /\ inits \in {0, 1}
  /\ \A i \in Initer :
       /\ ipc[i] \in {"create", "store", "unlock"} => initLock = i
       /\ ipc[i] = "create" => inited = 0 /\ inits = 0
       /\ ipc[i] = "store" => inits = 1 /\ epfd
       /\ ipc[i] \in {"unlock", "done"} => inited = 1
  /\ inited = 1 => inits = 1 /\ epfd
  /\ inits = 0 \/ inited = 1 \/ \E i \in Initer : ipc[i] = "store"

\* Each descriptor being opened has a pollDesc of its own, and every pollDesc of
\* the block has an owner or is in the cache, once.
OwnDesc ==
  /\ \A f \in FD : pdOf[f] = None <=> opc[f] = "new"
  /\ \A f, g \in FD : pdOf[f] = pdOf[g] /\ pdOf[f] # None => f = g
  /\ \A i, j \in DOMAIN cache : cache[i] = cache[j] => i = j
  /\ \A i \in DOMAIN cache, f \in FD : cache[i] # pdOf[f]
  /\ \/ cache = <<>> /\ \A f \in FD : pdOf[f] = None
     \/ \A d \in PD : (\E f \in FD : pdOf[f] = d) \/ (\E i \in DOMAIN cache : cache[i] = d)

\* Before a descriptor is open nothing is reported of it, nobody waits for it and
\* its semaphores are clear; a thread that handles an event has one.
Quiet ==
  /\ \A f \in FD : opc[f] # "open" => edge[f] = {} /\ \A t \in Thread : evs[t][f] = {}
  /\ \A x \in Waiter : opc[x[1]] # "open" => wpc[x] = "idle"
  /\ \A d \in PD, m \in Mode : word[d][m] # "nil" => \E f \in FD : pdOf[f] = d /\ opc[f] = "open"
  /\ \A t \in Thread : tpc[t] \in {"everr", "r", "w"} => cur[t] \in FD /\ evs[t][cur[t]] # {}

\* What each place in netpollblock allows the semaphore to be.
SemFits == \A x \in Waiter : pdOf[x[1]] # None =>
  /\ wpc[x] \in {"idle", "load", "again"} => Sem(x) \in {"nil", "ready"}
  /\ wpc[x] = "consume" => Sem(x) = "ready"
  /\ wpc[x] \in {"recheck", "commit", "xchg"} => Sem(x) \in {"wait", "ready"}
  /\ wpc[x] = "parked" => Sem(x) \in {"G", "ready"}

\* The lists of netpoll hold the parked goroutines whose notification has come,
\* each in one list.
ListsRight ==
  /\ \A t \in Thread : \A x \in toRun[t] : wpc[x] = "parked" /\ Sem(x) = "ready"
  /\ \A s, t \in Thread, x \in Waiter : x \in toRun[s] /\ x \in toRun[t] => s = t
  /\ \A x \in Waiter : wpc[x] = "parked" /\ Sem(x) = "ready" => \E t \in Thread : x \in toRun[t]

IInv == TypeOK /\ InitStages /\ BreakAnnounced /\ OwnDesc /\ Quiet /\ SemFits /\ ListsRight

\* The type of the semaphores alone.
Frozen == word \in [PD -> [Mode -> {"nil", "ready", "wait", "G"}]]

\* Where a waiter that is not idle stands, its descriptor is open.
LEMMA HasDesc ==
  ASSUME IInv
  PROVE  /\ None \notin PD /\ None \notin FD /\ None \notin Initer
         /\ \A f \in FD : opc[f] # "new" => pdOf[f] \in PD
         /\ \A x \in Waiter : x[1] \in FD /\ x[2] \in Mode /\ x = <<x[1], x[2]>>
         /\ \A x \in Waiter : wpc[x] # "idle" => opc[x[1]] = "open" /\ pdOf[x[1]] \in PD
         /\ \A t \in Thread, f \in FD : evs[t][f] # {} => opc[f] = "open" /\ pdOf[f] \in PD
         /\ \A t \in Thread : tpc[t] \in {"everr", "r", "w"} =>
              cur[t] \in FD /\ evs[t][cur[t]] # {} /\ opc[cur[t]] = "open" /\ pdOf[cur[t]] \in PD
<1>1. None \notin PD /\ None \notin FD /\ None \notin Initer
  BY NetPollAssumption
<1>2. \A f \in FD : opc[f] # "new" => pdOf[f] \in PD
  BY DEF IInv, OwnDesc, TypeOK
<1>3. \A x \in Waiter : x[1] \in FD /\ x[2] \in Mode /\ x = <<x[1], x[2]>>
  BY DEF Waiter
<1>4. \A x \in Waiter : wpc[x] # "idle" => opc[x[1]] = "open"
  BY <1>3 DEF IInv, Quiet
<1>5. \A t \in Thread, f \in FD : evs[t][f] # {} => opc[f] = "open"
  BY DEF IInv, Quiet
<1>6. \A t \in Thread : tpc[t] \in {"everr", "r", "w"} => cur[t] \in FD /\ evs[t][cur[t]] # {}
  BY DEF IInv, Quiet
<1> QED
  BY <1>1, <1>2, <1>3, <1>4, <1>5, <1>6

\* A store to the semaphore of one waiter leaves those of the others alone.
LEMMA SetSemIs ==
  ASSUME IInv, NEW x \in Waiter, opc[x[1]] = "open", NEW v \in {"nil", "ready", "wait", "G"},
         SetSem(x, v)
  PROVE  /\ Frozen'
         /\ \A y \in Waiter : pdOf[y[1]] # None =>
              word'[pdOf[y[1]]][y[2]] = (IF y = x THEN v ELSE Sem(y))
         /\ \A d \in PD, m \in Mode : d # pdOf[x[1]] => word'[d][m] = word[d][m]
<1> DEFINE d0 == pdOf[x[1]]
           m0 == x[2]
<1>1. Frozen /\ d0 \in PD /\ m0 \in Mode /\ word' = [word EXCEPT ![d0][m0] = v]
  BY HasDesc DEF IInv, TypeOK, Frozen, SetSem, Desc
<1>2. \A y \in Waiter : pdOf[y[1]] # None => pdOf[y[1]] \in PD /\ y[2] \in Mode
  BY HasDesc DEF IInv, TypeOK
<1>3. \A y \in Waiter : pdOf[y[1]] = d0 /\ y[2] = m0 => y = x
  BY <1>1, HasDesc DEF IInv, OwnDesc
<1> HIDE DEF d0, m0
<1>4. Frozen'
  BY <1>1 DEF Frozen
<1>5. \A d \in PD, m \in Mode : word'[d][m] = (IF d = d0 /\ m = m0 THEN v ELSE word[d][m])
  BY <1>1 DEF Frozen
<1>6. pdOf[x[1]] = d0 /\ x[2] = m0
  BY DEF d0, m0
<1>7. \A y \in Waiter : pdOf[y[1]] # None =>
        word'[pdOf[y[1]]][y[2]] = (IF y = x THEN v ELSE Sem(y))
  BY <1>2, <1>3, <1>5, <1>6 DEF Sem, Desc
<1> QED
  BY <1>4, <1>5, <1>6, <1>7

\* What a blocking thread does about the byte of netpollBreak.
LEMMA BreakSteps ==
  BreakStep(1) = "read" /\ StepAfter("read") = "store" /\ StepAfter("store") = "event"
<1>1. \A k \in 1 .. 2 : (BreakStep(k) = "read" <=> k = 1) /\ (BreakStep(k) = "store" <=> k = 2)
  BY DEF BreakStep
<1>2. (CHOOSE k \in 1 .. 2 : BreakStep(k) = "read") = 1
  BY <1>1
<1>3. (CHOOSE k \in 1 .. 2 : BreakStep(k) = "store") = 2
  BY <1>1
<1>4. StepAfter("read") = BreakStep(2)
  <2>1. StepAfter("read") = BreakStep(1 + 1)
    BY <1>2, Zenon DEF StepAfter
  <2> QED
    BY <2>1
<1>5. StepAfter("store") = BreakStep(3)
  <2>1. StepAfter("store") = BreakStep(1 + 2)
    BY <1>3, Zenon DEF StepAfter
  <2> QED
    BY <2>1
<1> QED
  BY <1>4, <1>5 DEF BreakStep

\* Where the callers of netpollGenericInit are, over every step.
LEMMA InitStep == IInv /\ [Next]_vars => InitStages'
<1> SUFFICES ASSUME IInv, [Next]_vars PROVE InitStages'
  OBVIOUS
<1> USE DEF initing
<1>1. /\ InitStages /\ [Next]_vars /\ None \notin Initer
      /\ ipc \in [Initer -> {"load", "lock", "create", "store", "unlock", "done"}]
      /\ inited \in {0, 1} /\ epfd \in BOOLEAN /\ initLock \in Initer \cup {None}
  BY HasDesc DEF IInv, TypeOK
<1>2. ASSUME NEW i \in Initer, LoadInited(i) PROVE InitStages'
  BY <1>2, <1>1 DEF InitStages, LoadInited, InitGoto
<1>3. ASSUME NEW i \in Initer, LockInit(i) PROVE InitStages'
  BY <1>3, <1>1 DEF InitStages, LockInit, InitGoto, MustInit
<1>4. ASSUME NEW i \in Initer, CreateEpoll(i) PROVE InitStages'
  BY <1>4, <1>1 DEF InitStages, CreateEpoll, InitGoto
<1>5. ASSUME NEW i \in Initer, StoreInited(i) PROVE InitStages'
  BY <1>5, <1>1 DEF InitStages, StoreInited, InitGoto
<1>6. ASSUME NEW i \in Initer, UnlockInit(i) PROVE InitStages'
  BY <1>6, <1>1 DEF InitStages, UnlockInit, InitGoto
<1>7. ASSUME NEW f \in FD, Alloc(f) PROVE InitStages'
  BY <1>7, <1>1 DEF InitStages, Alloc, OpenGoto
<1>8. ASSUME NEW f \in FD, ResetDesc(f) PROVE InitStages'
  BY <1>8, <1>1 DEF InitStages, ResetDesc, OpenGoto
<1>9. ASSUME NEW f \in FD, AddToEpoll(f) PROVE InitStages'
  BY <1>9, <1>1 DEF InitStages, AddToEpoll, OpenGoto
<1>10. ASSUME NEW f \in FD, AddFails(f) PROVE InitStages'
  BY <1>10, <1>1 DEF InitStages, AddFails, OpenGoto
<1>11. ASSUME NEW f \in FD, NEW flag \in Flag, Arrive(f, flag) PROVE InitStages'
  BY <1>11, <1>1 DEF InitStages, Arrive
<1>12. ASSUME NEW x \in Waiter, PollWait(x) PROVE InitStages'
  BY <1>12, <1>1 DEF InitStages, PollWait, WaitGoto
<1>13. ASSUME NEW x \in Waiter, SetWait(x) PROVE InitStages'
  BY <1>13, <1>1 DEF InitStages, SetWait, WaitGoto
<1>14. ASSUME NEW x \in Waiter, Consume(x) PROVE InitStages'
  BY <1>14, <1>1 DEF InitStages, Consume, WaitGoto
<1>15. ASSUME NEW x \in Waiter, Recheck(x) PROVE InitStages'
  BY <1>15, <1>1 DEF InitStages, Recheck, WaitGoto
<1>16. ASSUME NEW x \in Waiter, Commit(x) PROVE InitStages'
  BY <1>16, <1>1 DEF InitStages, Commit, WaitGoto, MayPark
<1>17. ASSUME NEW x \in Waiter, Exchange(x) PROVE InitStages'
  BY <1>17, <1>1 DEF InitStages, Exchange, WaitGoto
<1>18. ASSUME NEW x \in Waiter, Again(x) PROVE InitStages'
  BY <1>18, <1>1 DEF InitStages, Again, WaitGoto
<1>19. ASSUME NEW t \in Thread, EpollWait(t) PROVE InitStages'
  BY <1>19, <1>1 DEF InitStages, EpollWait, ThreadGoto
<1>20. ASSUME NEW t \in Thread, BreakEvent(t) PROVE InitStages'
  BY <1>20, <1>1 DEF InitStages, BreakEvent, ThreadGoto
<1>21. ASSUME NEW t \in Thread, ReadPipe(t) PROVE InitStages'
  BY <1>21, <1>1 DEF InitStages, ReadPipe, ThreadGoto
<1>22. ASSUME NEW t \in Thread, StoreWakeSig(t) PROVE InitStages'
  BY <1>22, <1>1 DEF InitStages, StoreWakeSig, ThreadGoto
<1>23. ASSUME NEW t \in Thread, NEW f \in FD, Event(t, f) PROVE InitStages'
  BY <1>23, <1>1 DEF InitStages, Event, ThreadGoto
<1>24. ASSUME NEW t \in Thread, SetErr(t) PROVE InitStages'
  BY <1>24, <1>1 DEF InitStages, SetErr, ThreadGoto
<1>25. ASSUME NEW t \in Thread, ReadyR(t) PROVE InitStages'
  BY <1>25, <1>1 DEF InitStages, ReadyR, ThreadGoto
<1>26. ASSUME NEW t \in Thread, ReadyW(t) PROVE InitStages'
  BY <1>26, <1>1 DEF InitStages, ReadyW, ThreadGoto
<1>27. ASSUME NEW t \in Thread, Return(t) PROVE InitStages'
  BY <1>27, <1>1 DEF InitStages, Return, ThreadGoto
<1>28. ASSUME NEW b \in Breaker, BreakCall(b) PROVE InitStages'
  BY <1>28, <1>1 DEF InitStages, BreakCall
<1>29. ASSUME NEW b \in Breaker, BreakCAS(b) PROVE InitStages'
  BY <1>29, <1>1 DEF InitStages, BreakCAS
<1>30. ASSUME NEW b \in Breaker, BreakWrite(b) PROVE InitStages'
  BY <1>30, <1>1 DEF InitStages, BreakWrite
<1>31. CASE UNCHANGED vars
  BY <1>31, <1>1 DEF InitStages, vars
<1> QED
  BY <1>1, <1>2, <1>3, <1>4, <1>5, <1>6, <1>7, <1>8, <1>9, <1>10, <1>11, <1>12, <1>13,
     <1>14, <1>15, <1>16, <1>17, <1>18, <1>19, <1>20, <1>21, <1>22, <1>23, <1>24, <1>25,
     <1>26, <1>27, <1>28, <1>29, <1>30, <1>31 DEF Next, GenericInit, Open, WaitStep,
     ThreadStep, BreakerStep

\* The byte in the pipe and the flag, over every step.
LEMMA AnnouncedStep == IInv /\ [Next]_vars => BreakAnnounced'
<1> SUFFICES ASSUME IInv, [Next]_vars PROVE BreakAnnounced'
  OBVIOUS
<1> USE DEF breaking, polling
<1>1. /\ BreakAnnounced /\ [Next]_vars /\ pipe \in 0 .. MaxPipe /\ wakeSig \in {0, 1}
      /\ MaxPipe \in Nat \ {0}
      /\ bpc \in [Breaker -> {"idle", "cas", "write"}]
      /\ tpc \in [Thread -> {"wait", "event", "read", "store", "everr", "r", "w"}]
      /\ BreakStep(1) = "read" /\ StepAfter("read") = "store" /\ StepAfter("store") = "event"
  BY BreakSteps, NetPollAssumption DEF IInv, TypeOK
<1>2. ASSUME NEW i \in Initer, LoadInited(i) PROVE BreakAnnounced'
  BY <1>2, <1>1 DEF BreakAnnounced, LoadInited, InitGoto
<1>3. ASSUME NEW i \in Initer, LockInit(i) PROVE BreakAnnounced'
  BY <1>3, <1>1 DEF BreakAnnounced, LockInit, InitGoto, MustInit
<1>4. ASSUME NEW i \in Initer, CreateEpoll(i) PROVE BreakAnnounced'
  BY <1>4, <1>1 DEF BreakAnnounced, CreateEpoll, InitGoto
<1>5. ASSUME NEW i \in Initer, StoreInited(i) PROVE BreakAnnounced'
  BY <1>5, <1>1 DEF BreakAnnounced, StoreInited, InitGoto
<1>6. ASSUME NEW i \in Initer, UnlockInit(i) PROVE BreakAnnounced'
  BY <1>6, <1>1 DEF BreakAnnounced, UnlockInit, InitGoto
<1>7. ASSUME NEW f \in FD, Alloc(f) PROVE BreakAnnounced'
  BY <1>7, <1>1 DEF BreakAnnounced, Alloc, OpenGoto
<1>8. ASSUME NEW f \in FD, ResetDesc(f) PROVE BreakAnnounced'
  BY <1>8, <1>1 DEF BreakAnnounced, ResetDesc, OpenGoto
<1>9. ASSUME NEW f \in FD, AddToEpoll(f) PROVE BreakAnnounced'
  BY <1>9, <1>1 DEF BreakAnnounced, AddToEpoll, OpenGoto
<1>10. ASSUME NEW f \in FD, AddFails(f) PROVE BreakAnnounced'
  BY <1>10, <1>1 DEF BreakAnnounced, AddFails, OpenGoto
<1>11. ASSUME NEW f \in FD, NEW flag \in Flag, Arrive(f, flag) PROVE BreakAnnounced'
  BY <1>11, <1>1 DEF BreakAnnounced, Arrive
<1>12. ASSUME NEW x \in Waiter, PollWait(x) PROVE BreakAnnounced'
  BY <1>12, <1>1 DEF BreakAnnounced, PollWait, WaitGoto
<1>13. ASSUME NEW x \in Waiter, SetWait(x) PROVE BreakAnnounced'
  BY <1>13, <1>1 DEF BreakAnnounced, SetWait, WaitGoto
<1>14. ASSUME NEW x \in Waiter, Consume(x) PROVE BreakAnnounced'
  BY <1>14, <1>1 DEF BreakAnnounced, Consume, WaitGoto
<1>15. ASSUME NEW x \in Waiter, Recheck(x) PROVE BreakAnnounced'
  BY <1>15, <1>1 DEF BreakAnnounced, Recheck, WaitGoto
<1>16. ASSUME NEW x \in Waiter, Commit(x) PROVE BreakAnnounced'
  BY <1>16, <1>1 DEF BreakAnnounced, Commit, WaitGoto, MayPark
<1>17. ASSUME NEW x \in Waiter, Exchange(x) PROVE BreakAnnounced'
  BY <1>17, <1>1 DEF BreakAnnounced, Exchange, WaitGoto
<1>18. ASSUME NEW x \in Waiter, Again(x) PROVE BreakAnnounced'
  BY <1>18, <1>1 DEF BreakAnnounced, Again, WaitGoto
<1>19. ASSUME NEW t \in Thread, EpollWait(t) PROVE BreakAnnounced'
  BY <1>19, <1>1 DEF BreakAnnounced, EpollWait, ThreadGoto
<1>20. ASSUME NEW t \in Thread, BreakEvent(t) PROVE BreakAnnounced'
  BY <1>20, <1>1 DEF BreakAnnounced, BreakEvent, ThreadGoto
<1>21. ASSUME NEW t \in Thread, ReadPipe(t) PROVE BreakAnnounced'
  BY <1>21, <1>1 DEF BreakAnnounced, ReadPipe, ThreadGoto
<1>22. ASSUME NEW t \in Thread, StoreWakeSig(t) PROVE BreakAnnounced'
  BY <1>22, <1>1 DEF BreakAnnounced, StoreWakeSig, ThreadGoto
<1>23. ASSUME NEW t \in Thread, NEW f \in FD, Event(t, f) PROVE BreakAnnounced'
  BY <1>23, <1>1 DEF BreakAnnounced, Event, ThreadGoto
<1>24. ASSUME NEW t \in Thread, SetErr(t) PROVE BreakAnnounced'
  BY <1>24, <1>1 DEF BreakAnnounced, SetErr, ThreadGoto
<1>25. ASSUME NEW t \in Thread, ReadyR(t) PROVE BreakAnnounced'
  BY <1>25, <1>1 DEF BreakAnnounced, ReadyR, ThreadGoto
<1>26. ASSUME NEW t \in Thread, ReadyW(t) PROVE BreakAnnounced'
  BY <1>26, <1>1 DEF BreakAnnounced, ReadyW, ThreadGoto
<1>27. ASSUME NEW t \in Thread, Return(t) PROVE BreakAnnounced'
  BY <1>27, <1>1 DEF BreakAnnounced, Return, ThreadGoto
<1>28. ASSUME NEW b \in Breaker, BreakCall(b) PROVE BreakAnnounced'
  BY <1>28, <1>1 DEF BreakAnnounced, BreakCall
<1>29. ASSUME NEW b \in Breaker, BreakCAS(b) PROVE BreakAnnounced'
  BY <1>29, <1>1 DEF BreakAnnounced, BreakCAS
<1>30. ASSUME NEW b \in Breaker, BreakWrite(b) PROVE BreakAnnounced'
  BY <1>30, <1>1 DEF BreakAnnounced, BreakWrite
<1>31. CASE UNCHANGED vars
  BY <1>31, <1>1 DEF BreakAnnounced, vars
<1> QED
  BY <1>1, <1>2, <1>3, <1>4, <1>5, <1>6, <1>7, <1>8, <1>9, <1>10, <1>11, <1>12, <1>13,
     <1>14, <1>15, <1>16, <1>17, <1>18, <1>19, <1>20, <1>21, <1>22, <1>23, <1>24, <1>25,
     <1>26, <1>27, <1>28, <1>29, <1>30, <1>31 DEF Next, GenericInit, Open, WaitStep,
     ThreadStep, BreakerStep

-----------------------------------------------------------------------------
(***************************************************************************)
(* The types.                                                              *)
(***************************************************************************)
\* Only an open descriptor's waiters wait, so its semaphores were clear before.
LEMMA ClearBefore ==
  ASSUME IInv, NEW f \in FD, opc[f] \in {"reset", "add"}
  PROVE  pdOf[f] \in PD /\ \A m \in Mode : word[pdOf[f]][m] = "nil"
<1>1. pdOf[f] \in PD
  BY HasDesc
<1>2. \A g \in FD : pdOf[g] = pdOf[f] => g = f
  BY <1>1, HasDesc DEF IInv, OwnDesc
<1> QED
  BY <1>1, <1>2 DEF IInv, Quiet

\* The cache that pollCache.alloc takes from.
Block == IF cache = <<>> THEN SetToSeq(PD) ELSE cache

\* What pollCache.alloc hands out has no owner, and the rest of the cache is whole.
LEMMA FromCache ==
  ASSUME IInv, NEW f \in FD, opc[f] = "new"
  PROVE  /\ Block \in Seq(PD) /\ Block # <<>> /\ Head(Block) \in PD /\ Tail(Block) \in Seq(PD)
         /\ NoTwice(Block) /\ \A i \in DOMAIN Block, g \in FD : Block[i] # pdOf[g]
         /\ \A d \in PD : (\E g \in FD : pdOf[g] = d) \/ (\E i \in DOMAIN Block : Block[i] = d)
<1>1. /\ OwnDesc /\ cache \in Seq(PD) /\ pdOf \in [FD -> PD \cup {None}] /\ None \notin PD
      /\ pdOf[f] = None
  BY HasDesc DEF IInv, TypeOK, OwnDesc
<1>2. PICK d \in PD : \A g \in FD : pdOf[g] # d
  BY <1>1, OneLeft DEF OwnDesc
<1>3. CASE cache # <<>>
  <2>1. Block = cache
    BY <1>3 DEF Block
  <2> QED
    BY <1>1, <1>3, <2>1, HeadTailProperties DEF OwnDesc, NoTwice
<1>4. CASE cache = <<>>
  <2>1. Block = SetToSeq(PD) /\ DOMAIN cache = {}
    BY <1>4 DEF Block
  <2>2. \A g \in FD : pdOf[g] = None
    BY <1>1, <1>2, <2>1 DEF OwnDesc
  <2>3. Block \in Seq(PD) /\ NoTwice(Block) /\ \A e \in PD : \E i \in DOMAIN Block : Block[i] = e
    BY <2>1, NewBlock
  <2>4. Block # <<>>
    BY <1>2, <2>3
  <2>5. \A i \in DOMAIN Block : Block[i] \in PD
    BY <2>3
  <2> QED
    BY <1>1, <2>2, <2>3, <2>4, <2>5, HeadTailProperties
<1> QED
  BY <1>3, <1>4

\* The types, over every step.
LEMMA TypeStep == IInv /\ [Next]_vars => TypeOK'
<1> SUFFICES ASSUME IInv, [Next]_vars PROVE TypeOK'
  OBVIOUS
<1> USE DEF initing, opening, breaking, polling
<1>1. TypeOK /\ [Next]_vars
  BY DEF IInv
<1>2. ASSUME NEW i \in Initer, LoadInited(i) PROVE TypeOK'
  BY <1>2, <1>1 DEF TypeOK, LoadInited, InitGoto
<1>3. ASSUME NEW i \in Initer, LockInit(i) PROVE TypeOK'
  BY <1>3, <1>1 DEF TypeOK, LockInit, InitGoto, MustInit
<1>4. ASSUME NEW i \in Initer, CreateEpoll(i) PROVE TypeOK'
  BY <1>4, <1>1 DEF TypeOK, CreateEpoll, InitGoto
<1>5. ASSUME NEW i \in Initer, StoreInited(i) PROVE TypeOK'
  BY <1>5, <1>1 DEF TypeOK, StoreInited, InitGoto
<1>6. ASSUME NEW i \in Initer, UnlockInit(i) PROVE TypeOK'
  BY <1>6, <1>1 DEF TypeOK, UnlockInit, InitGoto
<1>7. ASSUME NEW f \in FD, Alloc(f) PROVE TypeOK'
  <2>1. pdOf' = [pdOf EXCEPT ![f] = Head(Block)] /\ cache' = Tail(Block) /\ opc[f] = "new"
    BY <1>7 DEF Alloc, Block
  <2>2. Head(Block) \in PD /\ Tail(Block) \in Seq(PD)
    BY <2>1, FromCache
  <2>3. pdOf' \in [FD -> PD \cup {None}] /\ cache' \in Seq(PD)
    BY <1>1, <2>1, <2>2 DEF TypeOK
  <2>4. opc' \in [FD -> {"new", "reset", "add", "open"}]
    BY <1>7, <1>1 DEF TypeOK, Alloc, OpenGoto
  <2> QED
    BY <1>7, <1>1, <2>3, <2>4 DEF TypeOK, Alloc
<1>8. ASSUME NEW f \in FD, ResetDesc(f) PROVE TypeOK'
  <2>1. pdOf[f] \in PD /\ \A m \in Mode : word[pdOf[f]][m] = "nil"
    BY <1>8, ClearBefore DEF ResetDesc
  <2>2. /\ word' = [word EXCEPT ![pdOf[f]] = [m \in Mode |-> "nil"]]
        /\ everr' = [everr EXCEPT ![pdOf[f]] = FALSE] /\ opc' = [opc EXCEPT ![f] = "add"]
    BY <1>8, <2>1 DEF ResetDesc, OpenGoto
  <2>3. word' \in [PD -> [Mode -> {"nil", "ready", "wait", "G"}]]
    BY <1>1, <2>1, <2>2 DEF TypeOK
  <2> QED
    BY <1>8, <1>1, <2>2, <2>3 DEF TypeOK, ResetDesc
<1>9. ASSUME NEW f \in FD, AddToEpoll(f) PROVE TypeOK'
  <2>1. PICK now \in SUBSET (Flag \ {"err"}) : edge' = [edge EXCEPT ![f] = now]
    BY <1>9 DEF AddToEpoll
  <2> QED
    BY <1>9, <1>1, <2>1 DEF TypeOK, AddToEpoll, OpenGoto
<1>10. ASSUME NEW f \in FD, AddFails(f) PROVE TypeOK'
  <2>1. <<pdOf[f]>> \o cache \in Seq(PD)
    BY <1>10, <1>1, HasDesc DEF TypeOK, AddFails
  <2> QED
    BY <1>10, <1>1, <2>1, HasDesc DEF TypeOK, AddFails, OpenGoto
<1>11. ASSUME NEW f \in FD, NEW flag \in Flag, Arrive(f, flag) PROVE TypeOK'
  <2>1. edge' = [edge EXCEPT ![f] = edge[f] \cup {flag}]
    BY <1>11 DEF Arrive
  <2> QED
    BY <1>11, <1>1, <2>1 DEF TypeOK, Arrive
<1>12. ASSUME NEW x \in Waiter, PollWait(x) PROVE TypeOK'
  BY <1>12, <1>1 DEF TypeOK, PollWait, WaitGoto
<1>13. ASSUME NEW x \in Waiter, SetWait(x) PROVE TypeOK'
  <2>1. opc[x[1]] = "open" /\ Sem(x) \in {"nil", "ready"}
    BY <1>13, HasDesc DEF IInv, SemFits, SetWait
  <2>2. CASE Sem(x) = "ready"
    BY <1>13, <1>1, <2>2 DEF TypeOK, SetWait, WaitGoto
  <2>3. CASE Sem(x) = "nil"
    <3>1. SetSem(x, "wait") /\ wpc' = [wpc EXCEPT ![x] = "recheck"]
      BY <1>13, <2>3 DEF SetWait, WaitGoto
    <3>2. Frozen'
      BY <1>13, <2>1, <3>1, SetSemIs
    <3> QED
      BY <1>13, <1>1, <3>1, <3>2 DEF TypeOK, SetWait, Frozen
  <2> QED
    BY <2>1, <2>2, <2>3
<1>14. ASSUME NEW x \in Waiter, Consume(x) PROVE TypeOK'
  <2>1. Frozen'
    BY <1>14, HasDesc, SetSemIs DEF Consume
  <2> QED
    BY <1>14, <1>1, <2>1 DEF TypeOK, Consume, WaitGoto, Frozen
<1>15. ASSUME NEW x \in Waiter, Recheck(x) PROVE TypeOK'
  BY <1>15, <1>1 DEF TypeOK, Recheck, WaitGoto
<1>16. ASSUME NEW x \in Waiter, Commit(x) PROVE TypeOK'
  <2>1. CASE MayPark(x)
    <3>1. Frozen'
      BY <1>16, <2>1, HasDesc, SetSemIs DEF Commit
    <3> QED
      BY <1>16, <1>1, <2>1, <3>1 DEF TypeOK, Commit, WaitGoto, Frozen
  <2>2. CASE ~MayPark(x)
    BY <1>16, <1>1, <2>2 DEF TypeOK, Commit, WaitGoto
  <2> QED
    BY <2>1, <2>2
<1>17. ASSUME NEW x \in Waiter, Exchange(x) PROVE TypeOK'
  <2>1. Frozen' /\ Sem(x) # "G"
    BY <1>17, HasDesc, SetSemIs DEF Exchange, IInv, SemFits
  <2> QED
    BY <1>17, <1>1, <2>1 DEF TypeOK, Exchange, WaitGoto, Frozen
<1>18. ASSUME NEW x \in Waiter, Again(x) PROVE TypeOK'
  BY <1>18, <1>1 DEF TypeOK, Again, WaitGoto
<1>19. ASSUME NEW t \in Thread, EpollWait(t) PROVE TypeOK'
  <2>1. evs' = [evs EXCEPT ![t] = edge] /\ edge' = [f \in FD |-> {}]
        /\ brk' = [brk EXCEPT ![t] = pipe > 0] /\ (pipe > 0) \in BOOLEAN
    BY <1>19 DEF EpollWait, NoFlags
  <2> QED
    BY <1>19, <1>1, <2>1 DEF TypeOK, EpollWait, ThreadGoto
<1>20. ASSUME NEW t \in Thread, BreakEvent(t) PROVE TypeOK'
  BY <1>20, <1>1, BreakSteps, NetPollAssumption DEF TypeOK, BreakEvent, ThreadGoto
<1>21. ASSUME NEW t \in Thread, ReadPipe(t) PROVE TypeOK'
  BY <1>21, <1>1, BreakSteps, NetPollAssumption DEF TypeOK, ReadPipe, ThreadGoto
<1>22. ASSUME NEW t \in Thread, StoreWakeSig(t) PROVE TypeOK'
  BY <1>22, <1>1, BreakSteps, NetPollAssumption DEF TypeOK, StoreWakeSig, ThreadGoto
<1>23. ASSUME NEW t \in Thread, NEW f \in FD, Event(t, f) PROVE TypeOK'
  BY <1>23, <1>1 DEF TypeOK, Event, ThreadGoto
<1>24. ASSUME NEW t \in Thread, SetErr(t) PROVE TypeOK'
  BY <1>24, <1>1 DEF TypeOK, SetErr, ThreadGoto
<1>25. ASSUME NEW t \in Thread, ReadyR(t) PROVE TypeOK'
  <2>1. /\ word' \in [PD -> [Mode -> {"nil", "ready", "wait", "G"}]]
        /\ toRun' \in [Thread -> SUBSET Waiter]
    <3>1. CASE "r" \in Mode \cap ModeOf(evs[t][cur[t]])
      <4>1. cur[t] \in FD /\ opc[cur[t]] = "open" /\ <<cur[t], "r">> \in Waiter
        BY <1>25, <3>1, HasDesc DEF ReadyR, Waiter
      <4>2. /\ SetSem(<<cur[t], "r">>, "ready")
            /\ toRun' = [toRun EXCEPT ![t] = IF Sem(<<cur[t], "r">>) = "G"
                                                THEN toRun[t] \cup {<<cur[t], "r">>}
                                                ELSE toRun[t]]
        BY <1>25, <3>1 DEF ReadyR, Unblock, NewSem
      <4>3. Frozen'
        BY <4>1, <4>2, SetSemIs
      <4> QED
        BY <1>1, <4>1, <4>2, <4>3 DEF Frozen, TypeOK
    <3>2. CASE "r" \notin Mode \cap ModeOf(evs[t][cur[t]])
      BY <1>25, <1>1, <3>2 DEF ReadyR, Unblock, TypeOK
    <3> QED
      BY <3>1, <3>2
  <2> QED
    BY <1>25, <1>1, <2>1 DEF TypeOK, ReadyR, ThreadGoto
<1>26. ASSUME NEW t \in Thread, ReadyW(t) PROVE TypeOK'
  <2>0. /\ evs' = [evs EXCEPT ![t] = [evs[t] EXCEPT ![cur[t]] = {}]]
        /\ evs' \in [Thread -> [FD -> SUBSET Flag]]
    BY <1>26, <1>1 DEF ReadyW, TypeOK
  <2>1. /\ word' \in [PD -> [Mode -> {"nil", "ready", "wait", "G"}]]
        /\ toRun' \in [Thread -> SUBSET Waiter]
    <3>1. CASE "w" \in Mode \cap ModeOf(evs[t][cur[t]])
      <4>1. cur[t] \in FD /\ opc[cur[t]] = "open" /\ <<cur[t], "w">> \in Waiter
        BY <1>26, <3>1, HasDesc DEF ReadyW, Waiter
      <4>2. /\ SetSem(<<cur[t], "w">>, "ready")
            /\ toRun' = [toRun EXCEPT ![t] = IF Sem(<<cur[t], "w">>) = "G"
                                                THEN toRun[t] \cup {<<cur[t], "w">>}
                                                ELSE toRun[t]]
        BY <1>26, <3>1 DEF ReadyW, Unblock, NewSem
      <4>3. Frozen'
        BY <4>1, <4>2, SetSemIs
      <4> QED
        BY <1>1, <4>1, <4>2, <4>3 DEF Frozen, TypeOK
    <3>2. CASE "w" \notin Mode \cap ModeOf(evs[t][cur[t]])
      BY <1>26, <1>1, <3>2 DEF ReadyW, Unblock, TypeOK
    <3> QED
      BY <3>1, <3>2
  <2> QED
    BY <1>26, <1>1, <2>1, <2>0 DEF TypeOK, ReadyW, ThreadGoto
<1>27. ASSUME NEW t \in Thread, Return(t) PROVE TypeOK'
  BY <1>27, <1>1 DEF TypeOK, Return, ThreadGoto
<1>28. ASSUME NEW b \in Breaker, BreakCall(b) PROVE TypeOK'
  BY <1>28, <1>1 DEF TypeOK, BreakCall
<1>29. ASSUME NEW b \in Breaker, BreakCAS(b) PROVE TypeOK'
  BY <1>29, <1>1 DEF TypeOK, BreakCAS
<1>30. ASSUME NEW b \in Breaker, BreakWrite(b) PROVE TypeOK'
  <2>1. pipe' \in 0 .. MaxPipe
    BY <1>30, <1>1, NetPollAssumption DEF TypeOK, BreakWrite
  <2> QED
    BY <1>30, <1>1, <2>1 DEF TypeOK, BreakWrite
<1>31. CASE UNCHANGED vars
  BY <1>31, <1>1 DEF TypeOK, vars
<1> QED
  BY <1>1, <1>2, <1>3, <1>4, <1>5, <1>6, <1>7, <1>8, <1>9, <1>10, <1>11, <1>12, <1>13,
     <1>14, <1>15, <1>16, <1>17, <1>18, <1>19, <1>20, <1>21, <1>22, <1>23, <1>24, <1>25,
     <1>26, <1>27, <1>28, <1>29, <1>30, <1>31 DEF Next, GenericInit, Open, WaitStep,
     ThreadStep, BreakerStep

-----------------------------------------------------------------------------
(***************************************************************************)
(* Who owns which pollDesc.                                                *)
(***************************************************************************)
\* Only the opening of a descriptor moves pollDescs.
LEMMA OpeningSteps == [Next]_vars => (\E f \in FD : Open(f)) \/ UNCHANGED opening
<1> QED
  BY Zenon DEF Next, GenericInit, WaitStep, ThreadStep, BreakerStep,
     LoadInited, LockInit, CreateEpoll,
     StoreInited, UnlockInit, Arrive, PollWait, SetWait, Consume, Recheck, Commit, Exchange,
     Again, EpollWait, BreakEvent, ReadPipe, StoreWakeSig, Event, SetErr, ReadyR, ReadyW,
     Return, BreakCall, BreakCAS, BreakWrite, vars

\* netpollopen has failed: the pollDesc goes back to the front of the cache.
LEMMA Prepended ==
  ASSUME NEW s \in Seq(PD), NEW d \in PD, NoTwice(s), \A i \in DOMAIN s : s[i] # d,
         NEW r, DOMAIN r = 1 .. Len(s) + 1, r[1] = d, \A i \in 2 .. Len(s) + 1 : r[i] = s[i - 1]
  PROVE  /\ \A i \in DOMAIN r : r[i] = d \/ \E j \in DOMAIN s : r[i] = s[j]
         /\ \E i \in DOMAIN r : r[i] = d
         /\ \A j \in DOMAIN s : \E i \in DOMAIN r : r[i] = s[j]
         /\ NoTwice(r)
<1> DEFINE n == Len(s)
<1>1. /\ DOMAIN s = 1 .. n /\ n \in Nat /\ DOMAIN r = 1 .. n + 1 /\ r[1] = d
      /\ \A i \in 2 .. n + 1 : r[i] = s[i - 1]
  OBVIOUS
<1> HIDE DEF n
<1>2. \A i \in 2 .. n + 1 : i - 1 \in 1 .. n
  BY <1>1
<1>3. \A i \in DOMAIN r : i = 1 \/ i \in 2 .. n + 1
  BY <1>1
<1>4. \A j \in 1 .. n : j + 1 \in 2 .. n + 1 /\ (j + 1) - 1 = j
  BY <1>1
<1>5. \A j \in 1 .. n : j + 1 \in DOMAIN r /\ r[j + 1] = s[j]
  BY <1>1, <1>4
<1>6. \A i \in 2 .. n + 1 : r[i] # d
  BY <1>1, <1>2
<1>7. \A i, j \in 2 .. n + 1 : r[i] = r[j] => i = j
  <2> SUFFICES ASSUME NEW i \in 2 .. n + 1, NEW j \in 2 .. n + 1, r[i] = r[j] PROVE i = j
    OBVIOUS
  <2>1. s[i - 1] = s[j - 1]
    BY <1>1
  <2>2. i - 1 = j - 1
    BY <1>1, <1>2, <2>1 DEF NoTwice
  <2> QED
    BY <1>1, <2>2
<1>8. NoTwice(r)
  BY <1>1, <1>3, <1>6, <1>7 DEF NoTwice
<1> QED
  <2>1. \A i \in DOMAIN r : r[i] = d \/ \E j \in DOMAIN s : r[i] = s[j]
    BY <1>1, <1>2, <1>3
  <2>2. 1 \in DOMAIN r
    BY <1>1
  <2> QED
    BY <1>1, <1>5, <1>8, <2>1, <2>2

\* Nobody shares a pollDesc, and none is lost.
LEMMA DescStep == IInv /\ [Next]_vars => OwnDesc'
<1> SUFFICES ASSUME IInv, [Next]_vars PROVE OwnDesc'
  OBVIOUS
<1>1. /\ OwnDesc /\ cache \in Seq(PD) /\ pdOf \in [FD -> PD \cup {None}] /\ None \notin PD
      /\ opc \in [FD -> {"new", "reset", "add", "open"}]
  BY HasDesc DEF IInv, TypeOK
<1>2. ASSUME NEW f \in FD, Alloc(f) PROVE OwnDesc'
  <2>1. /\ pdOf' = [pdOf EXCEPT ![f] = Head(Block)] /\ cache' = Tail(Block)
        /\ opc[f] = "new" /\ opc' = [opc EXCEPT ![f] = "reset"]
    BY <1>2 DEF Alloc, Block, OpenGoto
  <2>2. /\ Block \in Seq(PD) /\ Block # <<>>
        /\ NoTwice(Block) /\ \A i \in DOMAIN Block, g \in FD : Block[i] # pdOf[g]
        /\ \A d \in PD : (\E g \in FD : pdOf[g] = d) \/ (\E i \in DOMAIN Block : Block[i] = d)
    BY <2>1, FromCache
  <2>3. /\ DOMAIN Block = 1 .. Len(Block) /\ Len(Block) \in Nat /\ Len(Block) >= 1
        /\ Head(Block) = Block[1] /\ Block[1] \in PD
        /\ DOMAIN cache' = 1 .. Len(Block) - 1
        /\ \A i \in DOMAIN cache' : cache'[i] = Block[i + 1]
    BY <2>1, <2>2
  <2> DEFINE n == Len(Block)
             s == Block
  <2>4. /\ DOMAIN s = 1 .. n /\ n \in Nat /\ n >= 1 /\ s[1] \in PD
        /\ DOMAIN cache' = 1 .. n - 1 /\ \A i \in DOMAIN cache' : cache'[i] = s[i + 1]
        /\ pdOf' = [pdOf EXCEPT ![f] = s[1]]
        /\ \A i, j \in DOMAIN s : s[i] = s[j] => i = j
        /\ \A i \in DOMAIN s, g \in FD : s[i] # pdOf[g]
        /\ \A d \in PD : (\E g \in FD : pdOf[g] = d) \/ (\E i \in DOMAIN s : s[i] = d)
    BY <2>1, <2>2, <2>3 DEF NoTwice
  <2> HIDE DEF n, s
  <2>5. pdOf[f] = None
    BY <1>1, <2>1 DEF OwnDesc
  <2>6. (\A g \in FD : pdOf'[g] = None <=> opc'[g] = "new")
        /\ \A g, h \in FD : pdOf'[g] = pdOf'[h] /\ pdOf'[g] # None => g = h
    BY <1>1, <2>1, <2>4, <2>5 DEF OwnDesc
  <2>7. \A i, j \in DOMAIN cache' : cache'[i] = cache'[j] => i = j
    BY <2>4
  <2>8. \A i \in DOMAIN cache', g \in FD : cache'[i] # pdOf'[g]
    BY <1>1, <2>4
  <2>9. \A d \in PD : (\E g \in FD : pdOf'[g] = d) \/ (\E i \in DOMAIN cache' : cache'[i] = d)
    <3> TAKE d \in PD
    <3>1. CASE \E g \in FD : pdOf[g] = d
      BY <1>1, <2>4, <2>5, <3>1
    <3>2. ASSUME NEW i \in DOMAIN s, s[i] = d
          PROVE  d = s[1] \/ \E j \in DOMAIN cache' : cache'[j] = d
      <4>1. CASE i = 1
        BY <3>2, <4>1
      <4>2. CASE i # 1
        <5>1. i - 1 \in DOMAIN cache' /\ (i - 1) + 1 = i
          BY <2>4, <4>2
        <5> QED
          BY <2>4, <3>2, <5>1
      <4> QED
        BY <4>1, <4>2
    <3> QED
      BY <1>1, <2>4, <3>1, <3>2
  <2> QED
    BY <2>6, <2>7, <2>8, <2>9 DEF OwnDesc
<1>3. ASSUME NEW f \in FD, ResetDesc(f) PROVE OwnDesc'
  <2>1. \A m \in Mode : word[pdOf[f]][m] = "nil"
    BY <1>3, ClearBefore DEF ResetDesc
  <2>2. opc[f] = "reset" /\ opc' = [opc EXCEPT ![f] = "add"] /\ UNCHANGED <<cache, pdOf>>
    BY <1>3, <2>1 DEF ResetDesc, OpenGoto
  <2> QED
    BY <1>1, <2>2 DEF OwnDesc
<1>4. ASSUME NEW f \in FD, AddToEpoll(f) PROVE OwnDesc'
  BY <1>1, <1>4 DEF OwnDesc, AddToEpoll, OpenGoto
<1>5. ASSUME NEW f \in FD, AddFails(f) PROVE OwnDesc'
  <2>1. /\ pdOf' = [pdOf EXCEPT ![f] = None] /\ cache' = <<pdOf[f]>> \o cache
        /\ opc[f] = "add" /\ opc' = [opc EXCEPT ![f] = "new"] /\ pdOf[f] \in PD
    BY <1>5, HasDesc DEF AddFails, OpenGoto
  <2>2. \A i \in DOMAIN cache : cache[i] # pdOf[f] /\ cache[i] \in PD
    BY <1>1 DEF OwnDesc
  <2>3. /\ \A i \in DOMAIN cache' : cache'[i] = pdOf[f] \/ \E j \in DOMAIN cache : cache'[i] = cache[j]
        /\ \E i \in DOMAIN cache' : cache'[i] = pdOf[f]
        /\ \A j \in DOMAIN cache : \E i \in DOMAIN cache' : cache'[i] = cache[j]
        /\ NoTwice(cache')
    <3> DEFINE s == cache
               r == cache'
               d == pdOf[f]
    <3>1. s \in Seq(PD) /\ d \in PD /\ NoTwice(s) /\ (\A i \in DOMAIN s : s[i] # d) 
      BY <1>1, <2>1, <2>2 DEF OwnDesc, NoTwice
    <3>2. DOMAIN r = 1 .. Len(s) + 1 /\ r[1] = d /\ \A i \in 2 .. Len(s) + 1 : r[i] = s[i - 1]
      BY <1>1, <2>1
    <3> HIDE DEF s, r, d
    <3>3. /\ \A i \in DOMAIN r : r[i] = d \/ \E j \in DOMAIN s : r[i] = s[j]
          /\ \E i \in DOMAIN r : r[i] = d
          /\ \A j \in DOMAIN s : \E i \in DOMAIN r : r[i] = s[j]
          /\ NoTwice(r)
      BY <3>1, <3>2, Prepended
    <3> QED
      BY <3>3 DEF s, r, d
  <2>4. (\A g \in FD : pdOf'[g] = None <=> opc'[g] = "new")
        /\ \A g, h \in FD : pdOf'[g] = pdOf'[h] /\ pdOf'[g] # None => g = h
    BY <1>1, <2>1 DEF OwnDesc
  <2>5. \A i, j \in DOMAIN cache' : cache'[i] = cache'[j] => i = j
    BY <2>3 DEF NoTwice
  <2>6. \A i \in DOMAIN cache', g \in FD : cache'[i] # pdOf'[g]
    <3>1. \A g \in FD : pdOf'[g] = None \/ (g # f /\ pdOf'[g] = pdOf[g])
      BY <1>1, <2>1
    <3> QED
      BY <1>1, <2>1, <2>2, <2>3, <3>1 DEF OwnDesc
  <2>7. \A d \in PD : (\E g \in FD : pdOf'[g] = d) \/ (\E i \in DOMAIN cache' : cache'[i] = d)
    <3> TAKE d \in PD
    <3>1. (\E g \in FD : pdOf[g] = d) \/ (\E i \in DOMAIN cache : cache[i] = d)
      BY <1>1, <2>1 DEF OwnDesc
    <3>2. CASE \E g \in FD : pdOf[g] = d
      BY <1>1, <2>1, <2>3, <3>2
    <3>3. CASE \E i \in DOMAIN cache : cache[i] = d
      BY <2>3, <3>3
    <3> QED
      BY <3>1, <3>2, <3>3
  <2> QED
    BY <2>4, <2>5, <2>6, <2>7 DEF OwnDesc
<1>6. CASE UNCHANGED opening
  BY <1>1, <1>6 DEF OwnDesc, opening
<1> QED
  BY <1>2, <1>3, <1>4, <1>5, <1>6, OpeningSteps DEF Open


-----------------------------------------------------------------------------
(***************************************************************************)
(* A descriptor that is not open is quiet.                                 *)
(***************************************************************************)
\* No news, no waiter and no notification before a descriptor is open.
LEMMA QuietStep == IInv /\ [Next]_vars => Quiet'
<1> SUFFICES ASSUME IInv, [Next]_vars PROVE Quiet'
  OBVIOUS
<1> USE DEF initing, opening, breaking, polling
<1>1. /\ Quiet /\ [Next]_vars /\ None \notin PD /\ pdOf \in [FD -> PD \cup {None}]
      /\ opc \in [FD -> {"new", "reset", "add", "open"}]
      /\ edge \in [FD -> SUBSET Flag] /\ evs \in [Thread -> [FD -> SUBSET Flag]]
      /\ cur \in [Thread -> FD \cup {None}]
      /\ wpc \in [Waiter -> {"idle", "load", "consume", "recheck", "commit", "parked",
                             "xchg", "again"}]
      /\ tpc \in [Thread -> {"wait", "event", "read", "store", "everr", "r", "w"}]
      /\ \A x \in Waiter : x[1] \in FD /\ x[2] \in Mode
  BY HasDesc DEF IInv, TypeOK
<1>2. ASSUME NEW i \in Initer, LoadInited(i) PROVE Quiet'
  BY <1>2, <1>1 DEF Quiet, LoadInited, InitGoto
<1>3. ASSUME NEW i \in Initer, LockInit(i) PROVE Quiet'
  BY <1>3, <1>1 DEF Quiet, LockInit, InitGoto, MustInit
<1>4. ASSUME NEW i \in Initer, CreateEpoll(i) PROVE Quiet'
  BY <1>4, <1>1 DEF Quiet, CreateEpoll, InitGoto
<1>5. ASSUME NEW i \in Initer, StoreInited(i) PROVE Quiet'
  BY <1>5, <1>1 DEF Quiet, StoreInited, InitGoto
<1>6. ASSUME NEW i \in Initer, UnlockInit(i) PROVE Quiet'
  BY <1>6, <1>1 DEF Quiet, UnlockInit, InitGoto
<1>7. ASSUME NEW f \in FD, Alloc(f) PROVE Quiet'
  <2>1. opc[f] = "new" /\ pdOf[f] = None
    BY <1>7 DEF Alloc, IInv, OwnDesc
  <2>2. \A g \in FD : g # f => pdOf'[g] = pdOf[g] /\ opc'[g] = opc[g]
    BY <1>7, <1>1 DEF Alloc, OpenGoto
  <2>3. \A g \in FD : opc'[g] # "open" => opc[g] # "open"
    BY <1>7, <1>1, <2>1 DEF Alloc, OpenGoto
  <2>4. \A g \in FD, d \in PD : pdOf[g] = d /\ opc[g] = "open" => pdOf'[g] = d /\ opc'[g] = "open"
    BY <1>1, <2>1, <2>2
  <2> QED
    BY <1>7, <1>1, <2>3, <2>4 DEF Quiet, Alloc
<1>8. ASSUME NEW f \in FD, ResetDesc(f) PROVE Quiet'
  <2>1. pdOf[f] \in PD /\ \A m \in Mode : word[pdOf[f]][m] = "nil"
    BY <1>8, ClearBefore DEF ResetDesc
  <2>2. /\ word' = [word EXCEPT ![pdOf[f]] = [m \in Mode |-> "nil"]]
        /\ opc' = [opc EXCEPT ![f] = "add"]
    BY <1>8, <2>1 DEF ResetDesc, OpenGoto
  <2>3. \A d \in PD, m \in Mode : word'[d][m] = word[d][m]
    BY <2>1, <2>2 DEF IInv, TypeOK
  <2>4. \A g \in FD : opc'[g] = "open" <=> opc[g] = "open"
    BY <1>8, <1>1, <2>2 DEF ResetDesc
  <2> QED
    BY <1>8, <1>1, <2>3, <2>4 DEF Quiet, ResetDesc
<1>9. ASSUME NEW f \in FD, AddToEpoll(f) PROVE Quiet'
  <2>1. \A g \in FD : g # f => edge'[g] = edge[g]
    BY <1>9, <1>1 DEF AddToEpoll
  <2> QED
    BY <1>9, <1>1, <2>1 DEF Quiet, AddToEpoll, OpenGoto
<1>10. ASSUME NEW f \in FD, AddFails(f) PROVE Quiet'
  <2>1. \A g \in FD, d \in PD : pdOf[g] = d /\ opc[g] = "open" => pdOf'[g] = d /\ opc'[g] = "open"
    BY <1>10, <1>1 DEF AddFails, OpenGoto
  <2>2. \A g \in FD : opc'[g] # "open" => opc[g] # "open"
    BY <1>10, <1>1 DEF AddFails, OpenGoto
  <2> QED
    BY <1>10, <1>1, <2>1, <2>2 DEF Quiet, AddFails
<1>11. ASSUME NEW f \in FD, NEW flag \in Flag, Arrive(f, flag) PROVE Quiet'
  BY <1>11, <1>1 DEF Quiet, Arrive
<1>12. ASSUME NEW x \in Waiter, PollWait(x) PROVE Quiet'
  BY <1>12, <1>1 DEF Quiet, PollWait, WaitGoto
<1>13. ASSUME NEW x \in Waiter, SetWait(x) PROVE Quiet'
  <2>1. opc[x[1]] = "open" /\ pdOf[x[1]] \in PD
    BY <1>13, HasDesc DEF SetWait
  <2>2. \A d \in PD, m \in Mode : d # pdOf[x[1]] => word'[d][m] = word[d][m]
    <3>1. CASE Sem(x) = "nil"
      BY <1>13, <2>1, <3>1, SetSemIs DEF SetWait
    <3>2. CASE Sem(x) # "nil"
      BY <1>13, <3>2 DEF SetWait
    <3> QED
      BY <3>1, <3>2
  <2>3. \A d \in PD, m \in Mode : word'[d][m] # "nil" =>
          \E f \in FD : pdOf[f] = d /\ opc[f] = "open"
    BY <1>1, <2>1, <2>2 DEF Quiet
  <2>4. \A y \in Waiter : opc[y[1]] # "open" => wpc'[y] = "idle"
    BY <1>13, <1>1, <2>1 DEF Quiet, SetWait, WaitGoto
  <2> QED
    BY <1>13, <1>1, <2>3, <2>4 DEF Quiet, SetWait
<1>14. ASSUME NEW x \in Waiter, Consume(x) PROVE Quiet'
  <2>1. opc[x[1]] = "open" /\ pdOf[x[1]] \in PD
    BY <1>14, HasDesc DEF Consume
  <2>2. \A d \in PD, m \in Mode : d # pdOf[x[1]] => word'[d][m] = word[d][m]
    BY <1>14, <2>1, SetSemIs DEF Consume
  <2>3. \A d \in PD, m \in Mode : word'[d][m] # "nil" =>
          \E f \in FD : pdOf[f] = d /\ opc[f] = "open"
    BY <1>1, <2>1, <2>2 DEF Quiet
  <2>4. \A y \in Waiter : opc[y[1]] # "open" => wpc'[y] = "idle"
    BY <1>14, <1>1, <2>1 DEF Quiet, Consume, WaitGoto
  <2> QED
    BY <1>14, <1>1, <2>3, <2>4 DEF Quiet, Consume
<1>15. ASSUME NEW x \in Waiter, Recheck(x) PROVE Quiet'
  <2>1. opc[x[1]] = "open"
    BY <1>15, HasDesc DEF Recheck
  <2> QED
    BY <1>15, <1>1, <2>1 DEF Quiet, Recheck, WaitGoto
<1>16. ASSUME NEW x \in Waiter, Commit(x) PROVE Quiet'
  <2>1. opc[x[1]] = "open" /\ pdOf[x[1]] \in PD
    BY <1>16, HasDesc DEF Commit
  <2>2. \A d \in PD, m \in Mode : d # pdOf[x[1]] => word'[d][m] = word[d][m]
    <3>1. CASE MayPark(x)
      BY <1>16, <2>1, <3>1, SetSemIs DEF Commit
    <3>2. CASE ~MayPark(x)
      BY <1>16, <3>2 DEF Commit
    <3> QED
      BY <3>1, <3>2
  <2>3. \A d \in PD, m \in Mode : word'[d][m] # "nil" =>
          \E f \in FD : pdOf[f] = d /\ opc[f] = "open"
    BY <1>1, <2>1, <2>2 DEF Quiet
  <2>4. \A y \in Waiter : opc[y[1]] # "open" => wpc'[y] = "idle"
    BY <1>16, <1>1, <2>1 DEF Quiet, Commit, WaitGoto, MayPark
  <2> QED
    BY <1>16, <1>1, <2>3, <2>4 DEF Quiet, Commit
<1>17. ASSUME NEW x \in Waiter, Exchange(x) PROVE Quiet'
  <2>1. opc[x[1]] = "open" /\ pdOf[x[1]] \in PD
    BY <1>17, HasDesc DEF Exchange
  <2>2. \A d \in PD, m \in Mode : d # pdOf[x[1]] => word'[d][m] = word[d][m]
    BY <1>17, <2>1, SetSemIs DEF Exchange
  <2>3. \A d \in PD, m \in Mode : word'[d][m] # "nil" =>
          \E f \in FD : pdOf[f] = d /\ opc[f] = "open"
    BY <1>1, <2>1, <2>2 DEF Quiet
  <2>4. \A y \in Waiter : opc[y[1]] # "open" => wpc'[y] = "idle"
    BY <1>17, <1>1, <2>1 DEF Quiet, Exchange, WaitGoto
  <2> QED
    BY <1>17, <1>1, <2>3, <2>4 DEF Quiet, Exchange
<1>18. ASSUME NEW x \in Waiter, Again(x) PROVE Quiet'
  <2>1. opc[x[1]] = "open"
    BY <1>18, HasDesc DEF Again
  <2> QED
    BY <1>18, <1>1, <2>1 DEF Quiet, Again, WaitGoto
<1>19. ASSUME NEW t \in Thread, EpollWait(t) PROVE Quiet'
  <2>1. evs' = [evs EXCEPT ![t] = edge] /\ edge' = [f \in FD |-> {}] /\ tpc' = [tpc EXCEPT ![t] = "event"]
    BY <1>19 DEF EpollWait, NoFlags, ThreadGoto
  <2> QED
    BY <1>19, <1>1, <2>1 DEF Quiet, EpollWait
<1>20. ASSUME NEW t \in Thread, BreakEvent(t) PROVE Quiet'
  BY <1>20, <1>1, BreakSteps DEF Quiet, BreakEvent, ThreadGoto
<1>21. ASSUME NEW t \in Thread, ReadPipe(t) PROVE Quiet'
  BY <1>21, <1>1, BreakSteps DEF Quiet, ReadPipe, ThreadGoto
<1>22. ASSUME NEW t \in Thread, StoreWakeSig(t) PROVE Quiet'
  BY <1>22, <1>1, BreakSteps DEF Quiet, StoreWakeSig, ThreadGoto
<1>23. ASSUME NEW t \in Thread, NEW f \in FD, Event(t, f) PROVE Quiet'
  BY <1>23, <1>1 DEF Quiet, Event, ThreadGoto
<1>24. ASSUME NEW t \in Thread, SetErr(t) PROVE Quiet'
  BY <1>24, <1>1 DEF Quiet, SetErr, ThreadGoto
<1>25. ASSUME NEW t \in Thread, ReadyR(t) PROVE Quiet'
  <2>1. /\ cur[t] \in FD /\ evs[t][cur[t]] # {} /\ opc[cur[t]] = "open" /\ pdOf[cur[t]] \in PD
    BY <1>25, HasDesc DEF ReadyR
  <2>2. \A d \in PD, m \in Mode : d # pdOf[cur[t]] => word'[d][m] = word[d][m]
    <3>1. CASE "r" \in Mode \cap ModeOf(evs[t][cur[t]])
      <4>1. <<cur[t], "r">> \in Waiter
        BY <2>1, <3>1 DEF Waiter
      <4>2. SetSem(<<cur[t], "r">>, "ready")
        BY <1>25, <3>1 DEF ReadyR, Unblock, NewSem
      <4> QED
        BY <2>1, <4>1, <4>2, SetSemIs
    <3>2. CASE "r" \notin Mode \cap ModeOf(evs[t][cur[t]])
      BY <1>25, <3>2 DEF ReadyR, Unblock
    <3> QED
      BY <3>1, <3>2
  <2>3. \A d \in PD, m \in Mode : word'[d][m] # "nil" =>
          \E f \in FD : pdOf[f] = d /\ opc[f] = "open"
    BY <1>1, <2>1, <2>2 DEF Quiet
  <2> QED
    BY <1>25, <1>1, <2>1, <2>3 DEF Quiet, ReadyR, ThreadGoto
<1>26. ASSUME NEW t \in Thread, ReadyW(t) PROVE Quiet'
  <2>1. /\ cur[t] \in FD /\ evs[t][cur[t]] # {} /\ opc[cur[t]] = "open" /\ pdOf[cur[t]] \in PD
    BY <1>26, HasDesc DEF ReadyW
  <2>2. \A d \in PD, m \in Mode : d # pdOf[cur[t]] => word'[d][m] = word[d][m]
    <3>1. CASE "w" \in Mode \cap ModeOf(evs[t][cur[t]])
      <4>1. <<cur[t], "w">> \in Waiter
        BY <2>1, <3>1 DEF Waiter
      <4>2. SetSem(<<cur[t], "w">>, "ready")
        BY <1>26, <3>1 DEF ReadyW, Unblock, NewSem
      <4> QED
        BY <2>1, <4>1, <4>2, SetSemIs
    <3>2. CASE "w" \notin Mode \cap ModeOf(evs[t][cur[t]])
      BY <1>26, <3>2 DEF ReadyW, Unblock
    <3> QED
      BY <3>1, <3>2
  <2>3. \A d \in PD, m \in Mode : word'[d][m] # "nil" =>
          \E f \in FD : pdOf[f] = d /\ opc[f] = "open"
    BY <1>1, <2>1, <2>2 DEF Quiet
  <2>4. evs' = [evs EXCEPT ![t] = [evs[t] EXCEPT ![cur[t]] = {}]]
    BY <1>26, <1>1 DEF ReadyW
  <2>5. \A s \in Thread, f \in FD : evs[s][f] = {} => evs'[s][f] = {}
    BY <1>1, <2>1, <2>4
  <2>6. \A s \in Thread : s # t => evs'[s] = evs[s] /\ cur'[s] = cur[s]
    BY <1>26, <1>1, <2>4 DEF ReadyW
  <2>7. \A s \in Thread : tpc'[s] = IF s = t THEN "event" ELSE tpc[s]
    BY <1>26, <1>1 DEF ReadyW, ThreadGoto
  <2>8. \A s \in Thread : tpc'[s] \in {"everr", "r", "w"} => cur'[s] \in FD /\ evs'[s][cur'[s]] # {}
    BY <1>1, <2>6, <2>7 DEF Quiet
  <2> QED
    BY <1>26, <1>1, <2>5, <2>8, <2>3 DEF Quiet, ReadyW
<1>27. ASSUME NEW t \in Thread, Return(t) PROVE Quiet'
  <2>1. \A x \in Waiter : x \in toRun[t] => opc[x[1]] = "open"
    BY HasDesc DEF IInv, ListsRight, TypeOK
  <2> QED
    BY <1>27, <1>1, <2>1 DEF Quiet, Return, ThreadGoto
<1>28. ASSUME NEW b \in Breaker, BreakCall(b) PROVE Quiet'
  BY <1>28, <1>1 DEF Quiet, BreakCall
<1>29. ASSUME NEW b \in Breaker, BreakCAS(b) PROVE Quiet'
  BY <1>29, <1>1 DEF Quiet, BreakCAS
<1>30. ASSUME NEW b \in Breaker, BreakWrite(b) PROVE Quiet'
  BY <1>30, <1>1 DEF Quiet, BreakWrite
<1>31. CASE UNCHANGED vars
  BY <1>31, <1>1 DEF Quiet, vars
<1> QED
  BY <1>1, <1>2, <1>3, <1>4, <1>5, <1>6, <1>7, <1>8, <1>9, <1>10, <1>11, <1>12, <1>13,
     <1>14, <1>15, <1>16, <1>17, <1>18, <1>19, <1>20, <1>21, <1>22, <1>23, <1>24, <1>25,
     <1>26, <1>27, <1>28, <1>29, <1>30, <1>31 DEF Next, GenericInit, Open, WaitStep,
     ThreadStep, BreakerStep

-----------------------------------------------------------------------------
(***************************************************************************)
(* The semaphores of the waiters, and the lists of those to be woken.      *)
(***************************************************************************)
\* All that the semaphores' view of the poller depends on.
SemView == <<opening, word, wpc, toRun>>

\* The steps that touch a semaphore, a waiter or a list.
LEMMA SemSteps ==
  [Next]_vars =>
    \/ (\E f \in FD : Open(f)) \/ (\E x \in Waiter : PollWait(x) \/ WaitStep(x))
    \/ (\E t \in Thread : ReadyR(t) \/ ReadyW(t) \/ Return(t)) \/ UNCHANGED SemView
<1> QED
  BY Zenon DEF Next, GenericInit, ThreadStep, BreakerStep,
     LoadInited, LockInit, CreateEpoll,
     StoreInited, UnlockInit, Arrive, EpollWait, BreakEvent, ReadPipe, StoreWakeSig, Event,
     SetErr, BreakCall, BreakCAS, BreakWrite, vars, opening, polling, SemView

\* The pollDesc of a descriptor that is not open is clear, and a descriptor that
\* gets one or gives it back does nothing to the semaphores of the others.
LEMMA OpenKeeps ==
  ASSUME IInv, NEW f \in FD, Open(f)
  PROVE  /\ UNCHANGED <<wpc, toRun>>
         /\ \A x \in Waiter : opc[x[1]] = "open" =>
              pdOf[x[1]] \in PD /\ pdOf'[x[1]] = pdOf[x[1]] /\ Sem(x)' = Sem(x)
         /\ \A x \in Waiter : opc[x[1]] # "open" =>
              wpc[x] = "idle" /\ (pdOf[x[1]] # None => Sem(x) = "nil")
              /\ (pdOf'[x[1]] # None => Sem(x)' = "nil")
<1> USE DEF polling
<1>1. /\ pdOf \in [FD -> PD \cup {None}] /\ opc \in [FD -> {"new", "reset", "add", "open"}]
      /\ None \notin PD /\ OwnDesc /\ Quiet
      /\ \A g \in FD : opc[g] # "new" => pdOf[g] \in PD
      /\ \A x \in Waiter : x[1] \in FD /\ x[2] \in Mode
  BY HasDesc DEF IInv, TypeOK
<1>2. \A d \in PD, m \in Mode :
        (\A g \in FD : opc[g] = "open" => pdOf[g] # d) => word[d][m] = "nil"
  BY <1>1 DEF Quiet
<1>3. \A x \in Waiter : opc[x[1]] # "open" =>
        wpc[x] = "idle" /\ (pdOf[x[1]] # None => Sem(x) = "nil")
  BY <1>1, <1>2 DEF Quiet, OwnDesc, Sem, Desc
<1>4. UNCHANGED <<wpc, toRun>>
  BY DEF Open, Alloc, ResetDesc, AddToEpoll, AddFails
<1>5. CASE Alloc(f)
  <2>1. /\ opc[f] = "new" /\ UNCHANGED word /\ pdOf' = [pdOf EXCEPT ![f] = Head(Block)]
    BY <1>5 DEF Alloc, Block
  <2>2. /\ Head(Block) \in PD /\ \A g \in FD : Head(Block) # pdOf[g]
    <3>1. Block \in Seq(PD) /\ Block # <<>> /\ \A i \in DOMAIN Block, g \in FD : Block[i] # pdOf[g]
      BY <2>1, FromCache
    <3> QED
      BY <3>1
  <2>3. \A m \in Mode : word[Head(Block)][m] = "nil"
    BY <1>2, <2>2
  <2>4. \A g \in FD : pdOf'[g] = IF g = f THEN Head(Block) ELSE pdOf[g]
    BY <1>1, <2>1
  <2> HIDE DEF Block
  <2>5. \A x \in Waiter : Sem(x)' = word[pdOf'[x[1]]][x[2]] /\ Sem(x) = word[pdOf[x[1]]][x[2]]
    BY <2>1 DEF Sem, Desc
  <2>6. \A x \in Waiter : opc[x[1]] = "open" =>
              pdOf[x[1]] \in PD /\ pdOf'[x[1]] = pdOf[x[1]] /\ Sem(x)' = Sem(x)
    BY <1>1, <2>1, <2>4, <2>5
  <2>7. \A x \in Waiter : opc[x[1]] # "open" /\ pdOf'[x[1]] # None => Sem(x)' = "nil"
    BY <1>1, <1>3, <2>3, <2>4, <2>5
  <2> QED
    BY <1>3, <1>4, <2>6, <2>7
<1>6. CASE ResetDesc(f)
  <2>1. pdOf[f] \in PD /\ \A m \in Mode : word[pdOf[f]][m] = "nil"
    BY <1>6, ClearBefore DEF ResetDesc
  <2>2. word' = [word EXCEPT ![pdOf[f]] = [m \in Mode |-> "nil"]] /\ UNCHANGED pdOf
    BY <1>6, <2>1 DEF ResetDesc
  <2>3. \A d \in PD, m \in Mode : word'[d][m] = word[d][m]
    BY <2>1, <2>2 DEF IInv, TypeOK
  <2>4. \A x \in Waiter : pdOf[x[1]] # None => pdOf'[x[1]] = pdOf[x[1]] /\ Sem(x)' = Sem(x)
    BY <1>1, <2>2, <2>3 DEF Sem, Desc
  <2> QED
    BY <1>1, <1>3, <1>4, <2>2, <2>4
<1>7. CASE AddToEpoll(f)
  <2>1. \A x \in Waiter : pdOf'[x[1]] = pdOf[x[1]] /\ Sem(x)' = Sem(x)
    BY <1>7 DEF AddToEpoll, Sem, Desc
  <2> QED
    BY <1>1, <1>3, <1>4, <2>1
<1>8. CASE AddFails(f)
  <2>1. UNCHANGED word /\ pdOf' = [pdOf EXCEPT ![f] = None] /\ opc[f] = "add"
    BY <1>8 DEF AddFails
  <2>2. \A x \in Waiter : x[1] # f => pdOf'[x[1]] = pdOf[x[1]] /\ Sem(x)' = Sem(x)
    BY <1>1, <2>1 DEF Sem, Desc
  <2>3. pdOf'[f] = None
    BY <1>1, <2>1
  <2> QED
    BY <1>1, <1>3, <1>4, <2>1, <2>2, <2>3
<1> QED
  BY <1>5, <1>6, <1>7, <1>8 DEF Open

\* The step of a waiter: where it goes and what becomes of its semaphore.
Moves(x, l, v) ==
  /\ wpc' = [wpc EXCEPT ![x] = l] /\ UNCHANGED <<toRun, opening>>
  /\ opc[x[1]] = "open" /\ pdOf[x[1]] \in PD
  /\ \A y \in Waiter : pdOf[y[1]] # None => Sem(y)' = IF y = x THEN v ELSE Sem(y)

\* What each step of netpollblock finds in the semaphore and leaves there.
LEMMA WaitMoves ==
  ASSUME IInv, NEW x \in Waiter, PollWait(x) \/ WaitStep(x)
  PROVE  /\ wpc[x] # "parked"
         /\ \/ wpc[x] \in {"idle", "again"} /\ (\E l \in {"idle", "load"} : Moves(x, l, Sem(x)))
            \/ wpc[x] = "load" /\ Sem(x) = "ready" /\ Moves(x, "consume", "ready")
            \/ wpc[x] = "load" /\ Sem(x) = "nil" /\ Moves(x, "recheck", "wait")
            \/ wpc[x] = "consume" /\ Sem(x) = "ready" /\ Moves(x, "idle", "nil")
            \/ wpc[x] = "recheck" /\ (\E l \in {"xchg", "commit"} : Moves(x, l, Sem(x)))
            \/ wpc[x] = "commit" /\ Sem(x) = "wait" /\ Moves(x, "parked", "G")
            \/ wpc[x] = "commit" /\ Sem(x) = "ready" /\ Moves(x, "xchg", "ready")
            \/ wpc[x] = "xchg" /\ Sem(x) = "ready" /\ Moves(x, "idle", "nil")
            \/ wpc[x] = "xchg" /\ Sem(x) = "wait" /\ Moves(x, "again", "nil")
<1> USE DEF polling
<1>1. /\ UNCHANGED <<toRun, opening>> /\ opc[x[1]] = "open" /\ pdOf[x[1]] \in PD /\ pdOf[x[1]] # None
  BY HasDesc DEF WaitStep, PollWait, SetWait, Consume, Recheck, Commit, Exchange, Again
<1>2. /\ wpc[x] \in {"idle", "load", "again"} => Sem(x) \in {"nil", "ready"}
      /\ wpc[x] = "consume" => Sem(x) = "ready"
      /\ wpc[x] \in {"recheck", "commit", "xchg"} => Sem(x) \in {"wait", "ready"}
  BY <1>1 DEF IInv, SemFits
<1>3. \A y \in Waiter : Sem(y)' = word'[pdOf[y[1]]][y[2]]
  BY <1>1 DEF Sem, Desc, opening
<1>4. UNCHANGED word => \A y \in Waiter : Sem(y)' = IF y = x THEN Sem(x) ELSE Sem(y)
  BY <1>3 DEF Sem, Desc
<1>5. \A v \in {"nil", "ready", "wait", "G"} : SetSem(x, v) =>
        \A y \in Waiter : pdOf[y[1]] # None => Sem(y)' = IF y = x THEN v ELSE Sem(y)
  BY <1>1, <1>3, SetSemIs
<1>6. ASSUME NEW l, wpc' = [wpc EXCEPT ![x] = l], UNCHANGED word PROVE Moves(x, l, Sem(x))
  BY <1>1, <1>4, <1>6 DEF Moves
<1>7. ASSUME NEW l, wpc' = [wpc EXCEPT ![x] = l], NEW v \in {"nil", "ready", "wait", "G"},
             SetSem(x, v)
      PROVE  Moves(x, l, v)
  BY <1>1, <1>5, <1>7 DEF Moves
<1>8. CASE PollWait(x)
  BY <1>6, <1>8 DEF PollWait, WaitGoto
<1>9. CASE SetWait(x)
  BY <1>2, <1>6, <1>7, <1>9 DEF SetWait, WaitGoto
<1>10. CASE Consume(x)
  BY <1>2, <1>7, <1>10 DEF Consume, WaitGoto
<1>11. CASE Recheck(x)
  BY <1>6, <1>11 DEF Recheck, WaitGoto
<1>12. CASE Commit(x)
  BY <1>2, <1>6, <1>7, <1>12 DEF Commit, MayPark, WaitGoto
<1>13. CASE Exchange(x)
  BY <1>2, <1>7, <1>13 DEF Exchange, WaitGoto
<1>14. CASE Again(x)
  BY <1>6, <1>14 DEF Again, WaitGoto
<1> QED
  BY <1>8, <1>9, <1>10, <1>11, <1>12, <1>13, <1>14 DEF WaitStep

\* The step of a thread that notifies a semaphore.
Notifies(t, x) ==
  /\ UNCHANGED <<wpc, opening>> /\ pdOf[x[1]] \in PD
  /\ \A y \in Waiter : pdOf[y[1]] # None => Sem(y)' = IF y = x THEN "ready" ELSE Sem(y)
  /\ toRun' = [toRun EXCEPT ![t] = IF Sem(x) = "G" THEN toRun[t] \cup {x} ELSE toRun[t]]

\* netpollready notifies one semaphore, or none.
LEMMA ReadyNotifies ==
  ASSUME IInv, NEW t \in Thread, ReadyR(t) \/ ReadyW(t)
  PROVE  UNCHANGED SemView \/ \E x \in Waiter : Notifies(t, x)
<1>1. PICK m \in {"r", "w"} : Unblock(t, m)
  BY DEF ReadyR, ReadyW
<1>2. cur[t] \in FD /\ opc[cur[t]] = "open" /\ pdOf[cur[t]] \in PD
  BY HasDesc DEF ReadyR, ReadyW
<1>3. UNCHANGED <<wpc, opening>>
  BY DEF ReadyR, ReadyW
<1>4. CASE m \in Mode \cap ModeOf(evs[t][cur[t]])
  <2> DEFINE x == <<cur[t], m>>
  <2>1. x \in Waiter /\ x[1] = cur[t]
    BY <1>2, <1>4 DEF Waiter
  <2>2. /\ SetSem(x, "ready")
        /\ toRun' = [toRun EXCEPT ![t] = IF Sem(x) = "G" THEN toRun[t] \cup {x} ELSE toRun[t]]
    BY <1>1, <1>4 DEF Unblock, NewSem
  <2> HIDE DEF x
  <2>3. \A y \in Waiter : Sem(y)' = word'[pdOf[y[1]]][y[2]]
    BY <1>3 DEF Sem, Desc, opening
  <2>4. \A y \in Waiter : pdOf[y[1]] # None => Sem(y)' = IF y = x THEN "ready" ELSE Sem(y)
    BY <1>2, <2>1, <2>2, <2>3, SetSemIs
  <2> QED
    BY <1>2, <1>3, <2>1, <2>2, <2>4 DEF Notifies
<1>5. CASE m \notin Mode \cap ModeOf(evs[t][cur[t]])
  BY <1>1, <1>3, <1>5 DEF Unblock, SemView
<1> QED
  BY <1>4, <1>5


\* A waiter's place and its semaphore fit, over every step.
LEMMA SemStep == IInv /\ [Next]_vars => SemFits'
<1> SUFFICES ASSUME IInv, [Next]_vars PROVE SemFits'
  OBVIOUS
<1>1. /\ SemFits /\ None \notin PD
      /\ wpc \in [Waiter -> {"idle", "load", "consume", "recheck", "commit", "parked",
                             "xchg", "again"}]
  BY HasDesc DEF IInv, TypeOK
<1>2. ASSUME NEW f \in FD, Open(f) PROVE SemFits'
  BY <1>1, <1>2, OpenKeeps DEF SemFits
<1>3. ASSUME NEW x \in Waiter, PollWait(x) \/ WaitStep(x) PROVE SemFits'
  <2>1. PICK l, v : /\ Moves(x, l, v)
                    /\ \/ l = wpc[x] /\ v = Sem(x)
                       \/ l \in {"idle", "load", "again"} /\ v \in {"nil", "ready"}
                       \/ l = "consume" /\ v = "ready"
                       \/ l \in {"recheck", "commit", "xchg"} /\ v \in {"wait", "ready"}
                       \/ l = "parked" /\ v = "G"
    <3>1. pdOf[x[1]] # None
      BY <1>1, <1>3, WaitMoves DEF Moves
    <3>2. /\ wpc[x] \in {"idle", "load", "again"} => Sem(x) \in {"nil", "ready"}
          /\ wpc[x] \in {"recheck", "commit", "xchg"} => Sem(x) \in {"wait", "ready"}
      BY <1>1, <3>1 DEF SemFits
    <3> QED
      BY <1>3, <3>2, WaitMoves
  <2>2. UNCHANGED pdOf /\ \A y \in Waiter : wpc'[y] = IF y = x THEN l ELSE wpc[y]
    BY <1>1, <2>1 DEF Moves, opening
  <2>3. \A y \in Waiter : pdOf[y[1]] # None => Sem(y)' = IF y = x THEN v ELSE Sem(y)
    BY <2>1 DEF Moves
  <2> QED
    BY <1>1, <2>1, <2>2, <2>3 DEF SemFits
<1>4. ASSUME NEW t \in Thread, ReadyR(t) \/ ReadyW(t) PROVE SemFits'
  <2>1. CASE UNCHANGED SemView
    BY <1>1, <2>1 DEF SemFits, SemView, opening, Sem, Desc
  <2>2. ASSUME NEW x \in Waiter, Notifies(t, x) PROVE SemFits'
    BY <1>1, <2>2 DEF SemFits, Notifies, opening
  <2> QED
    BY <1>4, <2>1, <2>2, ReadyNotifies
<1>5. ASSUME NEW t \in Thread, Return(t) PROVE SemFits'
  <2>1. \A x \in toRun[t] : Sem(x) = "ready"
    BY DEF IInv, ListsRight
  <2>2. UNCHANGED <<opening, word>> /\ \A x \in Waiter : wpc'[x] = IF x \in toRun[t] THEN "xchg" ELSE wpc[x]
    BY <1>5 DEF Return
  <2>3. UNCHANGED pdOf /\ \A x \in Waiter : Sem(x)' = Sem(x)
    BY <2>2 DEF opening, Sem, Desc
  <2> QED
    BY <1>1, <2>1, <2>2, <2>3 DEF SemFits
<1>6. CASE UNCHANGED SemView
  BY <1>1, <1>6 DEF SemFits, SemView, opening, Sem, Desc
<1> QED
  BY <1>2, <1>3, <1>4, <1>5, <1>6, SemSteps

\* The lists hold who was parked and is notified, over every step.
LEMMA ListStep == IInv /\ [Next]_vars => ListsRight'
<1> SUFFICES ASSUME IInv, [Next]_vars PROVE ListsRight'
  OBVIOUS
<1>1. /\ ListsRight /\ SemFits /\ None \notin PD
      /\ wpc \in [Waiter -> {"idle", "load", "consume", "recheck", "commit", "parked",
                             "xchg", "again"}]
      /\ toRun \in [Thread -> SUBSET Waiter]
      /\ \A x \in Waiter : wpc[x] # "idle" => opc[x[1]] = "open" /\ pdOf[x[1]] \in PD
  BY HasDesc DEF IInv, TypeOK
<1>2. ASSUME NEW f \in FD, Open(f) PROVE ListsRight'
  BY <1>1, <1>2, OpenKeeps DEF ListsRight
<1>3. ASSUME NEW x \in Waiter, PollWait(x) \/ WaitStep(x) PROVE ListsRight'
  <2>1. PICK l, v : Moves(x, l, v) /\ wpc[x] # "parked" /\ (l = "parked" => v = "G")
    BY <1>3, WaitMoves
  <2>2. /\ UNCHANGED toRun /\ \A y \in Waiter : wpc'[y] = IF y = x THEN l ELSE wpc[y]
    BY <1>1, <2>1 DEF Moves
  <2>3. \A y \in Waiter : pdOf[y[1]] # None => Sem(y)' = IF y = x THEN v ELSE Sem(y)
    BY <2>1 DEF Moves
  <2>4. \A t \in Thread : x \notin toRun[t]
    BY <1>1, <2>1 DEF ListsRight
  <2>5. \A y \in Waiter : y # x /\ wpc[y] = "parked" => Sem(y)' = Sem(y)
    BY <1>1, <2>3
  <2>6. pdOf[x[1]] # None
    BY <1>1, <2>1 DEF Moves
  <2>7. \A t \in Thread : \A y \in toRun'[t] : wpc'[y] = "parked" /\ Sem(y)' = "ready"
    BY <1>1, <2>2, <2>4, <2>5 DEF ListsRight
  <2>8. \A y \in Waiter : wpc'[y] = "parked" /\ Sem(y)' = "ready" => \E t \in Thread : y \in toRun'[t]
    BY <1>1, <2>1, <2>2, <2>3, <2>5, <2>6 DEF ListsRight
  <2> QED
    BY <1>1, <2>2, <2>7, <2>8 DEF ListsRight
<1>4. ASSUME NEW t \in Thread, ReadyR(t) \/ ReadyW(t) PROVE ListsRight'
  <2>1. CASE UNCHANGED SemView
    BY <1>1, <2>1 DEF ListsRight, SemView, opening, Sem, Desc
  <2>2. ASSUME NEW x \in Waiter, Notifies(t, x) PROVE ListsRight'
    <3>1. /\ wpc' = wpc /\ pdOf[x[1]] # None
          /\ \A y \in Waiter : pdOf[y[1]] # None => Sem(y)' = IF y = x THEN "ready" ELSE Sem(y)
          /\ toRun' = [toRun EXCEPT ![t] = IF Sem(x) = "G" THEN toRun[t] \cup {x} ELSE toRun[t]]
      BY <1>1, <2>2 DEF Notifies
    <3>2. \A y \in Waiter : wpc[y] = "parked" => pdOf[y[1]] # None
      BY <1>1
    <3>3. CASE Sem(x) = "G"
      <4>1. wpc[x] = "parked" /\ \A s \in Thread : x \notin toRun[s]
        BY <1>1, <3>1, <3>3 DEF SemFits, ListsRight
      <4>2. \A s \in Thread : toRun'[s] = IF s = t THEN toRun[s] \cup {x} ELSE toRun[s]
        BY <1>1, <3>1, <3>3
      <4>3. \A s \in Thread : \A y \in toRun'[s] : wpc'[y] = "parked" /\ Sem(y)' = "ready"
        BY <1>1, <3>1, <3>2, <4>1, <4>2 DEF ListsRight
      <4>4. \A r, s \in Thread, y \in Waiter : y \in toRun'[r] /\ y \in toRun'[s] => r = s
        <5>1. \A s \in Thread, y \in Waiter :
                y \in toRun'[s] => y \in toRun[s] \/ (y = x /\ s = t)
          BY <4>2
        <5>2. \A r, s \in Thread, y \in Waiter : y \in toRun[r] /\ y \in toRun[s] => r = s
          BY <1>1 DEF ListsRight
        <5> QED
          BY <4>1, <5>1, <5>2
      <4>5. \A y \in Waiter : wpc'[y] = "parked" /\ Sem(y)' = "ready" =>
              \E s \in Thread : y \in toRun'[s]
        BY <1>1, <3>1, <3>2, <4>2 DEF ListsRight
      <4> QED
        BY <4>3, <4>4, <4>5 DEF ListsRight
    <3>4. CASE Sem(x) # "G"
      <4>1. UNCHANGED toRun /\ (wpc[x] = "parked" => Sem(x) = "ready")
        BY <1>1, <3>1, <3>4 DEF SemFits
      <4>2. \A y \in Waiter : wpc[y] = "parked" => Sem(y)' = Sem(y)
        BY <3>1, <3>2, <4>1
      <4> QED
        BY <1>1, <3>1, <4>1, <4>2 DEF ListsRight
    <3> QED
      BY <3>3, <3>4
  <2> QED
    BY <1>4, <2>1, <2>2, ReadyNotifies
<1>5. ASSUME NEW t \in Thread, Return(t) PROVE ListsRight'
  <2>1. /\ UNCHANGED <<opening, word>> /\ toRun' = [toRun EXCEPT ![t] = {}]
        /\ \A x \in Waiter : wpc'[x] = IF x \in toRun[t] THEN "xchg" ELSE wpc[x]
    BY <1>5 DEF Return
  <2>2. \A x \in Waiter : Sem(x)' = Sem(x)
    BY <2>1 DEF opening, Sem, Desc
  <2>3. \A s \in Thread : toRun'[s] = IF s = t THEN {} ELSE toRun[s]
    BY <1>1, <2>1
  <2> QED
    BY <1>1, <2>1, <2>2, <2>3 DEF ListsRight
<1>6. CASE UNCHANGED SemView
  BY <1>1, <1>6 DEF ListsRight, SemView, opening, Sem, Desc
<1> QED
  BY <1>2, <1>3, <1>4, <1>5, <1>6, SemSteps

-----------------------------------------------------------------------------
(***************************************************************************)
(* The theorems.                                                           *)
(***************************************************************************)
\* The invariant holds at the start.
LEMMA InitHolds == Init => IInv
<1> SUFFICES ASSUME Init PROVE IInv
  OBVIOUS
<1>1. None \notin PD /\ None \notin FD /\ None \notin Initer /\ MaxPipe \in Nat \ {0}
  BY NetPollAssumption
<1>2. cache = <<>> /\ cache \in Seq(PD) /\ DOMAIN cache = {}
  BY DEF Init
<1>3. \A x \in Waiter : x[1] \in FD /\ x[2] \in Mode
  BY DEF Waiter
<1>4. TypeOK
  <2>1. /\ inited \in {0, 1} /\ epfd \in BOOLEAN /\ initLock \in Initer \cup {None}
        /\ cache \in Seq(PD) /\ pdOf \in [FD -> PD \cup {None}]
        /\ ipc \in [Initer -> {"load", "lock", "create", "store", "unlock", "done"}]
        /\ opc \in [FD -> {"new", "reset", "add", "open"}]
    BY <1>2 DEF Init
  <2>2. /\ word \in [PD -> [Mode -> {"nil", "ready", "wait", "G"}]]
        /\ everr \in [PD -> BOOLEAN]
        /\ wpc \in [Waiter -> {"idle", "load", "consume", "recheck", "commit", "parked",
                               "xchg", "again"}]
    BY DEF Init
  <2>3. /\ edge \in [FD -> SUBSET Flag]
        /\ evs \in [Thread -> [FD -> SUBSET Flag]]
        /\ brk \in [Thread -> BOOLEAN]
        /\ cur \in [Thread -> FD \cup {None}] /\ toRun \in [Thread -> SUBSET Waiter]
    BY DEF Init, NoFlags
  <2>4. /\ pipe \in 0 .. MaxPipe /\ wakeSig \in {0, 1}
        /\ bpc \in [Breaker -> {"idle", "cas", "write"}]
        /\ tpc \in [Thread -> {"wait", "event", "read", "store", "everr", "r", "w"}]
    BY <1>1 DEF Init
  <2> QED
    BY <2>1, <2>2, <2>3, <2>4 DEF TypeOK
<1>5. InitStages /\ BreakAnnounced
  BY <1>1 DEF Init, InitStages, BreakAnnounced
<1>6. OwnDesc
  BY <1>1, <1>2 DEF Init, OwnDesc
<1>7. Quiet
  BY <1>3 DEF Init, Quiet, NoFlags
<1>8. SemFits /\ ListsRight
  BY <1>1, <1>3 DEF Init, SemFits, ListsRight
<1> QED
  BY <1>4, <1>5, <1>6, <1>7, <1>8 DEF IInv

\* So it always holds.
LEMMA Invariance == Spec => []IInv
<1>1. IInv /\ [Next]_vars => IInv'
  BY TypeStep, InitStep, AnnouncedStep, DescStep, QuietStep, SemStep, ListStep DEF IInv
<1> QED
  BY <1>1, InitHolds, PTL DEF Spec

\* The poller is initialized once and completely for whoever has passed
\* netpollGenericInit, and while netpollWakeSig keeps others from writing a byte
\* is in the pipe or on its way, for any number of callers, descriptors, threads.
THEOREM PollerIsRight == Spec => []PollerInv
<1>1. IInv => PollerInv
  <2> SUFFICES ASSUME IInv PROVE PollerInv
    OBVIOUS
  <2>1. InitOnce
    BY DEF IInv, InitStages, InitOnce
  <2> QED
    BY <2>1 DEF IInv, PollerInv
<1> QED
  BY <1>1, Invariance, PTL

\* A parked goroutine whose notification has come is in the list of exactly one
\* thread, however many report its descriptor at a time; nobody else is in one.
THEOREM EachWokenOnce == Spec => []WokenOnce
<1>1. IInv => WokenOnce
  <2> SUFFICES ASSUME IInv, NEW x \in Waiter
               PROVE  Cardinality({t \in Thread : x \in toRun[t]})
                        = IF wpc[x] = "parked" /\ Sem(x) # "G" THEN 1 ELSE 0
    BY DEF WokenOnce
  <2> DEFINE W == {t \in Thread : x \in toRun[t]}
  <2>1. ListsRight /\ (wpc[x] = "parked" => Sem(x) \in {"G", "ready"})
    <3>1. wpc[x] = "parked" => pdOf[x[1]] # None
      BY HasDesc
    <3> QED
      BY <3>1 DEF IInv, SemFits
  <2>2. CASE wpc[x] = "parked" /\ Sem(x) # "G"
    <3>1. PICK t \in Thread : x \in toRun[t]
      BY <2>1, <2>2 DEF ListsRight
    <3>2. W = {t}
      BY <2>1, <3>1 DEF ListsRight
    <3> QED
      BY <2>2, <3>2, FS_Singleton
  <2>3. CASE ~(wpc[x] = "parked" /\ Sem(x) # "G")
    <3>1. W = {}
      BY <2>1, <2>3 DEF ListsRight
    <3> QED
      BY <2>3, <3>1, FS_EmptySet
  <2> QED
    BY <2>2, <2>3
<1> QED
  BY <1>1, Invariance, PTL

-----------------------------------------------------------------------------
(***************************************************************************)
(* rg and wg are binary semaphores.                                        *)
(***************************************************************************)
\* At the start no semaphore is notified and nobody sleeps.
LEMMA SemInit == Init => S!Init
<1> SUFFICES ASSUME Init PROVE S!Init
  OBVIOUS
<1>1. \A x \in Waiter : wpc[x] # "parked" /\ pdOf[x[1]] = None
  BY DEF Init, Waiter
<1>2. \A x \in Waiter : Notified(x) = FALSE /\ (wpc[x] = "parked" /\ Sem(x) = "G") = FALSE
  BY <1>1, Zenon DEF Notified
<1> QED
  BY <1>2, Zenon DEF S!Init

\* The flags of the abstract semaphores.
Asleep(x) == wpc[x] = "parked" /\ Sem(x) = "G"
Ready == [x \in Waiter |-> Notified(x)]
Sleepers == [x \in Waiter |-> Asleep(x)]

\* A step of the poller is a step of the semaphores, or leaves them alone.
LEMMA SemRefines ==
  IInv /\ [Next]_vars =>
    (\E x \in Waiter : S!Notify(x) \/ S!Consume(x) \/ S!Sleep(x)) \/ UNCHANGED <<Ready, Sleepers>>
<1> SUFFICES ASSUME IInv, [Next]_vars
             PROVE  (\E x \in Waiter : S!Notify(x) \/ S!Consume(x) \/ S!Sleep(x))
                    \/ UNCHANGED <<Ready, Sleepers>>
  OBVIOUS
<1>0. /\ SemFits /\ ListsRight /\ None \notin PD
      /\ wpc \in [Waiter -> {"idle", "load", "consume", "recheck", "commit", "parked",
                             "xchg", "again"}]
      /\ \A x \in Waiter : wpc[x] # "idle" => opc[x[1]] = "open" /\ pdOf[x[1]] \in PD
  BY HasDesc DEF IInv, TypeOK
<1>1. /\ \A x \in Waiter : Notified(x) \in BOOLEAN /\ Asleep(x) \in BOOLEAN
      /\ \A x \in Waiter : Notified(x)' \in BOOLEAN /\ Asleep(x)' \in BOOLEAN
  BY Zenon DEF Notified, Asleep
<1>2. /\ Ready = [x \in Waiter |-> Notified(x)] /\ Ready' = [x \in Waiter |-> Notified(x)']
      /\ Sleepers = [x \in Waiter |-> Asleep(x)] /\ Sleepers' = [x \in Waiter |-> Asleep(x)']
  BY DEF Ready, Sleepers
<1>3. ASSUME NEW x \in Waiter, NEW v \in BOOLEAN,
             \A y \in Waiter : Notified(y)' <=> (IF y = x THEN v ELSE Notified(y))
      PROVE  Ready' = [Ready EXCEPT ![x] = v]
  <2>1. \A y \in Waiter : Notified(y)' = (IF y = x THEN v ELSE Notified(y))
    BY <1>1, <1>3, Zenon
  <2>2. Ready' = [y \in Waiter |-> IF y = x THEN v ELSE Notified(y)]
    BY <1>2, <2>1, Zenon
  <2>3. [Ready EXCEPT ![x] = v] = [y \in Waiter |-> IF y = x THEN v ELSE Notified(y)]
    BY <1>2, Zenon
  <2> QED
    BY <2>2, <2>3, Zenon
<1>4. ASSUME NEW x \in Waiter, NEW v \in BOOLEAN,
             \A y \in Waiter : Asleep(y)' <=> (IF y = x THEN v ELSE Asleep(y))
      PROVE  Sleepers' = [Sleepers EXCEPT ![x] = v]
  <2>1. \A y \in Waiter : Asleep(y)' = (IF y = x THEN v ELSE Asleep(y))
    BY <1>1, <1>4, Zenon
  <2>2. Sleepers' = [y \in Waiter |-> IF y = x THEN v ELSE Asleep(y)]
    BY <1>2, <2>1, Zenon
  <2>3. [Sleepers EXCEPT ![x] = v] = [y \in Waiter |-> IF y = x THEN v ELSE Asleep(y)]
    BY <1>2, Zenon
  <2> QED
    BY <2>2, <2>3, Zenon
<1>5. (\A y \in Waiter : Notified(y)' <=> Notified(y)) => UNCHANGED Ready
  <2>1. (\A y \in Waiter : Notified(y)' <=> Notified(y)) => \A y \in Waiter : Notified(y)' = Notified(y)
    BY <1>1, Zenon
  <2> QED
    BY <1>2, <2>1, Zenon
<1>6. (\A y \in Waiter : Asleep(y)' <=> Asleep(y)) => UNCHANGED Sleepers
  <2>1. (\A y \in Waiter : Asleep(y)' <=> Asleep(y)) => \A y \in Waiter : Asleep(y)' = Asleep(y)
    BY <1>1, Zenon
  <2> QED
    BY <1>2, <2>1, Zenon
<1>7. ASSUME NEW f \in FD, Open(f) PROVE UNCHANGED <<Ready, Sleepers>>
  <2>1. \A x \in Waiter : Notified(x)' <=> Notified(x)
    BY <1>0, <1>7, OpenKeeps DEF Notified
  <2>2. \A x \in Waiter : Asleep(x)' <=> Asleep(x)
    BY <1>0, <1>7, OpenKeeps DEF Asleep
  <2> QED
    BY <1>5, <1>6, <2>1, <2>2
<1>8. ASSUME NEW x \in Waiter, PollWait(x) \/ WaitStep(x)
      PROVE  S!Consume(x) \/ S!Sleep(x) \/ UNCHANGED <<Ready, Sleepers>>
  <2>1. PICK l, v : /\ Moves(x, l, v) /\ wpc[x] # "parked"
                    /\ \/ l # "parked" /\ (v = "ready" <=> Sem(x) = "ready")
                       \/ l # "parked" /\ v = "nil" /\ Sem(x) = "ready"
                       \/ l = "parked" /\ v = "G" /\ Sem(x) = "wait"
    BY <1>8, WaitMoves
  <2>2. /\ UNCHANGED pdOf /\ pdOf[x[1]] # None
        /\ \A y \in Waiter : wpc'[y] = IF y = x THEN l ELSE wpc[y]
        /\ \A y \in Waiter : pdOf[y[1]] # None => Sem(y)' = IF y = x THEN v ELSE Sem(y)
    BY <1>0, <2>1 DEF Moves, opening
  <2>3. Notified(x)' <=> v = "ready"
    BY <2>2 DEF Notified
  <2>4. Notified(x) <=> Sem(x) = "ready"
    BY <2>2 DEF Notified
  <2>5. \A y \in Waiter : y # x => (Notified(y)' <=> Notified(y)) /\ (Asleep(y)' <=> Asleep(y))
    BY <1>0, <2>2 DEF Notified, Asleep
  <2>6. ~Asleep(x) /\ (Asleep(x)' <=> (l = "parked" /\ v = "G"))
    BY <2>1, <2>2 DEF Asleep
  <2>7. CASE l # "parked" /\ (v = "ready" <=> Sem(x) = "ready")
    <3>1. \A y \in Waiter : (Notified(y)' <=> Notified(y)) /\ (Asleep(y)' <=> Asleep(y))
      BY <2>3, <2>4, <2>5, <2>6, <2>7
    <3> QED
      BY <1>5, <1>6, <3>1
  <2>8. CASE l # "parked" /\ v = "nil" /\ Sem(x) = "ready"
    <3>1. \A y \in Waiter : Notified(y)' <=> (IF y = x THEN FALSE ELSE Notified(y))
      BY <2>3, <2>5, <2>8
    <3>2. \A y \in Waiter : Asleep(y)' <=> Asleep(y)
      BY <2>5, <2>6, <2>8
    <3>3. Ready' = [Ready EXCEPT ![x] = FALSE]
      BY <1>3, <3>1
    <3>4. UNCHANGED Sleepers
      BY <1>6, <3>2
    <3>5. Ready[x] /\ ~Sleepers[x]
      BY <1>2, <2>4, <2>6, <2>8
    <3> QED
      BY <3>3, <3>4, <3>5 DEF S!Consume, Ready, Sleepers, Asleep
  <2>9. CASE l = "parked" /\ v = "G" /\ Sem(x) = "wait"
    <3>1. \A y \in Waiter : Asleep(y)' <=> (IF y = x THEN TRUE ELSE Asleep(y))
      BY <2>5, <2>6, <2>9
    <3>2. \A y \in Waiter : Notified(y)' <=> Notified(y)
      BY <2>3, <2>4, <2>5, <2>9
    <3>3. Sleepers' = [Sleepers EXCEPT ![x] = TRUE]
      BY <1>4, <3>1
    <3>4. UNCHANGED Ready
      BY <1>5, <3>2
    <3>5. ~Ready[x] /\ ~Sleepers[x]
      BY <1>2, <2>4, <2>6, <2>9
    <3> QED
      BY <3>3, <3>4, <3>5 DEF S!Sleep, Ready, Sleepers, Asleep
  <2> QED
    BY <2>1, <2>7, <2>8, <2>9
<1>9. ASSUME NEW t \in Thread, NEW x \in Waiter, Notifies(t, x) PROVE S!Notify(x)
  <2>1. /\ UNCHANGED <<wpc, pdOf>> /\ pdOf[x[1]] # None
        /\ \A y \in Waiter : pdOf[y[1]] # None => Sem(y)' = IF y = x THEN "ready" ELSE Sem(y)
    BY <1>0, <1>9 DEF Notifies, opening
  <2>2. \A y \in Waiter : Notified(y)' <=> (IF y = x THEN TRUE ELSE Notified(y))
    BY <2>1 DEF Notified
  <2>3. \A y \in Waiter : Asleep(y)' <=> (IF y = x THEN FALSE ELSE Asleep(y))
    BY <1>0, <2>1 DEF Asleep
  <2>4. Ready' = [Ready EXCEPT ![x] = TRUE]
    BY <1>3, <2>2
  <2>5. Sleepers' = [Sleepers EXCEPT ![x] = FALSE]
    BY <1>4, <2>3
  <2> QED
    BY <2>4, <2>5 DEF S!Notify, Ready, Sleepers, Asleep
<1>10. ASSUME UNCHANGED SemView PROVE UNCHANGED <<Ready, Sleepers>>
  BY <1>10 DEF SemView, opening, Ready, Sleepers, Notified, Asleep, Sem, Desc
<1>11. ASSUME NEW t \in Thread, Return(t) PROVE UNCHANGED <<Ready, Sleepers>>
  <2>1. /\ UNCHANGED <<opening, word>>
        /\ \A x \in Waiter : wpc'[x] = IF x \in toRun[t] THEN "xchg" ELSE wpc[x]
    BY <1>11 DEF Return
  <2>2. \A x \in Waiter : Sem(x)' = Sem(x) /\ (Notified(x)' <=> Notified(x))
    BY <2>1 DEF opening, Sem, Desc, Notified
  <2>3. \A x \in toRun[t] : Sem(x) = "ready"
    BY <1>0, <1>11 DEF ListsRight
  <2>4. \A x \in Waiter : Asleep(x)' <=> Asleep(x)
    BY <2>1, <2>2, <2>3 DEF Asleep
  <2> QED
    BY <1>5, <1>6, <2>2, <2>4
<1> QED
  BY <1>7, <1>8, <1>9, <1>10, <1>11, SemSteps, ReadyNotifies

\* rg and wg are binary semaphores: netpollblock and netpollunblock implement
\* Notify, Consume and Sleep, and all other steps leave the semaphores alone.
THEOREM PollerImplementsSemaphores == Spec => ImplementsSemaphores
<1>1. IInv /\ [Next]_vars =>
        [S!Next]_<<[x \in Waiter |-> Notified(x)],
                   [x \in Waiter |-> wpc[x] = "parked" /\ Sem(x) = "G"]>>
  BY SemRefines DEF S!Next, Ready, Sleepers, Asleep
<1> QED
  BY <1>1, SemInit, Invariance, PTL DEF Spec, ImplementsSemaphores, S!Spec


=============================================================================
