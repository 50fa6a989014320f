------------------------------- MODULE RWMutex -------------------------------
(***************************************************************************)
(* xsync.RWMutex (src/xsync/rwmutex.go): readers and writers that share a  *)
(* counter and two semaphores.                                             *)
(*                                                                         *)
(* A step is one atomic operation of the code: an AddInt32, a Semacquire,  *)
(* a Semrelease, a Lock or Unlock of the inner sync.Mutex w.  An element   *)
(* of Goroutine is one locking session: the code lets one goroutine unlock *)
(* what another locked, and the session is then the pair of them.          *)
(***************************************************************************)
EXTENDS Sema, FiniteSets

CONSTANTS
  Goroutine,
  None,         \* nobody: the inner mutex is free
  MaxReaders    \* rwmutexMaxReaders

ASSUME RWMutexAssumption ==
  /\ IsFiniteSet(Goroutine)
  /\ None \notin Goroutine
  /\ MaxReaders \in Nat
  /\ Cardinality(Goroutine) < MaxReaders

VARIABLES
  w,            \* the holder of the inner mutex, or None
  writerSem,
  readerSem,
  readerCount,
  readerWait,
  pc,           \* where each goroutine is
  r             \* the local r of Lock and Unlock

vars == <<w, writerSem, readerSem, readerCount, readerWait, pc, r>>

(***************************************************************************)
(* The points at which a goroutine may be:                                 *)
(*   idle       outside the lock                                           *)
(*   rSem       RLock, waiting on readerSem                                *)
(*   reading    between RLock and RUnlock                                  *)
(*   rSlow      RUnlock, about to take itself off readerWait               *)
(*   rWake      RUnlock, about to release writerSem                        *)
(*   wMutex     Lock, waiting for w                                        *)
(*   wAnnounce  Lock, about to take MaxReaders off readerCount             *)
(*   wWait      Lock, about to add r to readerWait                         *)
(*   wSem       Lock, waiting on writerSem                                 *)
(*   writing    between Lock and Unlock                                    *)
(*   wWake      Unlock, in the loop that releases readerSem r times        *)
(*   panic      the goroutine panicked                                     *)
(***************************************************************************)
ReaderPC == {"rSem", "reading", "rSlow", "rWake"}
OwnerPC == {"wAnnounce", "wWait", "wSem", "writing", "wWake"}
PC == {"idle", "wMutex", "panic"} \cup ReaderPC \cup OwnerPC

Init ==
  /\ w = None
  /\ writerSem = 0
  /\ readerSem = 0
  /\ readerCount = 0
  /\ readerWait = 0
  /\ pc = [g \in Goroutine |-> "idle"]
  /\ r = [g \in Goroutine |-> 0]

Goto(g, l) == pc' = [pc EXCEPT ![g] = l]
-----------------------------------------------------------------------------
(* RLock *)

AfterRLock_LateCheck(n) == IF n < -MaxReaders THEN "rSem" ELSE "reading"

\* A negative count says that a writer is pending or active.
AfterRLock(n) == IF n < 0 THEN "rSem" ELSE "reading"

RLock(g) ==
  /\ pc[g] = "idle"
  /\ readerCount' = readerCount + 1
  /\ Goto(g, AfterRLock(readerCount + 1))
  /\ UNCHANGED <<w, writerSem, readerSem, readerWait, r>>

RLockAcquire(g) ==
  /\ pc[g] = "rSem"
  /\ CanAcquire(readerSem)
  /\ readerSem' = Acquired(readerSem)
  /\ Goto(g, "reading")
  /\ UNCHANGED <<w, writerSem, readerCount, readerWait, r>>
-----------------------------------------------------------------------------
(* RUnlock *)

AfterRUnlock_NoPlusOne(n) ==
  IF n >= 0 THEN "idle" ELSE IF n \in {0, -MaxReaders} THEN "panic" ELSE "rSlow"

\* n is the new count.  The two values that panic are the counts of a lock
\* nobody holds for reading, with and without a writer.
AfterRUnlock(n) ==
  IF n >= 0 THEN "idle"
  ELSE IF n + 1 \in {0, -MaxReaders} THEN "panic" ELSE "rSlow"

RUnlockBody(g) ==
  /\ readerCount' = readerCount - 1
  /\ Goto(g, AfterRUnlock(readerCount - 1))
  /\ UNCHANGED <<w, writerSem, readerSem, readerWait, r>>

RUnlock(g) == pc[g] = "reading" /\ RUnlockBody(g)

AfterDeparture_EveryReader(n) == "rWake"

\* The last reader that the writer waits for wakes it.
AfterDeparture(n) == IF n = 0 THEN "rWake" ELSE "idle"

RUnlockSlow(g) ==
  /\ pc[g] = "rSlow"
  /\ readerWait' = readerWait - 1
  /\ Goto(g, AfterDeparture(readerWait - 1))
  /\ UNCHANGED <<w, writerSem, readerSem, readerCount, r>>

RUnlockWake(g) ==
  /\ pc[g] = "rWake"
  /\ writerSem' = Released(writerSem)
  /\ Goto(g, "idle")
  /\ UNCHANGED <<w, readerSem, readerCount, readerWait, r>>
-----------------------------------------------------------------------------
(* Lock *)

LockCall(g) ==
  /\ pc[g] = "idle"
  /\ Goto(g, "wMutex")
  /\ UNCHANGED <<w, writerSem, readerSem, readerCount, readerWait, r>>

LockMutex(g) ==
  /\ pc[g] = "wMutex"
  /\ w = None
  /\ w' = g
  /\ Goto(g, "wAnnounce")
  /\ UNCHANGED <<writerSem, readerSem, readerCount, readerWait, r>>

\* r is the number of readers the writer found.
LockAnnounce(g) ==
  /\ pc[g] = "wAnnounce"
  /\ readerCount' = readerCount - MaxReaders
  /\ r' = [r EXCEPT ![g] = readerCount]
  /\ Goto(g, IF readerCount # 0 THEN "wWait" ELSE "writing")
  /\ UNCHANGED <<w, writerSem, readerSem, readerWait>>

\* Readers that left in the meantime have made readerWait negative; if all
\* of them did, the sum is zero and the writer does not sleep.
AfterLockWait(n) == IF n # 0 THEN "wSem" ELSE "writing"

LockWait(g) ==
  /\ pc[g] = "wWait"
  /\ readerWait' = readerWait + r[g]
  /\ Goto(g, AfterLockWait(readerWait + r[g]))
  /\ UNCHANGED <<w, writerSem, readerSem, readerCount, r>>

LockAcquire(g) ==
  /\ pc[g] = "wSem"
  /\ CanAcquire(writerSem)
  /\ writerSem' = Acquired(writerSem)
  /\ Goto(g, "writing")
  /\ UNCHANGED <<w, readerSem, readerCount, readerWait, r>>
-----------------------------------------------------------------------------
(* Unlock *)

Waiters_OneMore(n) == n + 1

\* The readers to wake: the whole count, since none of them holds the lock.
Waiters(n) == n

Unlock(g) ==
  /\ pc[g] = "writing"
  /\ readerCount' = readerCount + MaxReaders
  /\ r' = [r EXCEPT ![g] = Waiters(readerCount + MaxReaders)]
  /\ Goto(g, IF readerCount + MaxReaders >= MaxReaders THEN "panic" ELSE "wWake")
  /\ UNCHANGED <<w, writerSem, readerSem, readerWait>>

UnlockWake(g) ==
  /\ pc[g] = "wWake"
  /\ r[g] > 0
  /\ readerSem' = Released(readerSem)
  /\ r' = [r EXCEPT ![g] = @ - 1]
  /\ UNCHANGED <<w, writerSem, readerCount, readerWait, pc>>

UnlockMutex(g) ==
  /\ pc[g] = "wWake"
  /\ r[g] <= 0
  /\ w' = None
  /\ Goto(g, "idle")
  /\ UNCHANGED <<writerSem, readerSem, readerCount, readerWait, r>>
-----------------------------------------------------------------------------
\* The steps a goroutine takes once it has called one of the methods.
Proceed(g) ==
  \/ RLockAcquire(g)
  \/ RUnlockSlow(g) \/ RUnlockWake(g)
  \/ LockAnnounce(g) \/ LockWait(g) \/ LockAcquire(g)
  \/ UnlockWake(g) \/ UnlockMutex(g)

\* The calls, which the client makes.
Call(g) == RLock(g) \/ LockCall(g) \/ RUnlock(g) \/ Unlock(g)

Next == \E g \in Goroutine : Call(g) \/ LockMutex(g) \/ Proceed(g)

Spec == Init /\ [][Next]_vars

(***************************************************************************)
(* Fairness: a runnable goroutine runs, and a client that holds the lock   *)
(* releases it; nobody is obliged to lock.  The inner sync.Mutex is        *)
(* starvation free (it hands over to a goroutine that waited for 1 ms), so *)
(* acquiring it is strongly fair.                                          *)
(***************************************************************************)
Fairness ==
  \A g \in Goroutine :
    /\ WF_vars(Proceed(g))
    /\ WF_vars(RUnlock(g))
    /\ WF_vars(Unlock(g))
    /\ SF_vars(LockMutex(g))

FairSpec == Spec /\ Fairness
-----------------------------------------------------------------------------
(* Properties *)

\* The variables hold values of their types; in particular no semaphore,
\* a uint32 in the code, is ever decremented below zero.
TypeOK ==
  /\ w \in Goroutine \cup {None}
  /\ writerSem \in Nat
  /\ readerSem \in Nat
  /\ readerCount \in Int
  /\ readerWait \in Int
  /\ pc \in [Goroutine -> PC]
  /\ r \in [Goroutine -> Int]

\* The lock is held by readers or by one writer (rwmutex.go:11-12): while a
\* goroutine is between Lock and Unlock nobody else is between Lock and
\* Unlock or between RLock and RUnlock.
Exclusion ==
  \A g, h \in Goroutine :
    pc[g] = "writing" /\ pc[h] \in {"writing", "reading"} => g = h

\* The checks of RUnlock and Unlock never take a client that follows the
\* protocol for one that unlocks an unlocked lock, whatever readers and
\* writers are between their steps.
NoPanic == \A g \in Goroutine : pc[g] # "panic"

\* Every wake-up is used by the round it was meant for: when a writer has
\* the lock, no token is left in a semaphore that would let a later
\* goroutine in, and nobody is on its way to release one.
NoStaleWakeup ==
  (\E g \in Goroutine : pc[g] = "writing") =>
    /\ readerSem = 0
    /\ writerSem = 0
    /\ \A g \in Goroutine : pc[g] \notin {"rSlow", "rWake", "wWake"}

\* The lock is an implementation of the abstract reader/writer lock.
RW == INSTANCE RWLock WITH
        readers <- {g \in Goroutine : pc[g] = "reading"},
        writer <- IF \E g \in Goroutine : pc[g] = "writing" THEN w ELSE None

\* Every step of the code acquires or releases the abstract lock for one
\* goroutine, legally, or leaves it alone.
ImplementsRWLock == RW!Spec

\* "This is to ensure that the lock eventually becomes available"
\* (rwmutex.go:20-21): a goroutine that called Lock gets the lock, in spite
\* of readers and writers that keep coming.
WriterGetsLock ==
  \A g \in Goroutine : pc[g] = "wMutex" ~> pc[g] = "writing"
-----------------------------------------------------------------------------
(* The inductive invariant behind the safety properties. *)

Num(l) == Cardinality({g \in Goroutine : pc[g] = l})

\* A writer has taken MaxReaders off the count and not yet given it back.
Announced == w # None /\ pc[w] \in {"wWait", "wSem", "writing"}

\* The tokens that the writer on its way out has still to hand to readers.
Owed == IF w # None /\ pc[w] = "wWake" THEN r[w] ELSE 0

CountInv ==
  /\ readerCount =
       Num("rSem") + Num("reading") - (IF Announced THEN MaxReaders ELSE 0)
  /\ readerSem <= Num("rSem")
  /\ \A g \in Goroutine : pc[g] \in OwnerPC <=> w = g

\* Without an announced writer, every waiting reader has a token or is owed
\* one, and no reader is on the slow path.
QuietInv ==
  ~Announced =>
    /\ Num("rSem") = readerSem + Owed
    /\ Owed >= 0
    /\ Num("rSlow") = 0
    /\ Num("rWake") = 0
    /\ readerWait = 0
    /\ writerSem = 0

\* The readers that the announced writer has to wait for are those that
\* read, those that have a token to, and those about to report that they left.
Active == Num("reading") + readerSem + Num("rSlow")

DrainInv ==
  w # None =>
    /\ pc[w] = "wWait" =>
         /\ readerWait + r[w] = Active
         /\ readerWait <= 0
         /\ Num("rWake") = 0
         /\ writerSem = 0
    /\ pc[w] = "wSem" =>
         /\ readerWait = Active
         /\ writerSem + Num("rWake") = IF readerWait = 0 THEN 1 ELSE 0
    /\ pc[w] = "writing" =>
         /\ readerWait = 0
         /\ Active = 0
         /\ writerSem + Num("rWake") = 0

\* Every reader that the counters promise is where they say, and the wake-up
\* of the writer exists exactly when the last of them has left.
IInv == TypeOK /\ NoPanic /\ CountInv /\ QuietInv /\ DrainInv
=============================================================================
