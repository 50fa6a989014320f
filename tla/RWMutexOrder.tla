---------------------------- MODULE RWMutexOrder ----------------------------
(***************************************************************************)
(* RWMutex with a history of who was blocked in Lock when a reader called  *)
(* RLock.                                                                  *)
(***************************************************************************)
EXTENDS RWMutex

VARIABLE behind   \* behind[g]: the Lock call that was blocked when g called
                  \* RLock and that has not been unlocked since

OrderInit == Init /\ behind = [g \in Goroutine |-> {}]

BlockedWriter == {g \in Goroutine : pc[g] = "wSem"}

\* g takes one step of RWMutex.
OrderStep(g) ==
  /\ Call(g) \/ LockMutex(g) \/ Proceed(g)
  /\ behind' =
       IF pc[g] = "idle" /\ pc'[g] \in ReaderPC
         THEN [behind EXCEPT ![g] = BlockedWriter]
         ELSE [h \in Goroutine |-> IF pc[g] = "writing" THEN behind[h] \ {g} ELSE behind[h]]

OrderNext == \E g \in Goroutine : OrderStep(g)

OrderSpec == OrderInit /\ [][OrderNext]_<<vars, behind>>
-----------------------------------------------------------------------------
\* "a blocked Lock call excludes new readers from acquiring the lock"
\* (rwmutex.go:21-22): a reader that came while a Lock call was blocked does
\* not hold the lock before that writer has had it.
BlockedLockExcludesNewReaders ==
  \A g \in Goroutine : pc[g] = "reading" => behind[g] = {}
=============================================================================
