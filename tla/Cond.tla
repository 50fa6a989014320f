-------------------------------- MODULE Cond --------------------------------
(***************************************************************************)
(* xsync/cond.go: Wait takes a ticket of the notify list, unlocks L,       *)
(* sleeps until the ticket is notified and locks L again.  The notify list *)
(* is the runtime's; what matters of it is whether a goroutine has a       *)
(* ticket and whether that has been notified.                              *)
(***************************************************************************)
EXTENDS Naturals

CONSTANTS Goroutine,  \* those that use the condition variable
          NoOne

VARIABLES
  L,       \* who holds c.L
  ticket,  \* of each goroutine: none, added or notified
  cwpc     \* where the Wait of a goroutine is

condition == <<L, ticket, cwpc>>

CondInit ==
  /\ L = NoOne
  /\ ticket = [g \in Goroutine |-> "none"]
  /\ cwpc = [g \in Goroutine |-> "idle"]

\* A bug: L is unlocked before the ticket is taken.
After_UnlockFirst(step) ==
  CASE step = "call" -> "unlock" [] step = "unlock" -> "add" [] step = "add" -> "sleep"

\* The order of Wait's steps.
After(step) ==
  CASE step = "call" -> "add" [] step = "add" -> "unlock" [] step = "unlock" -> "sleep"

\* c.Wait() by who holds L; the call is over when cwpc is idle again.
CondWait(g) ==
  /\ cwpc[g] = "idle"
  /\ cwpc' = [cwpc EXCEPT ![g] = After("call")]
  /\ UNCHANGED ticket

notifyListAdd(g) ==
  /\ cwpc[g] = "add"
  /\ cwpc' = [cwpc EXCEPT ![g] = After("add")]
  /\ ticket' = [ticket EXCEPT ![g] = "added"]
  /\ UNCHANGED L

WaitUnlock(g) ==
  /\ cwpc[g] = "unlock"
  /\ cwpc' = [cwpc EXCEPT ![g] = After("unlock")]
  /\ L' = NoOne /\ UNCHANGED ticket

notifyListWait(g) ==
  /\ cwpc[g] = "sleep" /\ ticket[g] = "notified"
  /\ cwpc' = [cwpc EXCEPT ![g] = "lock"]
  /\ ticket' = [ticket EXCEPT ![g] = "none"]
  /\ UNCHANGED L

WaitLock(g) ==
  /\ cwpc[g] = "lock" /\ L = NoOne
  /\ cwpc' = [cwpc EXCEPT ![g] = "idle"]
  /\ L' = g /\ UNCHANGED ticket

WaitStep(g) == notifyListAdd(g) \/ WaitUnlock(g) \/ notifyListWait(g) \/ WaitLock(g)

\* Every ticket given out so far is notified, its owner asleep or not yet.
Broadcast ==
  ticket' = [g \in Goroutine |-> IF ticket[g] = "none" THEN "none" ELSE "notified"]
=============================================================================
