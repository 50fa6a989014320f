-------------------------------- MODULE Sema --------------------------------
(***************************************************************************)
(* The sleep primitive of xsync: a counting semaphore in a uint32.         *)
(*                                                                         *)
(* xsync/sema.go declares runtime_Semacquire, runtime_SemacquireMutex and  *)
(* runtime_Semrelease with the contract of the Go runtime's functions of   *)
(* those names and gives them empty bodies.  What the bodies stand for is  *)
(* modelled, the runtime's semaphore: Semacquire waits until *s > 0 and    *)
(* then decrements it in one step, Semrelease increments it.  A waiter     *)
(* that was woken competes for the token with goroutines that arrive       *)
(* (handoff is false in every call of this package), so there is no queue. *)
(***************************************************************************)
EXTENDS Integers

\* A caller of Semacquire may proceed; Acquired(s) is what it leaves.
CanAcquire(s) == s > 0

Acquired(s) == s - 1

Released(s) == s + 1
=============================================================================
