----------------------------- MODULE Semaphores -----------------------------
(***************************************************************************)
(* What a pollDesc promises to its reader and its writer                   *)
(* (netpoll0.go:39): a binary semaphore for each.  A notification that     *)
(* nobody waits for is kept until it is consumed, further ones add nothing *)
(* to it, and nobody sleeps while there is one.                            *)
(***************************************************************************)
CONSTANT Waiter

VARIABLES ready, asleep

Init == ready = [x \in Waiter |-> FALSE] /\ asleep = [x \in Waiter |-> FALSE]

Notify(x) ==
  /\ ready' = [ready EXCEPT ![x] = TRUE]
  /\ asleep' = [asleep EXCEPT ![x] = FALSE]

Consume(x) ==
  /\ ready[x] /\ ~asleep[x]
  /\ ready' = [ready EXCEPT ![x] = FALSE]
  /\ UNCHANGED asleep

Sleep(x) ==
  /\ ~ready[x] /\ ~asleep[x]
  /\ asleep' = [asleep EXCEPT ![x] = TRUE]
  /\ UNCHANGED ready

Next == \E x \in Waiter : Notify(x) \/ Consume(x) \/ Sleep(x)

Spec == Init /\ [][Next]_<<ready, asleep>>
=============================================================================
