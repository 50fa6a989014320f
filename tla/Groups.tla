------------------------------- MODULE Groups -------------------------------
(***************************************************************************)
(* The two groups of xsync1 at work together: every task of an ErrGroup    *)
(* calls Do of one SingleFlightGroup and fails, with an error of its own,  *)
(* if Do does.                                                             *)
(***************************************************************************)
EXTENDS ErrGroup, SingleFlight

ASSUME GroupsAssumption == NoErr \in Result /\ Group \notin Cell

vars == <<wgvars, egvars, sfvars>>

Init == WGInit /\ EGInit /\ SFInit

\* The function of t, between the steps of Go.
Call(t, k) == tpc[t] = "run" /\ wgpc[t] = "idle" /\ Do(t, k) /\ UNCHANGED egvars

Return(t) ==
  /\ sfpc[t] = "returned"
  /\ \E e \in IF ret[t].res = NoErr THEN {NoErr} ELSE Err : FReturns(t, e)
  /\ UNCHANGED <<err, cancelled, once, waiters, wgvars, sfvars>>

\* A task that is started again calls Do again.
Restart ==
  /\ NextRound
  /\ sfpc' = [g \in Goroutine |-> IF g \in Task /\ tpc'[g] = "new" THEN "idle" ELSE sfpc[g]]
  /\ key' = [g \in Goroutine |-> IF g \in Task /\ tpc'[g] = "new" THEN None ELSE key[g]]
  /\ ret' = [g \in Goroutine |-> IF g \in Task /\ tpc'[g] = "new" THEN Nothing ELSE ret[g]]
  /\ UNCHANGED <<m, val, dups>>

\* Only the calls end that the client makes, after the last round.
Finished == AllReturned /\ round = Rounds /\ UNCHANGED vars

Next ==
  \/ \E g \in Goroutine, t \in Task : Go(g, t) /\ (g \in Task => sfpc[g] = "idle")
                                      /\ UNCHANGED sfvars
  \/ \E t \in Task, k \in Key : Call(t, k)
  \/ \E t \in Task : (SFStep(t) /\ UNCHANGED egvars) \/ Return(t)
                     \/ (TaskStep(t) /\ UNCHANGED sfvars)
  \/ \E w \in Waiter : WaiterStep(w) /\ UNCHANGED sfvars
  \/ \E g \in Goroutine : WGStep(g) /\ UNCHANGED <<egvars, sfvars>>
  \/ Restart
  \/ Finished

Spec == Init /\ [][Next]_vars

\* The variables have their types and WaitGroup's checks do not fire, although
\* tasks are added while others wait and the group is used again.
GroupsInv == WGTypeOK /\ EGTypeOK /\ SFTypeOK /\ NoMisuse
=============================================================================
