----------------------------- MODULE WaitGroup -----------------------------
(***************************************************************************)
(* xsync.WaitGroup (src/xsync/waitgroup.go), for the clients that extend   *)
(* this module.  A client calls Add or WaitCall in a step of its own; the  *)
(* call is over when wgpc is idle again.                                   *)
(*                                                                         *)
(* A step is one atomic operation or one plain access to the state word,   *)
(* a Semacquire or a Semrelease.  The word is a record of its two halves,  *)
(* the counter v and the number w of waiters.                              *)
(***************************************************************************)
EXTENDS Sema, FiniteSets

CONSTANTS Goroutine, WG,
          NoWG    \* not in a call of a WaitGroup

ASSUME WaitGroupAssumption == NoWG \notin WG /\ IsFiniteSet(Goroutine)

VARIABLES
  state, sema,  \* the state word and the semaphore of each WaitGroup
  wgpc, wg,     \* where a goroutine is in Add or Wait, and of which WaitGroup
  loaded        \* the state it works with

wgvars == <<state, sema, wgpc, wg, loaded>>

Zero == [v |-> 0, w |-> 0]

WGInit ==
  /\ state = [x \in WG |-> Zero] /\ sema = [x \in WG |-> 0]
  /\ wgpc = [g \in Goroutine |-> "idle"] /\ wg = [g \in Goroutine |-> NoWG]
  /\ loaded = [g \in Goroutine |-> Zero]

\* g goes on at l, in a call on x for which it keeps s.
At(g, l, x, s) ==
  /\ wgpc' = [wgpc EXCEPT ![g] = l]
  /\ wg' = [wg EXCEPT ![g] = IF l = "idle" THEN NoWG ELSE x]
  /\ loaded' = [loaded EXCEPT ![g] = IF l = "idle" THEN Zero ELSE s]

-----------------------------------------------------------------------------
(* Add *)

\* A bug: the waiters are woken before the state is cleared.
Wakeup_First(k) == <<"wake", "reset", "idle">>[k]

\* What the Add that ends a round does, in this order.
Wakeup(k) == <<"reset", "wake", "idle">>[k]

After(l) == Wakeup(1 + CHOOSE k \in 1 .. 2 : Wakeup(k) = l)

Misused(s, delta) == s.v < 0 \/ (s.w # 0 /\ delta > 0 /\ s.v = delta)

Add(g, x, delta) ==
  LET s == [state[x] EXCEPT !.v = @ + delta] IN
  /\ wgpc[g] = "idle"
  /\ state' = [state EXCEPT ![x] = s]
  /\ At(g, IF Misused(s, delta) THEN "panic"
           ELSE IF s.v > 0 \/ s.w = 0 THEN "idle" ELSE "check", x, s)
  /\ UNCHANGED sema

\* The sanity check: nothing has changed the state since the counter was zero.
CheckState(g) ==
  /\ wgpc[g] = "check"
  /\ At(g, IF state[wg[g]] = loaded[g] THEN Wakeup(1) ELSE "panic", wg[g], loaded[g])
  /\ UNCHANGED <<state, sema>>

ResetState(g) ==
  /\ wgpc[g] = "reset"
  /\ state' = [state EXCEPT ![wg[g]] = Zero]
  /\ At(g, After("reset"), wg[g], loaded[g])
  /\ UNCHANGED sema

\* One turn of the loop over the waiters.
Wake(g) ==
  /\ wgpc[g] = "wake"
  /\ sema' = [sema EXCEPT ![wg[g]] = Released(@)]
  /\ At(g, IF loaded[g].w = 1 THEN After("wake") ELSE "wake", wg[g],
        [loaded[g] EXCEPT !.w = @ - 1])
  /\ UNCHANGED state

-----------------------------------------------------------------------------
(* Wait *)

\* A bug: a waiter leaves if it is the first.
MayLeave_NoWaiters(s) == s.w = 0

\* Counter is 0, no need to wait.
MayLeave(s) == s.v = 0

LoadState(g, x) ==
  /\ At(g, IF MayLeave(state[x]) THEN "idle" ELSE "cas", x, state[x])
  /\ UNCHANGED <<state, sema>>

WaitCall(g, x) == wgpc[g] = "idle" /\ LoadState(g, x)

WaitAgain(g) == wgpc[g] = "again" /\ LoadState(g, wg[g])

CountWaiter(g) ==
  /\ wgpc[g] = "cas"
  /\ IF state[wg[g]] = loaded[g]
       THEN state' = [state EXCEPT ![wg[g]].w = @ + 1] /\ At(g, "sem", wg[g], loaded[g])
       ELSE At(g, "again", wg[g], loaded[g]) /\ UNCHANGED state
  /\ UNCHANGED sema

WaitAcquire(g) ==
  /\ wgpc[g] = "sem" /\ CanAcquire(sema[wg[g]])
  /\ sema' = [sema EXCEPT ![wg[g]] = Acquired(@)]
  /\ At(g, "awake", wg[g], loaded[g])
  /\ UNCHANGED state

\* A waiter that finds the state in use again panics.
CheckReuse(g) ==
  /\ wgpc[g] = "awake"
  /\ At(g, IF state[wg[g]] = Zero THEN "idle" ELSE "panic", wg[g], loaded[g])
  /\ UNCHANGED <<state, sema>>

-----------------------------------------------------------------------------
\* The steps of a call that has begun.
WGStep(g) == CheckState(g) \/ ResetState(g) \/ Wake(g)
             \/ WaitAgain(g) \/ CountWaiter(g) \/ WaitAcquire(g) \/ CheckReuse(g)

\* The variables hold values of their types.
WGTypeOK ==
  /\ state \in [WG -> [v : Nat, w : Nat]] /\ sema \in [WG -> Nat]
  /\ wgpc \in [Goroutine -> {"idle", "check", "reset", "wake", "again", "cas", "sem",
                             "awake", "panic"}]
  /\ wg \in [Goroutine -> WG \cup {NoWG}] /\ loaded \in [Goroutine -> [v : Nat, w : Nat]]

\* The checks for misuse never take a client that follows the rules of
\* waitgroup.go:34-42 for one that breaks them.
NoMisuse == \A g \in Goroutine : wgpc[g] # "panic"
=============================================================================
