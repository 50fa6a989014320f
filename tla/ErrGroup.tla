------------------------------ MODULE ErrGroup ------------------------------
(***************************************************************************)
(* xsync1.ErrGroup (src/xsync1/errgroup.go) as WithContext makes it: tasks *)
(* run in goroutines of their own, a WaitGroup counts them, a Once keeps   *)
(* the first error and cancels the context.  The WaitGroup and the Once    *)
(* are the standard library's; module WaitGroup stands for the one, and    *)
(* the steps of xsync/once.go for the other.                               *)
(*                                                                         *)
(* The client: an owner and tasks that run start tasks, and once the owner *)
(* has started its own all the waiters call Wait.  When every Wait has     *)
(* returned, the owner may start the same tasks again.                     *)
(***************************************************************************)
EXTENDS WaitGroup

CONSTANTS Task, Waiter,
          Owner,   \* the waiter that starts tasks
          Group,   \* the WaitGroup of the ErrGroup
          Err,     \* errors
          NoErr,
          Rounds   \* bound: how often the group is used

ASSUME ErrGroupAssumption ==
  /\ Goroutine = Task \cup Waiter /\ Task \cap Waiter = {} /\ Owner \in Waiter
  /\ Group \in WG /\ NoErr \notin Err /\ Rounds \in Nat \ {0}

VARIABLES
  err, cancelled,    \* g.err; whether the context is cancelled
  done, onceMu,      \* g.errOnce: done, and whether its mutex is held
  tpc, terr,         \* where a task is in the goroutine of Go, and the error of its f
  wpc, wret,         \* where a waiter is, and what Wait returned
  round

once == <<done, onceMu>>
tasks == <<tpc, terr>>
waiters == <<wpc, wret, round>>
egvars == <<err, cancelled, once, tasks, waiters>>

EGInit ==
  /\ err = NoErr /\ cancelled = FALSE /\ done = 0 /\ onceMu = FALSE
  /\ tpc = [t \in Task |-> "new"] /\ terr = [t \in Task |-> NoErr]
  /\ wpc = [w \in Waiter |-> "start"] /\ wret = [w \in Waiter |-> NoErr]
  /\ round = 1

TaskGoto(t, l) == tpc' = [tpc EXCEPT ![t] = l]
WaiterGoto(w, l) == wpc' = [wpc EXCEPT ![w] = l]

-----------------------------------------------------------------------------
(* Go *)

\* g starts t: the owner before it waits, or a task that has not ended.
Go(g, t) ==
  /\ tpc[t] = "new"
  /\ \/ g = Owner /\ wpc[g] = "start"
     \/ g \in Task /\ tpc[g] = "run"
  /\ Add(g, Group, 1)
  /\ TaskGoto(t, "run")
  /\ UNCHANGED <<err, cancelled, once, terr, waiters>>

FReturns(t, e) ==
  /\ tpc[t] = "run" /\ wgpc[t] = "idle"
  /\ terr' = [terr EXCEPT ![t] = e]
  /\ TaskGoto(t, IF e = NoErr THEN "leave" ELSE "once")

\* Once.Do.
LoadDone(t) ==
  /\ tpc[t] = "once"
  /\ TaskGoto(t, IF done = 0 THEN "lock" ELSE "leave")
  /\ UNCHANGED <<err, cancelled, once, terr, waiters, wgvars>>

\* A bug: done is not looked at again under the mutex.
MustRun_Always == TRUE

MustRun == done = 0

DoSlow(t) ==
  /\ tpc[t] = "lock" /\ ~onceMu
  /\ onceMu' = TRUE
  /\ TaskGoto(t, IF MustRun THEN "set" ELSE "unlock")
  /\ UNCHANGED <<err, cancelled, done, terr, waiters, wgvars>>

SetErr(t) ==
  /\ tpc[t] = "set"
  /\ err' = terr[t]
  /\ TaskGoto(t, "cancel")
  /\ UNCHANGED <<cancelled, once, terr, waiters, wgvars>>

Cancel(t) ==
  /\ tpc[t] = "cancel"
  /\ cancelled' = TRUE
  /\ TaskGoto(t, "store")
  /\ UNCHANGED <<err, once, terr, waiters, wgvars>>

\* The deferred calls of doSlow, the last first.
StoreDone(t) ==
  /\ tpc[t] = "store"
  /\ done' = 1
  /\ TaskGoto(t, "unlock")
  /\ UNCHANGED <<err, cancelled, onceMu, terr, waiters, wgvars>>

UnlockOnce(t) ==
  /\ tpc[t] = "unlock"
  /\ onceMu' = FALSE
  /\ TaskGoto(t, "leave")
  /\ UNCHANGED <<err, cancelled, done, terr, waiters, wgvars>>

\* The deferred wg.Done().
TaskDone(t) ==
  /\ tpc[t] = "leave"
  /\ Add(t, Group, -1)
  /\ TaskGoto(t, "end")
  /\ UNCHANGED <<err, cancelled, once, terr, waiters>>

-----------------------------------------------------------------------------
(* Wait *)

BeginWait(w) ==
  /\ wpc[w] = "start"
  /\ w # Owner => wpc[Owner] # "start"
  /\ WaitCall(w, Group)
  /\ WaiterGoto(w, "wait")
  /\ UNCHANGED <<err, cancelled, once, tasks, wret, round>>

CancelAfterWait(w) ==
  /\ wpc[w] = "wait" /\ wgpc[w] = "idle"
  /\ cancelled' = TRUE
  /\ WaiterGoto(w, "err")
  /\ UNCHANGED <<err, once, tasks, wret, round, wgvars>>

WaitReturns(w) ==
  /\ wpc[w] = "err"
  /\ wret' = [wret EXCEPT ![w] = err]
  /\ WaiterGoto(w, "returned")
  /\ UNCHANGED <<err, cancelled, once, tasks, round, wgvars>>

AllReturned == \A w \in Waiter : wpc[w] = "returned"

\* The client uses the group again; the error of the first round stays.
NextRound ==
  /\ AllReturned /\ round < Rounds
  /\ round' = round + 1
  /\ wpc' = [w \in Waiter |-> "start"] /\ wret' = [w \in Waiter |-> NoErr]
  /\ tpc' = [t \in Task |-> IF wgpc[t] = "idle" /\ tpc[t] = "end" THEN "new" ELSE tpc[t]]
  /\ UNCHANGED <<err, cancelled, once, terr, wgvars>>

-----------------------------------------------------------------------------
TaskStep(t) == LoadDone(t) \/ DoSlow(t) \/ SetErr(t) \/ Cancel(t) \/ StoreDone(t)
               \/ UnlockOnce(t) \/ TaskDone(t)
WaiterStep(w) == BeginWait(w) \/ CancelAfterWait(w) \/ WaitReturns(w)

\* The variables hold values of their types.
EGTypeOK ==
  /\ err \in Err \cup {NoErr} /\ cancelled \in BOOLEAN
  /\ done \in {0, 1} /\ onceMu \in BOOLEAN
  /\ tpc \in [Task -> {"new", "run", "once", "lock", "set", "cancel", "store", "unlock",
                        "leave", "end"}]
  /\ terr \in [Task -> Err \cup {NoErr}]
  /\ wpc \in [Waiter -> {"start", "wait", "err", "returned"}]
  /\ wret \in [Waiter -> Err \cup {NoErr}] /\ round \in 1 .. Rounds

\* "Wait blocks until all function calls from the Go method have returned, then
\* returns the first non-nil error (if any) from them" (errgroup.go:38-39): for
\* every waiter of every round, the tasks started by other tasks included.
WaitIsRight ==
  \A w \in Waiter : wpc[w] \in {"err", "returned"} =>
    /\ \A t \in Task : tpc[t] \in {"new", "end"}
    /\ err = NoErr => \A t \in Task : terr[t] = NoErr
    /\ wpc[w] = "returned" => wret[w] = err

\* "The first call to return a non-nil error cancels the group; its error will be
\* returned by Wait" (errgroup.go:50-51): once there is an error it stays, however
\* many tasks fail at a time.  And the context is cancelled with that error there or
\* once Wait lets go (errgroup.go:30-32), when no task that was started still runs.
FirstErrorStays ==
  [][/\ err # NoErr => err' = err
     /\ cancelled' # cancelled =>
          err # NoErr \/ \A t \in Task : tpc[t] \in {"new", "end"}]_egvars
=============================================================================
