---------------------------- MODULE SingleFlight ----------------------------
(***************************************************************************)
(* xsync1.SingleFlightGroup (src/xsync1/singleflight.go): one execution of *)
(* fn for all the callers of a key.  A call object has a WaitGroup, the    *)
(* standard library's, which module WaitGroup stands for.                  *)
(*                                                                         *)
(* The section under g.mu is one step.  Key, what fn returns and who calls *)
(* Do are up to the client; a panic of fn ends the program.                *)
(***************************************************************************)
EXTENDS WaitGroup, Functions

CONSTANTS Key, Result,
          Cell,   \* the call objects, which have a WaitGroup each
          None    \* no call, no result

ASSUME SingleFlightAssumption == Cell \subseteq WG /\ None \notin Cell \cup Result

VARIABLES
  m,          \* g.m: the call of each key, or None
  val, dups,  \* c.val with c.err, and c.dups
  sfpc, key,  \* where a goroutine is in Do, and its key
  ret         \* what Do returned to it: the result and shared

sfvars == <<m, val, dups, sfpc, key, ret>>

Nothing == [res |-> None, shared |-> FALSE]

SFInit ==
  /\ m = [k \in Key |-> None]
  /\ val = [c \in Cell |-> None] /\ dups = [c \in Cell |-> 0]
  /\ sfpc = [g \in Goroutine |-> "idle"] /\ key = [g \in Goroutine |-> None]
  /\ ret = [g \in Goroutine |-> Nothing]

SFGoto(g, l) == sfpc' = [sfpc EXCEPT ![g] = l]
Mine(g) == m[key[g]]

\* The key is there: whether its call is in flight or over, its result is used.
Join(g, k) ==
  /\ sfpc[g] = "idle" /\ m[k] # None
  /\ dups' = [dups EXCEPT ![m[k]] = @ + 1]
  /\ key' = [key EXCEPT ![g] = k]
  /\ SFGoto(g, "join")
  /\ UNCHANGED <<m, val, ret, wgvars>>

JoinWait(g) ==
  /\ sfpc[g] = "join"
  /\ WaitCall(g, Mine(g))
  /\ SFGoto(g, "joined")
  /\ UNCHANGED <<m, val, dups, key, ret>>

DoReturns(g, shared) ==
  /\ ret' = [ret EXCEPT ![g] = [res |-> val[Mine(g)], shared |-> shared]]
  /\ SFGoto(g, "returned")
  /\ UNCHANGED <<m, val, dups, key, wgvars>>

Joined(g) == sfpc[g] = "joined" /\ wgpc[g] = "idle" /\ DoReturns(g, TRUE)

\* A bug: the waiters are let go before there is a result.
Leader_DoneFirst(k) == <<"done", "fn", "led">>[k]

\* What the first caller does after it has published the call.
Leader(k) == <<"fn", "done", "led">>[k]

AfterLeader(l) == Leader(1 + CHOOSE k \in 1 .. 2 : Leader(k) = l)

\* The key is new: this goroutine makes the call and publishes it.
Lead(g, k) ==
  /\ sfpc[g] = "idle" /\ m[k] = None
  /\ \E c \in Cell \ Range(m) : m' = [m EXCEPT ![k] = c] /\ Add(g, c, 1)
  /\ key' = [key EXCEPT ![g] = k]
  /\ SFGoto(g, Leader(1))
  /\ UNCHANGED <<val, dups, ret>>

Execute(g) ==
  /\ sfpc[g] = "fn" /\ wgpc[g] = "idle"
  /\ \E res \in Result : val' = [val EXCEPT ![Mine(g)] = res]
  /\ SFGoto(g, AfterLeader("fn"))
  /\ UNCHANGED <<m, dups, key, ret, wgvars>>

CallDone(g) ==
  /\ sfpc[g] = "done"
  /\ Add(g, Mine(g), -1)
  /\ SFGoto(g, AfterLeader("done"))
  /\ UNCHANGED <<m, val, dups, key, ret>>

\* dups is read without the mutex.
Led(g) == sfpc[g] = "led" /\ wgpc[g] = "idle" /\ DoReturns(g, dups[Mine(g)] > 0)

Do(g, k) == Join(g, k) \/ Lead(g, k)
SFStep(g) == JoinWait(g) \/ Joined(g) \/ Execute(g) \/ CallDone(g) \/ Led(g)

\* The variables hold values of their types.
SFTypeOK ==
  /\ m \in [Key -> Cell \cup {None}]
  /\ val \in [Cell -> Result \cup {None}] /\ dups \in [Cell -> Nat]
  /\ sfpc \in [Goroutine -> {"idle", "join", "joined", "fn", "done", "led", "returned"}]
  /\ key \in [Goroutine -> Key \cup {None}]
  /\ ret \in [Goroutine -> [res : Result \cup {None}, shared : BOOLEAN]]

\* "If a duplicate comes in, the duplicate caller waits for the original to
\* complete and receives the same results" (singleflight.go:46-47): whoever
\* returns from Do has what the one execution of fn for its key returned.
SameResult ==
  /\ \A g, h \in Goroutine :
       sfpc[g] \in {"fn", "done"} /\ sfpc[h] \in {"fn", "done"} /\ key[g] = key[h] => g = h
  /\ \A g \in Goroutine :
       sfpc[g] = "returned" => ret[g].res # None /\ ret[g].res = val[Mine(g)]
=============================================================================
