------------------------------ MODULE AtomicMap ------------------------------
(***************************************************************************)
(* What a concurrent map promises.  A Store and a Delete that finds a      *)
(* value take effect in one step between their call and their return; a    *)
(* Load, and a Delete that finds nothing, return what the key held at some *)
(* moment between the two.  This is linearizability, with the moments at   *)
(* which a call that changes nothing may be placed kept in seen.           *)
(***************************************************************************)
CONSTANTS Goroutine, Key, Value, Nil, None

VARIABLES
  contents,   \* the value of each key, or Nil
  call,       \* the pending call of each goroutine, or None
  taken,      \* the value a pending Delete has removed, or Nil
  seen,       \* the values the key of a pending call has had since the call
  out         \* the result each goroutine returned with, until its next call

amap == <<contents, call, taken, seen, out>>

Call ==
  [op : {"Load", "Delete"}, key : Key, val : {Nil}] \cup [op : {"Store"}, key : Key, val : Value]

Init ==
  /\ contents = [k \in Key |-> Nil]
  /\ call = [g \in Goroutine |-> None]
  /\ taken = [g \in Goroutine |-> Nil]
  /\ seen = [g \in Goroutine |-> {}]
  /\ out = [g \in Goroutine |-> Nil]

\* Every pending call sees what its key holds after the step.
Witness ==
  seen' = [g \in Goroutine |->
             IF call'[g] = None THEN {}
             ELSE (IF call[g] = None THEN {} ELSE seen[g]) \cup {contents'[call'[g].key]}]

Begin(g, c) ==
  /\ call[g] = None
  /\ call' = [call EXCEPT ![g] = c]
  /\ out' = [out EXCEPT ![g] = Nil]
  /\ UNCHANGED <<contents, taken>>

Write(g) ==
  /\ call[g] # None /\ call[g].op = "Store"
  /\ contents' = [contents EXCEPT ![call[g].key] = call[g].val]
  /\ call' = [call EXCEPT ![g] = None]
  /\ UNCHANGED <<taken, out>>

\* A Delete removes a value, and returns it now or later.
Take(g) ==
  /\ call[g] # None /\ call[g].op = "Delete"
  /\ taken[g] = Nil
  /\ contents[call[g].key] # Nil
  /\ contents' = [contents EXCEPT ![call[g].key] = Nil]
  /\ \/ /\ out' = [out EXCEPT ![g] = contents[call[g].key]]
        /\ call' = [call EXCEPT ![g] = None]
        /\ UNCHANGED taken
     \/ /\ taken' = [taken EXCEPT ![g] = contents[call[g].key]]
        /\ UNCHANGED <<call, out>>

ReturnTaken(g) ==
  /\ taken[g] # Nil
  /\ out' = [out EXCEPT ![g] = taken[g]]
  /\ taken' = [taken EXCEPT ![g] = Nil]
  /\ call' = [call EXCEPT ![g] = None]
  /\ UNCHANGED contents

ReturnRead(g, v) ==
  /\ call[g] # None /\ taken[g] = Nil
  /\ v \in seen[g]
  /\ call[g].op = "Load" \/ (call[g].op = "Delete" /\ v = Nil)
  /\ out' = [out EXCEPT ![g] = v]
  /\ call' = [call EXCEPT ![g] = None]
  /\ UNCHANGED <<contents, taken>>

Next ==
  \E g \in Goroutine :
    /\ \/ \E c \in Call : Begin(g, c)
       \/ Write(g) \/ Take(g) \/ ReturnTaken(g)
       \/ \E v \in Value \cup {Nil} : ReturnRead(g, v)
    /\ Witness

Spec == Init /\ [][Next]_amap
=============================================================================
