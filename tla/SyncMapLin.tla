----------------------------- MODULE SyncMapLin -----------------------------
(***************************************************************************)
(* SyncMap is linearizable: it implements AtomicMap.                       *)
(***************************************************************************)
EXTENDS SyncMap

VARIABLE seen   \* the values the key of a pending call has had since the call

linvars == <<vars, seen>>

\* What the map holds: the entry of read, or else the entry of dirty.
Contents ==
  [k \in Key |->
     LET v == IF InRead(k) THEN p[read.m[k]] ELSE IF InDirty(k) THEN p[Dirty[k]] ELSE Nil
     IN IF Live(v) THEN v ELSE Nil]

\* A Delete that has taken an entry out of dirty holds what it points to.
Taken ==
  [g \in Goroutine |->
     IF /\ pc[g] \in {"take", "clear"}
        /\ e[g] \notin Range(read.m) \cup Range(Dirty)
        /\ Live(p[e[g]])
     THEN p[e[g]] ELSE Nil]

LinInit == Init /\ seen = [g \in Goroutine |-> {}]

LinNext ==
  /\ Next
  /\ seen' = [g \in Goroutine |->
                IF call'[g] = None THEN {}
                ELSE (IF call[g] = None THEN {} ELSE seen[g]) \cup {Contents'[call'[g].key]}]

LinSpec == LinInit /\ [][LinNext]_linvars

Atomic == INSTANCE AtomicMap WITH contents <- Contents, taken <- Taken

\* Each step of the code changes what the map holds only as the one effect
\* of a pending Store or Delete, a value is taken by one Delete, and no call
\* returns a value its key did not have while the call was pending, whatever
\* stale snapshot of read, or entry removed since, it worked on.
Linearizable == Atomic!Spec
=============================================================================
