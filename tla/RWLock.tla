------------------------------- MODULE RWLock -------------------------------
(***************************************************************************)
(* What a reader/writer lock promises: it is held by any number of readers *)
(* or by one writer.  xsync.RWMutex is shown to implement this             *)
(* specification.                                                          *)
(***************************************************************************)
CONSTANTS Goroutine, None

VARIABLES readers,  \* the goroutines that hold the lock for reading
          writer    \* the goroutine that holds it for writing, or None

lock == <<readers, writer>>

Init ==
  /\ readers = {}
  /\ writer = None

AcquireRead(g) ==
  /\ writer = None
  /\ g \notin readers
  /\ readers' = readers \cup {g}
  /\ UNCHANGED writer

ReleaseRead(g) ==
  /\ g \in readers
  /\ readers' = readers \ {g}
  /\ UNCHANGED writer

AcquireWrite(g) ==
  /\ writer = None
  /\ readers = {}
  /\ writer' = g
  /\ UNCHANGED readers

ReleaseWrite(g) ==
  /\ writer = g
  /\ writer' = None
  /\ UNCHANGED readers

Next ==
  \E g \in Goroutine :
    AcquireRead(g) \/ ReleaseRead(g) \/ AcquireWrite(g) \/ ReleaseWrite(g)

Spec == Init /\ [][Next]_lock
=============================================================================
