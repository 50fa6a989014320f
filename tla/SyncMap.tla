------------------------------- MODULE SyncMap -------------------------------
(***************************************************************************)
(* xsync.Map (src/xsync/map.go, map_load.go, map_store.go, map_delete.go). *)
(*                                                                         *)
(* A step is what other goroutines can tell apart: one atomic operation on *)
(* read or on an entry, or a stretch under mu that holds at most one of    *)
(* them.  Accesses to dirty and misses happen under mu and belong to the   *)
(* step before or after them.                                              *)
(*                                                                         *)
(* A Go map is a function on the set of its keys.  The pointer in an entry *)
(* is the value it points to: two stores of one value are one pointer      *)
(* here, which can only make a compare-and-swap succeed that the code      *)
(* would repeat, with the same effect.                                     *)
(***************************************************************************)
EXTENDS Integers, FiniteSets, Functions

CONSTANTS
  Goroutine,
  Key,
  Value,
  Entry,        \* the heap cells that newEntry allocates
  Nil,          \* the nil pointer, and a nil map
  Expunged,
  None          \* no goroutine, no entry, no call

ASSUME SyncMapAssumption ==
  /\ {Nil, Expunged, None} \cap (Value \cup Goroutine \cup Entry) = {}
  /\ Nil # Expunged /\ None \notin Key
  /\ \A K \in SUBSET Key : Nil \notin [K -> Entry]
  /\ IsFiniteSet(Key) /\ IsFiniteSet(Goroutine) /\ IsFiniteSet(Entry)
  /\ Cardinality(Entry) > Cardinality(Key) + Cardinality(Goroutine)

VARIABLES
  p,        \* the pointer in each entry
  read,     \* the read-only map and its amended flag
  dirty,    \* the dirty map, or Nil
  misses,
  mu,       \* the holder of the mutex, or None
  todo,     \* the keys of read that dirtyLocked has still to visit
  cur,      \* the key whose nil it is about to expunge, or None
  pc,       \* where each goroutine is
  call,     \* its call: method, key and value
  e,        \* the entry it works on
  old,      \* the pointer it loaded from that entry
  out       \* the result of the Load or Delete it returned from, or Nil

vars == <<p, read, dirty, misses, mu, todo, cur, pc, call, e, old, out>>
maps == <<read, dirty, misses, todo, cur>>

(***************************************************************************)
(*   lookup     has called, about to load read                             *)
(*   lock       missed in read, waiting for mu                             *)
(*   load       Load, about to load the pointer of e                       *)
(*   try, cas   Store, in tryStore on e                                    *)
(*   take, clear  Delete, in delete on e                                   *)
(*   copy, expunge   Store, holds mu, in the loop of dirtyLocked           *)
(*   put        Store, holds mu, about to store into e                     *)
(*   panic      assigned to a key of a nil map                             *)
(***************************************************************************)
PC == {"idle", "lookup", "lock", "load", "try", "cas", "take", "clear",
       "copy", "expunge", "put", "panic"}

Call ==
  [op : {"Load", "Delete"}, key : Key, val : {Nil}] \cup [op : {"Store"}, key : Key, val : Value]

ASSUME CallAssumption == None \notin Call

NoKeys == [k \in {} |-> None]

Init ==
  /\ p = [n \in Entry |-> Nil]
  /\ read = [m |-> NoKeys, amended |-> FALSE]
  /\ dirty = Nil
  /\ misses = 0
  /\ mu = None
  /\ todo = {} /\ cur = None
  /\ pc = [g \in Goroutine |-> "idle"]
  /\ call = [g \in Goroutine |-> None]
  /\ e = [g \in Goroutine |-> None]
  /\ old = [g \in Goroutine |-> Nil]
  /\ out = [g \in Goroutine |-> Nil]

Dirty == IF dirty = Nil THEN NoKeys ELSE dirty
InRead(k) == k \in DOMAIN read.m
InDirty(k) == k \in DOMAIN Dirty

Live(v) == v \notin {Nil, Expunged}

With(m, k, n) == [j \in DOMAIN m \cup {k} |-> IF j = k THEN n ELSE m[j]]
Without(m, k) == Restrict(m, DOMAIN m \ {k})

CopyOfRead_Forgets(k) == dirty
CopyOfRead_NewEntry(k) ==
  With(dirty, k, CHOOSE n \in Entry : n \notin Range(read.m) \cup Range(Dirty) \cup Range(e))

\* dirty once the entry that read has for k is in it too.
CopyOfRead(k) == With(dirty, k, read.m[k])

Goto(g, l) == pc' = [pc EXCEPT ![g] = l]
Found(g, n, l) == e' = [e EXCEPT ![g] = n] /\ Goto(g, l)

Return(g) ==
  /\ Goto(g, "idle")
  /\ call' = [call EXCEPT ![g] = None]
  /\ e' = [e EXCEPT ![g] = None]
  /\ old' = [old EXCEPT ![g] = Nil]

Result(g, v) == Return(g) /\ out' = [out EXCEPT ![g] = v]

\* The entries that some map or goroutine still points to.
Reachable == Range(read.m) \cup Range(Dirty) \cup Range(e)

Fresh == CHOOSE n \in Entry : n \notin Reachable

\* The heap becomes h; a cell that nobody points to any more is collected.
Heap(h) == p' = [n \in Entry |-> IF n \in Reachable' THEN h[n] ELSE Nil]
-----------------------------------------------------------------------------
(* Calls and the lookup in read, without the mutex. *)

Begin(g, c) ==
  /\ pc[g] = "idle"
  /\ call' = [call EXCEPT ![g] = c]
  /\ out' = [out EXCEPT ![g] = Nil]
  /\ Goto(g, "lookup")
  /\ UNCHANGED <<p, maps, mu, e, old>>

\* Load and Delete go on with the entry in read, take the mutex if dirty may
\* have the key, or find that there is none.
Lookup(g) ==
  LET k == call[g].key IN
  /\ pc[g] = "lookup"
  /\ call[g].op # "Store"
  /\ \/ /\ InRead(k)
        /\ Found(g, read.m[k], IF call[g].op = "Load" THEN "load" ELSE "take")
        /\ UNCHANGED <<call, old, out>>
     \/ /\ ~InRead(k)
        /\ read.amended
        /\ Goto(g, "lock")
        /\ UNCHANGED <<call, e, old, out>>
     \/ /\ ~InRead(k)
        /\ ~read.amended
        /\ Result(g, Nil)
  /\ UNCHANGED <<p, maps, mu>>

StoreLookup(g) ==
  LET k == call[g].key IN
  /\ pc[g] = "lookup"
  /\ call[g].op = "Store"
  /\ IF InRead(k) THEN Found(g, read.m[k], "try") ELSE Goto(g, "lock") /\ UNCHANGED e
  /\ UNCHANGED <<p, maps, mu, call, old, out>>
-----------------------------------------------------------------------------
(* Load and Delete under the mutex. *)

Promoted(d) == [m |-> d, amended |-> FALSE]

\* What misses, dirty and read become when a call found d as the dirty map
\* and was not served by read: after as many misses as d has keys, d becomes
\* the read map.
missLocked(d) ==
  IF misses + 1 < Cardinality(DOMAIN d)
    THEN /\ misses' = misses + 1
         /\ dirty' = IF dirty = Nil THEN Nil ELSE d
         /\ UNCHANGED read
    ELSE /\ misses' = 0
         /\ dirty' = Nil
         /\ read' = Promoted(d)

\* The entry may have come to read while the goroutine waited for mu.
LoadLocked(g) ==
  LET k == call[g].key IN
  /\ pc[g] = "lock" /\ call[g].op = "Load"
  /\ UNCHANGED <<mu, todo, cur>>
  /\ mu = None
  /\ \/ /\ InRead(k)
        /\ Found(g, read.m[k], "load")
        /\ UNCHANGED <<read, dirty, misses, call, old, out>>
     \/ /\ ~InRead(k) /\ read.amended
        /\ missLocked(Dirty)
        /\ IF InDirty(k) THEN Found(g, Dirty[k], "load") /\ UNCHANGED <<call, old, out>>
                         ELSE Result(g, Nil)
     \/ /\ ~InRead(k) /\ ~read.amended
        /\ Result(g, Nil)
        /\ UNCHANGED <<read, dirty, misses>>
  /\ Heap(p)

\* A key that only dirty has leaves it here; its entry is emptied later,
\* without the mutex.
DeleteLocked(g) ==
  LET k == call[g].key IN
  /\ pc[g] = "lock" /\ call[g].op = "Delete"
  /\ UNCHANGED <<mu, todo, cur>>
  /\ mu = None
  /\ \/ /\ InRead(k)
        /\ Found(g, read.m[k], "take")
        /\ UNCHANGED <<read, dirty, misses, call, old, out>>
     \/ /\ ~InRead(k) /\ read.amended
        /\ missLocked(Without(Dirty, k))
        /\ IF InDirty(k) THEN Found(g, Dirty[k], "take") /\ UNCHANGED <<call, old, out>>
                         ELSE Result(g, Nil)
     \/ /\ ~InRead(k) /\ ~read.amended
        /\ Result(g, Nil)
        /\ UNCHANGED <<read, dirty, misses>>
  /\ Heap(p)
-----------------------------------------------------------------------------
(* entry.load and entry.delete. *)

LoadEntry(g) ==
  /\ pc[g] = "load"
  /\ UNCHANGED <<maps, mu>>
  /\ Result(g, IF Live(p[e[g]]) THEN p[e[g]] ELSE Nil)
  /\ Heap(p)

CASHolds_Always(g) == TRUE

CASHolds(g) == p[e[g]] = old[g]

DeleteLoad(g) ==
  /\ pc[g] = "take"
  /\ UNCHANGED <<maps, mu>>
  /\ \/ /\ Live(p[e[g]])
        /\ old' = [old EXCEPT ![g] = p[e[g]]]
        /\ Goto(g, "clear")
        /\ UNCHANGED <<call, e, out>>
     \/ /\ ~Live(p[e[g]])
        /\ Result(g, Nil)
  /\ Heap(p)

\* The compare-and-swap that takes the value.
DeleteCAS(g) ==
  /\ pc[g] = "clear"
  /\ UNCHANGED <<maps, mu>>
  /\ \/ /\ CASHolds(g)
        /\ Result(g, old[g])
        /\ Heap([p EXCEPT ![e[g]] = Nil])
     \/ /\ ~CASHolds(g)
        /\ old' = [old EXCEPT ![g] = Nil]
        /\ Goto(g, "take")
        /\ UNCHANGED <<p, call, e, out>>
-----------------------------------------------------------------------------
(* Store. *)

TryStoreLoad(g) ==
  /\ pc[g] = "try"
  /\ UNCHANGED <<maps, mu, call, out>>
  /\ IF p[e[g]] = Expunged
       THEN /\ Found(g, None, "lock")
            /\ UNCHANGED old
            /\ Heap(p)
       ELSE /\ old' = [old EXCEPT ![g] = p[e[g]]]
            /\ Goto(g, "cas")
            /\ UNCHANGED <<p, e>>

TryStoreCAS(g) ==
  /\ pc[g] = "cas"
  /\ UNCHANGED <<maps, mu, out>>
  /\ \/ /\ CASHolds(g)
        /\ Return(g)
        /\ Heap([p EXCEPT ![e[g]] = call[g].val])
     \/ /\ ~CASHolds(g)
        /\ old' = [old EXCEPT ![g] = Nil]
        /\ Goto(g, "try")
        /\ UNCHANGED <<p, call, e>>

\* Under mu, the key is in read.  unexpungeLocked comes with the insertion
\* into dirty that has to follow it.
StoreInRead(g) ==
  LET k == call[g].key IN
  /\ pc[g] = "lock" /\ call[g].op = "Store"
  /\ mu = None
  /\ InRead(k)
  /\ IF p[read.m[k]] = Expunged
       THEN /\ p' = [p EXCEPT ![read.m[k]] = Nil]
            /\ IF dirty = Nil THEN Found(g, read.m[k], "panic") /\ UNCHANGED dirty
                              ELSE Found(g, read.m[k], "put") /\ dirty' = CopyOfRead(k)
       ELSE /\ Found(g, read.m[k], "put")
            /\ UNCHANGED <<p, dirty>>
  /\ mu' = g
  /\ UNCHANGED <<read, misses, todo, cur, call, old, out>>

StorePut(g) ==
  /\ pc[g] = "put"
  /\ UNCHANGED <<maps, out>>
  /\ mu' = None
  /\ Return(g)
  /\ Heap([p EXCEPT ![e[g]] = call[g].val])

StoreInDirty(g) ==
  LET k == call[g].key IN
  /\ pc[g] = "lock" /\ call[g].op = "Store"
  /\ mu = None
  /\ ~InRead(k) /\ InDirty(k)
  /\ p' = [p EXCEPT ![Dirty[k]] = call[g].val]
  /\ Return(g)
  /\ UNCHANGED <<maps, mu, out>>

\* Assigning newEntry(value) to dirty[key] ends the call.
Insert(g) ==
  IF dirty = Nil
    THEN Goto(g, "panic") /\ UNCHANGED <<p, dirty, call, e, old>>
    ELSE /\ dirty' = With(dirty, call[g].key, Fresh)
         /\ p' = [p EXCEPT ![Fresh] = call[g].val]
         /\ Return(g)

StoreNew(g) ==
  LET k == call[g].key IN
  /\ pc[g] = "lock" /\ call[g].op = "Store"
  /\ mu = None
  /\ ~InRead(k) /\ ~InDirty(k)
  /\ \/ /\ read.amended
        /\ Insert(g)
        /\ UNCHANGED <<mu, todo>>
     \/ /\ ~read.amended
        /\ mu' = g
        /\ IF dirty = Nil THEN dirty' = NoKeys /\ todo' = DOMAIN read.m
                          ELSE UNCHANGED <<dirty, todo>>
        /\ Goto(g, "copy")
        /\ UNCHANGED <<p, call, e, old>>
  /\ UNCHANGED <<read, misses, cur, out>>

\* dirtyLocked visits the next key of read, in the arbitrary order of a Go
\* map: tryExpungeLocked loads the pointer.
DirtyVisit(g, k) ==
  /\ pc[g] = "copy"
  /\ k \in todo
  /\ todo' = todo \ {k}
  /\ IF p[read.m[k]] = Nil
       THEN /\ cur' = k
            /\ Goto(g, "expunge")
            /\ UNCHANGED dirty
       ELSE /\ dirty' = IF p[read.m[k]] = Expunged THEN dirty ELSE CopyOfRead(k)
            /\ UNCHANGED <<cur, pc>>
  /\ UNCHANGED <<p, read, misses, mu, call, e, old, out>>

\* tryExpungeLocked's compare-and-swap of nil.  It fails when a tryStore came
\* between; the loop then loads the new pointer and keeps the entry.
DirtyExpunge(g) ==
  LET n == read.m[cur] IN
  /\ pc[g] = "expunge"
  /\ IF p[n] = Nil THEN p' = [p EXCEPT ![n] = Expunged] /\ UNCHANGED dirty
                   ELSE dirty' = CopyOfRead(cur) /\ UNCHANGED p
  /\ cur' = None
  /\ Goto(g, "copy")
  /\ UNCHANGED <<read, misses, mu, todo, call, e, old, out>>

Amended(rd) == [rd EXCEPT !.amended = TRUE]

\* read is marked as amended, the new key goes to dirty.
StoreInsert(g) ==
  /\ pc[g] = "copy"
  /\ todo = {}
  /\ read' = Amended(read)
  /\ Insert(g)
  /\ mu' = None
  /\ UNCHANGED <<misses, todo, cur, out>>
-----------------------------------------------------------------------------
Locked(g) == LoadLocked(g) \/ DeleteLocked(g) \/ StoreInRead(g) \/ StoreInDirty(g) \/ StoreNew(g)

Unlocked(g) ==
  \/ Lookup(g) \/ StoreLookup(g)
  \/ LoadEntry(g) \/ DeleteLoad(g) \/ DeleteCAS(g) \/ TryStoreLoad(g) \/ TryStoreCAS(g)

Holding(g) ==
  \/ StorePut(g) \/ StoreInsert(g)
  \/ (\E k \in todo : DirtyVisit(g, k)) \/ DirtyExpunge(g)

Next == \E g \in Goroutine : (\E c \in Call : Begin(g, c)) \/ Unlocked(g) \/ Locked(g) \/ Holding(g)

Spec == Init /\ [][Next]_vars
-----------------------------------------------------------------------------
(* Properties *)

\* The variables hold values of their types.
TypeOK ==
  /\ p \in [Entry -> Value \cup {Nil, Expunged}]
  /\ DOMAIN read.m \subseteq Key /\ Range(read.m) \subseteq Entry
  /\ read.amended \in BOOLEAN
  /\ dirty # Nil => DOMAIN dirty \subseteq Key /\ Range(dirty) \subseteq Entry
  /\ misses \in Nat
  /\ mu \in Goroutine \cup {None}
  /\ todo \subseteq Key /\ cur \in Key \cup {None}
  /\ pc \in [Goroutine -> PC]
  /\ call \in [Goroutine -> Call \cup {None}]
  /\ e \in [Goroutine -> Entry \cup {None}]
  /\ old \in [Goroutine -> Value \cup {Nil}]
  /\ out \in [Goroutine -> Value \cup {Nil}]

\* The keys that dirtyLocked has still to decide on.
Pending == todo \cup (IF cur = None THEN {} ELSE {cur})

\* A key that read and dirty both have has one entry, the same in both
\* (map.go:10), and two keys never share one.
SameEntry ==
  /\ \A k \in DOMAIN read.m \cap DOMAIN Dirty : read.m[k] = Dirty[k]
  /\ \A j, k \in DOMAIN read.m \cup DOMAIN Dirty :
       \A m, n \in {read.m, Dirty} :
         j \in DOMAIN m /\ k \in DOMAIN n /\ m[j] = n[k] => j = k

\* The states of an entry of read that map.go:46 and :80-90 document.  While
\* dirty exists, it has exactly the entries of read that are not expunged,
\* but for those that dirtyLocked has not come to; without dirty nothing is
\* expunged.
EntryStates ==
  \A k \in DOMAIN read.m \ Pending :
    IF p[read.m[k]] = Expunged THEN dirty # Nil /\ ~InDirty(k)
                               ELSE dirty = Nil \/ InDirty(k)

\* dirty has a key that read lacks only while read says so (map.go:69), so
\* that a lookup without the mutex never misses a key; and a read that is
\* amended always has a dirty map behind it.
AmendedSaysSo ==
  /\ DOMAIN Dirty \subseteq DOMAIN read.m \/ read.amended
  /\ read.amended => dirty # Nil

\* No Store assigns to a key of a nil map, which would panic with mu held.
NoNilMapWrite == \A g \in Goroutine : pc[g] # "panic"

\* The map is well formed whatever has been done to it: each of the above.
WellFormed == TypeOK /\ SameEntry /\ AmendedSaysSo /\ NoNilMapWrite

\* An entry that was removed from the map while it still has its value
\* belongs to one Delete, and no Store can write to it any more.
OrphanHasOneOwner ==
  \A n \in Range(e) \ ({None} \cup Range(read.m) \cup Range(Dirty)) :
    Live(p[n]) =>
      /\ \A g \in Goroutine : e[g] = n => pc[g] \notin {"try", "cas", "put"}
      /\ \E g \in Goroutine :
           /\ e[g] = n /\ pc[g] \in {"take", "clear"}
           /\ \A h \in Goroutine : e[h] = n /\ pc[h] \in {"take", "clear"} => h = g

\* What becomes of an entry between its Store and its last Load or Delete.
EntriesRight == EntryStates /\ OrphanHasOneOwner
=============================================================================
