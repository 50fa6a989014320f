-------------------------------- MODULE Pool --------------------------------
(***************************************************************************)
(* xsync/pool.go and pool_cleanup.go: a pool of items with one array of    *)
(* per-P slots (local), the array of the previous collection cycle         *)
(* (victim), stealing, and poolCleanup run with the world stopped.         *)
(*                                                                         *)
(* A step is one load or store that another goroutine can see, an          *)
(* operation on a poolChain (one step: see PoolChain), or a section that   *)
(* allPoolsMu or the stopped world protects.  procPin and procUnpin are    *)
(* the runtime's: a pinned goroutine has its P to itself and the world     *)
(* cannot be stopped.  One Pool is modelled; pools share only allPoolsMu.  *)
(***************************************************************************)
EXTENDS Integers, Sequences, FiniteSets, SequencesExt

CONSTANTS Goroutine, Item, None,
          Array,   \* the arrays p.local and p.victim can point to
          Procs    \* the values GOMAXPROCS takes

ASSUME PoolAssumption ==
  /\ None \notin Goroutine \cup Item \cup Array \cup Nat
  /\ Procs # {} /\ Procs \subseteq Nat \ {0} /\ IsFiniteSet(Procs)

MaxProcs == CHOOSE n \in Procs : \A m \in Procs : m <= n
Pid == 0 .. MaxProcs - 1
NoLocals == [l |-> None, s |-> 0, i |-> 0]

Blank == [i \in Pid |-> None]
Drained == [i \in Pid |-> <<>>]

VARIABLES
  procs,               \* GOMAXPROCS
  local, localSize,    \* p.local and p.localSize
  victim, victimSize,  \* p.victim and p.victimSize
  len, private, shared,  \* the arrays: length, private and shared of each entry
  mu,                  \* who holds allPoolsMu
  allPools, oldPools,  \* how often p is in either list
  pc, item,            \* each goroutine: where it is, its item
  pin,                 \* the P it is pinned to
  pid,                 \* the index of the P it believes it has
  loc,                 \* its copies: an array, a size, the counter of a loop
  held                 \* the items that users of the pool have

globals == <<procs, local, localSize, victim, victimSize>>
arrays == <<len, private, shared>>
lists == <<mu, allPools, oldPools>>
locals == <<pc, item, pin, pid, loc>>
vars == <<globals, arrays, lists, locals, held>>

Init ==
  /\ procs \in Procs
  /\ local = None /\ localSize = 0 /\ victim = None /\ victimSize = 0
  /\ len = [a \in Array |-> 0]
  /\ private = [a \in Array |-> Blank]
  /\ shared = [a \in Array |-> Drained]
  /\ mu = None /\ allPools = 0 /\ oldPools = 0
  /\ pc = [g \in Goroutine |-> "idle"] /\ item = [g \in Goroutine |-> None]
  /\ pin = [g \in Goroutine |-> None] /\ pid = [g \in Goroutine |-> 0]
  /\ loc = [g \in Goroutine |-> NoLocals]
  /\ held = {}

(***************************************************************************)
(* The runtime.                                                            *)
(***************************************************************************)
Goto(g, l) == pc' = [pc EXCEPT ![g] = l]
FreeP == {i \in 0 .. procs - 1 : \A h \in Goroutine : pin[h] # i}
Pin(g, i) == i \in FreeP /\ pin' = [pin EXCEPT ![g] = i]
Unpin(g) == pin' = [pin EXCEPT ![g] = None]

\* Where x is: in the private field of a P, or at a position of its shared list.
InArrays(A, x) ==
  {w \in A \X Pid : private[w[1]][w[2]] = x} \cup
  UNION {{<<a, i, k>> : k \in {n \in DOMAIN shared[a][i] : shared[a][i][n] = x}} :
           a \in A, i \in Pid}

\* The collector frees the arrays and items that nobody refers to any more.
LiveArrays == {local, victim} \cup {loc[g].l : g \in Goroutine}
Fresh == Array \ LiveArrays
Places(x) == InArrays(Array \ Fresh, x)
Free(x) == /\ x \notin held /\ Places(x) = {} /\ \A g \in Goroutine : item[g] # x

\* Changes of GOMAXPROCS stop the world, as collections do.
WorldStopped == \A g \in Goroutine : pin[g] = None

SetProcs ==
  /\ WorldStopped
  /\ procs' \in Procs \ {procs}
  /\ UNCHANGED <<local, localSize, victim, victimSize, arrays, lists, locals, held>>

LeftInAllPools == 0

\* The collection that begins with poolCleanup frees the other arrays: the world
\* is stopped, and no goroutine that is not pinned has a copy of one.
Collect(kept) ==
  /\ len' = [a \in Array |-> IF a \in kept THEN len[a] ELSE 0]
  /\ private' = [a \in Array |-> IF a \in kept THEN private[a] ELSE Blank]
  /\ shared' = [a \in Array |-> IF a \in kept THEN shared[a] ELSE Drained]

poolCleanup ==
  /\ WorldStopped
  /\ allPools > 0 \/ oldPools > 0
  /\ IF allPools > 0
       THEN /\ victim' = local /\ victimSize' = localSize
            /\ local' = None /\ localSize' = 0
       ELSE /\ victim' = None /\ victimSize' = 0
            /\ UNCHANGED <<local, localSize>>
  /\ oldPools' = allPools /\ allPools' = LeftInAllPools
  /\ Collect({local', victim'} \cup {loc[g].l : g \in Goroutine})
  /\ UNCHANGED <<procs, mu, locals, held>>

(***************************************************************************)
(* pin and pinSlow.                                                        *)
(***************************************************************************)
\* pin takes a P and loads localSize.
PinSize(g) ==
  /\ pc[g] = "idle" /\ Goto(g, "pinLocal")
  /\ \E i \in FreeP : Pin(g, i) /\ pid' = [pid EXCEPT ![g] = i]
  /\ loc' = [loc EXCEPT ![g].s = localSize]
  /\ UNCHANGED <<globals, arrays, lists>>

Put(g, x) ==
  /\ x \in held /\ held' = held \ {x}
  /\ item' = [item EXCEPT ![g] = x]
  /\ PinSize(g)

Get(g) == PinSize(g) /\ UNCHANGED <<item, held>>

PinLocal(g) ==
  /\ pc[g] = "pinLocal" /\ Goto(g, "pinned")
  /\ loc' = [loc EXCEPT ![g].l = local]
  /\ UNCHANGED <<globals, arrays, lists, item, pin, pid, held>>

\* A bug: localSize is loaded after local.
SizeSeen_Late(g) == localSize

SizeSeen(g) == loc[g].s

\* Where Put and Get go on once they have their poolLocal.
AfterPin(g) == IF item[g] = None THEN "getPrivate" ELSE "putPrivate"

PinFast(g) ==
  /\ pc[g] = "pinned" /\ pid[g] < SizeSeen(g)
  /\ Goto(g, AfterPin(g))
  /\ UNCHANGED <<globals, arrays, lists, item, pin, pid, loc, held>>

PinSlow(g) ==
  /\ pc[g] = "pinned" /\ pid[g] >= SizeSeen(g)
  /\ Unpin(g) /\ Goto(g, "lock")
  /\ loc' = [loc EXCEPT ![g] = NoLocals]
  /\ UNCHANGED <<globals, arrays, lists, item, pid, held>>

Lock(g) ==
  /\ pc[g] = "lock" /\ mu = None
  /\ mu' = g /\ Goto(g, "repin")
  /\ UNCHANGED <<globals, arrays, allPools, oldPools, item, pin, pid, loc, held>>

\* A bug: pinSlow goes on with the P it had before it was unpinned.
NewPid_Old(g, i) == pid[g]

NewPid(g, i) == i

\* Under the mutex and pinned, nobody else changes local or localSize.
Repin(g) ==
  /\ pc[g] = "repin"
  /\ \E i \in FreeP :
       /\ Pin(g, i) /\ pid' = [pid EXCEPT ![g] = NewPid(g, i)]
       /\ IF NewPid(g, i) < localSize
            THEN /\ loc' = [loc EXCEPT ![g].l = local]
                 /\ mu' = None /\ Goto(g, AfterPin(g))
            ELSE Goto(g, "register") /\ UNCHANGED <<loc, mu>>
  /\ UNCHANGED <<globals, arrays, allPools, oldPools, item, held>>

MustRegister == local = None

Register(g) ==
  /\ pc[g] = "register" /\ Goto(g, "storeSize")
  /\ allPools' = IF MustRegister THEN allPools + 1 ELSE allPools
  /\ \E a \in Fresh :
       /\ len' = [len EXCEPT ![a] = procs]
       /\ private' = [private EXCEPT ![a] = Blank]
       /\ shared' = [shared EXCEPT ![a] = Drained]
       /\ loc' = [loc EXCEPT ![g].l = a]
       /\ local' = a
  /\ UNCHANGED <<procs, localSize, victim, victimSize, mu, oldPools, item, pin, pid, held>>

StoreSize(g) ==
  /\ pc[g] = "storeSize" /\ Goto(g, AfterPin(g))
  /\ localSize' = len[loc[g].l]
  /\ mu' = None
  /\ UNCHANGED <<procs, local, victim, victimSize, arrays, allPools, oldPools, item, pin, pid, loc, held>>

(***************************************************************************)
(* Put.                                                                    *)
(***************************************************************************)
Private(g) == private[loc[g].l][pid[g]]
SetPrivate(g, x) == private' = [private EXCEPT ![loc[g].l][pid[g]] = x]

\* The end of Put: procUnpin.
Done(g) ==
  /\ Unpin(g) /\ Goto(g, "idle")
  /\ item' = [item EXCEPT ![g] = None]
  /\ pid' = [pid EXCEPT ![g] = 0] /\ loc' = [loc EXCEPT ![g] = NoLocals]

PutPrivate(g) ==
  /\ pc[g] = "putPrivate"
  /\ Goto(g, IF Private(g) = None THEN "setPrivate" ELSE "pushShared")
  /\ UNCHANGED <<globals, arrays, lists, item, pin, pid, loc, held>>

StorePrivate(g) ==
  /\ pc[g] = "setPrivate"
  /\ SetPrivate(g, item[g])
  /\ Done(g)
  /\ UNCHANGED <<globals, len, shared, lists, held>>

PushShared(g) ==
  /\ pc[g] = "pushShared"
  /\ shared' = [shared EXCEPT ![loc[g].l][pid[g]] = Append(@, item[g])]
  /\ Done(g)
  /\ UNCHANGED <<globals, len, private, lists, held>>

(***************************************************************************)
(* Get and getSlow.                                                        *)
(***************************************************************************)
GetPrivate(g) ==
  /\ pc[g] = "getPrivate" /\ Goto(g, "clearPrivate")
  /\ item' = [item EXCEPT ![g] = Private(g)]
  /\ UNCHANGED <<globals, arrays, lists, pin, pid, loc, held>>

\* A bug: Get leaves the item it returns in the slot.
Emptied_Kept(g) == item[g]

Emptied(g) == None

ClearPrivate(g) ==
  /\ pc[g] = "clearPrivate"
  /\ SetPrivate(g, Emptied(g))
  /\ Goto(g, IF item[g] = None THEN "popShared" ELSE "got")
  /\ UNCHANGED <<globals, len, shared, lists, item, pin, pid, loc, held>>

PopShared(g) ==
  /\ pc[g] = "popShared"
  /\ LET s == shared[loc[g].l][pid[g]] IN
       \/ /\ s # <<>> /\ Goto(g, "got")
          /\ item' = [item EXCEPT ![g] = Last(s)]
          /\ shared' = [shared EXCEPT ![loc[g].l][pid[g]] = Front(@)]
       \/ s = <<>> /\ Goto(g, "slowSize") /\ UNCHANGED <<item, shared>>
  /\ UNCHANGED <<globals, len, private, lists, pin, pid, loc, held>>

SlowSize(g) ==
  /\ pc[g] = "slowSize" /\ Goto(g, "slowLocal")
  /\ loc' = [loc EXCEPT ![g].s = localSize]
  /\ UNCHANGED <<globals, arrays, lists, item, pin, pid, held>>

SlowLocal(g) ==
  /\ pc[g] = "slowLocal" /\ Goto(g, "steal")
  /\ loc' = [loc EXCEPT ![g].l = local]
  /\ UNCHANGED <<globals, arrays, lists, item, pin, pid, held>>

\* One turn of a loop that tries popTail on the shared lists of an array, the
\* next one at index j; `more' and `end' are where it goes on without an item.
Steal(g, j, more, end) ==
  \/ /\ loc[g].i < loc[g].s
     /\ LET s == shared[loc[g].l][j] IN
          \/ /\ s # <<>> /\ Goto(g, "got")
             /\ item' = [item EXCEPT ![g] = Head(s)]
             /\ shared' = [shared EXCEPT ![loc[g].l][j] = Tail(@)]
             /\ UNCHANGED loc
          \/ /\ s = <<>> /\ Goto(g, more)
             /\ loc' = [loc EXCEPT ![g].i = @ + 1]
             /\ UNCHANGED <<item, shared>>
  \/ /\ loc[g].i = loc[g].s /\ Goto(g, end)
     /\ loc' = [loc EXCEPT ![g].i = 0]
     /\ UNCHANGED <<item, shared>>

StealLocal(g) ==
  /\ pc[g] = "steal"
  /\ Steal(g, (pid[g] + loc[g].i + 1) % loc[g].s, "steal", "victim")
  /\ UNCHANGED <<globals, len, private, lists, pin, pid, held>>

\* victim itself changes only with the world stopped.
Victim(g) ==
  /\ pc[g] = "victim"
  /\ loc' = [loc EXCEPT ![g] = [l |-> victim, s |-> victimSize, i |-> 0]]
  /\ Goto(g, IF pid[g] >= victimSize THEN "none" ELSE "victimPrivate")
  /\ UNCHANGED <<globals, arrays, lists, item, pin, pid, held>>

VictimPrivate(g) ==
  /\ pc[g] = "victimPrivate"
  /\ item' = [item EXCEPT ![g] = Private(g)]
  /\ Goto(g, IF Private(g) = None THEN "victimSteal" ELSE "clearVictim")
  /\ UNCHANGED <<globals, arrays, lists, pin, pid, loc, held>>

ClearVictim(g) ==
  /\ pc[g] = "clearVictim" /\ Goto(g, "got")
  /\ SetPrivate(g, None)
  /\ UNCHANGED <<globals, len, shared, lists, item, pin, pid, loc, held>>

StealVictim(g) ==
  /\ pc[g] = "victimSteal"
  /\ Steal(g, (pid[g] + loc[g].i) % loc[g].s, "victimSteal", "mark")
  /\ UNCHANGED <<globals, len, private, lists, pin, pid, held>>

MarkVictimEmpty(g) ==
  /\ pc[g] = "mark" /\ Goto(g, "none")
  /\ victimSize' = 0
  /\ UNCHANGED <<procs, local, localSize, victim, arrays, lists, item, pin, pid, loc, held>>

\* Get returns the item it has, what New makes, or nothing if New is nil.
Got(g) ==
  /\ pc[g] = "got"
  /\ held' = held \cup {item[g]}
  /\ Done(g)
  /\ UNCHANGED <<globals, arrays, lists>>

GotNew(g) ==
  /\ pc[g] = "none"
  /\ \/ \E x \in Item : Free(x) /\ held' = held \cup {x}
     \/ UNCHANGED held
  /\ Done(g)
  /\ UNCHANGED <<globals, arrays, lists>>

\* Users drop items they do not put back.
Drop(x) ==
  /\ x \in held /\ held' = held \ {x}
  /\ UNCHANGED <<globals, arrays, lists, locals>>

-----------------------------------------------------------------------------
PinStep(g) == PinLocal(g) \/ PinFast(g) \/ PinSlow(g) \/ Lock(g)
              \/ Repin(g) \/ Register(g) \/ StoreSize(g)
PutStep(g) == PutPrivate(g) \/ StorePrivate(g) \/ PushShared(g)
GetStep(g) == GetPrivate(g) \/ ClearPrivate(g) \/ PopShared(g) \/ SlowSize(g) \/ SlowLocal(g)
              \/ StealLocal(g) \/ Victim(g) \/ VictimPrivate(g) \/ ClearVictim(g)
              \/ StealVictim(g) \/ MarkVictimEmpty(g) \/ Got(g) \/ GotNew(g)

Next == \/ \E g \in Goroutine : Get(g) \/ (\E x \in Item : Put(g, x))
        \/ \E g \in Goroutine : PinStep(g) \/ PutStep(g) \/ GetStep(g)
        \/ \E x \in Item : Drop(x)
        \/ SetProcs \/ poolCleanup

Spec == Init /\ [][Next]_vars

-----------------------------------------------------------------------------
(***************************************************************************)
(* Properties.                                                             *)
(***************************************************************************)
\* The fields of the pool, the arrays and the goroutines keep to their values.
TypeOK ==
  /\ procs \in Procs
  /\ local \in Array \cup {None} /\ localSize \in Procs \cup {0}
  /\ victim \in Array \cup {None} /\ victimSize \in Procs \cup {0}
  /\ len \in [Array -> Procs \cup {0}]
  /\ private \in [Array -> [Pid -> Item \cup {None}]]
  /\ shared \in [Array -> [Pid -> Seq(Item)]]
  /\ mu \in Goroutine \cup {None} /\ allPools \in 0 .. 1 /\ oldPools \in 0 .. 1
  /\ item \in [Goroutine -> Item \cup {None}]
  /\ pin \in [Goroutine -> Pid \cup {None}] /\ pid \in [Goroutine -> Pid]
  /\ loc \in [Goroutine -> [l : Array \cup {None}, s : Procs \cup {0}, i : 0 .. MaxProcs]]
  /\ held \subseteq Item

\* An item that a goroutine has read from a private slot is still in that slot.
InHand(g) == IF pc[g] \in {"clearPrivate", "clearVictim"} THEN None ELSE item[g]

\* An item is in one place only: with a user, with an operation, or in one slot
\* of an array that is still in use.  So no two calls of Get return the same
\* item unless it was put back in between.
HandedOutOnce ==
  \A x \in Item :
    (IF x \in held THEN 1 ELSE 0) + Cardinality({g \in Goroutine : InHand(g) = x})
      + Cardinality(Places(x)) <= 1

\* The comment at pool.go:175-178 (pin: "here we must observe local at least as
\* large localSize"): an index is never out of the range of its array, although
\* local and localSize are two loads and another goroutine stores them meanwhile.
IndexInRange ==
  \A g \in Goroutine :
    /\ pc[g] \in {"getPrivate", "clearPrivate", "popShared", "putPrivate", "setPrivate",
                  "pushShared", "victimPrivate", "clearVictim"}
         => loc[g].l # None /\ pid[g] < len[loc[g].l]
    /\ pc[g] \in {"steal", "victimSteal"} /\ loc[g].s > 0
         => loc[g].l # None /\ loc[g].s <= len[loc[g].l]

\* What a poolChain relies on (pool_queue.go:78-80, pool.go:64: "Local P can
\* pushHead/popHead"): one producer at a time.  A slot's private field has one
\* user at a time as well, although it is read and written without synchronization.
OwnSlot(g) == pc[g] \in {"getPrivate", "clearPrivate", "popShared", "putPrivate",
                         "setPrivate", "pushShared", "victimPrivate", "clearVictim"}
SingleProducer ==
  \A g, h \in Goroutine :
    g # h /\ OwnSlot(g) /\ OwnSlot(h) => <<loc[g].l, pid[g]>> # <<loc[h].l, pid[h]>>

\* The comments at pool.go:216-224: allPools is the set of pools that have a
\* primary cache and oldPools has those with a victim cache, each of them once.
\* A pool that was missing would keep its items for ever; one that was there
\* twice would lose its victim cache at once.
ListsRight ==
  /\ allPools = IF local = None THEN 0 ELSE 1
  /\ victim # None => oldPools = 1

\* The pool's fields agree with each other and with the lists it is in.
FieldsRight == TypeOK /\ IndexInRange /\ ListsRight
=============================================================================
