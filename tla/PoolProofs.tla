----------------------------- MODULE PoolProofs -----------------------------
(***************************************************************************)
(* The Pool is right for any goroutines, items and arrays and any values   *)
(* of GOMAXPROCS: its fields fit each other, a poolLocal has one user at a *)
(* time, and no item is handed out twice.                                  *)
(***************************************************************************)
EXTENDS Pool, FiniteSetTheorems, WellFoundedInduction, NaturalsInduction, SequenceTheorems, TLAPS

-----------------------------------------------------------------------------
(***************************************************************************)
(* The inductive invariant.                                                *)
(***************************************************************************)
Unpinned == {"idle", "lock", "repin"}
Labels == Unpinned \cup
  {"pinLocal", "pinned", "register", "storeSize", "putPrivate", "setPrivate", "pushShared",
   "getPrivate", "clearPrivate", "popShared", "slowSize", "slowLocal", "steal", "victim",
   "victimPrivate", "clearVictim", "victimSteal", "mark", "got", "none"}

\* What a goroutine has of the runtime and of allPoolsMu, and how far it is in a loop.
Placed(g) ==
  /\ pin[g] = IF pc[g] \in Unpinned THEN None ELSE pid[g]
  /\ pc[g] \notin Unpinned => pid[g] < procs
  /\ pc[g] \in {"repin", "register", "storeSize"} => mu = g
  /\ pc[g] \in {"idle", "lock", "repin", "register"} => loc[g] = NoLocals
  /\ pc[g] \notin {"steal", "victimSteal", "got"} => loc[g].i = 0
  /\ pc[g] \in {"steal", "victimSteal"} => loc[g].i <= loc[g].s

\* Whether it has an item, and that nobody touches what it reads from a private field.
Carries(g) ==
  /\ pc[g] \in {"idle", "getPrivate", "popShared", "slowSize", "slowLocal", "steal", "victim",
                "victimPrivate", "victimSteal", "mark", "none"} => item[g] = None
  /\ pc[g] \in {"putPrivate", "setPrivate", "pushShared", "got", "clearVictim"} => item[g] # None
  /\ pc[g] \in {"clearPrivate", "clearVictim"} => item[g] = private[loc[g].l][pid[g]]

\* An array and the size that is believed of it.
Fits(a, n) == IF a = None THEN n = 0 ELSE n <= len[a]

\* The array and the size it has loaded fit although they are two loads, since
\* localSize only grows while anybody is pinned.
Sized(g) ==
  /\ pc[g] \in {"pinLocal", "slowLocal"} => loc[g].s <= localSize
  /\ pc[g] = "register" => localSize <= pid[g]
  /\ pc[g] = "storeSize" => loc[g].l = local /\ local # None /\ pid[g] < len[local]
  /\ pc[g] \in {"pinned", "steal", "victimPrivate", "victimSteal"} => Fits(loc[g].l, loc[g].s)
  /\ OwnSlot(g) => loc[g].l # None /\ pid[g] < len[loc[g].l]

Right(g) == Placed(g) /\ Carries(g) /\ Sized(g)

\* A P has one goroutine pinned to it.
OwnP == \A g, h \in Goroutine : pin[g] # None /\ pin[g] = pin[h] => g = h

Bookkeeping ==
  /\ TypeOK /\ pc \in [Goroutine -> Labels]
  /\ OwnP
  /\ Fits(local, localSize) /\ Fits(victim, victimSize) /\ ListsRight
  /\ \A g \in Goroutine : Right(g)

\* Where x is in the arrays that are in use.
InPrivate(x, a, i) == a \notin Fresh /\ private[a][i] = x
InShared(x, a, i, k) == a \notin Fresh /\ k \in DOMAIN shared[a][i] /\ shared[a][i][k] = x

\* x is in one place only.
Once(x) ==
  /\ x \in held => \A g \in Goroutine : InHand(g) # x
  /\ \A g, h \in Goroutine : InHand(g) = x /\ InHand(h) = x => g = h
  /\ \A a \in Array, i \in Pid : InPrivate(x, a, i) =>
       /\ x \notin held /\ \A g \in Goroutine : InHand(g) # x
       /\ \A b \in Array, j \in Pid : InPrivate(x, b, j) => a = b /\ i = j
  /\ \A a \in Array, i \in Pid, k \in Nat : InShared(x, a, i, k) =>
       /\ x \notin held /\ \A g \in Goroutine : InHand(g) # x
       /\ \A b \in Array, j \in Pid : ~InPrivate(x, b, j)
       /\ \A b \in Array, j \in Pid, l \in Nat : InShared(x, b, j, l) => a = b /\ i = j /\ k = l

\* The inductive invariant: an item stays in one place because a private field
\* has one user at a time, and that because of the pins.
IInv == Bookkeeping /\ \A x \in Item : Once(x)

-----------------------------------------------------------------------------
(***************************************************************************)
(* Constants.                                                              *)
(***************************************************************************)
\* A finite, nonempty set of numbers has a greatest.
LEMMA Greatest ==
  ASSUME NEW S \in SUBSET Nat, IsFiniteSet(S), S # {}
  PROVE  \E n \in S : \A m \in S : m <= n
<1> DEFINE Bad == {n \in Nat : \E T \in SUBSET Nat : /\ IsFiniteSet(T) /\ T # {} /\ Cardinality(T) = n
                                                 /\ ~ \E y \in T : \A m \in T : m <= y}
           R == OpToRel(<, Nat)
<1>1. SUFFICES ASSUME Bad # {} PROVE FALSE
  <2>1. Cardinality(S) \in Nat
    BY FS_CardinalityType
  <2> QED
    BY <2>1
<1>2. \E n \in Bad : \A k \in Bad : ~ (k < n)
  <2>1. IsWellFoundedOn(R, Nat)
    BY NatLessThanWellFounded
  <2>2. \A x, y \in Nat : y < x => <<y, x>> \in R
    BY DEF OpToRel
  <2> Bad \subseteq Nat
    OBVIOUS
  <2> HIDE DEF R, Bad
  <2>3. \E x \in Bad : \A y \in Bad : ~ (<<y, x>> \in R)
    BY <1>1, <2>1, WFMin
  <2> QED
    BY <2>2, <2>3
<1>3. PICK n \in Bad : \A k \in Bad : ~ (k < n)
  BY <1>2
<1>4. PICK T \in SUBSET Nat : /\ IsFiniteSet(T) /\ T # {} /\ Cardinality(T) = n
                              /\ ~ \E y \in T : \A m \in T : m <= y
  BY <1>3
<1>5. PICK x \in T : TRUE
  BY <1>4
<1>6. IsFiniteSet(T \ {x}) /\ Cardinality(T \ {x}) = n - 1
  BY <1>4, <1>5, FS_RemoveElement
<1>7. T \ {x} # {}
  BY <1>4, <1>5
<1>8. n - 1 \in Nat
  BY <1>6, FS_CardinalityType
<1>9. PICK y \in T \ {x} : \A m \in T \ {x} : m <= y
  <2>1. n - 1 \notin Bad
    BY <1>3, <1>8
  <2> QED
    BY <1>6, <1>7, <1>8, <2>1
<1>10. x \in Nat /\ y \in Nat /\ T \subseteq Nat
  BY <1>5, <1>9
<1> QED
  BY <1>4, <1>5, <1>9, <1>10

\* GOMAXPROCS and what else is constant.
LEMMA Constants ==
  /\ MaxProcs \in Procs /\ MaxProcs \in Nat \ {0}
  /\ \A n \in Procs : n \in Nat \ {0} /\ n <= MaxProcs
  /\ Pid = 0 .. MaxProcs - 1 /\ 0 \in Pid
  /\ None \notin Goroutine /\ None \notin Item /\ None \notin Array /\ None \notin Pid
  /\ None \notin Nat
  /\ NoLocals = [l |-> None, s |-> 0, i |-> 0]
<1>1. \E n \in Procs : \A m \in Procs : m <= n
  BY Greatest, PoolAssumption
<1>2. MaxProcs \in Procs /\ \A m \in Procs : m <= MaxProcs
  BY <1>1 DEF MaxProcs
<1>3. MaxProcs \in Nat \ {0} /\ \A n \in Procs : n \in Nat \ {0}
  BY <1>2, PoolAssumption
<1>4. Pid = 0 .. MaxProcs - 1
  BY DEF Pid
<1> HIDE DEF MaxProcs
<1> QED
  BY <1>2, <1>3, <1>4, PoolAssumption DEF NoLocals

\* The types that the steps of g need.
LEMMA Types ==
  ASSUME Bookkeeping, NEW g \in Goroutine
  PROVE  /\ pc[g] \in Labels /\ item[g] \in Item \cup {None} /\ pid[g] \in Pid /\ pid[g] \in Nat
         /\ loc[g] \in [l : Array \cup {None}, s : Procs \cup {0}, i : 0 .. MaxProcs]
         /\ loc[g].l \in Array \cup {None} /\ loc[g].s \in Procs \cup {0} /\ loc[g].s \in Nat
         /\ loc[g].i \in Nat /\ loc[g].i <= MaxProcs /\ loc[g].s <= MaxProcs
         /\ procs \in Procs /\ procs \in Nat /\ procs <= MaxProcs
         /\ localSize \in Nat /\ victimSize \in Nat /\ localSize <= MaxProcs
         /\ localSize \in Procs \cup {0} /\ victimSize \in Procs \cup {0}
         /\ local \in Array \cup {None} /\ victim \in Array \cup {None}
         /\ \A a \in Array : len[a] \in Nat /\ len[a] \in Procs \cup {0} /\ len[a] <= MaxProcs
         /\ \A a \in Array, i \in Pid : private[a][i] \in Item \cup {None}
         /\ \A a \in Array, i \in Pid : shared[a][i] \in Seq(Item)
         /\ Right(g)
<1>1. TypeOK /\ pc \in [Goroutine -> Labels] /\ Right(g)
  BY DEF Bookkeeping
<1>2. /\ pc[g] \in Labels /\ item[g] \in Item \cup {None} /\ pid[g] \in Pid
      /\ loc[g] \in [l : Array \cup {None}, s : Procs \cup {0}, i : 0 .. MaxProcs]
      /\ local \in Array \cup {None} /\ victim \in Array \cup {None} /\ procs \in Procs
      /\ localSize \in Procs \cup {0} /\ victimSize \in Procs \cup {0}
      /\ \A a \in Array : len[a] \in Procs \cup {0}
      /\ \A a \in Array, i \in Pid : private[a][i] \in Item \cup {None}
      /\ \A a \in Array, i \in Pid : shared[a][i] \in Seq(Item)
  BY <1>1 DEF TypeOK
<1>3. /\ \A i \in Pid : i \in Nat
      /\ \A n \in Procs \cup {0} : n \in Nat /\ n <= MaxProcs
      /\ \A i \in 0 .. MaxProcs : i \in Nat /\ i <= MaxProcs
  BY Constants
<1>4. /\ loc[g].l \in Array \cup {None} /\ loc[g].s \in Procs \cup {0}
      /\ loc[g].i \in 0 .. MaxProcs
  BY <1>2
<1>5. /\ pid[g] \in Nat /\ loc[g].s \in Nat /\ loc[g].s <= MaxProcs
      /\ loc[g].i \in Nat /\ loc[g].i <= MaxProcs
      /\ procs \in Nat /\ procs <= MaxProcs /\ localSize \in Nat /\ localSize <= MaxProcs
      /\ victimSize \in Nat
  BY <1>2, <1>3, <1>4
<1>6. \A a \in Array : len[a] \in Nat /\ len[a] <= MaxProcs
  BY <1>2, <1>3
<1> QED
  BY <1>1, <1>2, <1>4, <1>5, <1>6

-----------------------------------------------------------------------------
(***************************************************************************)
(* The goroutines that do not move.                                        *)
(***************************************************************************)
\* Nothing that h relies on changes.
LEMMA Stays ==
  ASSUME Bookkeeping, NEW h \in Goroutine,
         pc'[h] = pc[h], item'[h] = item[h], pin'[h] = pin[h], pid'[h] = pid[h], loc'[h] = loc[h],
         pc[h] \notin Unpinned => procs' = procs /\ localSize' \in Nat /\ localSize <= localSize',
         pc[h] \in {"repin", "register", "storeSize"} => mu' = mu,
         pc[h] \in {"register", "storeSize"} => local' = local /\ localSize' = localSize,
         loc[h].l # None => len'[loc[h].l] = len[loc[h].l],
         pc[h] \in {"clearPrivate", "clearVictim"} =>
           private'[loc[h].l][pid[h]] = private[loc[h].l][pid[h]]
  PROVE  Right(h)'
<1>1. Right(h) /\ localSize \in Nat /\ loc[h].s \in Nat
  BY Types
<1>2. Placed(h)'
  BY <1>1 DEF Right, Placed, Unpinned
<1>3. Carries(h)'
  BY <1>1 DEF Right, Carries
<1>4. Sized(h)'
  BY <1>1 DEF Right, Sized, Unpinned, Fits, OwnSlot
<1> QED
  BY <1>2, <1>3, <1>4 DEF Right

\* Two goroutines that use a private field do not use the same one.
LEMMA OwnFields ==
  ASSUME Bookkeeping, NEW g \in Goroutine, NEW h \in Goroutine, g # h,
         pc[g] \notin Unpinned, pc[h] \notin Unpinned
  PROVE  pid[g] # pid[h]
<1>1. pin[g] = pid[g] /\ pin[h] = pid[h] /\ pid[g] # None
  BY Constants DEF Bookkeeping, Right, Placed, TypeOK
<1> QED
  BY <1>1 DEF Bookkeeping, OwnP

\* A step of g that leaves the fields of the pool and the lengths alone.
LEMMA Quiet ==
  ASSUME Bookkeeping, NEW g \in Goroutine, UNCHANGED <<globals, len, lists>>, OwnP',
         \A h \in Goroutine \ {g} : /\ pc'[h] = pc[h] /\ item'[h] = item[h] /\ pin'[h] = pin[h]
                                    /\ pid'[h] = pid[h] /\ loc'[h] = loc[h],
         \A h \in Goroutine \ {g} : pc[h] \in {"clearPrivate", "clearVictim"} =>
           private'[loc[h].l][pid[h]] = private[loc[h].l][pid[h]],
         TypeOK', pc' \in [Goroutine -> Labels], Right(g)'
  PROVE  Bookkeeping'
<1>1. ASSUME NEW h \in Goroutine \ {g} PROVE Right(h)'
  <2>1. localSize \in Nat
    BY Types
  <2> QED
    BY <2>1, Stays DEF globals, lists
<1>2. Fits(local, localSize)' /\ Fits(victim, victimSize)' /\ ListsRight'
  BY DEF Bookkeeping, Fits, ListsRight, globals, lists
<1> QED
  BY <1>1, <1>2 DEF Bookkeeping

\* A step of g that leaves the arrays alone, too.
LEMMA Reading ==
  ASSUME Bookkeeping, NEW g \in Goroutine, UNCHANGED <<globals, arrays, lists, pin>>,
         NEW l \in Labels, pc' = [pc EXCEPT ![g] = l],
         NEW x \in Item \cup {None}, item' = [item EXCEPT ![g] = x],
         NEW c \in [l : Array \cup {None}, s : Procs \cup {0}, i : 0 .. MaxProcs],
         loc' = [loc EXCEPT ![g] = c],
         UNCHANGED pid, held' \subseteq Item, Right(g)'
  PROVE  Bookkeeping'
<1>1. TypeOK' /\ pc' \in [Goroutine -> Labels]
  BY DEF Bookkeeping, TypeOK, globals, arrays, lists
<1>2. \A h \in Goroutine \ {g} : /\ pc'[h] = pc[h] /\ item'[h] = item[h] /\ pin'[h] = pin[h]
                                 /\ pid'[h] = pid[h] /\ loc'[h] = loc[h]
  BY DEF Bookkeeping, TypeOK
<1>3. OwnP'
  BY DEF Bookkeeping, OwnP
<1> QED
  BY <1>1, <1>2, <1>3, Quiet DEF arrays

-----------------------------------------------------------------------------
(***************************************************************************)
(* pin and pinSlow.                                                        *)
(***************************************************************************)
\* Everybody but g stays where it is when g is pinned to a free P.
LEMMA PinIsOwn ==
  ASSUME Bookkeeping, NEW g \in Goroutine, NEW i \in FreeP, Pin(g, i)
  PROVE  /\ i \in Pid /\ i < procs /\ OwnP' /\ pin' \in [Goroutine -> Pid \cup {None}]
         /\ pin'[g] = i /\ \A h \in Goroutine \ {g} : pin'[h] = pin[h]
<1>1. i \in 0 .. procs - 1 /\ \A h \in Goroutine : pin[h] # i
  BY DEF FreeP
<1>2. i \in Pid /\ i < procs
  BY <1>1, Constants DEF Bookkeeping, TypeOK
<1>3. pin \in [Goroutine -> Pid \cup {None}] /\ pin' = [pin EXCEPT ![g] = i]
  BY DEF Bookkeeping, TypeOK, Pin
<1> QED
  BY <1>1, <1>2, <1>3 DEF Bookkeeping, OwnP

LEMMA UnpinIsOwn ==
  ASSUME Bookkeeping, NEW g \in Goroutine, Unpin(g)
  PROVE  /\ OwnP' /\ pin' \in [Goroutine -> Pid \cup {None}]
         /\ pin'[g] = None /\ \A h \in Goroutine \ {g} : pin'[h] = pin[h]
<1>1. pin \in [Goroutine -> Pid \cup {None}] /\ pin' = [pin EXCEPT ![g] = None]
  BY DEF Bookkeeping, TypeOK, Unpin
<1> QED
  BY <1>1 DEF Bookkeeping, OwnP

LEMMA PinSizeRight ==
  ASSUME Bookkeeping, NEW g \in Goroutine, PinSize(g),
         NEW x \in Item \cup {None}, item' = [item EXCEPT ![g] = x], held' \subseteq Item
  PROVE  Bookkeeping'
<1>1. PICK i \in FreeP : Pin(g, i) /\ pid' = [pid EXCEPT ![g] = i]
  BY DEF PinSize
<1>2. /\ i \in Pid /\ i < procs /\ OwnP' /\ pin' \in [Goroutine -> Pid \cup {None}]
      /\ pin'[g] = i /\ \A h \in Goroutine \ {g} : pin'[h] = pin[h]
  BY <1>1, PinIsOwn
<1>3. /\ pc[g] = "idle" /\ pc' = [pc EXCEPT ![g] = "pinLocal"]
      /\ loc' = [loc EXCEPT ![g].s = localSize] /\ UNCHANGED <<globals, arrays, lists>>
  BY DEF PinSize, Goto
<1>4. /\ pc' \in [Goroutine -> Labels] /\ pc'[g] = "pinLocal" /\ item'[g] = x /\ pid'[g] = i
      /\ loc'[g] = [loc[g] EXCEPT !.s = localSize]
      /\ \A h \in Goroutine \ {g} : /\ pc'[h] = pc[h] /\ item'[h] = item[h]
                                    /\ pid'[h] = pid[h] /\ loc'[h] = loc[h]
  BY <1>1, <1>2, <1>3, Types DEF Bookkeeping, TypeOK, Labels
<1>5. TypeOK'
  <2>1. [loc[g] EXCEPT !.s = localSize] \in [l : Array \cup {None}, s : Procs \cup {0}, i : 0 .. MaxProcs]
    BY Types
  <2>2. loc' = [loc EXCEPT ![g] = [loc[g] EXCEPT !.s = localSize]]
    BY <1>3 DEF Bookkeeping, TypeOK
  <2> QED
    BY <1>1, <1>2, <1>3, <2>1, <2>2 DEF Bookkeeping, TypeOK, globals, arrays, lists
<1>6. Right(g)'
  <2>1. loc[g] = NoLocals
    BY <1>3 DEF Bookkeeping, Right, Placed
  <2>2. loc'[g].s = localSize /\ loc'[g].i = 0
    BY <1>4, <2>1, Constants
  <2>3. localSize \in Nat
    BY Types
  <2>4. Placed(g)' /\ Carries(g)'
    BY <1>2, <1>3, <1>4, <2>2 DEF Placed, Carries, Unpinned, globals
  <2>5. Sized(g)'
    BY <1>3, <1>4, <2>2, <2>3 DEF Sized, OwnSlot, globals
  <2> QED
    BY <2>4, <2>5 DEF Right
<1>7. ASSUME NEW h \in Goroutine \ {g} PROVE Right(h)'
  BY <1>2, <1>3, <1>4, Types, Stays DEF globals, arrays, lists
<1>8. Fits(local, localSize)' /\ Fits(victim, victimSize)' /\ ListsRight'
  BY <1>3 DEF Bookkeeping, Fits, ListsRight, globals, arrays, lists
<1> QED
  BY <1>2, <1>4, <1>5, <1>6, <1>7, <1>8 DEF Bookkeeping

LEMMA PinLocalRight ==
  ASSUME Bookkeeping, NEW g \in Goroutine, PinLocal(g)
  PROVE  Bookkeeping'
<1> DEFINE c == [loc[g] EXCEPT !.l = local]
<1>1. /\ c \in [l : Array \cup {None}, s : Procs \cup {0}, i : 0 .. MaxProcs]
      /\ c.l = local /\ c.s = loc[g].s /\ c.i = loc[g].i
  BY Types
<1>2. /\ pc[g] = "pinLocal" /\ pc' = [pc EXCEPT ![g] = "pinned"] /\ loc' = [loc EXCEPT ![g] = c]
      /\ item' = [item EXCEPT ![g] = item[g]]
      /\ UNCHANGED <<globals, arrays, lists, item, pin, pid, held>>
  BY DEF PinLocal, Goto, Bookkeeping, TypeOK
<1>3. pc'[g] = "pinned" /\ loc'[g] = c /\ "pinned" \in Labels
  BY <1>2 DEF Bookkeeping, TypeOK, Labels
<1> HIDE DEF c
<1>4. Right(g)'
  <2>1. Right(g) /\ localSize \in Nat /\ loc[g].s \in Nat /\ Fits(local, localSize)
    BY Types DEF Bookkeeping
  <2>2. local # None => len[local] \in Nat
    BY Types
  <2>3. Placed(g)' /\ Carries(g)'
    BY <1>1, <1>2, <1>3, <2>1 DEF Right, Placed, Carries, Unpinned, globals
  <2>4. Sized(g)'
    BY <1>1, <1>2, <1>3, <2>1, <2>2 DEF Right, Sized, Fits, OwnSlot, globals, arrays
  <2> QED
    BY <2>3, <2>4 DEF Right
<1> QED
  BY <1>1, <1>2, <1>3, <1>4, Types, Reading DEF Bookkeeping, TypeOK

LEMMA PinFastRight ==
  ASSUME Bookkeeping, NEW g \in Goroutine, PinFast(g)
  PROVE  Bookkeeping'
<1> DEFINE l == AfterPin(g)
<1>1. /\ pc[g] = "pinned" /\ pid[g] < loc[g].s /\ pc' = [pc EXCEPT ![g] = l]
      /\ item' = [item EXCEPT ![g] = item[g]] /\ loc' = [loc EXCEPT ![g] = loc[g]]
      /\ UNCHANGED <<globals, arrays, lists, item, pin, pid, loc, held>>
  BY DEF PinFast, Goto, SizeSeen, Bookkeeping, TypeOK
<1>2. /\ l \in {"getPrivate", "putPrivate"} /\ (l = "getPrivate" <=> item[g] = None)
      /\ pc'[g] = l
  BY <1>1 DEF AfterPin, Bookkeeping, TypeOK
<1> HIDE DEF l
<1>3. Right(g)'
  <2>1. Right(g) /\ pid[g] \in Nat /\ loc[g].s \in Nat
    BY Types
  <2>2. loc[g].l # None /\ pid[g] < len[loc[g].l]
    BY <1>1, <2>1, Types DEF Right, Sized, Fits
  <2>3. Placed(g)' /\ Carries(g)'
    BY <1>1, <1>2, <2>1 DEF Right, Placed, Carries, Unpinned, globals
  <2>4. Sized(g)'
    BY <1>1, <1>2, <2>2 DEF Sized, OwnSlot, arrays
  <2> QED
    BY <2>3, <2>4 DEF Right
<1> QED
  BY <1>1, <1>2, <1>3, Types, Reading DEF Bookkeeping, TypeOK, Labels

LEMMA PinSlowRight ==
  ASSUME Bookkeeping, NEW g \in Goroutine, PinSlow(g)
  PROVE  Bookkeeping'
<1>1. /\ pc[g] = "pinned" /\ pc' = [pc EXCEPT ![g] = "lock"] /\ Unpin(g)
      /\ loc' = [loc EXCEPT ![g] = NoLocals] /\ UNCHANGED <<globals, arrays, lists, item, pid, held>>
  BY DEF PinSlow, Goto
<1>2. /\ OwnP' /\ pin' \in [Goroutine -> Pid \cup {None}]
      /\ pin'[g] = None /\ \A h \in Goroutine \ {g} : pin'[h] = pin[h]
  BY <1>1, UnpinIsOwn
<1>3. NoLocals \in [l : Array \cup {None}, s : Procs \cup {0}, i : 0 .. MaxProcs]
  BY Constants
<1>4. /\ pc' \in [Goroutine -> Labels] /\ pc'[g] = "lock" /\ loc'[g] = NoLocals
      /\ \A h \in Goroutine \ {g} : pc'[h] = pc[h] /\ loc'[h] = loc[h]
  BY <1>1, <1>3 DEF Bookkeeping, TypeOK, Labels, Unpinned
<1>5. TypeOK'
  BY <1>1, <1>2, <1>3 DEF Bookkeeping, TypeOK, globals, arrays, lists
<1>6. Right(g)'
  BY <1>1, <1>2, <1>4, Constants DEF Right, Placed, Carries, Sized, Unpinned, OwnSlot
<1> QED
  BY <1>1, <1>2, <1>4, <1>5, <1>6, Quiet DEF arrays

LEMMA LockRight ==
  ASSUME Bookkeeping, NEW g \in Goroutine, Lock(g)
  PROVE  Bookkeeping'
<1>1. /\ pc[g] = "lock" /\ mu = None /\ mu' = g /\ pc' = [pc EXCEPT ![g] = "repin"]
      /\ UNCHANGED <<globals, arrays, allPools, oldPools, item, pin, pid, loc, held>>
  BY DEF Lock, Goto
<1>2. /\ pc' \in [Goroutine -> Labels] /\ pc'[g] = "repin"
      /\ \A h \in Goroutine \ {g} : pc'[h] = pc[h]
  BY <1>1 DEF Bookkeeping, Labels, Unpinned
<1>3. TypeOK'
  BY <1>1 DEF Bookkeeping, TypeOK, globals, arrays
<1>4. Right(g)'
  <2>1. Right(g)
    BY Types
  <2> QED
    BY <1>1, <1>2, <2>1 DEF Right, Placed, Carries, Sized, Unpinned, OwnSlot
<1>5. ASSUME NEW h \in Goroutine \ {g} PROVE Right(h)'
  <2>1. pc[h] \notin {"repin", "register", "storeSize"}
    BY <1>1, Types, Constants DEF Right, Placed
  <2> QED
    BY <1>1, <1>2, <2>1, Types, Stays DEF globals, arrays
<1>6. OwnP' /\ Fits(local, localSize)' /\ Fits(victim, victimSize)' /\ ListsRight'
  BY <1>1 DEF Bookkeeping, OwnP, Fits, ListsRight, globals, arrays
<1> QED
  BY <1>2, <1>3, <1>4, <1>5, <1>6 DEF Bookkeeping

LEMMA RepinRight ==
  ASSUME Bookkeeping, NEW g \in Goroutine, Repin(g)
  PROVE  Bookkeeping'
<1>1. PICK i \in FreeP :
        /\ Pin(g, i) /\ pid' = [pid EXCEPT ![g] = i]
        /\ \/ /\ i < localSize /\ loc' = [loc EXCEPT ![g].l = local]
              /\ mu' = None /\ pc' = [pc EXCEPT ![g] = AfterPin(g)]
           \/ /\ ~ (i < localSize) /\ UNCHANGED <<loc, mu>> /\ pc' = [pc EXCEPT ![g] = "register"]
  BY DEF Repin, NewPid, Goto
<1>2. pc[g] = "repin" /\ UNCHANGED <<globals, arrays, allPools, oldPools, item, held>>
  BY DEF Repin
<1>3. /\ i \in Pid /\ i < procs /\ OwnP' /\ pin' \in [Goroutine -> Pid \cup {None}]
      /\ pin'[g] = i /\ \A h \in Goroutine \ {g} : pin'[h] = pin[h]
  BY <1>1, PinIsOwn
<1>4. Right(g) /\ mu = g /\ loc[g] = NoLocals
  BY <1>2, Types DEF Right, Placed
<1>5. AfterPin(g) \in {"getPrivate", "putPrivate"} /\ (AfterPin(g) = "getPrivate" <=> item[g] = None)
  BY DEF AfterPin
<1>6. /\ pc' \in [Goroutine -> Labels] /\ pid'[g] = i
      /\ \A h \in Goroutine \ {g} : /\ pc'[h] = pc[h] /\ item'[h] = item[h]
                                    /\ pid'[h] = pid[h] /\ loc'[h] = loc[h]
  BY <1>1, <1>2, <1>5 DEF Bookkeeping, TypeOK, Labels
<1>7. /\ loc'[g].i = 0
      /\ loc' \in [Goroutine -> [l : Array \cup {None}, s : Procs \cup {0}, i : 0 .. MaxProcs]]
  <2>1. CASE UNCHANGED loc
    BY <1>4, <2>1, Constants DEF Bookkeeping, TypeOK
  <2>2. CASE loc' = [loc EXCEPT ![g].l = local]
    <3> DEFINE c == [loc[g] EXCEPT !.l = local]
    <3>1. /\ c \in [l : Array \cup {None}, s : Procs \cup {0}, i : 0 .. MaxProcs]
          /\ c.i = 0
      BY <1>4, Types, Constants
    <3>2. loc' = [loc EXCEPT ![g] = c] /\ loc'[g] = c
      BY <2>2 DEF Bookkeeping, TypeOK
    <3> HIDE DEF c
    <3> QED
      BY <3>1, <3>2 DEF Bookkeeping, TypeOK
  <2> QED
    BY <1>1, <2>1, <2>2
<1>8. TypeOK'
  <2>1. mu' \in Goroutine \cup {None}
    BY <1>1 DEF Bookkeeping, TypeOK
  <2> QED
    BY <1>1, <1>2, <1>3, <1>7, <2>1 DEF Bookkeeping, TypeOK, globals, arrays
<1>9. Right(g)'
  <2>1. /\ procs \in Nat /\ localSize \in Nat /\ i \in Nat /\ i # None
        /\ \A a \in Array : len[a] \in Nat
    BY <1>3, Types, Constants
  <2>2. CASE i < localSize
    <3>1. pc'[g] = AfterPin(g) /\ loc'[g].l = local
      BY <1>1, <2>2 DEF Bookkeeping, TypeOK
    <3>2. local # None /\ i < len[local]
      <4>1. local \in Array \cup {None} /\ Fits(local, localSize)
        BY Types DEF Bookkeeping
      <4> QED
        BY <2>1, <2>2, <4>1 DEF Fits
    <3>3. Placed(g)'
      BY <1>2, <1>3, <1>5, <1>6, <1>7, <2>1, <3>1 DEF Placed, Unpinned, globals
    <3>4. Carries(g)'
      BY <1>2, <1>5, <3>1 DEF Carries
    <3>5. Sized(g)'
      BY <1>2, <1>5, <1>6, <3>1, <3>2 DEF Sized, OwnSlot, globals, arrays
    <3> QED
      BY <3>3, <3>4, <3>5 DEF Right
  <2>3. CASE ~ (i < localSize)
    <3>1. pc'[g] = "register" /\ loc' = loc /\ mu' = mu
      BY <1>1, <2>3 DEF Bookkeeping, TypeOK
    <3>2. Placed(g)'
      BY <1>2, <1>3, <1>4, <1>6, <1>7, <2>1, <3>1, Constants DEF Placed, Unpinned, globals
    <3>3. Carries(g)' /\ Sized(g)'
      BY <1>2, <1>6, <2>1, <2>3, <3>1 DEF Carries, Sized, OwnSlot, globals
    <3> QED
      BY <3>2, <3>3 DEF Right
  <2> QED
    BY <2>2, <2>3
<1>10. ASSUME NEW h \in Goroutine \ {g} PROVE Right(h)'
  <2>1. pc[h] \notin {"repin", "register", "storeSize"}
    BY <1>4, Types DEF Right, Placed
  <2> QED
    BY <1>2, <1>3, <1>6, <2>1, Types, Stays DEF globals, arrays
<1>11. Fits(local, localSize)' /\ Fits(victim, victimSize)' /\ ListsRight'
  BY <1>2 DEF Bookkeeping, Fits, ListsRight, globals, arrays
<1> QED
  BY <1>3, <1>6, <1>8, <1>9, <1>10, <1>11 DEF Bookkeeping

\* The new array is one that nobody uses, so the others see theirs unchanged.
LEMMA RegisterRight ==
  ASSUME Bookkeeping, NEW g \in Goroutine, Register(g)
  PROVE  Bookkeeping'
<1>1. /\ pc[g] = "register" /\ pc' = [pc EXCEPT ![g] = "storeSize"]
      /\ allPools' = (IF local = None THEN allPools + 1 ELSE allPools)
      /\ UNCHANGED <<procs, localSize, victim, victimSize, mu, oldPools, item, pin, pid, held>>
  BY DEF Register, Goto, MustRegister
<1>2. PICK a \in Fresh :
        /\ len' = [len EXCEPT ![a] = procs] /\ private' = [private EXCEPT ![a] = Blank]
        /\ shared' = [shared EXCEPT ![a] = Drained]
        /\ loc' = [loc EXCEPT ![g].l = a] /\ local' = a
  BY DEF Register
<1>3. /\ a \in Array /\ a # None /\ a # victim /\ \A h \in Goroutine : loc[h].l # a
  BY <1>2, Constants DEF Fresh, LiveArrays
<1>4. Right(g) /\ mu = g /\ loc[g] = NoLocals /\ localSize <= pid[g] /\ pid[g] < procs
  BY <1>1, Types DEF Right, Placed, Sized, Unpinned
<1>5. /\ pc' \in [Goroutine -> Labels] /\ pc'[g] = "storeSize"
      /\ \A h \in Goroutine \ {g} : pc'[h] = pc[h] /\ loc'[h] = loc[h]
  BY <1>1, <1>2 DEF Bookkeeping, TypeOK, Labels
<1>6. /\ loc'[g].l = a /\ loc'[g].i = 0
      /\ loc' \in [Goroutine -> [l : Array \cup {None}, s : Procs \cup {0}, i : 0 .. MaxProcs]]
  <2> DEFINE c == [loc[g] EXCEPT !.l = a]
  <2>1. /\ c \in [l : Array \cup {None}, s : Procs \cup {0}, i : 0 .. MaxProcs]
        /\ c.i = 0 /\ c.l = a
    BY <1>3, <1>4, Types, Constants
  <2>2. loc' = [loc EXCEPT ![g] = c] /\ loc'[g] = c
    BY <1>2 DEF Bookkeeping, TypeOK
  <2> HIDE DEF c
  <2> QED
    BY <2>1, <2>2 DEF Bookkeeping, TypeOK
<1>7. len'[a] = procs /\ \A b \in Array \ {a} : len'[b] = len[b] /\ private'[b] = private[b]
  BY <1>2, <1>3 DEF Bookkeeping, TypeOK
<1>8. ListsRight' /\ allPools' \in 0 .. 1
  <2>1. allPools' = 1
    BY <1>1 DEF Bookkeeping, ListsRight
  <2> QED
    BY <1>1, <1>2, <1>3, <2>1 DEF Bookkeeping, ListsRight
<1>9. TypeOK'
  <2>1. Blank \in [Pid -> Item \cup {None}] /\ Drained \in [Pid -> Seq(Item)]
    BY DEF Blank, Drained
  <2>2. /\ len' \in [Array -> Procs \cup {0}] /\ private' \in [Array -> [Pid -> Item \cup {None}]]
        /\ shared' \in [Array -> [Pid -> Seq(Item)]]
    BY <1>2, <1>3, <2>1 DEF Bookkeeping, TypeOK
  <2> QED
    BY <1>1, <1>2, <1>3, <1>6, <1>8, <2>2 DEF Bookkeeping, TypeOK
<1>10. Right(g)'
  <2>1. pid[g] \in Nat /\ procs \in Nat /\ localSize \in Nat
    BY Types
  <2>2. Placed(g)'
    BY <1>1, <1>4, <1>5, <1>6 DEF Right, Placed, Unpinned
  <2>3. Carries(g)' /\ Sized(g)'
    BY <1>1, <1>2, <1>3, <1>4, <1>5, <1>6, <1>7, <2>1 DEF Carries, Sized, OwnSlot
  <2> QED
    BY <2>2, <2>3 DEF Right
<1>11. ASSUME NEW h \in Goroutine \ {g} PROVE Right(h)'
  <2>1. pc[h] \notin {"repin", "register", "storeSize"}
    BY <1>4, Types DEF Right, Placed
  <2>2. loc[h].l \in Array \cup {None} /\ Right(h)
    BY Types
  <2>3. loc[h].l # None => len'[loc[h].l] = len[loc[h].l] /\ private'[loc[h].l] = private[loc[h].l]
    BY <1>3, <1>7, <2>2
  <2>4. pc[h] \in {"clearPrivate", "clearVictim"} => loc[h].l # None
    BY <2>2 DEF Right, Sized, OwnSlot
  <2> QED
    BY <1>1, <1>5, <2>1, <2>3, <2>4, Types, Stays
<1>12. Fits(local, localSize)'
  BY <1>1, <1>2, <1>3, <1>4, <1>7, Types DEF Fits
<1>13. Fits(victim, victimSize)' /\ OwnP'
  <2>1. victim # None => len'[victim] = len[victim]
    BY <1>3, <1>7, Types
  <2> QED
    BY <1>1, <2>1 DEF Bookkeeping, Fits, OwnP
<1> QED
  BY <1>5, <1>8, <1>9, <1>10, <1>11, <1>12, <1>13 DEF Bookkeeping

LEMMA StoreSizeRight ==
  ASSUME Bookkeeping, NEW g \in Goroutine, StoreSize(g)
  PROVE  Bookkeeping'
<1> DEFINE l == AfterPin(g)
<1>1. /\ pc[g] = "storeSize" /\ pc' = [pc EXCEPT ![g] = l] /\ mu' = None
      /\ localSize' = len[loc[g].l]
      /\ UNCHANGED <<procs, local, victim, victimSize, arrays, allPools, oldPools, item, pin, pid, loc, held>>
  BY DEF StoreSize, Goto
<1>2. l \in {"getPrivate", "putPrivate"} /\ (l = "getPrivate" <=> item[g] = None)
  BY DEF AfterPin
<1> HIDE DEF l
<1>3. pc' \in [Goroutine -> Labels] /\ pc'[g] = l /\ \A h \in Goroutine \ {g} : pc'[h] = pc[h]
  BY <1>1, <1>2 DEF Bookkeeping, Labels
<1>4. Right(g) /\ mu = g /\ loc[g].l = local /\ local \in Array /\ pid[g] < len[local]
  BY <1>1, Types DEF Right, Placed, Sized
<1>5. localSize' = len[local] /\ localSize <= localSize' /\ localSize' \in Nat
      /\ localSize' \in Procs \cup {0}
  BY <1>1, <1>4, Types, Constants DEF Bookkeeping, Fits
<1>6. TypeOK'
  BY <1>1, <1>5 DEF Bookkeeping, TypeOK, arrays
<1>7. Right(g)'
  <2>1. Placed(g)' /\ Carries(g)'
    BY <1>1, <1>2, <1>3, <1>4 DEF Right, Placed, Carries, Unpinned
  <2>2. Sized(g)'
    BY <1>1, <1>2, <1>3, <1>4, Constants DEF Sized, OwnSlot, arrays
  <2> QED
    BY <2>1, <2>2 DEF Right
<1>8. ASSUME NEW h \in Goroutine \ {g} PROVE Right(h)'
  <2>1. pc[h] \notin {"repin", "register", "storeSize"}
    BY <1>4, Types DEF Right, Placed
  <2> QED
    BY <1>1, <1>3, <1>5, <2>1, Types, Stays DEF arrays
<1>9. Fits(local, localSize)' /\ Fits(victim, victimSize)' /\ ListsRight' /\ OwnP'
  BY <1>1, <1>4, <1>5, Constants DEF Bookkeeping, Fits, ListsRight, OwnP, arrays
<1> QED
  BY <1>3, <1>6, <1>7, <1>8, <1>9 DEF Bookkeeping

-----------------------------------------------------------------------------
(***************************************************************************)
(* The runtime: nobody is pinned, or nobody notices.                       *)
(***************************************************************************)
\* With the world stopped nobody has a copy of anything.
LEMMA Stopped ==
  ASSUME Bookkeeping, WorldStopped
  PROVE  \A g \in Goroutine : pc[g] \in Unpinned /\ loc[g] = NoLocals /\ loc[g].l = None
<1>1. \A g \in Goroutine : pc[g] \in Unpinned
  BY Types, Constants DEF WorldStopped, Right, Placed
<1> QED
  BY <1>1, Types, Constants DEF Right, Placed, Unpinned

LEMMA SetProcsRight ==
  ASSUME Bookkeeping, SetProcs
  PROVE  Bookkeeping'
<1>1. /\ WorldStopped /\ procs' \in Procs
      /\ UNCHANGED <<local, localSize, victim, victimSize, arrays, lists, locals, held>>
  BY DEF SetProcs
<1>2. TypeOK' /\ pc' \in [Goroutine -> Labels]
  BY <1>1 DEF Bookkeeping, TypeOK, arrays, lists, locals
<1>3. ASSUME NEW h \in Goroutine PROVE Right(h)'
  <2>1. pc[h] \in Unpinned
    BY <1>1, Stopped
  <2> QED
    BY <1>1, <2>1, Stays DEF arrays, lists, locals, Unpinned
<1>4. Fits(local, localSize)' /\ Fits(victim, victimSize)' /\ ListsRight' /\ OwnP'
  BY <1>1 DEF Bookkeeping, Fits, ListsRight, OwnP, arrays, lists, locals
<1> QED
  BY <1>2, <1>3, <1>4 DEF Bookkeeping

\* The victim is what was local, and keeps its size.
LEMMA poolCleanupRight ==
  ASSUME Bookkeeping, poolCleanup
  PROVE  Bookkeeping'
<1> DEFINE kept == {local', victim'} \cup {loc[g].l : g \in Goroutine}
<1>1. /\ WorldStopped /\ Collect(kept) /\ oldPools' = allPools /\ allPools' = 0
      /\ UNCHANGED <<procs, mu, locals, held>>
  BY DEF poolCleanup, LeftInAllPools
<1>2. \/ allPools > 0 /\ victim' = local /\ victimSize' = localSize /\ local' = None /\ localSize' = 0
      \/ ~ (allPools > 0) /\ victim' = None /\ victimSize' = 0 /\ UNCHANGED <<local, localSize>>
  BY DEF poolCleanup
<1>3. local' \in kept /\ victim' \in kept
  OBVIOUS
<1> HIDE DEF kept
<1>4. /\ len' \in [Array -> Procs \cup {0}] /\ private' \in [Array -> [Pid -> Item \cup {None}]]
      /\ shared' \in [Array -> [Pid -> Seq(Item)]]
      /\ \A a \in Array : a \in kept => len'[a] = len[a]
  <2>1. Blank \in [Pid -> Item \cup {None}] /\ Drained \in [Pid -> Seq(Item)]
    BY DEF Blank, Drained
  <2>2. /\ len \in [Array -> Procs \cup {0}] /\ private \in [Array -> [Pid -> Item \cup {None}]]
        /\ shared \in [Array -> [Pid -> Seq(Item)]]
    BY DEF Bookkeeping, TypeOK
  <2>3. len' \in [Array -> Procs \cup {0}] /\ \A a \in Array : a \in kept => len'[a] = len[a]
    BY <1>1, <2>2 DEF Collect
  <2>4. private' \in [Array -> [Pid -> Item \cup {None}]]
    BY <1>1, <2>1, <2>2 DEF Collect
  <2>5. shared' \in [Array -> [Pid -> Seq(Item)]]
    BY <1>1, <2>1, <2>2 DEF Collect
  <2> QED
    BY <2>3, <2>4, <2>5
<1>5. /\ local' \in Array \cup {None} /\ victim' \in Array \cup {None}
      /\ localSize' \in Procs \cup {0} /\ victimSize' \in Procs \cup {0}
      /\ allPools' \in 0 .. 1 /\ oldPools' \in 0 .. 1 /\ mu' = mu
  BY <1>1, <1>2 DEF Bookkeeping, TypeOK
<1>6. TypeOK' /\ pc' \in [Goroutine -> Labels]
  BY <1>1, <1>4, <1>5 DEF Bookkeeping, TypeOK, locals
<1>7. ASSUME NEW h \in Goroutine PROVE Right(h)'
  <2>1. pc[h] \in Unpinned /\ loc[h].l = None
    BY <1>1, Stopped
  <2> QED
    BY <1>1, <1>5, <2>1, Stays DEF locals, Unpinned
<1>8. OwnP'
  BY <1>1 DEF Bookkeeping, OwnP, locals
<1>9. ListsRight'
  <2>1. allPools = (IF local = None THEN 0 ELSE 1)
    BY DEF Bookkeeping, ListsRight
  <2> QED
    BY <1>1, <1>2, <2>1 DEF ListsRight
<1>10. Fits(local, localSize)' /\ Fits(victim, victimSize)'
  <2>1. Fits(local, localSize) /\ (allPools > 0 => local # None) /\ (~ (allPools > 0) => local = None)
    BY DEF Bookkeeping, ListsRight
  <2> QED
    BY <1>2, <1>3, <1>4, <2>1, Types DEF Fits, Bookkeeping, TypeOK
<1> QED
  BY <1>6, <1>7, <1>8, <1>9, <1>10 DEF Bookkeeping

LEMMA DropRight ==
  ASSUME Bookkeeping, NEW x \in Item, Drop(x)
  PROVE  Bookkeeping'
<1>1. held' = held \ {x} /\ UNCHANGED <<globals, arrays, lists, locals>>
  BY DEF Drop
<1>2. TypeOK' /\ pc' \in [Goroutine -> Labels]
  BY <1>1 DEF Bookkeeping, TypeOK, globals, arrays, lists, locals
<1>3. ASSUME NEW h \in Goroutine PROVE Right(h)'
  BY <1>1, Types, Stays DEF globals, arrays, lists, locals
<1>4. Fits(local, localSize)' /\ Fits(victim, victimSize)' /\ ListsRight' /\ OwnP'
  BY <1>1 DEF Bookkeeping, Fits, ListsRight, OwnP, globals, arrays, lists, locals
<1> QED
  BY <1>2, <1>3, <1>4 DEF Bookkeeping

-----------------------------------------------------------------------------
(***************************************************************************)
(* Put and Get.                                                            *)
(***************************************************************************)
\* A store to a private field is seen by nobody else who uses one.
LEMMA Stores ==
  ASSUME Bookkeeping, NEW g \in Goroutine, OwnSlot(g), NEW x \in Item \cup {None}, SetPrivate(g, x)
  PROVE  /\ private' \in [Array -> [Pid -> Item \cup {None}]]
         /\ loc[g].l \in Array /\ pid[g] \in Pid /\ private'[loc[g].l][pid[g]] = x
         /\ \A a \in Array, i \in Pid :
              a # loc[g].l \/ i # pid[g] => private'[a][i] = private[a][i]
         /\ \A h \in Goroutine \ {g} : pc[h] \in {"clearPrivate", "clearVictim"} =>
              private'[loc[h].l][pid[h]] = private[loc[h].l][pid[h]]
<1>1. loc[g].l \in Array /\ pid[g] \in Pid /\ pc[g] \notin Unpinned
  BY Types DEF Right, Sized, OwnSlot, Unpinned
<1>2. private \in [Array -> [Pid -> Item \cup {None}]]
  BY DEF Bookkeeping, TypeOK
<1>3. private' = [private EXCEPT ![loc[g].l][pid[g]] = x]
  BY DEF SetPrivate
<1>4. private' \in [Array -> [Pid -> Item \cup {None}]]
  BY <1>1, <1>2, <1>3
<1>5. /\ private'[loc[g].l][pid[g]] = x
      /\ \A a \in Array, i \in Pid : a # loc[g].l \/ i # pid[g] => private'[a][i] = private[a][i]
  BY <1>1, <1>2, <1>3
<1>6. ASSUME NEW h \in Goroutine \ {g}, pc[h] \in {"clearPrivate", "clearVictim"}
      PROVE  private'[loc[h].l][pid[h]] = private[loc[h].l][pid[h]]
  <2>1. loc[h].l \in Array /\ pid[h] \in Pid
    BY <1>6, Types DEF Right, Sized, OwnSlot
  <2>2. pid[h] # pid[g]
    BY <1>1, <1>6, OwnFields DEF Unpinned
  <2> QED
    BY <1>5, <2>1, <2>2
<1> QED
  BY <1>1, <1>4, <1>5, <1>6

\* The end of Put or Get.
LEMMA Leaves ==
  ASSUME Bookkeeping, NEW g \in Goroutine, Done(g), UNCHANGED <<globals, len, lists>>,
         private' \in [Array -> [Pid -> Item \cup {None}]],
         shared' \in [Array -> [Pid -> Seq(Item)]], held' \subseteq Item,
         \A h \in Goroutine \ {g} : pc[h] \in {"clearPrivate", "clearVictim"} =>
           private'[loc[h].l][pid[h]] = private[loc[h].l][pid[h]]
  PROVE  Bookkeeping'
<1>1. /\ Unpin(g) /\ pc' = [pc EXCEPT ![g] = "idle"] /\ item' = [item EXCEPT ![g] = None]
      /\ pid' = [pid EXCEPT ![g] = 0] /\ loc' = [loc EXCEPT ![g] = NoLocals]
  BY DEF Done, Goto
<1>2. /\ OwnP' /\ pin' \in [Goroutine -> Pid \cup {None}]
      /\ pin'[g] = None /\ \A h \in Goroutine \ {g} : pin'[h] = pin[h]
  BY <1>1, UnpinIsOwn
<1>3. NoLocals \in [l : Array \cup {None}, s : Procs \cup {0}, i : 0 .. MaxProcs]
  BY Constants
<1>4. /\ pc' \in [Goroutine -> Labels] /\ pc'[g] = "idle" /\ item'[g] = None /\ loc'[g] = NoLocals
      /\ \A h \in Goroutine \ {g} : /\ pc'[h] = pc[h] /\ item'[h] = item[h]
                                    /\ pid'[h] = pid[h] /\ loc'[h] = loc[h]
  BY <1>1, <1>3 DEF Bookkeeping, TypeOK, Labels, Unpinned
<1>5. TypeOK'
  BY <1>1, <1>2, <1>3, Constants DEF Bookkeeping, TypeOK, globals, lists
<1>6. Right(g)'
  BY <1>2, <1>4, Constants DEF Right, Placed, Carries, Sized, Unpinned, OwnSlot
<1> QED
  BY <1>2, <1>4, <1>5, <1>6, Quiet

LEMMA PutPrivateRight ==
  ASSUME Bookkeeping, NEW g \in Goroutine, PutPrivate(g)
  PROVE  Bookkeeping'
<1> DEFINE l == IF Private(g) = None THEN "setPrivate" ELSE "pushShared"
<1>1. /\ pc[g] = "putPrivate" /\ pc' = [pc EXCEPT ![g] = l]
      /\ item' = [item EXCEPT ![g] = item[g]] /\ loc' = [loc EXCEPT ![g] = loc[g]]
      /\ UNCHANGED <<globals, arrays, lists, item, pin, pid, loc, held>>
  BY DEF PutPrivate, Goto, Bookkeeping, TypeOK
<1>2. l \in {"setPrivate", "pushShared"} /\ pc'[g] = l
  BY <1>1 DEF Bookkeeping
<1> HIDE DEF l
<1>3. Right(g)'
  BY <1>1, <1>2, Types DEF Right, Placed, Carries, Sized, Unpinned, OwnSlot, globals, arrays
<1> QED
  BY <1>1, <1>2, <1>3, Types, Reading DEF Bookkeeping, TypeOK, Labels

LEMMA StorePrivateRight ==
  ASSUME Bookkeeping, NEW g \in Goroutine, StorePrivate(g)
  PROVE  Bookkeeping'
<1>1. /\ pc[g] = "setPrivate" /\ SetPrivate(g, item[g]) /\ Done(g)
      /\ UNCHANGED <<globals, len, shared, lists, held>>
  BY DEF StorePrivate
<1>2. OwnSlot(g) /\ item[g] \in Item \cup {None}
  BY <1>1, Types DEF OwnSlot
<1> QED
  BY <1>1, <1>2, Stores, Leaves DEF Bookkeeping, TypeOK

LEMMA PushSharedRight ==
  ASSUME Bookkeeping, NEW g \in Goroutine, PushShared(g)
  PROVE  Bookkeeping'
<1>1. /\ pc[g] = "pushShared" /\ Done(g)
      /\ shared' = [shared EXCEPT ![loc[g].l][pid[g]] = Append(@, item[g])]
      /\ UNCHANGED <<globals, len, private, lists, held>>
  BY DEF PushShared
<1>2. loc[g].l \in Array /\ pid[g] \in Pid /\ item[g] \in Item
  BY <1>1, Types DEF Right, Sized, Carries, OwnSlot
<1>3. shared' \in [Array -> [Pid -> Seq(Item)]]
  BY <1>1, <1>2 DEF Bookkeeping, TypeOK
<1> QED
  BY <1>1, <1>3, Leaves DEF Bookkeeping, TypeOK

LEMMA GetPrivateRight ==
  ASSUME Bookkeeping, NEW g \in Goroutine, GetPrivate(g)
  PROVE  Bookkeeping'
<1> DEFINE x == private[loc[g].l][pid[g]]
<1>1. /\ pc[g] = "getPrivate" /\ pc' = [pc EXCEPT ![g] = "clearPrivate"]
      /\ item' = [item EXCEPT ![g] = x] /\ loc' = [loc EXCEPT ![g] = loc[g]]
      /\ UNCHANGED <<globals, arrays, lists, pin, pid, loc, held>>
  BY DEF GetPrivate, Goto, Private, Bookkeeping, TypeOK
<1>2. x \in Item \cup {None}
  BY <1>1, Types DEF Right, Sized, OwnSlot
<1>3. pc'[g] = "clearPrivate" /\ item'[g] = private'[loc'[g].l][pid'[g]]
  BY <1>1 DEF Bookkeeping, TypeOK, arrays
<1> HIDE DEF x
<1>4. Right(g)'
  BY <1>1, <1>3, Types DEF Right, Placed, Carries, Sized, Unpinned, OwnSlot, globals, arrays
<1> QED
  BY <1>1, <1>2, <1>4, Types, Reading DEF Bookkeeping, TypeOK, Labels

LEMMA ClearPrivateRight ==
  ASSUME Bookkeeping, NEW g \in Goroutine, ClearPrivate(g)
  PROVE  Bookkeeping'
<1> DEFINE l == IF item[g] = None THEN "popShared" ELSE "got"
<1>1. /\ pc[g] = "clearPrivate" /\ SetPrivate(g, None) /\ pc' = [pc EXCEPT ![g] = l]
      /\ UNCHANGED <<globals, len, shared, lists, item, pin, pid, loc, held>>
  BY DEF ClearPrivate, Emptied, Goto
<1>2. l \in {"popShared", "got"} /\ (l = "popShared" <=> item[g] = None)
  OBVIOUS
<1> HIDE DEF l
<1>3. OwnSlot(g)
  BY <1>1 DEF OwnSlot
<1>4. /\ pc' \in [Goroutine -> Labels] /\ pc'[g] = l
      /\ \A h \in Goroutine \ {g} : pc'[h] = pc[h]
  BY <1>1, <1>2 DEF Bookkeeping, Labels
<1>5. TypeOK'
  BY <1>1, <1>3, Stores DEF Bookkeeping, TypeOK, globals, lists
<1>6. Right(g)'
  BY <1>1, <1>2, <1>4, Types DEF Right, Placed, Carries, Sized, Unpinned, OwnSlot, globals
<1>7. OwnP'
  BY <1>1 DEF Bookkeeping, OwnP
<1> QED
  BY <1>1, <1>3, <1>4, <1>5, <1>6, <1>7, Stores, Quiet

LEMMA ClearVictimRight ==
  ASSUME Bookkeeping, NEW g \in Goroutine, ClearVictim(g)
  PROVE  Bookkeeping'
<1>1. /\ pc[g] = "clearVictim" /\ SetPrivate(g, None) /\ pc' = [pc EXCEPT ![g] = "got"]
      /\ UNCHANGED <<globals, len, shared, lists, item, pin, pid, loc, held>>
  BY DEF ClearVictim, Goto
<1>2. OwnSlot(g)
  BY <1>1 DEF OwnSlot
<1>3. /\ pc' \in [Goroutine -> Labels] /\ pc'[g] = "got"
      /\ \A h \in Goroutine \ {g} : pc'[h] = pc[h]
  BY <1>1 DEF Bookkeeping, Labels
<1>4. TypeOK'
  BY <1>1, <1>2, Stores DEF Bookkeeping, TypeOK, globals, lists
<1>5. Right(g)'
  BY <1>1, <1>3, Types DEF Right, Placed, Carries, Sized, Unpinned, OwnSlot, globals
<1>6. OwnP'
  BY <1>1 DEF Bookkeeping, OwnP
<1> QED
  BY <1>1, <1>2, <1>3, <1>4, <1>5, <1>6, Stores, Quiet

LEMMA SlowSizeRight ==
  ASSUME Bookkeeping, NEW g \in Goroutine, SlowSize(g)
  PROVE  Bookkeeping'
<1> DEFINE c == [loc[g] EXCEPT !.s = localSize]
<1>1. /\ c \in [l : Array \cup {None}, s : Procs \cup {0}, i : 0 .. MaxProcs]
      /\ c.s = localSize /\ c.i = loc[g].i
  BY Types
<1>2. /\ pc[g] = "slowSize" /\ pc' = [pc EXCEPT ![g] = "slowLocal"] /\ loc' = [loc EXCEPT ![g] = c]
      /\ item' = [item EXCEPT ![g] = item[g]]
      /\ UNCHANGED <<globals, arrays, lists, item, pin, pid, held>>
  BY DEF SlowSize, Goto, Bookkeeping, TypeOK
<1>3. pc'[g] = "slowLocal" /\ loc'[g] = c
  BY <1>2 DEF Bookkeeping, TypeOK
<1> HIDE DEF c
<1>4. Right(g)'
  BY <1>1, <1>2, <1>3, Types DEF Right, Placed, Carries, Sized, Unpinned, OwnSlot, globals
<1> QED
  BY <1>1, <1>2, <1>4, Types, Reading DEF Bookkeeping, TypeOK, Labels

LEMMA SlowLocalRight ==
  ASSUME Bookkeeping, NEW g \in Goroutine, SlowLocal(g)
  PROVE  Bookkeeping'
<1> DEFINE c == [loc[g] EXCEPT !.l = local]
<1>1. /\ c \in [l : Array \cup {None}, s : Procs \cup {0}, i : 0 .. MaxProcs]
      /\ c.l = local /\ c.s = loc[g].s /\ c.i = loc[g].i
  BY Types
<1>2. /\ pc[g] = "slowLocal" /\ pc' = [pc EXCEPT ![g] = "steal"] /\ loc' = [loc EXCEPT ![g] = c]
      /\ item' = [item EXCEPT ![g] = item[g]]
      /\ UNCHANGED <<globals, arrays, lists, item, pin, pid, held>>
  BY DEF SlowLocal, Goto, Bookkeeping, TypeOK
<1>3. pc'[g] = "steal" /\ loc'[g] = c
  BY <1>2 DEF Bookkeeping, TypeOK
<1> HIDE DEF c
<1>4. Right(g)'
  <2>1. Right(g) /\ localSize \in Nat /\ loc[g].s \in Nat /\ Fits(local, localSize)
    BY Types DEF Bookkeeping
  <2>2. local # None => len[local] \in Nat
    BY Types
  <2>3. Placed(g)' /\ Carries(g)'
    BY <1>1, <1>2, <1>3, <2>1 DEF Right, Placed, Carries, Unpinned, globals
  <2>4. Sized(g)'
    BY <1>1, <1>2, <1>3, <2>1, <2>2 DEF Right, Sized, Fits, OwnSlot, globals, arrays
  <2> QED
    BY <2>3, <2>4 DEF Right
<1> QED
  BY <1>1, <1>2, <1>4, Types, Reading DEF Bookkeeping, TypeOK, Labels

\* The ends of a shared list.
LEMMA Ends ==
  ASSUME NEW s \in Seq(Item), s # <<>>
  PROVE  /\ Len(s) \in Nat \ {0} /\ DOMAIN s = 1 .. Len(s)
         /\ Last(s) = s[Len(s)] /\ Last(s) \in Item
         /\ Front(s) \in Seq(Item) /\ DOMAIN Front(s) = 1 .. Len(s) - 1
         /\ \A k \in 1 .. Len(s) - 1 : Front(s)[k] = s[k]
         /\ Head(s) = s[1] /\ Head(s) \in Item
         /\ Tail(s) \in Seq(Item) /\ DOMAIN Tail(s) = 1 .. Len(s) - 1
         /\ \A k \in 1 .. Len(s) - 1 : Tail(s)[k] = s[k + 1]
<1>1. Len(s) \in Nat \ {0} /\ DOMAIN s = 1 .. Len(s)
  BY EmptySeq
<1>2. Last(s) = s[Len(s)] /\ Last(s) \in Item
  BY <1>1 DEF Last
<1>3. /\ Front(s) \in Seq(Item) /\ DOMAIN Front(s) = 1 .. Len(s) - 1
      /\ \A k \in 1 .. Len(s) - 1 : Front(s)[k] = s[k]
  BY <1>1 DEF Front
<1>4. Head(s) = s[1] /\ Head(s) \in Item
  BY <1>1
<1>5. /\ Tail(s) \in Seq(Item) /\ DOMAIN Tail(s) = 1 .. Len(s) - 1
      /\ \A k \in 1 .. Len(s) - 1 : Tail(s)[k] = s[k + 1]
  BY <1>1
<1> QED
  BY <1>1, <1>2, <1>3, <1>4, <1>5

LEMMA PopSharedRight ==
  ASSUME Bookkeeping, NEW g \in Goroutine, PopShared(g)
  PROVE  Bookkeeping'
<1>1. /\ pc[g] = "popShared" /\ UNCHANGED <<globals, len, private, lists, pin, pid, loc, held>>
  BY DEF PopShared
<1>2. loc[g].l \in Array /\ pid[g] \in Pid /\ item[g] = None
  BY <1>1, Types DEF Right, Sized, Carries, OwnSlot
<1>3. PICK s \in Seq(Item) : s = shared[loc[g].l][pid[g]]
  BY <1>2, Types
<1>4. \/ /\ s # <<>> /\ pc' = [pc EXCEPT ![g] = "got"] /\ item' = [item EXCEPT ![g] = Last(s)]
         /\ shared' = [shared EXCEPT ![loc[g].l][pid[g]] = Front(s)]
      \/ s = <<>> /\ pc' = [pc EXCEPT ![g] = "slowSize"] /\ UNCHANGED <<item, shared>>
  BY <1>2, <1>3 DEF PopShared, Goto, Bookkeeping, TypeOK
<1>5. /\ shared' \in [Array -> [Pid -> Seq(Item)]] /\ item' \in [Goroutine -> Item \cup {None}]
      /\ pc' \in [Goroutine -> Labels]
      /\ \A h \in Goroutine \ {g} : pc'[h] = pc[h] /\ item'[h] = item[h]
      /\ \/ pc'[g] = "got" /\ item'[g] \in Item
         \/ pc'[g] = "slowSize" /\ item'[g] = None
  <2>1. CASE s # <<>>
    <3>1. Last(s) \in Item /\ Front(s) \in Seq(Item)
      BY <2>1, Ends
    <3>2. shared' \in [Array -> [Pid -> Seq(Item)]]
      <4>1. PICK t \in Seq(Item) : t = Front(s)
        BY <3>1
      <4>2. shared' = [shared EXCEPT ![loc[g].l][pid[g]] = t]
        BY <1>4, <2>1, <4>1
      <4> QED
        BY <1>2, <4>2 DEF Bookkeeping, TypeOK
    <3>3. /\ item' \in [Goroutine -> Item \cup {None}] /\ item'[g] \in Item
          /\ \A h \in Goroutine \ {g} : item'[h] = item[h]
      BY <1>4, <2>1, <3>1 DEF Bookkeeping, TypeOK
    <3>4. /\ pc' \in [Goroutine -> Labels] /\ pc'[g] = "got"
          /\ \A h \in Goroutine \ {g} : pc'[h] = pc[h]
      BY <1>4, <2>1 DEF Bookkeeping, Labels
    <3> QED
      BY <3>2, <3>3, <3>4
  <2>2. CASE s = <<>>
    BY <1>2, <1>4, <2>2 DEF Bookkeeping, TypeOK, Labels
  <2> QED
    BY <2>1, <2>2
<1>6. TypeOK'
  BY <1>1, <1>5 DEF Bookkeeping, TypeOK, globals, lists
<1>7. Right(g)'
  BY <1>1, <1>5, Types, Constants DEF Right, Placed, Carries, Sized, Unpinned, OwnSlot, globals
<1>8. OwnP'
  BY <1>1 DEF Bookkeeping, OwnP
<1> QED
  BY <1>1, <1>5, <1>6, <1>7, <1>8, Quiet

\* An index of a loop is in the range of the array it is about.
LEMMA LoopIndex ==
  ASSUME Bookkeeping, NEW g \in Goroutine, pc[g] \in {"steal", "victimSteal"},
         loc[g].i < loc[g].s, NEW n \in Nat
  PROVE  /\ loc[g].l \in Array /\ n % loc[g].s \in Pid /\ n % loc[g].s < len[loc[g].l]
         /\ loc[g].i + 1 <= loc[g].s /\ loc[g].i + 1 \in 0 .. MaxProcs
<1>1. loc[g].s \in Nat \ {0} /\ loc[g].s <= MaxProcs /\ loc[g].i \in Nat
  BY Types
<1>2. n % loc[g].s \in 0 .. loc[g].s - 1
  BY <1>1
<1>3. loc[g].l \in Array /\ loc[g].s <= len[loc[g].l] /\ len[loc[g].l] \in Nat
  BY <1>1, Types DEF Right, Sized, Fits
<1>4. n % loc[g].s \in Nat /\ n % loc[g].s < loc[g].s /\ loc[g].i + 1 <= loc[g].s
  BY <1>1, <1>2
<1>5. n % loc[g].s \in 0 .. MaxProcs - 1 /\ loc[g].i + 1 \in 0 .. MaxProcs
  <2>1. MaxProcs \in Nat
    BY Constants
  <2> QED
    BY <1>1, <1>4, <2>1
<1> QED
  BY <1>1, <1>3, <1>4, <1>5 DEF Pid

\* One turn of a loop over shared lists.
LEMMA StealRight ==
  ASSUME Bookkeeping, NEW g \in Goroutine, NEW n \in Nat,
         NEW more \in {"steal", "victimSteal"}, NEW end \in {"victim", "mark"},
         pc[g] = more, Steal(g, n % loc[g].s, more, end),
         UNCHANGED <<globals, len, private, lists, pin, pid, held>>
  PROVE  Bookkeeping'
<1>1. item[g] = None /\ loc[g].i <= loc[g].s
  BY Types DEF Right, Placed, Carries
<1>2. /\ shared' \in [Array -> [Pid -> Seq(Item)]] /\ item' \in [Goroutine -> Item \cup {None}]
      /\ pc' \in [Goroutine -> Labels]
      /\ loc' \in [Goroutine -> [l : Array \cup {None}, s : Procs \cup {0}, i : 0 .. MaxProcs]]
      /\ \A h \in Goroutine \ {g} : pc'[h] = pc[h] /\ item'[h] = item[h] /\ loc'[h] = loc[h]
      /\ loc'[g].l = loc[g].l /\ loc'[g].s = loc[g].s
      /\ \/ pc'[g] = "got" /\ item'[g] \in Item
         \/ pc'[g] = more /\ item'[g] = None /\ loc'[g].i <= loc'[g].s
         \/ pc'[g] = end /\ item'[g] = None /\ loc'[g].i = 0
  <2>1. CASE loc[g].i < loc[g].s /\ shared[loc[g].l][n % loc[g].s] # <<>>
    <3>1. PICK j \in Pid : j = n % loc[g].s
      BY <2>1, LoopIndex
    <3>2. loc[g].l \in Array
      BY <2>1, LoopIndex
    <3>3. PICK s \in Seq(Item) : s = shared[loc[g].l][j]
      BY <3>2, Types
    <3>4. Head(s) \in Item /\ Tail(s) \in Seq(Item)
      BY <2>1, <3>1, <3>3, Ends
    <3>5. /\ pc' = [pc EXCEPT ![g] = "got"] /\ item' = [item EXCEPT ![g] = Head(s)]
          /\ shared' = [shared EXCEPT ![loc[g].l][j] = Tail(@)] /\ UNCHANGED loc
      BY SMTT(30), <1>1, <2>1, <3>1, <3>3, Types DEF Steal, Goto
    <3>6. shared' \in [Array -> [Pid -> Seq(Item)]]
      BY <3>2, <3>3, <3>4, <3>5 DEF Bookkeeping, TypeOK
    <3>7. /\ item' \in [Goroutine -> Item \cup {None}] /\ item'[g] \in Item
          /\ \A h \in Goroutine \ {g} : item'[h] = item[h]
      BY <3>4, <3>5 DEF Bookkeeping, TypeOK
    <3>8. /\ pc' \in [Goroutine -> Labels] /\ pc'[g] = "got"
          /\ \A h \in Goroutine \ {g} : pc'[h] = pc[h]
      BY <3>5 DEF Bookkeeping, Labels
    <3> QED
      BY <3>5, <3>6, <3>7, <3>8 DEF Bookkeeping, TypeOK
  <2>2. CASE loc[g].i < loc[g].s /\ shared[loc[g].l][n % loc[g].s] = <<>>
    <3>1. /\ pc' = [pc EXCEPT ![g] = more] /\ UNCHANGED <<item, shared>>
          /\ loc' = [loc EXCEPT ![g].i = loc[g].i + 1]
      BY <2>2, Types DEF Steal, Goto, Bookkeeping, TypeOK
    <3> DEFINE c == [loc[g] EXCEPT !.i = loc[g].i + 1]
    <3>2. /\ c \in [l : Array \cup {None}, s : Procs \cup {0}, i : 0 .. MaxProcs]
          /\ c.l = loc[g].l /\ c.s = loc[g].s /\ c.i <= c.s
      BY <2>2, Types, LoopIndex
    <3>3. loc' = [loc EXCEPT ![g] = c]
      BY <3>1 DEF Bookkeeping, TypeOK
    <3> HIDE DEF c
    <3>4. /\ pc' \in [Goroutine -> Labels] /\ pc'[g] = more
          /\ \A h \in Goroutine \ {g} : pc'[h] = pc[h]
      BY <3>1 DEF Bookkeeping, Labels
    <3>5. /\ loc' \in [Goroutine -> [l : Array \cup {None}, s : Procs \cup {0}, i : 0 .. MaxProcs]]
          /\ loc'[g] = c /\ \A h \in Goroutine \ {g} : loc'[h] = loc[h]
      BY <3>2, <3>3 DEF Bookkeeping, TypeOK
    <3> QED
      BY <1>1, <3>1, <3>2, <3>4, <3>5 DEF Bookkeeping, TypeOK
  <2>3. CASE ~ (loc[g].i < loc[g].s)
    <3>1. /\ pc' = [pc EXCEPT ![g] = end] /\ UNCHANGED <<item, shared>>
          /\ loc' = [loc EXCEPT ![g].i = 0]
      BY <2>3 DEF Steal, Goto
    <3> DEFINE c == [loc[g] EXCEPT !.i = 0]
    <3>2. /\ c \in [l : Array \cup {None}, s : Procs \cup {0}, i : 0 .. MaxProcs]
          /\ c.l = loc[g].l /\ c.s = loc[g].s /\ c.i = 0
      BY Types, Constants
    <3>3. loc' = [loc EXCEPT ![g] = c]
      BY <3>1 DEF Bookkeeping, TypeOK
    <3> HIDE DEF c
    <3>4. /\ pc' \in [Goroutine -> Labels] /\ pc'[g] = end
          /\ \A h \in Goroutine \ {g} : pc'[h] = pc[h]
      BY <3>1 DEF Bookkeeping, Labels
    <3>5. /\ loc' \in [Goroutine -> [l : Array \cup {None}, s : Procs \cup {0}, i : 0 .. MaxProcs]]
          /\ loc'[g] = c /\ \A h \in Goroutine \ {g} : loc'[h] = loc[h]
      BY <3>2, <3>3 DEF Bookkeeping, TypeOK
    <3> QED
      BY <1>1, <3>1, <3>2, <3>4, <3>5 DEF Bookkeeping, TypeOK
  <2> QED
    BY <2>1, <2>2, <2>3
<1>3. TypeOK'
  BY <1>2 DEF Bookkeeping, TypeOK, globals, lists
<1>4. Right(g)'
  <2>1. Right(g)
    BY Types
  <2>2. Placed(g)' /\ Carries(g)'
    BY <1>2, <2>1, Constants DEF Right, Placed, Carries, Unpinned, globals
  <2>3. Sized(g)'
    BY <1>2, <2>1 DEF Right, Sized, OwnSlot, Fits, globals
  <2> QED
    BY <2>2, <2>3 DEF Right
<1>5. OwnP'
  BY DEF Bookkeeping, OwnP
<1> QED
  BY <1>2, <1>3, <1>4, <1>5, Quiet

LEMMA StealLocalRight ==
  ASSUME Bookkeeping, NEW g \in Goroutine, StealLocal(g)
  PROVE  Bookkeeping'
<1>1. pid[g] + loc[g].i + 1 \in Nat
  BY Types
<1> QED
  BY <1>1, StealRight DEF StealLocal

LEMMA StealVictimRight ==
  ASSUME Bookkeeping, NEW g \in Goroutine, StealVictim(g)
  PROVE  Bookkeeping'
<1>1. pid[g] + loc[g].i \in Nat
  BY Types
<1> QED
  BY <1>1, StealRight DEF StealVictim

LEMMA VictimRight ==
  ASSUME Bookkeeping, NEW g \in Goroutine, Victim(g)
  PROVE  Bookkeeping'
<1> DEFINE l == IF pid[g] >= victimSize THEN "none" ELSE "victimPrivate"
           c == [l |-> victim, s |-> victimSize, i |-> 0]
<1>1. /\ c \in [l : Array \cup {None}, s : Procs \cup {0}, i : 0 .. MaxProcs]
      /\ c.l = victim /\ c.s = victimSize /\ c.i = 0
  BY Types, Constants
<1>2. /\ pc[g] = "victim" /\ pc' = [pc EXCEPT ![g] = l] /\ loc' = [loc EXCEPT ![g] = c]
      /\ item' = [item EXCEPT ![g] = item[g]]
      /\ UNCHANGED <<globals, arrays, lists, item, pin, pid, held>>
  BY DEF Victim, Goto, Bookkeeping, TypeOK
<1>3. l \in {"none", "victimPrivate"} /\ (l = "victimPrivate" => ~ (pid[g] >= victimSize))
  OBVIOUS
<1> HIDE DEF c, l
<1>4. pc'[g] = l /\ loc'[g] = c
  BY <1>2 DEF Bookkeeping, TypeOK
<1>5. Right(g)'
  <2>1. Right(g) /\ victimSize \in Nat /\ pid[g] \in Nat /\ Fits(victim, victimSize)
    BY Types DEF Bookkeeping
  <2>2. victim # None => len[victim] \in Nat
    BY Types
  <2>3. Placed(g)' /\ Carries(g)'
    BY <1>1, <1>2, <1>3, <1>4, <2>1 DEF Right, Placed, Carries, Unpinned, globals
  <2>4. Sized(g)'
    BY <1>1, <1>2, <1>3, <1>4, <2>1, <2>2 DEF Right, Sized, Fits, OwnSlot, globals, arrays
  <2> QED
    BY <2>3, <2>4 DEF Right
<1> QED
  BY <1>1, <1>2, <1>3, <1>5, Types, Reading DEF Bookkeeping, TypeOK, Labels

LEMMA VictimPrivateRight ==
  ASSUME Bookkeeping, NEW g \in Goroutine, VictimPrivate(g)
  PROVE  Bookkeeping'
<1> DEFINE x == private[loc[g].l][pid[g]]
           l == IF x = None THEN "victimSteal" ELSE "clearVictim"
<1>1. /\ pc[g] = "victimPrivate" /\ pc' = [pc EXCEPT ![g] = l]
      /\ item' = [item EXCEPT ![g] = x] /\ loc' = [loc EXCEPT ![g] = loc[g]]
      /\ UNCHANGED <<globals, arrays, lists, pin, pid, loc, held>>
  BY DEF VictimPrivate, Goto, Private, Bookkeeping, TypeOK
<1>2. x \in Item \cup {None}
  BY <1>1, Types DEF Right, Sized, OwnSlot
<1>3. l \in {"victimSteal", "clearVictim"} /\ (l = "victimSteal" <=> x = None)
  OBVIOUS
<1>4. pc'[g] = l /\ item'[g] = x /\ x = private'[loc'[g].l][pid'[g]]
  BY <1>1 DEF Bookkeeping, TypeOK, arrays
<1> HIDE DEF x, l
<1>5. Right(g)'
  <2>1. Right(g) /\ loc[g].s \in Nat
    BY Types
  <2>2. Placed(g)' /\ Carries(g)'
    BY <1>1, <1>3, <1>4, <2>1 DEF Right, Placed, Carries, Unpinned, globals
  <2>3. Sized(g)'
    BY <1>1, <1>3, <1>4, <2>1 DEF Right, Sized, Fits, OwnSlot, globals, arrays
  <2> QED
    BY <2>2, <2>3 DEF Right
<1> QED
  BY <1>1, <1>2, <1>3, <1>5, Types, Reading DEF Bookkeeping, TypeOK, Labels

LEMMA MarkVictimEmptyRight ==
  ASSUME Bookkeeping, NEW g \in Goroutine, MarkVictimEmpty(g)
  PROVE  Bookkeeping'
<1>1. /\ pc[g] = "mark" /\ pc' = [pc EXCEPT ![g] = "none"] /\ victimSize' = 0
      /\ UNCHANGED <<procs, local, localSize, victim, arrays, lists, item, pin, pid, loc, held>>
  BY DEF MarkVictimEmpty, Goto
<1>2. pc' \in [Goroutine -> Labels] /\ pc'[g] = "none" /\ \A h \in Goroutine \ {g} : pc'[h] = pc[h]
  BY <1>1 DEF Bookkeeping, Labels
<1>3. TypeOK'
  BY <1>1 DEF Bookkeeping, TypeOK, arrays, lists
<1>4. Right(g)'
  BY <1>1, <1>2, Types DEF Right, Placed, Carries, Sized, Unpinned, OwnSlot
<1>5. ASSUME NEW h \in Goroutine \ {g} PROVE Right(h)'
  BY <1>1, <1>2, Types, Stays DEF arrays, lists
<1>6. Fits(local, localSize)' /\ ListsRight' /\ OwnP'
  BY <1>1 DEF Bookkeeping, Fits, ListsRight, OwnP, arrays, lists
<1>7. Fits(victim, victimSize)'
  BY <1>1, Types DEF Fits, arrays
<1> QED
  BY <1>2, <1>3, <1>4, <1>5, <1>6, <1>7 DEF Bookkeeping

LEMMA GotRight ==
  ASSUME Bookkeeping, NEW g \in Goroutine, Got(g)
  PROVE  Bookkeeping'
<1>1. pc[g] = "got" /\ held' = held \cup {item[g]} /\ Done(g) /\ UNCHANGED <<globals, arrays, lists>>
  BY DEF Got
<1>2. item[g] \in Item
  BY <1>1, Types DEF Right, Carries
<1> QED
  BY <1>1, <1>2, Leaves DEF Bookkeeping, TypeOK, arrays

LEMMA GotNewRight ==
  ASSUME Bookkeeping, NEW g \in Goroutine, GotNew(g)
  PROVE  Bookkeeping'
<1>1. Done(g) /\ UNCHANGED <<globals, arrays, lists>>
  BY DEF GotNew
<1>2. held' \subseteq Item
  BY DEF GotNew, Bookkeeping, TypeOK
<1> QED
  BY <1>1, <1>2, Leaves DEF Bookkeeping, TypeOK, arrays

LEMMA BeginsRight ==
  ASSUME Bookkeeping, NEW g \in Goroutine, Get(g) \/ \E x \in Item : Put(g, x)
  PROVE  Bookkeeping'
<1>1. CASE Get(g)
  <2>1. PinSize(g) /\ item' = [item EXCEPT ![g] = item[g]] /\ held' \subseteq Item
    BY <1>1 DEF Get, Bookkeeping, TypeOK
  <2> QED
    BY <2>1, Types, PinSizeRight
<1>2. ASSUME NEW x \in Item, Put(g, x) PROVE Bookkeeping'
  BY <1>2, PinSizeRight DEF Put, Bookkeeping, TypeOK
<1> QED
  BY <1>1, <1>2

\* Every step keeps the books.
LEMMA BookkeepingStays ==
  ASSUME Bookkeeping, [Next]_vars
  PROVE  Bookkeeping'
<1>1. CASE \E g \in Goroutine : Get(g) \/ (\E x \in Item : Put(g, x))
  BY <1>1, BeginsRight
<1>2. ASSUME NEW g \in Goroutine, PinStep(g) PROVE Bookkeeping'
  BY <1>2, PinLocalRight, PinFastRight, PinSlowRight, LockRight, RepinRight, RegisterRight,
     StoreSizeRight DEF PinStep
<1>3. ASSUME NEW g \in Goroutine, PutStep(g) PROVE Bookkeeping'
  BY <1>3, PutPrivateRight, StorePrivateRight, PushSharedRight DEF PutStep
<1>4. ASSUME NEW g \in Goroutine, GetStep(g) PROVE Bookkeeping'
  BY <1>4, GetPrivateRight, ClearPrivateRight, PopSharedRight, SlowSizeRight, SlowLocalRight,
     StealLocalRight, VictimRight, VictimPrivateRight, ClearVictimRight, StealVictimRight,
     MarkVictimEmptyRight, GotRight, GotNewRight DEF GetStep
<1>5. CASE \E x \in Item : Drop(x)
  BY <1>5, DropRight
<1>6. CASE SetProcs \/ poolCleanup
  BY <1>6, SetProcsRight, poolCleanupRight
<1>7. CASE UNCHANGED vars
  <2>1. TypeOK' /\ pc' \in [Goroutine -> Labels]
    BY <1>7 DEF Bookkeeping, TypeOK, vars, globals, arrays, lists, locals
  <2>2. ASSUME NEW h \in Goroutine PROVE Right(h)'
    BY <1>7, Types, Stays DEF vars, globals, arrays, lists, locals
  <2>3. Fits(local, localSize)' /\ Fits(victim, victimSize)' /\ ListsRight' /\ OwnP'
    BY <1>7 DEF Bookkeeping, Fits, ListsRight, OwnP, vars, globals, arrays, lists, locals
  <2> QED
    BY <2>1, <2>2, <2>3 DEF Bookkeeping
<1> QED
  BY <1>1, <1>2, <1>3, <1>4, <1>5, <1>6, <1>7 DEF Next

LEMMA BookkeepingBegins == Init => Bookkeeping
<1> SUFFICES ASSUME Init PROVE Bookkeeping
  OBVIOUS
<1>1. /\ pc \in [Goroutine -> Labels] /\ \A g \in Goroutine : pc[g] = "idle" /\ loc[g] = NoLocals
      /\ \A g \in Goroutine : item[g] = None /\ pin[g] = None
  BY DEF Init, Labels, Unpinned
<1>2. TypeOK
  <2>1. Blank \in [Pid -> Item \cup {None}] /\ Drained \in [Pid -> Seq(Item)]
    BY DEF Blank, Drained
  <2>2. NoLocals \in [l : Array \cup {None}, s : Procs \cup {0}, i : 0 .. MaxProcs]
    BY Constants
  <2>3. 0 \in Pid
    BY Constants
  <2> QED
    BY <2>1, <2>2, <2>3 DEF Init, TypeOK
<1>3. \A g \in Goroutine : Right(g)
  BY <1>1, Constants DEF Right, Placed, Carries, Sized, Unpinned, OwnSlot
<1>4. OwnP /\ Fits(local, localSize) /\ Fits(victim, victimSize) /\ ListsRight
  BY <1>1 DEF Init, OwnP, Fits, ListsRight
<1> QED
  BY <1>1, <1>2, <1>3, <1>4 DEF Bookkeeping

-----------------------------------------------------------------------------
(***************************************************************************)
(* An item is in one place.                                                *)
(***************************************************************************)
\* No place has x that did not have it; d is how far a shared list has moved up.
LEMMA Fewer ==
  ASSUME NEW x, Once(x), x \in held' => x \in held,
         \A g \in Goroutine : InHand(g)' = x => InHand(g) = x,
         \A a \in Array, i \in Pid : InPrivate(x, a, i)' => InPrivate(x, a, i),
         NEW d \in [Array -> [Pid -> Nat]],
         \A a \in Array, i \in Pid, k \in Nat :
           InShared(x, a, i, k)' => InShared(x, a, i, k + d[a][i])
  PROVE  Once(x)'
<1>1. \A a \in Array, i \in Pid, k \in Nat : k + d[a][i] \in Nat
  OBVIOUS
<1>2. ASSUME NEW a \in Array, NEW i \in Pid, InPrivate(x, a, i)'
      PROVE  /\ x \notin held' /\ \A g \in Goroutine : InHand(g)' # x
             /\ \A b \in Array, j \in Pid : InPrivate(x, b, j)' => a = b /\ i = j
  <2> HIDE DEF InPrivate, InHand
  <2>1. InPrivate(x, a, i)
    BY <1>2
  <2> QED
    BY <2>1 DEF Once
<1>3. ASSUME NEW a \in Array, NEW i \in Pid, NEW k \in Nat, InShared(x, a, i, k)'
      PROVE  /\ x \notin held' /\ \A g \in Goroutine : InHand(g)' # x
             /\ \A b \in Array, j \in Pid : ~ InPrivate(x, b, j)'
             /\ \A b \in Array, j \in Pid, l \in Nat :
                  InShared(x, b, j, l)' => a = b /\ i = j /\ k = l
  <2>1. InShared(x, a, i, k + d[a][i])
    BY <1>3
  <2>2. ASSUME NEW b \in Array, NEW j \in Pid, NEW l \in Nat, InShared(x, b, j, l)'
        PROVE  a = b /\ i = j /\ k = l
    <3>1. InShared(x, b, j, l + d[b][j])
      BY <2>2
    <3>2. a = b /\ i = j /\ k + d[a][i] = l + d[b][j]
      BY <1>1, <2>1, <3>1 DEF Once
    <3> QED
      BY <3>2
  <2> QED
    BY <1>1, <2>1, <2>2 DEF Once
<1>4. x \in held' => \A g \in Goroutine : InHand(g)' # x
  BY DEF Once
<1>5. \A g, h \in Goroutine : InHand(g)' = x /\ InHand(h)' = x => g = h
  BY DEF Once
<1> QED
  BY <1>2, <1>3, <1>4, <1>5 DEF Once

LEMMA Shrinks ==
  ASSUME NEW x, Once(x), x \in held' => x \in held,
         \A g \in Goroutine : InHand(g)' = x => InHand(g) = x,
         \A a \in Array, i \in Pid : InPrivate(x, a, i)' => InPrivate(x, a, i),
         \A a \in Array, i \in Pid, k \in Nat : InShared(x, a, i, k)' => InShared(x, a, i, k)
  PROVE  Once(x)'
<1> DEFINE d == [a \in Array |-> [i \in Pid |-> 0]]
<1>1. d \in [Array -> [Pid -> Nat]] /\ \A a \in Array, i \in Pid, k \in Nat : k + d[a][i] = k
  OBVIOUS
<1> HIDE DEF d
<1>2. \A a \in Array, i \in Pid, k \in Nat : InShared(x, a, i, k)' => InShared(x, a, i, k + d[a][i])
  BY <1>1
<1> QED
  BY <1>1, <1>2, Fewer

\* An array that is in use after a step was so before it, unless it is new.
LEMMA LiveBefore ==
  ASSUME local' \in {local, None}, victim' \in {local, victim, None},
         \A h \in Goroutine : loc'[h].l \in {loc[h].l, local, victim, None}
  PROVE  \A a \in Array : a \notin Fresh' => a \notin Fresh
<1> SUFFICES ASSUME NEW a \in Array, a \in LiveArrays' PROVE a \in LiveArrays
  BY DEF Fresh
<1>1. a # None
  BY Constants
<1>2. a = local' \/ a = victim' \/ \E h \in Goroutine : a = loc'[h].l
  BY DEF LiveArrays
<1> QED
  BY <1>1, <1>2 DEF LiveArrays

\* A step that writes to no array.
LEMMA NoStore ==
  ASSUME NEW x \in Item, Once(x), x \in held' => x \in held,
         \A g \in Goroutine : InHand(g)' = x => InHand(g) = x,
         \A a \in Array : a \notin Fresh' =>
           a \notin Fresh /\ private'[a] = private[a] /\ shared'[a] = shared[a]
  PROVE  Once(x)'
<1>1. \A a \in Array, i \in Pid : InPrivate(x, a, i)' => InPrivate(x, a, i)
  BY DEF InPrivate
<1>2. \A a \in Array, i \in Pid, k \in Nat : InShared(x, a, i, k)' => InShared(x, a, i, k)
  BY DEF InShared
<1> QED
  BY <1>1, <1>2, Shrinks

\* Where a goroutine's array is.
LEMMA OwnArray ==
  ASSUME NEW g \in Goroutine, loc[g].l \in Array
  PROVE  loc[g].l \notin Fresh
BY DEF Fresh, LiveArrays

\* x is nowhere else.
NotHeld(x) == x \notin held
NoHand(x) == \A g \in Goroutine : InHand(g) # x
NoPrivate(x) == \A a \in Array, i \in Pid : ~ InPrivate(x, a, i)
NoShared(x) == \A a \in Array, i \in Pid, k \in Nat : ~ InShared(x, a, i, k)

LEMMA Elsewhere ==
  ASSUME NEW x, Once(x)
  PROVE  /\ x \in held => NoHand(x) /\ NoPrivate(x) /\ NoShared(x)
         /\ \A g \in Goroutine : InHand(g) = x =>
              /\ NotHeld(x) /\ NoPrivate(x) /\ NoShared(x)
              /\ \A h \in Goroutine : InHand(h) = x => h = g
         /\ \A a \in Array, i \in Pid : InPrivate(x, a, i) =>
              /\ NotHeld(x) /\ NoHand(x) /\ NoShared(x)
              /\ \A b \in Array, j \in Pid : InPrivate(x, b, j) => a = b /\ i = j
         /\ \A a \in Array, i \in Pid, k \in Nat : InShared(x, a, i, k) =>
              /\ NotHeld(x) /\ NoHand(x) /\ NoPrivate(x)
              /\ \A b \in Array, j \in Pid, l \in Nat :
                   InShared(x, b, j, l) => a = b /\ i = j /\ k = l
<1>1. x \in held => NoHand(x) /\ NoPrivate(x) /\ NoShared(x)
  BY DEF Once, NoHand, NoPrivate, NoShared
<1>2. ASSUME NEW g \in Goroutine, InHand(g) = x
      PROVE  /\ NotHeld(x) /\ NoPrivate(x) /\ NoShared(x)
             /\ \A h \in Goroutine : InHand(h) = x => h = g
  BY <1>2 DEF Once, NotHeld, NoPrivate, NoShared
<1>3. ASSUME NEW a \in Array, NEW i \in Pid, InPrivate(x, a, i)
      PROVE  /\ NotHeld(x) /\ NoHand(x) /\ NoShared(x)
             /\ \A b \in Array, j \in Pid : InPrivate(x, b, j) => a = b /\ i = j
  BY <1>3 DEF Once, NotHeld, NoHand, NoShared
<1>4. ASSUME NEW a \in Array, NEW i \in Pid, NEW k \in Nat, InShared(x, a, i, k)
      PROVE  /\ NotHeld(x) /\ NoHand(x) /\ NoPrivate(x)
             /\ \A b \in Array, j \in Pid, l \in Nat :
                  InShared(x, b, j, l) => a = b /\ i = j /\ k = l
  BY <1>4 DEF Once, NotHeld, NoHand, NoPrivate
<1> QED
  BY <1>1, <1>2, <1>3, <1>4

\* So a step may leave x: with a user, in one hand, in one private field, in one list.
LEMMA OnlyHeld ==
  ASSUME NEW x, NoHand(x)', NoPrivate(x)', NoShared(x)'
  PROVE  Once(x)'
BY DEF NoHand, NoPrivate, NoShared, Once

LEMMA OnlyInHand ==
  ASSUME NEW x, NotHeld(x)', NoPrivate(x)', NoShared(x)',
         NEW g \in Goroutine, \A h \in Goroutine : InHand(h)' = x => h = g
  PROVE  Once(x)'
BY DEF NotHeld, NoPrivate, NoShared, Once

LEMMA OnlyInPrivate ==
  ASSUME NEW x, NotHeld(x)', NoHand(x)', NoShared(x)',
         NEW a \in Array, NEW i \in Pid,
         \A b \in Array, j \in Pid : InPrivate(x, b, j)' => a = b /\ i = j
  PROVE  Once(x)'
BY DEF NotHeld, NoHand, NoShared, Once

NoOtherShared(x, a, i, k) ==
  \A b \in Array, j \in Pid, l \in Nat : InShared(x, b, j, l) => a = b /\ i = j /\ k = l

LEMMA OnlyInShared ==
  ASSUME NEW x, NotHeld(x)', NoHand(x)', NoPrivate(x)',
         NEW a \in Array, NEW i \in Pid, NEW k \in Nat, NoOtherShared(x, a, i, k)'
  PROVE  Once(x)'
BY DEF NotHeld, NoHand, NoPrivate, NoOtherShared, Once

\* A step of g that touches no array and takes nothing into its hand.
LEMMA TakesNothing ==
  ASSUME NEW x \in Item, Once(x), NEW g \in Goroutine, UNCHANGED <<local, victim, private, shared, held>>,
         \A h \in Goroutine \ {g} : pc'[h] = pc[h] /\ item'[h] = item[h] /\ loc'[h].l = loc[h].l,
         loc'[g].l \in {loc[g].l, local, victim, None},
         InHand(g)' \in {InHand(g), None}
  PROVE  Once(x)'
<1>1. \A a \in Array : a \notin Fresh' => a \notin Fresh
  <2>1. \A h \in Goroutine : loc'[h].l \in {loc[h].l, local, victim, None}
    OBVIOUS
  <2> QED
    BY <2>1, LiveBefore
<1>2. \A h \in Goroutine : InHand(h)' = x => InHand(h) = x
  <2>1. x # None
    BY Constants
  <2>2. \A h \in Goroutine \ {g} : InHand(h)' = InHand(h)
    BY DEF InHand
  <2> QED
    BY <2>1, <2>2
<1> QED
  BY <1>1, <1>2, NoStore

\* From its user into a hand.
LEMMA PutOnce ==
  ASSUME Bookkeeping, NEW g \in Goroutine, NEW y \in Item, Put(g, y), NEW x \in Item, Once(x)
  PROVE  Once(x)'
<1>1. /\ y \in held /\ held' = held \ {y} /\ item' = [item EXCEPT ![g] = y] /\ pc[g] = "idle"
      /\ pc' = [pc EXCEPT ![g] = "pinLocal"] /\ loc' = [loc EXCEPT ![g].s = localSize]
      /\ UNCHANGED <<globals, arrays>>
  BY DEF Put, PinSize, Goto
<1>2. /\ pc'[g] = "pinLocal" /\ item'[g] = y
      /\ \A h \in Goroutine \ {g} : pc'[h] = pc[h] /\ item'[h] = item[h]
      /\ \A h \in Goroutine : loc'[h].l = loc[h].l
  BY <1>1 DEF Bookkeeping, TypeOK
<1>3. Fresh' = Fresh
  BY <1>1, <1>2 DEF Fresh, LiveArrays, globals
<1>4. \A h \in Goroutine \ {g} : InHand(h)' = InHand(h)
  BY <1>2 DEF InHand
<1>5. InHand(g)' = y /\ InHand(g) = None
  BY <1>1, <1>2, Types DEF InHand, Right, Carries
<1>6. CASE x = y
  <2>1. NoHand(x) /\ NoPrivate(x) /\ NoShared(x)
    BY <1>1, <1>6, Elsewhere
  <2>2. NotHeld(x)' /\ NoPrivate(x)' /\ NoShared(x)'
    BY <1>1, <1>3, <1>6, <2>1 DEF NotHeld, NoPrivate, NoShared, InPrivate, InShared, arrays
  <2>3. \A h \in Goroutine : InHand(h)' = x => h = g
    BY <1>4, <2>1 DEF NoHand
  <2> QED
    BY <2>2, <2>3, OnlyInHand
<1>7. CASE x # y
  BY <1>1, <1>3, <1>4, <1>5, <1>7, NoStore DEF arrays
<1> QED
  BY <1>6, <1>7

\* A goroutine leaves with nothing in its hand.
LEMMA Left ==
  ASSUME Bookkeeping, NEW g \in Goroutine, Done(g), UNCHANGED globals
  PROVE  /\ InHand(g)' = None /\ \A h \in Goroutine \ {g} : InHand(h)' = InHand(h)
         /\ \A a \in Array : a \notin Fresh' => a \notin Fresh
<1>1. /\ pc'[g] = "idle" /\ item'[g] = None /\ loc'[g].l = None
      /\ \A h \in Goroutine \ {g} : pc'[h] = pc[h] /\ item'[h] = item[h] /\ loc'[h] = loc[h]
  BY Constants DEF Done, Goto, Bookkeeping, TypeOK
<1>2. InHand(g)' = None /\ \A h \in Goroutine \ {g} : InHand(h)' = InHand(h)
  BY <1>1 DEF InHand
<1>3. \A h \in Goroutine : loc'[h].l \in {loc[h].l, local, victim, None}
  BY <1>1
<1> QED
  BY <1>2, <1>3, LiveBefore DEF globals

\* From a hand into the private field, or to the end of the shared list.
LEMMA StorePrivateOnce ==
  ASSUME Bookkeeping, NEW g \in Goroutine, StorePrivate(g), NEW x \in Item, Once(x)
  PROVE  Once(x)'
<1>1. /\ pc[g] = "setPrivate" /\ SetPrivate(g, item[g]) /\ Done(g)
      /\ UNCHANGED <<globals, len, shared, lists, held>>
  BY DEF StorePrivate
<1>2. /\ InHand(g)' = None /\ \A h \in Goroutine \ {g} : InHand(h)' = InHand(h)
      /\ \A a \in Array : a \notin Fresh' => a \notin Fresh
  BY <1>1, Left
<1>3. item[g] \in Item /\ InHand(g) = item[g]
  BY <1>1, Types DEF Right, Carries, InHand
<1>4. PICK l \in Array, i \in Pid : l = loc[g].l /\ i = pid[g]
  BY <1>1, Types DEF Right, Sized, OwnSlot
<1>5. /\ private'[l][i] = item[g]
      /\ \A a \in Array, j \in Pid : a # l \/ j # i => private'[a][j] = private[a][j]
  BY <1>1, <1>3, <1>4, Stores DEF OwnSlot
<1>6. NoShared(x) => NoShared(x)'
  BY <1>1, <1>2 DEF NoShared, InShared
<1>7. CASE x = item[g]
  <2>1. NotHeld(x) /\ NoPrivate(x) /\ NoShared(x) /\ \A h \in Goroutine : InHand(h) = x => h = g
    BY <1>3, <1>7, Elsewhere
  <2>2. NotHeld(x)' /\ NoHand(x)'
    BY <1>1, <1>2, <2>1, Constants DEF NotHeld, NoHand
  <2>3. \A b \in Array, j \in Pid : InPrivate(x, b, j)' => l = b /\ i = j
    BY <1>2, <1>5, <2>1 DEF NoPrivate, InPrivate
  <2> QED
    BY <1>6, <2>1, <2>2, <2>3, OnlyInPrivate
<1>8. CASE x # item[g]
  <2>1. \A a \in Array, j \in Pid : InPrivate(x, a, j)' => InPrivate(x, a, j)
    BY <1>2, <1>5, <1>8 DEF InPrivate
  <2>2. \A a \in Array, j \in Pid, k \in Nat : InShared(x, a, j, k)' => InShared(x, a, j, k)
    BY <1>1, <1>2 DEF InShared
  <2>3. \A h \in Goroutine : InHand(h)' = x => InHand(h) = x
    BY <1>2, Constants
  <2> QED
    BY <1>1, <2>1, <2>2, <2>3, Shrinks
<1> QED
  BY <1>7, <1>8

LEMMA PushSharedOnce ==
  ASSUME Bookkeeping, NEW g \in Goroutine, PushShared(g), NEW x \in Item, Once(x)
  PROVE  Once(x)'
<1>1. /\ pc[g] = "pushShared" /\ Done(g)
      /\ shared' = [shared EXCEPT ![loc[g].l][pid[g]] = Append(@, item[g])]
      /\ UNCHANGED <<globals, len, private, lists, held>>
  BY DEF PushShared
<1>2. /\ InHand(g)' = None /\ \A h \in Goroutine \ {g} : InHand(h)' = InHand(h)
      /\ \A a \in Array : a \notin Fresh' => a \notin Fresh
  BY <1>1, Left
<1>3. item[g] \in Item /\ InHand(g) = item[g]
  BY <1>1, Types DEF Right, Carries, InHand
<1>4. PICK l \in Array, i \in Pid : l = loc[g].l /\ i = pid[g]
  BY <1>1, Types DEF Right, Sized, OwnSlot
<1>5. PICK s \in Seq(Item) : s = shared[l][i]
  BY Types
<1>6. PICK t \in Seq(Item) : t = Append(s, item[g])
  <2>1. Append(s, item[g]) \in Seq(Item)
    BY <1>3
  <2> QED
    BY <2>1
<1>7. /\ DOMAIN t = 1 .. Len(s) + 1 /\ Len(s) \in Nat /\ DOMAIN s = 1 .. Len(s)
      /\ t[Len(s) + 1] = item[g] /\ \A k \in 1 .. Len(s) : t[k] = s[k]
  BY <1>3, <1>6
<1> PICK n \in Nat : n = Len(s) + 1
  BY <1>7
<1>8. shared'[l][i] = t /\ \A a \in Array, j \in Pid : a # l \/ j # i => shared'[a][j] = shared[a][j]
  BY <1>1, <1>4, <1>5, <1>6 DEF Bookkeeping, TypeOK
<1>9. ASSUME NEW a \in Array, NEW j \in Pid, NEW k \in Nat, InShared(x, a, j, k)'
      PROVE  InShared(x, a, j, k) \/ (a = l /\ j = i /\ k = n /\ x = item[g])
  <2>1. CASE a # l \/ j # i
    BY <1>2, <1>8, <1>9, <2>1 DEF InShared
  <2>2. CASE a = l /\ j = i
    <3>1. a \notin Fresh /\ k \in DOMAIN t /\ t[k] = x
      BY <1>2, <1>8, <1>9, <2>2 DEF InShared
    <3> QED
      BY <1>5, <1>7, <2>2, <3>1 DEF InShared
  <2> QED
    BY <2>1, <2>2
<1>10. \A a \in Array, j \in Pid : InPrivate(x, a, j)' => InPrivate(x, a, j)
  BY <1>1, <1>2 DEF InPrivate
<1>11. CASE x = item[g]
  <2>1. NotHeld(x) /\ NoPrivate(x) /\ NoShared(x) /\ \A h \in Goroutine : InHand(h) = x => h = g
    BY <1>3, <1>11, Elsewhere
  <2>2. NotHeld(x)' /\ NoHand(x)'
    BY <1>1, <1>2, <2>1, Constants DEF NotHeld, NoHand
  <2>3. NoPrivate(x)'
    BY <1>10, <2>1 DEF NoPrivate
  <2>4. NoOtherShared(x, l, i, n)'
    BY <1>9, <2>1 DEF NoShared, NoOtherShared
  <2> QED
    BY <2>2, <2>3, <2>4, OnlyInShared
<1>12. CASE x # item[g]
  <2>1. \A h \in Goroutine : InHand(h)' = x => InHand(h) = x
    BY <1>2, Constants
  <2>2. \A a \in Array, j \in Pid, k \in Nat : InShared(x, a, j, k)' => InShared(x, a, j, k)
    BY <1>9, <1>12
  <2>3. x \in held' => x \in held
    BY <1>1
  <2> QED
    BY <1>10, <2>1, <2>2, <2>3, Shrinks
<1> QED
  BY <1>11, <1>12

\* From a private field into the hand of the goroutine that has read it.
LEMMA ClearsOnce ==
  ASSUME Bookkeeping, NEW g \in Goroutine, pc[g] \in {"clearPrivate", "clearVictim"},
         SetPrivate(g, None), pc'[g] \notin {"clearPrivate", "clearVictim"},
         \A h \in Goroutine \ {g} : pc'[h] = pc[h],
         UNCHANGED <<globals, shared, item, loc, held>>, NEW x \in Item, Once(x)
  PROVE  Once(x)'
<1>1. PICK l \in Array, i \in Pid : l = loc[g].l /\ i = pid[g]
  BY Types DEF Right, Sized, OwnSlot
<1>2. /\ private'[l][i] = None
      /\ \A a \in Array, j \in Pid : a # l \/ j # i => private'[a][j] = private[a][j]
  BY <1>1, Stores DEF OwnSlot
<1>3. Fresh' = Fresh
  BY DEF Fresh, LiveArrays, globals
<1>4. /\ InHand(g) = None /\ InHand(g)' = item[g]
      /\ \A h \in Goroutine \ {g} : InHand(h)' = InHand(h)
  BY DEF InHand
<1>5. \A a \in Array, j \in Pid : InPrivate(x, a, j)' => InPrivate(x, a, j) /\ ~ (a = l /\ j = i)
  BY <1>2, <1>3, Constants DEF InPrivate
<1>6. \A a \in Array, j \in Pid, k \in Nat : InShared(x, a, j, k)' => InShared(x, a, j, k)
  BY <1>3 DEF InShared
<1>7. CASE x = item[g]
  <2>1. InPrivate(x, l, i)
    BY <1>1, <1>7, Types, OwnArray DEF Right, Carries, InPrivate
  <2>2. /\ NotHeld(x) /\ NoHand(x) /\ NoShared(x)
        /\ \A b \in Array, j \in Pid : InPrivate(x, b, j) => l = b /\ i = j
    BY <2>1, Elsewhere
  <2>3. NotHeld(x)' /\ NoPrivate(x)' /\ NoShared(x)'
    BY <1>5, <1>6, <2>2 DEF NotHeld, NoPrivate, NoShared
  <2>4. \A h \in Goroutine : InHand(h)' = x => h = g
    BY <1>4, <2>2 DEF NoHand
  <2> QED
    BY <2>3, <2>4, OnlyInHand
<1>8. CASE x # item[g]
  <2>1. \A h \in Goroutine : InHand(h)' = x => InHand(h) = x
    BY <1>4, <1>8
  <2> QED
    BY <1>5, <1>6, <2>1, Shrinks
<1> QED
  BY <1>7, <1>8

\* From an end of a shared list s into the hand of g: n is the position it was
\* at, t is what is left of the list, and m how far it moves up.
Takes(g, l, i, s, t, n, m) ==
  /\ item[g] = None /\ pc'[g] = "got" /\ item'[g] = s[n]
  /\ \A h \in Goroutine \ {g} : pc'[h] = pc[h] /\ item'[h] = item[h]
  /\ UNCHANGED <<globals, private, loc, held>>
  /\ l \notin Fresh /\ s = shared[l][i] /\ t = shared'[l][i] /\ n \in DOMAIN s
  /\ \A a \in Array, j \in Pid : a # l \/ j # i => shared'[a][j] = shared[a][j]
  /\ \A k \in DOMAIN t : k + m \in DOMAIN s /\ t[k] = s[k + m] /\ k + m # n

LEMMA TakesOnce ==
  ASSUME Bookkeeping, NEW g \in Goroutine, NEW l \in Array, NEW i \in Pid,
         NEW s \in Seq(Item), NEW t \in Seq(Item), NEW n \in Nat, NEW m \in Nat,
         Takes(g, l, i, s, t, n, m), NEW x \in Item, Once(x)
  PROVE  Once(x)'
<1> USE DEF Takes
<1>1. Fresh' = Fresh
  BY DEF Fresh, LiveArrays, globals
<1>2. InHand(g)' = s[n] /\ \A h \in Goroutine \ {g} : InHand(h)' = InHand(h)
  BY DEF InHand
<1>3. InHand(g) = None
  BY DEF InHand
<1> DEFINE d == [a \in Array |-> [j \in Pid |-> IF a = l /\ j = i THEN m ELSE 0]]
<1>4. /\ d \in [Array -> [Pid -> Nat]] /\ d[l][i] = m
      /\ \A a \in Array, j \in Pid : a # l \/ j # i => d[a][j] = 0
  OBVIOUS
<1> HIDE DEF d
<1>5. ASSUME NEW a \in Array, NEW j \in Pid, NEW k \in Nat, InShared(x, a, j, k)'
      PROVE  InShared(x, a, j, k + d[a][j]) /\ ~ (a = l /\ j = i /\ k + d[a][j] = n)
  <2>1. CASE a # l \/ j # i
    <3>1. k + d[a][j] = k
      BY <1>4, <2>1
    <3>2. InShared(x, a, j, k)
      BY <1>1, <1>5, <2>1 DEF InShared
    <3> QED
      BY <2>1, <3>1, <3>2
  <2>2. CASE a = l /\ j = i
    <3>1. a \notin Fresh /\ k \in DOMAIN t /\ t[k] = x
      BY <1>1, <1>5, <2>2 DEF InShared
    <3>2. k + m \in DOMAIN s /\ s[k + m] = x /\ k + m # n
      BY <3>1
    <3> QED
      BY <1>4, <2>2, <3>1, <3>2 DEF InShared
  <2> QED
    BY <2>1, <2>2
<1>6. \A a \in Array, j \in Pid : InPrivate(x, a, j)' => InPrivate(x, a, j)
  BY <1>1 DEF InPrivate
<1>7. \A a \in Array, j \in Pid, k \in Nat : k + d[a][j] \in Nat
  BY <1>4
<1>8. CASE x = s[n]
  <2>1. InShared(x, l, i, n)
    BY <1>8 DEF InShared
  <2>2. /\ NotHeld(x) /\ NoHand(x) /\ NoPrivate(x)
        /\ \A b \in Array, j \in Pid, k \in Nat : InShared(x, b, j, k) => l = b /\ i = j /\ n = k
    BY <2>1, Elsewhere
  <2>3. NoShared(x)'
    <3> SUFFICES ASSUME NEW a \in Array, NEW j \in Pid, NEW k \in Nat, InShared(x, a, j, k)'
                 PROVE  FALSE
      BY DEF NoShared
    <3>1. PICK q \in Nat : q = k + d[a][j]
      BY <1>7
    <3>2. InShared(x, a, j, q) /\ ~ (a = l /\ j = i /\ q = n)
      BY <1>5, <3>1
    <3> QED
      BY <2>2, <3>2
  <2>4. NotHeld(x)' /\ NoPrivate(x)'
    BY <1>6, <2>2 DEF NotHeld, NoPrivate
  <2>5. \A h \in Goroutine : InHand(h)' = x => h = g
    BY <1>2, <2>2 DEF NoHand
  <2> QED
    BY <2>3, <2>4, <2>5, OnlyInHand
<1>9. CASE x # s[n]
  <2>1. \A h \in Goroutine : InHand(h)' = x => InHand(h) = x
    BY <1>2, <1>9
  <2> QED
    BY <1>4, <1>5, <1>6, <2>1, Fewer
<1> QED
  BY <1>8, <1>9

LEMMA PopSharedOnce ==
  ASSUME Bookkeeping, NEW g \in Goroutine, PopShared(g), NEW x \in Item, Once(x)
  PROVE  Once(x)'
<1>1. pc[g] = "popShared" /\ UNCHANGED <<globals, len, private, lists, pin, pid, loc, held>>
  BY DEF PopShared
<1>2. item[g] = None
  BY <1>1, Types DEF Right, Carries
<1>3. PICK l \in Array, i \in Pid : l = loc[g].l /\ i = pid[g]
  BY <1>1, Types DEF Right, Sized, OwnSlot
<1>4. PICK s \in Seq(Item) : s = shared[l][i]
  BY Types
<1>5. CASE s # <<>>
  <2>1. PICK t \in Seq(Item) : t = Front(s)
    BY <1>5, Ends
  <2>2. /\ pc' = [pc EXCEPT ![g] = "got"] /\ item' = [item EXCEPT ![g] = Last(s)]
        /\ shared' = [shared EXCEPT ![l][i] = Front(@)]
    BY <1>3, <1>4, <1>5 DEF PopShared, Goto
  <2>3. PICK n \in Nat, m \in Nat : n = Len(s) /\ m = 0
    BY <1>5, Ends
  <2>4. /\ pc'[g] = "got" /\ item'[g] = s[n]
        /\ \A h \in Goroutine \ {g} : pc'[h] = pc[h] /\ item'[h] = item[h]
    BY <1>5, <2>2, <2>3, Ends DEF Bookkeeping, TypeOK
  <2>5. shared'[l][i] = t /\ \A a \in Array, b \in Pid : a # l \/ b # i => shared'[a][b] = shared[a][b]
    BY <1>4, <2>1, <2>2 DEF Bookkeeping, TypeOK
  <2>6. n \in DOMAIN s /\ \A k \in DOMAIN t : k + m \in DOMAIN s /\ t[k] = s[k + m] /\ k + m # n
    <3>1. /\ Len(s) \in Nat \ {0} /\ DOMAIN s = 1 .. Len(s) /\ DOMAIN t = 1 .. Len(s) - 1
          /\ \A k \in 1 .. Len(s) - 1 : t[k] = s[k]
      BY <1>5, <2>1, Ends
    <3> QED
      BY <2>3, <3>1
  <2>7. l \notin Fresh
    BY <1>3, OwnArray
  <2>8. UNCHANGED <<globals, private, loc, held>>
    BY <1>1
  <2>9. Takes(g, l, i, s, t, n, m)
    BY <1>2, <1>4, <2>4, <2>5, <2>6, <2>7, <2>8 DEF Takes
  <2> QED
    BY <2>9, TakesOnce
<1>6. CASE s = <<>>
  <2>1. pc' = [pc EXCEPT ![g] = "slowSize"] /\ UNCHANGED <<item, shared>>
    BY <1>3, <1>4, <1>6 DEF PopShared, Goto
  <2>2. InHand(g)' = None
    BY <1>2, <2>1 DEF InHand
  <2>3. \A h \in Goroutine \ {g} : pc'[h] = pc[h] /\ item'[h] = item[h] /\ loc'[h].l = loc[h].l
    BY <1>1, <2>1 DEF Bookkeeping
  <2> QED
    BY <1>1, <2>1, <2>2, <2>3, TakesNothing DEF globals
<1> QED
  BY <1>5, <1>6

LEMMA StealOnce ==
  ASSUME Bookkeeping, NEW g \in Goroutine, NEW n \in Nat,
         NEW more \in {"steal", "victimSteal"}, NEW end \in {"victim", "mark"},
         pc[g] = more, Steal(g, n % loc[g].s, more, end),
         UNCHANGED <<globals, len, private, lists, pin, pid, held>>, NEW x \in Item, Once(x)
  PROVE  Once(x)'
<1>1. item[g] = None
  BY Types DEF Right, Carries
<1>2. CASE loc[g].i < loc[g].s /\ shared[loc[g].l][n % loc[g].s] # <<>>
  <2>1. PICK l \in Array, j \in Pid : l = loc[g].l /\ j = n % loc[g].s
    BY <1>2, LoopIndex
  <2>2. PICK s \in Seq(Item) : s = shared[l][j]
    BY Types
  <2>3. s # <<>>
    BY <1>2, <2>1, <2>2
  <2>4. PICK t \in Seq(Item) : t = Tail(s)
    BY <2>3, Ends
  <2>5. /\ pc' = [pc EXCEPT ![g] = "got"] /\ item' = [item EXCEPT ![g] = Head(s)]
        /\ shared' = [shared EXCEPT ![l][j] = Tail(@)] /\ UNCHANGED loc
    <3>1. loc[g].i # loc[g].s
      BY <1>2, Types
    <3> QED
      BY <1>2, <2>1, <2>2, <3>1 DEF Steal, Goto
  <2>6. PICK k1 \in Nat : k1 = 1
    OBVIOUS
  <2>7. /\ pc'[g] = "got" /\ item'[g] = s[k1]
        /\ \A h \in Goroutine \ {g} : pc'[h] = pc[h] /\ item'[h] = item[h]
    BY <2>3, <2>5, <2>6, Ends DEF Bookkeeping, TypeOK
  <2>8. shared'[l][j] = t /\ \A a \in Array, b \in Pid : a # l \/ b # j => shared'[a][b] = shared[a][b]
    BY <2>2, <2>4, <2>5 DEF Bookkeeping, TypeOK
  <2>9. k1 \in DOMAIN s /\ \A k \in DOMAIN t : k + k1 \in DOMAIN s /\ t[k] = s[k + k1] /\ k + k1 # k1
    BY <2>3, <2>4, <2>6, Ends
  <2>10. l \notin Fresh
    BY <2>1, OwnArray
  <2>11. UNCHANGED <<globals, private, loc, held>>
    BY <2>5
  <2>12. Takes(g, l, j, s, t, k1, k1)
    BY <1>1, <2>2, <2>7, <2>8, <2>9, <2>10, <2>11 DEF Takes
  <2> QED
    BY <2>12, TakesOnce
<1>3. CASE ~ (loc[g].i < loc[g].s /\ shared[loc[g].l][n % loc[g].s] # <<>>)
  <2>1. /\ UNCHANGED <<item, shared>>
        /\ \/ pc' = [pc EXCEPT ![g] = more] /\ loc' = [loc EXCEPT ![g].i = @ + 1]
           \/ pc' = [pc EXCEPT ![g] = end] /\ loc' = [loc EXCEPT ![g].i = 0]
    BY <1>3, Types DEF Steal, Goto
  <2>2. \A h \in Goroutine : loc'[h].l = loc[h].l
    <3>1. CASE loc' = [loc EXCEPT ![g].i = @ + 1]
      BY <3>1 DEF Bookkeeping, TypeOK
    <3>2. CASE loc' = [loc EXCEPT ![g].i = 0]
      BY <3>2 DEF Bookkeeping, TypeOK
    <3> QED
      BY <2>1, <3>1, <3>2
  <2>3. InHand(g)' = None
    BY <1>1, <2>1 DEF InHand
  <2>4. \A h \in Goroutine \ {g} : pc'[h] = pc[h] /\ item'[h] = item[h]
    BY <2>1 DEF Bookkeeping
  <2> QED
    BY <2>1, <2>2, <2>3, <2>4, TakesNothing DEF globals
<1> QED
  BY <1>2, <1>3

\* From a hand to a user; a new item is one that is nowhere.
LEMMA GotOnce ==
  ASSUME Bookkeeping, NEW g \in Goroutine, Got(g), NEW x \in Item, Once(x)
  PROVE  Once(x)'
<1>1. pc[g] = "got" /\ held' = held \cup {item[g]} /\ Done(g) /\ UNCHANGED <<globals, arrays, lists>>
  BY DEF Got
<1>2. /\ InHand(g)' = None /\ \A h \in Goroutine \ {g} : InHand(h)' = InHand(h)
      /\ \A a \in Array : a \notin Fresh' => a \notin Fresh
  BY <1>1, Left
<1>3. InHand(g) = item[g]
  BY <1>1 DEF InHand
<1>4. CASE x = item[g]
  <2>1. NoPrivate(x) /\ NoShared(x) /\ \A h \in Goroutine : InHand(h) = x => h = g
    BY <1>3, <1>4, Elsewhere
  <2>2. NoPrivate(x)' /\ NoShared(x)'
    BY <1>1, <1>2, <2>1 DEF NoPrivate, NoShared, InPrivate, InShared, arrays
  <2>3. NoHand(x)'
    BY <1>2, <2>1, Constants DEF NoHand
  <2> QED
    BY <2>2, <2>3, OnlyHeld
<1>5. CASE x # item[g]
  <2>1. \A h \in Goroutine : InHand(h)' = x => InHand(h) = x
    BY <1>2, Constants
  <2> QED
    BY <1>1, <1>2, <1>5, <2>1, NoStore DEF arrays
<1> QED
  BY <1>4, <1>5

\* What is free is nowhere.
LEMMA FreeIs ==
  ASSUME NEW x \in Item, Free(x)
  PROVE  NoHand(x) /\ NoPrivate(x) /\ NoShared(x)
<1>1. NoHand(x)
  BY Constants DEF Free, NoHand, InHand
<1>2. ASSUME NEW a \in Array, NEW i \in Pid, InPrivate(x, a, i) PROVE FALSE
  <2>1. <<a, i>> \in Places(x)
    BY <1>2 DEF Places, InArrays, InPrivate
  <2> QED
    BY <2>1 DEF Free
<1>3. ASSUME NEW a \in Array, NEW i \in Pid, NEW k \in Nat, InShared(x, a, i, k) PROVE FALSE
  <2> DEFINE At(b, j) == {<<b, j, n>> : n \in {n \in DOMAIN shared[b][j] : shared[b][j][n] = x}}
             A == Array \ Fresh
  <2>1. <<a, i, k>> \in At(a, i) /\ a \in A
    BY <1>3 DEF InShared
  <2>2. At(a, i) \in {At(b, j) : b \in A, j \in Pid}
    <3> HIDE DEF At, A
    <3> QED
      BY <2>1
  <2>3. <<a, i, k>> \in UNION {At(b, j) : b \in A, j \in Pid}
    <3> HIDE DEF At, A
    <3> QED
      BY <2>1, <2>2
  <2>4. <<a, i, k>> \in Places(x)
    BY <2>3 DEF Places, InArrays
  <2> QED
    BY <2>4 DEF Free
<1> QED
  BY <1>1, <1>2, <1>3 DEF NoPrivate, NoShared

LEMMA GotNewOnce ==
  ASSUME Bookkeeping, NEW g \in Goroutine, GotNew(g), NEW x \in Item, Once(x)
  PROVE  Once(x)'
<1>1. pc[g] = "none" /\ Done(g) /\ UNCHANGED <<globals, arrays, lists>>
  BY DEF GotNew
<1>2. /\ InHand(g)' = None /\ \A h \in Goroutine \ {g} : InHand(h)' = InHand(h)
      /\ \A a \in Array : a \notin Fresh' => a \notin Fresh
  BY <1>1, Left
<1>3. CASE Free(x)
  <2>1. NoHand(x) /\ NoPrivate(x) /\ NoShared(x)
    BY <1>3, FreeIs
  <2>2. NoPrivate(x)' /\ NoShared(x)'
    BY <1>1, <1>2, <2>1 DEF NoPrivate, NoShared, InPrivate, InShared, arrays
  <2>3. NoHand(x)'
    BY <1>2, <2>1, Constants DEF NoHand
  <2> QED
    BY <2>2, <2>3, OnlyHeld
<1>4. CASE ~ Free(x)
  <2>1. \A h \in Goroutine : InHand(h)' = x => InHand(h) = x
    BY <1>2, Constants
  <2>2. x \in held' => x \in held
    BY <1>4 DEF GotNew
  <2> QED
    BY <1>1, <1>2, <2>1, <2>2, NoStore DEF arrays
<1> QED
  BY <1>3, <1>4

\* A new array is empty, and the old one may be lost with what is in it.
LEMMA RegisterOnce ==
  ASSUME Bookkeeping, NEW g \in Goroutine, Register(g), NEW x \in Item, Once(x)
  PROVE  Once(x)'
<1>1. /\ pc[g] = "register" /\ pc' = [pc EXCEPT ![g] = "storeSize"]
      /\ UNCHANGED <<victim, item, held>>
  BY DEF Register, Goto
<1>2. PICK a \in Array :
        /\ private' = [private EXCEPT ![a] = Blank] /\ shared' = [shared EXCEPT ![a] = Drained]
        /\ loc' = [loc EXCEPT ![g].l = a] /\ local' = a
  BY DEF Register, Fresh
<1>3. loc'[g].l = a /\ \A h \in Goroutine \ {g} : loc'[h].l = loc[h].l
  BY <1>2 DEF Bookkeeping, TypeOK
<1>4. \A b \in Array : b \notin Fresh' => b = a \/ b \notin Fresh
  <2> SUFFICES ASSUME NEW b \in Array, b \in LiveArrays', b # a PROVE b \in LiveArrays
    BY DEF Fresh
  <2>1. b = victim \/ \E h \in Goroutine \ {g} : b = loc[h].l
    BY <1>1, <1>2, <1>3 DEF LiveArrays
  <2> QED
    BY <2>1 DEF LiveArrays
<1>5. /\ \A i \in Pid : private'[a][i] = None /\ shared'[a][i] = <<>>
      /\ \A b \in Array \ {a} : private'[b] = private[b] /\ shared'[b] = shared[b]
  BY <1>2 DEF Bookkeeping, TypeOK, Blank, Drained
<1>6. \A b \in Array, i \in Pid : InPrivate(x, b, i)' => InPrivate(x, b, i)
  BY <1>4, <1>5, Constants DEF InPrivate
<1>7. \A b \in Array, i \in Pid, k \in Nat : InShared(x, b, i, k)' => InShared(x, b, i, k)
  BY <1>4, <1>5 DEF InShared
<1>8. \A h \in Goroutine : InHand(h)' = x => InHand(h) = x
  BY <1>1 DEF InHand, Bookkeeping
<1>9. x \in held' => x \in held
  BY <1>1
<1> QED
  BY <1>6, <1>7, <1>8, <1>9, Shrinks

\* What the collector keeps it keeps as it is.
LEMMA poolCleanupOnce ==
  ASSUME Bookkeeping, poolCleanup, NEW x \in Item, Once(x)
  PROVE  Once(x)'
<1> DEFINE kept == {local', victim'} \cup {loc[g].l : g \in Goroutine}
<1>1. Collect(kept) /\ UNCHANGED <<procs, mu, locals, held>>
  BY DEF poolCleanup
<1>2. \A a \in Array : a \notin Fresh' => a \in kept
  BY <1>1 DEF Fresh, LiveArrays, locals
<1> HIDE DEF kept
<1>3. \A a \in Array : a \in kept => private'[a] = private[a] /\ shared'[a] = shared[a]
  BY <1>1 DEF Collect
<1>4. local' \in {local, None} /\ victim' \in {local, victim, None}
  BY DEF poolCleanup
<1>5. \A a \in Array : a \notin Fresh' => a \notin Fresh
  BY <1>1, <1>4, LiveBefore DEF locals
<1>6. \A g \in Goroutine : InHand(g)' = x => InHand(g) = x
  BY <1>1 DEF InHand, locals
<1> QED
  BY <1>1, <1>2, <1>3, <1>5, <1>6, NoStore

\* The other steps of pin, Put and Get put nothing anywhere.
LEMMA PinStepOnce ==
  ASSUME Bookkeeping, NEW g \in Goroutine, PinStep(g), NEW x \in Item, Once(x)
  PROVE  Once(x)'
<1>1. CASE Register(g)
  BY <1>1, RegisterOnce
<1>2. CASE PinLocal(g) \/ PinFast(g) \/ PinSlow(g) \/ Lock(g) \/ Repin(g) \/ StoreSize(g)
  <2>1. /\ UNCHANGED <<local, victim, private, shared, held, item>>
        /\ \A h \in Goroutine \ {g} : pc'[h] = pc[h] /\ loc'[h] = loc[h]
    BY <1>2 DEF PinLocal, PinFast, PinSlow, Lock, Repin, StoreSize, Goto, globals, arrays,
                Bookkeeping, TypeOK
  <2>2. loc'[g].l \in {loc[g].l, local, None}
    <3>1. CASE loc' = loc
      BY <3>1
    <3>2. CASE loc' = [loc EXCEPT ![g].l = local]
      BY <3>2 DEF Bookkeeping, TypeOK
    <3>3. CASE loc' = [loc EXCEPT ![g] = NoLocals]
      BY <3>3, Constants DEF Bookkeeping, TypeOK
    <3> QED
      BY <1>2, <3>1, <3>2, <3>3 DEF PinLocal, PinFast, PinSlow, Lock, Repin, StoreSize
  <2>3. InHand(g)' \in {InHand(g), None}
    <3>1. pc[g] \notin {"clearPrivate", "clearVictim"}
      BY <1>2 DEF PinLocal, PinFast, PinSlow, Lock, Repin, StoreSize
    <3> QED
      BY <2>1, <3>1 DEF InHand
  <2> QED
    BY <2>1, <2>2, <2>3, TakesNothing
<1> QED
  BY <1>1, <1>2 DEF PinStep

LEMMA PutStepOnce ==
  ASSUME Bookkeeping, NEW g \in Goroutine, PutStep(g), NEW x \in Item, Once(x)
  PROVE  Once(x)'
<1>1. CASE PutPrivate(g)
  <2>1. pc[g] = "putPrivate" /\ UNCHANGED <<globals, arrays, lists, item, pin, pid, loc, held>>
        /\ \A h \in Goroutine \ {g} : pc'[h] = pc[h]
    BY <1>1 DEF PutPrivate, Goto, Bookkeeping
  <2>2. InHand(g)' \in {InHand(g), None}
    BY <2>1 DEF InHand
  <2> QED
    BY <2>1, <2>2, TakesNothing DEF globals, arrays
<1> QED
  BY <1>1, StorePrivateOnce, PushSharedOnce DEF PutStep

LEMMA GetStepOnce ==
  ASSUME Bookkeeping, NEW g \in Goroutine, GetStep(g), NEW x \in Item, Once(x)
  PROVE  Once(x)'
<1>1. CASE GetPrivate(g) \/ VictimPrivate(g)
  <2>1. /\ UNCHANGED <<globals, arrays, lists, pin, pid, loc, held>>
        /\ \A h \in Goroutine \ {g} : pc'[h] = pc[h] /\ item'[h] = item[h]
    BY <1>1 DEF GetPrivate, VictimPrivate, Goto, Bookkeeping, TypeOK
  <2>2. InHand(g)' = None
    BY <1>1 DEF GetPrivate, VictimPrivate, Goto, InHand, Bookkeeping, TypeOK
  <2> QED
    BY <2>1, <2>2, TakesNothing DEF globals, arrays
<1>2. CASE ClearPrivate(g) \/ ClearVictim(g)
  <2>1. /\ pc[g] \in {"clearPrivate", "clearVictim"} /\ SetPrivate(g, None)
        /\ UNCHANGED <<globals, shared, item, loc, held>>
    BY <1>2 DEF ClearPrivate, ClearVictim, Emptied
  <2>2. /\ pc'[g] \notin {"clearPrivate", "clearVictim"}
        /\ \A h \in Goroutine \ {g} : pc'[h] = pc[h]
    BY <1>2 DEF ClearPrivate, ClearVictim, Goto, Bookkeeping
  <2> QED
    BY <2>1, <2>2, ClearsOnce
<1>3. CASE SlowSize(g) \/ SlowLocal(g) \/ Victim(g) \/ MarkVictimEmpty(g)
  <2>1. /\ UNCHANGED <<local, victim, private, shared, held, item>>
        /\ \A h \in Goroutine \ {g} : pc'[h] = pc[h] /\ loc'[h] = loc[h]
    BY <1>3 DEF SlowSize, SlowLocal, Victim, MarkVictimEmpty, Goto, globals, arrays, Bookkeeping, TypeOK
  <2>2. loc'[g].l \in {loc[g].l, local, victim}
    <3>1. CASE SlowSize(g)
      <4>1. loc' = [loc EXCEPT ![g].s = localSize]
        BY <3>1 DEF SlowSize
      <4> QED
        BY <4>1 DEF Bookkeeping, TypeOK
    <3>2. CASE SlowLocal(g)
      <4>1. loc' = [loc EXCEPT ![g].l = local]
        BY <3>2 DEF SlowLocal
      <4> QED
        BY <4>1 DEF Bookkeeping, TypeOK
    <3>3. CASE Victim(g)
      BY <3>3 DEF Victim, Bookkeeping, TypeOK
    <3>4. CASE MarkVictimEmpty(g)
      BY <3>4 DEF MarkVictimEmpty
    <3> QED
      BY <1>3, <3>1, <3>2, <3>3, <3>4
  <2>3. InHand(g)' \in {InHand(g), None}
    <3>1. item[g] = None
      BY <1>3, Types DEF SlowSize, SlowLocal, Victim, MarkVictimEmpty, Right, Carries
    <3> QED
      BY <2>1, <3>1 DEF InHand
  <2> QED
    BY <2>1, <2>2, <2>3, TakesNothing
<1>4. CASE StealLocal(g)
  <2>1. pid[g] + loc[g].i + 1 \in Nat
    BY Types
  <2> QED
    BY <1>4, <2>1, StealOnce DEF StealLocal
<1>5. CASE StealVictim(g)
  <2>1. pid[g] + loc[g].i \in Nat
    BY Types
  <2> QED
    BY <1>5, <2>1, StealOnce DEF StealVictim
<1> QED
  BY <1>1, <1>2, <1>3, <1>4, <1>5, PopSharedOnce, GotOnce, GotNewOnce DEF GetStep

LEMMA OnceStays ==
  ASSUME Bookkeeping, [Next]_vars, NEW x \in Item, Once(x)
  PROVE  Once(x)'
<1>1. ASSUME NEW g \in Goroutine, Get(g) PROVE Once(x)'
  <2>1. /\ pc[g] = "idle" /\ pc' = [pc EXCEPT ![g] = "pinLocal"]
        /\ loc' = [loc EXCEPT ![g].s = localSize]
        /\ UNCHANGED <<globals, arrays, item, held>>
    BY <1>1 DEF Get, PinSize, Goto
  <2>2. /\ \A h \in Goroutine \ {g} : pc'[h] = pc[h]
        /\ \A h \in Goroutine : loc'[h].l = loc[h].l
    BY <2>1 DEF Bookkeeping, TypeOK
  <2>3. InHand(g)' = InHand(g)
    BY <2>1 DEF InHand, Bookkeeping
  <2> QED
    BY <2>1, <2>2, <2>3, TakesNothing DEF globals, arrays
<1>2. ASSUME NEW y \in Item, Drop(y) PROVE Once(x)'
  <2>1. UNCHANGED <<globals, arrays, locals>> /\ (x \in held' => x \in held)
    BY <1>2 DEF Drop
  <2> QED
    BY <2>1, NoStore DEF globals, arrays, locals, InHand, Fresh, LiveArrays
<1>3. CASE SetProcs
  BY <1>3, NoStore DEF SetProcs, arrays, locals, InHand, Fresh, LiveArrays
<1>4. CASE UNCHANGED vars
  BY <1>4, NoStore DEF vars, globals, arrays, locals, InHand, Fresh, LiveArrays
<1> QED
  BY <1>1, <1>2, <1>3, <1>4, PutOnce, PinStepOnce, PutStepOnce, GetStepOnce, poolCleanupOnce DEF Next

LEMMA OnceBegins ==
  ASSUME Init, NEW x \in Item
  PROVE  Once(x)
<1>1. /\ held = {} /\ \A g \in Goroutine : InHand(g) = None
      /\ \A g \in Goroutine : loc[g].l = None
  BY Constants DEF Init, InHand
<1>2. \A a \in Array : a \in Fresh
  BY <1>1, Constants DEF Init, Fresh, LiveArrays
<1> QED
  BY <1>1, <1>2, Constants DEF Once, InPrivate, InShared

\* The inductive invariant holds, in every execution of the pool.
THEOREM Invariance == Spec => []IInv
<1>1. Init => IInv
  BY BookkeepingBegins, OnceBegins DEF IInv
<1>2. IInv /\ [Next]_vars => IInv'
  BY BookkeepingStays, OnceStays DEF IInv
<1> QED
  BY <1>1, <1>2, PTL DEF Spec

-----------------------------------------------------------------------------
(***************************************************************************)
(* What the pool promises.                                                 *)
(***************************************************************************)
\* The pool's fields agree with each other and with the lists of pools, and no
\* index is out of range of its array although pin and getSlow load local and
\* localSize separately (pool.go:175-178).
THEOREM FieldsAreRight == Spec => []FieldsRight
<1>1. IInv => FieldsRight
  <2> SUFFICES ASSUME Bookkeeping PROVE FieldsRight
    BY DEF IInv
  <2>1. ASSUME NEW g \in Goroutine, OwnSlot(g)
        PROVE  loc[g].l # None /\ pid[g] < len[loc[g].l]
    BY <2>1 DEF Bookkeeping, Right, Sized
  <2>2. ASSUME NEW g \in Goroutine, pc[g] \in {"steal", "victimSteal"}, loc[g].s > 0
        PROVE  loc[g].l # None /\ loc[g].s <= len[loc[g].l]
    BY <2>2, Types DEF Right, Sized, Fits
  <2> QED
    BY <2>1, <2>2 DEF FieldsRight, IndexInRange, OwnSlot, Bookkeeping
<1> QED
  BY <1>1, Invariance, PTL

\* A poolLocal has one user at a time, so that the unsynchronized private field
\* and the producer's end of its poolChain are never used by two goroutines.
THEOREM OneProducer == Spec => []SingleProducer
<1>1. IInv => SingleProducer
  <2> SUFFICES ASSUME Bookkeeping, NEW g \in Goroutine, NEW h \in Goroutine,
                      g # h, OwnSlot(g), OwnSlot(h)
               PROVE  <<loc[g].l, pid[g]>> # <<loc[h].l, pid[h]>>
    BY DEF IInv, SingleProducer
  <2>1. pid[g] # pid[h]
    BY OwnFields DEF OwnSlot, Unpinned
  <2> QED
    BY <2>1
<1> QED
  BY <1>1, Invariance, PTL

\* A set of at most one element.
LEMMA AtMostOne ==
  ASSUME NEW S, \A v, w \in S : v = w
  PROVE  Cardinality(S) \in 0 .. 1 /\ (S = {} => Cardinality(S) = 0)
<1>1. CASE S = {}
  BY <1>1, FS_EmptySet
<1>2. CASE S # {}
  <2>1. PICK v : S = {v}
    BY <1>2
  <2>2. Cardinality({v}) = 1
    BY FS_Singleton
  <2> QED
    BY <1>2, <2>1, <2>2
<1> QED
  BY <1>1, <1>2

\* A place is a private field or a position of a shared list.
LEMMA PlaceIs ==
  ASSUME Bookkeeping, NEW x, NEW w \in Places(x)
  PROVE  \/ \E a \in Array, i \in Pid : w = <<a, i>> /\ InPrivate(x, a, i)
         \/ \E a \in Array, i \in Pid, k \in Nat : w = <<a, i, k>> /\ InShared(x, a, i, k)
<1> DEFINE At(b, j) == {<<b, j, n>> : n \in {n \in DOMAIN shared[b][j] : shared[b][j][n] = x}}
           A == Array \ Fresh
           F == {v \in A \X Pid : private[v[1]][v[2]] = x}
<1>1. w \in F \/ w \in UNION {At(b, j) : b \in A, j \in Pid}
  BY DEF Places, InArrays
<1>2. CASE w \in F
  <2>1. PICK a \in A, i \in Pid : w = <<a, i>>
    BY <1>2
  <2>2. private[a][i] = x
    BY <1>2, <2>1
  <2> QED
    BY <2>1, <2>2 DEF InPrivate
<1>3. CASE w \in UNION {At(b, j) : b \in A, j \in Pid}
  <2>1. PICK a \in A, i \in Pid : w \in At(a, i)
    <3> HIDE DEF At, A
    <3> QED
      BY <1>3
  <2>2. PICK k \in DOMAIN shared[a][i] : w = <<a, i, k>> /\ shared[a][i][k] = x
    BY <2>1
  <2>3. k \in Nat
    <3>1. PICK s \in Seq(Item) : s = shared[a][i]
      BY <2>1 DEF Bookkeeping, TypeOK
    <3> QED
      BY <2>2, <3>1
  <2> QED
    BY <2>1, <2>2, <2>3 DEF InShared
<1> QED
  BY <1>1, <1>2, <1>3

\* An item is with one user, in one operation or at one place of an array in
\* use: two calls of Get never return the same item unless it was put back.
THEOREM HandedOutOnceAlways == Spec => []HandedOutOnce
<1>1. IInv => HandedOutOnce
  <2> SUFFICES ASSUME Bookkeeping, NEW x \in Item, Once(x)
               PROVE  (IF x \in held THEN 1 ELSE 0) + Cardinality({g \in Goroutine : InHand(g) = x})
                        + Cardinality(Places(x)) <= 1
    BY DEF IInv, HandedOutOnce
  <2> DEFINE H == {g \in Goroutine : InHand(g) = x}
             P == Places(x)
  <2>1. x \in held => H = {}
    BY DEF Once
  <2>2. \A g, h \in H : g = h
    BY DEF Once
  <2>3. ASSUME NEW w \in P PROVE x \notin held /\ H = {}
    BY <2>3, PlaceIs DEF Once
  <2>4. ASSUME NEW v \in P, NEW w \in P PROVE v = w
    <3>1. CASE \E a \in Array, i \in Pid : v = <<a, i>> /\ InPrivate(x, a, i)
      <4>1. PICK a \in Array, i \in Pid : v = <<a, i>> /\ InPrivate(x, a, i)
        BY <3>1
      <4>2. NoShared(x) /\ \A b \in Array, j \in Pid : InPrivate(x, b, j) => a = b /\ i = j
        BY <4>1, Elsewhere
      <4> QED
        BY <2>4, <4>1, <4>2, PlaceIs DEF NoShared
    <3>2. CASE \E a \in Array, i \in Pid, k \in Nat : v = <<a, i, k>> /\ InShared(x, a, i, k)
      <4>1. PICK a \in Array, i \in Pid, k \in Nat : v = <<a, i, k>> /\ InShared(x, a, i, k)
        BY <3>2
      <4>2. /\ NoPrivate(x)
            /\ \A b \in Array, j \in Pid, l \in Nat : InShared(x, b, j, l) => a = b /\ i = j /\ k = l
        BY <4>1, Elsewhere
      <4> QED
        BY <2>4, <4>1, <4>2, PlaceIs DEF NoPrivate
    <3> QED
      BY <2>4, <3>1, <3>2, PlaceIs
  <2> HIDE DEF H, P
  <2>5. /\ Cardinality(H) \in 0 .. 1 /\ (H = {} => Cardinality(H) = 0)
        /\ Cardinality(P) \in 0 .. 1 /\ (P = {} => Cardinality(P) = 0)
    BY <2>2, <2>4, AtMostOne
  <2>6. (IF x \in held THEN 1 ELSE 0) + Cardinality(H) + Cardinality(P) <= 1
    BY <2>1, <2>3, <2>5
  <2> QED
    BY <2>6 DEF H, P
<1> QED
  BY <1>1, Invariance, PTL

=============================================================================
